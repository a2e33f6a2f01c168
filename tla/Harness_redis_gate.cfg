\* Sessions in Redis that answers: two messages to one thread.
SPECIFICATION HarnessSpec
CONSTANTS
    Suspends = {"sessions"}
    SessionsFail = FALSE
    RecordsFail = FALSE
    Decider = {}
    Resumer = {}
    Pauser = {}
    Appender = {}
    Chat = {c1, c2}
    Author = {c1, c2}
    Review = {r1, r2}
    Thread = {t1}
    Sayable <- RiskyOrPlain
    Configurations <- OnlyAgentsYaml
    NoThread = NoThread
    NoReview = NoReview
    NoOne = NoOne
SYMMETRY Symmetry
INVARIANTS
    HighRiskWaitsForHuman
CHECK_DEADLOCK FALSE

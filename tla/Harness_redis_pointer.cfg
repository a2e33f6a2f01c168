\* Sessions in Redis that answers: a message to a thread whose review is being
\* resumed.
SPECIFICATION HarnessSpec
CONSTANTS
    Suspends = {"sessions"}
    SessionsFail = FALSE
    RecordsFail = FALSE
    Decider = {d1}
    Resumer = {p1}
    Pauser = {}
    Appender = {}
    Chat = {c1, c2}
    Author = {p1, c1, c2}
    Review = {r1, r2}
    Thread = {t1}
    Sayable <- RiskyOrPlain
    Configurations <- OnlyAgentsYaml
    NoThread = NoThread
    NoReview = NoReview
    NoOne = NoOne
SYMMETRY Symmetry
INVARIANTS
    QuietSessionPointsAtOpenReview
CHECK_DEADLOCK FALSE

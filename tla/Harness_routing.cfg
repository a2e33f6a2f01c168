\* The wiring of today: every utterance the router tells apart.
SPECIFICATION HarnessSpec
CONSTANTS
    Suspends = {}
    SessionsFail = FALSE
    RecordsFail = FALSE
    Decider = {d1, d2}
    Resumer = {p1}
    Pauser = {}
    Appender = {}
    Chat = {c1, c2}
    Author = {p1, c1, c2}
    Review = {r1, r2}
    Thread = {t1}
    Sayable <- AnyUtterance
    Configurations <- OnlyAgentsYaml
    NoThread = NoThread
    NoReview = NoReview
    NoOne = NoOne
SYMMETRY Symmetry
INVARIANTS
    ConnectionQuestionGoesToResearcher
CHECK_DEADLOCK FALSE

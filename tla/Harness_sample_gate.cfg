\* The configuration of docs/04: agents that may not ask for a review.
SPECIFICATION HarnessSpec
CONSTANTS
    Suspends = {}
    SessionsFail = FALSE
    RecordsFail = FALSE
    Decider = {d1, d2}
    Resumer = {p1}
    Pauser = {}
    Appender = {}
    Chat = {c1, c2}
    Author = {p1, c1, c2}
    Review = {r1, r2}
    Thread = {t1}
    Sayable <- RiskyOrGeneral
    Configurations <- OnlySample
    NoThread = NoThread
    NoReview = NoReview
    NoOne = NoOne
SYMMETRY Symmetry
INVARIANTS
    HighRiskWaitsForHuman
CHECK_DEADLOCK FALSE

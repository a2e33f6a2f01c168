\* The wiring of today: two high-risk messages to one thread open two reviews,
\* and one of them is resumed.
SPECIFICATION HarnessSpec
CONSTANTS
    Suspends = {}
    SessionsFail = FALSE
    RecordsFail = FALSE
    Decider = {d1}
    Resumer = {p1}
    Pauser = {}
    Appender = {}
    Chat = {c1, c2}
    Author = {p1, c1, c2}
    Review = {r1, r2}
    Thread = {t1}
    Sayable <- RiskyOrPlain
    Configurations <- OnlyAgentsYaml
    NoThread = NoThread
    NoReview = NoReview
    NoOne = NoOne
SYMMETRY Symmetry
INVARIANTS
    OpenReviewIsActive
CHECK_DEADLOCK FALSE

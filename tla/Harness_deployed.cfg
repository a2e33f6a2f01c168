\* The wiring of harness/factory.py: one InMemoryStores, agents.yaml as it is.
\* Three chats, two verdicts, a resumption and an append_fact, in two threads.
SPECIFICATION HarnessSpec
CONSTANTS
    Suspends = {}
    SessionsFail = FALSE
    RecordsFail = FALSE
    Decider = {d1, d2}
    Resumer = {p1}
    Pauser = {}
    Appender = {a1}
    Chat = {c1, c2, c3}
    Author = {p1, c1, c2, c3, a1}
    Review = {r1, r2, r3}
    Thread = {t1, t2}
    Sayable <- RiskyOrPlain
    Configurations <- OnlyAgentsYaml
    NoThread = NoThread
    NoReview = NoReview
    NoOne = NoOne
SYMMETRY Symmetry
INVARIANTS
    HarnessTypeOK
    GateJudgesOwnMessage
    SessionAgreesWithTranscript
    QuietSessionPointsAtOpenReview
    UserMessageAnswered
    FactsKept
    DeployedInv
CHECK_DEADLOCK FALSE

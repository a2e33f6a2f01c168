\* Every store is a server of its own and every call of one suspends; those of the
\* record stores and the tools may fail: two chats and a resumption interleave
\* freely, sessions expire and the process is restarted once.
SPECIFICATION BackendSpec
CONSTANTS
    Suspends = {"records", "sessions"}
    SessionsFail = FALSE
    RecordsFail = TRUE
    Decider = {d1}
    Resumer = {p1}
    Pauser = {}
    Appender = {}
    Chat = {c1, c2}
    Author = {p1, c1, c2}
    Review = {r1, r2}
    Thread = {t1, t2}
    Sayable <- RiskyOrPlain
    Configurations <- OnlyAgentsYaml
    SkillDirs <- OnlyOneSkill
    Environments <- Lenient
    MaxRestarts = 1
    NoThread = NoThread
    NoReview = NoReview
    NoOne = NoOne
    NoService = NoService
SYMMETRY Symmetry
INVARIANTS
    ForeignKeysHold
    ReviewQuotesTranscript
    HandoffClosed
    HarnessInv
PROPERTIES
    OnlyFailureAbandons
    ImplementsLifecycle
CHECK_DEADLOCK FALSE

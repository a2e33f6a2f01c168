\* Sessions in Redis outlive the process, reviews do not, and every call of Redis may
\* fail: two chats before and after a restart, under any configuration, the mistaken
\* ones included.
SPECIFICATION BackendSpec
CONSTANTS
    Suspends = {"sessions"}
    SessionsFail = TRUE
    RecordsFail = FALSE
    Decider = {d1, d2}
    Resumer = {p1}
    Pauser = {}
    Appender = {}
    Chat = {c1, c2}
    Author = {p1, c1, c2}
    Review = {r1, r2}
    Thread = {t1, t2}
    Sayable <- RiskyOrGeneral
    Configurations <- AnyConfiguration
    SkillDirs <- OneBadSkill
    Environments <- Lenient
    MaxRestarts = 1
    NoThread = NoThread
    NoReview = NoReview
    NoOne = NoOne
    NoService = NoService
SYMMETRY Symmetry
INVARIANTS
    BackendTypeOK
    VerdictStands
    SessionPointsIntoItsThread
PROPERTIES
    StartedServiceServesItsAgents
    OnlyFailureLosesLifetime
CHECK_DEADLOCK FALSE

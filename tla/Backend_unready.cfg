\* The wiring of today, every dependency configured and checked by /ready, and
\* agents.yaml or a skill possibly mistaken.
SPECIFICATION BackendSpec
CONSTANTS
    Suspends = {}
    SessionsFail = FALSE
    RecordsFail = FALSE
    Decider = {d1, d2}
    Resumer = {p1}
    Pauser = {}
    Appender = {}
    Chat = {c1, c2}
    Author = {p1, c1, c2}
    Review = {r1, r2}
    Thread = {t1, t2}
    Sayable <- RiskyOrGeneral
    Configurations <- AnyConfiguration
    SkillDirs <- OneBadSkill
    Environments <- Strict
    MaxRestarts = 0
    NoThread = NoThread
    NoReview = NoReview
    NoOne = NoOne
    NoService = NoService
SYMMETRY Symmetry
INVARIANTS
    ReadyServiceServes
CHECK_DEADLOCK FALSE

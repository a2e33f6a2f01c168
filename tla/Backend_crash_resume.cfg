\* Stores that outlive the process, killed once: a review whose decision has been
\* consumed and not carried out.
SPECIFICATION BackendSpec
CONSTANTS
    Suspends = {"records", "sessions"}
    SessionsFail = FALSE
    RecordsFail = FALSE
    Decider = {d1}
    Resumer = {p1}
    Pauser = {}
    Appender = {}
    Chat = {c1}
    Author = {p1, c1}
    Review = {r1}
    Thread = {t1}
    Sayable <- RiskyOrPlain
    Configurations <- OnlyAgentsYaml
    SkillDirs <- OnlyOneSkill
    Environments <- Lenient
    MaxRestarts = 1
    NoThread = NoThread
    NoReview = NoReview
    NoOne = NoOne
    NoService = NoService
SYMMETRY Symmetry
INVARIANTS
    ConsumedReviewIsCarriedOut
CHECK_DEADLOCK FALSE

\* Every store call suspends and those of the session store may fail, under
\* agents.yaml or the sample of docs/04, which has no main agent: a chat, two
\* resumptions and an appended fact are each answered, and every consumed review
\* is finished.
SPECIFICATION HarnessFairSpec
CONSTANTS
    Suspends = {"records", "sessions"}
    SessionsFail = TRUE
    RecordsFail = FALSE
    Decider = {d1}
    Resumer = {p1, p2}
    Pauser = {}
    Appender = {a1}
    Chat = {c1}
    Author = {p1, p2, a1, c1}
    Review = {r1}
    Thread = {t1}
    Sayable <- RiskyPlainOrGeneral
    Configurations <- AgentsYamlOrSample
    NoThread = NoThread
    NoReview = NoReview
    NoOne = NoOne
PROPERTIES
    CallsAreAnswered
    ConsumedReviewFinishes
    ImplementsLifecycle
CHECK_DEADLOCK FALSE

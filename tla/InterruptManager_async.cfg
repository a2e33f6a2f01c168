\* Every call suspends and may fail: two approvals or rejections, two resumptions
\* and two pauses race over two reviews and threads.
SPECIFICATION Spec
CONSTANTS
    Suspends = {"records", "sessions"}
    SessionsFail = TRUE
    RecordsFail = TRUE
    Decider = {d1, d2}
    Resumer = {p1, p2}
    Pauser = {q1, q2}
    Author = {p1, p2, q1, q2}
    Review = {r1, r2}
    Thread = {t1, t2}
    NoThread = NoThread
    NoReview = NoReview
    NoOne = NoOne
SYMMETRY Symmetry
INVARIANTS
    TypeOK
    IInv
    VerdictStands
    ConsumedOnce
    FinishNeverRefused
    AnswersMatchVerdict
PROPERTIES
    ImplementsLifecycle
CHECK_DEADLOCK FALSE

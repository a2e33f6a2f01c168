----------------------------- MODULE ReviewStore -----------------------------
(***************************************************************************)
(* The reviews of InMemoryStores (stores/memory.py), and the checks each   *)
(* of its operations makes before it writes.                               *)
(***************************************************************************)
EXTENDS Records

VARIABLE reviews    \* the dictionary review_id -> ReviewRecord

NoRecord == [status |-> "absent", thread |-> NoThread, action |-> NoText]

ReviewsInit == reviews = [r \in Review |-> NoRecord]

Known(r) == reviews[r].status \notin {"absent", "lost"}

\* A bug new_id would have if it counted from one in each process.
FreshAnew(r) == ~Known(r)

\* new_id never gives an identifier twice, to this process or another.
Fresh(r) == reviews[r].status = "absent"

CreateReview(r, t, action) ==
    /\ Fresh(r)
    /\ reviews' = [reviews EXCEPT ![r] =
            [status |-> "pending", thread |-> t, action |-> action]]

\* A bug decide_review would have if it let a decision be changed.
CanDecideAgain(r) == reviews[r].status \in {"pending", "approved", "rejected"}

CanDecide(r) == reviews[r].status = "pending"

\* A bug mark_resumed and resume_after_review would have if a review could be
\* resumed again.
CanResumeAgain(r) == reviews[r].status \in Decision \cup {"resumed"}

CanResume(r) == reviews[r].status \in Decision

SetStatus(r, status) == reviews' = [reviews EXCEPT ![r].status = status]
=============================================================================

------------------------------- MODULE Records -------------------------------
(***************************************************************************)
(* The identifiers and texts that the records of stores/models.py hold.    *)
(***************************************************************************)
CONSTANTS
    Thread,         \* thread identifiers
    Review,         \* review identifiers
    Author,         \* the calls that write texts and facts: coroutines
    NoThread,       \* the thread of a review that does not exist
    NoReview        \* None where a review identifier is expected

ASSUME RecordsAssumption ==
    /\ NoThread \notin Thread
    /\ NoThread \notin Author
    /\ NoReview \notin Review

\* A text is known by who wrote it and by whether RiskGate finds a high-risk
\* keyword in it (harness/risk.py).
Text == [author : Author, risky : BOOLEAN]
NoText == [author |-> NoThread, risky |-> FALSE]

\* ReviewStatus.  Of the identifiers the store does not hold, "absent" stands for
\* one that was never given, and "lost" for one whose review is gone with the
\* process that kept it; "expired" is left out, as no code assigns it.
Decision == {"approved", "rejected"}
Final == {"completed", "cancelled"}
Status == {"absent", "lost", "pending", "resumed"} \cup Decision \cup Final

ReviewRecord ==
    [status : Status, thread : Thread \cup {NoThread}, action : Text \cup {NoText}]

\* metadata.review_id and metadata.review_status are set by resume alone.
Message ==
    [thread : Thread, role : {"user", "assistant"}, text : Text,
     review : Review \cup {NoReview}, status : Final \cup {"none"}]
=============================================================================

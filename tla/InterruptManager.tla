-------------------------- MODULE InterruptManager --------------------------
(***************************************************************************)
(* Human review of a high-risk action: InterruptManager                    *)
(* (harness/interrupts.py) over the review, message and session stores,    *)
(* and the three HTTP handlers of api/reviews.py that decide and resume a  *)
(* review.  Each element of Decider, Resumer and Pauser is one call, a     *)
(* coroutine of the event loop; clients may approve, reject and resume the *)
(* same review at once, and send any call twice.                           *)
(***************************************************************************)
EXTENDS SessionStore, ReviewStore, Naturals

CONSTANTS
    Decider,        \* calls of POST /reviews/{id}/approve and /reject
    Resumer,        \* calls of POST /reviews/{id}/resume
    Pauser          \* callers of pause_for_review that pass a memory store

ASSUME InterruptManagerAssumption ==
    /\ Resumer \cup Pauser \subseteq Author
    /\ NoOne \notin Author

VARIABLES
    messages,       \* the transcript of all threads, in order
    decide,         \* what each decider was answered, and the verdict it gave
    resume,         \* where each resumer is, and its local variables
    pause           \* where each pauser is, and its review

stores == <<reviews, messages, sessions, lifetime>>
managerVars == <<stores, turn, decide, resume, pause>>

\* A bug resume_after_review would have if it wrote a status no ReviewStatus is.
FinalStatusMisnamed(decision) == IF decision = "approved" THEN "done" ELSE "cancelled"

\* The final status resume_after_review gives to a decision.
FinalStatus(decision) == IF decision = "approved" THEN "completed" ELSE "cancelled"

-----------------------------------------------------------------------------
\* Types and initial states

DecideCall ==
    [review : Review \cup {NoReview}, status : Decision \cup {"none"},
     reply : {"none", "200", "404", "409", "500"}]

ResumeCall ==
    [at : {"idle", "mark_resumed", "finish_review", "add_message",
           "load", "save", "refresh", "replied"},
     review : Review \cup {NoReview}, decision : Decision \cup {"none"},
     memory : Memory, reply : {"none", "200", "404", "409", "500"}]

PauseCall ==
    [at : {"idle", "load", "save", "refresh", "replied"},
     review : Review \cup {NoReview}, memory : Memory]

TypeOK ==
    /\ turn \in Author \cup {NoOne}
    /\ reviews \in [Review -> ReviewRecord]
    /\ sessions \in [Thread -> Memory]
    /\ lifetime \in [Thread -> {"absent", "kept", "expiring"}]
    /\ messages \in Seq(Message)
    /\ decide \in [Decider -> DecideCall]
    /\ resume \in [Resumer -> ResumeCall]
    /\ pause \in [Pauser -> PauseCall]

Init ==
    /\ turn = NoOne
    /\ ReviewsInit
    /\ SessionsInit
    /\ messages = <<>>
    /\ decide = [d \in Decider |->
            [review |-> NoReview, status |-> "none", reply |-> "none"]]
    /\ resume = [p \in Resumer |->
            [at |-> "idle", review |-> NoReview, decision |-> "none",
             memory |-> NewMemory, reply |-> "none"]]
    /\ pause = [p \in Pauser |->
            [at |-> "idle", review |-> NoReview, memory |-> NewMemory]]

-----------------------------------------------------------------------------
\* approve_review and reject_review: one call of decide_review.

Decided(d, r, status, reply) ==
    decide' = [decide EXCEPT ![d] = [review |-> r, status |-> status, reply |-> reply]]

DecideReview(d, r, status) ==
    /\ decide[d].reply = "none"
    /\ turn = NoOne
    /\ CanDecide(r)
    /\ SetStatus(r, status)
    /\ Decided(d, r, status, "200")
    /\ UNCHANGED <<turn, messages, sessionVars, resume, pause>>

\* A call that decides nothing is told by its answer alone.
DecideRefused(d, r) ==
    /\ decide[d].reply = "none"
    /\ turn = NoOne
    /\ ~CanDecide(r)
    /\ Decided(d, NoReview, "none", IF Known(r) THEN "409" ELSE "404")
    /\ UNCHANGED <<stores, turn, resume, pause>>

\* The review store raises what neither handler catches.
DecideFails(d) ==
    /\ RecordsFail
    /\ decide[d].reply = "none"
    /\ turn = NoOne
    /\ Decided(d, NoReview, "none", "500")
    /\ UNCHANGED <<stores, turn, resume, pause>>

-----------------------------------------------------------------------------
\* resume_review: resume_after_review, one action per call it awaits.

\* The store each label's next call goes to.
StoreOf(at) ==
    IF at \in {"load", "save", "refresh"} THEN "sessions" ELSE "records"

\* p goes on to the call `next`.
ResumeGoto(p, here, next) ==
    /\ resume' = [resume EXCEPT ![p].at = next]
    /\ Continue(p, StoreOf(here), StoreOf(next))

ResumeReply(p, code) ==
    /\ resume' = [resume EXCEPT ![p] =
            [at |-> "replied", review |-> @.review, decision |-> @.decision,
             memory |-> NewMemory, reply |-> code]]
    /\ Finish

\* get_review finds a decided review; its decision goes into a local variable.
ResumeGetReview(p, r) ==
    /\ resume[p].at = "idle"
    /\ turn = NoOne
    /\ CanResume(r)
    /\ resume' = [resume EXCEPT ![p] =
            [at |-> "mark_resumed", review |-> r,
             decision |-> reviews[r].status, memory |-> NewMemory, reply |-> "none"]]
    /\ Continue(p, "records", "records")
    /\ UNCHANGED <<stores, decide, pause>>

\* p is answered with no decision read.
ResumeTurnedAway(p, r, code) ==
    /\ resume[p].at = "idle"
    /\ turn = NoOne
    /\ resume' = [resume EXCEPT ![p] =
            [at |-> "replied", review |-> r, decision |-> "none", memory |-> NewMemory,
             reply |-> code]]
    /\ UNCHANGED <<stores, turn, decide, pause>>

\* get_review finds none (404), or one that cannot be resumed (409).
ResumeRefused(p, r) ==
    ~CanResume(r) /\ ResumeTurnedAway(p, r, IF Known(r) THEN "409" ELSE "404")

\* get_review raises.
ResumeGetFails(p, r) == RecordsFail /\ ResumeTurnedAway(p, r, "500")

ResumeMarkResumed(p) ==
    LET r == resume[p].review IN
    /\ resume[p].at = "mark_resumed"
    /\ MayRun(p)
    /\ CanResume(r)
    /\ SetStatus(r, "resumed")
    /\ ResumeGoto(p, "mark_resumed", "finish_review")
    /\ UNCHANGED <<messages, sessionVars, decide, pause>>

\* mark_resumed finds that another call was first; its ValueError is neither
\* of the two exceptions resume_review catches.
ResumeLosesRace(p) ==
    /\ resume[p].at = "mark_resumed"
    /\ MayRun(p)
    /\ ~CanResume(resume[p].review)
    /\ ResumeReply(p, "500")
    /\ UNCHANGED <<stores, decide, pause>>

\* A bug resume_after_review would have if it took the final status from the
\* review it has just marked, or did not finish the review at all.
ResumeFinishAsMarked(p) ==
    LET r == resume[p].review IN
    /\ resume[p].at = "finish_review"
    /\ MayRun(p)
    /\ SetStatus(r, FinalStatus(reviews[r].status))
    /\ ResumeGoto(p, "finish_review", "add_message")
    /\ UNCHANGED <<messages, sessionVars, decide, pause>>

ResumeFinishForgotten(p) ==
    /\ resume[p].at = "finish_review"
    /\ MayRun(p)
    /\ ResumeGoto(p, "finish_review", "add_message")
    /\ UNCHANGED <<stores, decide, pause>>

\* finish_review refuses a review that is not "resumed"; the run checks that
\* it never has to (FinishNeverRefused).
ResumeFinishReview(p) ==
    LET r == resume[p].review IN
    /\ resume[p].at = "finish_review"
    /\ MayRun(p)
    /\ reviews[r].status = "resumed"
    /\ SetStatus(r, FinalStatus(resume[p].decision))
    /\ ResumeGoto(p, "finish_review", "add_message")
    /\ UNCHANGED <<messages, sessionVars, decide, pause>>

\* The answer quotes the action that was approved, and nothing if it was not.
AnswerTo(p) ==
    [thread |-> reviews[resume[p].review].thread,
     role   |-> "assistant",
     text   |-> [author |-> p,
                 risky  |-> /\ resume[p].decision = "approved"
                            /\ reviews[resume[p].review].action.risky],
     review |-> resume[p].review,
     status |-> reviews[resume[p].review].status]

ResumeAddMessage(p) ==
    /\ resume[p].at = "add_message"
    /\ MayRun(p)
    /\ messages' = Append(messages, AnswerTo(p))
    /\ ResumeGoto(p, "add_message", "load")
    /\ UNCHANGED <<reviews, sessionVars, decide, pause>>

\* p goes on to save `memory`.
ResumeLoaded(p, memory) ==
    /\ resume' = [resume EXCEPT ![p] =
            [at |-> "save", review |-> @.review, decision |-> @.decision,
             memory |-> memory, reply |-> @.reply]]
    /\ Continue(p, "sessions", "sessions")

\* A bug resume_after_review would have if it left the pointer alone.
ResumeLoadUncleared(p) ==
    /\ resume[p].at = "load"
    /\ MayRun(p)
    /\ ResumeLoaded(p, Load(reviews[resume[p].review].thread))
    /\ UNCHANGED <<stores, decide, pause>>

\* The pointer is cleared in the copy that was loaded.
ResumeLoadMemory(p) ==
    /\ resume[p].at = "load"
    /\ MayRun(p)
    /\ ResumeLoaded(p, [Load(reviews[resume[p].review].thread)
                            EXCEPT !.review = NoReview])
    /\ UNCHANGED <<stores, decide, pause>>

ResumeSaveMemory(p) ==
    /\ resume[p].at = "save"
    /\ MayRun(p)
    /\ Save(reviews[resume[p].review].thread, resume[p].memory)
    /\ IF AfterSave = "refresh" THEN ResumeGoto(p, "save", "refresh")
                                ELSE ResumeReply(p, "200")
    /\ UNCHANGED <<reviews, messages, decide, pause>>

ResumeRefreshMemory(p) ==
    /\ resume[p].at = "refresh"
    /\ MayRun(p)
    /\ Refresh(reviews[resume[p].review].thread)
    /\ ResumeReply(p, "200")
    /\ UNCHANGED <<reviews, messages, decide, pause>>

\* A call of the session store raises: the client gets a 500, and what the
\* handler has already done stays done.
ResumeSessionFails(p) ==
    /\ SessionsFail
    /\ resume[p].at \in {"load", "save", "refresh"}
    /\ MayRun(p)
    /\ ResumeReply(p, "500")
    /\ UNCHANGED <<stores, decide, pause>>

\* mark_resumed, finish_review or add_message raises.  Nothing catches it, and
\* nothing undoes the call before it.
ResumeRecordFails(p) ==
    /\ RecordsFail
    /\ resume[p].at \in {"mark_resumed", "finish_review", "add_message"}
    /\ MayRun(p)
    /\ ResumeReply(p, "500")
    /\ UNCHANGED <<stores, decide, pause>>

ResumeStep(p) ==
    \/ ResumeMarkResumed(p)
    \/ ResumeLosesRace(p)
    \/ ResumeFinishReview(p)
    \/ ResumeAddMessage(p)
    \/ ResumeLoadMemory(p)
    \/ ResumeSaveMemory(p)
    \/ ResumeRefreshMemory(p)
    \/ ResumeSessionFails(p)
    \/ ResumeRecordFails(p)

-----------------------------------------------------------------------------
\* pause_for_review with a memory store.

PauseGoto(p, here, next) ==
    /\ pause' = [pause EXCEPT ![p].at = next]
    /\ Continue(p, StoreOf(here), StoreOf(next))

PauseReply(p) ==
    /\ pause' = [pause EXCEPT ![p] =
            [at |-> "replied", review |-> @.review, memory |-> NewMemory]]
    /\ Finish

\* Any action may be proposed: pause_for_review does not ask RiskGate whether
\* the action needs a review, only why.
PauseCreateReview(p, r, t, risky) ==
    /\ pause[p].at = "idle"
    /\ turn = NoOne
    /\ CreateReview(r, t, [author |-> p, risky |-> risky])
    /\ pause' = [pause EXCEPT ![p] =
            [at |-> "load", review |-> r, memory |-> NewMemory]]
    /\ Continue(p, "records", "sessions")
    /\ UNCHANGED <<messages, sessionVars, decide, resume>>

\* create_review raises.
PauseCreateFails(p) ==
    /\ RecordsFail
    /\ pause[p].at = "idle"
    /\ turn = NoOne
    /\ PauseReply(p)
    /\ UNCHANGED <<stores, decide, resume>>

PauseLoadMemory(p) ==
    LET loaded == Load(reviews[pause[p].review].thread) IN
    /\ pause[p].at = "load"
    /\ MayRun(p)
    /\ pause' = [pause EXCEPT ![p] =
            [at |-> "save", review |-> @.review,
             memory |-> [loaded EXCEPT !.review = pause[p].review]]]
    /\ Continue(p, "sessions", "sessions")
    /\ UNCHANGED <<stores, decide, resume>>

PauseSaveMemory(p) ==
    /\ pause[p].at = "save"
    /\ MayRun(p)
    /\ Save(reviews[pause[p].review].thread, pause[p].memory)
    /\ IF AfterSave = "refresh" THEN PauseGoto(p, "save", "refresh")
                                ELSE PauseReply(p)
    /\ UNCHANGED <<reviews, messages, decide, resume>>

PauseRefreshMemory(p) ==
    /\ pause[p].at = "refresh"
    /\ MayRun(p)
    /\ Refresh(reviews[pause[p].review].thread)
    /\ PauseReply(p)
    /\ UNCHANGED <<reviews, messages, decide, resume>>

PauseSessionFails(p) ==
    /\ SessionsFail
    /\ pause[p].at \in {"load", "save", "refresh"}
    /\ MayRun(p)
    /\ PauseReply(p)
    /\ UNCHANGED <<stores, decide, resume>>

PauseStep(p) ==
    \/ PauseLoadMemory(p)
    \/ PauseSaveMemory(p)
    \/ PauseRefreshMemory(p)
    \/ PauseSessionFails(p)

-----------------------------------------------------------------------------

\* The time to live was set by an earlier call: it may run out in the middle of
\* a later one.
SessionExpires(t) ==
    /\ turn = NoOne
    /\ Expire(t)
    /\ UNCHANGED <<reviews, messages, turn, decide, resume, pause>>

DeciderNext ==
    \E d \in Decider :
        \/ \E r \in Review :
               DecideRefused(d, r) \/ \E status \in Decision : DecideReview(d, r, status)
        \/ DecideFails(d)

ResumerNext ==
    \E p \in Resumer :
        \/ \E r \in Review :
               ResumeGetReview(p, r) \/ ResumeRefused(p, r) \/ ResumeGetFails(p, r)
        \/ ResumeStep(p)

PauserNext ==
    \E p \in Pauser :
        \/ \E r \in Review, t \in Thread, risky \in BOOLEAN :
               PauseCreateReview(p, r, t, risky)
        \/ PauseCreateFails(p)
        \/ PauseStep(p)

ExpiryNext == \E t \in Thread : SessionExpires(t)

Next == DeciderNext \/ ResumerNext \/ PauserNext \/ ExpiryNext

Spec == Init /\ [][Next]_managerVars

\* The loop runs every coroutine that is ready; no client has to call.
Fairness ==
    /\ \A p \in Resumer : WF_managerVars(ResumeStep(p))
    /\ \A p \in Pauser : WF_managerVars(PauseStep(p))

FairSpec == Spec /\ Fairness

-----------------------------------------------------------------------------
\* Properties

\* The verdict a client was told is the one that stands: whatever approve and
\* reject calls race, one of them at most is answered 200, and the review goes
\* only where that decision leads, until the process that keeps it is gone
\* (decide_review, finish_review, new_id).
VerdictStands ==
    \A d \in Decider : decide[d].reply = "200" =>
        /\ reviews[decide[d].review].status \in
               {decide[d].status, "resumed", FinalStatus(decide[d].status), "lost"}
        /\ \A e \in Decider :
               decide[e].reply = "200" /\ decide[e].review = decide[d].review => e = d

\* p has taken the review from "approved" or "rejected" to "resumed".
Consumed(p) ==
    \/ resume[p].at \in {"finish_review", "add_message", "load", "save", "refresh"}
    \/ resume[p].reply = "200"

\* The decision on a review is consumed by one resume call at most, however
\* many calls have read it as decided before any of them marks it
\* (resume_after_review between get_review and mark_resumed).
ConsumedOnce ==
    \A p, q \in Resumer :
        Consumed(p) /\ Consumed(q) /\ resume[p].review = resume[q].review => p = q

\* The call that marked a review resumed is never refused when it finishes it:
\* the ValueError of finish_review cannot strand a review (finish_review).
FinishNeverRefused ==
    \A p \in Resumer :
        resume[p].at = "finish_review" => reviews[resume[p].review].status = "resumed"

\* A client has been told that this is the decision on r.
Acknowledged(r, decision) ==
    \E d \in Decider : /\ decide[d].reply = "200"
                       /\ decide[d].review = r
                       /\ decide[d].status = decision

\* What the transcript says of a review is what its human decided: in the
\* review's own thread, once, and with the outcome of the acknowledged verdict
\* (the add_message of resume_after_review).
AnswersMatchVerdict ==
    \A i \in DOMAIN messages :
        LET r == messages[i].review IN
        r # NoReview =>
            /\ messages[i].thread = reviews[r].thread
            /\ messages[i].status = reviews[r].status
            /\ \E decision \in Decision : /\ Acknowledged(r, decision)
                                          /\ messages[i].status = FinalStatus(decision)
            /\ \A j \in DOMAIN messages : messages[j].review = r => i = j

\* The reviews the transcript answers.
Answered == {r \in Review : \E i \in DOMAIN messages : messages[i].review = r}

\* A review that is marked resumed is not carried out yet: it stands as its human
\* has decided, and stays so if its call never finishes it.
OutcomeOf(r) ==
    IF reviews[r].status # "resumed" THEN reviews[r].status
    ELSE IF Acknowledged(r, "approved") THEN "approved" ELSE "rejected"

Lifecycle == INSTANCE ReviewLifecycle WITH
                 outcome <- [r \in Review |-> OutcomeOf(r)], answered <- Answered

\* The stores and handlers implement the state machine of docs/07: a decision is
\* carried out once, as it was given, though its record is overwritten before the
\* call that carries it out has finished, and may fail to.
ImplementsLifecycle == Lifecycle!LifecycleSpec

\* Where record stores do not fail, a consumed decision is carried through: the
\* review leaves "resumed", and its thread is answered, even if the session store
\* fails from then on or the session has expired (resume_after_review finishes
\* and answers before it touches the session).
ConsumedReviewFinishes ==
    \A r \in Review :
        reviews[r].status = "resumed" ~> reviews[r].status \in Final /\ r \in Answered

-----------------------------------------------------------------------------
\* The inductive invariant behind VerdictStands, ConsumedOnce,
\* FinishNeverRefused and AnswersMatchVerdict.

\* A review has a thread and an action from its creation, and a verdict from
\* its decision.
ReviewInv ==
    \A r \in Review :
        /\ Known(r) => reviews[r].thread \in Thread /\ reviews[r].action \in Text
        /\ ~Known(r) => reviews[r].thread = NoThread
        /\ reviews[r].status \in Decision => Acknowledged(r, reviews[r].status)

DeciderInv ==
    \A d \in Decider : decide[d].reply = "200" =>
        decide[d].review \in Review /\ decide[d].status \in Decision

PauserInv ==
    \A p \in Pauser : pause[p].at \notin {"idle", "replied"} =>
        pause[p].review \in Review /\ Known(pause[p].review)

\* What a resumer knows of its review, from the decision it has read to the
\* answer it has written.
ResumerInv ==
    \A p \in Resumer :
        LET r == resume[p].review IN
        /\ resume[p].at # "idle" => r \in Review
        /\ resume[p].reply # "none" => resume[p].at = "replied"
        /\ resume[p].at \in {"mark_resumed", "finish_review", "add_message"} =>
               resume[p].decision \in Decision /\ Acknowledged(r, resume[p].decision)
        /\ resume[p].at \notin {"idle", "replied"} => Known(r)
        /\ resume[p].at = "mark_resumed" => reviews[r].status # "pending"
        /\ resume[p].at = "finish_review" => reviews[r].status = "resumed"
        /\ resume[p].at = "add_message" =>
               /\ reviews[r].status = FinalStatus(resume[p].decision)
               /\ \A i \in DOMAIN messages : messages[i].review # r
        /\ Consumed(p) => reviews[r].status \in Final \cup {"resumed", "lost"}

IInv ==
    /\ TypeOK
    /\ ReviewInv
    /\ DeciderInv
    /\ PauserInv
    /\ ResumerInv
    /\ VerdictStands
    /\ ConsumedOnce
    /\ AnswersMatchVerdict
=============================================================================

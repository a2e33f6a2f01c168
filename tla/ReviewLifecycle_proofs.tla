----------------------- MODULE ReviewLifecycle_proofs -----------------------
(***************************************************************************)
(* InterruptManager implements ReviewLifecycle.  Marking a review resumed  *)
(* is a stuttering step: what is marked stands as its human has decided,   *)
(* by the decision a client was acknowledged.  finish_review is the step   *)
(* that carries the decision out.                                          *)
(***************************************************************************)
EXTENDS InterruptManager_proofs

\* The refinement mapping.
Outcome == [r \in Review |-> OutcomeOf(r)]

-----------------------------------------------------------------------------
\* What a step does to the outcome of a review

\* A client has been told that r is approved.
Approved(r) == Acknowledged(r, "approved")

LEMMA OutcomeByStatus ==
    \A r \in Review :
        /\ reviews[r].status # "resumed" => OutcomeOf(r) = reviews[r].status
        /\ reviews[r].status = "resumed" =>
               OutcomeOf(r) = IF Approved(r) THEN "approved" ELSE "rejected"
BY DEF OutcomeOf, Approved

LEMMA OutcomeByStatusNext ==
    \A r \in Review :
        /\ reviews'[r].status # "resumed" => OutcomeOf(r)' = reviews'[r].status
        /\ reviews'[r].status = "resumed" =>
               OutcomeOf(r)' = IF Approved(r)' THEN "approved" ELSE "rejected"
BY DEF OutcomeOf, Approved

LEMMA OutcomeKept ==
    ASSUME NEW r \in Review, reviews'[r].status = reviews[r].status,
           Approved(r)' <=> Approved(r)
    PROVE  OutcomeOf(r)' = OutcomeOf(r)
BY OutcomeByStatus, OutcomeByStatusNext

\* Of two decisions acknowledged on one review there is only one.
LEMMA SoleVerdict ==
    ASSUME IInv, NEW r, NEW v, NEW w, Acknowledged(r, v), Acknowledged(r, w)
    PROVE  v = w
BY DEF IInv, VerdictStands, Acknowledged

\* A review marked resumed stands as its acknowledged decision.
LEMMA ResumedStandsAsDecided ==
    ASSUME IInv, NEW r \in Review, NEW v \in Decision, Acknowledged(r, v)
    PROVE  v = IF Approved(r) THEN "approved" ELSE "rejected"
BY SoleVerdict DEF Approved, Decision

\* A step that changes the outcome of no review but r.
LEMMA OutcomeChangedAt ==
    ASSUME NEW r \in Review, NEW outcome, OutcomeOf(r)' = outcome,
           \A s \in Review \ {r} : OutcomeOf(s)' = OutcomeOf(s)
    PROVE  Outcome' = [Outcome EXCEPT ![r] = outcome]
BY DEF Outcome

LEMMA OutcomeUnchanged ==
    ASSUME \A s \in Review : OutcomeOf(s)' = OutcomeOf(s)
    PROVE  UNCHANGED Outcome
BY DEF Outcome

\* A step that changes no review and no message, and acknowledges no approval,
\* is a stuttering step.
LEMMA Stutters ==
    ASSUME UNCHANGED <<reviews, messages>>,
           \A r \in Review : Approved(r)' <=> Approved(r)
    PROVE  UNCHANGED Lifecycle!lifecycleVars
<1>1. UNCHANGED Outcome
  BY OutcomeKept, OutcomeUnchanged
<1>2. UNCHANGED Answered
  BY DEF Answered
<1>3. QED
  BY <1>1, <1>2 DEF Outcome, Lifecycle!lifecycleVars

LEMMA OthersStutter ==
    ASSUME UNCHANGED <<reviews, messages, decide>>
    PROVE  UNCHANGED Lifecycle!lifecycleVars
BY Stutters DEF Approved, Acknowledged

-----------------------------------------------------------------------------
\* One lemma per step that is one of the abstract review

LEMMA DecideReviewDecides ==
    ASSUME IInv, NEW d \in Decider, NEW r \in Review, NEW status \in Decision,
           DecideReview(d, r, status)
    PROVE  Lifecycle!Decide(r, status)
<1>1. /\ reviews[r].status = "pending"
      /\ reviews' = [reviews EXCEPT ![r] =
             [status |-> status, thread |-> reviews[r].thread, action |-> reviews[r].action]]
      /\ decide[d].reply = "none"
      /\ decide' = [decide EXCEPT ![d] = [review |-> r, status |-> status, reply |-> "200"]]
      /\ UNCHANGED messages
  BY SetStatusTyped DEF IInv, DecideReview, Decided, CanDecide, Decision, Status
<1>2. reviews \in [Review -> ReviewRecord] /\ decide \in [Decider -> DecideCall]
  BY DEF IInv, TypeOK
<1>3. OutcomeOf(r) = "pending"
  BY <1>1, OutcomeByStatus
<1>4. OutcomeOf(r)' = status
  BY <1>1, <1>2, OutcomeByStatusNext DEF Decision
<1>5. ASSUME NEW s \in Review \ {r}
      PROVE  OutcomeOf(s)' = OutcomeOf(s)
  <2>1. Approved(s)' <=> Approved(s)
    BY <1>1, <1>2 DEF Approved, Acknowledged
  <2>2. QED
    BY <1>1, <1>2, <2>1, OutcomeKept
<1>6. Outcome' = [Outcome EXCEPT ![r] = status] /\ Outcome[r] = "pending"
  BY <1>3, <1>4, <1>5, OutcomeChangedAt DEF Outcome
<1>7. UNCHANGED Answered
  BY <1>1 DEF Answered
<1>8. QED
  BY <1>6, <1>7 DEF Outcome, Lifecycle!Decide

LEMMA CreateReviewOpens ==
    ASSUME IInv, NEW r \in Review, NEW t, NEW action,
           CreateReview(r, t, action), UNCHANGED <<messages, decide>>
    PROVE  Lifecycle!Open(r)
<1>1. /\ reviews[r].status = "absent"
      /\ reviews' = [reviews EXCEPT ![r] =
             [status |-> "pending", thread |-> t, action |-> action]]
  BY DEF CreateReview, Fresh
<1>2. reviews \in [Review -> ReviewRecord]
  BY DEF IInv, TypeOK
<1>3. OutcomeOf(r) = "absent"
  BY <1>1, OutcomeByStatus
<1>4. OutcomeOf(r)' = "pending"
  BY <1>1, <1>2, OutcomeByStatusNext
<1>5. ASSUME NEW s \in Review \ {r}
      PROVE  OutcomeOf(s)' = OutcomeOf(s)
  BY <1>1, <1>2, OutcomeKept DEF Approved, Acknowledged
<1>6. Outcome' = [Outcome EXCEPT ![r] = "pending"] /\ Outcome[r] = "absent"
  BY <1>3, <1>4, <1>5, OutcomeChangedAt DEF Outcome
<1>7. UNCHANGED Answered
  BY DEF Answered
<1>8. QED
  BY <1>6, <1>7 DEF Outcome, Lifecycle!Open

\* A review that leaves "approved" or "rejected" for "resumed" still stands as
\* the decision that was acknowledged.
LEMMA ResumeMarkResumedStutters ==
    ASSUME IInv, NEW p \in Resumer, ResumeMarkResumed(p)
    PROVE  UNCHANGED Lifecycle!lifecycleVars
<1>p. PICK r \in Review : r = resume[p].review
  BY DEF IInv, ResumerInv, ResumeMarkResumed
<1>r. TypeOK /\ reviews \in [Review -> ReviewRecord]
  BY DEF IInv, TypeOK
<1> DEFINE decision == reviews[r].status
<1>1. /\ decision \in Decision
      /\ reviews' = [reviews EXCEPT ![r] =
             [status |-> "resumed", thread |-> reviews[r].thread,
              action |-> reviews[r].action]]
      /\ UNCHANGED <<messages, decide>>
  BY <1>p, <1>r, SetStatusTyped DEF ResumeMarkResumed, CanResume, Status
<1>2. Acknowledged(r, decision)
  BY <1>1 DEF IInv, ReviewInv
<1>3. \A s \in Review : Approved(s)' <=> Approved(s)
  BY <1>1 DEF Approved, Acknowledged
<1>4. OutcomeOf(r) = decision
  BY <1>r, <1>1, OutcomeByStatus DEF Decision
<1>5. OutcomeOf(r)' = decision
  <2>1. reviews'[r].status = "resumed"
    BY <1>r, <1>1
  <2>2. decision = IF Approved(r) THEN "approved" ELSE "rejected"
    BY <1>1, <1>2, ResumedStandsAsDecided
  <2>3. QED
    BY <1>3, <2>1, <2>2, OutcomeByStatusNext
<1>6. ASSUME NEW s \in Review \ {r}
      PROVE  OutcomeOf(s)' = OutcomeOf(s)
  BY <1>r, <1>1, <1>3, OutcomeKept
<1>7. UNCHANGED Outcome
  BY <1>4, <1>5, <1>6, OutcomeUnchanged
<1>8. UNCHANGED Answered
  BY <1>1 DEF Answered
<1>9. QED
  BY <1>7, <1>8 DEF Outcome, Lifecycle!lifecycleVars

\* The decision p has kept in a local variable since it was read is the one
\* that was acknowledged, and what finish_review makes of it is its result.
LEMMA ResumeFinishReviewCarriesOut ==
    ASSUME IInv, NEW p \in Resumer, ResumeFinishReview(p)
    PROVE  Lifecycle!CarryOut(resume[p].review)
<1>p. PICK r \in Review : r = resume[p].review
  BY DEF IInv, ResumerInv, ResumeFinishReview
<1> DEFINE decision == resume[p].decision
           final == FinalStatus(decision)
<1>r. /\ TypeOK /\ reviews \in [Review -> ReviewRecord]
      /\ decision \in Decision /\ final \in Final
      /\ Acknowledged(r, decision)
  BY <1>p, FinalStatusIsFinal DEF IInv, TypeOK, ResumerInv, ResumeFinishReview
<1>1. /\ reviews[r].status = "resumed"
      /\ reviews' = [reviews EXCEPT ![r] =
             [status |-> final, thread |-> reviews[r].thread,
              action |-> reviews[r].action]]
      /\ UNCHANGED <<messages, decide>>
  BY <1>p, <1>r, SetStatusTyped DEF ResumeFinishReview, Status
<1>2. \A s \in Review : Approved(s)' <=> Approved(s)
  BY <1>1 DEF Approved, Acknowledged
<1>3. OutcomeOf(r) = decision
  BY <1>r, <1>1, ResumedStandsAsDecided, OutcomeByStatus
<1>4. OutcomeOf(r)' = final
  <2>1. reviews'[r].status = final /\ final # "resumed"
    BY <1>r, <1>1 DEF Final
  <2>2. QED
    BY <2>1, OutcomeByStatusNext
<1>5. ASSUME NEW s \in Review \ {r}
      PROVE  OutcomeOf(s)' = OutcomeOf(s)
  BY <1>r, <1>1, <1>2, OutcomeKept
<1>6. Outcome' = [Outcome EXCEPT ![r] = final] /\ Outcome[r] = decision
  BY <1>3, <1>4, <1>5, OutcomeChangedAt DEF Outcome
<1>7. UNCHANGED Answered
  BY <1>1 DEF Answered
<1>8. QED
  BY <1>p, <1>r, <1>6, <1>7
     DEF Outcome, Lifecycle!CarryOut, Lifecycle!Decision, Lifecycle!ResultOf,
         Decision, FinalStatus

LEMMA ResumeAddMessageAnswers ==
    ASSUME IInv, NEW p \in Resumer, ResumeAddMessage(p)
    PROVE  Lifecycle!Answer(resume[p].review)
<1> DEFINE r == resume[p].review
           answer == AnswerTo(p)
<1>r. /\ r \in Review
      /\ TypeOK
      /\ reviews[r].status \in Final
      /\ \A i \in DOMAIN messages : messages[i].review # r
  BY FinalStatusIsFinal DEF IInv, ResumerInv, ResumeAddMessage
<1>1. /\ resume[p].at = "add_message"
      /\ messages' = Append(messages, answer)
      /\ UNCHANGED <<reviews, decide>>
  BY DEF ResumeAddMessage
<1>2. Outcome[r] \in Final
  BY <1>r, OutcomeByStatus DEF Outcome, Final
<1>3. UNCHANGED Outcome
  BY <1>1, OutcomeKept, OutcomeUnchanged DEF Approved, Acknowledged
<1>4. r \notin Answered
  BY <1>r DEF Answered
<1>5. Answered' = Answered \cup {r}
  <2>1. answer.review = r
    BY DEF AnswerTo
  <2>2. messages \in Seq(Message)
    BY <1>r DEF TypeOK
  <2> HIDE DEF answer
  <2>3. /\ DOMAIN messages = 1 .. Len(messages)
        /\ DOMAIN messages' = 1 .. Len(messages) + 1
        /\ Len(messages) \in Nat
        /\ \A i \in 1 .. Len(messages) : messages'[i] = messages[i]
        /\ messages'[Len(messages) + 1] = answer
    BY <1>1, <2>2
  <2>4. QED
    BY <1>r, <2>1, <2>3 DEF Answered
<1>6. QED
  BY <1>2, <1>3, <1>4, <1>5 DEF Outcome, Lifecycle!Answer, Final

-----------------------------------------------------------------------------
\* The other steps of a decider or a resumer change no review, no message and no
\* acknowledgement.

LEMMA RefusalStutters ==
    ASSUME IInv, NEW d \in Decider,
           DecideFails(d) \/ \E r \in Review : DecideRefused(d, r)
    PROVE  UNCHANGED Lifecycle!lifecycleVars
<1>1. /\ decide \in [Decider -> DecideCall]
      /\ decide[d].reply = "none"
      /\ \E code \in {"404", "409", "500"} :
             decide' = [decide EXCEPT
                 ![d] = [review |-> NoReview, status |-> "none", reply |-> code]]
      /\ UNCHANGED <<reviews, messages>>
  BY DEF IInv, TypeOK, DecideRefused, DecideFails, Decided, stores
<1>2. \A s \in Review : Approved(s)' <=> Approved(s)
  BY <1>1 DEF Approved, Acknowledged
<1>3. QED
  BY <1>1, <1>2, Stutters

LEMMA ResumerStutters ==
    ASSUME NEW p \in Resumer,
           \/ \E r \in Review :
                  ResumeGetReview(p, r) \/ ResumeRefused(p, r) \/ ResumeGetFails(p, r)
           \/ ResumeLosesRace(p) \/ ResumeLoadMemory(p) \/ ResumeSaveMemory(p)
           \/ ResumeRefreshMemory(p) \/ ResumeSessionFails(p) \/ ResumeRecordFails(p)
    PROVE  UNCHANGED Lifecycle!lifecycleVars
<1>1. UNCHANGED <<reviews, messages, decide>>
  BY DEF ResumeGetReview, ResumeRefused, ResumeGetFails, ResumeTurnedAway,
         ResumeLosesRace, ResumeLoadMemory, ResumeSaveMemory, ResumeRefreshMemory,
         ResumeSessionFails, ResumeRecordFails, stores
<1>2. QED
  BY <1>1, OthersStutter

-----------------------------------------------------------------------------

LEMMA InitMaps == Init => Lifecycle!LifecycleInit
<1> SUFFICES ASSUME Init PROVE Lifecycle!LifecycleInit
  OBVIOUS
<1>1. \A r \in Review : OutcomeOf(r) = "absent"
  BY OutcomeByStatus DEF Init, ReviewsInit, NoRecord
<1>2. Answered = {}
  BY DEF Init, Answered
<1>3. QED
  BY <1>1, <1>2 DEF Lifecycle!LifecycleInit

LEMMA StepMaps ==
    IInv /\ [Next]_managerVars
        => [Lifecycle!LifecycleNext]_(Lifecycle!lifecycleVars)
<1> SUFFICES ASSUME IInv, [Next]_managerVars
             PROVE  Lifecycle!LifecycleNext \/ UNCHANGED Lifecycle!lifecycleVars
  OBVIOUS
<1>1. CASE DeciderNext
  <2>1. PICK d \in Decider :
            \/ \E r \in Review, status \in Decision : DecideReview(d, r, status)
            \/ DecideFails(d) \/ \E r \in Review : DecideRefused(d, r)
    BY <1>1 DEF DeciderNext
  <2>2. CASE \E r \in Review, status \in Decision : DecideReview(d, r, status)
    BY <2>2, DecideReviewDecides
       DEF Lifecycle!LifecycleNext, Lifecycle!Decision, Decision
  <2>3. CASE DecideFails(d) \/ \E r \in Review : DecideRefused(d, r)
    BY <2>3, RefusalStutters
  <2>4. QED
    BY <2>1, <2>2, <2>3
<1>2. CASE ResumerNext
  <2>1. PICK p \in Resumer :
            \/ \E r \in Review :
                   ResumeGetReview(p, r) \/ ResumeRefused(p, r) \/ ResumeGetFails(p, r)
            \/ ResumeStep(p)
    BY <1>2 DEF ResumerNext
  <2>2. CASE ResumeMarkResumed(p)
    BY <2>2, ResumeMarkResumedStutters
  <2>3. CASE ResumeFinishReview(p)
    <3>1. resume[p].review \in Review
      BY <2>3 DEF IInv, ResumerInv, ResumeFinishReview
    <3>2. QED
      BY <2>3, <3>1, ResumeFinishReviewCarriesOut DEF Lifecycle!LifecycleNext
  <2>4. CASE ResumeAddMessage(p)
    <3>1. resume[p].review \in Review
      BY <2>4 DEF IInv, ResumerInv, ResumeAddMessage
    <3>2. QED
      BY <2>4, <3>1, ResumeAddMessageAnswers DEF Lifecycle!LifecycleNext
  <2>5. QED
    BY <2>1, <2>2, <2>3, <2>4, ResumerStutters DEF ResumeStep
<1>3. CASE PauserNext
  <2>1. PICK p \in Pauser :
            \/ \E r \in Review, t \in Thread, risky \in BOOLEAN :
                   PauseCreateReview(p, r, t, risky)
            \/ PauseCreateFails(p)
            \/ PauseStep(p)
    BY <1>3 DEF PauserNext
  <2>2. CASE \E r \in Review, t \in Thread, risky \in BOOLEAN :
                 PauseCreateReview(p, r, t, risky)
    <3>1. \E r \in Review : Lifecycle!Open(r)
      BY <2>2, CreateReviewOpens DEF PauseCreateReview
    <3>2. QED
      BY <3>1 DEF Lifecycle!LifecycleNext
  <2>3. CASE PauseCreateFails(p) \/ PauseStep(p)
    <3>1. UNCHANGED <<reviews, messages, decide>>
      BY <2>3 DEF PauseCreateFails, PauseStep, PauseLoadMemory, PauseSaveMemory,
                  PauseRefreshMemory, PauseSessionFails, stores
    <3>2. QED
      BY <3>1, OthersStutter
  <2>4. QED
    BY <2>1, <2>2, <2>3
<1>4. CASE ExpiryNext
  BY <1>4, OthersStutter DEF ExpiryNext, SessionExpires
<1>5. CASE UNCHANGED managerVars
  BY <1>5, OthersStutter DEF managerVars, stores
<1>6. QED
  BY <1>1, <1>2, <1>3, <1>4, <1>5 DEF Next

\* The review, message and session stores, and the handlers that race over
\* them, implement the life of a review: it is decided once, carried out once
\* according to that decision, and answered once.
THEOREM LifecycleImplemented == Spec => ImplementsLifecycle
<1>1. Spec => Lifecycle!LifecycleInit /\ [][Lifecycle!LifecycleNext]_(Lifecycle!lifecycleVars)
  BY InitMaps, StepMaps, Invariance, PTL DEF Spec
<1>2. QED
  BY <1>1 DEF ImplementsLifecycle, Lifecycle!LifecycleSpec
=============================================================================

----------------------- MODULE InterruptManager_proofs -----------------------
(***************************************************************************)
(* Proofs about InterruptManager, for every set of calls, reviews and      *)
(* threads, whichever stores suspend and whichever of their calls fail.      *)
(***************************************************************************)
EXTENDS InterruptManager, TLAPS

USE RecordsAssumption, InterruptManagerAssumption

\* The types of the records the variables hold.
USE DEF Decision, Final, Status, ReviewRecord, DecideCall, ResumeCall, PauseCall

\* A memory with another active review, and the memory of a new thread.
LEMMA MemoryTyped ==
    /\ NewMemory \in Memory
    /\ \A memory \in Memory, r \in Review \cup {NoReview} :
           [memory EXCEPT !.review = r] \in Memory
BY DEF Memory, NewMemory

\* A final status tells which decision it follows.
LEMMA FinalStatusIsFinal ==
    \A decision : /\ FinalStatus(decision) \in Final
                  /\ decision \in Decision =>
                        (FinalStatus(decision) = "completed" <=> decision = "approved")
BY DEF FinalStatus

-----------------------------------------------------------------------------

LEMMA InitEstablishes == Init => IInv
<1> SUFFICES ASSUME Init PROVE IInv
  OBVIOUS
<1>1. TypeOK
  BY MemoryTyped
     DEF Init, TypeOK, ReviewsInit, SessionsInit, NoRecord, NoText, Text, Message
<1>2. ReviewInv /\ DeciderInv /\ PauserInv
  BY DEF Init, ReviewsInit, NoRecord, ReviewInv, DeciderInv, PauserInv, Known
<1>3. ResumerInv /\ VerdictStands /\ ConsumedOnce
  BY DEF Init, ResumerInv, VerdictStands, ConsumedOnce, Consumed, Known
<1>4. AnswersMatchVerdict
  BY DEF Init, AnswersMatchVerdict
<1>5. QED
  BY <1>1, <1>2, <1>3, <1>4 DEF IInv

-----------------------------------------------------------------------------
\* Steps of deciders

LEMMA SetStatusTyped ==
    ASSUME TypeOK, NEW r \in Review, NEW status \in Status, SetStatus(r, status)
    PROVE  /\ reviews' \in [Review -> ReviewRecord]
           /\ reviews' = [reviews EXCEPT ![r] =
                  [status |-> status, thread |-> reviews[r].thread,
                   action |-> reviews[r].action]]
<1>1. reviews[r] \in ReviewRecord
  BY DEF TypeOK
<1>2. [reviews[r] EXCEPT !.status = status] =
          [status |-> status, thread |-> reviews[r].thread, action |-> reviews[r].action]
  BY <1>1
<1>3. reviews' = [reviews EXCEPT ![r] = [reviews[r] EXCEPT !.status = status]]
  BY DEF SetStatus
<1>4. QED
  BY <1>1, <1>2, <1>3 DEF TypeOK

LEMMA MessagesTyped ==
    ASSUME TypeOK, NEW i \in DOMAIN messages
    PROVE  /\ messages[i] \in Message
           /\ messages[i].review \in Review \cup {NoReview}
<1>1. messages[i] \in Message
  <2>1. messages \in Seq(Message)
    BY DEF TypeOK
  <2>2. QED
    BY <2>1
<1>2. QED
  BY <1>1 DEF Message

\* A message about a review says that the review is final.
LEMMA AnsweredIsFinal ==
    ASSUME AnswersMatchVerdict, NEW i \in DOMAIN messages,
           messages[i].review # NoReview
    PROVE  reviews[messages[i].review].status \in Final
BY FinalStatusIsFinal DEF AnswersMatchVerdict

LEMMA DecideReviewKeeps ==
    ASSUME IInv, NEW d \in Decider, NEW r \in Review, NEW status \in Decision,
           DecideReview(d, r, status)
    PROVE  IInv'
<1> USE DEF IInv
<1>a. /\ decide[d].reply = "none"
      /\ decide' = [decide EXCEPT ![d] = [review |-> r, status |-> status, reply |-> "200"]]
      /\ reviews[r].status = "pending"
      /\ reviews' = [reviews EXCEPT ![r] =
             [status |-> status, thread |-> reviews[r].thread, action |-> reviews[r].action]]
      /\ reviews' \in [Review -> ReviewRecord]
      /\ UNCHANGED <<turn, messages, sessions, lifetime, resume, pause>>
  BY SetStatusTyped DEF DecideReview, Decided, CanDecide, sessionVars
<1>b. \A s, v : Acknowledged(s, v) => Acknowledged(s, v)'
  BY <1>a DEF Acknowledged, TypeOK
<1>c. Acknowledged(r, status)'
  BY <1>a DEF Acknowledged, TypeOK
<1>1. TypeOK'
  BY <1>a DEF TypeOK
<1>2. ReviewInv'
  BY <1>a, <1>b, <1>c DEF ReviewInv, TypeOK, Known
<1>3. DeciderInv'
  BY <1>a DEF DeciderInv, TypeOK
<1>4. PauserInv'
  BY <1>a DEF PauserInv, TypeOK, Known
<1>5. ResumerInv'
  BY <1>a, <1>b DEF ResumerInv, Known, TypeOK, Consumed, FinalStatus
<1>6. VerdictStands'
  BY <1>a DEF VerdictStands, DeciderInv, TypeOK, FinalStatus
<1>7. ConsumedOnce'
  BY <1>a DEF ConsumedOnce, Consumed
<1>8. AnswersMatchVerdict'
  <2>1. \A i \in DOMAIN messages : messages[i].review # r
    BY <1>a, AnsweredIsFinal
  <2>2. \A i \in DOMAIN messages : messages[i].review \in Review \cup {NoReview}
    BY MessagesTyped
  <2>3. \A i \in DOMAIN messages : messages[i].review # NoReview =>
            reviews'[messages[i].review] = reviews[messages[i].review]
    BY <1>a, <2>1, <2>2 DEF TypeOK
  <2>4. QED
    BY <1>a, <1>b, <2>3 DEF AnswersMatchVerdict
<1>9. QED
  BY <1>1, <1>2, <1>3, <1>4, <1>5, <1>6, <1>7, <1>8

LEMMA DecideRefusedKeeps ==
    ASSUME IInv, NEW d \in Decider,
           DecideFails(d) \/ \E r \in Review : DecideRefused(d, r)
    PROVE  IInv'
<1> USE DEF IInv
<1>a. /\ decide[d].reply = "none"
      /\ \E code \in {"404", "409", "500"} :
             decide' = [decide EXCEPT
                 ![d] = [review |-> NoReview, status |-> "none", reply |-> code]]
      /\ UNCHANGED <<turn, reviews, messages, sessions, lifetime, resume, pause>>
  BY DEF DecideRefused, DecideFails, Decided, stores
<1>b. \A s, v : Acknowledged(s, v) => Acknowledged(s, v)'
  BY <1>a DEF Acknowledged, TypeOK
<1>1. TypeOK'
  BY <1>a DEF TypeOK
<1>2. ReviewInv' /\ DeciderInv' /\ PauserInv'
  BY <1>a, <1>b DEF ReviewInv, DeciderInv, PauserInv, TypeOK, Known
<1>3. ResumerInv'
  BY <1>a, <1>b DEF ResumerInv, Known, TypeOK, Consumed
<1>4. VerdictStands' /\ ConsumedOnce'
  BY <1>a DEF VerdictStands, ConsumedOnce, Consumed, TypeOK
<1>5. AnswersMatchVerdict'
  BY <1>a, <1>b DEF AnswersMatchVerdict
<1>6. QED
  BY <1>1, <1>2, <1>3, <1>4, <1>5

-----------------------------------------------------------------------------
\* Steps of resumers

\* Whoever has made a call, the loop is run by it or by nobody.
LEMMA TurnTyped ==
    ASSUME NEW p \in Author, NEW here, NEW next,
           Continue(p, here, next) \/ Finish
    PROVE  turn' \in Author \cup {NoOne}
BY DEF Continue, Finish

\* What is said of reviews, messages and deciders only.
LEMMA StoresUnchanged ==
    ASSUME IInv, UNCHANGED <<reviews, messages, decide>>
    PROVE  /\ ReviewInv' /\ DeciderInv' /\ VerdictStands' /\ AnswersMatchVerdict'
           /\ \A r, decision : Acknowledged(r, decision) => Acknowledged(r, decision)'
BY DEF IInv, ReviewInv, Known, DeciderInv, VerdictStands, AnswersMatchVerdict,
       Acknowledged

\* What changes when p goes on to another call.
LEMMA ResumeGotoTyped ==
    ASSUME TypeOK, NEW p \in Resumer, NEW here, NEW next, ResumeGoto(p, here, next),
           next \in {"idle", "mark_resumed", "finish_review", "add_message",
                     "load", "save", "refresh", "replied"}
    PROVE  /\ resume' \in [Resumer -> ResumeCall]
           /\ \A q \in Resumer :
                  /\ resume'[q].review = resume[q].review
                  /\ resume'[q].decision = resume[q].decision
                  /\ resume'[q].reply = resume[q].reply
                  /\ resume'[q].at = IF q = p THEN next ELSE resume[q].at
<1>1. resume' = [resume EXCEPT ![p] =
          [at |-> next, review |-> resume[p].review, decision |-> resume[p].decision,
           memory |-> resume[p].memory, reply |-> resume[p].reply]]
  <2>1. resume[p] \in ResumeCall
    BY DEF TypeOK
  <2>2. [resume[p] EXCEPT !.at = next] =
            [at |-> next, review |-> resume[p].review, decision |-> resume[p].decision,
             memory |-> resume[p].memory, reply |-> resume[p].reply]
    BY <2>1
  <2>3. resume' = [resume EXCEPT ![p] = [resume[p] EXCEPT !.at = next]]
    BY DEF ResumeGoto
  <2>4. QED
    BY <2>2, <2>3
<1>2. QED
  BY <1>1 DEF TypeOK

\* What changes when p replies.
LEMMA ResumeReplyTyped ==
    ASSUME TypeOK, NEW p \in Resumer, NEW code \in {"200", "500"}, ResumeReply(p, code)
    PROVE  /\ resume' \in [Resumer -> ResumeCall]
           /\ \A q \in Resumer :
                  /\ resume'[q].review = resume[q].review
                  /\ resume'[q].decision = resume[q].decision
                  /\ resume'[q].reply = IF q = p THEN code ELSE resume[q].reply
                  /\ resume'[q].at = IF q = p THEN "replied" ELSE resume[q].at
<1>1. resume' = [resume EXCEPT ![p] =
          [at |-> "replied", review |-> resume[p].review,
           decision |-> resume[p].decision, memory |-> NewMemory, reply |-> code]]
  BY DEF ResumeReply
<1>2. QED
  BY <1>1, MemoryTyped DEF TypeOK

\* What changes when p has loaded the memory of its thread.
LEMMA ResumeLoadedTyped ==
    ASSUME TypeOK, NEW p \in Resumer, NEW memory \in Memory, ResumeLoaded(p, memory)
    PROVE  /\ resume' \in [Resumer -> ResumeCall]
           /\ \A q \in Resumer :
                  /\ resume'[q].review = resume[q].review
                  /\ resume'[q].decision = resume[q].decision
                  /\ q # p => resume'[q] = resume[q]
           /\ resume'[p].at = "save"
           /\ resume'[p].reply = resume[p].reply
           /\ turn' \in Author \cup {NoOne}
<1>1. resume' = [resume EXCEPT ![p] =
          [at |-> "save", review |-> resume[p].review, decision |-> resume[p].decision,
           memory |-> memory, reply |-> resume[p].reply]]
  BY DEF ResumeLoaded
<1>2. turn' \in Author \cup {NoOne}
  BY TurnTyped DEF ResumeLoaded
<1>3. QED
  BY <1>1, <1>2 DEF TypeOK

LEMMA ResumeGetReviewKeeps ==
    ASSUME IInv, NEW p \in Resumer, NEW r \in Review, ResumeGetReview(p, r)
    PROVE  IInv'
<1> USE DEF IInv
<1>a. /\ resume[p].at = "idle"
      /\ reviews[r].status \in Decision
      /\ resume' = [resume EXCEPT ![p] =
             [at |-> "mark_resumed", review |-> r,
              decision |-> reviews[r].status, memory |-> NewMemory, reply |-> "none"]]
      /\ UNCHANGED <<reviews, messages, sessions, lifetime, decide, pause>>
  BY DEF ResumeGetReview, CanResume, stores
<1>b. turn' \in Author \cup {NoOne}
  BY TurnTyped DEF ResumeGetReview
<1>c. Acknowledged(r, reviews[r].status)
  BY <1>a DEF ReviewInv
<1>1. TypeOK'
  BY <1>a, <1>b, MemoryTyped DEF TypeOK
<1>2. ReviewInv' /\ DeciderInv' /\ VerdictStands' /\ AnswersMatchVerdict'
  BY <1>a, StoresUnchanged
<1>3. PauserInv'
  BY <1>a DEF PauserInv, Known
<1>4. ResumerInv'
  BY <1>a, <1>c, StoresUnchanged DEF ResumerInv, Known, TypeOK, Consumed
<1>5. ConsumedOnce'
  BY <1>a DEF ConsumedOnce, Consumed, TypeOK
<1>6. QED
  BY <1>1, <1>2, <1>3, <1>4, <1>5

LEMMA ResumeRefusedKeeps ==
    ASSUME IInv, NEW p \in Resumer, NEW r \in Review,
           ResumeRefused(p, r) \/ ResumeGetFails(p, r)
    PROVE  IInv'
<1> USE DEF IInv
<1>a. /\ resume[p].at = "idle"
      /\ \E code \in {"404", "409", "500"} :
             resume' = [resume EXCEPT ![p] =
                 [at |-> "replied", review |-> r, decision |-> "none",
                  memory |-> NewMemory, reply |-> code]]
      /\ UNCHANGED <<turn, reviews, messages, sessions, lifetime, decide, pause>>
  BY DEF ResumeRefused, ResumeGetFails, ResumeTurnedAway, stores
<1>1. TypeOK'
  BY <1>a, MemoryTyped DEF TypeOK
<1>2. ReviewInv' /\ DeciderInv' /\ VerdictStands' /\ AnswersMatchVerdict'
  BY <1>a, StoresUnchanged
<1>3. PauserInv'
  BY <1>a DEF PauserInv, Known
<1>4. ResumerInv'
  BY <1>a, StoresUnchanged DEF ResumerInv, Known, TypeOK, Consumed
<1>5. ConsumedOnce'
  BY <1>a DEF ConsumedOnce, Consumed, TypeOK
<1>6. QED
  BY <1>1, <1>2, <1>3, <1>4, <1>5

LEMMA ResumeMarkResumedKeeps ==
    ASSUME IInv, NEW p \in Resumer, ResumeMarkResumed(p)
    PROVE  IInv'
<1> USE DEF IInv
<1> DEFINE r == resume[p].review
<1>r. r \in Review
  BY DEF ResumeMarkResumed, ResumerInv, Known
<1>a. /\ resume[p].at = "mark_resumed"
      /\ reviews[r].status \in Decision
      /\ reviews' = [reviews EXCEPT ![r] =
             [status |-> "resumed", thread |-> reviews[r].thread,
              action |-> reviews[r].action]]
      /\ reviews' \in [Review -> ReviewRecord]
      /\ UNCHANGED <<messages, sessions, lifetime, decide, pause>>
  BY <1>r, SetStatusTyped DEF ResumeMarkResumed, CanResume, sessionVars
<1>b. turn' \in Author \cup {NoOne}
  BY TurnTyped DEF ResumeMarkResumed, ResumeGoto
<1>c. \A s, v : Acknowledged(s, v) => Acknowledged(s, v)'
  BY <1>a DEF Acknowledged
<1>d. /\ resume' \in [Resumer -> ResumeCall]
      /\ \A q \in Resumer :
             /\ resume'[q].review = resume[q].review
             /\ resume'[q].decision = resume[q].decision
             /\ resume'[q].reply = resume[q].reply
             /\ resume'[q].at = IF q = p THEN "finish_review" ELSE resume[q].at
  BY ResumeGotoTyped DEF ResumeMarkResumed
<1>e. \A q \in Resumer : Consumed(q) => resume[q].review # r
  BY <1>a DEF ResumerInv, Known
<1>1. TypeOK'
  BY <1>a, <1>b, <1>d DEF TypeOK
<1>2. ReviewInv'
  BY <1>r, <1>a, <1>c DEF ReviewInv, TypeOK, Known
<1>3. DeciderInv' /\ PauserInv'
  BY <1>r, <1>a DEF DeciderInv, PauserInv, TypeOK, Known
<1>4. ResumerInv'
  <2> SUFFICES ASSUME NEW q \in Resumer
               PROVE  ResumerInv!(q)'
    BY DEF ResumerInv
  <2>1. CASE q = p
    BY <2>1, <1>r, <1>a, <1>c, <1>d DEF ResumerInv, TypeOK, Consumed, Known
  <2>2. CASE q # p
    BY <2>2, <1>r, <1>a, <1>c, <1>d, <1>e DEF ResumerInv, Known, TypeOK, Consumed
  <2>3. QED
    BY <2>1, <2>2
<1>5. VerdictStands'
  BY <1>r, <1>a DEF VerdictStands, DeciderInv, TypeOK
<1>6. ConsumedOnce'
  BY <1>d, <1>e DEF ConsumedOnce, Consumed
<1>7. AnswersMatchVerdict'
  <2>1. \A i \in DOMAIN messages : messages[i].review # r
    BY <1>a, <1>r, AnsweredIsFinal
  <2>2. \A i \in DOMAIN messages : messages[i].review # NoReview =>
            reviews'[messages[i].review] = reviews[messages[i].review]
    BY <1>a, <2>1, MessagesTyped DEF TypeOK
  <2>3. QED
    BY <1>a, <1>c, <2>2 DEF AnswersMatchVerdict
<1>8. QED
  BY <1>1, <1>2, <1>3, <1>4, <1>5, <1>6, <1>7

LEMMA ResumeFinishReviewKeeps ==
    ASSUME IInv, NEW p \in Resumer, ResumeFinishReview(p)
    PROVE  IInv'
<1> USE DEF IInv
<1> DEFINE r == resume[p].review
           final == FinalStatus(resume[p].decision)
<1>r. /\ r \in Review
      /\ final \in Final
      /\ resume[p].decision \in Decision
      /\ Acknowledged(r, resume[p].decision)
  BY FinalStatusIsFinal DEF ResumeFinishReview, ResumerInv, Known
<1>a. /\ resume[p].at = "finish_review"
      /\ reviews[r].status = "resumed"
      /\ reviews' = [reviews EXCEPT ![r] =
             [status |-> final, thread |-> reviews[r].thread,
              action |-> reviews[r].action]]
      /\ reviews' \in [Review -> ReviewRecord]
      /\ UNCHANGED <<messages, sessions, lifetime, decide, pause>>
  BY <1>r, SetStatusTyped DEF ResumeFinishReview, sessionVars
<1>b. turn' \in Author \cup {NoOne}
  BY TurnTyped DEF ResumeFinishReview, ResumeGoto
<1>c. \A s, v : Acknowledged(s, v) => Acknowledged(s, v)'
  BY <1>a DEF Acknowledged
<1>d. /\ resume' \in [Resumer -> ResumeCall]
      /\ \A q \in Resumer :
             /\ resume'[q].review = resume[q].review
             /\ resume'[q].decision = resume[q].decision
             /\ resume'[q].reply = resume[q].reply
             /\ resume'[q].at = IF q = p THEN "add_message" ELSE resume[q].at
  BY ResumeGotoTyped DEF ResumeFinishReview
<1>e. \A q \in Resumer : Consumed(q) /\ resume[q].review = r => q = p
  BY <1>a DEF ConsumedOnce, Consumed
<1>f. \A i \in DOMAIN messages : messages[i].review # r
  BY <1>a, <1>r, AnsweredIsFinal
<1>1. TypeOK'
  BY <1>a, <1>b, <1>d DEF TypeOK
<1>2. ReviewInv'
  BY <1>r, <1>a, <1>c DEF ReviewInv, TypeOK, Known
<1>3. DeciderInv' /\ PauserInv'
  BY <1>r, <1>a DEF DeciderInv, PauserInv, TypeOK, Known
<1>4. ResumerInv'
  <2> SUFFICES ASSUME NEW q \in Resumer
               PROVE  ResumerInv!(q)'
    BY DEF ResumerInv
  <2>1. CASE q = p
    BY <2>1, <1>r, <1>a, <1>c, <1>d, <1>f DEF ResumerInv, TypeOK, Consumed, Known
  <2>2. CASE q # p /\ resume[q].review = r
    BY <2>2, <1>r, <1>a, <1>c, <1>d, <1>e DEF ResumerInv, Known, TypeOK, Consumed
  <2>3. CASE q # p /\ resume[q].review # r
    BY <2>3, <1>r, <1>a, <1>c, <1>d DEF ResumerInv, Known, TypeOK, Consumed
  <2>4. QED
    BY <2>1, <2>2, <2>3
<1>5. VerdictStands'
  BY <1>r, <1>a DEF VerdictStands, DeciderInv, TypeOK, Acknowledged
<1>6. ConsumedOnce'
  BY <1>a, <1>d DEF ConsumedOnce, Consumed
<1>7. AnswersMatchVerdict'
  <2>1. \A i \in DOMAIN messages : messages[i].review # NoReview =>
            reviews'[messages[i].review] = reviews[messages[i].review]
    BY <1>a, <1>f, MessagesTyped DEF TypeOK
  <2>2. QED
    BY <1>a, <1>c, <2>1 DEF AnswersMatchVerdict
<1>8. QED
  BY <1>1, <1>2, <1>3, <1>4, <1>5, <1>6, <1>7

LEMMA ResumeAddMessageKeeps ==
    ASSUME IInv, NEW p \in Resumer, ResumeAddMessage(p)
    PROVE  IInv'
<1> USE DEF IInv
<1> DEFINE r == resume[p].review
           answer == AnswerTo(p)
<1>r. /\ r \in Review
      /\ resume[p].decision \in Decision
      /\ Acknowledged(r, resume[p].decision)
      /\ reviews[r].status = FinalStatus(resume[p].decision)
      /\ reviews[r].status \in Final
      /\ \A i \in DOMAIN messages : messages[i].review # r
  BY FinalStatusIsFinal DEF ResumeAddMessage, ResumerInv, Known
<1>a. /\ resume[p].at = "add_message"
      /\ messages' = Append(messages, answer)
      /\ UNCHANGED <<reviews, sessions, lifetime, decide, pause>>
  BY DEF ResumeAddMessage, sessionVars
<1>b. turn' \in Author \cup {NoOne}
  BY TurnTyped DEF ResumeAddMessage, ResumeGoto
<1>c. \A s, v : Acknowledged(s, v) => Acknowledged(s, v)'
  BY <1>a DEF Acknowledged
<1>d. /\ resume' \in [Resumer -> ResumeCall]
      /\ \A q \in Resumer :
             /\ resume'[q].review = resume[q].review
             /\ resume'[q].decision = resume[q].decision
             /\ resume'[q].reply = resume[q].reply
             /\ resume'[q].at = IF q = p THEN "load" ELSE resume[q].at
  BY ResumeGotoTyped DEF ResumeAddMessage
<1>e. /\ answer \in Message
      /\ answer.thread = reviews[r].thread
      /\ answer.review = r
      /\ answer.status = reviews[r].status
  <2>1. reviews[r].thread \in Thread /\ reviews[r].action.risky \in BOOLEAN
    BY <1>r DEF ReviewInv, Known, Text
  <2>2. QED
    BY <1>r, <2>1 DEF AnswerTo, Message, Text
<1>f. /\ messages \in Seq(Message)
      /\ DOMAIN messages = 1 .. Len(messages)
      /\ DOMAIN messages' = 1 .. Len(messages) + 1
      /\ Len(messages) \in Nat
      /\ \A i \in 1 .. Len(messages) : messages'[i] = messages[i]
      /\ messages'[Len(messages) + 1] = answer
      /\ messages' \in Seq(Message)
  <2>1. messages \in Seq(Message)
    BY DEF TypeOK
  <2> HIDE DEF answer
  <2>2. QED
    BY <2>1, <1>a, <1>e
<1> HIDE DEF answer
<1>1. TypeOK'
  BY <1>a, <1>b, <1>d, <1>f DEF TypeOK
<1>2. ReviewInv' /\ DeciderInv' /\ PauserInv' /\ VerdictStands'
  BY <1>a, <1>c DEF ReviewInv, DeciderInv, PauserInv, VerdictStands, Known
<1>3. ResumerInv'
  <2> SUFFICES ASSUME NEW q \in Resumer
               PROVE  ResumerInv!(q)'
    BY DEF ResumerInv
  <2>1. CASE q = p
    BY <2>1, <1>r, <1>a, <1>c, <1>d DEF ResumerInv, Consumed, Known
  <2>2. CASE q # p /\ resume[q].at # "add_message"
    BY <2>2, <1>a, <1>c, <1>d DEF ResumerInv, Consumed, Known
  <2>3. CASE q # p /\ resume[q].at = "add_message"
    <3>1. resume[q].review # r
      BY <2>3, <1>a DEF ConsumedOnce, Consumed
    <3>2. \A i \in DOMAIN messages' : messages'[i].review # resume[q].review
      BY <3>1, <2>3, <1>e, <1>f DEF ResumerInv, Known
    <3>3. QED
      BY <2>3, <3>2, <1>a, <1>c, <1>d DEF ResumerInv, Consumed, Known
  <2>4. QED
    BY <2>1, <2>2, <2>3
<1>4. ConsumedOnce'
  BY <1>a, <1>d DEF ConsumedOnce, Consumed
<1>5. AnswersMatchVerdict'
  BY <1>r, <1>a, <1>c, <1>e, <1>f DEF AnswersMatchVerdict
<1>6. QED
  BY <1>1, <1>2, <1>3, <1>4, <1>5

\* A step of p that changes no review and no message, and takes it where
\* nothing is said of it but that it has consumed its review.
LEMMA ResumerMovesOn ==
    ASSUME IInv, NEW p \in Resumer,
           UNCHANGED <<reviews, messages, decide, pause>>,
           turn' \in Author \cup {NoOne},
           sessions' \in [Thread -> Memory],
           lifetime' \in [Thread -> {"absent", "kept", "expiring"}],
           resume' \in [Resumer -> ResumeCall],
           \A q \in Resumer :
               /\ resume'[q].review = resume[q].review
               /\ resume'[q].decision = resume[q].decision
               /\ q # p => resume'[q] = resume[q],
           resume[p].at \notin {"idle", "replied"},
           resume'[p].at \in {"load", "save", "refresh", "replied"},
           resume'[p].reply # "none" => resume'[p].at = "replied",
           Consumed(p)' => Consumed(p)
    PROVE  IInv'
<1> USE DEF IInv
<1>1. TypeOK'
  BY DEF TypeOK
<1>2. ReviewInv' /\ DeciderInv' /\ VerdictStands' /\ AnswersMatchVerdict'
  BY StoresUnchanged
<1>3. PauserInv'
  BY DEF PauserInv, Known
<1>4. ResumerInv'
  <2> SUFFICES ASSUME NEW q \in Resumer
               PROVE  ResumerInv!(q)'
    BY DEF ResumerInv
  <2>1. CASE q = p
    BY <2>1 DEF ResumerInv, Known
  <2>2. CASE q # p
    BY <2>2, StoresUnchanged DEF ResumerInv, Known, Consumed
  <2>3. QED
    BY <2>1, <2>2
<1>5. ConsumedOnce'
  <2> SUFFICES ASSUME NEW q1 \in Resumer, NEW q2 \in Resumer,
                      Consumed(q1)', Consumed(q2)',
                      resume'[q1].review = resume'[q2].review
               PROVE  q1 = q2
    BY DEF ConsumedOnce
  <2>1. \A q \in Resumer : Consumed(q)' => Consumed(q)
    BY DEF Consumed
  <2>2. QED
    BY <2>1 DEF ConsumedOnce
<1>6. QED
  BY <1>1, <1>2, <1>3, <1>4, <1>5

\* The thread of a review that exists, and what the session store may do to it.
LEMMA SessionTyped ==
    ASSUME TypeOK, NEW t \in Thread, NEW memory \in Memory,
           Save(t, memory) \/ Refresh(t) \/ Expire(t)
    PROVE  /\ sessions' \in [Thread -> Memory]
           /\ lifetime' \in [Thread -> {"absent", "kept", "expiring"}]
<1>1. CASE Save(t, memory)
  BY <1>1 DEF Save, TypeOK
<1>2. CASE Refresh(t)
  BY <1>2 DEF Refresh, TypeOK
<1>3. CASE Expire(t)
  BY <1>3, MemoryTyped DEF Expire, TypeOK
<1>4. QED
  BY <1>1, <1>2, <1>3

LEMMA ResumerThread ==
    ASSUME IInv, NEW p \in Resumer, resume[p].at \notin {"idle", "replied"}
    PROVE  reviews[resume[p].review].thread \in Thread
BY DEF IInv, ResumerInv, ReviewInv, Known

\* The steps that change no review and no message, one CASE each.
LEMMA ResumerSessionStepKeeps ==
    ASSUME IInv, NEW p \in Resumer,
           \/ ResumeLosesRace(p) \/ ResumeLoadMemory(p) \/ ResumeSaveMemory(p)
           \/ ResumeRefreshMemory(p) \/ ResumeSessionFails(p)
           \/ ResumeRecordFails(p)
    PROVE  IInv'
<1> DEFINE moves ==
        /\ resume' \in [Resumer -> ResumeCall]
        /\ \A q \in Resumer :
               /\ resume'[q].review = resume[q].review
               /\ resume'[q].decision = resume[q].decision
               /\ q # p => resume'[q] = resume[q]
<1>t. TypeOK
  BY DEF IInv
<1>g. ASSUME NEW here, NEW next \in {"load", "save", "refresh"}, ResumeGoto(p, here, next)
      PROVE  /\ moves
             /\ resume'[p].at = next
             /\ resume'[p].reply = resume[p].reply
             /\ turn' \in Author \cup {NoOne}
  <2>1. \A q \in Resumer \ {p} : resume'[q] = resume[q]
    BY <1>g, <1>t DEF ResumeGoto, TypeOK
  <2>2. turn' \in Author \cup {NoOne}
    BY <1>g, TurnTyped DEF ResumeGoto
  <2>3. QED
    BY <1>g, <1>t, <2>1, <2>2, ResumeGotoTyped
<1>h. ASSUME NEW code \in {"200", "500"}, ResumeReply(p, code)
      PROVE  /\ moves
             /\ resume'[p].at = "replied"
             /\ resume'[p].reply = code
             /\ turn' \in Author \cup {NoOne}
  <2>1. \A q \in Resumer \ {p} : resume'[q] = resume[q]
    BY <1>h, <1>t DEF ResumeReply, TypeOK
  <2>2. turn' \in Author \cup {NoOne}
    BY <1>h DEF ResumeReply, Finish
  <2>3. QED
    BY <1>h, <1>t, <2>1, <2>2, ResumeReplyTyped
<1> HIDE DEF moves
<1>s. /\ sessions \in [Thread -> Memory]
      /\ lifetime \in [Thread -> {"absent", "kept", "expiring"}]
      /\ resume[p].reply # "none" => resume[p].at = "replied"
  BY DEF IInv, TypeOK, ResumerInv, Known
<1>1. CASE ResumeLosesRace(p)
  <2>1. ResumeReply(p, "500") /\ resume[p].at = "mark_resumed"
    BY <1>1 DEF ResumeLosesRace
  <2>2. UNCHANGED <<reviews, messages, sessions, lifetime, decide, pause>>
    BY <1>1 DEF ResumeLosesRace, stores
  <2>3. QED
    BY <2>1, <2>2, <1>h, <1>s, ResumerMovesOn DEF moves, Consumed
<1>2. CASE ResumeLoadMemory(p)
  <2> DEFINE loaded == [Load(reviews[resume[p].review].thread) EXCEPT !.review = NoReview]
  <2>1. /\ resume[p].at = "load"
        /\ ResumeLoaded(p, loaded)
        /\ UNCHANGED <<reviews, messages, sessions, lifetime, decide, pause>>
    BY <1>2 DEF ResumeLoadMemory, stores
  <2>2. reviews[resume[p].review].thread \in Thread
    BY <2>1, ResumerThread DEF Consumed
  <2>3. loaded \in Memory
    BY <2>2, <1>s, MemoryTyped DEF Load
  <2>4. /\ moves
        /\ resume'[p].at = "save"
        /\ resume'[p].reply = resume[p].reply
        /\ turn' \in Author \cup {NoOne}
    BY <2>1, <2>3, <1>t, ResumeLoadedTyped DEF moves
  <2>5. QED
    BY <2>1, <2>4, <1>s, ResumerMovesOn DEF moves, Consumed
<1>3. CASE ResumeSaveMemory(p)
  <2>1. /\ resume[p].at = "save"
        /\ ResumeGoto(p, "save", "refresh") \/ ResumeReply(p, "200")
        /\ Save(reviews[resume[p].review].thread, resume[p].memory)
        /\ UNCHANGED <<reviews, messages, decide, pause>>
    BY <1>3 DEF ResumeSaveMemory
  <2>2. reviews[resume[p].review].thread \in Thread /\ resume[p].memory \in Memory
    BY <2>1, <1>t, ResumerThread DEF Consumed, TypeOK
  <2>3. /\ sessions' \in [Thread -> Memory]
        /\ lifetime' \in [Thread -> {"absent", "kept", "expiring"}]
    BY <2>1, <2>2, <1>t, SessionTyped
  <2>4. QED
    BY <2>1, <2>3, <1>g, <1>h, <1>s, ResumerMovesOn DEF moves, Consumed
<1>4. CASE ResumeRefreshMemory(p)
  <2>1. /\ resume[p].at = "refresh"
        /\ ResumeReply(p, "200")
        /\ Refresh(reviews[resume[p].review].thread)
        /\ UNCHANGED <<reviews, messages, decide, pause>>
    BY <1>4 DEF ResumeRefreshMemory
  <2>2. reviews[resume[p].review].thread \in Thread
    BY <2>1, ResumerThread DEF Consumed
  <2>3. /\ sessions' \in [Thread -> Memory]
        /\ lifetime' \in [Thread -> {"absent", "kept", "expiring"}]
    BY <2>1, <2>2, <1>t, MemoryTyped, SessionTyped
  <2>4. QED
    BY <2>1, <2>3, <1>h, <1>s, ResumerMovesOn DEF moves, Consumed
<1>5. CASE ResumeSessionFails(p)
  <2>1. ResumeReply(p, "500") /\ resume[p].at \in {"load", "save", "refresh"}
    BY <1>5 DEF ResumeSessionFails
  <2>2. UNCHANGED <<reviews, messages, sessions, lifetime, decide, pause>>
    BY <1>5 DEF ResumeSessionFails, stores
  <2>3. QED
    BY <2>1, <2>2, <1>h, <1>s, ResumerMovesOn DEF moves, Consumed
<1>6. CASE ResumeRecordFails(p)
  <2>1. /\ ResumeReply(p, "500")
        /\ resume[p].at \in {"mark_resumed", "finish_review", "add_message"}
    BY <1>6 DEF ResumeRecordFails
  <2>2. UNCHANGED <<reviews, messages, sessions, lifetime, decide, pause>>
    BY <1>6 DEF ResumeRecordFails, stores
  <2>3. QED
    BY <2>1, <2>2, <1>h, <1>s, ResumerMovesOn DEF moves, Consumed
<1>7. QED
  BY <1>1, <1>2, <1>3, <1>4, <1>5, <1>6

-----------------------------------------------------------------------------
\* Steps of pausers, and expiry

LEMMA PauseCreateReviewKeeps ==
    ASSUME IInv, NEW p \in Pauser, NEW r \in Review, NEW t \in Thread,
           NEW risky \in BOOLEAN, PauseCreateReview(p, r, t, risky)
    PROVE  IInv'
<1> USE DEF IInv
<1> DEFINE action == [author |-> p, risky |-> risky]
<1>a. /\ pause[p].at = "idle"
      /\ reviews[r].status = "absent"
      /\ reviews' = [reviews EXCEPT ![r] =
             [status |-> "pending", thread |-> t, action |-> action]]
      /\ pause' = [pause EXCEPT ![p] =
             [at |-> "load", review |-> r, memory |-> NewMemory]]
      /\ UNCHANGED <<messages, sessions, lifetime, decide, resume>>
  BY DEF PauseCreateReview, CreateReview, Fresh, sessionVars
<1>b. turn' \in Author \cup {NoOne}
  BY TurnTyped DEF PauseCreateReview
<1>c. \A s, v : Acknowledged(s, v) => Acknowledged(s, v)'
  BY <1>a DEF Acknowledged
<1>d. action \in Text
  BY DEF Text
<1> HIDE DEF action
<1>1. TypeOK'
  <2>1. [status |-> "pending", thread |-> t, action |-> action] \in ReviewRecord
    BY <1>d
  <2>2. [at |-> "load", review |-> r, memory |-> NewMemory] \in PauseCall
    BY MemoryTyped
  <2>3. reviews' \in [Review -> ReviewRecord]
    BY <1>a, <2>1 DEF TypeOK
  <2>4. pause' \in [Pauser -> PauseCall]
    BY <1>a, <2>2 DEF TypeOK
  <2>5. QED
    BY <1>a, <1>b, <2>3, <2>4 DEF TypeOK
<1>2. ReviewInv'
  BY <1>a, <1>c, <1>d DEF ReviewInv, TypeOK, Known
<1>3. DeciderInv' /\ PauserInv'
  BY <1>a DEF DeciderInv, PauserInv, TypeOK, Known
<1>4. ResumerInv'
  BY <1>a, <1>c DEF ResumerInv, Known, TypeOK, Consumed, FinalStatus
<1>5. VerdictStands'
  BY <1>a DEF VerdictStands, DeciderInv, TypeOK, FinalStatus
<1>6. ConsumedOnce'
  BY <1>a DEF ConsumedOnce, Consumed
<1>7. AnswersMatchVerdict'
  <2>1. \A i \in DOMAIN messages : messages[i].review # NoReview =>
            reviews'[messages[i].review] = reviews[messages[i].review]
    BY <1>a, AnsweredIsFinal, MessagesTyped DEF TypeOK
  <2>2. QED
    BY <1>a, <1>c, <2>1 DEF AnswersMatchVerdict
<1>8. QED
  BY <1>1, <1>2, <1>3, <1>4, <1>5, <1>6, <1>7

\* A step that changes nothing but the loop, the session of a thread, and how
\* far a pauser has got with its review.
LEMMA PauserMovesOn ==
    ASSUME IInv,
           UNCHANGED <<reviews, messages, decide, resume>>,
           turn' \in Author \cup {NoOne},
           sessions' \in [Thread -> Memory],
           lifetime' \in [Thread -> {"absent", "kept", "expiring"}],
           pause' \in [Pauser -> PauseCall],
           \A q \in Pauser :
               \/ pause'[q] = pause[q]
               \/ pause'[q].at = "replied"
               \/ /\ pause[q].at \notin {"idle", "replied"}
                  /\ pause'[q].review = pause[q].review
    PROVE  IInv'
<1> USE DEF IInv
<1>1. TypeOK'
  BY DEF TypeOK
<1>2. ReviewInv' /\ DeciderInv' /\ VerdictStands' /\ AnswersMatchVerdict'
  BY StoresUnchanged
<1>3. PauserInv'
  BY DEF PauserInv, Known
<1>4. ResumerInv'
  BY StoresUnchanged DEF ResumerInv, Known, Consumed
<1>5. ConsumedOnce'
  BY DEF ConsumedOnce, Consumed
<1>6. QED
  BY <1>1, <1>2, <1>3, <1>4, <1>5

\* What changes when a pauser goes on to another call, or replies.
LEMMA PauserAtTyped ==
    ASSUME TypeOK, NEW p \in Pauser, pause[p].at \notin {"idle", "replied"},
           NEW at \in {"save", "refresh", "replied"}, NEW memory \in Memory,
           pause' = [pause EXCEPT ![p] =
                        [at |-> at, review |-> pause[p].review, memory |-> memory]]
    PROVE  /\ pause' \in [Pauser -> PauseCall]
           /\ \A q \in Pauser : pause'[q] = pause[q] \/
                  /\ pause[q].at \notin {"idle", "replied"}
                  /\ pause'[q].review = pause[q].review
BY DEF TypeOK

LEMMA PauseCreateFailsKeeps ==
    ASSUME IInv, NEW p \in Pauser, PauseCreateFails(p)
    PROVE  IInv'
<1>1. /\ turn' = NoOne
      /\ pause' = [pause EXCEPT ![p] =
             [at |-> "replied", review |-> pause[p].review, memory |-> NewMemory]]
      /\ UNCHANGED <<reviews, messages, sessions, lifetime, decide, resume>>
  BY DEF PauseCreateFails, PauseReply, Finish, stores
<1>2. /\ pause' \in [Pauser -> PauseCall]
      /\ \A q \in Pauser : pause'[q] = pause[q] \/ pause'[q].at = "replied"
  BY <1>1, MemoryTyped DEF IInv, TypeOK
<1>3. /\ sessions' \in [Thread -> Memory]
      /\ lifetime' \in [Thread -> {"absent", "kept", "expiring"}]
  BY <1>1 DEF IInv, TypeOK
<1>4. QED
  BY <1>1, <1>2, <1>3, PauserMovesOn

LEMMA PauseStepKeeps ==
    ASSUME IInv, NEW p \in Pauser, PauseStep(p)
    PROVE  IInv'
<1>t. /\ TypeOK
      /\ sessions \in [Thread -> Memory]
      /\ lifetime \in [Thread -> {"absent", "kept", "expiring"}]
      /\ pause[p] \in PauseCall
  BY DEF IInv, TypeOK
<1>r. ASSUME pause[p].at \notin {"idle", "replied"}
      PROVE  pause[p].review \in Review /\ reviews[pause[p].review].thread \in Thread
  BY <1>r DEF IInv, PauserInv, ReviewInv
<1>h. ASSUME PauseReply(p), pause[p].at \notin {"idle", "replied"}
      PROVE  /\ turn' \in Author \cup {NoOne}
             /\ pause' \in [Pauser -> PauseCall]
             /\ \A q \in Pauser : pause'[q] = pause[q] \/
                    /\ pause[q].at \notin {"idle", "replied"}
                    /\ pause'[q].review = pause[q].review
  BY <1>h, <1>t, MemoryTyped, PauserAtTyped DEF PauseReply, Finish
<1>1. CASE PauseLoadMemory(p)
  <2> DEFINE memory ==
          [Load(reviews[pause[p].review].thread) EXCEPT !.review = pause[p].review]
  <2>1. /\ pause[p].at \notin {"idle", "replied"}
        /\ pause' = [pause EXCEPT ![p] =
               [at |-> "save", review |-> pause[p].review, memory |-> memory]]
        /\ turn' \in Author \cup {NoOne}
        /\ UNCHANGED <<reviews, messages, sessions, lifetime, decide, resume>>
    BY <1>1, TurnTyped DEF PauseLoadMemory, stores
  <2>2. memory \in Memory
    BY <2>1, <1>t, <1>r, MemoryTyped DEF Load
  <2> HIDE DEF memory
  <2>3. QED
    BY <2>1, <2>2, <1>t, PauserAtTyped, PauserMovesOn
<1>2. CASE PauseSaveMemory(p)
  <2>1. /\ pause[p].at \notin {"idle", "replied"}
        /\ Save(reviews[pause[p].review].thread, pause[p].memory)
        /\ PauseGoto(p, "save", "refresh") \/ PauseReply(p)
        /\ UNCHANGED <<reviews, messages, decide, resume>>
    BY <1>2 DEF PauseSaveMemory
  <2>2. /\ sessions' \in [Thread -> Memory]
        /\ lifetime' \in [Thread -> {"absent", "kept", "expiring"}]
    BY <2>1, <1>t, <1>r, SessionTyped
  <2>3. CASE PauseGoto(p, "save", "refresh")
    <3>1. [pause[p] EXCEPT !.at = "refresh"] =
              [at |-> "refresh", review |-> pause[p].review, memory |-> pause[p].memory]
      BY <1>t
    <3>2. pause' = [pause EXCEPT ![p] =
              [at |-> "refresh", review |-> pause[p].review, memory |-> pause[p].memory]]
      BY <2>3, <3>1 DEF PauseGoto
    <3>3. turn' \in Author \cup {NoOne}
      BY <2>3, TurnTyped DEF PauseGoto
    <3>4. QED
      BY <2>1, <2>2, <3>2, <3>3, <1>t, PauserAtTyped, PauserMovesOn
  <2>4. CASE PauseReply(p)
    BY <2>1, <2>2, <2>4, <1>h, PauserMovesOn
  <2>5. QED
    BY <2>1, <2>3, <2>4
<1>3. CASE PauseRefreshMemory(p)
  <2>1. /\ pause[p].at \notin {"idle", "replied"}
        /\ Refresh(reviews[pause[p].review].thread)
        /\ PauseReply(p)
        /\ UNCHANGED <<reviews, messages, decide, resume>>
    BY <1>3 DEF PauseRefreshMemory
  <2>2. /\ sessions' \in [Thread -> Memory]
        /\ lifetime' \in [Thread -> {"absent", "kept", "expiring"}]
    BY <2>1, <1>t, <1>r, MemoryTyped, SessionTyped
  <2>3. QED
    BY <2>1, <2>2, <1>h, PauserMovesOn
<1>4. CASE PauseSessionFails(p)
  <2>1. /\ pause[p].at \notin {"idle", "replied"}
        /\ PauseReply(p)
        /\ UNCHANGED <<reviews, messages, sessions, lifetime, decide, resume>>
    BY <1>4 DEF PauseSessionFails, stores
  <2>2. QED
    BY <2>1, <1>t, <1>h, PauserMovesOn
<1>5. QED
  BY <1>1, <1>2, <1>3, <1>4 DEF PauseStep

LEMMA SessionExpiresKeeps ==
    ASSUME IInv, NEW t \in Thread, SessionExpires(t)
    PROVE  IInv'
<1>1. /\ Expire(t)
      /\ UNCHANGED <<reviews, messages, turn, decide, resume, pause>>
  BY DEF SessionExpires
<1>2. /\ sessions' \in [Thread -> Memory]
      /\ lifetime' \in [Thread -> {"absent", "kept", "expiring"}]
  BY <1>1, MemoryTyped, SessionTyped DEF IInv
<1>3. turn' \in Author \cup {NoOne} /\ pause' \in [Pauser -> PauseCall]
  BY <1>1 DEF IInv, TypeOK
<1>4. QED
  BY <1>1, <1>2, <1>3, PauserMovesOn

-----------------------------------------------------------------------------
\* Every step keeps the invariant.

LEMMA NextKeeps == IInv /\ [Next]_managerVars => IInv'
<1> SUFFICES ASSUME IInv, [Next]_managerVars
             PROVE  IInv'
  OBVIOUS
<1>1. CASE DeciderNext
  BY <1>1, DecideReviewKeeps, DecideRefusedKeeps DEF DeciderNext
<1>2. CASE ResumerNext
  <2>1. PICK p \in Resumer :
            \/ \E r \in Review :
                   ResumeGetReview(p, r) \/ ResumeRefused(p, r) \/ ResumeGetFails(p, r)
            \/ ResumeStep(p)
    BY <1>2 DEF ResumerNext
  <2>2. CASE \E r \in Review :
                 ResumeGetReview(p, r) \/ ResumeRefused(p, r) \/ ResumeGetFails(p, r)
    BY <2>2, ResumeGetReviewKeeps, ResumeRefusedKeeps
  <2>3. CASE ResumeStep(p)
    BY <2>3, ResumeMarkResumedKeeps, ResumeFinishReviewKeeps, ResumeAddMessageKeeps,
       ResumerSessionStepKeeps DEF ResumeStep
  <2>4. QED
    BY <2>1, <2>2, <2>3
<1>3. CASE PauserNext
  BY <1>3, PauseCreateReviewKeeps, PauseCreateFailsKeeps, PauseStepKeeps DEF PauserNext
<1>4. CASE ExpiryNext
  BY <1>4, SessionExpiresKeeps DEF ExpiryNext
<1>5. CASE UNCHANGED managerVars
  <2>1. /\ UNCHANGED <<reviews, messages, turn, decide, resume, pause>>
        /\ UNCHANGED <<sessions, lifetime>>
    BY <1>5 DEF managerVars, stores
  <2>2. /\ turn' \in Author \cup {NoOne} /\ pause' \in [Pauser -> PauseCall]
        /\ sessions' \in [Thread -> Memory]
        /\ lifetime' \in [Thread -> {"absent", "kept", "expiring"}]
    BY <2>1 DEF IInv, TypeOK
  <2>3. QED
    BY <2>1, <2>2, PauserMovesOn
<1>6. QED
  BY <1>1, <1>2, <1>3, <1>4, <1>5 DEF Next

\* IInv holds in every reachable state, whatever the numbers of calls, reviews
\* and threads: the decision a resumer carries between its two calls of the
\* review store, a local variable of resume_after_review, is always the one a
\* client was acknowledged.
THEOREM Invariance == Spec => []IInv
BY InitEstablishes, NextKeeps, PTL DEF Spec

\* Every variable keeps its type: what the stores hold and what the calls have
\* read stay records of stores/models.py.
THEOREM TypeCorrect == Spec => []TypeOK
<1>1. IInv => TypeOK
  BY DEF IInv
<1>2. QED
  BY Invariance, <1>1, PTL

\* Of all approve and reject calls on a review one at most succeeds, and the
\* review goes only where its decision leads (decide_review, finish_review).
THEOREM VerdictsStand == Spec => []VerdictStands
<1>1. IInv => VerdictStands
  BY DEF IInv
<1>2. QED
  BY Invariance, <1>1, PTL

\* However many resume calls read the same decision, one of them consumes it
\* (mark_resumed checks the status again).
THEOREM ConsumptionIsExclusive == Spec => []ConsumedOnce
<1>1. IInv => ConsumedOnce
  BY DEF IInv
<1>2. QED
  BY Invariance, <1>1, PTL

\* The status check of finish_review never raises in resume_after_review: no
\* review is left "resumed" by its ValueError.
THEOREM FinishIsNeverRefused == Spec => []FinishNeverRefused
<1>1. IInv => FinishNeverRefused
  BY DEF IInv, ResumerInv, FinishNeverRefused, Known
<1>2. QED
  BY Invariance, <1>1, PTL

\* The transcript tells of each review at most once, in the review's thread,
\* and what it tells is the acknowledged decision (resume_after_review).
THEOREM AnswersAreTrue == Spec => []AnswersMatchVerdict
<1>1. IInv => AnswersMatchVerdict
  BY DEF IInv
<1>2. QED
  BY Invariance, <1>1, PTL
=============================================================================

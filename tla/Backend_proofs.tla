---------------------------- MODULE Backend_proofs ----------------------------
(***************************************************************************)
(* Proofs about Backend: what holds of the backend although its process is *)
(* killed at any await and started again, whichever stores are servers of  *)
(* their own, and whatever agents.yaml and the skills are edited to.       *)
(***************************************************************************)
EXTENDS Backend, Harness_proofs

USE RecordsAssumption, InterruptManagerAssumption, HarnessAssumption,
    SessionFactsAssumption

\* The types of the records the variables hold.
USE DEF Decision, Final, Status, ReviewRecord, DecideCall, ResumeCall, PauseCall, Handoff

-----------------------------------------------------------------------------
\* A restart

\* What a restart does to the calls of one kind.
LEMMA CutOffCalls ==
    ASSUME NEW calls, NEW p \in DOMAIN calls
    PROVE  /\ DOMAIN CutOff(calls) = DOMAIN calls
           /\ calls[p].at \in {"idle", "replied"} => CutOff(calls)[p] = calls[p]
           /\ calls[p].at \notin {"idle", "replied"} =>
                  CutOff(calls)[p] = [calls[p] EXCEPT !.at = "replied", !.memory = NewMemory]
BY DEF CutOff

\* Each call keeps its type, and all but where it is and what it has loaded.
LEMMA CallsCutOff ==
    ASSUME HarnessInv, Restart
    PROVE  /\ resume' \in [Resumer -> ResumeCall]
           /\ pause' \in [Pauser -> PauseCall]
           /\ append' \in [Appender -> AppendCall]
           /\ chat' \in [Chat -> ChatCall]
           /\ \A p \in Resumer :
                  /\ resume'[p].at = IF resume[p].at = "idle" THEN "idle" ELSE "replied"
                  /\ resume'[p].review = resume[p].review
                  /\ resume'[p].reply = resume[p].reply
                  /\ resume'[p].memory \in {resume[p].memory, NewMemory}
           /\ \A p \in Pauser : pause'[p].at \in {"idle", "replied"}
           /\ \A a \in Appender :
                  /\ append'[a].at = IF append[a].at = "idle" THEN "idle" ELSE "replied"
                  /\ append'[a].thread = append[a].thread
                  /\ append'[a].reply = append[a].reply
                  /\ append'[a].memory \in {append[a].memory, NewMemory}
           /\ \A c \in Chat :
                  /\ chat'[c].at = IF chat[c].at = "idle" THEN "idle" ELSE "replied"
                  /\ chat'[c].thread = chat[c].thread
                  /\ chat'[c].agent = chat[c].agent
                  /\ chat'[c].review = chat[c].review
                  /\ chat'[c].reply = chat[c].reply
                  /\ chat'[c].memory \in {chat[c].memory, NewMemory}
<1>a. /\ resume' = CutOff(resume) /\ pause' = CutOff(pause)
      /\ append' = CutOff(append) /\ chat' = CutOff(chat)
  BY DEF Restart
<1>t. /\ resume \in [Resumer -> ResumeCall]
      /\ pause \in [Pauser -> PauseCall]
      /\ append \in [Appender -> AppendCall]
      /\ chat \in [Chat -> ChatCall]
  BY DEF HarnessInv, IInv, TypeOK, AppendTypeOK, ChatTypeOK
<1>1. ASSUME NEW p \in Resumer
      PROVE  /\ resume'[p] \in ResumeCall
             /\ resume'[p].at = IF resume[p].at = "idle" THEN "idle" ELSE "replied"
             /\ resume'[p].review = resume[p].review
             /\ resume'[p].reply = resume[p].reply
             /\ resume'[p].memory \in {resume[p].memory, NewMemory}
  <2>1. resume[p] \in ResumeCall /\ p \in DOMAIN resume
    BY <1>t
  <2>2. \/ resume'[p] = resume[p] /\ resume[p].at \in {"idle", "replied"}
        \/ /\ resume'[p] = [[resume[p] EXCEPT !.at = "replied"] EXCEPT !.memory = NewMemory]
           /\ resume[p].at \notin {"idle", "replied"}
    BY <1>a, <2>1, CutOffCalls
  <2>3. QED
    BY <2>1, <2>2, MemoryTyped
<1>2. ASSUME NEW p \in Pauser
      PROVE  pause'[p] \in PauseCall /\ pause'[p].at \in {"idle", "replied"}
  <2>1. pause[p] \in PauseCall /\ p \in DOMAIN pause
    BY <1>t
  <2>2. \/ pause'[p] = pause[p] /\ pause[p].at \in {"idle", "replied"}
        \/ /\ pause'[p] = [[pause[p] EXCEPT !.at = "replied"] EXCEPT !.memory = NewMemory]
           /\ pause[p].at \notin {"idle", "replied"}
    BY <1>a, <2>1, CutOffCalls
  <2>3. QED
    BY <2>1, <2>2, MemoryTyped
<1>3. ASSUME NEW a \in Appender
      PROVE  /\ append'[a] \in AppendCall
             /\ append'[a].at = IF append[a].at = "idle" THEN "idle" ELSE "replied"
             /\ append'[a].thread = append[a].thread
             /\ append'[a].reply = append[a].reply
             /\ append'[a].memory \in {append[a].memory, NewMemory}
  <2>1. append[a] \in AppendCall /\ a \in DOMAIN append
    BY <1>t
  <2>2. \/ append'[a] = append[a] /\ append[a].at \in {"idle", "replied"}
        \/ /\ append'[a] = [[append[a] EXCEPT !.at = "replied"] EXCEPT !.memory = NewMemory]
           /\ append[a].at \notin {"idle", "replied"}
    BY <1>a, <2>1, CutOffCalls DEF AppendCall
  <2>3. QED
    BY <2>1, <2>2, MemoryTyped DEF AppendCall
<1>4. ASSUME NEW c \in Chat
      PROVE  /\ chat'[c] \in ChatCall
             /\ chat'[c].at = IF chat[c].at = "idle" THEN "idle" ELSE "replied"
             /\ chat'[c].thread = chat[c].thread
             /\ chat'[c].agent = chat[c].agent
             /\ chat'[c].review = chat[c].review
             /\ chat'[c].reply = chat[c].reply
             /\ chat'[c].memory \in {chat[c].memory, NewMemory}
  <2>1. chat[c] \in ChatCall /\ c \in DOMAIN chat
    BY <1>t
  <2>2. \/ chat'[c] = chat[c] /\ chat[c].at \in {"idle", "replied"}
        \/ /\ chat'[c] = [[chat[c] EXCEPT !.at = "replied"] EXCEPT !.memory = NewMemory]
           /\ chat[c].at \notin {"idle", "replied"}
    BY <1>a, <2>1, CutOffCalls DEF ChatCall
  <2>3. QED
    BY <2>1, <2>2, MemoryTyped DEF ChatCall
<1>5. /\ resume' = [p \in Resumer |-> resume'[p]] /\ pause' = [p \in Pauser |-> pause'[p]]
      /\ append' = [a \in Appender |-> append'[a]] /\ chat' = [c \in Chat |-> chat'[c]]
  BY <1>a, <1>t DEF CutOff
<1>6. /\ resume' \in [Resumer -> ResumeCall] /\ pause' \in [Pauser -> PauseCall]
      /\ append' \in [Appender -> AppendCall] /\ chat' \in [Chat -> ChatCall]
  BY <1>1, <1>2, <1>3, <1>4, <1>5
<1>7. QED
  BY <1>1, <1>2, <1>3, <1>4, <1>6

\* The records stay, or are gone: an identifier that was given is given no more.
LEMMA RecordsCutOff ==
    ASSUME HarnessInv, Restart
    PROVE  \/ UNCHANGED <<reviews, messages, threads, tasks, handoffs>>
           \/ /\ "records" \notin Suspends
              /\ reviews' \in [Review -> ReviewRecord]
              /\ \A r \in Review :
                     /\ reviews'[r].thread = NoThread
                     /\ reviews'[r].status =
                            IF reviews[r].status = "absent" THEN "absent" ELSE "lost"
              /\ messages' = <<>> /\ threads' = {} /\ tasks' = {}
              /\ handoffs' \in [Chat -> Handoff]
              /\ \A c \in Chat : handoffs'[c] = IF handoffs[c] = "none" THEN "none" ELSE "lost"
<1>1. CASE "records" \in InMemory
  <2>1. reviews' = [r \in Review |->
            IF reviews[r].status = "absent" THEN NoRecord ELSE [NoRecord EXCEPT !.status = "lost"]]
    BY <1>1 DEF Restart, RecordsRestarted, Fresh
  <2>2. /\ NoRecord \in ReviewRecord
        /\ [NoRecord EXCEPT !.status = "lost"] \in ReviewRecord
        /\ NoRecord.thread = NoThread /\ NoRecord.status = "absent"
        /\ [NoRecord EXCEPT !.status = "lost"].thread = NoThread
        /\ [NoRecord EXCEPT !.status = "lost"].status = "lost"
    BY DEF NoRecord
  <2>3. reviews' \in [Review -> ReviewRecord]
    BY <2>1, <2>2
  <2>4. QED
    BY <1>1, <2>1, <2>2, <2>3 DEF Restart, RecordsRestarted, InMemory
<1>2. CASE "records" \notin InMemory
  BY <1>2 DEF Restart, RecordsRestarted
<1>3. QED
  BY <1>1, <1>2

\* A verdict that was acknowledged stays so.
LEMMA RestartAcknowledges ==
    ASSUME Restart
    PROVE  /\ decide' = decide
           /\ \A r, decision : Acknowledged(r, decision) => Acknowledged(r, decision)'
BY DEF Restart, Acknowledged

\* The reviews are as they were, or gone.
LEMMA StatusAfterRestart ==
    ASSUME HarnessInv, Restart, NEW r \in Review
    PROVE  \/ reviews'[r] = reviews[r]
           \/ /\ reviews'[r].thread = NoThread
              /\ reviews[r].status = "absent" /\ reviews'[r].status = "absent"
           \/ /\ reviews'[r].thread = NoThread
              /\ reviews[r].status # "absent" /\ reviews'[r].status = "lost"
BY RecordsCutOff

LEMMA RestartKeepsReviews ==
    ASSUME HarnessInv, Restart
    PROVE  IInv'
<1> USE DEF IInv, HarnessInv
<1>c. \A p \in Resumer : Consumed(p)' => Consumed(p) /\ resume[p].reply = "200"
  BY CallsCutOff DEF Consumed
<1>1. TypeOK'
  <2>1. turn' \in Author \cup {NoOne}
    BY DEF Restart
  <2>2. reviews' \in [Review -> ReviewRecord] /\ messages' \in Seq(Message)
    <3>1. reviews \in [Review -> ReviewRecord] /\ messages \in Seq(Message)
      BY DEF TypeOK
    <3>2. <<>> \in Seq(Message)
      OBVIOUS
    <3>3. messages' = messages \/ messages' = <<>>
      BY RecordsCutOff
    <3>4. reviews' \in [Review -> ReviewRecord]
      BY <3>1, RecordsCutOff
    <3>5. QED
      BY <3>1, <3>2, <3>3, <3>4
  <2>3. /\ sessions' \in [Thread -> Memory]
        /\ lifetime' \in [Thread -> {"absent", "kept", "expiring"}]
    <3>1. \/ UNCHANGED <<sessions, lifetime>>
          \/ /\ sessions' = [t \in Thread |-> NewMemory]
             /\ lifetime' = [t \in Thread |-> "absent"]
      BY DEF Restart, SessionsRestarted, sessionVars
    <3>2. QED
      BY <3>1, MemoryTyped DEF TypeOK
  <2>4. QED
    BY <2>1, <2>2, <2>3, CallsCutOff, RestartAcknowledges DEF TypeOK
<1>2. ReviewInv'
  BY RestartAcknowledges, StatusAfterRestart DEF ReviewInv, Known
<1>3. DeciderInv'
  BY RestartAcknowledges DEF DeciderInv
<1>4. PauserInv'
  BY CallsCutOff DEF PauserInv
<1>5. ResumerInv'
  <2> SUFFICES ASSUME NEW q \in Resumer
               PROVE  ResumerInv!(q)'
    BY DEF ResumerInv
  <2>1. /\ resume'[q].at \in {"idle", "replied"}
        /\ resume'[q].at # "idle" => resume'[q].review \in Review
        /\ resume'[q].reply # "none" => resume'[q].at = "replied"
    BY CallsCutOff DEF ResumerInv
  <2>2. Consumed(q)' => reviews'[resume'[q].review].status \in Final \cup {"resumed", "lost"}
    <3> HAVE Consumed(q)'
    <3>1. /\ resume[q].review \in Review
          /\ resume'[q].review = resume[q].review
          /\ reviews[resume[q].review].status \in Final \cup {"resumed", "lost"}
      BY <1>c, CallsCutOff DEF ResumerInv, Consumed
    <3>2. QED
      BY <3>1, StatusAfterRestart
  <2>3. QED
    BY <2>1, <2>2
<1>6. VerdictStands'
  <2> SUFFICES ASSUME NEW d \in Decider, decide[d].reply = "200"
               PROVE  reviews'[decide[d].review].status \in
                          {decide[d].status, "resumed", FinalStatus(decide[d].status), "lost"}
    BY RestartAcknowledges DEF VerdictStands
  <2>1. decide[d].review \in Review /\ decide[d].status \in Decision
    BY DEF DeciderInv
  <2>2. reviews[decide[d].review].status \in
            {decide[d].status, "resumed", FinalStatus(decide[d].status), "lost"}
    BY DEF VerdictStands
  <2>3. reviews[decide[d].review].status # "absent"
    BY <2>1, <2>2, FinalStatusIsFinal
  <2>4. QED
    BY <2>1, <2>2, <2>3, StatusAfterRestart
<1>7. ConsumedOnce'
  <2> SUFFICES ASSUME NEW p \in Resumer, NEW q \in Resumer, Consumed(p)', Consumed(q)',
                      resume'[p].review = resume'[q].review
               PROVE  p = q
    BY DEF ConsumedOnce
  <2>1. Consumed(p) /\ Consumed(q) /\ resume[p].review = resume[q].review
    BY <1>c, CallsCutOff
  <2>2. QED
    BY <2>1 DEF ConsumedOnce
<1>8. AnswersMatchVerdict'
  <2>1. CASE UNCHANGED <<reviews, messages>>
    BY <2>1, RestartAcknowledges DEF AnswersMatchVerdict
  <2>2. CASE messages' = <<>>
    BY <2>2 DEF AnswersMatchVerdict
  <2>3. QED
    BY <2>1, <2>2, RecordsCutOff
<1>9. QED
  BY <1>1, <1>2, <1>3, <1>4, <1>5, <1>6, <1>7, <1>8

\* A restart takes all records away, or none, and every call that knew of one.
LEMMA RestartKeeps ==
    ASSUME HarnessInv, Restart
    PROVE  HarnessInv'
<1>1. IInv'
  BY RestartKeepsReviews
<1>2. ChatTypeOK'
  <2>1. CASE UNCHANGED <<threads, tasks, handoffs>>
    BY <2>1, CallsCutOff DEF HarnessInv, ChatTypeOK
  <2>2. CASE threads' = {} /\ tasks' = {} /\ handoffs' \in [Chat -> Handoff]
    BY <2>2, CallsCutOff DEF ChatTypeOK
  <2>3. QED
    BY <2>1, <2>2, RecordsCutOff
<1>3. AppendTypeOK' /\ AppendInv'
  BY CallsCutOff DEF HarnessInv, AppendTypeOK, AppendInv
<1>4. LastMessages' /\ ForeignKeysHold' /\ ReviewQuotesTranscript'
  <2>1. CASE UNCHANGED <<reviews, messages, threads, tasks, handoffs>>
    BY <2>1, CallsCutOff DEF HarnessInv, LastMessages, ThreadMessages, ForeignKeysHold,
                             ReviewQuotesTranscript, Known
  <2>2. CASE /\ \A r \in Review : reviews'[r].status \in {"absent", "lost"}
             /\ messages' = <<>> /\ threads' = {} /\ tasks' = {}
             /\ \A c \in Chat : handoffs'[c] \in {"none", "lost"}
    BY <2>2 DEF LastMessages, ThreadMessages, ForeignKeysHold, ReviewQuotesTranscript, Known
  <2>3. QED
    BY <2>1, <2>2, RecordsCutOff
<1>5. ASSUME NEW c \in Chat
      PROVE  /\ HandoffClosed!(c)'
             /\ TranscriptInv(c)' /\ HandoffInv(c)'
  <2>1. \/ handoffs'[c] = handoffs[c]
        \/ handoffs[c] = "none" /\ handoffs'[c] = "none"
        \/ handoffs[c] # "none" /\ handoffs'[c] = "lost"
    BY RecordsCutOff
  <2>2. HandoffClosed!(c)'
    BY <2>1, CallsCutOff DEF HarnessInv, HandoffClosed, Closed
  <2>3. TranscriptInv(c)'
    BY CallsCutOff DEF TranscriptInv
  <2>4. HandoffInv(c)'
    <3>1. chat'[c].at = "idle" => handoffs'[c] = "none" /\ chat'[c].review = NoReview
      BY <2>1, CallsCutOff DEF HarnessInv, HandoffInv
    <3>2. chat'[c].reply # "none" => chat'[c].at = "replied"
      BY CallsCutOff DEF HarnessInv, HandoffInv
    <3>3. chat'[c].at \in {"idle", "replied"}
      BY CallsCutOff
    <3>4. QED
      BY <3>1, <3>2, <3>3 DEF HandoffInv
  <2>5. QED
    BY <2>2, <2>3, <2>4
<1>6. QED
  BY <1>1, <1>2, <1>3, <1>4, <1>5 DEF HarnessInv, HandoffClosed

-----------------------------------------------------------------------------
\* Every step of the backend keeps what the service relies on

LEMMA RefuseChatKeeps ==
    ASSUME HarnessInv, NEW c \in Chat, RefuseChat(c)
    PROVE  HarnessInv'
<1>1. /\ chat[c].at = "idle"
      /\ ChatReply(c, "500")
      /\ UNCHANGED <<reviews, messages, sessions, lifetime, peers, threads, tasks, handoffs>>
  BY DEF RefuseChat, stores
<1>2. handoffs[c] = "none" /\ Closed(c)
  BY <1>1 DEF HarnessInv, HandoffInv, Closed
<1>3. QED
  BY <1>1, <1>2, ChatTyped, RecordsStay, ChatReplyKeeps

LEMMA UnchangedKeeps == HarnessInv /\ UNCHANGED vars => HarnessInv'
BY HarnessNextKeeps

LEMMA BackendNextKeeps == HarnessInv /\ [BackendNext]_backendVars => HarnessInv'
<1> SUFFICES ASSUME HarnessInv, [BackendNext]_backendVars
             PROVE  HarnessInv'
  OBVIOUS
<1>1. CASE DoorNext
  BY <1>1, ReceiveKeeps, ReceiveFailsKeeps, RefuseChatKeeps, HarnessAssumption
     DEF DoorNext, ServeChat, ServeFirstChat, ReceiveChat
<1>2. CASE RunningNext
  BY <1>2, ChatStepKeeps, ManagerKeeps, FactsKeep DEF RunningNext
<1>3. CASE Restart
  BY <1>3, RestartKeeps
<1>4. CASE UNCHANGED backendVars
  BY <1>4, UnchangedKeeps DEF backendVars
<1>5. QED
  BY <1>1, <1>2, <1>3, <1>4 DEF BackendNext

\* What the calls in flight rely on survives any number of restarts: a chat or a
\* resumption that starts on what an earlier process left behind finds the
\* records in order.
THEOREM BackendInvariance == BackendSpec => []HarnessInv
<1>1. BackendInit => HarnessInv
  BY QuietEstablishes DEF BackendInit
<1>2. QED
  BY <1>1, BackendNextKeeps, PTL DEF BackendSpec

\* The verdict a client was told stands, until the process that keeps the review
\* is gone; what replaces it answers for no review under the same identifier.
THEOREM VerdictsOutliveProcesses == BackendSpec => []VerdictStands
<1>1. HarnessInv => VerdictStands
  BY DEF HarnessInv, IInv
<1>2. QED
  BY BackendInvariance, <1>1, PTL

\* A restart leaves no row without its thread.
THEOREM ForeignKeysOutliveProcesses == BackendSpec => []ForeignKeysHold
<1>1. HarnessInv => ForeignKeysHold
  BY DEF HarnessInv
<1>2. QED
  BY BackendInvariance, <1>1, PTL

\* A chat that is cut off between reading the transcript and opening a review
\* opens none, and one that is not still quotes its own thread.
THEOREM ReviewsQuoteAcrossRestarts == BackendSpec => []ReviewQuotesTranscript
<1>1. HarnessInv => ReviewQuotesTranscript
  BY DEF HarnessInv
<1>2. QED
  BY BackendInvariance, <1>1, PTL

\* Of the chats that were served, none has left its handoff open, in whichever
\* process it ran; of those that failed, none has where tools and record stores do
\* not raise; and whatever fails or is killed, none has closed it as what has not
\* happened (invoke).
THEOREM HandoffsAreClosedAcrossRestarts == BackendSpec => []HandoffClosed
<1>1. HarnessInv => HandoffClosed
  BY DEF HarnessInv
<1>2. QED
  BY BackendInvariance, <1>1, PTL

\* A resumption that is cut off and tried again does not answer a review twice,
\* nor otherwise than its human decided.
THEOREM AnswersAreTrueAcrossRestarts == BackendSpec => []AnswersMatchVerdict
<1>1. HarnessInv => AnswersMatchVerdict
  BY DEF HarnessInv, IInv
<1>2. QED
  BY BackendInvariance, <1>1, PTL

-----------------------------------------------------------------------------
\* The service and its configuration

\* The steps that find the service running leave it as it is.
LEMMA RunningKeepsConfig ==
    ASSUME HarnessInv, RunningNext
    PROVE  /\ UNCHANGED <<config, settings, restarts>>
           /\ \/ UNCHANGED chat
              \/ \E c \in Chat : ChatStep(c)
<1>1. CASE \E c \in Chat : ChatStep(c)
  BY <1>1, ChatAfterStep DEF RunningNext, processVars
<1>2. CASE ManagerNext \/ FactsNext
  BY <1>2 DEF RunningNext, processVars, ManagerNext, FactsNext, chatVars
<1>3. QED
  BY <1>1, <1>2 DEF RunningNext

LEMMA BackendTypeKept ==
    ASSUME HarnessInv, BackendTypeOK, [BackendNext]_backendVars
    PROVE  BackendTypeOK'
<1>1. CASE DoorNext
  BY <1>1 DEF DoorNext, ServeChat, ServeFirstChat, ReceiveChat, RefuseChat, Buildable,
              processVars, BackendTypeOK
<1>2. CASE RunningNext
  BY <1>2, RunningKeepsConfig DEF BackendTypeOK
<1>3. CASE Restart
  BY <1>3, BackendAssumption DEF Restart, BackendTypeOK
<1>4. CASE UNCHANGED backendVars
  BY <1>4 DEF backendVars, vars, chatVars, processVars, BackendTypeOK
<1>5. QED
  BY <1>1, <1>2, <1>3, <1>4 DEF BackendNext

\* What becomes of the chats at the door.
LEMMA DoorMoves ==
    ASSUME HarnessInv, DoorNext
    PROVE  /\ UNCHANGED <<reviews, sessionVars, peers>>
           /\ \E c \in Chat :
                  /\ \A d \in Chat : d # c => chat'[d] = chat[d]
                  /\ chat[c].at = "idle"
                  /\ chat'[c].agent = chat[c].agent /\ chat'[c].review = chat[c].review
                  /\ \/ /\ chat'[c].at = "user_message" /\ chat'[c].thread \in Thread
                        /\ chat'[c].memory = chat[c].memory
                        /\ chat'[c].reply = chat[c].reply
                        /\ config' # NoService
                     \/ /\ chat'[c].at = "replied"
                        /\ chat'[c].memory \in {chat[c].memory, NewMemory}
<1>t. chat \in [Chat -> ChatCall] /\ \A c \in Chat : chat[c] \in ChatCall
  BY DEF HarnessInv, ChatTypeOK
<1>1. ASSUME NEW c \in Chat, NEW t \in Thread, NEW say \in Sayable,
             ServeChat(c, t, say) \/ ServeFirstChat(c, t, say)
      PROVE  /\ UNCHANGED <<reviews, sessionVars, peers>>
             /\ chat[c].at = "idle" /\ config' # NoService
             /\ \A d \in Chat : d # c => chat'[d] = chat[d]
             /\ chat'[c].agent = chat[c].agent /\ chat'[c].review = chat[c].review
             /\ chat'[c].memory = chat[c].memory
             /\ \/ /\ chat'[c].at = "user_message" /\ chat'[c].thread = t
                   /\ chat'[c].reply = chat[c].reply
                \/ chat'[c].at = "replied"
  <2>1. (Receive(c, t, say) \/ ReceiveFails(c, t)) /\ config' # NoService
    BY <1>1, BackendAssumption DEF ServeChat, ServeFirstChat, ReceiveChat
  <2>2. QED
    BY <2>1, <1>t DEF Receive, ReceiveFails, stores, sessionVars, ChatCall
<1>2. ASSUME NEW c \in Chat, RefuseChat(c)
      PROVE  /\ UNCHANGED <<reviews, sessionVars, peers>>
             /\ chat[c].at = "idle"
             /\ \A d \in Chat : d # c => chat'[d] = chat[d]
             /\ chat'[c].agent = chat[c].agent /\ chat'[c].review = chat[c].review
             /\ chat'[c].at = "replied" /\ chat'[c].memory = NewMemory
  BY <1>2, <1>t DEF RefuseChat, ChatReply, stores, sessionVars, ChatCall
<1>3. CASE \E c \in Chat, t \in Thread, say \in Sayable :
               ServeChat(c, t, say) \/ ServeFirstChat(c, t, say)
  BY <1>1, <1>3
<1>4. CASE \E c \in Chat : RefuseChat(c)
  BY <1>2, <1>4
<1>5. QED
  BY <1>3, <1>4 DEF DoorNext

LEMMA ServiceKept ==
    ASSUME HarnessInv, BackendTypeOK, ServiceInv, [BackendNext]_backendVars
    PROVE  ServiceInv'
<1>1. CASE DoorNext
  <2>1. config' = config \/ config' # NoService
    BY <1>1, BackendAssumption
       DEF DoorNext, ServeChat, ServeFirstChat, ReceiveChat, RefuseChat
  <2>2. QED
    BY <1>1, <2>1, DoorMoves DEF ServiceInv
<1>2. CASE RunningNext
  <2>1. config' = config
    BY <1>2, RunningKeepsConfig
  <2>2. CASE UNCHANGED chat
    BY <2>1, <2>2 DEF ServiceInv
  <2>3. CASE \E c \in Chat : ChatStep(c)
    BY <2>1, <2>3, ChatAfterStep DEF ServiceInv
  <2>4. QED
    BY <1>2, <2>2, <2>3, RunningKeepsConfig
<1>3. CASE Restart
  BY <1>3, CallsCutOff DEF ServiceInv
<1>4. CASE UNCHANGED backendVars
  BY <1>4 DEF backendVars, vars, chatVars, ServiceInv
<1>5. QED
  BY <1>1, <1>2, <1>3, <1>4 DEF BackendNext

\* No chat is at work without a service that has been validated.
LEMMA ServiceInvariance == BackendSpec => [](HarnessInv /\ BackendTypeOK /\ ServiceInv)
<1>1. BackendInit => BackendTypeOK /\ ServiceInv
  BY BackendAssumption DEF BackendInit, BackendTypeOK, ServiceInv, Quiet
<1>2. HarnessInv /\ BackendTypeOK /\ ServiceInv /\ [BackendNext]_backendVars
          => BackendTypeOK' /\ ServiceInv'
  BY BackendTypeKept, ServiceKept
<1>3. QED
  BY <1>1, <1>2, BackendInvariance, PTL DEF BackendSpec

\* The service runs on a configuration that has been validated, whatever the
\* files are edited to and however often it is built again
\* (get_security_agent_service).
THEOREM ServiceIsValidated == BackendSpec => []BackendTypeOK
BY ServiceInvariance, PTL

\* A chat the service has started on fails for want of configuration only if it is
\* routed to an agent the service does not have: the model profile of one it has is
\* always found (_validate, get_model_profile).
THEOREM StartedServiceServes == BackendSpec => StartedServiceServesItsAgents
<1> DEFINE served ==
        \A c \in Chat :
           chat[c].agent # "none" /\ chat[c].reply = "none" /\ chat'[c].reply = "500" =>
               \/ SessionsFail /\ chat[c].at \in {"load", "save", "refresh"}
               \/ RecordsFail
               \/ chat[c].agent \notin DOMAIN config.agents
<1>1. HarnessInv /\ BackendTypeOK /\ ServiceInv /\ [BackendNext]_backendVars => [served]_vars
  <2> SUFFICES ASSUME HarnessInv, BackendTypeOK, ServiceInv, BackendNext
               PROVE  served
    BY DEF backendVars
  <2>1. CASE DoorNext
    BY <2>1, DoorMoves DEF ServiceInv
  <2>2. ASSUME NEW c \in Chat, ChatStep(c)
        PROVE  served
    <3>1. \A d \in Chat : d # c => chat'[d] = chat[d]
      BY <2>2, ChatAfterStep
    <3>2. \/ chat'[c].reply \in {chat[c].reply, "200"}
          \/ AgentMissing(c) \/ ChatSessionFails(c) \/ RecordsFail
      BY <2>2, ChatAfterStep
    <3>3. AgentMissing(c) => chat[c].agent \notin DOMAIN config.agents
      <4> HAVE AgentMissing(c)
      <4>1. chat[c].at = "list_messages" /\ ~CanServe(config, chat[c].agent)
        BY DEF AgentMissing
      <4>2. Validate(config)
        BY <4>1 DEF ServiceInv, BackendTypeOK
      <4>3. QED
        BY <4>1, <4>2 DEF CanServe, Validate, UnknownProfile
    <3>4. ChatSessionFails(c) =>
              SessionsFail /\ chat[c].at \in {"load", "save", "refresh"}
      BY DEF ChatSessionFails
    <3>5. QED
      BY <3>1, <3>2, <3>3, <3>4
  <2>3. CASE RunningNext
    BY <2>2, <2>3, RunningKeepsConfig
  <2>4. CASE Restart
    BY <2>4, CallsCutOff
  <2>5. QED
    BY <2>1, <2>3, <2>4 DEF BackendNext
<1>2. QED
  BY <1>1, ServiceInvariance, PTL DEF BackendSpec, StartedServiceServesItsAgents

-----------------------------------------------------------------------------
\* Pointers at reviews


\* An identifier that has been given stands for its review of its thread, or for
\* one that is gone, for ever.
LEMMA ReviewStays ==
    ASSUME HarnessInv, NEW r \in Review, [BackendNext]_backendVars
    PROVE  \/ reviews[r].status = "absent"
           \/ /\ reviews'[r].status = "lost"
              /\ reviews[r].status = "lost" \/ "records" \notin Suspends
           \/ Known(r) /\ Known(r)' /\ reviews'[r].thread = reviews[r].thread
<1> DEFINE stays == \/ reviews[r].status = "absent"
                    \/ /\ reviews'[r].status = "lost"
                       /\ reviews[r].status = "lost" \/ "records" \notin Suspends
                    \/ Known(r) /\ Known(r)' /\ reviews'[r].thread = reviews[r].thread
<1> SUFFICES stays
  OBVIOUS
<1>t. TypeOK /\ reviews \in [Review -> ReviewRecord]
  BY DEF HarnessInv, IInv, TypeOK
<1>s. ASSUME NEW s \in Review, NEW status \in Status \ {"absent", "lost"},
             Known(s), SetStatus(s, status)
      PROVE  stays
  BY <1>s, <1>t, SetStatusTyped DEF Known
<1>c. ASSUME NEW s \in Review, NEW u, NEW action, CreateReview(s, u, action)
      PROVE  stays
  BY <1>c, <1>t DEF CreateReview, Fresh, Known
<1>u. ASSUME UNCHANGED reviews
      PROVE  stays
  BY <1>u DEF Known
<1> HIDE DEF stays
<1>1. CASE DoorNext
  BY <1>1, <1>u, DoorMoves
<1>2. CASE RunningNext
  <2>1. CASE \E c \in Chat : ChatStep(c)
    BY <2>1, <1>u, <1>c, ChatAfterStep
  <2>2. CASE DeciderNext
    <3>1. \/ UNCHANGED reviews
          \/ \E s \in Review, status \in Decision : Known(s) /\ SetStatus(s, status)
      BY <2>2 DEF DeciderNext, DecideReview, DecideRefused, DecideFails, stores,
                  CanDecide, Known
    <3>2. QED
      BY <3>1, <1>s, <1>u
  <2>3. CASE ResumerNext
    BY <2>3, <1>s, <1>u, ResumerAfterStep DEF ResumerNext
  <2>4. CASE ExpiryNext \/ FactsNext
    BY <2>4, <1>u DEF ExpiryNext, SessionExpires, FactsNext
  <2>5. QED
    BY <1>2, <2>1, <2>2, <2>3, <2>4 DEF RunningNext, ManagerNext
<1>3. CASE Restart
  BY <1>3, RecordsCutOff DEF Known, stays
<1>4. CASE UNCHANGED backendVars
  BY <1>4, <1>u DEF backendVars, vars, managerVars, stores
<1>5. QED
  BY <1>1, <1>2, <1>3, <1>4 DEF BackendNext

LEMMA PointersStay ==
    ASSUME HarnessInv, NEW t, NEW r \in Review \cup {NoReview}, PointsInto(t, r),
           [BackendNext]_backendVars
    PROVE  PointsInto(t, r)'
<1>1. CASE r = NoReview
  BY <1>1 DEF PointsInto
<1>2. CASE r \in Review
  BY <1>2, ReviewStays DEF PointsInto, Known
<1>3. QED
  BY <1>1, <1>2

\* The pointers the sessions and the calls hold keep their types.
LEMMA PointersTyped ==
    ASSUME HarnessInv
    PROVE  /\ \A memory \in Memory : memory.review \in Review \cup {NoReview}
           /\ NewMemory.review = NoReview
           /\ sessions \in [Thread -> Memory]
           /\ \A c \in Chat : /\ chat[c].memory \in Memory
                              /\ chat[c].review \in Review \cup {NoReview}
           /\ \A a \in Appender : append[a].memory \in Memory
           /\ \A p \in Resumer : resume[p].memory \in Memory
<1>1. \A memory \in Memory : memory.review \in Review \cup {NoReview}
  BY DEF Memory
<1>2. /\ sessions \in [Thread -> Memory]
      /\ chat \in [Chat -> ChatCall]
      /\ append \in [Appender -> AppendCall]
      /\ resume \in [Resumer -> ResumeCall]
  BY DEF HarnessInv, IInv, TypeOK, ChatTypeOK, AppendTypeOK
<1>3. QED
  BY <1>1, <1>2 DEF NewMemory, ChatCall, AppendCall

\* Each step saves a pointer into its own thread, or none.
LEMMA PointersKept ==
    ASSUME HarnessInv, PointerInv, [BackendNext]_backendVars
    PROVE  PointerInv'
<1> DEFINE Into(t, r) == \/ r = NoReview
                         \/ reviews'[r].status = "lost"
                         \/ /\ reviews'[r].status \notin {"absent", "lost"}
                            /\ reviews'[r].thread = t
           sessionsInto == \A t \in Thread : Into(t, sessions'[t].review)
           chatsInto == \A c \in Chat :
               /\ Into(chat'[c].thread, chat'[c].memory.review)
               /\ Into(chat'[c].thread, chat'[c].review)
               /\ chat'[c].at = "idle" => chat'[c].memory.review = NoReview
           appendersInto == \A a \in Appender :
               Into(append'[a].thread, append'[a].memory.review)
           resumersPoint == \A p \in Resumer : resume'[p].memory.review = NoReview
<1>p. \A t, r : r \in Review \cup {NoReview} /\ PointsInto(t, r) => Into(t, r)
  BY PointersStay DEF PointsInto, Known
<1>n. \A t : Into(t, NoReview)
  OBVIOUS
<1>q. sessionsInto /\ chatsInto /\ appendersInto /\ resumersPoint => PointerInv'
  BY DEF PointerInv, SessionPointsIntoItsThread, PointsInto, Known
<1>c. ASSUME NEW c \in Chat, NEW u \in Review, NEW t, NEW action, CreateReview(u, t, action)
      PROVE  Into(t, u)
  <2>1. reviews \in [Review -> ReviewRecord]
    BY DEF HarnessInv, IInv, TypeOK
  <2>2. QED
    BY <1>c, <2>1 DEF CreateReview
<1> HIDE DEF Into
<1>h. /\ \A t \in Thread : Into(t, sessions[t].review)
      /\ \A c \in Chat : /\ Into(chat[c].thread, chat[c].memory.review)
                         /\ Into(chat[c].thread, chat[c].review)
                         /\ chat[c].at = "idle" => chat[c].memory.review = NoReview
      /\ \A a \in Appender : Into(append[a].thread, append[a].memory.review)
      /\ \A p \in Resumer : resume[p].memory.review = NoReview
  BY <1>p, PointersTyped DEF PointerInv, SessionPointsIntoItsThread
<1>1. CASE DoorNext
  <2>1. PICK c \in Chat :
            /\ \A d \in Chat : d # c => chat'[d] = chat[d]
            /\ chat[c].at = "idle"
            /\ chat'[c].review = chat[c].review
            /\ chat'[c].at # "idle"
            /\ chat'[c].memory \in {chat[c].memory, NewMemory}
    BY <1>1, DoorMoves
  <2>2. chat[c].review = NoReview /\ chat[c].memory.review = NoReview
    BY <1>h, <2>1 DEF HarnessInv, HandoffInv
  <2>3. chatsInto
    BY <1>h, <1>n, <2>1, <2>2, PointersTyped
  <2>4. UNCHANGED <<sessions, append, resume>>
    BY <1>1, DoorMoves DEF sessionVars, peers
  <2>5. QED
    BY <1>h, <1>q, <2>3, <2>4
<1>2. ASSUME NEW c \in Chat, ChatStep(c)
      PROVE  PointerInv'
  <2>1. /\ \A d \in Chat : d # c => chat'[d] = chat[d]
        /\ chat[c].at \notin {"idle", "replied"} /\ chat'[c].at # "idle"
        /\ chat'[c].thread = chat[c].thread
        /\ \/ chat'[c].memory \in {chat[c].memory, NewMemory}
           \/ chat[c].at = "load" /\ chat'[c].memory = sessions[chat[c].thread]
        /\ \/ chat'[c].review = chat[c].review
           \/ /\ chat'[c].review \in Review
              /\ CreateReview(chat'[c].review, chat[c].thread, chat[c].latest)
        /\ SessionStep(chat[c].thread, PersistedMemory(c), chat[c].at, chat'[c].at)
        /\ UNCHANGED <<append, resume>>
    BY <1>2, ChatAfterStep DEF peers
  <2>2. chat[c].thread \in Thread
    BY <2>1 DEF HarnessInv, TranscriptInv, ChatTypeOK
  <2>3. chatsInto
    BY <1>h, <1>n, <1>c, <2>1, <2>2, PointersTyped
  <2>4. Into(chat[c].thread, PersistedMemory(c).review)
    <3>1. PersistedMemory(c).review =
              IF chat[c].review # NoReview THEN chat[c].review ELSE chat[c].memory.review
      BY PointersTyped DEF PersistedMemory, Memory
    <3>2. QED
      BY <1>h, <3>1
  <2>5. sessionsInto
    BY <1>h, <2>1, <2>4, PointersTyped DEF SessionStep, Save, Refresh, sessionVars
  <2>6. QED
    BY <1>h, <1>q, <2>1, <2>3, <2>5
<1>3. CASE ManagerNext
  <2>a. UNCHANGED <<append, chat>>
    BY <1>3 DEF ManagerNext, chatVars
  <2>b. chatsInto /\ appendersInto
    BY <1>h, <2>a
  <2>1. CASE DeciderNext
    <3>1. UNCHANGED <<sessions, resume>>
      BY <2>1 DEF DeciderNext, DecideReview, DecideRefused, DecideFails, stores, sessionVars
    <3>2. QED
      BY <1>h, <1>q, <2>b, <3>1
  <2>2. ASSUME NEW p \in Resumer,
               \/ \E r \in Review :
                      ResumeGetReview(p, r) \/ ResumeRefused(p, r) \/ ResumeGetFails(p, r)
               \/ ResumeStep(p)
        PROVE  PointerInv'
    <3>1. /\ \A q \in Resumer : q # p => resume'[q] = resume[q]
          /\ \/ resume'[p].memory \in {resume[p].memory, NewMemory}
             \/ resume'[p].memory.review = NoReview
          /\ SessionStep(reviews[resume[p].review].thread, resume[p].memory,
                         resume[p].at, resume'[p].at)
      BY <2>2, ResumerAfterStep
    <3>2. resumersPoint
      BY <1>h, <3>1, PointersTyped
    <3>3. sessionsInto
      BY <1>h, <1>n, <3>1, PointersTyped DEF SessionStep, Save, Refresh, sessionVars
    <3>4. QED
      BY <1>q, <2>b, <3>2, <3>3
  <2>3. CASE ExpiryNext
    <3>1. UNCHANGED resume
      BY <2>3 DEF ExpiryNext, SessionExpires
    <3>2. \E t \in Thread : sessions' = [sessions EXCEPT ![t] = NewMemory]
      BY <2>3 DEF ExpiryNext, SessionExpires, Expire
    <3>3. sessionsInto
      BY <1>h, <1>n, <3>2, PointersTyped
    <3>4. QED
      BY <1>h, <1>q, <2>b, <3>1, <3>3
  <2>4. QED
    BY <1>3, <2>1, <2>2, <2>3 DEF ManagerNext, ResumerNext
<1>4. CASE FactsNext
  <2>1. PICK a \in Appender : (\E t \in Thread : AppendLoad(a, t)) \/ AppendStep(a)
    BY <1>4 DEF FactsNext, AppenderNext
  <2>2. UNCHANGED <<chat, resume>>
    BY <1>4 DEF FactsNext, chatVars
  <2>3. /\ \A b \in Appender : b # a => append'[b] = append[b]
        /\ \/ /\ append'[a].thread = append[a].thread
              /\ append'[a].memory \in {append[a].memory, NewMemory}
           \/ /\ append[a].at = "idle" /\ append'[a].thread \in Thread
              /\ append'[a].memory.review = sessions[append'[a].thread].review
        /\ SessionStep(append[a].thread, append[a].memory, append[a].at, append'[a].at)
    BY <2>1, AppenderAfterStep
  <2>4. appendersInto
    BY <1>h, <1>n, <2>3, PointersTyped
  <2>5. sessionsInto
    BY <1>h, <2>3, PointersTyped DEF SessionStep, Save, Refresh, sessionVars
  <2>6. QED
    BY <1>h, <1>q, <2>2, <2>4, <2>5
<1>5. CASE Restart
  <2>1. chatsInto /\ appendersInto /\ resumersPoint
    <3>1. /\ \A c \in Chat : /\ chat'[c].thread = chat[c].thread
                             /\ chat'[c].review = chat[c].review
                             /\ chat'[c].memory \in {chat[c].memory, NewMemory}
                             /\ chat'[c].at = "idle" => chat[c].at = "idle"
          /\ \A a \in Appender : /\ append'[a].thread = append[a].thread
                                 /\ append'[a].memory \in {append[a].memory, NewMemory}
          /\ \A p \in Resumer : resume'[p].memory \in {resume[p].memory, NewMemory}
      BY <1>5, CallsCutOff
    <3>2. chatsInto
      BY <3>1, <1>h, <1>n, PointersTyped
    <3>3. appendersInto
      BY <3>1, <1>h, <1>n, PointersTyped
    <3>4. resumersPoint
      BY <3>1, <1>h, PointersTyped
    <3>5. QED
      BY <3>2, <3>3, <3>4
  <2>2. UNCHANGED sessions \/ sessions' = [t \in Thread |-> NewMemory]
    BY <1>5 DEF Restart, SessionsRestarted, sessionVars
  <2>3. sessionsInto
    BY <1>h, <1>n, <2>2, PointersTyped
  <2>4. QED
    BY <1>q, <2>1, <2>3
<1>6. CASE UNCHANGED backendVars
  <2>1. UNCHANGED <<sessions, chat, append, resume>>
    BY <1>6 DEF backendVars, vars, managerVars, stores, chatVars
  <2>2. QED
    BY <1>h, <1>q, <2>1
<1>7. QED
  BY <1>1, <1>2, <1>3, <1>4, <1>5, <1>6 DEF BackendNext, RunningNext

\* A session that outlives a process that has lost its reviews points at none of
\* another thread, since identifiers are given once.
THEOREM SessionsPointIntoTheirThreads == BackendSpec => []SessionPointsIntoItsThread
<1>1. BackendInit => PointerInv
  <2> SUFFICES ASSUME BackendInit PROVE PointerInv
    OBVIOUS
  <2>1. NewMemory.review = NoReview
    BY DEF NewMemory
  <2>2. QED
    BY <2>1 DEF BackendInit, Quiet, Init, SessionsInit, AppendInit, PointerInv,
                SessionPointsIntoItsThread, PointsInto
<1>2. HarnessInv /\ PointerInv /\ [BackendNext]_backendVars => PointerInv'
  BY PointersKept
<1>3. PointerInv => SessionPointsIntoItsThread
  BY DEF PointerInv
<1>4. QED
  BY <1>1, <1>2, <1>3, BackendInvariance, PTL DEF BackendSpec

\* No step of the running service loses a review.
LEMMA RunningLosesNoReview ==
    ASSUME HarnessInv, RunningNext, NEW r \in Review, reviews[r].status # "lost"
    PROVE  reviews'[r].status # "lost"
<1>t. TypeOK /\ reviews \in [Review -> ReviewRecord]
  BY DEF HarnessInv, IInv, TypeOK
<1>s. ASSUME NEW s \in Review, NEW status \in Status \ {"absent", "lost"},
             SetStatus(s, status)
      PROVE  reviews'[r].status # "lost"
  BY <1>s, <1>t, SetStatusTyped
<1>c. ASSUME NEW s \in Review, NEW u, NEW action, CreateReview(s, u, action)
      PROVE  reviews'[r].status # "lost"
  BY <1>c, <1>t DEF CreateReview
<1>1. CASE \E c \in Chat : ChatStep(c)
  BY <1>1, <1>c, ChatAfterStep
<1>2. CASE DeciderNext
  <2>1. \/ UNCHANGED reviews
        \/ \E s \in Review, status \in Decision : SetStatus(s, status)
    BY <1>2 DEF DeciderNext, DecideReview, DecideRefused, DecideFails, stores
  <2>2. QED
    BY <2>1, <1>s
<1>3. CASE ResumerNext
  BY <1>3, <1>s, ResumerAfterStep DEF ResumerNext
<1>4. CASE ExpiryNext \/ FactsNext
  BY <1>4 DEF ExpiryNext, SessionExpires, FactsNext
<1>5. QED
  BY <1>1, <1>2, <1>3, <1>4 DEF RunningNext, ManagerNext

-----------------------------------------------------------------------------
\* The time to live of a session

\* A session that is kept for ever was so before, or has just been saved.
LEMMA SessionLifetime ==
    ASSUME HarnessInv, NEW t \in Thread, lifetime'[t] = "kept",
           NEW u, NEW memory, NEW at, NEW next, SessionStep(u, memory, at, next)
    PROVE  lifetime[t] = "kept" \/ (u = t /\ (AfterSave = "refresh" => next = "refresh"))
<1>1. lifetime \in [Thread -> {"absent", "kept", "expiring"}]
  BY DEF HarnessInv, IInv, TypeOK
<1>2. QED
  BY <1>1 DEF SessionStep, Save, Refresh, sessionVars

\* EXPIRE leaves no session of its thread to live for ever.
LEMMA RefreshedIsNotKept ==
    ASSUME HarnessInv, NEW t \in Thread, Refresh(t)
    PROVE  lifetime'[t] # "kept"
<1>1. lifetime \in [Thread -> {"absent", "kept", "expiring"}]
  BY DEF HarnessInv, IInv, TypeOK
<1>2. QED
  BY <1>1 DEF Refresh

\* A call that is about to refresh a session does so, or fails and says so.
LEMMA ChatRefreshEnds ==
    ASSUME HarnessInv, NEW c \in Chat, ChatStep(c), chat[c].at = "refresh"
    PROVE  Refresh(chat[c].thread) \/ chat'[c].reply = "500"
<1>t. chat \in [Chat -> ChatCall] /\ chat[c] \in ChatCall
  BY DEF HarnessInv, ChatTypeOK
<1>1. RefreshMemory(c) \/ ChatSessionFails(c)
  BY DEF ChatStep, SaveUserMessage, LoadMemory, ListMessages, AgentMissing, CreateHandoff,
         RunQueryTool, CreateSecurityTodos, RequestHumanReview, RunsTool, CloseHandoff,
         SaveAssistantMessage, SaveMemory, ChatRecordFails, TodosCutShort
<1>2. QED
  BY <1>1, <1>t DEF RefreshMemory, ChatSessionFails, ChatReply, ChatCall

LEMMA ResumeRefreshEnds ==
    ASSUME HarnessInv, NEW p \in Resumer, resume[p].at = "refresh",
           \/ \E r \in Review :
                  ResumeGetReview(p, r) \/ ResumeRefused(p, r) \/ ResumeGetFails(p, r)
           \/ ResumeStep(p)
    PROVE  Refresh(reviews[resume[p].review].thread) \/ resume'[p].reply = "500"
<1>t. resume \in [Resumer -> ResumeCall]
  BY DEF HarnessInv, IInv, TypeOK
<1>1. ResumeRefreshMemory(p) \/ ResumeSessionFails(p)
  BY DEF ResumeGetReview, ResumeRefused, ResumeGetFails, ResumeTurnedAway, ResumeStep,
         ResumeMarkResumed, ResumeLosesRace, ResumeFinishReview, ResumeAddMessage,
         ResumeLoadMemory, ResumeSaveMemory, ResumeRecordFails
<1>2. QED
  BY <1>1, <1>t DEF ResumeRefreshMemory, ResumeSessionFails, ResumeReply

LEMMA AppendRefreshEnds ==
    ASSUME HarnessInv, NEW a \in Appender, append[a].at = "refresh",
           (\E t \in Thread : AppendLoad(a, t)) \/ AppendStep(a)
    PROVE  Refresh(append[a].thread) \/ append'[a].reply = "error"
<1>t. append \in [Appender -> AppendCall]
  BY DEF HarnessInv, AppendTypeOK
<1>1. AppendRefresh(a) \/ AppendFails(a)
  BY DEF AppendLoad, AppendStep, AppendSave
<1>2. QED
  BY <1>1, <1>t DEF AppendRefresh, AppendFails, AppendReply, AppendCall

\* The thread of the review a resumption is at work on stays, restarts aside.
LEMMA ResumedThreadStays ==
    ASSUME HarnessInv, BackendNext, ~Restart, NEW p \in Resumer, resume[p].at = "refresh"
    PROVE  /\ resume[p].review \in Review
           /\ reviews'[resume[p].review].thread = reviews[resume[p].review].thread
<1>1. resume[p].review \in Review /\ Known(resume[p].review)
  BY DEF HarnessInv, IInv, ResumerInv
<1>2. reviews'[resume[p].review].status # "lost"
  <2>1. CASE DoorNext
    BY <2>1, <1>1, DoorMoves DEF Known
  <2>2. CASE RunningNext
    BY <2>2, <1>1, RunningLosesNoReview DEF Known
  <2>3. QED
    BY <2>1, <2>2 DEF BackendNext
<1>3. QED
  BY <1>1, <1>2, ReviewStays DEF Known

\* A session that has come to live for ever has had a call end between its HSET
\* and its EXPIRE.
LEMMA LifetimeStep ==
    ASSUME "sessions" \in Suspends, HarnessInv, BackendTypeOK, BackendNext,
           NEW t \in Thread, Endless(t)'
    PROVE  Endless(t) \/ RefreshRaises(t) \/ (Kill /\ Refreshing(t))
<1>a. AfterSave = "refresh"
  BY DEF AfterSave
<1>n. lifetime'[t] = "kept" /\ ~Refreshing(t)'
  BY DEF Endless
<1>e. lifetime[t] = "kept" /\ ~Refreshing(t) => Endless(t)
  BY DEF Endless
<1>c. ~Restart =>
          /\ \A c \in Chat : ChatRefreshes(c, t) => chat'[c] # chat[c]
          /\ \A a \in Appender : AppendRefreshes(a, t) => append'[a] # append[a]
          /\ \A p \in Resumer : ResumeRefreshes(p, t) => resume'[p] # resume[p]
  BY <1>n, ResumedThreadStays
     DEF Refreshing, ChatRefreshes, AppendRefreshes, ResumeRefreshes
<1>1. CASE DoorNext /\ ~Restart
  <2>1. /\ UNCHANGED <<lifetime, append, resume>>
        /\ \A c \in Chat : chat[c].at = "refresh" => chat'[c] = chat[c]
    BY <1>1, DoorMoves DEF sessionVars, peers
  <2>2. ~Refreshing(t)
    BY <1>1, <1>c, <2>1 DEF Refreshing, ChatRefreshes
  <2>3. QED
    BY <1>e, <1>n, <2>1, <2>2
<1>2. ASSUME NEW c \in Chat, ChatStep(c), ~Restart
      PROVE  Endless(t) \/ RefreshRaises(t)
  <2>1. /\ \A d \in Chat : d # c => chat'[d] = chat[d]
        /\ chat'[c].thread = chat[c].thread
        /\ SessionStep(chat[c].thread, PersistedMemory(c), chat[c].at, chat'[c].at)
        /\ UNCHANGED <<append, resume>>
    BY <1>2, ChatAfterStep DEF peers
  <2>2. ~(chat'[c].at = "refresh" /\ chat[c].thread = t)
    BY <1>n, <2>1 DEF Refreshing, ChatRefreshes
  <2>3. lifetime[t] = "kept"
    BY <1>a, <1>n, <2>1, <2>2, SessionLifetime
  <2>4. CASE ChatRefreshes(c, t)
    BY <1>2, <1>n, <2>4, ChatRefreshEnds, RefreshedIsNotKept DEF ChatRefreshes, RefreshRaises
  <2>5. CASE ~ChatRefreshes(c, t)
    <3>1. ~Refreshing(t)
      BY <1>2, <1>c, <2>1, <2>5 DEF Refreshing
    <3>2. QED
      BY <1>e, <2>3, <3>1
  <2>6. QED
    BY <2>4, <2>5
<1>3. ASSUME NEW p \in Resumer, UNCHANGED <<append, chat>>, ~Restart,
             \/ \E r \in Review :
                    ResumeGetReview(p, r) \/ ResumeRefused(p, r) \/ ResumeGetFails(p, r)
             \/ ResumeStep(p)
      PROVE  Endless(t) \/ RefreshRaises(t)
  <2> DEFINE u == reviews[resume[p].review].thread
  <2>1. /\ \A q \in Resumer : q # p => resume'[q] = resume[q]
        /\ resume[p].at # "idle" => resume'[p].review = resume[p].review
        /\ SessionStep(u, resume[p].memory, resume[p].at, resume'[p].at)
    BY <1>3, ResumerAfterStep
  <2>2. resume[p].at \in {"save", "refresh"} =>
            resume[p].review \in Review /\ reviews'[resume[p].review].thread = u
    <3> HAVE resume[p].at \in {"save", "refresh"}
    <3>1. resume[p].review \in Review
      BY DEF HarnessInv, IInv, ResumerInv
    <3>2. UNCHANGED reviews
      BY <1>3 DEF ResumeGetReview, ResumeRefused, ResumeGetFails, ResumeTurnedAway, ResumeStep,
                  ResumeMarkResumed, ResumeLosesRace, ResumeFinishReview, ResumeAddMessage,
                  ResumeLoadMemory, ResumeSaveMemory, ResumeRefreshMemory, ResumeSessionFails,
                  ResumeRecordFails, stores
    <3>3. QED
      BY <3>1, <3>2
  <2>3. lifetime[t] = "kept"
    <3>1. ASSUME lifetime[t] # "kept"
          PROVE  FALSE
      <4>1. u = t /\ resume'[p].at = "refresh" /\ resume[p].at = "save"
        <5>1. u = t /\ resume'[p].at = "refresh"
          BY <1>a, <1>n, <2>1, <3>1, SessionLifetime
        <5>2. resume[p].at # "save" => lifetime'[t] = lifetime[t] \/ Refresh(u)
          BY <2>1 DEF SessionStep, sessionVars
        <5>3. QED
          BY <1>n, <3>1, <5>1, <5>2, RefreshedIsNotKept
      <4>2. ResumeRefreshes(p, t)'
        BY <2>1, <2>2, <4>1 DEF ResumeRefreshes
      <4>3. QED
        BY <1>n, <4>2 DEF Refreshing
    <3>2. QED
      BY <3>1
  <2>4. CASE ResumeRefreshes(p, t)
    BY <1>3, <1>n, <2>4, ResumeRefreshEnds, RefreshedIsNotKept
       DEF ResumeRefreshes, RefreshRaises
  <2>5. CASE ~ResumeRefreshes(p, t)
    <3>1. ~Refreshing(t)
      BY <1>3, <1>c, <2>1, <2>5 DEF Refreshing
    <3>2. QED
      BY <1>e, <2>3, <3>1
  <2>6. QED
    BY <2>4, <2>5
<1>4. CASE ManagerNext /\ ~Restart
  <2>1. UNCHANGED <<append, chat>>
    BY <1>4 DEF ManagerNext, chatVars
  <2>2. CASE DeciderNext \/ ExpiryNext
    <3>1. UNCHANGED resume /\ lifetime[t] = "kept"
      <4>1. lifetime \in [Thread -> {"absent", "kept", "expiring"}]
        BY DEF HarnessInv, IInv, TypeOK
      <4>2. CASE DeciderNext
        BY <4>2, <1>n DEF DeciderNext, DecideReview, DecideRefused, DecideFails, stores,
                          sessionVars
      <4>3. CASE ExpiryNext
        BY <4>1, <4>3, <1>n DEF ExpiryNext, SessionExpires, Expire
      <4>4. QED
        BY <2>2, <4>2, <4>3
    <3>2. ~Refreshing(t)
      BY <1>4, <1>c, <2>1, <3>1 DEF Refreshing
    <3>3. QED
      BY <1>e, <3>1, <3>2
  <2>3. CASE ResumerNext
    BY <1>3, <1>4, <2>1, <2>3 DEF ResumerNext
  <2>4. QED
    BY <1>4, <2>2, <2>3 DEF ManagerNext
<1>5. CASE FactsNext /\ ~Restart
  <2>1. PICK a \in Appender : (\E u \in Thread : AppendLoad(a, u)) \/ AppendStep(a)
    BY <1>5 DEF FactsNext, AppenderNext
  <2>2. UNCHANGED <<chat, resume>>
    BY <1>5 DEF FactsNext, chatVars
  <2>3. /\ \A b \in Appender : b # a => append'[b] = append[b]
        /\ \/ append'[a].thread = append[a].thread
           \/ append[a].at = "idle"
        /\ SessionStep(append[a].thread, append[a].memory, append[a].at, append'[a].at)
    BY <2>1, AppenderAfterStep
  <2>4. lifetime[t] = "kept"
    <3>1. ASSUME lifetime[t] # "kept"
          PROVE  FALSE
      <4>1. append[a].thread = t /\ append'[a].at = "refresh"
        BY <1>a, <1>n, <2>3, <3>1, SessionLifetime
      <4>2. append[a].at = "idle" => lifetime'[t] = lifetime[t]
        BY <2>3 DEF SessionStep, sessionVars
      <4>3. AppendRefreshes(a, t)'
        BY <1>n, <2>3, <3>1, <4>1, <4>2 DEF AppendRefreshes
      <4>4. QED
        BY <1>n, <4>3 DEF Refreshing
    <3>2. QED
      BY <3>1
  <2>5. CASE AppendRefreshes(a, t)
    BY <1>n, <2>1, <2>5, AppendRefreshEnds, RefreshedIsNotKept
       DEF AppendRefreshes, RefreshRaises
  <2>6. CASE ~AppendRefreshes(a, t)
    <3>1. ~Refreshing(t)
      BY <1>5, <1>c, <2>2, <2>3, <2>6 DEF Refreshing
    <3>2. QED
      BY <1>e, <2>4, <3>1
  <2>7. QED
    BY <2>5, <2>6
<1>6. CASE Restart
  <2>1. Kill
    BY <1>6, BackendAssumption DEF Restart, Kill, BackendTypeOK
  <2>2. UNCHANGED lifetime
    BY <1>6 DEF Restart, SessionsRestarted, InMemory, sessionVars
  <2>3. QED
    BY <1>e, <1>n, <2>1, <2>2
<1>7. QED
  BY <1>1, <1>2, <1>4, <1>5, <1>6 DEF BackendNext, RunningNext

\* With sessions in Redis, whatever else may fail or be killed, a session is left to
\* live for ever only by a call that is killed between its HSET and its EXPIRE or
\* whose EXPIRE raises: nothing else loses the 14 days (RedisSessionStore.save).
THEOREM OnlyFailuresLoseLifetimes ==
    ASSUME "sessions" \in Suspends
    PROVE  BackendSpec => OnlyFailureLosesLifetime
<1> DEFINE kept == \A t \in Thread :
               Endless(t)' => Endless(t) \/ RefreshRaises(t) \/ (Kill /\ Refreshing(t))
<1>1. HarnessInv /\ BackendTypeOK /\ [BackendNext]_backendVars => [kept]_backendVars
  BY LifetimeStep
<1>2. QED
  BY <1>1, ServiceInvariance, PTL DEF BackendSpec, OnlyFailureLosesLifetime

-----------------------------------------------------------------------------
\* What a call begins and has to finish

\* A review that is "resumed" after a step of a resumer is being finished by it,
\* or was "resumed" before, and then the resumer that was to finish it has failed.
LEMMA ResumerCarriesOut ==
    ASSUME HarnessInv, NEW p \in Resumer,
           \/ \E r \in Review :
                  ResumeGetReview(p, r) \/ ResumeRefused(p, r) \/ ResumeGetFails(p, r)
           \/ ResumeStep(p),
           NEW r \in Review, reviews'[r].status = "resumed"
    PROVE  \/ BeingFinished(p, r)'
           \/ /\ reviews[r].status = "resumed"
              /\ BeingFinished(p, r) => RecordsFail /\ resume'[p].reply = "500"
<1> USE DEF BeingFinished
<1>t. resume \in [Resumer -> ResumeCall] /\ reviews \in [Review -> ReviewRecord]
  BY DEF HarnessInv, IInv, TypeOK
<1>1. CASE \E s \in Review :
               ResumeGetReview(p, s) \/ ResumeRefused(p, s) \/ ResumeGetFails(p, s)
  BY <1>1 DEF ResumeGetReview, ResumeRefused, ResumeGetFails, ResumeTurnedAway, stores
<1>2. CASE ResumeMarkResumed(p)
  BY <1>2, <1>t DEF ResumeMarkResumed, SetStatus, ResumeGoto
<1>3. CASE ResumeFinishReview(p)
  <2>1. FinalStatus(resume[p].decision) # "resumed"
    BY FinalStatusIsFinal
  <2>2. QED
    BY <1>3, <2>1, <1>t DEF ResumeFinishReview, SetStatus
<1>4. CASE ResumeRecordFails(p)
  BY <1>4, <1>t DEF ResumeRecordFails, ResumeReply, stores
<1>5. CASE /\ UNCHANGED reviews
           /\ resume[p].at # "finish_review"
  BY <1>5
<1>6. QED
  BY <1>1, <1>2, <1>3, <1>4, <1>5
     DEF ResumeStep, ResumeLosesRace, ResumeAddMessage, ResumeLoadMemory, ResumeSaveMemory,
         ResumeRefreshMemory, ResumeSessionFails, stores

\* A step that moves no resumer and marks no review.
LEMMA NoneResumed ==
    ASSUME UNCHANGED resume, NEW r, Stranded(r)',
           reviews'[r].status = "resumed" => reviews[r].status = "resumed"
    PROVE  Stranded(r)
BY DEF Stranded, BeingFinished

LEMMA ReviewStranded ==
    ASSUME HarnessInv, BackendTypeOK, BackendNext, NEW r \in Review, Stranded(r)'
    PROVE  \/ Stranded(r) \/ Kill
           \/ /\ RecordsFail
              /\ \E p \in Resumer : BeingFinished(p, r) /\ resume'[p].reply = "500"
<1>t. resume \in [Resumer -> ResumeCall] /\ reviews \in [Review -> ReviewRecord]
  BY DEF HarnessInv, IInv, TypeOK
<1>1. CASE DoorNext
  BY <1>1, DoorMoves, NoneResumed DEF peers
<1>2. CASE \E c \in Chat : ChatStep(c)
  <2>1. /\ UNCHANGED resume
        /\ \/ UNCHANGED reviews
           \/ \E s, t, action : CreateReview(s, t, action)
    BY <1>2, ChatAfterStep DEF peers
  <2>2. reviews'[r].status = "resumed" => reviews[r].status = "resumed"
    BY <2>1, <1>t DEF CreateReview
  <2>3. QED
    BY <2>1, <2>2, NoneResumed
<1>3. CASE DeciderNext
  <2>1. /\ UNCHANGED resume
        /\ reviews'[r].status = "resumed" => reviews[r].status = "resumed"
    BY <1>3, <1>t DEF DeciderNext, DecideReview, DecideRefused, DecideFails, SetStatus, stores
  <2>2. QED
    BY <2>1, NoneResumed
<1>4. CASE ResumerNext
  <2>1. PICK p \in Resumer :
            \/ \E s \in Review :
                   ResumeGetReview(p, s) \/ ResumeRefused(p, s) \/ ResumeGetFails(p, s)
            \/ ResumeStep(p)
    BY <1>4 DEF ResumerNext
  <2>2. \A q \in Resumer : q # p => resume'[q] = resume[q]
    BY <2>1, ResumerAfterStep
  <2>3. /\ reviews[r].status = "resumed"
        /\ BeingFinished(p, r) => RecordsFail /\ resume'[p].reply = "500"
    BY <2>1, ResumerCarriesOut DEF Stranded
  <2>4. \A q \in Resumer : q # p => ~BeingFinished(q, r)
    BY <2>2 DEF Stranded, BeingFinished
  <2>5. QED
    BY <2>3, <2>4 DEF Stranded
<1>5. CASE ExpiryNext \/ FactsNext
  BY <1>5, NoneResumed DEF ExpiryNext, SessionExpires, FactsNext
<1>6. CASE Restart
  BY <1>6, BackendAssumption DEF Restart, Kill, BackendTypeOK
<1>7. QED
  BY <1>1, <1>2, <1>3, <1>4, <1>5, <1>6 DEF BackendNext, RunningNext, ManagerNext

\* A chat leaves a handoff open in no step but one that fails.
LEMMA ChatClosesHandoff ==
    ASSUME HarnessInv, NEW c \in Chat, ChatStep(c), LeftOpen(c)'
    PROVE  RecordsFail /\ chat'[c].reply = "500"
<1>t. /\ chat \in [Chat -> ChatCall] /\ chat[c] \in ChatCall
      /\ handoffs \in [Chat -> Handoff]
  BY DEF HarnessInv, ChatTypeOK
<1>o. handoffs'[c] = "created" /\ chat'[c].at \notin {"tools", "close_handoff"}
  BY DEF LeftOpen
<1>h. /\ handoffs[c] = "created" => chat[c].at \in {"tools", "close_handoff", "replied", "idle"}
      /\ chat[c].at = "tools" /\ handoffs[c] = "created" => chat[c].agent # "main-agent"
      /\ chat[c].at = "handoff" => chat[c].agent # "main-agent"
      /\ chat[c].at \in {"load", "list_messages"} => handoffs[c] = "none"
  BY <1>t DEF HarnessInv, HandoffInv, Closed, ChatCall
<1>a. \A agent, plan :
          agent # "main-agent" => AfterTools(agent, plan) \in {"tools", "close_handoff"}
  BY DEF AfterTools
<1>1. CASE CreateHandoff(c)
  <2>1. chat'[c].at = AfterTools(chat[c].agent, chat[c].plan)
    BY <1>1, <1>t DEF CreateHandoff, ChatGoto, ChatCall
  <2>2. QED
    BY <1>1, <1>o, <1>h, <1>a, <2>1 DEF CreateHandoff
<1>2. ASSUME NEW review, ToolDone(c, review), chat[c].at = "tools", handoffs' = handoffs
      PROVE  FALSE
  <2>1. chat'[c].at = AfterTools(chat[c].agent, Tail(chat[c].plan))
    BY <1>2, <1>t DEF ToolDone, ChatCall
  <2>2. QED
    BY <1>2, <1>o, <1>h, <1>a, <2>1
<1>3. ~RunQueryTool(c) /\ ~CreateSecurityTodos(c) /\ \A r \in Review : ~RequestHumanReview(c, r)
  BY <1>2 DEF RunQueryTool, CreateSecurityTodos, RequestHumanReview, RunsTool
<1>4. CASE ChatRecordFails(c) \/ TodosCutShort(c)
  BY <1>4, <1>t DEF ChatRecordFails, TodosCutShort, ChatReply, ChatCall
<1>5. CASE CloseHandoff(c)
  BY <1>5, <1>o, <1>t DEF CloseHandoff
<1>6. ~(/\ handoffs' = handoffs
        /\ chat[c].at \notin {"tools", "close_handoff", "replied", "idle"})
  BY <1>o, <1>h
<1>7. QED
  BY <1>1, <1>3, <1>4, <1>5, <1>6
     DEF ChatStep, SaveUserMessage, LoadMemory, ListMessages, AgentMissing,
         SaveAssistantMessage, SaveMemory, RefreshMemory, ChatSessionFails

LEMMA HandoffLeftOpen ==
    ASSUME HarnessInv, BackendTypeOK, BackendNext, NEW c \in Chat, LeftOpen(c)'
    PROVE  \/ LeftOpen(c) \/ Kill
           \/ RecordsFail /\ chat[c].reply = "none" /\ chat'[c].reply = "500"
<1>s. chat'[c] = chat[c] /\ handoffs'[c] = handoffs[c] => LeftOpen(c)
  BY DEF LeftOpen
<1>1. CASE DoorNext
  <2>1. UNCHANGED handoffs
    <3>1. \A d \in Chat, t \in Thread, say \in Sayable :
              Receive(d, t, say) \/ ReceiveFails(d, t) => UNCHANGED handoffs
      BY DEF Receive, ReceiveFails
    <3>2. \A d \in Chat : RefuseChat(d) => UNCHANGED handoffs
      BY DEF RefuseChat
    <3>3. QED
      BY <1>1, <3>1, <3>2 DEF DoorNext, ServeChat, ServeFirstChat, ReceiveChat
  <2>2. chat'[c] = chat[c] \/ handoffs[c] = "none"
    BY <1>1, DoorMoves DEF HarnessInv, HandoffInv
  <2>3. QED
    BY <1>s, <2>1, <2>2 DEF LeftOpen
<1>2. ASSUME NEW d \in Chat, ChatStep(d)
      PROVE  LeftOpen(c) \/ (RecordsFail /\ chat[c].reply = "none" /\ chat'[c].reply = "500")
  <2>1. CASE d = c
    <3>1. chat[c].reply = "none"
      BY <1>2, <2>1, ChatAfterStep, ChatTyped DEF HarnessInv, HandoffInv, ChatCall
    <3>2. QED
      BY <1>2, <2>1, <3>1, ChatClosesHandoff
  <2>2. CASE d # c
    <3>1. chat'[c] = chat[c]
      BY <1>2, <2>2, ChatAfterStep
    <3>2. handoffs'[c] = handoffs[c]
      BY <1>2, <2>2
         DEF HarnessInv, ChatTypeOK, ChatStep, SaveUserMessage, LoadMemory, ListMessages,
             AgentMissing, CreateHandoff, RunQueryTool, CreateSecurityTodos,
             RequestHumanReview, CloseHandoff, SaveAssistantMessage, SaveMemory,
             RefreshMemory, ChatSessionFails, ChatRecordFails, TodosCutShort
    <3>3. QED
      BY <1>s, <3>1, <3>2
  <2>3. QED
    BY <2>1, <2>2
<1>3. CASE ManagerNext \/ FactsNext
  BY <1>3, <1>s DEF ManagerNext, FactsNext, chatVars
<1>4. CASE Restart
  BY <1>4, BackendAssumption DEF Restart, Kill, BackendTypeOK
<1>5. QED
  BY <1>1, <1>2, <1>3, <1>4 DEF BackendNext, RunningNext

\* What a call has begun on a review or a handoff is given up only in a step that
\* kills the process, or in which that call itself fails on a server and is answered
\* 500: a resumption that is refused, a session that is lost and whatever other calls
\* do in between give up nothing (resume_after_review, invoke).
THEOREM OnlyFailuresAbandon == BackendSpec => OnlyFailureAbandons
<1> DEFINE finished ==
        /\ \A r \in Review :
              Stranded(r)' =>
                  \/ Stranded(r) \/ Kill
                  \/ /\ RecordsFail
                     /\ \E p \in Resumer :
                            BeingFinished(p, r) /\ resume'[p].reply = "500"
        /\ \A c \in Chat :
              LeftOpen(c)' =>
                  \/ LeftOpen(c) \/ Kill
                  \/ RecordsFail /\ chat[c].reply = "none" /\ chat'[c].reply = "500"
<1>1. HarnessInv /\ BackendTypeOK /\ [BackendNext]_backendVars => [finished]_backendVars
  BY ReviewStranded, HandoffLeftOpen
<1>2. QED
  BY <1>1, ServiceInvariance, PTL DEF BackendSpec, OnlyFailureAbandons

\* Unless the process is killed or a record store raises, a decision that has been
\* consumed is being carried out: it takes one of the two to leave a review "resumed"
\* for ever, and a failing session store, an expired session, a lost race or a refused
\* resumption does not (docs/03 section 5, resume_after_review).
THEOREM ReviewsAreCarriedOut ==
    ASSUME MaxRestarts = 0, ~RecordsFail
    PROVE  BackendSpec => []ConsumedReviewIsCarriedOut
<1>1. BackendInit => ConsumedReviewIsCarriedOut
  BY DEF BackendInit, Quiet, Init, ReviewsInit, NoRecord, ConsumedReviewIsCarriedOut, Stranded
<1>2. HarnessInv /\ BackendTypeOK /\ BackendTypeOK' /\ ConsumedReviewIsCarriedOut
      /\ [BackendNext]_backendVars
          => ConsumedReviewIsCarriedOut'
  <2> SUFFICES ASSUME HarnessInv, BackendTypeOK, BackendTypeOK',
                      ConsumedReviewIsCarriedOut, [BackendNext]_backendVars,
                      NEW r \in Review, Stranded(r)'
               PROVE  FALSE
    BY DEF ConsumedReviewIsCarriedOut
  <2>1. ~Stranded(r)
    BY DEF ConsumedReviewIsCarriedOut
  <2>2. ~Kill
    BY DEF BackendTypeOK, Kill
  <2>3. CASE BackendNext
    BY <2>1, <2>2, <2>3, ReviewStranded
  <2>4. CASE UNCHANGED backendVars
    BY <2>1, <2>4, NoneResumed DEF backendVars, vars, managerVars, stores
  <2>5. QED
    BY <2>3, <2>4
<1>3. QED
  BY <1>1, <1>2, ServiceInvariance, PTL DEF BackendSpec
=============================================================================

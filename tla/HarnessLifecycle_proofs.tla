----------------------- MODULE HarnessLifecycle_proofs -----------------------
(***************************************************************************)
(* The backend implements ReviewLifecycle: chats, which open the reviews   *)
(* and write most of the transcript the answers stand in, take no step the *)
(* review does not allow, and neither does the kill of a process that does *)
(* not keep the records itself.                                            *)
(***************************************************************************)
EXTENDS Backend_proofs, ReviewLifecycle_proofs

USE RecordsAssumption, InterruptManagerAssumption, HarnessAssumption,
    SessionFactsAssumption

\* A message about no review answers none.
LEMMA PlainMessageStutters ==
    ASSUME TypeOK, NEW m \in Message, m.review = NoReview,
           messages' = Append(messages, m), UNCHANGED <<reviews, decide>>
    PROVE  UNCHANGED Lifecycle!lifecycleVars
<1>1. /\ Len(messages) \in Nat
      /\ DOMAIN messages = 1 .. Len(messages)
      /\ DOMAIN messages' = 1 .. Len(messages) + 1
      /\ \A i \in DOMAIN messages : messages'[i] = messages[i]
      /\ messages'[Len(messages) + 1] = m
  BY MessageAppended
<1>2. UNCHANGED Answered
  BY <1>1, RecordsAssumption DEF Answered
<1>3. UNCHANGED Outcome
  BY OutcomeKept, OutcomeUnchanged DEF Approved, Acknowledged
<1>4. QED
  BY <1>2, <1>3 DEF Outcome, Lifecycle!lifecycleVars

LEMMA ChatWritesStutter ==
    ASSUME HarnessInv, NEW c \in Chat, chat[c].thread \in threads,
           NEW role \in {"user", "assistant"}, NEW risky \in BOOLEAN,
           messages' = Append(messages, ChatMessage(c, role, risky)),
           UNCHANGED <<reviews, decide>>
    PROVE  UNCHANGED Lifecycle!lifecycleVars
<1> DEFINE m == ChatMessage(c, role, risky)
<1>1. m \in Message /\ m.review = NoReview
  BY DEF ChatMessage, Message, Text, HarnessInv, ChatTypeOK
<1>2. messages' = Append(messages, m)
  OBVIOUS
<1> HIDE DEF m
<1>3. QED
  BY <1>1, <1>2, PlainMessageStutters DEF HarnessInv, IInv

\* A chat opens a review or does nothing the life of a review is about.
LEMMA ChatMaps ==
    ASSUME HarnessInv, NEW c \in Chat, ChatStep(c)
    PROVE  (\E r \in Review : Lifecycle!Open(r)) \/ UNCHANGED Lifecycle!lifecycleVars
<1>1. CASE SaveUserMessage(c) \/ SaveAssistantMessage(c)
  <2>1. /\ chat[c].at \in {"user_message", "assistant_message"}
        /\ \E role \in {"user", "assistant"}, risky \in {FALSE, chat[c].say.risky} :
               messages' = Append(messages, ChatMessage(c, role, risky))
        /\ UNCHANGED <<reviews, decide>>
    BY <1>1 DEF SaveUserMessage, SaveAssistantMessage, peers
  <2>2. chat[c].say.risky \in BOOLEAN
    BY ChatTyped DEF ChatCall, Utterances
  <2>3. chat[c].thread \in threads
    BY <2>1 DEF HarnessInv, TranscriptInv
  <2>4. QED
    BY <2>1, <2>2, <2>3, ChatWritesStutter
<1>2. ASSUME NEW r \in Review, RequestHumanReview(c, r)
      PROVE  Lifecycle!Open(r)
  BY <1>2, CreateReviewOpens DEF RequestHumanReview, peers, HarnessInv
<1>3. CASE UNCHANGED <<reviews, messages, decide>>
  BY <1>3, OthersStutter
<1>4. QED
  BY <1>1, <1>2, <1>3
     DEF ChatStep, LoadMemory, ListMessages, AgentMissing, CreateHandoff, RunQueryTool,
         CreateSecurityTodos, CloseHandoff, SaveMemory, RefreshMemory, ChatSessionFails,
         ChatRecordFails, TodosCutShort, stores, peers

LEMMA HarnessInitMaps == HarnessInit => Lifecycle!LifecycleInit
BY InitMaps DEF HarnessInit, Quiet

LEMMA HarnessStepMaps ==
    HarnessInv /\ [HarnessNext]_vars
        => [Lifecycle!LifecycleNext]_(Lifecycle!lifecycleVars)
<1> SUFFICES ASSUME HarnessInv, [HarnessNext]_vars
             PROVE  Lifecycle!LifecycleNext \/ UNCHANGED Lifecycle!lifecycleVars
  OBVIOUS
<1>1. CASE ChatNext
  <2>1. PICK c \in Chat :
            ChatStep(c) \/ \E t \in Thread, say \in Sayable : ReceiveChat(c, t, say)
    BY <1>1 DEF ChatNext
  <2>2. CASE ChatStep(c)
    BY <2>2, ChatMaps DEF Lifecycle!LifecycleNext
  <2>3. CASE \E t \in Thread, say \in Sayable : ReceiveChat(c, t, say)
    BY <2>3, OthersStutter DEF ReceiveChat, Receive, ReceiveFails, stores, peers
  <2>4. QED
    BY <2>1, <2>2, <2>3
<1>2. CASE ManagerNext
  <2>1. Next
    BY <1>2 DEF ManagerNext, Next
  <2>2. QED
    BY <2>1, StepMaps DEF HarnessInv
<1>3. CASE FactsNext
  BY <1>3, OthersStutter DEF FactsNext
<1>4. CASE UNCHANGED vars
  BY <1>4, OthersStutter DEF vars, managerVars, stores
<1>5. QED
  BY <1>1, <1>2, <1>3, <1>4 DEF HarnessNext

\* Whatever its chats, its review calls and append_fact do to one another, the
\* backend opens, decides, carries out and answers each review once, in this
\* order, and carries out nothing but what was decided (docs/07; chat,
\* decide_review, resume_after_review).
THEOREM BackendImplementsLifecycle == HarnessSpec => ImplementsLifecycle
<1>1. HarnessSpec => Lifecycle!LifecycleInit /\ [][Lifecycle!LifecycleNext]_(Lifecycle!lifecycleVars)
  BY HarnessInitMaps, HarnessStepMaps, HarnessInvariance, PTL DEF HarnessSpec
<1>2. QED
  BY <1>1 DEF ImplementsLifecycle, Lifecycle!LifecycleSpec

-----------------------------------------------------------------------------
\* The life of the process

LEMMA BackendStepMaps ==
    ASSUME "records" \in Suspends, HarnessInv, [BackendNext]_backendVars
    PROVE  Lifecycle!LifecycleNext \/ UNCHANGED Lifecycle!lifecycleVars
<1>1. CASE DoorNext
  <2>1. \A c \in Chat, t \in Thread, say \in Sayable :
            Receive(c, t, say) \/ ReceiveFails(c, t) => UNCHANGED <<reviews, messages, decide>>
    BY DEF Receive, ReceiveFails, stores, peers
  <2>2. \A c \in Chat : RefuseChat(c) => UNCHANGED <<reviews, messages, decide>>
    BY DEF RefuseChat, stores, peers
  <2>3. UNCHANGED <<reviews, messages, decide>>
    BY <1>1, <2>1, <2>2 DEF DoorNext, ServeChat, ServeFirstChat, ReceiveChat
  <2>4. QED
    BY <2>3, OthersStutter
<1>2. CASE RunningNext
  <2>1. CASE \E c \in Chat : ChatStep(c)
    BY <2>1, ChatMaps DEF Lifecycle!LifecycleNext
  <2>2. CASE ManagerNext \/ FactsNext
    <3>1. HarnessNext
      BY <2>2 DEF HarnessNext
    <3>2. QED
      BY <3>1, HarnessStepMaps
  <2>3. QED
    BY <1>2, <2>1, <2>2 DEF RunningNext
<1>3. CASE Restart
  <2>1. UNCHANGED <<reviews, messages, decide>>
    BY <1>3, RecordsCutOff DEF Restart
  <2>2. QED
    BY <2>1, OthersStutter
<1>4. CASE UNCHANGED backendVars
  BY <1>4, OthersStutter DEF backendVars, vars, managerVars, stores
<1>5. QED
  BY <1>1, <1>2, <1>3, <1>4 DEF BackendNext

\* Where the records are kept on a server, kills and failing calls do not break the
\* life of a review either: one that a killed or failing resumption leaves marked
\* stands as its human decided, and is carried out and answered once or never
\* (docs/07; resume_after_review, chat, the restart of the process).
THEOREM LifecycleOutlivesProcesses ==
    ASSUME "records" \in Suspends
    PROVE  BackendSpec => ImplementsLifecycle
<1>1. BackendInit => Lifecycle!LifecycleInit
  BY InitMaps DEF BackendInit, Quiet
<1>2. HarnessInv /\ [BackendNext]_backendVars
          => [Lifecycle!LifecycleNext]_(Lifecycle!lifecycleVars)
  BY BackendStepMaps
<1>3. BackendSpec => Lifecycle!LifecycleInit /\ [][Lifecycle!LifecycleNext]_(Lifecycle!lifecycleVars)
  BY <1>1, <1>2, BackendInvariance, PTL DEF BackendSpec
<1>4. QED
  BY <1>3 DEF ImplementsLifecycle, Lifecycle!LifecycleSpec
=============================================================================

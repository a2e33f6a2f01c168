---------------------------- MODULE Harness_proofs ----------------------------
(***************************************************************************)
(* Proofs about Harness, for every set of calls, reviews and threads,      *)
(* every configuration, whichever stores suspend and whichever of their    *)
(* calls fail.                                                             *)
(***************************************************************************)
EXTENDS Harness, InterruptManager_proofs

USE RecordsAssumption, InterruptManagerAssumption, HarnessAssumption,
    SessionFactsAssumption

\* The types of the records the variables hold.
USE DEF Decision, Final, Status, ReviewRecord, DecideCall, ResumeCall, PauseCall, Handoff

-----------------------------------------------------------------------------
\* Routing and planning

LEMMA RouteTyped == \A say \in Utterances : Route(say) \in Agents
BY DEF Route, Agents, Utterances

\* The tools a plan may have: a review only for a high-risk message.
Plannable(risky) == {tool \in Tools : tool = "request_human_review" => risky}

\* Whatever the configuration, an agent plans tools, and asks for a review of a
\* high-risk message only.
LEMMA PlanTyped ==
    ASSUME NEW agents, NEW agent, NEW risky \in BOOLEAN
    PROVE  ConfiguredPlan(agents, agent, risky) \in Seq(Plannable(risky))
<1> DEFINE plan == ToolPlan(agent, risky)
           Kept(i) == IF i \in DOMAIN plan /\ plan[i] \in agents.agents[agent].tools
                      THEN <<plan[i]>> ELSE <<>>
<1>1. plan \in Seq(Plannable(risky))
  <2>1. CASE risky
    <3>1. plan = <<"request_human_review">>
      BY <2>1 DEF ToolPlan
    <3>2. "request_human_review" \in Plannable(risky)
      BY <2>1 DEF Plannable, Tools
    <3>3. QED
      BY <3>1, <3>2
  <2>2. CASE ~risky
    <3>1. plan = AgentTools(agent)
      BY <2>2 DEF ToolPlan
    <3>2. {"query_device_status", "query_alarm_events", "analyze_security_object",
           "search_security_knowledge", "create_security_todos"} \subseteq Plannable(risky)
      BY DEF Plannable, Tools
    <3>3. QED
      BY <3>1, <3>2 DEF AgentTools
  <2>3. QED
    BY <2>1, <2>2
<1> HIDE DEF plan
<1>2. \A i : Kept(i) \in Seq(Plannable(risky))
  BY <1>1
<1> HIDE DEF Kept
<1>3. Kept(1) \o Kept(2) \o Kept(3) \in Seq(Plannable(risky))
  BY <1>2
<1>4. QED
  BY <1>3 DEF ConfiguredPlan, Kept, plan

\* The check invoke makes of each tool before it calls it, that the tool's own
\* specification allows the agent, never refuses one that was planned: the
\* configuration the service has started with has been checked for it
\* (_configured_tool_plan, invoke, AgentRegistry._validate).
THEOREM PlannedToolsAreAllowed ==
    ASSUME NEW agents, Validate(agents), NEW agent \in DOMAIN agents.agents,
           NEW risky \in BOOLEAN
    PROVE  \A k \in DOMAIN ConfiguredPlan(agents, agent, risky) :
               agent \in AllowedAgents[ConfiguredPlan(agents, agent, risky)[k]]
<1> DEFINE plan == ToolPlan(agent, risky)
           Kept(i) == IF i \in DOMAIN plan /\ plan[i] \in agents.agents[agent].tools
                      THEN <<plan[i]>> ELSE <<>>
           Allowed == {tool \in Tools : agent \in AllowedAgents[tool]}
<1>1. agents.agents[agent].tools \subseteq Allowed
  BY DEF Validate, UnknownTool, DisallowedTool
<1> HIDE DEF plan, Allowed
<1>2. \A i : Kept(i) \in Seq(Allowed)
  BY <1>1
<1> HIDE DEF Kept
<1>3. Kept(1) \o Kept(2) \o Kept(3) \in Seq(Allowed)
  BY <1>2
<1>4. ConfiguredPlan(agents, agent, risky) \in Seq(Allowed)
  BY <1>3 DEF ConfiguredPlan, Kept, plan
<1>5. QED
  BY <1>4 DEF Allowed

-----------------------------------------------------------------------------
\* What the steps of chats do to the invariant of the review handlers

\* A step that changes nothing but the loop and the sessions.
LEMMA SessionsMove ==
    ASSUME IInv, UNCHANGED <<reviews, messages, decide, resume, pause>>,
           turn' \in Author \cup {NoOne},
           sessions' \in [Thread -> Memory],
           lifetime' \in [Thread -> {"absent", "kept", "expiring"}]
    PROVE  IInv'
<1>1. pause' \in [Pauser -> PauseCall]
  BY DEF IInv, TypeOK
<1>2. QED
  BY <1>1, PauserMovesOn

\* The transcript with one message more.
LEMMA MessageAppended ==
    ASSUME TypeOK, NEW m \in Message, messages' = Append(messages, m)
    PROVE  /\ messages' \in Seq(Message)
           /\ Len(messages) \in Nat
           /\ DOMAIN messages = 1 .. Len(messages)
           /\ DOMAIN messages' = 1 .. Len(messages) + 1
           /\ \A i \in DOMAIN messages : messages'[i] = messages[i]
           /\ messages'[Len(messages) + 1] = m
<1>1. messages \in Seq(Message)
  BY DEF TypeOK
<1>2. QED
  BY <1>1

\* A message that is about no review.
LEMMA PlainMessageKeeps ==
    ASSUME IInv, NEW m \in Message, m.review = NoReview,
           messages' = Append(messages, m),
           UNCHANGED <<reviews, sessions, lifetime, decide, resume, pause>>,
           turn' \in Author \cup {NoOne}
    PROVE  IInv'
<1> USE DEF IInv
<1>a. /\ messages' \in Seq(Message)
      /\ Len(messages) \in Nat
      /\ DOMAIN messages = 1 .. Len(messages)
      /\ DOMAIN messages' = 1 .. Len(messages) + 1
      /\ \A i \in DOMAIN messages : messages'[i] = messages[i]
      /\ messages'[Len(messages) + 1] = m
  BY MessageAppended
<1>b. \A i \in DOMAIN messages' : messages'[i].review # NoReview =>
          i \in DOMAIN messages /\ messages'[i] = messages[i]
  BY <1>a
<1>c. \A s, v : Acknowledged(s, v) => Acknowledged(s, v)'
  BY DEF Acknowledged
<1>1. TypeOK'
  BY <1>a DEF TypeOK
<1>2. ReviewInv' /\ DeciderInv' /\ PauserInv' /\ VerdictStands'
  BY <1>c DEF ReviewInv, DeciderInv, PauserInv, VerdictStands, Known
<1>3. ResumerInv'
  <2> SUFFICES ASSUME NEW q \in Resumer
               PROVE  ResumerInv!(q)'
    BY DEF ResumerInv
  <2>1. resume[q].at = "add_message" =>
            \A i \in DOMAIN messages' : messages'[i].review # resume[q].review
    BY <1>b DEF ResumerInv
  <2>2. QED
    BY <2>1, <1>c DEF ResumerInv, Known, Consumed
<1>4. ConsumedOnce'
  BY DEF ConsumedOnce, Consumed
<1>5. AnswersMatchVerdict'
  BY <1>a, <1>b, <1>c DEF AnswersMatchVerdict
<1>6. QED
  BY <1>1, <1>2, <1>3, <1>4, <1>5

\* A new review.
LEMMA NewReviewKeeps ==
    ASSUME IInv, NEW r \in Review, NEW t \in Thread, NEW action \in Text,
           CreateReview(r, t, action),
           UNCHANGED <<messages, sessions, lifetime, decide, resume, pause>>,
           turn' \in Author \cup {NoOne}
    PROVE  IInv'
<1> USE DEF IInv
<1>a. /\ reviews[r].status = "absent"
      /\ reviews' = [reviews EXCEPT ![r] =
             [status |-> "pending", thread |-> t, action |-> action]]
  BY DEF CreateReview, Fresh
<1>c. \A s, v : Acknowledged(s, v) => Acknowledged(s, v)'
  BY DEF Acknowledged
<1>1. TypeOK'
  <2>1. [status |-> "pending", thread |-> t, action |-> action] \in ReviewRecord
    OBVIOUS
  <2>2. reviews' \in [Review -> ReviewRecord]
    BY <1>a, <2>1 DEF TypeOK
  <2>3. QED
    BY <2>2 DEF TypeOK
<1>2. ReviewInv'
  BY <1>a, <1>c DEF ReviewInv, TypeOK, Known
<1>3. DeciderInv' /\ PauserInv'
  BY <1>a DEF DeciderInv, PauserInv, TypeOK, Known
<1>4. ResumerInv'
  BY <1>a, <1>c DEF ResumerInv, TypeOK, Known, Consumed, FinalStatus
<1>5. VerdictStands'
  BY <1>a DEF VerdictStands, DeciderInv, TypeOK, FinalStatus
<1>6. ConsumedOnce'
  BY DEF ConsumedOnce, Consumed
<1>7. AnswersMatchVerdict'
  <2>1. \A i \in DOMAIN messages : messages[i].review # NoReview =>
            reviews'[messages[i].review] = reviews[messages[i].review]
    BY <1>a, AnsweredIsFinal, MessagesTyped DEF TypeOK
  <2>2. QED
    BY <1>c, <2>1 DEF AnswersMatchVerdict
<1>8. QED
  BY <1>1, <1>2, <1>3, <1>4, <1>5, <1>6, <1>7

-----------------------------------------------------------------------------
\* What a step may do to the records

\* Threads, tasks and messages are added, in threads that have rows; a review
\* keeps its thread and its action, and a new one quotes the transcript.
RecordsGrow ==
    /\ threads \subseteq threads' /\ threads' \subseteq Thread
    /\ tasks' \subseteq [thread : threads', by : Chat]
    /\ \/ messages' = messages
       \/ \E m \in Message : m.thread \in threads' /\ messages' = Append(messages, m)
    /\ \A r \in Review : Known(r)' =>
           \/ /\ Known(r)
              /\ reviews'[r].thread = reviews[r].thread
              /\ reviews'[r].action = reviews[r].action
           \/ /\ reviews'[r].thread \in threads
              /\ reviews'[r].action.risky
              /\ \E i \in ThreadMessages(reviews'[r].thread) :
                     messages[i].text = reviews'[r].action

\* Messages stay where they are.
LEMMA MessagesStay ==
    ASSUME TypeOK, RecordsGrow
    PROVE  /\ \A i \in DOMAIN messages :
                  i \in DOMAIN messages' /\ messages'[i] = messages[i]
           /\ \A t : ThreadMessages(t) \subseteq ThreadMessages(t)'
<1>1. \A i \in DOMAIN messages : i \in DOMAIN messages' /\ messages'[i] = messages[i]
  BY MessageAppended DEF RecordsGrow
<1>2. QED
  BY <1>1 DEF ThreadMessages

LEMMA LastMessagesKept ==
    ASSUME TypeOK, LastMessages, RecordsGrow
    PROVE  LastMessages'
<1>1. CASE messages' = messages
  BY <1>1 DEF LastMessages, ThreadMessages
<1>2. ASSUME NEW m \in Message, messages' = Append(messages, m)
      PROVE  LastMessages'
  <2> SUFFICES ASSUME NEW t \in Thread, ThreadMessages(t)' # {}
               PROVE  \E i \in ThreadMessages(t)' : \A j \in ThreadMessages(t)' : j <= i
    BY DEF LastMessages
  <2>a. /\ Len(messages) \in Nat
        /\ DOMAIN messages = 1 .. Len(messages)
        /\ DOMAIN messages' = 1 .. Len(messages) + 1
        /\ \A i \in DOMAIN messages : messages'[i] = messages[i]
        /\ messages'[Len(messages) + 1] = m
    BY <1>2, MessageAppended
  <2>1. CASE m.thread = t
    BY <2>1, <2>a DEF ThreadMessages
  <2>2. CASE m.thread # t
    <3>1. ThreadMessages(t)' = ThreadMessages(t)
      BY <2>2, <2>a DEF ThreadMessages
    <3>2. QED
      BY <3>1 DEF LastMessages
  <2>3. QED
    BY <2>1, <2>2
<1>3. QED
  BY <1>1, <1>2 DEF RecordsGrow

\* What is said of the records alone.
LEMMA RecordsKeep ==
    ASSUME HarnessInv, RecordsGrow,
           \A c \in Chat : handoffs'[c] \notin {"none", "lost"} => chat'[c].thread \in threads'
    PROVE  LastMessages' /\ ForeignKeysHold' /\ ReviewQuotesTranscript'
<1> USE DEF HarnessInv
<1>t. TypeOK
  BY DEF IInv
<1>s. /\ \A i \in DOMAIN messages :
             i \in DOMAIN messages' /\ messages'[i] = messages[i]
      /\ \A t : ThreadMessages(t) \subseteq ThreadMessages(t)'
  BY <1>t, MessagesStay
<1>1. LastMessages'
  BY <1>t, LastMessagesKept
<1>2. ForeignKeysHold'
  <2>1. \A i \in DOMAIN messages' : messages'[i].thread \in threads'
    <3>1. CASE messages' = messages
      BY <3>1 DEF RecordsGrow, ForeignKeysHold
    <3>2. ASSUME NEW m \in Message, m.thread \in threads', messages' = Append(messages, m)
          PROVE  \A i \in DOMAIN messages' : messages'[i].thread \in threads'
      <4>1. /\ Len(messages) \in Nat
            /\ DOMAIN messages = 1 .. Len(messages)
            /\ DOMAIN messages' = 1 .. Len(messages) + 1
            /\ \A i \in DOMAIN messages : messages'[i] = messages[i]
            /\ messages'[Len(messages) + 1] = m
        BY <1>t, <3>2, MessageAppended
      <4>2. \A i \in DOMAIN messages : messages'[i].thread \in threads'
        BY <4>1 DEF RecordsGrow, ForeignKeysHold
      <4>3. QED
        BY <4>1, <4>2, <3>2
    <3>3. QED
      BY <3>1, <3>2 DEF RecordsGrow
  <2>2. \A task \in tasks' : task.thread \in threads'
    BY DEF RecordsGrow
  <2>3. \A r \in Review : Known(r)' => reviews'[r].thread \in threads'
    BY DEF RecordsGrow, ForeignKeysHold
  <2>4. QED
    BY <2>1, <2>2, <2>3 DEF ForeignKeysHold
<1>3. ReviewQuotesTranscript'
  <2> SUFFICES ASSUME NEW r \in Review, Known(r)'
               PROVE  /\ reviews'[r].action.risky
                      /\ \E i \in DOMAIN messages :
                             /\ messages[i].thread = reviews'[r].thread
                             /\ messages[i].text = reviews'[r].action
    BY <1>s DEF ReviewQuotesTranscript
  <2>1. CASE /\ Known(r)
             /\ reviews'[r].thread = reviews[r].thread
             /\ reviews'[r].action = reviews[r].action
    BY <2>1 DEF ReviewQuotesTranscript
  <2>2. QED
    BY <2>1 DEF RecordsGrow, ThreadMessages
<1>4. QED
  BY <1>1, <1>2, <1>3

\* A chat that does not move keeps what it knows.
LEMMA OthersKeep ==
    ASSUME TypeOK, RecordsGrow, NEW c \in Chat,
           chat'[c] = chat[c], handoffs'[c] = handoffs[c],
           TranscriptInv(c), HandoffInv(c)
    PROVE  TranscriptInv(c)' /\ HandoffInv(c)'
<1>1. TranscriptInv(c)'
  <2>1. \A t : ThreadMessages(t) \subseteq ThreadMessages(t)'
    BY MessagesStay
  <2>2. \A t : \A i \in ThreadMessages(t) : messages'[i] = messages[i]
    BY MessagesStay DEF ThreadMessages
  <2>3. threads \subseteq threads'
    BY DEF RecordsGrow
  <2>4. QED
    BY <2>1, <2>2, <2>3 DEF TranscriptInv
<1>2. HandoffInv(c)'
  BY DEF HandoffInv, Closed
<1>3. QED
  BY <1>1, <1>2

\* A step of chat c keeps the invariant if it does what a step may do to the
\* records, and c itself knows enough afterwards.
LEMMA ChatMoves ==
    ASSUME HarnessInv, NEW c \in Chat, NEW next \in ChatCall,
           chat' = [chat EXCEPT ![c] = next],
           handoffs' \in [Chat -> Handoff],
           \A d \in Chat : d # c => handoffs'[d] = handoffs[d],
           append' = append, IInv', RecordsGrow,
           handoffs'[c] \notin {"none", "lost"} => next.thread \in threads',
           HandoffClosed!(c)',
           TranscriptInv(c)', HandoffInv(c)'
    PROVE  HarnessInv'
<1> USE DEF HarnessInv
<1>a. /\ chat' \in [Chat -> ChatCall]
      /\ chat'[c] = next
      /\ \A d \in Chat : d # c => chat'[d] = chat[d]
  BY DEF ChatTypeOK
<1>1. ChatTypeOK'
  BY <1>a DEF ChatTypeOK, RecordsGrow
<1>2. AppendTypeOK' /\ AppendInv'
  BY DEF AppendTypeOK, AppendInv
<1>3. \A d \in Chat : handoffs'[d] \notin {"none", "lost"} => chat'[d].thread \in threads'
  BY <1>a DEF ForeignKeysHold, RecordsGrow
<1>4. LastMessages' /\ ForeignKeysHold' /\ ReviewQuotesTranscript'
  BY <1>3, RecordsKeep
<1>5. HandoffClosed'
  <2> SUFFICES ASSUME NEW d \in Chat
               PROVE  HandoffClosed!(d)'
    BY DEF HandoffClosed
  <2>1. CASE d = c
    BY <2>1
  <2>2. CASE d # c
    BY <2>2, <1>a DEF HandoffClosed, Closed
  <2>3. QED
    BY <2>1, <2>2
<1>6. \A d \in Chat : TranscriptInv(d)' /\ HandoffInv(d)'
  <2> SUFFICES ASSUME NEW d \in Chat
               PROVE  TranscriptInv(d)' /\ HandoffInv(d)'
    OBVIOUS
  <2>1. CASE d = c
    BY <2>1
  <2>2. CASE d # c
    BY <2>2, <1>a, OthersKeep DEF IInv
  <2>3. QED
    BY <2>1, <2>2
<1>7. QED
  BY <1>1, <1>2, <1>4, <1>5, <1>6

\* A step that moves no chat.
LEMMA ChatsStay ==
    ASSUME HarnessInv, UNCHANGED <<chat, handoffs>>, IInv', RecordsGrow,
           AppendTypeOK', AppendInv'
    PROVE  HarnessInv'
<1> USE DEF HarnessInv
<1>1. ChatTypeOK'
  BY DEF ChatTypeOK, RecordsGrow
<1>2. \A d \in Chat : handoffs'[d] \notin {"none", "lost"} => chat'[d].thread \in threads'
  BY DEF ForeignKeysHold, RecordsGrow
<1>3. LastMessages' /\ ForeignKeysHold' /\ ReviewQuotesTranscript'
  BY <1>2, RecordsKeep
<1>4. HandoffClosed'
  BY DEF HandoffClosed, Closed
<1>5. \A d \in Chat : TranscriptInv(d)' /\ HandoffInv(d)'
  BY OthersKeep DEF IInv
<1>6. QED
  BY <1>1, <1>3, <1>4, <1>5

-----------------------------------------------------------------------------
\* Steps of a chat

\* A step that leaves the records alone.
LEMMA RecordsStay ==
    ASSUME HarnessInv, UNCHANGED <<reviews, messages, threads, tasks>>
    PROVE  RecordsGrow
BY DEF HarnessInv, ChatTypeOK, ForeignKeysHold, RecordsGrow, Known

\* Each field of a chat may be changed by itself.
LEMMA ChatCallWith ==
    ASSUME NEW call \in ChatCall
    PROVE  /\ \A at \in {"idle", "user_message", "load", "list_messages", "handoff", "tools",
                         "close_handoff", "assistant_message", "save", "refresh",
                         "replied"} : [call EXCEPT !.at = at] \in ChatCall
           /\ \A t \in Thread : [call EXCEPT !.thread = t] \in ChatCall
           /\ \A say \in Utterances : [call EXCEPT !.say = say] \in ChatCall
           /\ \A agent \in Agents : [call EXCEPT !.agent = agent] \in ChatCall
           /\ \A memory \in Memory : [call EXCEPT !.memory = memory] \in ChatCall
           /\ \A latest \in Text \cup {NoText} : [call EXCEPT !.latest = latest] \in ChatCall
           /\ \A plan \in Seq(Tools) : [call EXCEPT !.plan = plan] \in ChatCall
           /\ \A r \in Review \cup {NoReview} : [call EXCEPT !.review = r] \in ChatCall
           /\ \A code \in {"200", "500"} : [call EXCEPT !.reply = code] \in ChatCall
BY DEF ChatCall

LEMMA ChatTyped ==
    ASSUME HarnessInv, NEW c \in Chat
    PROVE  /\ chat[c] \in ChatCall
           /\ chat = [d \in Chat |-> chat[d]]
           /\ handoffs = [d \in Chat |-> handoffs[d]]
           /\ handoffs[c] \in Handoff
           /\ sessions \in [Thread -> Memory]
           /\ lifetime \in [Thread -> {"absent", "kept", "expiring"}]
BY DEF HarnessInv, ChatTypeOK, IInv, TypeOK

\* A step of chat c that leaves every record alone but its handoff.
LEMMA ChatMovesOn ==
    ASSUME HarnessInv, NEW c \in Chat, NEW next \in ChatCall,
           chat' = [chat EXCEPT ![c] = next],
           UNCHANGED <<reviews, messages, threads, tasks, peers>>,
           turn' \in Author \cup {NoOne},
           sessions' \in [Thread -> Memory],
           lifetime' \in [Thread -> {"absent", "kept", "expiring"}],
           handoffs' \in [Chat -> Handoff],
           \A d \in Chat : d # c => handoffs'[d] = handoffs[d],
           handoffs'[c] \notin {"none", "lost"} => next.thread \in threads,
           HandoffClosed!(c)',
           TranscriptInv(c)', HandoffInv(c)'
    PROVE  HarnessInv'
<1>1. IInv'
  BY SessionsMove DEF HarnessInv, peers
<1>2. RecordsGrow
  BY RecordsStay
<1>3. QED
  BY <1>1, <1>2, ChatMoves DEF peers

LEMMA ReceiveKeeps ==
    ASSUME HarnessInv, NEW c \in Chat, NEW t \in Thread, NEW say \in Utterances,
           Receive(c, t, say)
    PROVE  HarnessInv'
<1> DEFINE next == [chat[c] EXCEPT !.at = "user_message", !.thread = t, !.say = say]
<1>a. /\ chat[c].at = "idle"
      /\ threads' = threads \cup {t}
      /\ chat' = [chat EXCEPT ![c] = next]
      /\ UNCHANGED <<reviews, messages, sessions, lifetime, decide, resume, pause,
                     append, tasks, handoffs>>
  BY ChatTyped DEF Receive, stores, peers
<1>b. turn' \in Author \cup {NoOne}
  BY TurnTyped DEF Receive
<1>1. next \in ChatCall
  <2>1. next = [[[chat[c] EXCEPT !.at = "user_message"] EXCEPT !.thread = t]
                    EXCEPT !.say = say]
    BY ChatTyped DEF ChatCall
  <2>2. QED
    BY <2>1, ChatTyped, ChatCallWith
<1>2. /\ next.at = "user_message" /\ next.thread = t
      /\ next.review = chat[c].review /\ next.reply = chat[c].reply
  BY ChatTyped DEF ChatCall
<1> HIDE DEF next
<1>3. chat'[c] = next
  BY <1>a, ChatTyped
<1>4. IInv'
  BY <1>a, <1>b, ChatTyped, SessionsMove DEF HarnessInv
<1>5. RecordsGrow
  BY <1>a DEF HarnessInv, ChatTypeOK, ForeignKeysHold, RecordsGrow, Known
<1>6. TranscriptInv(c)'
  BY <1>a, <1>2, <1>3 DEF TranscriptInv
<1>7. HandoffInv(c)' /\ HandoffClosed!(c)'
  BY <1>a, <1>2, <1>3 DEF HarnessInv, HandoffInv
<1>8. handoffs'[c] = "none"
  BY <1>a DEF HarnessInv, HandoffInv
<1>9. QED
  BY <1>a, <1>1, <1>4, <1>5, <1>6, <1>7, <1>8, ChatMoves DEF HarnessInv, ChatTypeOK

LEMMA ReceiveFailsKeeps ==
    ASSUME HarnessInv, NEW c \in Chat, NEW t \in Thread, ReceiveFails(c, t)
    PROVE  HarnessInv'
<1> DEFINE next == [chat[c] EXCEPT !.at = "replied", !.thread = t, !.reply = "500"]
<1>a. /\ chat[c].at = "idle"
      /\ chat' = [chat EXCEPT ![c] = next]
      /\ UNCHANGED <<reviews, messages, sessions, lifetime, turn, peers,
                     threads, tasks, handoffs>>
  BY ChatTyped DEF ReceiveFails, stores
<1>b. turn' \in Author \cup {NoOne}
  BY <1>a DEF HarnessInv, IInv, TypeOK
<1>1. next \in ChatCall
  <2>1. next = [[[chat[c] EXCEPT !.at = "replied"] EXCEPT !.thread = t]
                    EXCEPT !.reply = "500"]
    BY ChatTyped DEF ChatCall
  <2>2. QED
    BY <2>1, ChatTyped, ChatCallWith
<1>2. next.at = "replied" /\ next.thread = t
  BY ChatTyped DEF ChatCall
<1> HIDE DEF next
<1>3. chat'[c] = next
  BY <1>a, ChatTyped
<1>4. handoffs'[c] = "none"
  BY <1>a DEF HarnessInv, HandoffInv
<1>5. TranscriptInv(c)' /\ HandoffInv(c)'
  BY <1>2, <1>3 DEF TranscriptInv, HandoffInv
<1>6. HandoffClosed!(c)'
  <2>1. next.review = NoReview
    BY <1>a, ChatTyped DEF next, ChatCall, HarnessInv, HandoffInv
  <2>2. QED
    BY <1>3, <1>4, <2>1 DEF Closed
<1>7. QED
  BY <1>a, <1>b, <1>1, <1>4, <1>5, <1>6, ChatTyped, ChatMovesOn DEF HarnessInv, ChatTypeOK

\* A chat that has saved a message in its thread, and goes on as `next`.
LEMMA ChatWrites ==
    ASSUME HarnessInv, NEW c \in Chat, NEW t \in threads, chat[c].thread = t,
           NEW role \in {"user", "assistant"}, NEW risky \in BOOLEAN,
           messages' = Append(messages, ChatMessage(c, role, risky)),
           UNCHANGED <<reviews, sessions, lifetime, peers, threads, tasks>>,
           turn' \in Author \cup {NoOne}
    PROVE  /\ IInv'
           /\ RecordsGrow
           /\ ThreadMessages(t)' # {}
<1> DEFINE m == ChatMessage(c, role, risky)
<1>1. m \in Message /\ m.review = NoReview /\ m.thread = t
  <2>1. t \in Thread
    BY DEF HarnessInv, ChatTypeOK
  <2>2. QED
    BY <2>1 DEF ChatMessage, Message, Text
<1> HIDE DEF m
<1>2. messages' = Append(messages, m)
  BY DEF m
<1>3. IInv'
  BY <1>1, <1>2, PlainMessageKeeps DEF HarnessInv, peers
<1>4. RecordsGrow
  BY <1>1, <1>2 DEF HarnessInv, ChatTypeOK, ForeignKeysHold, RecordsGrow, Known
<1>5. ThreadMessages(t)' # {}
  <2>1. /\ Len(messages) + 1 \in DOMAIN messages'
        /\ messages'[Len(messages) + 1].thread = t
    BY <1>1, <1>2, MessageAppended DEF HarnessInv, IInv
  <2>2. QED
    BY <2>1 DEF ThreadMessages
<1>6. QED
  BY <1>3, <1>4, <1>5

LEMMA SaveUserMessageKeeps ==
    ASSUME HarnessInv, NEW c \in Chat, SaveUserMessage(c)
    PROVE  HarnessInv'
<1> DEFINE next == [chat[c] EXCEPT !.at = "load", !.agent = Route(chat[c].say)]
<1>a. /\ chat[c].at = "user_message"
      /\ messages' = Append(messages, ChatMessage(c, "user", chat[c].say.risky))
      /\ chat' = [chat EXCEPT ![c] = next]
      /\ UNCHANGED <<reviews, sessions, lifetime, decide, resume, pause,
                     append, threads, tasks, handoffs>>
  BY ChatTyped DEF SaveUserMessage, sessionVars, peers
<1>b. turn' \in Author \cup {NoOne}
  BY TurnTyped DEF SaveUserMessage
<1>c. Route(chat[c].say) \in Agents
  BY ChatTyped, RouteTyped DEF ChatCall
<1>1. next \in ChatCall
  <2>1. next = [[chat[c] EXCEPT !.at = "load"] EXCEPT !.agent = Route(chat[c].say)]
    BY ChatTyped DEF ChatCall
  <2>2. QED
    BY <2>1, <1>c, ChatTyped, ChatCallWith
<1>2. /\ next.at = "load" /\ next.thread = chat[c].thread
      /\ next.agent \in Agents
      /\ next.review = chat[c].review /\ next.reply = chat[c].reply
  BY <1>c, ChatTyped DEF ChatCall
<1> HIDE DEF next
<1>3. chat'[c] = next
  BY <1>a, ChatTyped
<1>4. chat[c].thread \in threads
  BY <1>a DEF HarnessInv, TranscriptInv
<1>5. /\ IInv'
      /\ RecordsGrow
      /\ \A t : t = chat[c].thread => ThreadMessages(t)' # {}
  <2>1. chat[c].say.risky \in BOOLEAN
    BY ChatTyped DEF ChatCall, Utterances
  <2>2. QED
    BY <1>a, <1>b, <1>4, <2>1, ChatWrites DEF peers
<1>6. TranscriptInv(c)'
  BY <1>a, <1>2, <1>3, <1>4, <1>5 DEF TranscriptInv
<1>7. HandoffInv(c)' /\ HandoffClosed!(c)'
  BY <1>a, <1>2, <1>3 DEF HarnessInv, HandoffInv
<1>8. handoffs'[c] = "none"
  BY <1>a DEF HarnessInv, HandoffInv
<1>9. QED
  BY <1>a, <1>1, <1>5, <1>6, <1>7, <1>8, ChatMoves DEF HarnessInv, ChatTypeOK

LEMMA LoadMemoryKeeps ==
    ASSUME HarnessInv, NEW c \in Chat, LoadMemory(c)
    PROVE  HarnessInv'
<1> DEFINE next == [chat[c] EXCEPT !.at = "list_messages", !.memory = Load(chat[c].thread)]
<1>a. /\ chat[c].at = "load"
      /\ chat' = [chat EXCEPT ![c] = next]
      /\ UNCHANGED <<reviews, messages, sessions, lifetime, peers,
                     threads, tasks, handoffs>>
  BY ChatTyped DEF LoadMemory, stores
<1>b. turn' \in Author \cup {NoOne}
  BY TurnTyped DEF LoadMemory
<1>c. chat[c].thread \in threads /\ chat[c].thread \in Thread
  BY <1>a DEF HarnessInv, TranscriptInv, ChatTypeOK
<1>1. next \in ChatCall
  <2>1. next = [[chat[c] EXCEPT !.at = "list_messages"] EXCEPT !.memory = Load(chat[c].thread)]
    BY ChatTyped DEF ChatCall
  <2>2. Load(chat[c].thread) \in Memory
    BY <1>c, ChatTyped DEF Load
  <2>3. QED
    BY <2>1, <2>2, ChatTyped, ChatCallWith
<1>2. /\ next.at = "list_messages" /\ next.thread = chat[c].thread
      /\ next.agent = chat[c].agent
      /\ next.review = chat[c].review /\ next.reply = chat[c].reply
  BY ChatTyped DEF ChatCall
<1> HIDE DEF next
<1>3. chat'[c] = next
  BY <1>a, ChatTyped
<1>4. TranscriptInv(c)'
  BY <1>a, <1>2, <1>3 DEF HarnessInv, TranscriptInv, ThreadMessages
<1>5. HandoffInv(c)' /\ HandoffClosed!(c)'
  BY <1>a, <1>2, <1>3 DEF HarnessInv, HandoffInv
<1>6. handoffs'[c] = "none"
  BY <1>a DEF HarnessInv, HandoffInv
<1>7. QED
  BY <1>a, <1>b, <1>1, <1>4, <1>5, <1>6, ChatTyped, ChatMovesOn DEF HarnessInv, ChatTypeOK

\* The latest message of a thread stands in it.
LEMMA LatestStands ==
    ASSUME TypeOK, LastMessages, NEW t \in Thread, ThreadMessages(t) # {}
    PROVE  /\ LatestMessage(t) \in Text
           /\ \E i \in ThreadMessages(t) : messages[i].text = LatestMessage(t)
<1> DEFINE last == LastPlace(ThreadMessages(t))
<1>1. last \in ThreadMessages(t)
  BY DEF LastMessages, LastPlace
<1>2. LatestMessage(t) = messages[last].text
  BY DEF LatestMessage, LastOf
<1> HIDE DEF last
<1>3. messages[last].text \in Text
  BY <1>1, MessagesTyped DEF ThreadMessages, Message
<1>4. QED
  BY <1>1, <1>2, <1>3

LEMMA ListMessagesKeeps ==
    ASSUME HarnessInv, NEW c \in Chat, ListMessages(c)
    PROVE  HarnessInv'
<1> DEFINE latest == LatestMessage(chat[c].thread)
           plan   == ConfiguredPlan(config, chat[c].agent, latest.risky)
           at     == IF chat[c].agent = "main-agent" THEN AfterTools(chat[c].agent, plan)
                                                     ELSE "handoff"
           next   == [chat[c] EXCEPT !.at = at, !.latest = latest, !.plan = plan]
<1>a. /\ chat[c].at = "list_messages"
      /\ chat' = [chat EXCEPT ![c] = next]
      /\ UNCHANGED <<reviews, messages, sessions, lifetime, peers,
                     threads, tasks, handoffs>>
  BY ChatTyped DEF ListMessages, stores
<1>b. turn' \in Author \cup {NoOne}
  BY TurnTyped DEF ListMessages
<1>c. /\ chat[c].thread \in threads /\ chat[c].thread \in Thread
      /\ chat[c].agent \in Agents
  BY <1>a DEF HarnessInv, TranscriptInv, ChatTypeOK
<1>d. /\ latest \in Text
      /\ \E i \in ThreadMessages(chat[c].thread) : messages[i].text = latest
  BY <1>a, <1>c, LatestStands DEF HarnessInv, IInv, TranscriptInv
<1> HIDE DEF latest
<1>e. plan \in Seq(Plannable(latest.risky))
  BY <1>d, PlanTyped DEF Text
<1> HIDE DEF plan
<1>f. /\ plan \in Seq(Tools)
      /\ \A k \in DOMAIN plan : plan[k] = "request_human_review" => latest.risky
  BY <1>e DEF Plannable
<1>g. \/ /\ chat[c].agent = "main-agent"
         /\ (at = "tools" /\ plan # <<>>) \/ at = "assistant_message"
      \/ chat[c].agent # "main-agent" /\ at = "handoff"
  BY DEF AfterTools
<1> HIDE DEF at
<1>1. next \in ChatCall
  <2>1. next = [[[chat[c] EXCEPT !.at = at] EXCEPT !.latest = latest] EXCEPT !.plan = plan]
    BY ChatTyped DEF ChatCall
  <2>2. QED
    BY <2>1, <1>d, <1>f, <1>g, ChatTyped, ChatCallWith
<1>2. /\ next.at = at /\ next.thread = chat[c].thread /\ next.agent = chat[c].agent
      /\ next.latest = latest /\ next.plan = plan
      /\ next.review = chat[c].review /\ next.reply = chat[c].reply
  BY ChatTyped DEF ChatCall
<1> HIDE DEF next
<1>3. chat'[c] = next
  BY <1>a, ChatTyped
<1>4. TranscriptInv(c)'
  BY <1>a, <1>c, <1>d, <1>f, <1>g, <1>2, <1>3 DEF TranscriptInv, ThreadMessages
<1>5. HandoffInv(c)' /\ HandoffClosed!(c)'
  BY <1>a, <1>g, <1>2, <1>3 DEF HarnessInv, HandoffInv, Closed
<1>6. handoffs'[c] = "none"
  BY <1>a DEF HarnessInv, HandoffInv
<1>7. QED
  BY <1>a, <1>b, <1>1, <1>4, <1>5, <1>6, ChatTyped, ChatMovesOn DEF HarnessInv, ChatTypeOK

\* What changes when a chat is answered: nothing is said of it any more but
\* that its handoff is closed, if it has been served or has closed it.
LEMMA ChatReplyKeeps ==
    ASSUME HarnessInv, NEW c \in Chat, NEW code \in {"200", "500"}, ChatReply(c, code),
           \/ code = "200"
           \/ code = "500" /\ ~RecordsFail
           \/ handoffs[c] \in {"completed", "interrupted"}
           => Closed(c),
           handoffs[c] \notin {"none", "lost"} => chat[c].thread \in threads,
           UNCHANGED <<reviews, messages, peers, threads, handoffs>>, RecordsGrow,
           sessions' \in [Thread -> Memory],
           lifetime' \in [Thread -> {"absent", "kept", "expiring"}]
    PROVE  HarnessInv'
<1> DEFINE next == [chat[c] EXCEPT !.at = "replied", !.memory = NewMemory,
                                   !.latest = NoText, !.plan = <<>>, !.reply = code]
<1>a. chat' = [chat EXCEPT ![c] = next] /\ turn' \in Author \cup {NoOne}
  BY ChatTyped DEF ChatReply, Finish
<1>1. next \in ChatCall
  <2>1. next = [[[[[chat[c] EXCEPT !.at = "replied"] EXCEPT !.memory = NewMemory]
                    EXCEPT !.latest = NoText] EXCEPT !.plan = <<>>] EXCEPT !.reply = code]
    BY ChatTyped DEF ChatCall
  <2>2. <<>> \in Seq(Tools)
    OBVIOUS
  <2>3. QED
    BY <2>1, <2>2, ChatTyped, MemoryTyped, ChatCallWith
<1>2. /\ next.at = "replied" /\ next.thread = chat[c].thread /\ next.reply = code
      /\ next.agent = chat[c].agent /\ next.review = chat[c].review
  BY ChatTyped DEF ChatCall
<1> HIDE DEF next
<1>3. chat'[c] = next
  BY <1>a, ChatTyped
<1>4. TranscriptInv(c)' /\ HandoffInv(c)'
  BY <1>2, <1>3 DEF TranscriptInv, HandoffInv
<1>5. HandoffClosed!(c)'
  BY <1>2, <1>3 DEF Closed
<1>6. IInv'
  BY <1>a, SessionsMove DEF HarnessInv, peers
<1>7. QED
  BY <1>a, <1>1, <1>2, <1>4, <1>5, <1>6, ChatMoves DEF HarnessInv, ChatTypeOK, peers

\* A call that fails, or an agent that is not configured: before its handoff is
\* created or after it is closed, or where records fail.
LEMMA ChatFailsKeeps ==
    ASSUME HarnessInv, NEW c \in Chat,
           AgentMissing(c) \/ ChatSessionFails(c) \/ ChatRecordFails(c)
    PROVE  HarnessInv'
<1>a. /\ chat[c].at \notin {"idle", "replied"}
      /\ chat[c].at \in {"load", "list_messages", "save", "refresh"} \/ RecordsFail
      /\ ChatReply(c, "500")
      /\ UNCHANGED <<reviews, messages, sessions, lifetime, peers,
                     threads, tasks, handoffs>>
  BY DEF AgentMissing, ChatSessionFails, ChatRecordFails, stores
<1>b. chat[c].thread \in threads
  BY <1>a DEF HarnessInv, TranscriptInv
<1>c. (RecordsFail /\ handoffs[c] \in {"none", "created"}) \/ Closed(c)
  BY <1>a, ChatTyped DEF HarnessInv, HandoffInv, Closed, ChatCall
<1>d. QED
  BY <1>a, <1>b, <1>c, ChatTyped, RecordsStay, ChatReplyKeeps

LEMMA TodosCutShortKeeps ==
    ASSUME HarnessInv, NEW c \in Chat, TodosCutShort(c)
    PROVE  HarnessInv'
<1>a. /\ RecordsFail /\ chat[c].at = "tools"
      /\ tasks' = tasks \cup {[thread |-> chat[c].thread, by |-> c]}
      /\ ChatReply(c, "500")
      /\ UNCHANGED <<reviews, messages, sessions, lifetime, peers, threads, handoffs>>
  BY DEF TodosCutShort, RunsTool, stores
<1>b. /\ chat[c].thread \in threads
      /\ handoffs[c] \in {"none", "created"}
  BY <1>a DEF HarnessInv, TranscriptInv, HandoffInv
<1>c. RecordsGrow
  BY <1>a, <1>b DEF HarnessInv, ChatTypeOK, ForeignKeysHold, RecordsGrow, Known
<1>d. QED
  BY <1>a, <1>b, <1>c, ChatTyped, ChatReplyKeeps

\* The first tool of the plan has been run, and its records are written.
LEMMA ToolDoneKeeps ==
    ASSUME HarnessInv, NEW c \in Chat, NEW review \in Review \cup {NoReview},
           chat[c].at = "tools", ToolDone(c, review),
           IInv', RecordsGrow, UNCHANGED <<append, handoffs>>
    PROVE  HarnessInv'
<1> DEFINE rest == Tail(chat[c].plan)
           at   == AfterTools(chat[c].agent, rest)
           next == [chat[c] EXCEPT !.at = at, !.plan = rest, !.review = review]
<1>a. chat' = [chat EXCEPT ![c] = next]
  BY ChatTyped DEF ToolDone
<1>b. /\ rest \in Seq(Tools)
      /\ \A k \in DOMAIN rest : \E j \in DOMAIN chat[c].plan : rest[k] = chat[c].plan[j]
  <2>1. chat[c].plan \in Seq(Tools) /\ chat[c].plan # <<>>
    BY ChatTyped DEF HarnessInv, TranscriptInv, ChatCall
  <2>2. QED
    BY <2>1
<1>c. \/ at = "tools" /\ rest # <<>>
      \/ at = "assistant_message" /\ chat[c].agent = "main-agent"
      \/ at = "close_handoff" /\ chat[c].agent # "main-agent"
  BY DEF AfterTools
<1> HIDE DEF rest, at
<1>1. next \in ChatCall
  <2>1. next = [[[chat[c] EXCEPT !.at = at] EXCEPT !.plan = rest] EXCEPT !.review = review]
    BY ChatTyped DEF ChatCall
  <2>2. QED
    BY <2>1, <1>b, <1>c, ChatTyped, ChatCallWith
<1>2. /\ next.at = at /\ next.thread = chat[c].thread /\ next.agent = chat[c].agent
      /\ next.latest = chat[c].latest /\ next.plan = rest
      /\ next.review = review /\ next.reply = chat[c].reply
  BY ChatTyped DEF ChatCall
<1> HIDE DEF next
<1>3. chat'[c] = next
  BY <1>a, ChatTyped
<1>4. TranscriptInv(c)'
  <2>1. next.thread \in threads' /\ next.agent \in Agents
    BY <1>2 DEF HarnessInv, TranscriptInv, RecordsGrow
  <2>2. \E i \in DOMAIN messages' : /\ messages'[i].thread = chat'[c].thread
                                    /\ messages'[i].text = chat'[c].latest
    <3>1. \E i \in DOMAIN messages : /\ messages[i].thread = chat[c].thread
                                     /\ messages[i].text = chat[c].latest
      BY DEF HarnessInv, TranscriptInv, ThreadMessages
    <3>2. QED
      BY <1>2, <1>3, <3>1, MessagesStay DEF HarnessInv, IInv
  <2>3. \A k \in DOMAIN rest : rest[k] = "request_human_review" => next.latest.risky
    BY <1>b, <1>2 DEF HarnessInv, TranscriptInv
  <2>4. QED
    BY <1>c, <1>2, <1>3, <2>1, <2>2, <2>3 DEF TranscriptInv, ThreadMessages
<1>5. HandoffInv(c)' /\ HandoffClosed!(c)'
  BY <1>c, <1>2, <1>3 DEF HarnessInv, HandoffInv, Closed
<1>6. next.thread \in threads'
  BY <1>2 DEF HarnessInv, TranscriptInv, RecordsGrow
<1>7. QED
  BY <1>a, <1>1, <1>4, <1>5, <1>6, ChatMoves DEF HarnessInv, ChatTypeOK

LEMMA ToolKeeps ==
    ASSUME HarnessInv, NEW c \in Chat,
           \/ RunQueryTool(c) \/ CreateSecurityTodos(c)
           \/ \E r \in Review : RequestHumanReview(c, r)
    PROVE  HarnessInv'
<1>t. /\ chat[c].at = "tools"
      /\ turn' \in Author \cup {NoOne}
  BY TurnTyped DEF RunQueryTool, CreateSecurityTodos, RequestHumanReview, RunsTool, ToolDone
<1>u. chat[c].thread \in threads /\ chat[c].thread \in Thread
  BY <1>t DEF HarnessInv, TranscriptInv, ChatTypeOK
<1>1. CASE RunQueryTool(c)
  <2>1. /\ ToolDone(c, chat[c].review)
        /\ UNCHANGED <<reviews, messages, sessions, lifetime, peers,
                       threads, tasks, handoffs>>
    BY <1>1 DEF RunQueryTool, stores
  <2>2. IInv'
    BY <1>t, <2>1, ChatTyped, SessionsMove DEF HarnessInv, peers
  <2>3. QED
    BY <1>t, <2>1, <2>2, ChatTyped, RecordsStay, ToolDoneKeeps DEF ChatCall, peers
<1>2. CASE CreateSecurityTodos(c)
  <2>1. /\ tasks' = tasks \cup {[thread |-> chat[c].thread, by |-> c]}
        /\ ToolDone(c, chat[c].review)
        /\ UNCHANGED <<reviews, messages, sessions, lifetime, peers, threads, handoffs>>
    BY <1>2 DEF CreateSecurityTodos, stores
  <2>2. IInv'
    BY <1>t, <2>1, ChatTyped, SessionsMove DEF HarnessInv, peers
  <2>3. RecordsGrow
    BY <1>u, <2>1 DEF HarnessInv, ChatTypeOK, ForeignKeysHold, RecordsGrow, Known
  <2>4. QED
    BY <1>t, <2>1, <2>2, <2>3, ChatTyped, ToolDoneKeeps DEF ChatCall, peers
<1>3. ASSUME NEW r \in Review, RequestHumanReview(c, r)
      PROVE  HarnessInv'
  <2>1. /\ Head(chat[c].plan) = "request_human_review"
        /\ CreateReview(r, chat[c].thread, chat[c].latest)
        /\ ToolDone(c, r)
        /\ UNCHANGED <<messages, sessions, lifetime, peers, threads, tasks, handoffs>>
    BY <1>3 DEF RequestHumanReview, RunsTool, sessionVars
  <2>2. chat[c].latest.risky
    <3>1. chat[c].plan \in Seq(Tools) /\ chat[c].plan # <<>>
      BY <1>t, ChatTyped DEF HarnessInv, TranscriptInv, ChatCall
    <3>2. 1 \in DOMAIN chat[c].plan /\ chat[c].plan[1] = "request_human_review"
      BY <2>1, <3>1
    <3>3. QED
      BY <1>t, <3>2 DEF HarnessInv, TranscriptInv
  <2>3. PICK i \in ThreadMessages(chat[c].thread) : messages[i].text = chat[c].latest
    BY <1>t DEF HarnessInv, TranscriptInv
  <2>4. chat[c].latest \in Text
    BY <2>3, MessagesTyped DEF HarnessInv, IInv, ThreadMessages, Message
  <2>5. IInv'
    BY <1>t, <1>u, <2>1, <2>4, NewReviewKeeps DEF HarnessInv, peers
  <2>6. RecordsGrow
    <3>1. \A s \in Review : Known(s)' =>
              \/ Known(s) /\ reviews'[s] = reviews[s]
              \/ /\ reviews'[s].thread = chat[c].thread
                 /\ reviews'[s].action = chat[c].latest
      BY <2>1 DEF CreateReview, Fresh, Known, HarnessInv, IInv, TypeOK
    <3>2. tasks' \subseteq [thread : threads', by : Chat]
      BY <2>1 DEF HarnessInv, ChatTypeOK, ForeignKeysHold
    <3>3. threads \subseteq threads' /\ threads' \subseteq Thread /\ messages' = messages
      BY <2>1 DEF HarnessInv, ChatTypeOK
    <3>4. QED
      BY <1>u, <2>2, <2>3, <3>1, <3>2, <3>3 DEF RecordsGrow
  <2>7. QED
    BY <1>t, <2>1, <2>5, <2>6, ToolDoneKeeps DEF peers
<1>4. QED
  BY <1>1, <1>2, <1>3

\* What changes when a chat goes on to another call.
LEMMA ChatGotoTyped ==
    ASSUME HarnessInv, NEW c \in Chat, NEW here,
           NEW at \in {"tools", "close_handoff", "assistant_message", "save", "refresh"},
           ChatGoto(c, here, at)
    PROVE  /\ turn' \in Author \cup {NoOne}
           /\ \E next \in ChatCall :
                  /\ chat' = [chat EXCEPT ![c] = next] /\ chat'[c] = next
                  /\ next.at = at /\ next.thread = chat[c].thread
                  /\ next.agent = chat[c].agent /\ next.latest = chat[c].latest
                  /\ next.plan = chat[c].plan /\ next.review = chat[c].review
                  /\ next.reply = chat[c].reply
<1> DEFINE next == [chat[c] EXCEPT !.at = at]
<1>1. chat' = [chat EXCEPT ![c] = next] /\ turn' \in Author \cup {NoOne}
  BY ChatTyped, TurnTyped DEF ChatGoto
<1>2. next \in ChatCall
  BY ChatTyped, ChatCallWith
<1>3. /\ next.at = at /\ next.thread = chat[c].thread
      /\ next.agent = chat[c].agent /\ next.latest = chat[c].latest
      /\ next.plan = chat[c].plan /\ next.review = chat[c].review
      /\ next.reply = chat[c].reply
  BY ChatTyped DEF ChatCall
<1> HIDE DEF next
<1>4. chat'[c] = next
  BY <1>1, ChatTyped
<1>5. QED
  BY <1>1, <1>2, <1>3, <1>4

LEMMA CreateHandoffKeeps ==
    ASSUME HarnessInv, NEW c \in Chat, CreateHandoff(c)
    PROVE  HarnessInv'
<1> DEFINE at == AfterTools(chat[c].agent, chat[c].plan)
<1>a. /\ chat[c].at = "handoff"
      /\ handoffs' = [handoffs EXCEPT ![c] = "created"]
      /\ ChatGoto(c, "handoff", at)
      /\ UNCHANGED <<reviews, messages, sessions, lifetime, peers, threads, tasks>>
  BY DEF CreateHandoff, stores
<1>b. \/ at = "tools" /\ chat[c].plan # <<>>
      \/ at = "close_handoff"
  BY <1>a DEF AfterTools, HarnessInv, HandoffInv
<1>c. chat[c].thread \in threads /\ chat[c].agent \in Agents
  BY <1>a DEF HarnessInv, TranscriptInv
<1> HIDE DEF at
<1>1. PICK next \in ChatCall :
          /\ chat' = [chat EXCEPT ![c] = next] /\ chat'[c] = next
          /\ next.at = at /\ next.thread = chat[c].thread
          /\ next.agent = chat[c].agent /\ next.latest = chat[c].latest
          /\ next.plan = chat[c].plan /\ next.review = chat[c].review
          /\ next.reply = chat[c].reply
  BY <1>a, <1>b, ChatGotoTyped
<1>2. turn' \in Author \cup {NoOne}
  BY <1>a, <1>b, ChatGotoTyped
<1>3. TranscriptInv(c)'
  BY <1>a, <1>b, <1>c, <1>1 DEF HarnessInv, TranscriptInv, ThreadMessages
<1>4. /\ handoffs' \in [Chat -> Handoff]
      /\ handoffs'[c] = "created"
      /\ \A d \in Chat : d # c => handoffs'[d] = handoffs[d]
  BY <1>a DEF HarnessInv, ChatTypeOK
<1>5. HandoffInv(c)' /\ HandoffClosed!(c)'
  BY <1>a, <1>b, <1>1, <1>4 DEF HarnessInv, HandoffInv
<1>6. QED
  BY <1>a, <1>c, <1>1, <1>2, <1>3, <1>4, <1>5, ChatTyped, ChatMovesOn

LEMMA CloseHandoffKeeps ==
    ASSUME HarnessInv, NEW c \in Chat, CloseHandoff(c)
    PROVE  HarnessInv'
<1> DEFINE closed == IF chat[c].review # NoReview THEN "interrupted" ELSE "completed"
<1>a. /\ chat[c].at = "close_handoff"
      /\ handoffs' = [handoffs EXCEPT ![c] = closed]
      /\ ChatGoto(c, "close_handoff", "assistant_message")
      /\ UNCHANGED <<reviews, messages, sessions, lifetime, peers, threads, tasks>>
  BY DEF CloseHandoff, stores
<1>b. /\ chat[c].thread \in threads /\ chat[c].reply = "none"
      /\ chat[c].agent \in Agents /\ chat[c].agent # "main-agent"
  BY <1>a, ChatTyped DEF HarnessInv, TranscriptInv, HandoffInv
<1>1. PICK next \in ChatCall :
          /\ chat' = [chat EXCEPT ![c] = next] /\ chat'[c] = next
          /\ next.at = "assistant_message" /\ next.thread = chat[c].thread
          /\ next.agent = chat[c].agent /\ next.review = chat[c].review
          /\ next.reply = chat[c].reply
  BY <1>a, ChatGotoTyped
<1>2. turn' \in Author \cup {NoOne}
  BY <1>a, ChatGotoTyped
<1>3. TranscriptInv(c)'
  BY <1>a, <1>b, <1>1 DEF TranscriptInv
<1>4. /\ handoffs' \in [Chat -> Handoff]
      /\ handoffs'[c] = closed
      /\ \A d \in Chat : d # c => handoffs'[d] = handoffs[d]
  BY <1>a DEF HarnessInv, ChatTypeOK
<1>5. HandoffInv(c)' /\ HandoffClosed!(c)'
  BY <1>b, <1>1, <1>4 DEF HandoffInv, Closed
<1>6. QED
  BY <1>a, <1>b, <1>1, <1>2, <1>3, <1>4, <1>5, ChatTyped, ChatMovesOn

LEMMA SaveAssistantMessageKeeps ==
    ASSUME HarnessInv, NEW c \in Chat, SaveAssistantMessage(c)
    PROVE  HarnessInv'
<1>a. /\ chat[c].at = "assistant_message"
      /\ messages' = Append(messages, ChatMessage(c, "assistant", FALSE))
      /\ ChatGoto(c, "assistant_message", "save")
      /\ UNCHANGED <<reviews, sessions, lifetime, peers, threads, tasks, handoffs>>
  BY DEF SaveAssistantMessage, sessionVars
<1>b. /\ chat[c].thread \in threads /\ chat[c].thread \in Thread
      /\ chat[c].agent \in Agents /\ chat[c].reply = "none"
      /\ Closed(c)
  BY <1>a, ChatTyped DEF HarnessInv, TranscriptInv, HandoffInv, ChatTypeOK
<1>1. PICK next \in ChatCall :
          /\ chat' = [chat EXCEPT ![c] = next] /\ chat'[c] = next
          /\ next.at = "save" /\ next.thread = chat[c].thread
          /\ next.agent = chat[c].agent /\ next.review = chat[c].review
          /\ next.reply = chat[c].reply
  BY <1>a, ChatGotoTyped
<1>2. turn' \in Author \cup {NoOne}
  BY <1>a, ChatGotoTyped
<1>3. IInv' /\ RecordsGrow
  BY <1>a, <1>b, <1>2, ChatWrites
<1>c. UNCHANGED <<threads, handoffs>>
  BY <1>a
<1>4. TranscriptInv(c)'
  BY <1>b, <1>c, <1>1 DEF TranscriptInv
<1>5. HandoffInv(c)' /\ HandoffClosed!(c)'
  BY <1>b, <1>c, <1>1 DEF HandoffInv, Closed
<1>6. QED
  BY <1>a, <1>b, <1>1, <1>3, <1>4, <1>5, ChatMoves DEF HarnessInv, ChatTypeOK, peers

LEMMA PersistedTyped ==
    ASSUME HarnessInv, NEW c \in Chat, chat[c].agent \in Agents
    PROVE  PersistedMemory(c) \in Memory
<1> DEFINE memory == chat[c].memory
           r == IF chat[c].review # NoReview THEN chat[c].review ELSE memory.review
<1>1. memory \in Memory /\ chat[c].review \in Review \cup {NoReview}
  BY ChatTyped DEF ChatCall
<1>2. r \in Review \cup {NoReview}
  BY <1>1 DEF Memory
<1>3. PersistedMemory(c) = [memory EXCEPT !.review = r, !.agent = chat[c].agent]
  BY <1>1 DEF PersistedMemory, Memory
<1> HIDE DEF memory, r
<1>4. [memory EXCEPT !.review = r, !.agent = chat[c].agent] =
          [[memory EXCEPT !.review = r] EXCEPT !.agent = chat[c].agent]
  BY <1>1 DEF Memory
<1>5. [memory EXCEPT !.review = r] \in Memory
  BY <1>1, <1>2, MemoryTyped
<1>6. \A other \in Memory : [other EXCEPT !.agent = chat[c].agent] \in Memory
  BY DEF Memory
<1>7. QED
  BY <1>3, <1>4, <1>5, <1>6

LEMMA ChatSessionKeeps ==
    ASSUME HarnessInv, NEW c \in Chat, SaveMemory(c) \/ RefreshMemory(c)
    PROVE  HarnessInv'
<1>a. /\ chat[c].at \in {"save", "refresh"}
      /\ \/ Save(chat[c].thread, PersistedMemory(c))
         \/ Refresh(chat[c].thread)
      /\ ChatGoto(c, "save", "refresh") \/ ChatReply(c, "200")
      /\ UNCHANGED <<reviews, messages, peers, threads, tasks, handoffs>>
  BY DEF SaveMemory, RefreshMemory
<1>b. /\ chat[c].thread \in threads /\ chat[c].thread \in Thread
      /\ chat[c].agent \in Agents /\ chat[c].reply = "none"
      /\ Closed(c)
  BY <1>a, ChatTyped DEF HarnessInv, TranscriptInv, HandoffInv, ChatTypeOK
<1>c. PersistedMemory(c) \in Memory
  BY <1>b, PersistedTyped
<1>1. /\ sessions' \in [Thread -> Memory]
      /\ lifetime' \in [Thread -> {"absent", "kept", "expiring"}]
  BY <1>a, <1>b, <1>c, MemoryTyped, SessionTyped DEF HarnessInv, IInv
<1>2. CASE ChatReply(c, "200")
  BY <1>a, <1>b, <1>1, <1>2, RecordsStay, ChatReplyKeeps
<1>3. CASE ChatGoto(c, "save", "refresh")
  <2>1. PICK next \in ChatCall :
            /\ chat' = [chat EXCEPT ![c] = next] /\ chat'[c] = next
            /\ next.at = "refresh" /\ next.thread = chat[c].thread
            /\ next.agent = chat[c].agent /\ next.review = chat[c].review
            /\ next.reply = chat[c].reply
    BY <1>3, ChatGotoTyped
  <2>2. turn' \in Author \cup {NoOne}
    BY <1>3, ChatGotoTyped
  <2>3. TranscriptInv(c)' /\ HandoffInv(c)' /\ HandoffClosed!(c)'
    BY <1>a, <1>b, <2>1 DEF TranscriptInv, HandoffInv, Closed
  <2>4. QED
    BY <1>a, <1>b, <1>1, <2>1, <2>2, <2>3, ChatTyped, ChatMovesOn
       DEF HarnessInv, ChatTypeOK
<1>4. QED
  BY <1>a, <1>2, <1>3

LEMMA ChatStepKeeps ==
    ASSUME HarnessInv, NEW c \in Chat, ChatStep(c)
    PROVE  HarnessInv'
BY SaveUserMessageKeeps, LoadMemoryKeeps, ListMessagesKeeps, ChatFailsKeeps,
   TodosCutShortKeeps, CreateHandoffKeeps, ToolKeeps, CloseHandoffKeeps, SaveAssistantMessageKeeps,
   ChatSessionKeeps
   DEF ChatStep

\* What a call that is at `at`, and goes on to `next`, does to the sessions: it
\* saves `memory` in the thread t, or sets the session's time to live.
SessionStep(t, memory, at, next) ==
    \/ UNCHANGED sessionVars /\ (at = "refresh" => SessionsFail)
    \/ /\ at = "save" /\ Save(t, memory)
       /\ AfterSave = "refresh" => next = "refresh"
    \/ at = "refresh" /\ Refresh(t)

\* What a step of a chat does to the chats and, for whoever else has loaded a
\* session or points at a review, to the reviews and the sessions.
LEMMA ChatAfterStep ==
    ASSUME HarnessInv, NEW c \in Chat, ChatStep(c)
    PROVE  /\ UNCHANGED <<peers, config>>
           /\ \A d \in Chat : d # c => chat'[d] = chat[d]
           /\ chat[c].at \notin {"idle", "replied"} /\ chat'[c].at # "idle"
           /\ chat'[c].thread = chat[c].thread /\ chat'[c].say = chat[c].say
           /\ chat[c].at # "user_message" => chat'[c].agent = chat[c].agent
           /\ \/ chat'[c].memory \in {chat[c].memory, NewMemory}
              \/ chat[c].at = "load" /\ chat'[c].memory = sessions[chat[c].thread]
           /\ \/ chat'[c].review = chat[c].review /\ UNCHANGED reviews
              \/ /\ chat'[c].review \in Review
                 /\ CreateReview(chat'[c].review, chat[c].thread, chat[c].latest)
           /\ \/ chat'[c].reply \in {chat[c].reply, "200"}
              \/ AgentMissing(c) \/ ChatSessionFails(c) \/ RecordsFail
           /\ SessionStep(chat[c].thread, PersistedMemory(c), chat[c].at, chat'[c].at)
<1> USE DEF SessionStep
<1>t. /\ chat \in [Chat -> ChatCall]
      /\ chat[c] \in ChatCall
  BY DEF HarnessInv, ChatTypeOK
<1>1. CASE SaveUserMessage(c)
  BY <1>1, <1>t DEF SaveUserMessage, ChatCall, sessionVars
<1>2. CASE LoadMemory(c)
  BY <1>2, <1>t DEF LoadMemory, ChatCall, sessionVars, stores, Load
<1>3. CASE ListMessages(c)
  BY <1>3, <1>t DEF ListMessages, AfterTools, ChatCall, sessionVars, stores
<1>4. CASE AgentMissing(c) \/ ChatSessionFails(c) \/ ChatRecordFails(c) \/ TodosCutShort(c)
  BY <1>4, <1>t DEF AgentMissing, ChatSessionFails, ChatRecordFails, TodosCutShort, RunsTool,
                    ChatReply, ChatCall, sessionVars, stores
<1>5. CASE CreateHandoff(c)
  BY <1>5, <1>t DEF CreateHandoff, ChatGoto, AfterTools, ChatCall, sessionVars, stores
<1>d. ASSUME NEW review, ToolDone(c, review)
      PROVE  /\ \A d \in Chat : d # c => chat'[d] = chat[d]
             /\ chat'[c].at # "idle"
             /\ chat'[c].thread = chat[c].thread /\ chat'[c].say = chat[c].say
             /\ chat'[c].agent = chat[c].agent /\ chat'[c].memory = chat[c].memory
             /\ chat'[c].review = review /\ chat'[c].reply = chat[c].reply
  <2> DEFINE rest == Tail(chat[c].plan)
             at   == AfterTools(chat[c].agent, rest)
  <2>1. at # "idle"
    BY DEF AfterTools
  <2>2. chat' = [chat EXCEPT ![c].at = at, ![c].plan = rest, ![c].review = review]
    BY <1>d DEF ToolDone
  <2> HIDE DEF rest, at
  <2>3. QED
    BY <2>1, <2>2, <1>t DEF ChatCall
<1>6. CASE RunQueryTool(c) \/ CreateSecurityTodos(c)
  <2>1. /\ chat[c].at = "tools" /\ ToolDone(c, chat[c].review)
        /\ UNCHANGED <<reviews, sessionVars, peers, config>>
    BY <1>6 DEF RunQueryTool, CreateSecurityTodos, RunsTool, stores, sessionVars
  <2>2. QED
    BY <2>1, <1>d
<1>7. ASSUME NEW r \in Review, RequestHumanReview(c, r)
      PROVE  /\ chat[c].at = "tools" /\ ToolDone(c, r)
             /\ CreateReview(r, chat[c].thread, chat[c].latest)
             /\ UNCHANGED <<sessionVars, peers, config>>
  BY <1>7 DEF RequestHumanReview, RunsTool
<1>8. CASE CloseHandoff(c)
  BY <1>8, <1>t DEF CloseHandoff, ChatGoto, ChatCall, sessionVars, stores
<1>9. CASE SaveAssistantMessage(c)
  BY <1>9, <1>t DEF SaveAssistantMessage, ChatGoto, ChatCall, sessionVars
<1>10. CASE SaveMemory(c)
  <2>1. /\ chat[c].at = "save" /\ Save(chat[c].thread, PersistedMemory(c))
        /\ UNCHANGED <<reviews, peers, config>>
        /\ IF AfterSave = "refresh" THEN ChatGoto(c, "save", "refresh") ELSE ChatReply(c, "200")
    BY <1>10 DEF SaveMemory
  <2>2. CASE AfterSave = "refresh"
    BY <2>1, <2>2, <1>t DEF ChatGoto, ChatCall
  <2>3. CASE AfterSave # "refresh"
    BY <2>1, <2>3, <1>t DEF ChatReply, ChatCall
  <2>4. QED
    BY <2>2, <2>3
<1>11. CASE RefreshMemory(c)
  <2>1. /\ chat[c].at = "refresh" /\ Refresh(chat[c].thread) /\ ChatReply(c, "200")
        /\ UNCHANGED <<reviews, peers, config>>
    BY <1>11 DEF RefreshMemory
  <2>2. QED
    BY <2>1, <1>t DEF ChatReply, ChatCall
<1>12. QED
  BY <1>1, <1>2, <1>3, <1>4, <1>5, <1>6, <1>d, <1>7, <1>8, <1>9, <1>10, <1>11 DEF ChatStep

-----------------------------------------------------------------------------
\* Steps of the other calls

\* The review handlers leave the thread and the action of a review alone, and
\* answer it in its own thread.
LEMMA ManagerGrows ==
    ASSUME HarnessInv, DeciderNext \/ ResumerNext \/ (\E t \in Thread : SessionExpires(t)),
           UNCHANGED <<threads, tasks>>
    PROVE  RecordsGrow
<1> DEFINE keeps == \A r \in Review : Known(r)' =>
               /\ Known(r)
               /\ reviews'[r].thread = reviews[r].thread
               /\ reviews'[r].action = reviews[r].action
           answers == \/ messages' = messages
                      \/ \E m \in Message : /\ m.thread \in threads'
                                            /\ messages' = Append(messages, m)
<1>t. TypeOK
  BY DEF HarnessInv, IInv
<1>s. ASSUME NEW r \in Review, NEW status \in Status, Known(r), SetStatus(r, status)
      PROVE  keeps
  BY <1>s, <1>t, SetStatusTyped DEF Known, TypeOK
<1>u. ASSUME UNCHANGED reviews
      PROVE  keeps
  BY <1>u DEF Known
<1>1. CASE DeciderNext
  <2>1. \/ UNCHANGED reviews
        \/ \E r \in Review, status \in Decision : Known(r) /\ SetStatus(r, status)
    BY <1>1 DEF DeciderNext, DecideReview, DecideRefused, DecideFails, stores,
                CanDecide, Known
  <2>2. messages' = messages
    BY <1>1 DEF DeciderNext, DecideReview, DecideRefused, DecideFails, stores
  <2>3. keeps
    BY <2>1, <1>s, <1>u DEF Status, Decision
  <2>4. QED
    BY <2>2, <2>3 DEF HarnessInv, ChatTypeOK, ForeignKeysHold, RecordsGrow
<1>2. CASE ResumerNext
  <2>1. PICK p \in Resumer :
            \/ \E r \in Review :
                   ResumeGetReview(p, r) \/ ResumeRefused(p, r) \/ ResumeGetFails(p, r)
            \/ ResumeStep(p)
    BY <1>2 DEF ResumerNext
  <2>2. CASE ResumeMarkResumed(p) \/ ResumeFinishReview(p)
    <3>1. /\ resume[p].at \in {"mark_resumed", "finish_review"}
          /\ resume[p].review \in Review
          /\ Known(resume[p].review)
      BY <2>2 DEF ResumeMarkResumed, ResumeFinishReview, HarnessInv, IInv, ResumerInv, Known
    <3>2. \E status \in Status : SetStatus(resume[p].review, status)
      BY <2>2, FinalStatusIsFinal DEF ResumeMarkResumed, ResumeFinishReview
    <3>3. messages' = messages
      BY <2>2 DEF ResumeMarkResumed, ResumeFinishReview
    <3>4. keeps
      BY <3>1, <3>2, <1>s
    <3>5. QED
      BY <3>3, <3>4 DEF HarnessInv, ChatTypeOK, ForeignKeysHold, RecordsGrow
  <2>3. CASE ResumeAddMessage(p)
    <3> DEFINE r == resume[p].review
    <3>1. /\ r \in Review
          /\ Known(r)
          /\ reviews[r].status \in Final
          /\ resume[p].at = "add_message"
      BY <2>3, FinalStatusIsFinal DEF ResumeAddMessage, HarnessInv, IInv, ResumerInv, Known
    <3>2. reviews[r].thread \in Thread /\ reviews[r].action \in Text
      BY <3>1 DEF HarnessInv, IInv, ReviewInv
    <3>3. AnswerTo(p) \in Message /\ AnswerTo(p).thread = reviews[r].thread
      BY <3>1, <3>2 DEF AnswerTo, Message, Text
    <3>4. reviews[r].thread \in threads
      BY <3>1 DEF HarnessInv, ForeignKeysHold
    <3>5. messages' = Append(messages, AnswerTo(p)) /\ keeps
      BY <2>3, <1>u DEF ResumeAddMessage
    <3> HIDE DEF r, keeps
    <3>6. answers
      BY <3>3, <3>4, <3>5
    <3>7. QED
      BY <3>5, <3>6 DEF keeps, HarnessInv, ChatTypeOK, ForeignKeysHold, RecordsGrow
  <2>4. CASE UNCHANGED <<reviews, messages>>
    BY <2>4, RecordsStay
  <2>5. QED
    BY <2>1, <2>2, <2>3, <2>4
       DEF ResumeGetReview, ResumeRefused, ResumeGetFails, ResumeTurnedAway, ResumeStep,
           ResumeLosesRace, ResumeLoadMemory, ResumeSaveMemory, ResumeRefreshMemory,
           ResumeSessionFails, ResumeRecordFails, stores
<1>3. CASE \E t \in Thread : SessionExpires(t)
  BY <1>3, RecordsStay DEF SessionExpires
<1>4. QED
  BY <1>1, <1>2, <1>3

LEMMA ManagerKeeps ==
    ASSUME HarnessInv, ManagerNext
    PROVE  HarnessInv'
<1>1. /\ DeciderNext \/ ResumerNext \/ \E t \in Thread : SessionExpires(t)
      /\ UNCHANGED <<append, threads, tasks, handoffs, chat>>
  BY DEF ManagerNext, ExpiryNext, chatVars
<1>2. IInv'
  BY <1>1, NextKeeps DEF HarnessInv, Next, ExpiryNext
<1>3. RecordsGrow
  BY <1>1, ManagerGrows
<1>4. AppendTypeOK' /\ AppendInv'
  BY <1>1 DEF HarnessInv, AppendTypeOK, AppendInv
<1>5. QED
  BY <1>1, <1>2, <1>3, <1>4, ChatsStay

\* append_fact touches no record but a session.
LEMMA FactsMove ==
    ASSUME HarnessInv, NEW a \in Appender, NEW call \in AppendCall,
           append' = [append EXCEPT ![a] = call], call.thread \in Thread,
           UNCHANGED <<reviews, messages, decide, resume, pause, threads, tasks,
                       handoffs, chat>>,
           turn' \in Author \cup {NoOne},
           sessions' \in [Thread -> Memory],
           lifetime' \in [Thread -> {"absent", "kept", "expiring"}]
    PROVE  HarnessInv'
<1>1. IInv'
  BY SessionsMove DEF HarnessInv
<1>2. AppendTypeOK' /\ AppendInv'
  BY DEF HarnessInv, AppendTypeOK, AppendInv
<1>3. QED
  BY <1>1, <1>2, RecordsStay, ChatsStay

LEMMA FactsKeep ==
    ASSUME HarnessInv, FactsNext
    PROVE  HarnessInv'
<1>a. UNCHANGED <<reviews, messages, decide, resume, pause, threads, tasks, handoffs, chat>>
  BY DEF FactsNext, chatVars
<1>t. /\ sessions \in [Thread -> Memory]
      /\ lifetime \in [Thread -> {"absent", "kept", "expiring"}]
      /\ append \in [Appender -> AppendCall]
      /\ TypeOK
  BY DEF HarnessInv, IInv, TypeOK, AppendTypeOK
<1>1. ASSUME NEW a \in Appender, NEW t \in Thread, AppendLoad(a, t)
      PROVE  HarnessInv'
  <2> DEFINE memory == [Load(t) EXCEPT !.facts = Append(@, a)]
             call   == [at |-> "save", thread |-> t, memory |-> memory, reply |-> "none"]
  <2>1. memory \in Memory
    <3> DEFINE facts == Append(sessions[t].facts, a)
    <3>1. sessions[t] \in Memory /\ sessions[t].facts \in Seq(Author)
      BY <1>t DEF Memory
    <3>2. facts \in Seq(Author)
      BY <3>1
    <3>3. memory = [sessions[t] EXCEPT !.facts = facts]
      BY <3>1 DEF Load
    <3> HIDE DEF facts, memory
    <3>4. QED
      BY <3>1, <3>2, <3>3 DEF Memory
  <2>2. append' = [append EXCEPT ![a] = call]
    BY <1>1 DEF AppendLoad
  <2> HIDE DEF memory
  <2>3. call \in AppendCall /\ call.thread \in Thread
    BY <2>1 DEF AppendCall
  <2>4. /\ UNCHANGED <<sessions, lifetime>>
        /\ turn' \in Author \cup {NoOne}
    BY <1>1, TurnTyped DEF AppendLoad, sessionVars
  <2> HIDE DEF call
  <2>5. QED
    BY <1>a, <1>t, <2>2, <2>3, <2>4, FactsMove
<1>2. ASSUME NEW a \in Appender, AppendStep(a)
      PROVE  HarnessInv'
  <2>a. /\ append[a].at \in {"save", "refresh"}
        /\ append[a].thread \in Thread
        /\ append[a] \in AppendCall
    BY <1>2, <1>t DEF AppendStep, AppendSave, AppendRefresh, AppendFails, HarnessInv, AppendInv
  <2>b. append[a].memory \in Memory
    BY <2>a DEF AppendCall
  <2>1. /\ sessions' \in [Thread -> Memory]
        /\ lifetime' \in [Thread -> {"absent", "kept", "expiring"}]
    BY <1>2, <1>t, <2>a, <2>b, SessionTyped, MemoryTyped
       DEF AppendStep, AppendSave, AppendRefresh, AppendFails, sessionVars
  <2>2. ASSUME NEW reply \in {"done", "error"}, AppendReply(a, reply)
        PROVE  HarnessInv'
    <3> DEFINE call == [at |-> "replied", thread |-> append[a].thread,
                        memory |-> NewMemory, reply |-> reply]
    <3>1. call \in AppendCall /\ call.thread \in Thread
      BY <2>a, MemoryTyped DEF AppendCall
    <3>2. append' = [append EXCEPT ![a] = call] /\ turn' \in Author \cup {NoOne}
      BY <2>2 DEF AppendReply, Finish
    <3> HIDE DEF call
    <3>3. QED
      BY <1>a, <2>1, <3>1, <3>2, FactsMove
  <2>3. ASSUME append' = [append EXCEPT ![a].at = "refresh"],
               Continue(a, "sessions", "sessions")
        PROVE  HarnessInv'
    <3> DEFINE call == [append[a] EXCEPT !.at = "refresh"]
    <3>1. call \in AppendCall /\ call.thread \in Thread
      BY <2>a DEF AppendCall
    <3>2. append' = [append EXCEPT ![a] = call]
      BY <2>3, <1>t
    <3>3. turn' \in Author \cup {NoOne}
      BY <2>3, TurnTyped
    <3> HIDE DEF call
    <3>4. QED
      BY <1>a, <2>1, <3>1, <3>2, <3>3, FactsMove
  <2>4. QED
    BY <1>2, <2>2, <2>3 DEF AppendStep, AppendSave, AppendRefresh, AppendFails
<1>3. QED
  BY <1>1, <1>2 DEF FactsNext, AppenderNext

\* The same of a resumption.
LEMMA ResumerAfterStep ==
    ASSUME HarnessInv, NEW p \in Resumer,
           \/ \E r \in Review :
                  ResumeGetReview(p, r) \/ ResumeRefused(p, r) \/ ResumeGetFails(p, r)
           \/ ResumeStep(p)
    PROVE  /\ \/ UNCHANGED reviews
              \/ \E status \in Status \ {"absent", "lost"} :
                     /\ resume[p].review \in Review /\ Known(resume[p].review)
                     /\ SetStatus(resume[p].review, status)
           /\ \A q \in Resumer : q # p => resume'[q] = resume[q]
           /\ resume[p].at # "replied"
           /\ \/ resume'[p].memory \in {resume[p].memory, NewMemory}
              \/ resume'[p].memory.review = NoReview
           /\ resume[p].at # "idle" => resume'[p].review = resume[p].review
           /\ SessionStep(reviews[resume[p].review].thread, resume[p].memory,
                          resume[p].at, resume'[p].at)
<1> USE DEF SessionStep
<1>t. /\ resume \in [Resumer -> ResumeCall]
      /\ sessions \in [Thread -> Memory]
      /\ TypeOK
  BY DEF HarnessInv, IInv, TypeOK
<1>1. CASE \E r \in Review :
               ResumeGetReview(p, r) \/ ResumeRefused(p, r) \/ ResumeGetFails(p, r)
  BY <1>1, <1>t DEF ResumeGetReview, ResumeRefused, ResumeGetFails, ResumeTurnedAway,
                    stores, sessionVars
<1>2. CASE ResumeMarkResumed(p) \/ ResumeFinishReview(p)
  <2> DEFINE r == resume[p].review
  <2>1. /\ resume[p].at \in {"mark_resumed", "finish_review"}
        /\ r \in Review /\ Known(r)
    BY <1>2 DEF ResumeMarkResumed, ResumeFinishReview, HarnessInv, IInv, ResumerInv
  <2>2. /\ \E status \in Status \ {"absent", "lost"} : SetStatus(r, status)
        /\ \E here, next : ResumeGoto(p, here, next)
        /\ UNCHANGED sessionVars
    BY <1>2, FinalStatusIsFinal DEF ResumeMarkResumed, ResumeFinishReview
  <2> HIDE DEF r
  <2>3. QED
    BY <1>t, <2>1, <2>2 DEF ResumeGoto, r
<1>3. CASE ResumeLosesRace(p) \/ ResumeSessionFails(p) \/ ResumeRecordFails(p)
  BY <1>3, <1>t DEF ResumeLosesRace, ResumeSessionFails, ResumeRecordFails, ResumeReply,
                    stores, sessionVars
<1>4. CASE ResumeAddMessage(p)
  BY <1>4, <1>t DEF ResumeAddMessage, ResumeGoto, sessionVars
<1>5. CASE ResumeLoadMemory(p)
  <2> DEFINE loaded == [Load(reviews[resume[p].review].thread) EXCEPT !.review = NoReview]
  <2>1. /\ resume[p].at = "load" /\ ResumeLoaded(p, loaded)
        /\ UNCHANGED <<reviews, sessionVars>>
    BY <1>5 DEF ResumeLoadMemory, stores, sessionVars
  <2>2. reviews[resume[p].review].thread \in Thread
    BY <2>1, ResumerThread DEF HarnessInv
  <2>3. loaded.review = NoReview
    BY <2>2, <1>t DEF Load, Memory
  <2> HIDE DEF loaded
  <2>4. QED
    BY <1>t, <2>1, <2>3 DEF ResumeLoaded
<1>6. CASE ResumeSaveMemory(p)
  <2>1. /\ resume[p].at = "save"
        /\ Save(reviews[resume[p].review].thread, resume[p].memory)
        /\ UNCHANGED reviews
        /\ IF AfterSave = "refresh" THEN ResumeGoto(p, "save", "refresh")
                                    ELSE ResumeReply(p, "200")
    BY <1>6 DEF ResumeSaveMemory
  <2>2. CASE AfterSave = "refresh"
    BY <2>1, <2>2, <1>t DEF ResumeGoto
  <2>3. CASE AfterSave # "refresh"
    BY <2>1, <2>3, <1>t DEF ResumeReply
  <2>4. QED
    BY <2>2, <2>3
<1>7. CASE ResumeRefreshMemory(p)
  BY <1>7, <1>t DEF ResumeRefreshMemory, ResumeReply
<1>8. QED
  BY <1>1, <1>2, <1>3, <1>4, <1>5, <1>6, <1>7 DEF ResumeStep

\* The same of append_fact.
LEMMA AppenderAfterStep ==
    ASSUME HarnessInv, NEW a \in Appender,
           (\E t \in Thread : AppendLoad(a, t)) \/ AppendStep(a)
    PROVE  /\ \A b \in Appender : b # a => append'[b] = append[b]
           /\ append[a].at # "replied"
           /\ append'[a].reply \in {append[a].reply, "none"} \/ append'[a].at = "replied"
           /\ \/ /\ append'[a].thread = append[a].thread
                 /\ append'[a].memory \in {append[a].memory, NewMemory}
              \/ /\ append[a].at = "idle" /\ append'[a].thread \in Thread
                 /\ append'[a].memory.review = sessions[append'[a].thread].review
           /\ SessionStep(append[a].thread, append[a].memory, append[a].at, append'[a].at)
<1> USE DEF SessionStep
<1>t. /\ append \in [Appender -> AppendCall]
      /\ append[a] \in AppendCall
      /\ sessions \in [Thread -> Memory]
  BY DEF HarnessInv, IInv, TypeOK, AppendTypeOK
<1>1. ASSUME NEW t \in Thread, AppendLoad(a, t)
      PROVE  /\ append[a].at = "idle" /\ UNCHANGED sessionVars
             /\ \A b \in Appender : b # a => append'[b] = append[b]
             /\ append'[a].thread = t /\ append'[a].reply = "none"
             /\ append'[a].memory.review = sessions[t].review
  <2> DEFINE loaded == [Load(t) EXCEPT !.facts = Append(@, a)]
  <2>1. loaded.review = sessions[t].review
    <3> DEFINE facts == Append(sessions[t].facts, a)
    <3>1. loaded = [sessions[t] EXCEPT !.facts = facts]
      BY <1>t DEF Load, Memory
    <3> HIDE DEF facts, loaded
    <3>2. QED
      BY <3>1, <1>t DEF Memory
  <2>2. append' = [append EXCEPT ![a] =
            [at |-> "save", thread |-> t, memory |-> loaded, reply |-> "none"]]
    BY <1>1 DEF AppendLoad
  <2>3. append[a].at = "idle" /\ UNCHANGED sessionVars
    BY <1>1 DEF AppendLoad
  <2> HIDE DEF loaded
  <2>4. QED
    BY <1>t, <2>1, <2>2, <2>3
<1>2. CASE AppendSave(a)
  <2>1. /\ append[a].at = "save"
        /\ Save(append[a].thread, append[a].memory)
        /\ IF AfterSave = "refresh" THEN append' = [append EXCEPT ![a].at = "refresh"]
                                    ELSE AppendReply(a, "done")
    BY <1>2 DEF AppendSave
  <2>2. CASE AfterSave = "refresh"
    BY <2>1, <2>2, <1>t DEF AppendCall
  <2>3. CASE AfterSave # "refresh"
    BY <2>1, <2>3, <1>t DEF AppendReply, AppendCall
  <2>4. QED
    BY <2>2, <2>3
<1>3. CASE AppendRefresh(a)
  BY <1>3, <1>t DEF AppendRefresh, AppendReply, AppendCall
<1>4. CASE AppendFails(a)
  BY <1>4, <1>t DEF AppendFails, AppendReply, AppendCall
<1>5. QED
  BY <1>1, <1>2, <1>3, <1>4 DEF AppendStep

-----------------------------------------------------------------------------

LEMMA QuietEstablishes == Quiet => HarnessInv
<1> SUFFICES ASSUME Quiet PROVE HarnessInv
  OBVIOUS
<1>1. IInv
  BY InitEstablishes DEF Quiet
<1>2. ChatTypeOK
  BY MemoryTyped DEF Quiet, ChatTypeOK, ChatCall, NoSay, Utterances, NoText
<1>3. AppendTypeOK /\ AppendInv
  BY MemoryTyped DEF Quiet, AppendInit, AppendTypeOK, AppendInv, AppendCall
<1>4. /\ messages = <<>>
      /\ \A r \in Review : ~Known(r)
  BY DEF Quiet, Init, ReviewsInit, NoRecord, Known
<1>5. LastMessages /\ ForeignKeysHold /\ ReviewQuotesTranscript
  BY <1>4 DEF Quiet, LastMessages, ThreadMessages, ForeignKeysHold, ReviewQuotesTranscript
<1>6. HandoffClosed /\ \A c \in Chat : TranscriptInv(c) /\ HandoffInv(c)
  BY DEF Quiet, HandoffClosed, TranscriptInv, HandoffInv
<1>7. QED
  BY <1>1, <1>2, <1>3, <1>5, <1>6 DEF HarnessInv

LEMMA HarnessNextKeeps == HarnessInv /\ [HarnessNext]_vars => HarnessInv'
<1> SUFFICES ASSUME HarnessInv, [HarnessNext]_vars
             PROVE  HarnessInv'
  OBVIOUS
<1>1. CASE ChatNext
  BY <1>1, ReceiveKeeps, ReceiveFailsKeeps, ChatStepKeeps DEF ChatNext, ReceiveChat
<1>2. CASE ManagerNext
  BY <1>2, ManagerKeeps
<1>3. CASE FactsNext
  BY <1>3, FactsKeep
<1>4. CASE UNCHANGED vars
  <2>1. IInv'
    BY <1>4, NextKeeps DEF HarnessInv, vars
  <2>2. AppendTypeOK' /\ AppendInv'
    BY <1>4 DEF vars, HarnessInv, AppendTypeOK, AppendInv
  <2>3. UNCHANGED <<reviews, messages, threads, tasks, handoffs, chat>>
    BY <1>4 DEF vars, managerVars, stores, chatVars
  <2>4. QED
    BY <2>1, <2>2, <2>3, RecordsStay, ChatsStay
<1>5. QED
  BY <1>1, <1>2, <1>3, <1>4 DEF HarnessNext

\* What each chat knows of the transcript and of its handoff at each of its
\* steps, and what each resume call knows of its review, stays true whichever
\* calls run in between: the review handlers' invariant IInv holds in the whole
\* backend, where chats write the reviews and messages they work on.
THEOREM HarnessInvariance == HarnessSpec => []HarnessInv
<1>1. HarnessInit => HarnessInv
  BY QuietEstablishes DEF HarnessInit
<1>2. QED
  BY <1>1, HarnessNextKeeps, PTL DEF HarnessSpec

\* Every variable of the backend keeps its type: the router names only agents,
\* the plan only tools, and a saved memory is one a session can hold.
THEOREM HarnessTypeCorrect == HarnessSpec => []HarnessTypeOK
<1>1. HarnessInit => config \in Configurations
  BY DEF HarnessInit
<1>2. config \in Configurations /\ [HarnessNext]_vars => (config \in Configurations)'
  <2>1. HarnessNext => UNCHANGED config
    BY DEF HarnessNext, ChatNext, ReceiveChat, ChatStep, SaveUserMessage, LoadMemory,
           ListMessages, AgentMissing, CreateHandoff, RunQueryTool, CreateSecurityTodos,
           RequestHumanReview, CloseHandoff, SaveAssistantMessage, SaveMemory,
           RefreshMemory, ChatSessionFails, ChatRecordFails, TodosCutShort, ManagerNext,
           FactsNext, chatVars
  <2>2. QED
    BY <2>1 DEF vars, chatVars
<1>3. HarnessInv /\ config \in Configurations => HarnessTypeOK
  BY DEF HarnessInv, IInv, HarnessTypeOK
<1>4. QED
  BY <1>1, <1>2, <1>3, HarnessInvariance, PTL DEF HarnessSpec

\* No row is written ahead of the thread it names (pre_process, and every handler
\* that writes after it).
THEOREM ForeignKeysAreHeld == HarnessSpec => []ForeignKeysHold
<1>1. HarnessInv => ForeignKeysHold
  BY DEF HarnessInv
<1>2. QED
  BY HarnessInvariance, <1>1, PTL

\* A human is asked about a high-risk text of the review's own thread only,
\* whatever else has been said in any thread since (list_messages,
\* request_human_review).
THEOREM ReviewsQuoteTheirThread == HarnessSpec => []ReviewQuotesTranscript
<1>1. HarnessInv => ReviewQuotesTranscript
  BY DEF HarnessInv
<1>2. QED
  BY HarnessInvariance, <1>1, PTL

\* A chat that is served leaves its handoff closed, whatever its plan was and
\* whichever calls run in between; one that fails does too, unless tools and
\* record stores can raise; and no handoff is ever closed as the wrong thing
\* (invoke).
THEOREM HandoffsAreClosed == HarnessSpec => []HandoffClosed
<1>1. HarnessInv => HandoffClosed
  BY DEF HarnessInv
<1>2. QED
  BY HarnessInvariance, <1>1, PTL

\* The transcript tells of each review at most once, in its own thread and with
\* the acknowledged outcome, in the whole backend too.
THEOREM BackendAnswersAreTrue == HarnessSpec => []AnswersMatchVerdict
<1>1. HarnessInv => AnswersMatchVerdict
  BY DEF HarnessInv, IInv
<1>2. QED
  BY HarnessInvariance, <1>1, PTL
=============================================================================

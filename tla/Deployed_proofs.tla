---------------------------- MODULE Deployed_proofs ----------------------------
(***************************************************************************)
(* Proofs about Deployed, today's wiring, for every set of calls, reviews  *)
(* and threads.                                                            *)
(***************************************************************************)
EXTENDS Deployed, Harness_proofs, SequenceTheorems

USE RecordsAssumption, InterruptManagerAssumption, HarnessAssumption,
    SessionFactsAssumption

USE DEF Decision, Final, Status, ReviewRecord, DecideCall, ResumeCall, PauseCall, Handoff

-----------------------------------------------------------------------------
\* One call at a time

\* What a step of c leaves alone.
OnlyChat(c) ==
    /\ UNCHANGED <<peers, config>>
    /\ \A d \in Chat : d # c => chat'[d] = chat[d]
    /\ chat'[c].thread = chat[c].thread /\ chat'[c].say = chat[c].say
    /\ turn' = c \/ chat'[c].at = "replied"

\* c itself only goes on.
OnlyGoesOn(c) ==
    /\ chat'[c].agent = chat[c].agent /\ chat'[c].memory = chat[c].memory
    /\ chat'[c].latest = chat[c].latest /\ chat'[c].plan = chat[c].plan
    /\ chat'[c].review = chat[c].review /\ chat'[c].reply = chat[c].reply

\* While one call is at work no other is.
LEMMA ChatAlone ==
    ASSUME AloneInv, NEW c \in Chat, chat[c].at \notin {"idle", "replied"}
    PROVE  /\ turn = c
           /\ \A d \in Chat : d # c => chat[d].at \in {"idle", "replied"}
           /\ \A p \in Resumer : resume[p].at \in {"idle", "replied"}
           /\ \A a \in Appender : append[a].at \in {"idle", "replied"}
BY DEF AloneInv

LEMMA ResumerAlone ==
    ASSUME AloneInv, NEW p \in Resumer, resume[p].at \notin {"idle", "replied"}
    PROVE  /\ turn = p
           /\ \A d \in Chat : chat[d].at \in {"idle", "replied"}
           /\ \A q \in Resumer : q # p => resume[q].at \in {"idle", "replied"}
           /\ \A a \in Appender : append[a].at \in {"idle", "replied"}
BY DEF AloneInv

LEMMA AppenderAlone ==
    ASSUME AloneInv, NEW a \in Appender, append[a].at \notin {"idle", "replied"}
    PROVE  /\ turn = a
           /\ \A d \in Chat : chat[d].at \in {"idle", "replied"}
           /\ \A p \in Resumer : resume[p].at \in {"idle", "replied"}
           /\ \A b \in Appender : b # a => append[b].at \in {"idle", "replied"}
BY DEF AloneInv

\* When no call has the loop none is at work.
LEMMA NobodyAtWork ==
    ASSUME AloneInv, turn = NoOne
    PROVE  /\ \A d \in Chat : chat[d].at \in {"idle", "replied"}
           /\ \A p \in Resumer : resume[p].at \in {"idle", "replied"}
           /\ \A a \in Appender : append[a].at \in {"idle", "replied"}
BY DEF AloneInv

LEMMA ChatKeepsAlone ==
    ASSUME AloneInv, NEW c \in Chat, chat[c].at \notin {"idle", "replied"}, OnlyChat(c)
    PROVE  AloneInv'
BY ChatAlone DEF AloneInv, OnlyChat, peers

-----------------------------------------------------------------------------
\* The steps of a chat when no store suspends

LEMMA ChatFields ==
    ASSUME HarnessInv
    PROVE  /\ chat \in [Chat -> ChatCall]
           /\ reviews \in [Review -> ReviewRecord]
           /\ sessions \in [Thread -> Memory]
           /\ lifetime \in [Thread -> {"absent", "kept", "expiring"}]
           /\ resume \in [Resumer -> ResumeCall]
           /\ append \in [Appender -> AppendCall]
           /\ messages \in Seq(Message)
BY DEF HarnessInv, ChatTypeOK, IInv, TypeOK, AppendTypeOK

LEMMA SaveUserMessageDoes ==
    ASSUME HarnessInv, Suspends = {}, NEW c \in Chat, SaveUserMessage(c)
    PROVE  /\ chat[c].at = "user_message" /\ chat'[c].at = "load" /\ OnlyChat(c)
           /\ messages' = Append(messages, ChatMessage(c, "user", chat[c].say.risky))
           /\ UNCHANGED <<reviews, sessions, lifetime, tasks>>
           /\ chat'[c].review = chat[c].review /\ chat'[c].reply = chat[c].reply
BY ChatFields DEF SaveUserMessage, OnlyChat, ChatCall, Continue, sessionVars

LEMMA LoadMemoryDoes ==
    ASSUME HarnessInv, Suspends = {}, NEW c \in Chat, LoadMemory(c)
    PROVE  /\ chat[c].at = "load" /\ chat'[c].at = "list_messages" /\ OnlyChat(c)
           /\ chat'[c].memory = sessions[chat[c].thread]
           /\ UNCHANGED <<reviews, messages, sessions, lifetime, tasks>>
           /\ chat'[c].review = chat[c].review /\ chat'[c].reply = chat[c].reply
           /\ chat'[c].agent = chat[c].agent
BY ChatFields DEF LoadMemory, Load, OnlyChat, ChatCall, Continue, stores, sessionVars

LEMMA ListMessagesDoes ==
    ASSUME HarnessInv, Suspends = {}, NEW c \in Chat, ListMessages(c)
    PROVE  /\ chat[c].at = "list_messages" /\ OnlyChat(c)
           /\ chat'[c].at \in {"handoff", "tools", "assistant_message"}
           /\ chat'[c].at = "assistant_message" => chat'[c].plan = <<>>
           /\ chat'[c].latest = LatestMessage(chat[c].thread)
           /\ chat'[c].plan = ConfiguredPlan(config, chat[c].agent, chat'[c].latest.risky)
           /\ CanServe(config, chat[c].agent)
           /\ UNCHANGED <<reviews, messages, sessions, lifetime, tasks>>
           /\ chat'[c].review = chat[c].review /\ chat'[c].reply = chat[c].reply
           /\ chat'[c].agent = chat[c].agent /\ chat'[c].memory = chat[c].memory
<1> DEFINE latest == LatestMessage(chat[c].thread)
           plan   == ConfiguredPlan(config, chat[c].agent, latest.risky)
           next   == IF chat[c].agent = "main-agent" THEN AfterTools(chat[c].agent, plan)
                                                     ELSE "handoff"
<1>1. /\ chat[c].at = "list_messages"
      /\ chat' = [chat EXCEPT ![c].at = next, ![c].latest = latest, ![c].plan = plan]
      /\ Continue(c, "records", "records")
      /\ CanServe(config, chat[c].agent)
      /\ UNCHANGED <<reviews, messages, sessions, lifetime, tasks, peers, config>>
  BY DEF ListMessages, stores, sessionVars
<1>2. /\ next \in {"handoff", "tools", "assistant_message"}
      /\ next = "assistant_message" => plan = <<>>
  BY DEF AfterTools
<1> HIDE DEF latest, plan, next
<1>3. /\ chat'[c].at = next /\ chat'[c].latest = latest /\ chat'[c].plan = plan
      /\ chat'[c].review = chat[c].review /\ chat'[c].reply = chat[c].reply
      /\ chat'[c].agent = chat[c].agent /\ chat'[c].memory = chat[c].memory
      /\ OnlyChat(c)
  BY <1>1, ChatFields DEF OnlyChat, ChatCall, Continue
<1>4. QED
  BY <1>1, <1>2, <1>3 DEF latest, plan

LEMMA AgentMissingDoes ==
    ASSUME HarnessInv, Suspends = {}, NEW c \in Chat, AgentMissing(c)
    PROVE  /\ chat[c].at = "list_messages" /\ chat'[c].at = "replied" /\ OnlyChat(c)
           /\ ~CanServe(config, chat[c].agent)
           /\ chat'[c].reply = "500" /\ chat'[c].review = chat[c].review
           /\ chat'[c].agent = chat[c].agent
           /\ UNCHANGED <<reviews, messages, sessions, lifetime, tasks>>
BY ChatFields DEF AgentMissing, ChatReply, OnlyChat, ChatCall, stores, sessionVars

\* A step that only takes c on.
LEMMA HandoffDoes ==
    ASSUME HarnessInv, Suspends = {}, NEW c \in Chat, CreateHandoff(c) \/ CloseHandoff(c)
    PROVE  /\ OnlyChat(c)
           /\ \/ /\ chat[c].at = "handoff" /\ chat'[c].at \in {"tools", "close_handoff"}
                 /\ chat'[c].at = "close_handoff" => chat[c].plan = <<>>
              \/ chat[c].at = "close_handoff" /\ chat'[c].at = "assistant_message"
           /\ OnlyGoesOn(c)
           /\ UNCHANGED <<reviews, messages, sessions, lifetime, tasks>>
<1>1. ASSUME NEW here, NEW next, ChatGoto(c, here, next)
      PROVE  /\ chat'[c].at = next /\ OnlyGoesOn(c)
             /\ chat'[c].thread = chat[c].thread /\ chat'[c].say = chat[c].say
             /\ \A d \in Chat : d # c => chat'[d] = chat[d]
             /\ turn' = c
  BY <1>1, ChatFields DEF ChatGoto, ChatCall, Continue, OnlyGoesOn
<1>2. CASE CreateHandoff(c)
  <2>1. /\ chat[c].at = "handoff" /\ chat[c].agent # "main-agent"
        /\ ChatGoto(c, "handoff", AfterTools(chat[c].agent, chat[c].plan))
        /\ UNCHANGED <<reviews, messages, sessions, lifetime, tasks, peers, config>>
    BY <1>2 DEF CreateHandoff, stores, sessionVars, HarnessInv, HandoffInv
  <2>2. /\ AfterTools(chat[c].agent, chat[c].plan) \in {"tools", "close_handoff"}
        /\ AfterTools(chat[c].agent, chat[c].plan) = "close_handoff" => chat[c].plan = <<>>
    BY <2>1 DEF AfterTools
  <2>3. QED
    BY <1>1, <2>1, <2>2 DEF OnlyChat
<1>3. CASE CloseHandoff(c)
  <2>1. /\ chat[c].at = "close_handoff"
        /\ ChatGoto(c, "close_handoff", "assistant_message")
        /\ UNCHANGED <<reviews, messages, sessions, lifetime, tasks, peers, config>>
    BY <1>3 DEF CloseHandoff, stores, sessionVars
  <2>2. QED
    BY <1>1, <2>1 DEF OnlyChat
<1>4. QED
  BY <1>2, <1>3

\* The handler of the first tool of the plan: a new review if it is
\* request_human_review, a task list at most if it is not.
LEMMA ToolDoes ==
    ASSUME HarnessInv, Suspends = {}, NEW c \in Chat,
           \/ RunQueryTool(c) \/ CreateSecurityTodos(c)
           \/ \E r \in Review : RequestHumanReview(c, r)
    PROVE  /\ chat[c].at = "tools" /\ OnlyChat(c)
           /\ chat'[c].at \in {"tools", "close_handoff", "assistant_message"}
           /\ chat[c].plan # <<>> /\ chat'[c].plan = Tail(chat[c].plan)
           /\ chat'[c].at = "tools" <=> chat'[c].plan # <<>>
           /\ chat'[c].latest = chat[c].latest /\ chat'[c].reply = chat[c].reply
           /\ chat'[c].agent = chat[c].agent /\ chat'[c].memory = chat[c].memory
           /\ UNCHANGED <<messages, sessions, lifetime>>
           /\ \/ /\ Head(chat[c].plan) = "request_human_review"
                 /\ chat'[c].review \in Review
                 /\ CreateReview(chat'[c].review, chat[c].thread, chat[c].latest)
                 /\ UNCHANGED tasks
              \/ /\ Head(chat[c].plan) # "request_human_review"
                 /\ chat'[c].review = chat[c].review
                 /\ UNCHANGED reviews
                 /\ tasks' \in {tasks, tasks \cup {[thread |-> chat[c].thread, by |-> c]}}
<1>a. chat[c].at = "tools" /\ chat[c].plan # <<>>
  BY DEF RunQueryTool, CreateSecurityTodos, RequestHumanReview, RunsTool, HarnessInv, TranscriptInv
<1>b. UNCHANGED <<messages, sessions, lifetime, peers, config>>
  BY DEF RunQueryTool, CreateSecurityTodos, RequestHumanReview, stores, sessionVars
<1>d. ASSUME NEW review, ToolDone(c, review)
      PROVE  /\ OnlyChat(c) /\ chat'[c].review = review
             /\ chat'[c].at \in {"tools", "close_handoff", "assistant_message"}
             /\ chat'[c].plan = Tail(chat[c].plan)
             /\ chat'[c].at = "tools" <=> chat'[c].plan # <<>>
             /\ chat'[c].latest = chat[c].latest /\ chat'[c].reply = chat[c].reply
             /\ chat'[c].agent = chat[c].agent /\ chat'[c].memory = chat[c].memory
  <2> DEFINE rest == Tail(chat[c].plan)
             at   == AfterTools(chat[c].agent, rest)
  <2>1. /\ at \in {"tools", "close_handoff", "assistant_message"}
        /\ at = "tools" <=> rest # <<>>
    BY DEF AfterTools
  <2>2. /\ chat' = [chat EXCEPT ![c].at = at, ![c].plan = rest, ![c].review = review]
        /\ turn' = c
    BY <1>d DEF ToolDone, Continue
  <2> HIDE DEF rest, at
  <2>3. /\ OnlyChat(c) /\ chat'[c].review = review
        /\ chat'[c].at = at /\ chat'[c].plan = rest
        /\ chat'[c].latest = chat[c].latest /\ chat'[c].reply = chat[c].reply
        /\ chat'[c].agent = chat[c].agent /\ chat'[c].memory = chat[c].memory
    BY <2>2, <1>b, ChatFields DEF ChatCall, OnlyChat
  <2>4. QED
    BY <2>1, <2>3 DEF rest
<1>1. CASE RunQueryTool(c) \/ CreateSecurityTodos(c)
  <2>1. /\ ToolDone(c, chat[c].review)
        /\ Head(chat[c].plan) # "request_human_review"
        /\ UNCHANGED reviews
        /\ tasks' \in {tasks, tasks \cup {[thread |-> chat[c].thread, by |-> c]}}
    BY <1>1 DEF RunQueryTool, CreateSecurityTodos, RunsTool, stores
  <2>2. QED
    BY <1>a, <1>b, <1>d, <2>1
<1>2. ASSUME NEW r \in Review, RequestHumanReview(c, r)
      PROVE  /\ ToolDone(c, r)
             /\ Head(chat[c].plan) = "request_human_review"
             /\ CreateReview(r, chat[c].thread, chat[c].latest)
             /\ UNCHANGED tasks
  BY <1>2 DEF RequestHumanReview, RunsTool
<1>3. QED
  BY <1>a, <1>b, <1>1, <1>2, <1>d

LEMMA SaveAssistantMessageDoes ==
    ASSUME HarnessInv, Suspends = {}, NEW c \in Chat, SaveAssistantMessage(c)
    PROVE  /\ chat[c].at = "assistant_message" /\ OnlyChat(c)
           /\ messages' = Append(messages, ChatMessage(c, "assistant", FALSE))
           /\ chat'[c].at = "save" /\ OnlyGoesOn(c)
           /\ UNCHANGED <<reviews, sessions, lifetime, tasks>>
BY ChatFields
   DEF SaveAssistantMessage, ChatGoto, OnlyChat, OnlyGoesOn, ChatCall, Continue, sessionVars

LEMMA NothingRefreshes ==
    Suspends = {} => AfterSave = "reply" /\ ~SessionsFail /\ ~RecordsFail
BY EventLoopAssumption DEF AfterSave

LEMMA SaveMemoryDoes ==
    ASSUME HarnessInv, Suspends = {}, NEW c \in Chat, SaveMemory(c)
    PROVE  /\ chat[c].at = "save" /\ chat'[c].at = "replied" /\ OnlyChat(c)
           /\ chat'[c].reply = "200"
           /\ chat'[c].review = chat[c].review /\ chat'[c].agent = chat[c].agent
           /\ Save(chat[c].thread, PersistedMemory(c))
           /\ UNCHANGED <<reviews, messages, tasks>>
<1>1. /\ chat[c].at = "save"
      /\ Save(chat[c].thread, PersistedMemory(c))
      /\ ChatReply(c, "200")
      /\ UNCHANGED <<reviews, messages, peers, config, tasks>>
  BY NothingRefreshes DEF SaveMemory
<1>2. QED
  BY <1>1, ChatFields DEF ChatReply, OnlyChat, ChatCall

LEMMA ReceiveDoes ==
    ASSUME HarnessInv, Suspends = {}, NEW c \in Chat, NEW t \in Thread, NEW say \in Sayable,
           ReceiveChat(c, t, say)
    PROVE  /\ chat[c].at = "idle" /\ turn = NoOne /\ turn' = c
           /\ chat'[c].at = "user_message" /\ chat'[c].thread = t /\ chat'[c].say = say
           /\ chat'[c].review = chat[c].review /\ chat'[c].reply = chat[c].reply
           /\ \A d \in Chat : d # c => chat'[d] = chat[d]
           /\ UNCHANGED <<peers, config, reviews, messages, sessions, lifetime, tasks>>
BY ChatFields, NothingRefreshes
   DEF ReceiveChat, Receive, ReceiveFails, ChatCall, Continue, stores

\* No key of a dictionary is given a time to live, and no call of one raises.
LEMMA ChatStepCases ==
    ASSUME NoneExpires, Suspends = {}, NEW c \in Chat, ChatStep(c)
    PROVE  \/ SaveUserMessage(c) \/ LoadMemory(c) \/ ListMessages(c) \/ AgentMissing(c)
           \/ CreateHandoff(c) \/ CloseHandoff(c)
           \/ RunQueryTool(c) \/ CreateSecurityTodos(c)
           \/ \E r \in Review : RequestHumanReview(c, r)
           \/ SaveAssistantMessage(c) \/ SaveMemory(c)
BY NothingRefreshes
   DEF ChatStep, NoneExpires, RefreshMemory, ChatSessionFails, ChatRecordFails, TodosCutShort

\* Whatever it does, c keeps the loop, and moves no other call.
LEMMA ChatStepAlone ==
    ASSUME HarnessInv, NoneExpires, Suspends = {}, NEW c \in Chat, ChatStep(c)
    PROVE  chat[c].at \notin {"idle", "replied"} /\ OnlyChat(c) /\ chat'[c].at # "refresh"
<1>1. CASE CreateHandoff(c) \/ CloseHandoff(c)
  BY <1>1, HandoffDoes
<1>2. CASE \/ RunQueryTool(c) \/ CreateSecurityTodos(c)
           \/ \E r \in Review : RequestHumanReview(c, r)
  BY <1>2, ToolDoes
<1>3. CASE SaveUserMessage(c) \/ LoadMemory(c) \/ ListMessages(c) \/ AgentMissing(c)
  BY <1>3, SaveUserMessageDoes, LoadMemoryDoes, ListMessagesDoes, AgentMissingDoes
<1>4. CASE SaveAssistantMessage(c) \/ SaveMemory(c)
  BY <1>4, SaveAssistantMessageDoes, SaveMemoryDoes
<1>5. QED
  BY <1>1, <1>2, <1>3, <1>4, ChatStepCases

-----------------------------------------------------------------------------
\* The steps of the other calls when no store suspends

OnlyResumer(p) ==
    /\ UNCHANGED <<chat, append, tasks, config>>
    /\ \A q \in Resumer : q # p => resume'[q] = resume[q]
    /\ turn' = p \/ resume'[p].at = "replied"

\* p finds out whether its review can be resumed, and at last that it cannot.
ResumerReads(p) ==
    /\ resume[p].at \in {"idle", "mark_resumed"}
    /\ resume'[p].at \in {"mark_resumed", "replied"}
    /\ resume[p].at = "idle" => turn = NoOne
    /\ UNCHANGED <<reviews, messages, sessions, lifetime>>

ResumerMarks(p) ==
    /\ resume[p].at = "mark_resumed" /\ resume'[p].at = "finish_review"
    /\ resume'[p].review = resume[p].review
    /\ SetStatus(resume[p].review, "resumed")
    /\ UNCHANGED <<messages, sessions, lifetime>>

ResumerFinishes(p) ==
    /\ resume[p].at = "finish_review" /\ resume'[p].at = "add_message"
    /\ resume'[p].review = resume[p].review
    /\ \E status \in Final : SetStatus(resume[p].review, status)
    /\ UNCHANGED <<messages, sessions, lifetime>>

ResumerAnswers(p) ==
    /\ resume[p].at = "add_message" /\ resume'[p].at = "load"
    /\ resume'[p].review = resume[p].review
    /\ messages' = Append(messages, AnswerTo(p))
    /\ UNCHANGED <<reviews, sessions, lifetime>>

ResumerLoads(p) ==
    /\ resume[p].at = "load" /\ resume'[p].at = "save"
    /\ resume'[p].review = resume[p].review
    /\ resume'[p].memory =
           [sessions[reviews[resume[p].review].thread] EXCEPT !.review = NoReview]
    /\ UNCHANGED <<reviews, messages, sessions, lifetime>>

ResumerSaves(p) ==
    /\ resume[p].at = "save" /\ resume'[p].at = "replied"
    /\ resume'[p].review = resume[p].review
    /\ Save(reviews[resume[p].review].thread, resume[p].memory)
    /\ UNCHANGED <<reviews, messages>>

LEMMA ResumerDoes ==
    ASSUME HarnessInv, NoneExpires, Suspends = {}, NEW p \in Resumer,
           \/ \E r \in Review :
                  ResumeGetReview(p, r) \/ ResumeRefused(p, r) \/ ResumeGetFails(p, r)
           \/ ResumeStep(p),
           UNCHANGED <<append, chatVars>>
    PROVE  /\ OnlyResumer(p)
           /\ \/ ResumerReads(p) \/ ResumerMarks(p) \/ ResumerFinishes(p)
              \/ ResumerAnswers(p) \/ ResumerLoads(p) \/ ResumerSaves(p)
<1>a. UNCHANGED <<chat, append, tasks, config>>
  BY DEF chatVars
<1>g. ASSUME NEW here, NEW next, ResumeGoto(p, here, next)
      PROVE  /\ OnlyResumer(p) /\ resume'[p].at = next
             /\ resume'[p].review = resume[p].review
  BY <1>a, <1>g, ChatFields DEF ResumeGoto, OnlyResumer, Continue
<1>r. ASSUME NEW code, ResumeReply(p, code)
      PROVE  /\ OnlyResumer(p) /\ resume'[p].at = "replied"
             /\ resume'[p].review = resume[p].review
  BY <1>a, <1>r, ChatFields DEF ResumeReply, OnlyResumer
<1>1. ASSUME NEW r \in Review,
             ResumeGetReview(p, r) \/ ResumeRefused(p, r) \/ ResumeGetFails(p, r)
      PROVE  OnlyResumer(p) /\ ResumerReads(p)
  BY <1>a, <1>1, ChatFields, NothingRefreshes
     DEF ResumeGetReview, ResumeRefused, ResumeGetFails, ResumeTurnedAway,
         OnlyResumer, ResumerReads, Continue, stores, sessionVars
<1>2. CASE ResumeLosesRace(p)
  BY <1>2, <1>r DEF ResumeLosesRace, ResumerReads, stores, sessionVars
<1>3. CASE ResumeMarkResumed(p)
  BY <1>3, <1>g DEF ResumeMarkResumed, ResumerMarks, sessionVars
<1>4. CASE ResumeFinishReview(p)
  <2>1. /\ resume[p].at = "finish_review"
        /\ SetStatus(resume[p].review, FinalStatus(resume[p].decision))
        /\ ResumeGoto(p, "finish_review", "add_message")
        /\ UNCHANGED <<messages, sessions, lifetime>>
    BY <1>4 DEF ResumeFinishReview, sessionVars
  <2>2. FinalStatus(resume[p].decision) \in Final
    BY FinalStatusIsFinal
  <2>3. QED
    BY <2>1, <2>2, <1>g DEF ResumerFinishes
<1>5. CASE ResumeAddMessage(p)
  BY <1>5, <1>g DEF ResumeAddMessage, ResumerAnswers, sessionVars
<1>6. CASE ResumeLoadMemory(p)
  <2> DEFINE memory == [Load(reviews[resume[p].review].thread) EXCEPT !.review = NoReview]
  <2>1. /\ resume[p].at = "load"
        /\ ResumeLoaded(p, memory)
        /\ UNCHANGED <<reviews, messages, sessions, lifetime>>
    BY <1>6 DEF ResumeLoadMemory, stores, sessionVars
  <2>2. memory = [sessions[reviews[resume[p].review].thread] EXCEPT !.review = NoReview]
    BY DEF Load
  <2> HIDE DEF memory
  <2>3. /\ OnlyResumer(p) /\ resume'[p].at = "save"
        /\ resume'[p].review = resume[p].review
        /\ resume'[p].memory = memory
    BY <1>a, <2>1, ChatFields DEF ResumeLoaded, OnlyResumer, Continue
  <2>4. QED
    BY <2>1, <2>2, <2>3 DEF ResumerLoads
<1>7. CASE ResumeSaveMemory(p)
  <2>1. /\ resume[p].at = "save"
        /\ Save(reviews[resume[p].review].thread, resume[p].memory)
        /\ ResumeReply(p, "200")
        /\ UNCHANGED <<reviews, messages>>
    BY <1>7, NothingRefreshes DEF ResumeSaveMemory
  <2>2. QED
    BY <2>1, <1>r DEF ResumerSaves
<1>8. ~ResumeRefreshMemory(p) /\ ~ResumeSessionFails(p) /\ ~ResumeRecordFails(p)
  BY NothingRefreshes
     DEF ResumeRefreshMemory, ResumeSessionFails, ResumeRecordFails, NoneExpires
<1>9. QED
  BY <1>1, <1>2, <1>3, <1>4, <1>5, <1>6, <1>7, <1>8 DEF ResumeStep

OnlyAppender(a) ==
    /\ UNCHANGED <<chat, resume, reviews, messages, tasks, config>>
    /\ \A b \in Appender : b # a => append'[b] = append[b]
    /\ turn' = a \/ append'[a].at = "replied"

AppenderLoads(a, t) ==
    /\ append[a].at = "idle" /\ turn = NoOne
    /\ append'[a].at = "save" /\ append'[a].reply = "none"
    /\ append'[a].thread = t
    /\ append'[a].memory = [sessions[t] EXCEPT !.facts = Append(@, a)]
    /\ UNCHANGED <<sessions, lifetime>>

AppenderSaves(a) ==
    /\ append[a].at = "save" /\ append'[a].at = "replied" /\ append'[a].reply = "done"
    /\ append'[a].thread = append[a].thread
    /\ Save(append[a].thread, append[a].memory)

LEMMA AppenderDoes ==
    ASSUME HarnessInv, NoneExpires, Suspends = {}, FactsNext
    PROVE  \E a \in Appender :
               /\ OnlyAppender(a)
               /\ (\E t \in Thread : AppenderLoads(a, t)) \/ AppenderSaves(a)
<1>1. PICK a \in Appender : (\E t \in Thread : AppendLoad(a, t)) \/ AppendStep(a)
  BY DEF FactsNext, AppenderNext
<1>2. UNCHANGED <<chat, resume, reviews, messages, tasks, config>>
  BY DEF FactsNext, chatVars
<1>3. ASSUME NEW t \in Thread, AppendLoad(a, t)
      PROVE  OnlyAppender(a) /\ AppenderLoads(a, t)
  <2> DEFINE memory == [Load(t) EXCEPT !.facts = Append(@, a)]
  <2>1. /\ append[a].at = "idle" /\ turn = NoOne /\ turn' = a
        /\ append' = [append EXCEPT ![a] =
               [at |-> "save", thread |-> t, memory |-> memory, reply |-> "none"]]
        /\ UNCHANGED <<sessions, lifetime>>
    BY <1>3 DEF AppendLoad, Continue, sessionVars
  <2>2. memory = [sessions[t] EXCEPT !.facts = Append(@, a)]
    BY DEF Load
  <2> HIDE DEF memory
  <2>3. QED
    BY <1>2, <2>1, <2>2, ChatFields DEF OnlyAppender, AppenderLoads
<1>4. ASSUME AppendStep(a)
      PROVE  OnlyAppender(a) /\ AppenderSaves(a)
  <2>1. /\ append[a].at = "save"
        /\ Save(append[a].thread, append[a].memory)
        /\ AppendReply(a, "done")
    BY <1>4, NothingRefreshes
       DEF AppendStep, AppendSave, AppendRefresh, AppendFails, NoneExpires
  <2>2. QED
    BY <1>2, <2>1, ChatFields DEF AppendReply, OnlyAppender, AppenderSaves
<1>5. QED
  BY <1>1, <1>3, <1>4

\* approve and reject run to their end at once.
DeciderDoes ==
    /\ turn = NoOne /\ turn' = NoOne
    /\ UNCHANGED <<chat, resume, append, messages, sessions, lifetime, tasks, config>>
    /\ \/ UNCHANGED reviews
       \/ \E r \in Review, status \in Decision : CanDecide(r) /\ SetStatus(r, status)

LEMMA ManagerDoes ==
    ASSUME HarnessInv, NoneExpires, Suspends = {}, ManagerNext
    PROVE  \/ DeciderDoes
           \/ \E p \in Resumer :
                  /\ OnlyResumer(p)
                  /\ \/ ResumerReads(p) \/ ResumerMarks(p) \/ ResumerFinishes(p)
                     \/ ResumerAnswers(p) \/ ResumerLoads(p) \/ ResumerSaves(p)
<1>a. UNCHANGED <<append, chatVars>>
  BY DEF ManagerNext
<1>1. CASE DeciderNext
  BY <1>a, <1>1, NothingRefreshes
     DEF DeciderNext, DecideReview, DecideRefused, DecideFails, DeciderDoes, stores, sessionVars, chatVars
<1>2. CASE ResumerNext
  BY <1>a, <1>2, ResumerDoes DEF ResumerNext
<1>3. ~ExpiryNext
  BY DEF NoneExpires, ExpiryNext, SessionExpires, Expire
<1>4. QED
  BY <1>1, <1>2, <1>3 DEF ManagerNext

-----------------------------------------------------------------------------
\* Calls run one after the other

ResumerDid(p) ==
    /\ OnlyResumer(p)
    /\ \/ ResumerReads(p) \/ ResumerMarks(p) \/ ResumerFinishes(p)
       \/ ResumerAnswers(p) \/ ResumerLoads(p) \/ ResumerSaves(p)

AppenderDid(a) ==
    /\ OnlyAppender(a)
    /\ (\E t \in Thread : AppenderLoads(a, t)) \/ AppenderSaves(a)

LEMMA StepCases ==
    ASSUME HarnessInv, NoneExpires, Suspends = {}, HarnessNext
    PROVE  \/ \E c \in Chat, t \in Thread, say \in Sayable : ReceiveChat(c, t, say)
           \/ \E c \in Chat : ChatStep(c)
           \/ DeciderDoes
           \/ \E p \in Resumer : ResumerDid(p)
           \/ \E a \in Appender : AppenderDid(a)
BY ManagerDoes, AppenderDoes DEF HarnessNext, ChatNext, ResumerDid, AppenderDid

\* A resume call that moves is at work, or comes when no call is.
LEMMA ResumerAtWork ==
    ASSUME AloneInv, NEW p \in Resumer, ResumerDid(p)
    PROVE  /\ \A d \in Chat : chat[d].at \in {"idle", "replied"}
           /\ \A q \in Resumer : q # p => resume[q].at \in {"idle", "replied"}
           /\ \A a \in Appender : append[a].at \in {"idle", "replied"}
           /\ resume'[p].at \notin {"idle", "refresh"}
<1>1. CASE resume[p].at = "idle"
  BY <1>1, NobodyAtWork
     DEF ResumerDid, ResumerReads, ResumerMarks, ResumerFinishes, ResumerAnswers,
         ResumerLoads, ResumerSaves
<1>2. CASE resume[p].at # "idle"
  BY <1>2, ResumerAlone
     DEF ResumerDid, ResumerReads, ResumerMarks, ResumerFinishes, ResumerAnswers,
         ResumerLoads, ResumerSaves
<1>3. QED
  BY <1>1, <1>2

LEMMA AppenderAtWork ==
    ASSUME AloneInv, NEW a \in Appender, AppenderDid(a)
    PROVE  /\ \A d \in Chat : chat[d].at \in {"idle", "replied"}
           /\ \A q \in Resumer : resume[q].at \in {"idle", "replied"}
           /\ \A b \in Appender : b # a => append[b].at \in {"idle", "replied"}
           /\ append'[a].at \in {"save", "replied"}
<1>1. CASE append[a].at = "idle"
  BY <1>1, NobodyAtWork DEF AppenderDid, AppenderLoads, AppenderSaves
<1>2. CASE append[a].at # "idle"
  BY <1>2, AppenderAlone DEF AppenderDid, AppenderLoads, AppenderSaves
<1>3. QED
  BY <1>1, <1>2

\* Only a step that leaves the loop to nobody lets a call start.
LEMMA AloneKept ==
    ASSUME HarnessInv, NoneExpires, AloneInv, Suspends = {}, HarnessNext
    PROVE  AloneInv'
<1>1. CASE \E c \in Chat, t \in Thread, say \in Sayable : ReceiveChat(c, t, say)
  BY <1>1, ReceiveDoes, NobodyAtWork DEF AloneInv, peers
<1>2. CASE \E c \in Chat : ChatStep(c)
  BY <1>2, ChatStepAlone, ChatKeepsAlone
<1>3. CASE DeciderDoes
  BY <1>3, NobodyAtWork DEF DeciderDoes, AloneInv
<1>4. ASSUME NEW p \in Resumer, ResumerDid(p)
      PROVE  AloneInv'
  BY <1>4, ResumerAtWork DEF AloneInv, ResumerDid, OnlyResumer
<1>5. ASSUME NEW a \in Appender, AppenderDid(a)
      PROVE  AloneInv'
  BY <1>5, AppenderAtWork DEF AloneInv, AppenderDid, OnlyAppender
<1>6. QED
  BY <1>1, <1>2, <1>3, <1>4, <1>5, StepCases

\* A save gives no key a time to live.
LEMMA SaveKeeps ==
    ASSUME HarnessInv, NEW t \in Thread, NEW memory, Save(t, memory),
           \A u \in Thread : lifetime[u] # "expiring"
    PROVE  /\ \A u \in Thread : lifetime'[u] # "expiring"
           /\ sessions'[t] = memory
           /\ \A u \in Thread : u # t => sessions'[u] = sessions[u]
BY ChatFields DEF Save

\* What a call in flight is at work on.
LEMMA CallThreads ==
    ASSUME HarnessInv
    PROVE  /\ \A c \in Chat : chat[c].at \notin {"idle", "replied"} => chat[c].thread \in Thread
           /\ \A p \in Resumer : resume[p].at \notin {"idle", "replied"} =>
                  /\ resume[p].review \in Review /\ Known(resume[p].review)
                  /\ reviews[resume[p].review].thread \in Thread
           /\ \A a \in Appender : append[a].at # "idle" => append[a].thread \in Thread
BY ResumerThread DEF HarnessInv, TranscriptInv, ChatTypeOK, IInv, ResumerInv, AppendInv

LEMMA NoneExpiresKept ==
    ASSUME HarnessInv, NoneExpires, AloneInv, Suspends = {}, HarnessNext
    PROVE  NoneExpires'
<1>1. CASE \E c \in Chat, t \in Thread, say \in Sayable : ReceiveChat(c, t, say)
  BY <1>1, ReceiveDoes DEF NoneExpires, peers
<1>2. ASSUME NEW c \in Chat, ChatStep(c)
      PROVE  NoneExpires'
  <2>1. chat[c].at \notin {"idle", "replied"} /\ OnlyChat(c) /\ chat'[c].at # "refresh"
    BY <1>2, ChatStepAlone
  <2>2. \A t \in Thread : lifetime'[t] # "expiring"
    <3>1. CASE SaveMemory(c)
      BY <3>1, <2>1, SaveMemoryDoes, SaveKeeps, CallThreads DEF NoneExpires
    <3>2. CASE UNCHANGED lifetime
      BY <3>2 DEF NoneExpires
    <3>3. QED
      BY <1>2, <3>1, <3>2, ChatStepCases, SaveUserMessageDoes, LoadMemoryDoes,
         ListMessagesDoes, AgentMissingDoes, HandoffDoes, ToolDoes, SaveAssistantMessageDoes
  <2>3. QED
    BY <2>1, <2>2 DEF NoneExpires, OnlyChat, peers
<1>3. CASE DeciderDoes
  BY <1>3 DEF DeciderDoes, NoneExpires
<1>4. ASSUME NEW p \in Resumer, ResumerDid(p)
      PROVE  NoneExpires'
  <2>1. \A t \in Thread : lifetime'[t] # "expiring"
    <3>1. CASE ResumerSaves(p)
      BY <3>1, SaveKeeps, CallThreads DEF ResumerSaves, NoneExpires
    <3>2. CASE UNCHANGED lifetime
      BY <3>2 DEF NoneExpires
    <3>3. QED
      BY <1>4, <3>1, <3>2
         DEF ResumerDid, ResumerReads, ResumerMarks, ResumerFinishes, ResumerAnswers,
             ResumerLoads
  <2>2. QED
    BY <1>4, <2>1, ResumerAtWork DEF NoneExpires, ResumerDid, OnlyResumer
<1>5. ASSUME NEW a \in Appender, AppenderDid(a)
      PROVE  NoneExpires'
  <2>1. \A t \in Thread : lifetime'[t] # "expiring"
    BY <1>5, SaveKeeps, CallThreads DEF AppenderDid, AppenderLoads, AppenderSaves, NoneExpires
  <2>2. QED
    BY <1>5, <2>1, AppenderAtWork DEF NoneExpires, AppenderDid, OnlyAppender
<1>6. QED
  BY <1>1, <1>2, <1>3, <1>4, <1>5, StepCases

\* A copy that is taken is still good when it is saved: no other call has saved
\* anything in between.
LEMMA CopyKept ==
    ASSUME HarnessInv, NoneExpires, AloneInv, CopyInv, Suspends = {}, HarnessNext
    PROVE  CopyInv'
<1>1. CASE \E c \in Chat, t \in Thread, say \in Sayable : ReceiveChat(c, t, say)
  BY <1>1, ReceiveDoes, NobodyAtWork DEF CopyInv, peers
<1>2. ASSUME NEW c \in Chat, ChatStep(c)
      PROVE  CopyInv'
  <2>1. chat[c].at \notin {"idle", "replied"} /\ OnlyChat(c)
    BY <1>2, ChatStepAlone
  <2>2. chat'[c].at \in {"list_messages", "handoff", "tools", "close_handoff",
                         "assistant_message", "save"} =>
            chat'[c].memory = sessions'[chat'[c].thread]
    <3>1. CASE LoadMemory(c)
      BY <3>1, LoadMemoryDoes DEF OnlyChat
    <3>2. CASE ListMessages(c)
      BY <3>2, ListMessagesDoes DEF OnlyChat, CopyInv
    <3>3. CASE CreateHandoff(c) \/ CloseHandoff(c)
      BY <3>3, HandoffDoes DEF OnlyChat, OnlyGoesOn, CopyInv
    <3>4. CASE \/ RunQueryTool(c) \/ CreateSecurityTodos(c)
               \/ \E r \in Review : RequestHumanReview(c, r)
      BY <3>4, ToolDoes DEF OnlyChat, CopyInv
    <3>5. CASE SaveAssistantMessage(c)
      BY <3>5, SaveAssistantMessageDoes DEF OnlyChat, OnlyGoesOn, CopyInv
    <3>6. CASE SaveUserMessage(c) \/ AgentMissing(c) \/ SaveMemory(c)
      BY <3>6, SaveUserMessageDoes, AgentMissingDoes, SaveMemoryDoes
    <3>7. QED
      BY <1>2, <3>1, <3>2, <3>3, <3>4, <3>5, <3>6, ChatStepCases
  <2>3. QED
    BY <2>1, <2>2, ChatAlone DEF CopyInv, OnlyChat, peers
<1>3. CASE DeciderDoes
  BY <1>3, NobodyAtWork DEF DeciderDoes, CopyInv
<1>4. ASSUME NEW p \in Resumer, ResumerDid(p)
      PROVE  CopyInv'
  <2>1. resume'[p].at = "save" =>
            resume'[p].memory = [sessions'[reviews'[resume'[p].review].thread]
                                     EXCEPT !.review = NoReview]
    BY <1>4
       DEF ResumerDid, ResumerReads, ResumerMarks, ResumerFinishes, ResumerAnswers,
           ResumerLoads, ResumerSaves
  <2>2. QED
    BY <1>4, <2>1, ResumerAtWork DEF CopyInv, ResumerDid, OnlyResumer
<1>5. ASSUME NEW a \in Appender, AppenderDid(a)
      PROVE  CopyInv'
  <2>1. append'[a].at = "save" =>
            append'[a].memory = [sessions'[append'[a].thread] EXCEPT !.facts = Append(@, a)]
    BY <1>5 DEF AppenderDid, AppenderLoads, AppenderSaves
  <2>2. QED
    BY <1>5, <2>1, AppenderAtWork DEF CopyInv, AppenderDid, OnlyAppender
<1>6. QED
  BY <1>1, <1>2, <1>3, <1>4, <1>5, StepCases

-----------------------------------------------------------------------------
\* What steps do to the reviews

ReviewsKept ==
    \A r \in Review : Known(r) =>
        /\ Known(r)'
        /\ reviews'[r].thread = reviews[r].thread
        /\ reviews'[r].action = reviews[r].action

LEMMA StatusSet ==
    ASSUME HarnessInv, NEW r \in Review, Known(r), NEW status \in Status \ {"absent", "lost"},
           SetStatus(r, status)
    PROVE  /\ ReviewsKept
           /\ reviews'[r].status = status
           /\ \A s \in Review : s # r => reviews'[s] = reviews[s]
BY ChatFields DEF SetStatus, ReviewsKept, Known

LEMMA ReviewCreated ==
    ASSUME HarnessInv, NEW r \in Review, NEW t, NEW action, CreateReview(r, t, action)
    PROVE  /\ ReviewsKept
           /\ ~Known(r)
           /\ reviews'[r] = [status |-> "pending", thread |-> t, action |-> action]
           /\ \A s \in Review : s # r => reviews'[s] = reviews[s]
BY ChatFields DEF CreateReview, Fresh, ReviewsKept, Known

LEMMA ReviewsUnchanged == UNCHANGED reviews => ReviewsKept
BY DEF ReviewsKept, Known

LEMMA ChatKeepsReviews ==
    ASSUME HarnessInv, NoneExpires, Suspends = {}, NEW c \in Chat, ChatStep(c)
    PROVE  ReviewsKept
<1>1. CASE UNCHANGED reviews
  BY <1>1, ReviewsUnchanged
<1>2. CASE \/ RunQueryTool(c) \/ CreateSecurityTodos(c)
           \/ \E r \in Review : RequestHumanReview(c, r)
  BY <1>2, ToolDoes, ReviewCreated, ReviewsUnchanged
<1>3. QED
  BY <1>1, <1>2, ChatStepCases, SaveUserMessageDoes, LoadMemoryDoes, ListMessagesDoes,
     AgentMissingDoes, HandoffDoes, SaveAssistantMessageDoes, SaveMemoryDoes

LEMMA DeciderKeepsReviews ==
    ASSUME HarnessInv, DeciderDoes
    PROVE  ReviewsKept
<1>1. CASE UNCHANGED reviews
  BY <1>1, ReviewsUnchanged
<1>2. ASSUME NEW r \in Review, NEW status \in Decision, CanDecide(r), SetStatus(r, status)
      PROVE  ReviewsKept
  BY <1>2, StatusSet DEF CanDecide, Known
<1>3. QED
  BY <1>1, <1>2 DEF DeciderDoes

LEMMA ResumerKeepsReviews ==
    ASSUME HarnessInv, NEW p \in Resumer, ResumerDid(p)
    PROVE  ReviewsKept
<1>1. CASE ResumerMarks(p)
  BY <1>1, CallThreads, StatusSet DEF ResumerMarks
<1>2. CASE ResumerFinishes(p)
  BY <1>2, CallThreads, StatusSet DEF ResumerFinishes
<1>3. CASE UNCHANGED reviews
  BY <1>3, ReviewsUnchanged
<1>4. QED
  BY <1>1, <1>2, <1>3
     DEF ResumerDid, ResumerReads, ResumerAnswers, ResumerLoads, ResumerSaves

-----------------------------------------------------------------------------
\* GateInv

\* With the tool that the configuration must give it, an agent plans a review of
\* a high-risk message and nothing else.
LEMMA PlanOfRisky ==
    ASSUME EveryAgentMayAsk, Served, NEW agent \in DOMAIN config.agents
    PROVE  ConfiguredPlan(config, agent, TRUE) = <<"request_human_review">>
<1>1. "request_human_review" \in config.agents[agent].tools
  BY DEF EveryAgentMayAsk, Served
<1> DEFINE plan == ToolPlan(agent, TRUE)
           Kept(i) == IF i \in DOMAIN plan /\ plan[i] \in config.agents[agent].tools
                      THEN <<plan[i]>> ELSE <<>>
<1>2. plan = <<"request_human_review">>
  BY DEF ToolPlan
<1> HIDE DEF plan
<1>3. /\ plan \in Seq(Tools) /\ Len(plan) = 1 /\ plan[1] = "request_human_review"
  BY <1>2 DEF Tools
<1>4. 1 \in DOMAIN plan /\ 2 \notin DOMAIN plan /\ 3 \notin DOMAIN plan
  BY <1>3
<1>5. Kept(1) = plan /\ Kept(2) = <<>> /\ Kept(3) = <<>>
  BY <1>1, <1>2, <1>3, <1>4
<1>6. ConfiguredPlan(config, agent, TRUE) = Kept(1) \o Kept(2) \o Kept(3)
  BY DEF ConfiguredPlan, plan
<1> HIDE DEF Kept
<1>7. QED
  BY <1>2, <1>3, <1>5, <1>6, ConcatEmptySeq

LEMMA LatestIsLast ==
    ASSUME HarnessInv, messages # <<>>, NEW t, messages[Len(messages)].thread = t
    PROVE  LatestMessage(t) = messages[Len(messages)].text
<1>1. /\ Len(messages) \in Nat \ {0}
      /\ DOMAIN messages = 1 .. Len(messages)
  BY ChatFields
<1>2. /\ Len(messages) \in ThreadMessages(t)
      /\ \A j \in ThreadMessages(t) : j \in Nat /\ j <= Len(messages)
  BY <1>1 DEF ThreadMessages
<1> DEFINE last == LastPlace(ThreadMessages(t))
<1>3. last \in ThreadMessages(t) /\ \A j \in ThreadMessages(t) : j <= last
  BY <1>2 DEF LastPlace
<1>4. last = Len(messages)
  BY <1>1, <1>2, <1>3
<1>5. LatestMessage(t) = messages[last].text
  BY DEF LatestMessage, LastOf
<1>6. QED
  BY <1>4, <1>5

\* A chat that does not move keeps what it is gated by.
LEMMA GateStays ==
    ASSUME HarnessInv, ReviewsKept, NEW d \in Chat, GateInv(d), chat'[d] = chat[d],
           \A task \in tasks' : task.by = d => task \in tasks,
           UNCHANGED messages \/ chat[d].at \in {"idle", "replied"}
    PROVE  GateInv(d)'
<1>1. chat[d].review \in Review \cup {NoReview}
  BY ChatFields DEF ChatCall
<1>2. OwnText(d)' = OwnText(d)
  BY DEF OwnText
<1> USE DEF GateInv
<1>3. CASE UNCHANGED messages
  BY <1>1, <1>2, <1>3 DEF ReviewsKept
<1>4. CASE chat[d].at \in {"idle", "replied"}
  BY <1>1, <1>2, <1>4 DEF ReviewsKept
<1>5. QED
  BY <1>3, <1>4

\* Each step of c gives it what it is to be gated by at the next.
LEMMA GateMoves ==
    ASSUME HarnessInv, NoneExpires, AloneInv, Suspends = {}, EveryAgentMayAsk,
           Served, NEW c \in Chat, GateInv(c), ChatStep(c)
    PROVE  GateInv(c)'
<1>a. /\ chat[c].at \notin {"idle", "replied"} /\ chat[c].reply = "none"
      /\ OnlyChat(c) /\ ReviewsKept
  BY ChatStepAlone, ChatKeepsReviews, ChatFields DEF HarnessInv, HandoffInv, ChatCall
<1>b. /\ OwnText(c)' = OwnText(c) /\ chat[c].say.risky \in BOOLEAN
      /\ chat'[c].thread = chat[c].thread /\ chat'[c].say = chat[c].say
      /\ chat[c].review \in Review \cup {NoReview}
  BY <1>a, ChatFields DEF OwnText, OnlyChat, ChatCall, Utterances
<1>c. chat'[c].review = chat[c].review /\ chat[c].review # NoReview =>
          /\ reviews'[chat'[c].review].status \notin {"absent", "lost"}
          /\ reviews'[chat'[c].review].action = OwnText(c)
          /\ reviews'[chat'[c].review].thread = chat[c].thread
          /\ chat[c].say.risky
  BY <1>a, <1>b DEF GateInv, ReviewsKept, Known
<1>1. CASE SaveUserMessage(c)
  <2>1. /\ chat[c].at = "user_message" /\ chat'[c].at = "load"
        /\ messages' = Append(messages, ChatMessage(c, "user", chat[c].say.risky))
        /\ UNCHANGED <<reviews, tasks>>
        /\ chat'[c].review = chat[c].review /\ chat'[c].reply = chat[c].reply
    BY <1>1, SaveUserMessageDoes
  <2>2. /\ messages' # <<>>
        /\ messages'[Len(messages')] = ChatMessage(c, "user", chat[c].say.risky)
    <3> DEFINE m == ChatMessage(c, "user", chat[c].say.risky)
    <3>1. messages \in Seq(Message)
      BY ChatFields
    <3>2. messages' = Append(messages, m)
      BY <2>1
    <3> HIDE DEF m
    <3>3. messages' # <<>> /\ messages'[Len(messages')] = m
      BY <3>1, <3>2
    <3>4. QED
      BY <3>3 DEF m
  <2>3. QED
    BY <1>a, <1>b, <1>c, <2>1, <2>2 DEF GateInv, Known, ChatMessage, OwnText
<1>2. CASE LoadMemory(c)
  BY <1>2, <1>a, <1>b, <1>c, LoadMemoryDoes DEF GateInv, Known
<1>3. CASE ListMessages(c)
  <2>1. /\ chat[c].at = "list_messages"
        /\ chat'[c].at \in {"handoff", "tools", "assistant_message"}
        /\ chat'[c].at = "assistant_message" => chat'[c].plan = <<>>
        /\ chat'[c].latest = LatestMessage(chat[c].thread)
        /\ chat'[c].plan = ConfiguredPlan(config, chat[c].agent, chat'[c].latest.risky)
        /\ CanServe(config, chat[c].agent)
        /\ UNCHANGED <<reviews, tasks>>
        /\ chat'[c].review = chat[c].review /\ chat'[c].reply = chat[c].reply
    BY <1>3, ListMessagesDoes
  <2>2. LatestMessage(chat[c].thread) = OwnText(c)
    BY <2>1, LatestIsLast DEF GateInv
  <2>3. chat[c].say.risky => chat'[c].plan = <<"request_human_review">>
    <3> SUFFICES ASSUME chat[c].say.risky
                 PROVE  chat'[c].plan = <<"request_human_review">>
      OBVIOUS
    <3>1. chat'[c].latest.risky = TRUE
      BY <1>b, <2>1, <2>2 DEF OwnText
    <3>2. chat[c].agent \in DOMAIN config.agents
      BY <2>1 DEF CanServe
    <3>3. chat'[c].plan = ConfiguredPlan(config, chat[c].agent, TRUE)
      BY <2>1, <3>1
    <3>4. QED
      BY <3>2, <3>3, PlanOfRisky
  <2>4. chat[c].say.risky => chat'[c].at # "assistant_message"
    BY <2>1, <2>3
  <2>5. QED
    BY <1>a, <1>b, <1>c, <2>1, <2>2, <2>3, <2>4 DEF GateInv, Known
<1>4. CASE AgentMissing(c)
  BY <1>4, <1>a, <1>b, <1>c, AgentMissingDoes DEF GateInv, Known
<1>5. CASE CreateHandoff(c) \/ CloseHandoff(c)
  <2>1. /\ \/ /\ chat[c].at = "handoff" /\ chat'[c].at \in {"tools", "close_handoff"}
              /\ chat'[c].at = "close_handoff" => chat[c].plan = <<>>
           \/ chat[c].at = "close_handoff" /\ chat'[c].at = "assistant_message"
        /\ OnlyGoesOn(c)
        /\ UNCHANGED <<reviews, messages, tasks>>
    BY <1>5, HandoffDoes
  <2>2. chat[c].at = "handoff" /\ chat'[c].at = "close_handoff" => ~chat[c].say.risky
    BY <2>1 DEF GateInv
  <2>3. QED
    BY <1>a, <1>b, <1>c, <2>1, <2>2 DEF GateInv, Known, OnlyGoesOn
<1>6. CASE \/ RunQueryTool(c) \/ CreateSecurityTodos(c)
           \/ \E r \in Review : RequestHumanReview(c, r)
  <2>1. /\ chat[c].at = "tools" /\ chat[c].plan # <<>>
        /\ chat'[c].at \in {"tools", "close_handoff", "assistant_message"}
        /\ chat'[c].at = "tools" <=> chat'[c].plan # <<>>
        /\ chat'[c].plan = Tail(chat[c].plan)
        /\ chat'[c].latest = chat[c].latest /\ chat'[c].reply = chat[c].reply
        /\ UNCHANGED messages
    BY <1>6, ToolDoes
  <2>2. chat[c].latest = OwnText(c) /\ chat[c].latest.risky = chat[c].say.risky
    BY <2>1 DEF GateInv, OwnText
  <2>3. chat[c].plan \in Seq(Tools)
    BY ChatFields DEF ChatCall
  <2>4. chat[c].say.risky => /\ Head(chat[c].plan) = "request_human_review"
                             /\ chat'[c].at # "tools"
    <3>1. \A tool : Head(<<tool>>) = tool /\ Tail(<<tool>>) = <<>>
      OBVIOUS
    <3>2. chat[c].say.risky => chat[c].plan = <<"request_human_review">>
      BY <2>1 DEF GateInv
    <3>3. QED
      BY <2>1, <3>1, <3>2
  <2>5. CASE /\ Head(chat[c].plan) = "request_human_review"
             /\ chat'[c].review \in Review
             /\ CreateReview(chat'[c].review, chat[c].thread, chat[c].latest)
             /\ UNCHANGED tasks
    <3>1. chat[c].say.risky
      <4>1. 1 \in DOMAIN chat[c].plan /\ chat[c].plan[1] = "request_human_review"
        BY <2>1, <2>3, <2>5
      <4>2. chat[c].latest.risky
        BY <2>1, <4>1 DEF HarnessInv, TranscriptInv
      <4>3. QED
        BY <2>2, <4>2
    <3>2. /\ reviews'[chat'[c].review] =
                 [status |-> "pending", thread |-> chat[c].thread, action |-> chat[c].latest]
      BY <2>5, ReviewCreated
    <3>3. reviews'[chat'[c].review].status \notin {"absent", "lost"}
      BY <3>2
    <3>4. chat'[c].review # NoReview
      BY <2>5
    <3>5. QED
      BY <1>a, <1>b, <2>1, <2>2, <2>4, <2>5, <3>1, <3>2, <3>3, <3>4 DEF GateInv, Known
  <2>6. CASE /\ Head(chat[c].plan) # "request_human_review"
             /\ chat'[c].review = chat[c].review
             /\ UNCHANGED reviews
    <3>1. ~chat[c].say.risky
      BY <2>4, <2>6
    <3>2. QED
      BY <1>a, <1>b, <1>c, <2>1, <2>2, <2>6, <3>1 DEF GateInv, Known
  <2>7. QED
    BY <1>6, <2>5, <2>6, ToolDoes
<1>7. CASE SaveAssistantMessage(c)
  BY <1>7, <1>a, <1>b, <1>c, SaveAssistantMessageDoes DEF GateInv, Known, OnlyGoesOn
<1>8. CASE SaveMemory(c)
  <2>1. /\ chat[c].at = "save" /\ chat'[c].at = "replied"
        /\ chat'[c].review = chat[c].review
        /\ UNCHANGED <<reviews, messages, tasks>>
    BY <1>8, SaveMemoryDoes
  <2>2. chat[c].say.risky => chat[c].review # NoReview
    BY <2>1 DEF GateInv
  <2>3. (\E task \in tasks' : task.by = c) => ~chat[c].say.risky
    BY <2>1 DEF GateInv
  <2>4. QED
    BY <1>b, <1>c, <2>1, <2>2, <2>3 DEF GateInv, Known
<1>9. QED
  BY <1>1, <1>2, <1>3, <1>4, <1>5, <1>6, <1>7, <1>8, ChatStepCases

\* Only c creates a task that is by c.
LEMMA TasksOfOthers ==
    ASSUME HarnessInv, NoneExpires, Suspends = {}, NEW c \in Chat, ChatStep(c),
           NEW d \in Chat, d # c
    PROVE  \A task \in tasks' : task.by = d => task \in tasks
<1>1. CASE UNCHANGED tasks
  BY <1>1
<1>2. CASE \/ RunQueryTool(c) \/ CreateSecurityTodos(c)
           \/ \E r \in Review : RequestHumanReview(c, r)
  BY <1>2, ToolDoes
<1>3. QED
  BY <1>1, <1>2, ChatStepCases, SaveUserMessageDoes, LoadMemoryDoes, ListMessagesDoes,
     AgentMissingDoes, HandoffDoes, SaveAssistantMessageDoes, SaveMemoryDoes

LEMMA GateKept ==
    ASSUME HarnessInv, NoneExpires, AloneInv, Suspends = {}, EveryAgentMayAsk,
           Served, \A d \in Chat : GateInv(d), HarnessNext
    PROVE  \A d \in Chat : GateInv(d)'
<1> TAKE d \in Chat
<1>1. ASSUME NEW c \in Chat, NEW t \in Thread, NEW say \in Sayable, ReceiveChat(c, t, say)
      PROVE  GateInv(d)'
  <2>1. /\ chat[c].at = "idle"
        /\ chat'[c].at = "user_message" /\ chat'[c].thread = t /\ chat'[c].say = say
        /\ chat'[c].review = chat[c].review /\ chat'[c].reply = chat[c].reply
        /\ \A e \in Chat : e # c => chat'[e] = chat[e]
        /\ UNCHANGED <<reviews, messages, tasks>>
    BY <1>1, ReceiveDoes
  <2>2. CASE d = c
    <3>1. chat[c].review = NoReview /\ chat[c].reply = "none"
      BY <2>1, ChatFields DEF HarnessInv, HandoffInv, ChatCall
    <3>2. QED
      BY <2>1, <2>2, <3>1 DEF GateInv
  <2>3. CASE d # c
    BY <2>1, <2>3, GateStays, ReviewsUnchanged
  <2>4. QED
    BY <2>2, <2>3
<1>2. ASSUME NEW c \in Chat, ChatStep(c)
      PROVE  GateInv(d)'
  <2>1. CASE d = c
    BY <1>2, <2>1, GateMoves
  <2>2. CASE d # c
    BY <1>2, <2>2, ChatStepAlone, ChatAlone, ChatKeepsReviews, TasksOfOthers, GateStays
       DEF OnlyChat
  <2>3. QED
    BY <2>1, <2>2
<1>3. CASE DeciderDoes
  BY <1>3, DeciderKeepsReviews, GateStays DEF DeciderDoes
<1>4. ASSUME NEW p \in Resumer, ResumerDid(p)
      PROVE  GateInv(d)'
  BY <1>4, ResumerKeepsReviews, ResumerAtWork, GateStays DEF ResumerDid, OnlyResumer
<1>5. ASSUME NEW a \in Appender, AppenderDid(a)
      PROVE  GateInv(d)'
  BY <1>5, ReviewsUnchanged, GateStays DEF AppenderDid, OnlyAppender
<1>6. QED
  BY <1>1, <1>2, <1>3, <1>4, <1>5, StepCases

\* What persist writes over the copy it has.
LEMMA PersistedIs ==
    ASSUME HarnessInv, NEW c \in Chat
    PROVE  /\ PersistedMemory(c).review =
                  IF chat[c].review # NoReview THEN chat[c].review ELSE chat[c].memory.review
           /\ PersistedMemory(c).agent = chat[c].agent
           /\ PersistedMemory(c).facts = chat[c].memory.facts
<1> DEFINE r == IF chat[c].review # NoReview THEN chat[c].review ELSE chat[c].memory.review
<1>1. chat[c].memory \in Memory
  BY ChatFields DEF ChatCall
<1>2. PersistedMemory(c) = [chat[c].memory EXCEPT !.review = r, !.agent = chat[c].agent]
  BY <1>1 DEF PersistedMemory, Memory
<1> HIDE DEF r
<1>3. /\ PersistedMemory(c).review = r /\ PersistedMemory(c).agent = chat[c].agent
      /\ PersistedMemory(c).facts = chat[c].memory.facts
  BY <1>1, <1>2 DEF Memory
<1>4. QED
  BY <1>3 DEF r

\* What a save of the chat or of the resumption at work changes.
LEMMA ChatSaves ==
    ASSUME HarnessInv, NoneExpires, AloneInv, CopyInv, Suspends = {},
           NEW c \in Chat, SaveMemory(c)
    PROVE  /\ chat[c].thread \in Thread
           /\ sessions'[chat[c].thread] = PersistedMemory(c)
           /\ PersistedMemory(c).facts = sessions[chat[c].thread].facts
           /\ \A u \in Thread : u # chat[c].thread => sessions'[u] = sessions[u]
<1>1. chat[c].at = "save" /\ Save(chat[c].thread, PersistedMemory(c))
  BY SaveMemoryDoes
<1>2. chat[c].thread \in Thread /\ chat[c].memory = sessions[chat[c].thread]
  BY <1>1, CallThreads DEF CopyInv
<1>3. QED
  BY <1>1, <1>2, SaveKeeps, PersistedIs DEF NoneExpires

LEMMA ResumerSavesDoes ==
    ASSUME HarnessInv, NoneExpires, AloneInv, CopyInv, Suspends = {},
           NEW p \in Resumer, ResumerSaves(p)
    PROVE  LET t == reviews[resume[p].review].thread IN
           /\ t \in Thread
           /\ sessions'[t].review = NoReview
           /\ sessions'[t].agent = sessions[t].agent
           /\ sessions'[t].facts = sessions[t].facts
           /\ \A u \in Thread : u # t => sessions'[u] = sessions[u]
<1> DEFINE t == reviews[resume[p].review].thread
<1>1. resume[p].at = "save" /\ Save(t, resume[p].memory)
  BY DEF ResumerSaves
<1>2. /\ t \in Thread
      /\ resume[p].memory = [sessions[t] EXCEPT !.review = NoReview]
  BY <1>1, CallThreads DEF CopyInv
<1>3. /\ sessions'[t] = [sessions[t] EXCEPT !.review = NoReview]
      /\ \A u \in Thread : u # t => sessions'[u] = sessions[u]
  BY <1>1, <1>2, SaveKeeps DEF NoneExpires
<1>4. sessions[t] \in Memory
  BY <1>2, ChatFields
<1> HIDE DEF t
<1>5. /\ sessions'[t].review = NoReview
      /\ sessions'[t].agent = sessions[t].agent
      /\ sessions'[t].facts = sessions[t].facts
  BY <1>3, <1>4 DEF Memory
<1>6. QED
  BY <1>2, <1>3, <1>5 DEF t

LEMMA AppenderSavesDoes ==
    ASSUME HarnessInv, NoneExpires, AloneInv, CopyInv, Suspends = {},
           NEW a \in Appender, AppenderSaves(a)
    PROVE  LET t == append[a].thread IN
           /\ t \in Thread
           /\ sessions'[t].review = sessions[t].review
           /\ sessions'[t].agent = sessions[t].agent
           /\ sessions'[t].facts = Append(sessions[t].facts, a)
           /\ \A u \in Thread : u # t => sessions'[u] = sessions[u]
<1> DEFINE t == append[a].thread
           facts == Append(sessions[t].facts, a)
<1>1. append[a].at = "save" /\ Save(t, append[a].memory)
  BY DEF AppenderSaves
<1>2. t \in Thread
  BY <1>1, CallThreads
<1>3. sessions[t] \in Memory
  BY <1>2, ChatFields
<1>4. append[a].memory = [sessions[t] EXCEPT !.facts = facts]
  BY <1>1, <1>3 DEF CopyInv, Memory
<1>5. /\ sessions'[t] = [sessions[t] EXCEPT !.facts = facts]
      /\ \A u \in Thread : u # t => sessions'[u] = sessions[u]
  BY <1>1, <1>2, <1>4, SaveKeeps DEF NoneExpires
<1> HIDE DEF t, facts
<1>6. /\ sessions'[t].review = sessions[t].review
      /\ sessions'[t].agent = sessions[t].agent
      /\ sessions'[t].facts = facts
  BY <1>3, <1>5 DEF Memory
<1>7. QED
  BY <1>2, <1>5, <1>6 DEF t, facts

-----------------------------------------------------------------------------
\* FactsInv

\* No session's facts change.
FactsStay == \A t \in Thread : sessions'[t].facts = sessions[t].facts

LEMMA FactsInvStays ==
    ASSUME FactsInv, FactsStay, HarnessInv, UNCHANGED append
    PROVE  FactsInv'
<1>1. \A a \in Appender : append[a].reply = "done" => append[a].thread \in Thread
  BY DEF HarnessInv, AppendInv, FactsInv
<1>2. QED
  BY <1>1 DEF FactsInv, FactsKept, FactsStay

\* A fact that a session does not have is added to those it has.
LEMMA FactAppended ==
    ASSUME FactsInv, HarnessInv, NoneExpires, AloneInv, CopyInv, Suspends = {},
           NEW a \in Appender, OnlyAppender(a), AppenderSaves(a)
    PROVE  FactsInv'
<1> DEFINE t == append[a].thread
<1>1. /\ t \in Thread
      /\ sessions'[t].facts = Append(sessions[t].facts, a)
      /\ \A u \in Thread : u # t => sessions'[u] = sessions[u]
  BY AppenderSavesDoes
<1>2. /\ append[a].at = "save" /\ append'[a].at = "replied" /\ append'[a].reply = "done"
      /\ append'[a].thread = t
      /\ \A b \in Appender : b # a => append'[b] = append[b]
  BY DEF AppenderSaves, OnlyAppender
<1>3. \A i \in DOMAIN sessions[t].facts : sessions[t].facts[i] # a
  BY <1>1, <1>2 DEF FactsInv
<1>4. sessions[t].facts \in Seq(Author)
  BY <1>1, ChatFields DEF Memory
<1> DEFINE old == sessions[t].facts
           new == sessions'[t].facts
<1>5. old \in Seq(Author) /\ new = Append(old, a)
  BY <1>1, <1>4
<1>6. \A b \in Appender : append[b].reply = "done" => append[b].thread \in Thread
  BY DEF HarnessInv, AppendInv, FactsInv
<1> HIDE DEF t, old, new
<1>e. /\ Len(old) \in Nat
      /\ DOMAIN old = 1 .. Len(old)
      /\ DOMAIN new = 1 .. Len(old) + 1
      /\ \A i \in DOMAIN old : new[i] = old[i]
      /\ new[Len(old) + 1] = a
  BY <1>5
<1>7. FactsKept'
  <2> SUFFICES ASSUME NEW b \in Appender, append'[b].reply = "done"
               PROVE  \E i \in DOMAIN sessions'[append'[b].thread].facts :
                          \A j \in DOMAIN sessions'[append'[b].thread].facts :
                              sessions'[append'[b].thread].facts[j] = b <=> j = i
    BY DEF FactsKept
  <2>1. CASE b = a
    <3>1. /\ Len(old) + 1 \in DOMAIN new
          /\ \A j \in DOMAIN new : new[j] = a <=> j = Len(old) + 1
      BY <1>3, <1>e DEF old
    <3>2. QED
      BY <2>1, <3>1, <1>2 DEF new
  <2>2. CASE b # a /\ append[b].thread = t
    <3>1. PICK i \in DOMAIN old : \A j \in DOMAIN old : old[j] = b <=> j = i
      BY <2>2, <1>2 DEF FactsInv, FactsKept, old
    <3>2. i \in DOMAIN new /\ \A j \in DOMAIN new : new[j] = b <=> j = i
      BY <2>2, <3>1, <1>e
    <3>3. QED
      BY <2>2, <3>2, <1>2 DEF new
  <2>3. CASE b # a /\ append[b].thread # t
    <3>1. append'[b] = append[b] /\ append[b].thread \in Thread
      BY <2>3, <1>2, <1>6
    <3>2. sessions'[append[b].thread] = sessions[append[b].thread]
      BY <2>3, <3>1, <1>1 DEF t
    <3>3. QED
      BY <3>1, <3>2 DEF FactsInv, FactsKept
  <2>4. QED
    BY <2>1, <2>2, <2>3
<1>8. ASSUME NEW b \in Appender, append'[b].at # "replied"
      PROVE  /\ append'[b].reply = "none"
             /\ \A u \in Thread : \A i \in DOMAIN sessions'[u].facts : sessions'[u].facts[i] # b
  <2>1. b # a /\ append'[b] = append[b]
    BY <1>2, <1>8
  <2>2. \A i \in DOMAIN new : new[i] # b
    BY <1>1, <1>e, <1>8, <2>1 DEF FactsInv, old
  <2>3. \A u \in Thread : u # t =>
            \A i \in DOMAIN sessions'[u].facts : sessions'[u].facts[i] # b
    BY <1>1, <1>8, <2>1 DEF FactsInv, t
  <2>4. QED
    BY <1>8, <2>1, <2>2, <2>3 DEF FactsInv, new
<1>9. QED
  BY <1>7, <1>8 DEF FactsInv

LEMMA FactsInvKept ==
    ASSUME FactsInv, HarnessInv, NoneExpires, AloneInv, CopyInv, Suspends = {}, HarnessNext
    PROVE  FactsInv'
<1>1. CASE \E c \in Chat, t \in Thread, say \in Sayable : ReceiveChat(c, t, say)
  BY <1>1, ReceiveDoes, FactsInvStays DEF FactsStay, peers
<1>2. ASSUME NEW c \in Chat, ChatStep(c)
      PROVE  FactsInv'
  <2>1. UNCHANGED append
    BY <1>2, ChatStepAlone DEF OnlyChat, peers
  <2>2. CASE UNCHANGED sessions
    BY <2>1, <2>2, FactsInvStays DEF FactsStay
  <2>3. CASE SaveMemory(c)
    <3>1. FactsStay
      BY <2>3, ChatSaves DEF FactsStay
    <3>2. QED
      BY <2>1, <3>1, FactsInvStays
  <2>4. QED
    BY <1>2, <2>2, <2>3, ChatStepCases, SaveUserMessageDoes, LoadMemoryDoes,
       ListMessagesDoes, AgentMissingDoes, HandoffDoes, ToolDoes, SaveAssistantMessageDoes
<1>3. CASE DeciderDoes
  BY <1>3, FactsInvStays DEF DeciderDoes, FactsStay
<1>4. ASSUME NEW p \in Resumer, ResumerDid(p)
      PROVE  FactsInv'
  <2>1. FactsStay
    <3>1. CASE ResumerSaves(p)
      BY <3>1, ResumerSavesDoes DEF FactsStay
    <3>2. CASE UNCHANGED sessions
      BY <3>2 DEF FactsStay
    <3>3. QED
      BY <1>4, <3>1, <3>2
         DEF ResumerDid, ResumerReads, ResumerMarks, ResumerFinishes, ResumerAnswers,
             ResumerLoads
  <2>2. QED
    BY <1>4, <2>1, FactsInvStays DEF ResumerDid, OnlyResumer
<1>5. ASSUME NEW a \in Appender, NEW t \in Thread, OnlyAppender(a), AppenderLoads(a, t)
      PROVE  FactsInv'
  <2>1. /\ append[a].at = "idle"
        /\ append'[a].at = "save" /\ append'[a].reply = "none"
        /\ \A b \in Appender : b # a => append'[b] = append[b]
        /\ UNCHANGED sessions
    BY <1>5 DEF AppenderLoads, OnlyAppender
  <2>2. QED
    BY <2>1 DEF FactsInv, FactsKept
<1>6. QED
  BY <1>1, <1>2, <1>3, <1>4, <1>5, FactAppended, StepCases DEF AppenderDid

-----------------------------------------------------------------------------
\* SessionInv: what the transcript tells of a thread's session

\* The last of some places is the only one.
LEMMA LastPlaceIs ==
    ASSUME NEW places \in SUBSET Nat, NEW i \in places, \A j \in places : j <= i
    PROVE  LastPlace(places) = i
<1> DEFINE last == LastPlace(places)
<1>1. last \in places /\ \A j \in places : j <= last
  BY DEF LastPlace
<1> HIDE DEF last
<1>2. last \in Nat /\ i \in Nat /\ last <= i /\ i <= last
  BY <1>1
<1>3. last = i
  BY <1>2
<1>4. QED
  BY <1>3 DEF last

\* The chats that have answered keep their review and their agent.
AuthorsStay ==
    \A i \in DOMAIN messages :
        messages[i].role = "assistant" /\ messages[i].text.author \in Chat =>
            /\ chat'[messages[i].text.author].review = chat[messages[i].text.author].review
            /\ chat'[messages[i].text.author].agent = chat[messages[i].text.author].agent

\* The transcript is as it was, but for a message m that says nothing of t's review.
LEMMA ReviewToldStays ==
    ASSUME HarnessInv, AuthorsStay, NEW t, HasLast(AboutReview(t)),
           \/ messages' = messages
           \/ \E m \in Message : /\ messages' = Append(messages, m)
                                 /\ \/ m.thread # t
                                    \/ /\ m.review = NoReview
                                       /\ m.role = "assistant" /\ m.text.author \in Chat =>
                                              chat'[m.text.author].review = NoReview
    PROVE  HasLast(AboutReview(t))' /\ ToldReview(t)' = ToldReview(t)
<1>a. messages \in Seq(Message) /\ TypeOK
  BY ChatFields DEF HarnessInv, IInv
<1>1. \A i \in DOMAIN messages : i \in DOMAIN messages' /\ messages'[i] = messages[i]
  BY <1>a, MessageAppended
<1>2. AboutReview(t)' = AboutReview(t)
  <2>1. CASE messages' = messages
    BY <2>1 DEF AboutReview, ReviewOf, AuthorsStay
  <2>2. ASSUME NEW m \in Message, messages' = Append(messages, m),
               \/ m.thread # t
               \/ /\ m.review = NoReview
                  /\ m.role = "assistant" /\ m.text.author \in Chat =>
                         chat'[m.text.author].review = NoReview
        PROVE  AboutReview(t)' = AboutReview(t)
    <3>1. /\ Len(messages) \in Nat
          /\ DOMAIN messages = 1 .. Len(messages)
          /\ DOMAIN messages' = 1 .. Len(messages) + 1
          /\ messages'[Len(messages) + 1] = m
      BY <1>a, <2>2, MessageAppended
    <3>2. Len(messages) + 1 \notin AboutReview(t)'
      BY <2>2, <3>1 DEF AboutReview, ReviewOf
    <3>3. \A i \in DOMAIN messages : i \in AboutReview(t)' <=> i \in AboutReview(t)
      BY <1>1 DEF AboutReview, ReviewOf, AuthorsStay
    <3>4. AboutReview(t) \subseteq DOMAIN messages /\ AboutReview(t)' \subseteq DOMAIN messages'
      BY DEF AboutReview
    <3>5. \A i : i \in AboutReview(t)' <=> i \in AboutReview(t)
      BY <3>1, <3>2, <3>3, <3>4
    <3>6. QED
      BY <3>5
  <2>3. QED
    BY <2>1, <2>2
<1>3. HasLast(AboutReview(t))'
  BY <1>2 DEF HasLast
<1>4. ToldReview(t)' = ToldReview(t)
  <2>1. CASE AboutReview(t) = {}
    BY <1>2, <2>1 DEF ToldReview
  <2>2. CASE AboutReview(t) # {}
    <3>1. PICK i \in AboutReview(t) : \A j \in AboutReview(t) : j <= i
      BY <2>2 DEF HasLast
    <3>2. AboutReview(t) \in SUBSET Nat /\ i \in DOMAIN messages
      BY <1>a, <3>1 DEF AboutReview
    <3>3. LastPlace(AboutReview(t)) = i /\ LastPlace(AboutReview(t)') = i
      BY <1>2, <3>1, <3>2, LastPlaceIs
    <3>4. ToldReview(t) = Asks(messages[i])
      BY <2>2, <3>3 DEF ToldReview, LastOf
    <3>5. ToldReview(t)' = Asks(messages[i])'
      BY <1>1, <1>2, <2>2, <3>2, <3>3 DEF ToldReview, LastOf, Asks, ReviewOf
    <3>6. Asks(messages[i])' = Asks(messages[i])
      BY <1>1, <3>2 DEF Asks, ReviewOf, AuthorsStay
    <3>7. QED
      BY <3>4, <3>5, <3>6
  <2>3. QED
    BY <2>1, <2>2
<1>5. QED
  BY <1>3, <1>4

\* The last message of all is about t's review.
LEMMA ReviewTold ==
    ASSUME HarnessInv, NEW t, NEW m \in Message, messages' = Append(messages, m),
           m.thread = t,
           \/ m.review # NoReview
           \/ /\ m.role = "assistant" /\ m.text.author \in Chat
              /\ chat'[m.text.author].review # NoReview
    PROVE  /\ HasLast(AboutReview(t))'
           /\ ToldReview(t)' = IF m.review # NoReview THEN NoReview
                               ELSE chat'[m.text.author].review
<1>a. TypeOK
  BY DEF HarnessInv, IInv
<1> DEFINE last == Len(messages) + 1
<1>1. /\ last \in Nat
      /\ DOMAIN messages' = 1 .. last
      /\ messages'[last] = m
  BY <1>a, MessageAppended
<1> HIDE DEF last
<1>2. last \in AboutReview(t)'
  BY <1>1 DEF AboutReview, ReviewOf
<1>3. AboutReview(t)' \in SUBSET Nat /\ \A j \in AboutReview(t)' : j <= last
  BY <1>1 DEF AboutReview
<1>4. LastPlace(AboutReview(t)') = last
  BY <1>2, <1>3, LastPlaceIs
<1>5. ToldReview(t)' = Asks(m)'
  BY <1>1, <1>2, <1>4 DEF ToldReview, LastOf, Asks, ReviewOf
<1>6. QED
  BY <1>1, <1>2, <1>3, <1>5 DEF HasLast, Asks, ReviewOf

\* The same of the agent that has answered last.
LEMMA AgentToldStays ==
    ASSUME HarnessInv, AuthorsStay, NEW t, HasLast(ChatAnswers(t)),
           \/ messages' = messages
           \/ \E m \in Message :
                  /\ messages' = Append(messages, m)
                  /\ m.thread # t \/ m.role # "assistant" \/ m.text.author \notin Chat
    PROVE  HasLast(ChatAnswers(t))' /\ ToldAgent(t)' = ToldAgent(t)
<1>a. messages \in Seq(Message) /\ TypeOK
  BY ChatFields DEF HarnessInv, IInv
<1>1. \A i \in DOMAIN messages : i \in DOMAIN messages' /\ messages'[i] = messages[i]
  BY <1>a, MessageAppended
<1>2. ChatAnswers(t)' = ChatAnswers(t)
  <2>1. CASE messages' = messages
    BY <2>1 DEF ChatAnswers
  <2>2. ASSUME NEW m \in Message, messages' = Append(messages, m),
               m.thread # t \/ m.role # "assistant" \/ m.text.author \notin Chat
        PROVE  ChatAnswers(t)' = ChatAnswers(t)
    <3>1. /\ Len(messages) \in Nat
          /\ DOMAIN messages = 1 .. Len(messages)
          /\ DOMAIN messages' = 1 .. Len(messages) + 1
          /\ messages'[Len(messages) + 1] = m
      BY <1>a, <2>2, MessageAppended
    <3>2. Len(messages) + 1 \notin ChatAnswers(t)'
      BY <2>2, <3>1 DEF ChatAnswers
    <3>3. \A i \in DOMAIN messages : i \in ChatAnswers(t)' <=> i \in ChatAnswers(t)
      BY <1>1 DEF ChatAnswers
    <3>4. ChatAnswers(t) \subseteq DOMAIN messages /\ ChatAnswers(t)' \subseteq DOMAIN messages'
      BY DEF ChatAnswers
    <3>5. \A i : i \in ChatAnswers(t)' <=> i \in ChatAnswers(t)
      BY <3>1, <3>2, <3>3, <3>4
    <3>6. QED
      BY <3>5
  <2>3. QED
    BY <2>1, <2>2
<1>3. HasLast(ChatAnswers(t))'
  BY <1>2 DEF HasLast
<1>4. ToldAgent(t)' = ToldAgent(t)
  <2>1. CASE ChatAnswers(t) = {}
    BY <1>2, <2>1 DEF ToldAgent
  <2>2. CASE ChatAnswers(t) # {}
    <3>1. PICK i \in ChatAnswers(t) : \A j \in ChatAnswers(t) : j <= i
      BY <2>2 DEF HasLast
    <3>2. /\ ChatAnswers(t) \in SUBSET Nat /\ i \in DOMAIN messages
          /\ messages[i].role = "assistant" /\ messages[i].text.author \in Chat
      BY <1>a, <3>1 DEF ChatAnswers
    <3>3. LastPlace(ChatAnswers(t)) = i /\ LastPlace(ChatAnswers(t)') = i
      BY <1>2, <3>1, <3>2, LastPlaceIs
    <3>4. ToldAgent(t) = chat[messages[i].text.author].agent
      BY <2>2, <3>3 DEF ToldAgent, LastOf
    <3>5. ToldAgent(t)' = chat'[messages[i].text.author].agent
      BY <1>1, <1>2, <2>2, <3>2, <3>3 DEF ToldAgent, LastOf
    <3>6. QED
      BY <3>2, <3>4, <3>5 DEF AuthorsStay
  <2>3. QED
    BY <2>1, <2>2
<1>5. QED
  BY <1>3, <1>4

LEMMA AgentTold ==
    ASSUME HarnessInv, NEW t, NEW m \in Message, messages' = Append(messages, m),
           m.thread = t, m.role = "assistant", m.text.author \in Chat
    PROVE  HasLast(ChatAnswers(t))' /\ ToldAgent(t)' = chat'[m.text.author].agent
<1>a. TypeOK
  BY DEF HarnessInv, IInv
<1> DEFINE last == Len(messages) + 1
<1>1. /\ last \in Nat
      /\ DOMAIN messages' = 1 .. last
      /\ messages'[last] = m
  BY <1>a, MessageAppended
<1> HIDE DEF last
<1>2. last \in ChatAnswers(t)'
  BY <1>1 DEF ChatAnswers
<1>3. ChatAnswers(t)' \in SUBSET Nat /\ \A j \in ChatAnswers(t)' : j <= last
  BY <1>1 DEF ChatAnswers
<1>4. LastPlace(ChatAnswers(t)') = last
  BY <1>2, <1>3, LastPlaceIs
<1>5. ToldAgent(t)' = chat'[m.text.author].agent
  BY <1>1, <1>2, <1>4 DEF ToldAgent, LastOf
<1>6. QED
  BY <1>2, <1>3, <1>5 DEF HasLast

\* The transcript is as it was, but for a message that tells nothing of t's session.
NothingTold(t) ==
    \/ messages' = messages
    \/ \E m \in Message : /\ messages' = Append(messages, m)
                          /\ m.thread # t \/ (m.review = NoReview /\ m.role = "user")

\* Nobody is at work on t's session, or its pointer is being cleared as before.
LEMMA SessionToldStays ==
    ASSUME HarnessInv, NEW t \in Thread, SessionTold(t), AuthorsStay, NothingTold(t),
           sessions'[t].review = sessions[t].review, sessions'[t].agent = sessions[t].agent,
           \A c \in Chat : ~Persisting(c, t) /\ ~Persisting(c, t)',
           \A p \in Resumer : Clearing(p, t)' <=> Clearing(p, t)
    PROVE  SessionTold(t)'
<1>1. /\ HasLast(AboutReview(t))' /\ ToldReview(t)' = ToldReview(t)
      /\ HasLast(ChatAnswers(t))' /\ ToldAgent(t)' = ToldAgent(t)
  BY ReviewToldStays, AgentToldStays DEF SessionTold, NothingTold
<1>2. (\E p \in Resumer : Clearing(p, t))' <=> \E p \in Resumer : Clearing(p, t)
  OBVIOUS
<1>3. QED
  BY <1>1, <1>2 DEF SessionTold

\* A chat that has answered keeps its review and its agent; only the chat at work
\* may not have answered yet.
LEMMA ChatKeepsAuthors ==
    ASSUME AnswersSaved, NEW c \in Chat, OnlyChat(c),
           \/ chat[c].at \notin {"save", "replied"}
           \/ chat'[c].review = chat[c].review /\ chat'[c].agent = chat[c].agent
    PROVE  AuthorsStay
BY DEF AnswersSaved, AuthorsStay, OnlyChat

LEMMA ChatSessionKept ==
    ASSUME HarnessInv, NoneExpires, AloneInv, CopyInv, SessionInv, Suspends = {},
           NEW c \in Chat, ChatStep(c)
    PROVE  SessionInv'
<1>a. /\ chat[c].at \notin {"idle", "replied"} /\ OnlyChat(c)
      /\ \A d \in Chat : d # c => chat[d].at \in {"idle", "replied"}
      /\ \A p \in Resumer : resume[p].at \in {"idle", "replied"} /\ resume'[p] = resume[p]
      /\ \A d \in Chat : d # c => chat'[d] = chat[d]
      /\ chat'[c].thread = chat[c].thread
  BY ChatStepAlone, ChatAlone DEF OnlyChat, peers
<1>b. \A t : \A p \in Resumer : ~Clearing(p, t) /\ ~Clearing(p, t)'
  BY <1>a DEF Clearing
<1>c. \A t : \A d \in Chat : d # c => ~Persisting(d, t) /\ ~Persisting(d, t)'
  BY <1>a DEF Persisting
<1>t. messages \in Seq(Message) /\ TypeOK
  BY ChatFields DEF HarnessInv, IInv
<1>1. ASSUME UNCHANGED <<messages, sessions>>,
             chat[c].at # "save", chat'[c].at # "save"
      PROVE  SessionInv'
  <2>1. AuthorsStay
    BY <1>a, <1>1, ChatKeepsAuthors DEF SessionInv
  <2>2. AnswersSaved'
    BY <1>a, <1>1 DEF SessionInv, AnswersSaved
  <2>3. \A t : ~Persisting(c, t) /\ ~Persisting(c, t)'
    BY <1>1 DEF Persisting
  <2>4. \A t \in Thread : SessionTold(t)'
    BY <1>b, <1>c, <1>1, <2>1, <2>3, SessionToldStays DEF SessionInv, NothingTold
  <2>5. QED
    BY <2>2, <2>4 DEF SessionInv
<1>2. CASE SaveUserMessage(c)
  <2> DEFINE m == ChatMessage(c, "user", chat[c].say.risky)
  <2>1. /\ chat[c].at = "user_message" /\ chat'[c].at = "load"
        /\ messages' = Append(messages, m)
        /\ UNCHANGED sessions
    BY <1>2, SaveUserMessageDoes
  <2>2. m \in Message /\ m.review = NoReview /\ m.role = "user"
    BY <2>1, CallThreads, ChatFields DEF ChatMessage, Message, Text, ChatCall, Utterances
  <2> HIDE DEF m
  <2>3. AuthorsStay
    BY <1>a, <2>1, ChatKeepsAuthors DEF SessionInv
  <2>4. AnswersSaved'
    <3>1. /\ DOMAIN messages = 1 .. Len(messages) /\ Len(messages) \in Nat
          /\ DOMAIN messages' = 1 .. Len(messages) + 1
          /\ \A i \in DOMAIN messages : messages'[i] = messages[i]
          /\ messages'[Len(messages) + 1] = m
      BY <1>t, <2>1, <2>2, MessageAppended
    <3>2. QED
      BY <1>a, <2>1, <2>2, <3>1 DEF SessionInv, AnswersSaved
  <2>5. \A t : ~Persisting(c, t) /\ ~Persisting(c, t)'
    BY <2>1 DEF Persisting
  <2>6. \A t \in Thread : SessionTold(t)'
    BY <1>b, <1>c, <2>1, <2>2, <2>3, <2>5, SessionToldStays DEF SessionInv, NothingTold
  <2>7. QED
    BY <2>4, <2>6 DEF SessionInv
<1>3. CASE SaveAssistantMessage(c)
  <2> DEFINE m == ChatMessage(c, "assistant", FALSE)
  <2>t. PICK t \in Thread : t = chat[c].thread
    BY <1>a, CallThreads
  <2>1. /\ chat[c].at = "assistant_message" /\ chat'[c].at = "save"
        /\ messages' = Append(messages, m)
        /\ OnlyGoesOn(c)
        /\ UNCHANGED sessions
    BY <1>3, SaveAssistantMessageDoes
  <2>2. /\ m \in Message /\ m.review = NoReview /\ m.thread = t
        /\ m.role = "assistant" /\ m.text.author = c
    BY <2>1, <2>t DEF ChatMessage, Message, Text
  <2> HIDE DEF m
  <2>3. AuthorsStay
    BY <1>a, <2>1, ChatKeepsAuthors DEF SessionInv
  <2>4. AnswersSaved'
    <3>1. /\ DOMAIN messages = 1 .. Len(messages) /\ Len(messages) \in Nat
          /\ DOMAIN messages' = 1 .. Len(messages) + 1
          /\ \A i \in DOMAIN messages : messages'[i] = messages[i]
          /\ messages'[Len(messages) + 1] = m
      BY <1>t, <2>1, <2>2, MessageAppended
    <3>2. QED
      BY <1>a, <2>1, <2>2, <3>1 DEF SessionInv, AnswersSaved
  <2>5. SessionTold(t)'
    <3>1. HasLast(ChatAnswers(t))' /\ ToldAgent(t)' = chat[c].agent
      BY <2>1, <2>2, AgentTold DEF OnlyGoesOn
    <3>2. ToldReview(t) = chat[c].memory.review /\ HasLast(AboutReview(t))
      <4>1. \A d \in Chat : ~Persisting(d, t)
        BY <1>c, <2>1 DEF Persisting
      <4>2. ToldReview(t) = sessions[t].review /\ HasLast(AboutReview(t))
        BY <1>b, <4>1 DEF SessionInv, SessionTold
      <4>3. QED
        BY <2>1, <2>t, <4>2 DEF CopyInv
    <3>3. /\ HasLast(AboutReview(t))'
          /\ ToldReview(t)' = IF chat[c].review # NoReview THEN chat[c].review
                              ELSE chat[c].memory.review
      <4>1. CASE chat[c].review # NoReview
        BY <2>1, <2>2, <4>1, ReviewTold DEF OnlyGoesOn
      <4>2. CASE chat[c].review = NoReview
        BY <2>1, <2>2, <2>3, <3>2, <4>2, ReviewToldStays DEF OnlyGoesOn
      <4>3. QED
        BY <4>1, <4>2
    <3>4. /\ PersistedMemory(c)'.review = ToldReview(t)'
          /\ PersistedMemory(c)'.agent = ToldAgent(t)'
      <4>1. PersistedMemory(c)' = PersistedMemory(c)
        BY <2>1 DEF PersistedMemory, OnlyGoesOn
      <4>2. QED
        BY <3>1, <3>3, <4>1, PersistedIs
    <3>5. Persisting(c, t)' /\ \A d \in Chat : d # c => ~Persisting(d, t)'
      BY <1>a, <1>c, <2>1, <2>t DEF Persisting
    <3>6. QED
      BY <3>1, <3>3, <3>4, <3>5 DEF SessionTold
  <2>6. ASSUME NEW u \in Thread, u # t
        PROVE  SessionTold(u)'
    <3>1. ~Persisting(c, u) /\ ~Persisting(c, u)'
      BY <1>a, <2>t, <2>6 DEF Persisting
    <3>2. QED
      BY <1>b, <1>c, <2>1, <2>2, <2>3, <2>6, <3>1, SessionToldStays
         DEF SessionInv, NothingTold
  <2>7. QED
    BY <2>4, <2>5, <2>6 DEF SessionInv
<1>4. CASE SaveMemory(c)
  <2>t. PICK t \in Thread : t = chat[c].thread
    BY <1>a, CallThreads
  <2>1. /\ chat[c].at = "save" /\ chat'[c].at = "replied"
        /\ chat'[c].review = chat[c].review /\ chat'[c].agent = chat[c].agent
        /\ UNCHANGED messages
    BY <1>4, SaveMemoryDoes
  <2>2. /\ sessions'[t] = PersistedMemory(c)
        /\ \A u \in Thread : u # t => sessions'[u] = sessions[u]
    BY <1>4, <2>t, ChatSaves
  <2>3. AuthorsStay
    BY <1>a, <2>1, ChatKeepsAuthors DEF SessionInv
  <2>4. AnswersSaved'
    BY <1>a, <2>1 DEF SessionInv, AnswersSaved
  <2>5. SessionTold(t)'
    <3>1. /\ Persisting(c, t)
          /\ \A d \in Chat : ~Persisting(d, t)'
      BY <1>c, <2>1, <2>t DEF Persisting
    <3>2. /\ HasLast(AboutReview(t)) /\ HasLast(ChatAnswers(t))
          /\ PersistedMemory(c).review = ToldReview(t)
          /\ PersistedMemory(c).agent = ToldAgent(t)
      BY <3>1 DEF SessionInv, SessionTold
    <3>3. /\ HasLast(AboutReview(t))' /\ ToldReview(t)' = ToldReview(t)
          /\ HasLast(ChatAnswers(t))' /\ ToldAgent(t)' = ToldAgent(t)
      <4>1. ASSUME NEW u, HasLast(AboutReview(u)), HasLast(ChatAnswers(u))
            PROVE  /\ HasLast(AboutReview(u))' /\ ToldReview(u)' = ToldReview(u)
                   /\ HasLast(ChatAnswers(u))' /\ ToldAgent(u)' = ToldAgent(u)
        BY <2>1, <2>3, <4>1, ReviewToldStays, AgentToldStays
      <4>2. QED
        BY <3>2, <4>1
    <3>4. QED
      BY <1>b, <2>2, <3>1, <3>2, <3>3 DEF SessionTold
  <2>6. ASSUME NEW u \in Thread, u # t
        PROVE  SessionTold(u)'
    <3>1. ~Persisting(c, u) /\ ~Persisting(c, u)'
      BY <1>a, <2>t, <2>6 DEF Persisting
    <3>2. QED
      BY <1>b, <1>c, <2>1, <2>2, <2>3, <2>6, <3>1, SessionToldStays
         DEF SessionInv, NothingTold
  <2>7. QED
    BY <2>4, <2>5, <2>6 DEF SessionInv
<1>5. CASE \/ LoadMemory(c) \/ ListMessages(c) \/ AgentMissing(c)
           \/ CreateHandoff(c) \/ CloseHandoff(c)
           \/ RunQueryTool(c) \/ CreateSecurityTodos(c)
           \/ \E r \in Review : RequestHumanReview(c, r)
  <2>1. /\ chat[c].at # "save" /\ chat'[c].at # "save"
        /\ UNCHANGED <<messages, sessions>>
    BY <1>5, LoadMemoryDoes, ListMessagesDoes, AgentMissingDoes, HandoffDoes, ToolDoes
  <2>2. QED
    BY <1>1, <2>1
<1>6. QED
  BY <1>2, <1>3, <1>4, <1>5, ChatStepCases

LEMMA ResumerSessionKept ==
    ASSUME HarnessInv, NoneExpires, AloneInv, CopyInv, SessionInv, Suspends = {},
           NEW p \in Resumer, ResumerDid(p)
    PROVE  SessionInv'
<1>a. /\ UNCHANGED chat
      /\ \A d \in Chat : chat[d].at \in {"idle", "replied"}
      /\ \A q \in Resumer : q # p =>
             resume[q].at \in {"idle", "replied"} /\ resume'[q] = resume[q]
  BY ResumerAtWork DEF ResumerDid, OnlyResumer
<1>b. \A t : \A d \in Chat : ~Persisting(d, t) /\ ~Persisting(d, t)'
  BY <1>a DEF Persisting
<1>c. \A t : \A q \in Resumer : q # p => ~Clearing(q, t) /\ ~Clearing(q, t)'
  BY <1>a DEF Clearing
<1>d. AuthorsStay
  BY <1>a DEF AuthorsStay
<1>t. TypeOK
  BY DEF HarnessInv, IInv
<1>1. ASSUME UNCHANGED <<messages, sessions>>,
             \A t \in Thread : Clearing(p, t)' <=> Clearing(p, t)
      PROVE  SessionInv'
  <2>1. AnswersSaved'
    BY <1>a, <1>1 DEF SessionInv, AnswersSaved
  <2>2. \A t \in Thread : SessionTold(t)'
    BY <1>b, <1>c, <1>d, <1>1, SessionToldStays DEF SessionInv, NothingTold
  <2>3. QED
    BY <2>1, <2>2 DEF SessionInv
<1>2. CASE ResumerReads(p) \/ ResumerMarks(p) \/ ResumerFinishes(p)
  BY <1>1, <1>2 DEF ResumerReads, ResumerMarks, ResumerFinishes, Clearing
<1>3. CASE ResumerLoads(p)
  BY <1>1, <1>3 DEF ResumerLoads, Clearing
<1>4. CASE ResumerAnswers(p)
  <2> DEFINE m == AnswerTo(p)
  <2>1. /\ resume[p].at = "add_message" /\ resume'[p].at = "load"
        /\ resume'[p].review = resume[p].review
        /\ messages' = Append(messages, m)
        /\ UNCHANGED <<reviews, sessions>>
    BY <1>4 DEF ResumerAnswers
  <2>2. PICK t \in Thread : t = reviews[resume[p].review].thread
    BY <2>1, CallThreads
  <2>3. /\ m \in Message /\ m.thread = t /\ m.review # NoReview
        /\ m.role = "assistant" /\ m.text.author = p
    <3>1. /\ resume[p].review \in Review
          /\ reviews[resume[p].review].status \in Final
      BY <2>1, FinalStatusIsFinal DEF HarnessInv, IInv, ResumerInv
    <3>2. reviews[resume[p].review].action \in Text
      BY <2>1, CallThreads DEF HarnessInv, IInv, ReviewInv
    <3>3. p \in Author /\ NoReview \notin Review
      BY InterruptManagerAssumption, RecordsAssumption
    <3>4. QED
      BY <2>2, <3>1, <3>2, <3>3 DEF AnswerTo, Message, Text
  <2> HIDE DEF m
  <2>4. p \notin Chat
    BY HarnessAssumption
  <2>5. AnswersSaved'
    <3>1. /\ DOMAIN messages = 1 .. Len(messages) /\ Len(messages) \in Nat
          /\ DOMAIN messages' = 1 .. Len(messages) + 1
          /\ \A i \in DOMAIN messages : messages'[i] = messages[i]
          /\ messages'[Len(messages) + 1] = m
      BY <1>t, <2>1, <2>3, MessageAppended
    <3>2. QED
      BY <1>a, <2>3, <2>4, <3>1 DEF SessionInv, AnswersSaved
  <2>6. SessionTold(t)'
    <3>1. HasLast(AboutReview(t))' /\ ToldReview(t)' = NoReview
      BY <2>1, <2>3, ReviewTold
    <3>2. sessions[t].agent = ToldAgent(t) /\ HasLast(ChatAnswers(t))
      BY <1>b DEF SessionInv, SessionTold
    <3>3. HasLast(ChatAnswers(t))' /\ ToldAgent(t)' = ToldAgent(t)
      BY <1>d, <2>1, <2>3, <2>4, <3>2, AgentToldStays
    <3>4. Clearing(p, t)'
      BY <2>1, <2>2 DEF Clearing
    <3>5. QED
      BY <1>b, <2>1, <3>1, <3>2, <3>3, <3>4 DEF SessionTold
  <2>7. ASSUME NEW u \in Thread, u # t
        PROVE  SessionTold(u)'
    <3>1. ~Clearing(p, u) /\ ~Clearing(p, u)'
      BY <2>1, <2>2, <2>7 DEF Clearing
    <3>2. NothingTold(u)
      BY <2>1, <2>3, <2>7 DEF NothingTold
    <3>3. QED
      BY <1>b, <1>c, <1>d, <2>1, <3>1, <3>2, SessionToldStays DEF SessionInv
  <2>8. QED
    BY <2>5, <2>6, <2>7 DEF SessionInv
<1>5. CASE ResumerSaves(p)
  <2>1. /\ resume[p].at = "save" /\ resume'[p].at = "replied"
        /\ UNCHANGED <<reviews, messages>>
    BY <1>5 DEF ResumerSaves
  <2>2. PICK t \in Thread : t = reviews[resume[p].review].thread
    BY <2>1, CallThreads
  <2>3. /\ sessions'[t].review = NoReview
        /\ sessions'[t].agent = sessions[t].agent
        /\ \A u \in Thread : u # t => sessions'[u] = sessions[u]
    BY <1>5, <2>2, ResumerSavesDoes
  <2>4. \A u : ~Clearing(p, u)'
    BY <2>1 DEF Clearing
  <2>5. AnswersSaved'
    BY <1>a, <2>1 DEF SessionInv, AnswersSaved
  <2>6. SessionTold(t)'
    <3>1. Clearing(p, t)
      BY <2>1, <2>2 DEF Clearing
    <3>2. /\ HasLast(AboutReview(t)) /\ HasLast(ChatAnswers(t))
          /\ sessions[t].agent = ToldAgent(t)
          /\ ToldReview(t) = NoReview
      BY <1>b, <3>1 DEF SessionInv, SessionTold
    <3>3. /\ HasLast(AboutReview(t))' /\ ToldReview(t)' = ToldReview(t)
          /\ HasLast(ChatAnswers(t))' /\ ToldAgent(t)' = ToldAgent(t)
      BY <1>d, <2>1, <3>2, ReviewToldStays, AgentToldStays
    <3>4. QED
      BY <1>b, <1>c, <2>3, <2>4, <3>2, <3>3 DEF SessionTold
  <2>7. ASSUME NEW u \in Thread, u # t
        PROVE  SessionTold(u)'
    <3>1. ~Clearing(p, u)
      BY <2>2, <2>7 DEF Clearing
    <3>2. QED
      BY <1>b, <1>c, <1>d, <2>1, <2>3, <2>4, <2>7, <3>1, SessionToldStays
         DEF SessionInv, NothingTold
  <2>8. QED
    BY <2>5, <2>6, <2>7 DEF SessionInv
<1>6. QED
  BY <1>2, <1>3, <1>4, <1>5 DEF ResumerDid

LEMMA SessionKept ==
    ASSUME HarnessInv, NoneExpires, AloneInv, CopyInv, SessionInv, Suspends = {}, HarnessNext
    PROVE  SessionInv'
<1>1. ASSUME UNCHANGED <<messages, resume, reviews>>,
             \A d \in Chat : chat[d].at \notin {"save", "replied"} \/ chat'[d] = chat[d],
             \A d \in Chat : chat[d].at # "save" /\ chat'[d].at # "save",
             \A t \in Thread : /\ sessions'[t].review = sessions[t].review
                               /\ sessions'[t].agent = sessions[t].agent
      PROVE  SessionInv'
  <2>1. AuthorsStay
    BY <1>1 DEF SessionInv, AnswersSaved, AuthorsStay
  <2>2. AnswersSaved'
    BY <1>1 DEF SessionInv, AnswersSaved
  <2>3. \A t : \A d \in Chat : ~Persisting(d, t) /\ ~Persisting(d, t)'
    BY <1>1 DEF Persisting
  <2>4. \A t : \A p \in Resumer : Clearing(p, t)' <=> Clearing(p, t)
    BY <1>1 DEF Clearing
  <2>5. \A t \in Thread : SessionTold(t)'
    BY <1>1, <2>1, <2>3, <2>4, SessionToldStays DEF SessionInv, NothingTold
  <2>6. QED
    BY <2>2, <2>5 DEF SessionInv
<1>2. CASE \E c \in Chat, t \in Thread, say \in Sayable : ReceiveChat(c, t, say)
  BY <1>1, <1>2, ReceiveDoes, NobodyAtWork DEF peers
<1>3. CASE DeciderDoes
  <2>1. /\ turn = NoOne /\ UNCHANGED <<chat, messages, sessions, resume>>
    BY <1>3 DEF DeciderDoes
  <2>2. AuthorsStay
    BY <2>1 DEF AuthorsStay
  <2>3. AnswersSaved'
    BY <2>1 DEF SessionInv, AnswersSaved
  <2>4. \A t : /\ \A d \in Chat : ~Persisting(d, t) /\ ~Persisting(d, t)'
               /\ \A p \in Resumer : ~Clearing(p, t) /\ ~Clearing(p, t)'
    BY <2>1, NobodyAtWork DEF Persisting, Clearing
  <2>5. \A t \in Thread : SessionTold(t)'
    BY <2>1, <2>2, <2>4, SessionToldStays DEF SessionInv, NothingTold
  <2>6. QED
    BY <2>3, <2>5 DEF SessionInv
<1>4. ASSUME NEW a \in Appender, AppenderDid(a)
      PROVE  SessionInv'
  <2>1. /\ UNCHANGED <<chat, messages, resume, reviews>>
        /\ \A d \in Chat : chat[d].at \in {"idle", "replied"}
    BY <1>4, AppenderAtWork DEF AppenderDid, OnlyAppender
  <2>2. \A t \in Thread : /\ sessions'[t].review = sessions[t].review
                          /\ sessions'[t].agent = sessions[t].agent
    <3>1. CASE AppenderSaves(a)
      BY <3>1, AppenderSavesDoes
    <3>2. CASE UNCHANGED sessions
      BY <3>2
    <3>3. QED
      BY <1>4, <3>1, <3>2 DEF AppenderDid, AppenderLoads
  <2>3. QED
    BY <1>1, <2>1, <2>2
<1>5. QED
  BY <1>2, <1>3, <1>4, ChatSessionKept, ResumerSessionKept, StepCases

-----------------------------------------------------------------------------
\* ActiveInv

LEMMA ActiveStays ==
    ASSUME ReviewsKept, NEW r \in Review, NEW t, ActiveFor(r, t),
           \A p \in Resumer : Resuming(p, r) => Resuming(p, r)',
           \/ reviews[r].status \notin {"pending"} \cup Decision
           \/ reviews'[r].status \in {"pending"} \cup Decision
           \/ \E p \in Resumer : Resuming(p, r)'
    PROVE  ActiveFor(r, t)'
<1>1. (\E p \in Resumer : Resuming(p, r)) => \E p \in Resumer : Resuming(p, r)'
  OBVIOUS
<1>2. QED
  BY <1>1 DEF ActiveFor, ReviewsKept

\* The sessions keep their pointers, and what they point at is still active.
LEMMA PointersStay ==
    ASSUME HarnessInv, ActiveInv, ReviewsKept,
           \A t \in Thread : sessions'[t].review \in {NoReview, sessions[t].review},
           \A t \in Thread : \A r \in Review : sessions'[t].review = r /\ r # NoReview =>
               /\ \A p \in Resumer : Resuming(p, r) => Resuming(p, r)'
               /\ \/ reviews[r].status \notin {"pending"} \cup Decision
                  \/ reviews'[r].status \in {"pending"} \cup Decision
                  \/ \E p \in Resumer : Resuming(p, r)'
    PROVE  \A t \in Thread : PointerActive(t)'
<1> SUFFICES ASSUME NEW t \in Thread, NEW r, r = sessions'[t].review, r # NoReview
             PROVE  ActiveFor(r, t)'
  BY DEF PointerActive, ActiveFor, Known, Resuming
<1>1. r = sessions[t].review /\ r \in Review
  BY ChatFields DEF Memory
<1>2. ActiveFor(r, t)
  BY <1>1 DEF ActiveInv, PointerActive
<1>3. QED
  BY <1>1, <1>2, ActiveStays

LEMMA IdleAsksNothing ==
    ASSUME HarnessInv, NEW c \in Chat, chat[c].at = "idle"
    PROVE  chat[c].review = NoReview
BY DEF HarnessInv, HandoffInv

LEMMA ChatActiveKept ==
    ASSUME HarnessInv, NoneExpires, AloneInv, CopyInv, ActiveInv, Suspends = {},
           NEW c \in Chat, ChatStep(c)
    PROVE  ActiveInv'
<1>a. /\ chat[c].at \notin {"idle", "replied"}
      /\ UNCHANGED resume
      /\ \A d \in Chat : d # c => chat'[d] = chat[d]
      /\ chat'[c].thread = chat[c].thread
  BY ChatStepAlone DEF OnlyChat, peers
<1>b. \A r : \A p \in Resumer : Resuming(p, r)' <=> Resuming(p, r)
  BY <1>a DEF Resuming
<1>c. ReviewsKept
  BY ChatKeepsReviews
<1>1. ASSUME UNCHANGED <<reviews, sessions>>, chat'[c].review = chat[c].review
      PROVE  ActiveInv'
  <2>1. \A t \in Thread : PointerActive(t)'
    BY <1>b, <1>c, <1>1, PointersStay
  <2>2. \A d \in Chat : chat'[d].at # "replied" /\ chat'[d].review # NoReview => Asked(d)'
    BY <1>a, <1>1 DEF ActiveInv, Asked
  <2>3. QED
    BY <2>1, <2>2 DEF ActiveInv
<1>2. ASSUME NEW r \in Review, CreateReview(r, chat[c].thread, chat[c].latest),
             chat'[c].review = r, UNCHANGED sessions
      PROVE  ActiveInv'
  <2>c. PICK thread, action : thread = chat[c].thread /\ CreateReview(r, thread, action)
    BY <1>2
  <2>1. /\ ~Known(r) /\ reviews'[r].status = "pending" /\ reviews'[r].thread = thread
        /\ \A s \in Review : s # r => reviews'[s] = reviews[s]
    <3>1. /\ ~Known(r)
          /\ reviews'[r] = [status |-> "pending", thread |-> thread, action |-> action]
          /\ \A s \in Review : s # r => reviews'[s] = reviews[s]
      BY <2>c, ReviewCreated
    <3>2. QED
      BY <3>1
  <2>2. \A t \in Thread : PointerActive(t)'
    BY <1>b, <1>c, <1>2, <2>1, PointersStay
  <2>3. ASSUME NEW d \in Chat, chat'[d].at # "replied", chat'[d].review # NoReview
        PROVE  Asked(d)'
    <3>1. CASE d = c
      BY <1>a, <1>2, <2>c, <2>1, <3>1 DEF Asked
    <3>2. CASE d # c
      <4>1. chat'[d] = chat[d] /\ chat[d].review \in Review
        BY <1>a, <2>3, <3>2, ChatFields DEF ChatCall
      <4>2. Asked(d)
        BY <2>3, <4>1 DEF ActiveInv
      <4>3. chat[d].review # r
        BY <2>1, <4>2 DEF Asked, Known
      <4>4. QED
        BY <2>1, <4>1, <4>2, <4>3 DEF Asked
    <3>3. QED
      BY <3>1, <3>2
  <2>4. QED
    BY <2>2, <2>3 DEF ActiveInv
<1>3. CASE SaveMemory(c)
  <2>1. /\ chat[c].at = "save" /\ chat'[c].at = "replied"
        /\ UNCHANGED reviews
    BY <1>3, SaveMemoryDoes
  <2>2. PICK t \in Thread : t = chat[c].thread
    BY <1>a, CallThreads
  <2>3. /\ sessions'[t] = PersistedMemory(c)
        /\ \A u \in Thread : u # t => sessions'[u] = sessions[u]
    BY <1>3, <2>2, ChatSaves
  <2>4. chat[c].memory.review = sessions[t].review
    BY <2>1, <2>2 DEF CopyInv
  <2>5. \A u \in Thread : \A r : ActiveFor(r, u) => ActiveFor(r, u)'
    BY <1>b, <2>1 DEF ActiveFor, Known
  <2>6. CASE chat[c].review = NoReview
    <3>1. \A u \in Thread : sessions'[u].review = sessions[u].review
      BY <2>3, <2>4, <2>6, PersistedIs
    <3>2. \A u \in Thread : PointerActive(u)'
      BY <2>5, <3>1 DEF ActiveInv, PointerActive
    <3>3. QED
      BY <1>a, <2>1, <3>2 DEF ActiveInv, Asked
  <2>7. CASE chat[c].review # NoReview
    <3>1. PICK r : r = chat[c].review
      OBVIOUS
    <3>2. sessions'[t].review = r
      BY <2>3, <2>7, <3>1, PersistedIs
    <3>3. ActiveFor(r, t)
      BY <2>1, <2>2, <2>7, <3>1 DEF ActiveInv, Asked, ActiveFor, Known
    <3>4. \A u \in Thread : PointerActive(u)'
      BY <2>3, <2>5, <3>2, <3>3 DEF ActiveInv, PointerActive
    <3>5. QED
      BY <1>a, <2>1, <3>4 DEF ActiveInv, Asked
  <2>8. QED
    BY <2>6, <2>7
<1>4. CASE \/ RunQueryTool(c) \/ CreateSecurityTodos(c)
           \/ \E r \in Review : RequestHumanReview(c, r)
  BY <1>1, <1>2, <1>4, ToolDoes
<1>5. CASE \/ SaveUserMessage(c) \/ LoadMemory(c) \/ ListMessages(c) \/ AgentMissing(c)
           \/ CreateHandoff(c) \/ CloseHandoff(c) \/ SaveAssistantMessage(c)
  BY <1>1, <1>5, SaveUserMessageDoes, LoadMemoryDoes, ListMessagesDoes, AgentMissingDoes,
     HandoffDoes, SaveAssistantMessageDoes DEF OnlyGoesOn
<1>6. QED
  BY <1>3, <1>4, <1>5, ChatStepCases

\* A review that stops being open has a resumption that will clear it.
LEMMA ActiveKept ==
    ASSUME HarnessInv, NoneExpires, AloneInv, CopyInv, ActiveInv, Suspends = {}, HarnessNext
    PROVE  ActiveInv'
<1>1. ASSUME \A d \in Chat : chat[d].at \in {"idle", "replied"},
             UNCHANGED chat,
             \A t \in Thread : PointerActive(t)'
      PROVE  ActiveInv'
  BY <1>1, IdleAsksNothing DEF ActiveInv
<1>2. ASSUME NEW c \in Chat, NEW t \in Thread, NEW say \in Sayable, ReceiveChat(c, t, say)
      PROVE  ActiveInv'
  <2>1. /\ chat[c].at = "idle" /\ chat'[c].review = chat[c].review
        /\ \A d \in Chat : d # c => chat'[d] = chat[d]
        /\ UNCHANGED <<reviews, sessions, resume>>
    BY <1>2, ReceiveDoes DEF peers
  <2>2. chat'[c].review = NoReview
    BY <2>1, IdleAsksNothing
  <2>3. \A r : \A p \in Resumer : Resuming(p, r)' <=> Resuming(p, r)
    BY <2>1 DEF Resuming
  <2>4. \A u \in Thread : PointerActive(u)'
    BY <2>1, <2>3, ReviewsUnchanged, PointersStay
  <2>5. \A d \in Chat : chat'[d].at # "replied" /\ chat'[d].review # NoReview => Asked(d)'
    BY <2>1, <2>2 DEF ActiveInv, Asked
  <2>6. QED
    BY <2>4, <2>5 DEF ActiveInv
<1>3. CASE DeciderDoes
  <2>1. /\ turn = NoOne /\ UNCHANGED <<chat, resume, sessions>>
        /\ \/ UNCHANGED reviews
           \/ \E r \in Review, status \in Decision : CanDecide(r) /\ SetStatus(r, status)
    BY <1>3 DEF DeciderDoes
  <2>2. ReviewsKept
    BY <1>3, DeciderKeepsReviews
  <2>3. \A r \in Review : reviews'[r].status = reviews[r].status
                          \/ reviews'[r].status \in Decision
    BY <2>1, ChatFields DEF SetStatus
  <2>4. \A r : \A p \in Resumer : Resuming(p, r)' <=> Resuming(p, r)
    BY <2>1 DEF Resuming
  <2>5. \A t \in Thread : PointerActive(t)'
    BY <2>1, <2>2, <2>3, <2>4, PointersStay
  <2>6. QED
    BY <1>1, <2>1, <2>5, NobodyAtWork
<1>4. ASSUME NEW p \in Resumer, ResumerDid(p)
      PROVE  ActiveInv'
  <2>a. /\ UNCHANGED chat
        /\ \A d \in Chat : chat[d].at \in {"idle", "replied"}
        /\ \A q \in Resumer : q # p => resume'[q] = resume[q]
    BY <1>4, ResumerAtWork DEF ResumerDid, OnlyResumer
  <2>b. ReviewsKept
    BY <1>4, ResumerKeepsReviews
  <2>c. \A r : \A q \in Resumer : q # p => (Resuming(q, r)' <=> Resuming(q, r))
    BY <2>a DEF Resuming
  <2>1. CASE ResumerReads(p)
    <3>1. UNCHANGED <<reviews, sessions>> /\ \A r : ~Resuming(p, r)
      BY <2>1 DEF ResumerReads, Resuming
    <3>2. \A r : \A q \in Resumer : Resuming(q, r) => Resuming(q, r)'
      BY <2>c, <3>1
    <3>3. QED
      BY <1>1, <2>a, <2>b, <3>1, <3>2, PointersStay
  <2>2. CASE ResumerMarks(p) \/ ResumerFinishes(p)
    <3>1. PICK s \in Review : s = resume[p].review
      BY <2>2, CallThreads DEF ResumerMarks, ResumerFinishes
    <3>2. /\ Resuming(p, s)' /\ \A r : r # s => ~Resuming(p, r)
          /\ UNCHANGED sessions
          /\ \E status : SetStatus(s, status)
      BY <2>2, <3>1 DEF ResumerMarks, ResumerFinishes, Resuming
    <3>3. \A r \in Review : r # s => reviews'[r] = reviews[r]
      BY <3>2, ChatFields DEF SetStatus
    <3>4. \A r : \A q \in Resumer : Resuming(q, r) => Resuming(q, r)'
      BY <2>c, <3>2
    <3>5. \A r \in Review : \/ reviews[r].status \notin {"pending"} \cup Decision
                            \/ reviews'[r].status \in {"pending"} \cup Decision
                            \/ \E q \in Resumer : Resuming(q, r)'
      BY <3>2, <3>3
    <3>6. \A t \in Thread : PointerActive(t)'
      BY <2>b, <3>2, <3>4, <3>5, PointersStay
    <3>7. QED
      BY <1>1, <2>a, <3>6
  <2>3. CASE ResumerAnswers(p) \/ ResumerLoads(p)
    <3>1. /\ UNCHANGED <<reviews, sessions>>
          /\ \A r : Resuming(p, r) => Resuming(p, r)'
      BY <2>3 DEF ResumerAnswers, ResumerLoads, Resuming
    <3>2. \A r : \A q \in Resumer : Resuming(q, r) => Resuming(q, r)'
      BY <2>c, <3>1
    <3>3. QED
      BY <1>1, <2>a, <2>b, <3>1, <3>2, PointersStay
  <2>4. CASE ResumerSaves(p)
    <3>1. UNCHANGED reviews /\ resume[p].at = "save"
      BY <2>4 DEF ResumerSaves
    <3>2. PICK t \in Thread : t = reviews[resume[p].review].thread
      BY <3>1, CallThreads
    <3>3. /\ sessions'[t].review = NoReview
          /\ \A u \in Thread : u # t => sessions'[u] = sessions[u]
      BY <2>4, <3>2, ResumerSavesDoes
    <3>4. ASSUME NEW u \in Thread, NEW r \in Review, sessions'[u].review = r, r # NoReview
          PROVE  \A q \in Resumer : Resuming(q, r) => Resuming(q, r)'
      <4>1. u # t /\ sessions[u].review = r
        BY <3>3, <3>4
      <4>2. reviews[r].thread = u
        BY <3>4, <4>1 DEF ActiveInv, PointerActive, ActiveFor
      <4>3. ~Resuming(p, r)
        BY <3>2, <4>1, <4>2 DEF Resuming
      <4>4. QED
        BY <2>c, <4>3
    <3>5. \A u \in Thread : sessions'[u].review \in {NoReview, sessions[u].review}
      BY <3>3
    <3>6. \A u \in Thread : PointerActive(u)'
      BY <2>b, <3>1, <3>4, <3>5, PointersStay
    <3>7. QED
      BY <1>1, <2>a, <3>6
  <2>5. QED
    BY <1>4, <2>1, <2>2, <2>3, <2>4 DEF ResumerDid
<1>5. ASSUME NEW a \in Appender, AppenderDid(a)
      PROVE  ActiveInv'
  <2>1. /\ UNCHANGED <<chat, reviews, resume>>
        /\ \A d \in Chat : chat[d].at \in {"idle", "replied"}
    BY <1>5, AppenderAtWork DEF AppenderDid, OnlyAppender
  <2>2. \A t \in Thread : sessions'[t].review = sessions[t].review
    <3>1. CASE AppenderSaves(a)
      BY <3>1, AppenderSavesDoes
    <3>2. CASE UNCHANGED sessions
      BY <3>2
    <3>3. QED
      BY <1>5, <3>1, <3>2 DEF AppenderDid, AppenderLoads
  <2>3. \A r : \A p \in Resumer : Resuming(p, r)' <=> Resuming(p, r)
    BY <2>1 DEF Resuming
  <2>4. \A t \in Thread : PointerActive(t)'
    BY <2>1, <2>2, <2>3, ReviewsUnchanged, PointersStay
  <2>5. QED
    BY <1>1, <2>1, <2>4
<1>6. QED
  BY <1>2, <1>3, <1>4, <1>5, ChatActiveKept, StepCases

-----------------------------------------------------------------------------
\* AnswerInv, whatever suspends

\* What is in the transcript stays where it is.
MessagesGrow ==
    \A i \in DOMAIN messages : i \in DOMAIN messages' /\ messages'[i] = messages[i]

LEMMA AnswerStays ==
    ASSUME HarnessInv, MessagesGrow, NEW d \in Chat, AnswerInv(d), chat'[d] = chat[d]
    PROVE  AnswerInv(d)'
<1>1. DOMAIN messages \subseteq DOMAIN messages'
  BY DEF MessagesGrow
<1>2. MessageAnswered(d) => MessageAnswered(d)'
  BY <1>1 DEF MessagesGrow, MessageAnswered
<1>3. QED
  BY <1>1, <1>2 DEF AnswerInv, MessagesGrow

LEMMA ChatMessageAppended ==
    ASSUME HarnessInv, NEW c \in Chat, chat[c].at \in {"user_message", "assistant_message"},
           NEW role \in {"user", "assistant"}, NEW risky \in BOOLEAN,
           messages' = Append(messages, ChatMessage(c, role, risky))
    PROVE  /\ MessagesGrow
           /\ \E i \in DOMAIN messages' :
                  /\ \A j \in DOMAIN messages : j < i
                  /\ messages'[i].text.author = c /\ messages'[i].role = role
                  /\ messages'[i].thread = chat[c].thread
<1> DEFINE m == ChatMessage(c, role, risky)
           last == Len(messages) + 1
<1>1. chat[c].thread \in Thread /\ c \in Author
  BY CallThreads, HarnessAssumption
<1>2. m \in Message /\ m.text.author = c /\ m.role = role /\ m.thread = chat[c].thread
  BY <1>1 DEF ChatMessage, Message, Text
<1>t. TypeOK
  BY DEF HarnessInv, IInv
<1> HIDE DEF m
<1>3. /\ Len(messages) \in Nat
      /\ DOMAIN messages = 1 .. Len(messages) /\ DOMAIN messages' = 1 .. last
      /\ \A i \in DOMAIN messages : messages'[i] = messages[i]
      /\ messages'[last] = m
  <2>1. messages' = Append(messages, m)
    BY DEF m
  <2>2. QED
    BY <1>2, <1>t, <2>1, MessageAppended
<1>4. last \in DOMAIN messages' /\ \A j \in DOMAIN messages : j < last
  BY <1>3
<1>5. MessagesGrow
  BY <1>3 DEF MessagesGrow
<1> HIDE DEF last
<1>6. QED
  BY <1>2, <1>3, <1>4, <1>5

\* A chat that has said something and goes on has said it still; it can only be
\* answered by getting here.
LEMMA AnswerMoves ==
    ASSUME HarnessInv, ~SessionsFail, ~RecordsFail, EveryAgentIsConfigured, Served,
           NEW c \in Chat, AnswerInv(c), ChatStep(c)
    PROVE  AnswerInv(c)' /\ MessagesGrow
<1>a. /\ chat[c] \in ChatCall /\ chat'[c].thread = chat[c].thread
      /\ chat[c].at \notin {"idle", "replied"}
  BY ChatAfterStep, ChatTyped
<1>1. ASSUME UNCHANGED messages, chat[c].at # "user_message",
             chat'[c].at \in {"save", "refresh", "replied"} => chat[c].at \in {"save", "refresh"}
      PROVE  AnswerInv(c)' /\ MessagesGrow
  <2>1. MessagesGrow
    BY <1>1 DEF MessagesGrow
  <2>2. MessageAnswered(c) => MessageAnswered(c)'
    BY <1>1 DEF MessageAnswered
  <2>3. QED
    BY <1>a, <1>1, <2>1, <2>2 DEF AnswerInv
<1>2. CASE SaveUserMessage(c)
  <2>1. /\ chat[c].at = "user_message" /\ chat'[c].at = "load"
        /\ messages' = Append(messages, ChatMessage(c, "user", chat[c].say.risky))
    BY <1>2, <1>a, ChatTyped DEF SaveUserMessage, ChatCall
  <2>2. chat[c].say.risky \in BOOLEAN
    BY <1>a DEF ChatCall, Utterances
  <2>3. /\ MessagesGrow
        /\ \E i \in DOMAIN messages' :
               /\ messages'[i].text.author = c /\ messages'[i].role = "user"
               /\ messages'[i].thread = chat[c].thread
    BY <2>1, <2>2, ChatMessageAppended
  <2>4. QED
    BY <1>a, <2>1, <2>3 DEF AnswerInv
<1>3. CASE SaveAssistantMessage(c)
  <2>1. /\ chat[c].at = "assistant_message"
        /\ messages' = Append(messages, ChatMessage(c, "assistant", FALSE))
    BY <1>3 DEF SaveAssistantMessage
  <2>2. PICK i \in DOMAIN messages : /\ messages[i].text.author = c
                                     /\ messages[i].role = "user"
                                     /\ messages[i].thread = chat[c].thread
    BY <2>1 DEF AnswerInv
  <2>3. /\ MessagesGrow
        /\ \E j \in DOMAIN messages' :
               /\ \A k \in DOMAIN messages : k < j
               /\ messages'[j].text.author = c /\ messages'[j].role = "assistant"
               /\ messages'[j].thread = chat[c].thread
    BY <2>1, ChatMessageAppended
  <2>4. PICK j \in DOMAIN messages' : /\ \A k \in DOMAIN messages : k < j
                                      /\ messages'[j].text.author = c
                                      /\ messages'[j].role = "assistant"
                                      /\ messages'[j].thread = chat[c].thread
    BY <2>3
  <2>5. i \in DOMAIN messages' /\ messages'[i] = messages[i]
    BY <2>3 DEF MessagesGrow
  <2>6. MessageAnswered(c)'
    BY <2>2, <2>4, <2>5 DEF MessageAnswered
  <2>7. \E k \in DOMAIN messages' : /\ messages'[k].text.author = c
                                    /\ messages'[k].role = "user"
                                    /\ messages'[k].thread = chat'[c].thread
    BY <1>a, <2>2, <2>5
  <2>8. QED
    BY <2>3, <2>6, <2>7 DEF AnswerInv
<1>4. ~AgentMissing(c) /\ ~ChatSessionFails(c) /\ ~ChatRecordFails(c) /\ ~TodosCutShort(c)
  <2>1. chat[c].at = "list_messages" => chat[c].agent \in Agents
    BY DEF HarnessInv, TranscriptInv
  <2>2. \A agent \in Agents : CanServe(config, agent)
    BY DEF EveryAgentIsConfigured, Served, Validate, UnknownProfile, CanServe
  <2>3. QED
    BY <2>1, <2>2 DEF AgentMissing, ChatSessionFails, ChatRecordFails, TodosCutShort
<1>5. CASE LoadMemory(c) \/ ListMessages(c) \/ CreateHandoff(c) \/ CloseHandoff(c)
  <2>1. UNCHANGED messages /\ chat[c].at # "user_message"
    BY <1>5 DEF LoadMemory, ListMessages, CreateHandoff, CloseHandoff, stores
  <2>2. chat'[c].at \notin {"save", "refresh", "replied"}
    BY <1>5, ChatTyped DEF LoadMemory, ListMessages, CreateHandoff, CloseHandoff,
                           ChatGoto, AfterTools, ChatCall
  <2>3. QED
    BY <1>1, <2>1, <2>2
<1>6. CASE \/ RunQueryTool(c) \/ CreateSecurityTodos(c)
           \/ \E r \in Review : RequestHumanReview(c, r)
  <2>1. /\ UNCHANGED messages /\ chat[c].at = "tools"
        /\ \E review : ToolDone(c, review)
    BY <1>6 DEF RunQueryTool, CreateSecurityTodos, RequestHumanReview, RunsTool, stores
  <2> DEFINE at == AfterTools(chat[c].agent, Tail(chat[c].plan))
  <2>2. at \notin {"save", "refresh", "replied"}
    BY DEF AfterTools
  <2>3. chat'[c].at = at
    BY <2>1, ChatTyped DEF ToolDone, ChatCall
  <2> HIDE DEF at
  <2>4. QED
    BY <1>1, <2>1, <2>2, <2>3
<1>7. CASE SaveMemory(c) \/ RefreshMemory(c)
  <2>1. UNCHANGED messages /\ chat[c].at \in {"save", "refresh"}
    BY <1>7 DEF SaveMemory, RefreshMemory
  <2>2. QED
    BY <1>1, <2>1
<1>8. QED
  BY <1>2, <1>3, <1>4, <1>5, <1>6, <1>7 DEF ChatStep

LEMMA AnswerKept ==
    ASSUME HarnessInv, ~SessionsFail, ~RecordsFail, EveryAgentIsConfigured, Served,
           \A d \in Chat : AnswerInv(d), [HarnessNext]_vars
    PROVE  \A d \in Chat : AnswerInv(d)'
<1>1. ASSUME NEW c \in Chat, NEW t \in Thread, NEW say \in Sayable, ReceiveChat(c, t, say)
      PROVE  \A d \in Chat : AnswerInv(d)'
  <2>1. /\ chat'[c].at = "user_message"
        /\ \A d \in Chat : d # c => chat'[d] = chat[d]
        /\ UNCHANGED messages
    BY <1>1, ChatTyped DEF ReceiveChat, Receive, ReceiveFails, stores, ChatCall
  <2>2. AnswerInv(c)'
    BY <2>1 DEF AnswerInv
  <2>3. \A d \in Chat : d # c => AnswerInv(d)'
    BY <2>1, AnswerStays DEF MessagesGrow
  <2>4. QED
    BY <2>2, <2>3
<1>2. ASSUME NEW c \in Chat, ChatStep(c)
      PROVE  \A d \in Chat : AnswerInv(d)'
  <2>1. AnswerInv(c)' /\ MessagesGrow
    BY <1>2, AnswerMoves
  <2>2. \A d \in Chat : d # c => AnswerInv(d)'
    BY <1>2, <2>1, ChatAfterStep, AnswerStays
  <2>3. QED
    BY <2>1, <2>2
<1>3. CASE ManagerNext
  <2>1. UNCHANGED <<chat, threads, tasks>>
    BY <1>3 DEF ManagerNext, chatVars
  <2>2. RecordsGrow
    BY <1>3, <2>1, ManagerGrows DEF ManagerNext, ExpiryNext
  <2>3. MessagesGrow
    BY <2>2, MessagesStay DEF MessagesGrow, HarnessInv, IInv
  <2>4. QED
    BY <2>1, <2>3, AnswerStays
<1>4. CASE FactsNext \/ UNCHANGED vars
  BY <1>4, AnswerStays DEF FactsNext, vars, managerVars, stores, chatVars, MessagesGrow
<1>5. QED
  BY <1>1, <1>2, <1>3, <1>4 DEF HarnessNext, ChatNext

-----------------------------------------------------------------------------
\* The invariant and the theorems

LEMMA SerialEstablishes == HarnessInit => SerialInv
<1> SUFFICES ASSUME HarnessInit PROVE SerialInv
  OBVIOUS
<1>1. /\ \A c \in Chat : chat[c].at = "idle" /\ chat[c].review = NoReview
      /\ \A p \in Resumer : resume[p].at = "idle"
      /\ \A a \in Appender : append[a].at = "idle" /\ append[a].reply = "none"
      /\ \A t \in Thread : lifetime[t] = "absent" /\ sessions[t] = NewMemory
      /\ messages = <<>>
  BY DEF HarnessInit, Quiet, Init, AppendInit, SessionsInit
<1>2. AloneInv /\ NoneExpires /\ CopyInv
  BY <1>1 DEF AloneInv, NoneExpires, CopyInv
<1>3. FactsInv
  BY <1>1 DEF FactsInv, FactsKept, NewMemory
<1>4. SessionInv
  <2>1. AnswersSaved
    BY <1>1 DEF AnswersSaved
  <2>2. \A t \in Thread : AboutReview(t) = {} /\ ChatAnswers(t) = {}
    BY <1>1 DEF AboutReview, ChatAnswers
  <2>3. \A t : /\ \A c \in Chat : ~Persisting(c, t)
               /\ \A p \in Resumer : ~Clearing(p, t)
    BY <1>1 DEF Persisting, Clearing
  <2>4. \A t \in Thread : sessions[t].review = NoReview /\ sessions[t].agent = "main"
    BY <1>1 DEF NewMemory
  <2>5. QED
    BY <2>1, <2>2, <2>3, <2>4 DEF SessionInv, SessionTold, HasLast, ToldReview, ToldAgent
<1>5. ActiveInv
  BY <1>1 DEF ActiveInv, PointerActive, NewMemory
<1>6. QED
  BY <1>2, <1>3, <1>4, <1>5 DEF SerialInv

LEMMA SerialStutters ==
    ASSUME HarnessInv, SerialInv, UNCHANGED vars
    PROVE  SerialInv'
<1>1. UNCHANGED <<reviews, messages, sessions, lifetime, turn, resume, append, chat>>
  BY DEF vars, managerVars, stores, chatVars
<1>2. AloneInv' /\ NoneExpires' /\ CopyInv'
  BY <1>1 DEF SerialInv, AloneInv, NoneExpires, CopyInv
<1>3. FactsInv'
  BY <1>1, FactsInvStays DEF SerialInv, FactsStay
<1>4. SessionInv'
  <2>1. AuthorsStay
    BY <1>1 DEF AuthorsStay
  <2>2. AnswersSaved'
    BY <1>1 DEF SerialInv, SessionInv, AnswersSaved
  <2>3. ASSUME NEW t \in Thread
        PROVE  SessionTold(t)'
    <3>1. /\ HasLast(AboutReview(t))' /\ ToldReview(t)' = ToldReview(t)
          /\ HasLast(ChatAnswers(t))' /\ ToldAgent(t)' = ToldAgent(t)
      BY <1>1, <2>1, ReviewToldStays, AgentToldStays DEF SerialInv, SessionInv, SessionTold
    <3>2. /\ \A c \in Chat : /\ Persisting(c, t)' <=> Persisting(c, t)
                             /\ PersistedMemory(c)' = PersistedMemory(c)
          /\ \A p \in Resumer : Clearing(p, t)' <=> Clearing(p, t)
      BY <1>1 DEF Persisting, PersistedMemory, Clearing
    <3>3. SessionTold(t)
      BY DEF SerialInv, SessionInv
    <3>4. /\ \A c \in Chat : Persisting(c, t)' =>
                 /\ PersistedMemory(c)'.review = ToldReview(t)'
                 /\ PersistedMemory(c)'.agent = ToldAgent(t)'
          /\ (\A c \in Chat : ~Persisting(c, t)') =>
                 /\ sessions'[t].agent = ToldAgent(t)'
                 /\ ToldReview(t)' = IF \E p \in Resumer : Clearing(p, t)' THEN NoReview
                                     ELSE sessions'[t].review
      BY <1>1, <3>1, <3>2, <3>3 DEF SessionTold
    <3>5. QED
      BY <3>1, <3>4 DEF SessionTold
  <2>4. QED
    BY <2>2, <2>3 DEF SessionInv
<1>5. ActiveInv'
  BY <1>1 DEF SerialInv, ActiveInv, PointerActive, ActiveFor, Asked, Known, Resuming
<1>6. QED
  BY <1>2, <1>3, <1>4, <1>5 DEF SerialInv

LEMMA SerialKept ==
    ASSUME HarnessInv, SerialInv, Suspends = {}, [HarnessNext]_vars
    PROVE  SerialInv'
<1>1. CASE HarnessNext
  BY <1>1, AloneKept, NoneExpiresKept, CopyKept, FactsInvKept, SessionKept, ActiveKept
     DEF SerialInv
<1>2. CASE UNCHANGED vars
  BY <1>2, SerialStutters
<1>3. QED
  BY <1>1, <1>2

\* What follows from calls being served one after the other.
LEMMA SerialInvariance ==
    ASSUME Suspends = {}
    PROVE  HarnessSpec => []SerialInv
<1>1. HarnessInit => SerialInv
  BY SerialEstablishes
<1>2. HarnessInv /\ SerialInv /\ [HarnessNext]_vars => SerialInv'
  BY SerialKept
<1>3. QED
  BY <1>1, <1>2, HarnessInvariance, PTL DEF HarnessSpec

\* The service goes on with what it has started with.
LEMMA ServedAlways == HarnessSpec => []Served
<1>1. HarnessInit => Served
  BY DEF HarnessInit, Served
<1>2. Served /\ [HarnessNext]_vars => Served'
  <2>1. HarnessNext => UNCHANGED config
    BY DEF HarnessNext, ChatNext, ReceiveChat, ChatStep, SaveUserMessage, LoadMemory,
           ListMessages, AgentMissing, CreateHandoff, RunQueryTool, CreateSecurityTodos,
           RequestHumanReview, CloseHandoff, SaveAssistantMessage, SaveMemory,
           RefreshMemory, ChatSessionFails, ChatRecordFails, TodosCutShort, ManagerNext,
           FactsNext, chatVars
  <2>2. QED
    BY <2>1 DEF Served, Validate, UnknownProfile, UnknownTool, DisallowedTool, vars, chatVars
<1>3. QED
  BY <1>1, <1>2, PTL DEF HarnessSpec

\* No append_fact that has been answered is undone by a chat or a resumption that
\* saves the memory it has loaded, and none is saved twice, as long as no store
\* suspends (append_fact, persist, resume_after_review).
THEOREM FactsAreKept ==
    ASSUME Suspends = {}
    PROVE  HarnessSpec => []FactsKept
<1>1. SerialInv => FactsKept
  BY DEF SerialInv, FactsInv
<1>2. QED
  BY <1>1, SerialInvariance, PTL

\* The session and the transcript are written by different steps of persist and
\* resume_after_review, but nobody sees them differ: whenever the loop is free the
\* session has the pointer and the agent that the transcript tells of.
THEOREM SessionsAgree ==
    ASSUME Suspends = {}
    PROVE  HarnessSpec => []SessionAgreesWithTranscript
<1>1. SerialInv => SessionAgreesWithTranscript
  <2> SUFFICES ASSUME SerialInv, turn = NoOne, NEW t \in Thread
               PROVE  sessions[t].review = ToldReview(t) /\ sessions[t].agent = ToldAgent(t)
    BY DEF SessionAgreesWithTranscript
  <2>1. /\ \A c \in Chat : ~Persisting(c, t)
        /\ \A p \in Resumer : ~Clearing(p, t)
    BY NobodyAtWork DEF SerialInv, Persisting, Clearing
  <2>2. QED
    BY <2>1 DEF SerialInv, SessionInv, SessionTold
<1>2. QED
  BY <1>1, SerialInvariance, PTL

\* A session is left pointing at a consumed review only while the call that has
\* consumed it is at work (persist, resume_after_review).
THEOREM QuietSessionsPointAtOpenReviews ==
    ASSUME Suspends = {}
    PROVE  HarnessSpec => []QuietSessionPointsAtOpenReview
<1>1. SerialInv => QuietSessionPointsAtOpenReview
  BY DEF SerialInv, ActiveInv, PointerActive, ActiveFor, Resuming, InFlight,
         QuietSessionPointsAtOpenReview
<1>2. QED
  BY <1>1, SerialInvariance, PTL

\* The message a chat plans by is its own.
LEMMA GateInvariance ==
    ASSUME Suspends = {}, EveryAgentMayAsk
    PROVE  HarnessSpec => [](\A c \in Chat : GateInv(c))
<1>1. HarnessInit => \A c \in Chat : GateInv(c)
  BY DEF HarnessInit, Quiet, GateInv
<1>2. /\ HarnessInv /\ SerialInv /\ Served /\ (\A c \in Chat : GateInv(c)) /\ [HarnessNext]_vars
      => (\A c \in Chat : GateInv(c))'
  <2>a. SUFFICES ASSUME HarnessInv, SerialInv, Served, \A c \in Chat : GateInv(c),
                        [HarnessNext]_vars
                 PROVE  \A c \in Chat : GateInv(c)'
    OBVIOUS
  <2>1. CASE HarnessNext
    BY <2>a, <2>1, GateKept DEF SerialInv
  <2>2. CASE UNCHANGED vars
    <3>1. UNCHANGED <<chat, tasks, messages, reviews>>
      BY <2>2 DEF vars, managerVars, stores, chatVars
    <3>2. QED
      BY <2>a, <3>1, GateStays, ReviewsUnchanged
  <2>3. QED
    BY <2>a, <2>1, <2>2
<1>3. QED
  BY <1>1, <1>2, HarnessInvariance, SerialInvariance, ServedAlways, PTL DEF HarnessSpec

\* How far the transcript has got with each chat, whichever stores suspend.
LEMMA AnswerInvariance ==
    ASSUME ~SessionsFail, ~RecordsFail, EveryAgentIsConfigured
    PROVE  HarnessSpec => [](\A c \in Chat : AnswerInv(c))
<1>1. HarnessInit => \A c \in Chat : AnswerInv(c)
  BY DEF HarnessInit, Quiet, AnswerInv
<1>2. HarnessInv /\ Served /\ (\A c \in Chat : AnswerInv(c)) /\ [HarnessNext]_vars
      => (\A c \in Chat : AnswerInv(c))'
  BY AnswerKept
<1>3. QED
  BY <1>1, <1>2, HarnessInvariance, ServedAlways, PTL DEF HarnessSpec

\* Calls run one after the other, so that each finds the stores as it has left
\* them: all that a call knows at each of its steps, taken together.
THEOREM DeployedInvariance ==
    ASSUME Suspends = {}, EveryAgentMayAsk, EveryAgentIsConfigured
    PROVE  HarnessSpec => []DeployedInv
<1>1. ~SessionsFail /\ ~RecordsFail
  BY NothingRefreshes
<1>2. /\ SerialInv /\ Served
      /\ (\A c \in Chat : GateInv(c)) /\ (\A c \in Chat : AnswerInv(c))
      => DeployedInv
  BY DEF DeployedInv
<1>3. HarnessSpec => [](\A c \in Chat : AnswerInv(c))
  BY <1>1, AnswerInvariance
<1>4. QED
  BY <1>2, <1>3, SerialInvariance, ServedAlways, GateInvariance, PTL

\* With a configuration that lets every agent ask, every high-risk request opens a
\* review of its own text and creates no task, and no other request opens one,
\* whatever else is said in the thread (_latest_message, _tool_plan).
THEOREM GateIsExact ==
    ASSUME Suspends = {}, EveryAgentMayAsk
    PROVE  HarnessSpec => []GateJudgesOwnMessage
<1>1. HarnessInv /\ (\A c \in Chat : GateInv(c)) => GateJudgesOwnMessage
  <2>a. SUFFICES ASSUME HarnessInv, \A c \in Chat : GateInv(c)
                 PROVE  GateJudgesOwnMessage
    OBVIOUS
  <2> SUFFICES ASSUME NEW c \in Chat, chat[c].reply = "200"
               PROVE  /\ (chat[c].review # NoReview) <=> chat[c].say.risky
                      /\ chat[c].review # NoReview =>
                             /\ reviews[chat[c].review].action = [author |-> c, risky |-> TRUE]
                             /\ reviews[chat[c].review].thread = chat[c].thread
                      /\ chat[c].say.risky => \A task \in tasks : task.by # c
    BY DEF GateJudgesOwnMessage
  <2>1. chat[c].say.risky \in BOOLEAN
    BY <2>a, ChatTyped DEF ChatCall, Utterances
  <2>2. chat[c].at = "replied"
    BY <2>a DEF HarnessInv, HandoffInv
  <2>3. (chat[c].review # NoReview) <=> chat[c].say.risky
    BY <2>a, <2>1 DEF GateInv
  <2>4. chat[c].review # NoReview =>
            /\ reviews[chat[c].review].action = OwnText(c)
            /\ reviews[chat[c].review].thread = chat[c].thread
    BY <2>a DEF GateInv
  <2>5. chat[c].say.risky => OwnText(c) = [author |-> c, risky |-> TRUE]
    BY <2>1 DEF OwnText
  <2>6. chat[c].say.risky => \A task \in tasks : task.by # c
    BY <2>a DEF GateInv
  <2>7. QED
    BY <2>3, <2>4, <2>5, <2>6
<1>2. QED
  BY <1>1, HarnessInvariance, GateInvariance, PTL

\* With a configuration that has every agent the router names, and stores and tools
\* that do not fail, no user message is left without an answer, whichever stores
\* suspend (chat).
THEOREM MessagesAreAnswered ==
    ASSUME ~SessionsFail, ~RecordsFail, EveryAgentIsConfigured
    PROVE  HarnessSpec => []UserMessageAnswered
<1>1. (\A c \in Chat : AnswerInv(c)) => UserMessageAnswered
  BY DEF AnswerInv, UserMessageAnswered
<1>2. QED
  BY <1>1, AnswerInvariance, PTL
=============================================================================

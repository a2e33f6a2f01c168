------------------------------- MODULE Harness -------------------------------
(***************************************************************************)
(* The backend as a whole: SecurityAgentService.chat (harness/service.py)  *)
(* with the pipeline, router, context assembler, runtime and persister it  *)
(* calls in turn, running beside the review handlers of InterruptManager   *)
(* and calls of append_fact on one event loop and over the same stores.    *)
(* Each element of Chat is one POST /chat; a client may send any number of *)
(* them to one thread before the first is answered.                        *)
(***************************************************************************)
EXTENDS InterruptManager, SessionFacts, FiniteSets

CONSTANTS
    Chat,           \* calls of POST /chat
    Sayable,        \* the utterances clients send
    Configurations  \* the agent configurations the service is started with

ASSUME HarnessAssumption ==
    /\ Chat \subseteq Author
    /\ Chat \cap (Resumer \cup Pauser \cup Appender) = {}
    /\ Appender \cap (Resumer \cup Pauser) = {}
    /\ Sayable \subseteq Utterances

VARIABLES
    config,         \* the agents.yaml the service has loaded
    threads,        \* the rows of the thread store
    tasks,          \* the task lists created: by whom, in which thread
    handoffs,       \* the handoff each chat has made
    chat            \* where each chat is, and its local variables

chatVars == <<config, threads, tasks, handoffs, chat>>
vars == <<managerVars, append, chatVars>>

\* The calls that are not chats.
peers == <<decide, resume, pause, append>>

-----------------------------------------------------------------------------

NoSay == [risky |-> FALSE, topics |-> {}, image |-> FALSE]

ChatCall ==
    [at : {"idle", "user_message", "load", "list_messages", "handoff", "tools",
           "close_handoff", "assistant_message", "save", "refresh", "replied"},
     thread : Thread \cup {NoThread}, say : Utterances, agent : Agents \cup {"none"},
     memory : Memory, latest : Text \cup {NoText}, plan : Seq(Tools),
     review : Review \cup {NoReview}, reply : {"none", "200", "500"}]

\* "lost" is a handoff that is gone with the process that kept it.
Handoff == {"none", "created", "completed", "interrupted", "lost"}

ChatTypeOK ==
    /\ threads \subseteq Thread
    /\ tasks \subseteq [thread : Thread, by : Chat]
    /\ handoffs \in [Chat -> Handoff]
    /\ chat \in [Chat -> ChatCall]

HarnessTypeOK ==
    /\ TypeOK
    /\ AppendTypeOK
    /\ config \in Configurations
    /\ ChatTypeOK

\* No call has been received.
Quiet ==
    /\ Init
    /\ AppendInit
    /\ threads = {}
    /\ tasks = {}
    /\ handoffs = [c \in Chat |-> "none"]
    /\ chat = [c \in Chat |->
            [at |-> "idle", thread |-> NoThread, say |-> NoSay, agent |-> "none",
             memory |-> NewMemory, latest |-> NoText, plan |-> <<>>,
             review |-> NoReview, reply |-> "none"]]

\* The service has been built.
HarnessInit == Quiet /\ config \in {c \in Configurations : Validate(c)}

-----------------------------------------------------------------------------
\* Steps of a chat, one per call it awaits

ChatGoto(c, here, next) ==
    /\ chat' = [chat EXCEPT ![c].at = next]
    /\ Continue(c, StoreOf(here), StoreOf(next))

\* What a call has worked with ends with it.
ChatReply(c, code) ==
    /\ chat' = [chat EXCEPT ![c].at = "replied", ![c].memory = NewMemory,
                            ![c].latest = NoText, ![c].plan = <<>>, ![c].reply = code]
    /\ Finish

\* A bug upsert_thread would have if it took a client's thread_id as known.
ReceiveUnrecorded(c, t, say) ==
    /\ chat[c].at = "idle"
    /\ turn = NoOne
    /\ chat' = [chat EXCEPT ![c].at = "user_message", ![c].thread = t, ![c].say = say]
    /\ Continue(c, "records", "records")
    /\ UNCHANGED <<stores, peers, threads, tasks, handoffs>>

\* pre_process, upsert_thread.  The thread may be new, whether the client
\* names it or leaves its naming to the store.
Receive(c, t, say) ==
    /\ chat[c].at = "idle"
    /\ turn = NoOne
    /\ threads' = threads \cup {t}
    /\ chat' = [chat EXCEPT ![c].at = "user_message", ![c].thread = t, ![c].say = say]
    /\ Continue(c, "records", "records")
    /\ UNCHANGED <<stores, peers, tasks, handoffs>>

\* upsert_thread raises.
ReceiveFails(c, t) ==
    /\ RecordsFail
    /\ chat[c].at = "idle"
    /\ turn = NoOne
    /\ chat' = [chat EXCEPT ![c].at = "replied", ![c].thread = t, ![c].reply = "500"]
    /\ UNCHANGED <<stores, turn, peers, threads, tasks, handoffs>>

\* A chat finds the service built.
ReceiveChat(c, t, say) ==
    (Receive(c, t, say) \/ ReceiveFails(c, t)) /\ UNCHANGED config

ChatMessage(c, role, risky) ==
    [thread |-> chat[c].thread, role |-> role,
     text |-> [author |-> c, risky |-> risky], review |-> NoReview, status |-> "none"]

\* pre_process saves the message; then the router, which calls no store.
SaveUserMessage(c) ==
    /\ chat[c].at = "user_message"
    /\ messages' = Append(messages, ChatMessage(c, "user", chat[c].say.risky))
    /\ chat' = [chat EXCEPT ![c].at = "load", ![c].agent = Route(chat[c].say)]
    /\ Continue(c, "records", "sessions")
    /\ UNCHANGED <<reviews, sessionVars, peers,
                   config, threads, tasks, handoffs>>

\* ContextAssembler.build
LoadMemory(c) ==
    /\ chat[c].at = "load"
    /\ chat' = [chat EXCEPT ![c].at = "list_messages",
                            ![c].memory = Load(chat[c].thread)]
    /\ Continue(c, "sessions", "records")
    /\ UNCHANGED <<stores, peers, config, threads, tasks, handoffs>>

\* A bug list_messages would have without its filter.
AllMessages(t) == DOMAIN messages

\* list_messages gives the thread's messages, here their places in the transcript.
ThreadMessages(t) == {i \in DOMAIN messages : messages[i].thread = t}

LastPlace(places) == CHOOSE i \in places : \A j \in places : j <= i

LastOf(places) == messages[LastPlace(places)]

\* What the runtime takes for the message it is asked about.
LatestMessage(t) == LastOf(ThreadMessages(t)).text

\* Where invoke stands with these tools still to run.  The main agent answers
\* itself, with no handoff to close.
AfterTools(agent, plan) ==
    IF plan # <<>> THEN "tools"
    ELSE IF agent = "main-agent" THEN "assistant_message" ELSE "close_handoff"

\* build lists the messages, and invoke plans its tools by the last of them.
ListMessages(c) ==
    LET latest == LatestMessage(chat[c].thread)
        agent  == chat[c].agent
        plan   == ConfiguredPlan(config, agent, latest.risky)
        next   == IF agent = "main-agent" THEN AfterTools(agent, plan) ELSE "handoff"
    IN
    /\ chat[c].at = "list_messages"
    /\ CanServe(config, agent)
    /\ chat' = [chat EXCEPT ![c].at = next, ![c].latest = latest, ![c].plan = plan]
    /\ Continue(c, "records", "records")
    /\ UNCHANGED <<stores, peers, config, threads, tasks, handoffs>>

\* invoke raises KeyError for an agent that is not configured.  Nothing
\* catches it, and the user's message stays.
AgentMissing(c) ==
    /\ chat[c].at = "list_messages"
    /\ ~CanServe(config, chat[c].agent)
    /\ ChatReply(c, "500")
    /\ UNCHANGED <<stores, peers, config, threads, tasks, handoffs>>

CreateHandoff(c) ==
    /\ chat[c].at = "handoff"
    /\ handoffs' = [handoffs EXCEPT ![c] = "created"]
    /\ ChatGoto(c, "handoff", AfterTools(chat[c].agent, chat[c].plan))
    /\ UNCHANGED <<stores, peers, config, threads, tasks>>

\* A bug invoke would have if it went round its loop with the same tool.
ToolStays(c, review) ==
    /\ chat' = [chat EXCEPT ![c].review = review]
    /\ Continue(c, "records", "records")

\* The handler of the first tool of the plan has run.
ToolDone(c, review) ==
    /\ chat' = [chat EXCEPT ![c].at = AfterTools(chat[c].agent, Tail(chat[c].plan)),
                            ![c].plan = Tail(chat[c].plan),
                            ![c].review = review]
    /\ Continue(c, "records", "records")

RunsTool(c, tool) ==
    /\ chat[c].at = "tools"
    /\ Head(chat[c].plan) = tool

\* search_security_knowledge, query_device_status, query_alarm_events and
\* analyze_security_object change nothing.
RunQueryTool(c) ==
    /\ \E tool \in Tools \ {"create_security_todos", "request_human_review"} :
           RunsTool(c, tool)
    /\ ToolDone(c, chat[c].review)
    /\ UNCHANGED <<stores, peers, config, threads, tasks, handoffs>>

\* create_security_todos.  Its three calls of create_task are one step, as a task
\* is told by its thread and by the chat that has created it.
CreateSecurityTodos(c) ==
    /\ RunsTool(c, "create_security_todos")
    /\ tasks' = tasks \cup {[thread |-> chat[c].thread, by |-> c]}
    /\ ToolDone(c, chat[c].review)
    /\ UNCHANGED <<stores, peers, config, threads, handoffs>>

\* request_human_review: pause_for_review, without a memory store.
RequestHumanReview(c, r) ==
    /\ RunsTool(c, "request_human_review")
    /\ CreateReview(r, chat[c].thread, chat[c].latest)
    /\ ToolDone(c, r)
    /\ UNCHANGED <<messages, sessionVars, peers,
                   config, threads, tasks, handoffs>>

\* A bug invoke would have if it closed every handoff as completed.
CloseAsCompleted(c) ==
    /\ chat[c].at = "close_handoff"
    /\ handoffs' = [handoffs EXCEPT ![c] = "completed"]
    /\ ChatGoto(c, "close_handoff", "assistant_message")
    /\ UNCHANGED <<stores, peers, config, threads, tasks>>

CloseHandoff(c) ==
    /\ chat[c].at = "close_handoff"
    /\ handoffs' = [handoffs EXCEPT ![c] =
            IF chat[c].review # NoReview THEN "interrupted" ELSE "completed"]
    /\ ChatGoto(c, "close_handoff", "assistant_message")
    /\ UNCHANGED <<stores, peers, config, threads, tasks>>

\* persist saves the answer, which quotes no message.
SaveAssistantMessage(c) ==
    /\ chat[c].at = "assistant_message"
    /\ messages' = Append(messages, ChatMessage(c, "assistant", FALSE))
    /\ ChatGoto(c, "assistant_message", "save")
    /\ UNCHANGED <<reviews, sessionVars, peers,
                   config, threads, tasks, handoffs>>

\* Bugs persist would have if it always wrote the result's review, or started
\* from a fresh memory.
PersistOwnReview(c) ==
    [chat[c].memory EXCEPT !.review = chat[c].review, !.agent = chat[c].agent]

PersistAnew(c) ==
    [NewMemory EXCEPT !.review = IF chat[c].review # NoReview THEN chat[c].review ELSE @,
                      !.agent = chat[c].agent]

\* What persist writes into the memory loaded with the context: the agent that
\* answered, and the review it has requested, if any.
PersistedMemory(c) ==
    [chat[c].memory EXCEPT
        !.review = IF chat[c].review # NoReview THEN chat[c].review ELSE @,
        !.agent = chat[c].agent]

SaveMemory(c) ==
    /\ chat[c].at = "save"
    /\ Save(chat[c].thread, PersistedMemory(c))
    /\ IF AfterSave = "refresh" THEN ChatGoto(c, "save", "refresh")
                                ELSE ChatReply(c, "200")
    /\ UNCHANGED <<reviews, messages, peers,
                   config, threads, tasks, handoffs>>

RefreshMemory(c) ==
    /\ chat[c].at = "refresh"
    /\ Refresh(chat[c].thread)
    /\ ChatReply(c, "200")
    /\ UNCHANGED <<reviews, messages, peers,
                   config, threads, tasks, handoffs>>

\* A call of the session store raises.
ChatSessionFails(c) ==
    /\ SessionsFail
    /\ chat[c].at \in {"load", "save", "refresh"}
    /\ ChatReply(c, "500")
    /\ UNCHANGED <<stores, peers, config, threads, tasks, handoffs>>

\* A tool or a call of a record store raises.  invoke has no finally, and nothing
\* catches it: a handoff that was created stays as it is.
ChatRecordFails(c) ==
    /\ RecordsFail
    /\ chat[c].at \in {"user_message", "list_messages", "handoff", "tools",
                      "close_handoff", "assistant_message"}
    /\ ChatReply(c, "500")
    /\ UNCHANGED <<stores, peers, config, threads, tasks, handoffs>>

\* create_task raises with one or two of the three tasks created.
TodosCutShort(c) ==
    /\ RecordsFail
    /\ RunsTool(c, "create_security_todos")
    /\ tasks' = tasks \cup {[thread |-> chat[c].thread, by |-> c]}
    /\ ChatReply(c, "500")
    /\ UNCHANGED <<stores, peers, config, threads, handoffs>>

\* A chat takes a step when the loop lets it run.
ChatStep(c) ==
    /\ MayRun(c)
    /\ \/ SaveUserMessage(c)
       \/ LoadMemory(c)
       \/ ListMessages(c)
       \/ AgentMissing(c)
       \/ CreateHandoff(c)
       \/ RunQueryTool(c)
       \/ CreateSecurityTodos(c)
       \/ \E r \in Review : RequestHumanReview(c, r)
       \/ CloseHandoff(c)
       \/ SaveAssistantMessage(c)
       \/ SaveMemory(c)
       \/ RefreshMemory(c)
       \/ ChatSessionFails(c)
       \/ ChatRecordFails(c)
       \/ TodosCutShort(c)

-----------------------------------------------------------------------------

ChatNext ==
    \E c \in Chat :
        \/ \E t \in Thread, say \in Sayable : ReceiveChat(c, t, say)
        \/ ChatStep(c)

\* The review handlers, and the expiry of sessions.
ManagerNext ==
    /\ DeciderNext \/ ResumerNext \/ ExpiryNext
    /\ UNCHANGED <<append, chatVars>>

FactsNext ==
    /\ AppenderNext
    /\ UNCHANGED <<reviews, messages, decide, resume, pause, chatVars>>

HarnessNext == ChatNext \/ ManagerNext \/ FactsNext

HarnessSpec == HarnessInit /\ [][HarnessNext]_vars

HarnessFairness ==
    /\ \A c \in Chat : WF_vars(ChatStep(c))
    /\ \A p \in Resumer : WF_vars(ResumeStep(p) /\ UNCHANGED <<append, chatVars>>)
    /\ \A a \in Appender : WF_vars(AppendStep(a) /\ UNCHANGED
           <<reviews, messages, decide, resume, pause, chatVars>>)

HarnessFairSpec == HarnessSpec /\ HarnessFairness

-----------------------------------------------------------------------------
\* Properties

\* A chat is gated by its own message and by no other: when it is answered,
\* it has opened a review of the very text its client sent if and only if that
\* text is high-risk, and a high-risk request has created no task
\* (_latest_message, _tool_plan, request_human_review).
GateJudgesOwnMessage ==
    \A c \in Chat : chat[c].reply = "200" =>
        /\ (chat[c].review # NoReview) <=> chat[c].say.risky
        /\ chat[c].review # NoReview =>
               /\ reviews[chat[c].review].action = [author |-> c, risky |-> TRUE]
               /\ reviews[chat[c].review].thread = chat[c].thread
        /\ chat[c].say.risky => \A task \in tasks : task.by # c

\* A high-risk request stops for its human: when it is answered it has asked
\* for a review, and has not gone on to create tasks (docs/00 section 6, docs/07
\* section 6; RiskGate, _tool_plan, _configured_tool_plan).
HighRiskWaitsForHuman ==
    \A c \in Chat : chat[c].reply = "200" /\ chat[c].say.risky =>
        /\ chat[c].review # NoReview
        /\ \A task \in tasks : task.by # c

\* What a human is asked to approve stands in the thread of the review: its
\* action is a high-risk text of that very transcript, whichever requests of
\* other threads run in between (list_messages, request_human_review).
ReviewQuotesTranscript ==
    \A r \in Review : Known(r) =>
        /\ reviews[r].action.risky
        /\ \E i \in DOMAIN messages : /\ messages[i].thread = reviews[r].thread
                                      /\ messages[i].text = reviews[r].action

\* The handoff of c, if it made one, is closed as what has happened.
Closed(c) ==
    /\ handoffs[c] # "created"
    /\ handoffs[c] # "lost" =>
           (handoffs[c] = "interrupted" <=>
                chat[c].review # NoReview /\ chat[c].agent # "main-agent")

\* A chat that was served has closed the handoff it made, as "interrupted" if a
\* human has to decide and as "completed" otherwise.  One that failed may have left
\* it open, but only where tools and record stores can raise, between its creation
\* and its closing; whatever fails after that, it is never closed as what has not
\* happened (invoke).
HandoffClosed ==
    \A c \in Chat :
        \/ chat[c].reply = "200"
        \/ chat[c].reply = "500" /\ ~RecordsFail
        \/ handoffs[c] \in {"completed", "interrupted"}
        => Closed(c)

\* Every row names a thread that has a row, the foreign keys of schema.sql:
\* no message, task, review or handoff is written ahead of its thread
\* (pre_process, and every handler that writes after it).
ForeignKeysHold ==
    /\ \A i \in DOMAIN messages : messages[i].thread \in threads
    /\ \A task \in tasks : task.thread \in threads
    /\ \A r \in Review : Known(r) => reviews[r].thread \in threads
    /\ \A c \in Chat : handoffs[c] \notin {"none", "lost"} => chat[c].thread \in threads

\* A request that has ended has an answer in its thread: the transcript shows
\* no user message that was dropped (chat).
MessageAnswered(c) ==
    \E i, j \in DOMAIN messages :
        /\ i < j
        /\ messages[i].text.author = c /\ messages[i].role = "user"
        /\ messages[j].text.author = c /\ messages[j].role = "assistant"
        /\ messages[i].thread = messages[j].thread

UserMessageAnswered == \A c \in Chat : chat[c].at = "replied" => MessageAnswered(c)

\* The only request that fails for want of configuration is one routed to an
\* agent the service has not been built with: one that has started can find the
\* model profile of every agent it has, however its files are edited and the
\* process restarted (_validate, get_model_profile, get_security_agent_service).
StartedServiceServesItsAgents ==
    [][\A c \in Chat :
           chat[c].agent # "none" /\ chat[c].reply = "none" /\ chat'[c].reply = "500" =>
               \/ SessionsFail /\ chat[c].at \in {"load", "save", "refresh"}
               \/ RecordsFail
               \/ chat[c].agent \notin DOMAIN config.agents]_vars

\* The review a message of the transcript is about: the one its chat opened, or
\* the one that was resumed.
ReviewOf(m) ==
    IF m.review # NoReview THEN m.review
    ELSE IF m.role = "assistant" /\ m.text.author \in Chat
         THEN chat[m.text.author].review
    ELSE NoReview

\* Where a thread's transcript tells of a review, and where it answers a chat.
AboutReview(t) ==
    {i \in DOMAIN messages : messages[i].thread = t /\ ReviewOf(messages[i]) # NoReview}

ChatAnswers(t) ==
    {i \in DOMAIN messages : /\ messages[i].thread = t
                             /\ messages[i].role = "assistant"
                             /\ messages[i].text.author \in Chat}

\* The review a message asks a human for: none if it tells of a resumption.
Asks(m) == IF m.review # NoReview THEN NoReview ELSE ReviewOf(m)

\* The active review and the active agent the transcript of t tells of.
ToldReview(t) ==
    IF AboutReview(t) = {} THEN NoReview ELSE Asks(LastOf(AboutReview(t)))

ToldAgent(t) ==
    IF ChatAnswers(t) = {} THEN "main"
    ELSE chat[LastOf(ChatAnswers(t)).text.author].agent

\* Between two requests the session of a thread agrees with its transcript:
\* the active review is the one the last interrupted answer asked for, unless
\* a resumption has been answered since, and the active agent is the one that
\* gave the last answer to a chat (persist, resume_after_review, append_fact).
SessionAgreesWithTranscript ==
    turn = NoOne => \A t \in Thread :
        sessions[t].review = ToldReview(t) /\ sessions[t].agent = ToldAgent(t)

\* While a review of a thread waits for its human or for its resumption, the
\* thread's session has an active review ("agent:session" of docs/03).
OpenReviewIsActive ==
    turn = NoOne => \A r \in Review :
        reviews[r].status \in {"pending"} \cup Decision =>
            sessions[reviews[r].thread].review # NoReview

\* A call in flight is at work on a thread until it has replied.
InFlight(t) ==
    \/ \E p \in Resumer : /\ resume[p].at \notin {"idle", "replied"}
                          /\ reviews[resume[p].review].thread = t
    \/ \E p \in Pauser : /\ pause[p].at \notin {"idle", "replied"}
                         /\ reviews[pause[p].review].thread = t

ChatInFlight(t) ==
    \E c \in Chat : chat[c].thread = t /\ chat[c].at # "replied"

\* Once no request is at work on a thread, its session points at no review
\* that has been consumed (persist writes the pointer it loaded, and
\* resume_after_review clears it).
QuietSessionPointsAtOpenReview ==
    \A t \in Thread :
        sessions[t].review # NoReview /\ ~InFlight(t) /\ ~ChatInFlight(t) =>
            reviews[sessions[t].review].status \in {"pending"} \cup Decision

\* Every call that is received is answered: no coroutine keeps the loop from
\* another for ever, no loop over tools fails to advance, and no call waits for
\* a status another call has taken a review to (chat, resume_after_review,
\* append_fact).
CallsAreAnswered ==
    /\ \A c \in Chat : chat[c].at # "idle" ~> chat[c].at = "replied"
    /\ \A p \in Resumer : resume[p].at # "idle" ~> resume[p].at = "replied"
    /\ \A a \in Appender : append[a].at # "idle" ~> append[a].at = "replied"

\* The words a question of the acceptance tests is routed by: a camera that
\* cannot be connected to the platform.
ConnectionQuestion == [risky |-> FALSE, topics |-> {"device"}, image |-> FALSE]

\* docs/10 wants the question why cameras fail to connect to be answered by
\* the researcher (IntentRouter.route).
ConnectionQuestionGoesToResearcher ==
    \A c \in Chat :
        chat[c].say = ConnectionQuestion =>
            chat[c].agent \in {"none", "security-researcher"}

-----------------------------------------------------------------------------
\* The inductive invariant behind ForeignKeysHold, ReviewQuotesTranscript and
\* HandoffClosed.

\* A thread that has messages has a last one.
LastMessages ==
    \A t \in Thread : ThreadMessages(t) # {} =>
        \E i \in ThreadMessages(t) : \A j \in ThreadMessages(t) : j <= i

AppendInv == \A a \in Appender : append[a].at # "idle" => append[a].thread \in Thread

\* What a chat knows at each of its steps: its thread has a row; from the time it
\* has saved its message it has an agent, and its thread a message; the text it
\* plans by stands in its thread, and has it ask for a review only if high-risk.
TranscriptInv(c) ==
    /\ chat[c].at \notin {"idle", "replied"} => chat[c].thread \in threads
    /\ chat[c].at \notin {"idle", "user_message", "replied"} => chat[c].agent \in Agents
    /\ chat[c].at \in {"load", "list_messages"} => ThreadMessages(chat[c].thread) # {}
    /\ chat[c].at \in {"handoff", "tools"} =>
           /\ \E i \in ThreadMessages(chat[c].thread) : messages[i].text = chat[c].latest
           /\ \A k \in DOMAIN chat[c].plan :
                  chat[c].plan[k] = "request_human_review" => chat[c].latest.risky
    /\ chat[c].at = "tools" => chat[c].plan # <<>>

\* Where the handoff of a chat stands at each of its steps.
HandoffInv(c) ==
    /\ chat[c].reply # "none" => chat[c].at = "replied"
    /\ chat[c].at \in {"idle", "user_message", "load", "list_messages", "handoff"} =>
           handoffs[c] = "none" /\ chat[c].review = NoReview
    /\ chat[c].at \in {"handoff", "close_handoff"} => chat[c].agent # "main-agent"
    /\ chat[c].at = "tools" =>
           handoffs[c] = IF chat[c].agent = "main-agent" THEN "none" ELSE "created"
    /\ chat[c].at = "close_handoff" => handoffs[c] = "created"
    /\ chat[c].at \in {"assistant_message", "save", "refresh"} => Closed(c)

HarnessInv ==
    /\ IInv
    /\ ChatTypeOK
    /\ AppendTypeOK
    /\ AppendInv
    /\ LastMessages
    /\ ForeignKeysHold
    /\ ReviewQuotesTranscript
    /\ HandoffClosed
    /\ \A c \in Chat : TranscriptInv(c) /\ HandoffInv(c)
=============================================================================

------------------------------- MODULE Backend -------------------------------
(***************************************************************************)
(* The life of the backend's process.  The first chat builds the service   *)
(* from agents.yaml and the skills directory as they are then              *)
(* (harness/factory.py, cached); anybody may edit them at any time.  The   *)
(* process may be killed at any await and started again, which loses what  *)
(* it keeps in memory: the calls in flight, the service, and the stores    *)
(* that are not in Suspends, the others being servers of their own.        *)
(***************************************************************************)
EXTENDS Harness

CONSTANTS
    NoService,      \* config before the service is built
    SkillDirs,      \* the contents the skills directory may have
    Environments,   \* the settings the process may be started with
    MaxRestarts     \* how often the process is restarted

ASSUME BackendAssumption ==
    /\ NoService \notin Configurations
    /\ MaxRestarts \in Nat

VARIABLES
    settings,       \* the settings the process has read
    restarts        \* how often the process has been restarted

processVars == <<settings, restarts>>
backendVars == <<vars, processVars>>

-----------------------------------------------------------------------------
\* Skills and settings

\* A SKILL.md is told by how much of its frontmatter there is, and by the
\* required fields in it.
SkillFile ==
    [frontmatter : {"none", "open", "closed"}, fields : SUBSET {"name", "description"}]

NoDirectory == [exists |-> FALSE, files |-> {}]
SkillDirectory == [exists : {TRUE}, files : SUBSET SkillFile] \cup {NoDirectory}

\* _load_skill raises for any other file.
SkillLoads(file) ==
    file.frontmatter = "closed" /\ file.fields = {"name", "description"}

\* load_skills is given up at the first file that does not load; a directory
\* that does not exist has no skills.
SkillsLoad(dir) == \A file \in dir.files : SkillLoads(file)

Dependencies ==
    {"postgresql", "redis", "milvus", "llm_base_url", "llm_api_key", "llm_model"}

Settings == [configured : SUBSET Dependencies, strict : BOOLEAN]

\* build_readiness: what /ready answers, 200 or 503.
Ready == ~settings.strict \/ settings.configured = Dependencies

\* A bug get_security_agent_service would have if it did not validate.
BuildableUnvalidated(agents, skills) == SkillsLoad(skills)

\* What get_security_agent_service can make a service of: the contents of
\* agents.yaml and of the skills directory.
Buildable(agents, skills) == Validate(agents) /\ SkillsLoad(skills)

-----------------------------------------------------------------------------

BackendTypeOK ==
    /\ config \in {agents \in Configurations : Validate(agents)} \cup {NoService}
    /\ settings \in Environments
    /\ restarts \in 0 .. MaxRestarts

BackendInit ==
    /\ Quiet
    /\ config = NoService
    /\ settings \in Environments
    /\ restarts = 0

-----------------------------------------------------------------------------
\* POST /chat at the door

ServeChat(c, t, say) ==
    /\ config # NoService
    /\ ReceiveChat(c, t, say)
    /\ UNCHANGED processVars

\* The first chat builds the service, which keeps what it has read.
ServeFirstChat(c, t, say) ==
    /\ config = NoService
    /\ \E agents \in Configurations, skills \in SkillDirs :
           Buildable(agents, skills) /\ config' = agents
    /\ Receive(c, t, say) \/ ReceiveFails(c, t)
    /\ UNCHANGED processVars

\* The service cannot be built.  lru_cache keeps no exception, so the next
\* chat tries again.
RefuseChat(c) ==
    /\ chat[c].at = "idle"
    /\ turn = NoOne
    /\ config = NoService
    /\ \E agents \in Configurations, skills \in SkillDirs : ~Buildable(agents, skills)
    /\ ChatReply(c, "500")
    /\ UNCHANGED <<stores, peers, config, threads, tasks, handoffs, processVars>>

-----------------------------------------------------------------------------
\* Restart

\* The stores whose records the process keeps in its own memory.
InMemory == Stores \ Suspends

RecordsRestarted ==
    IF "records" \in InMemory
    THEN /\ reviews' = [r \in Review |->
                IF Fresh(r) THEN NoRecord ELSE [NoRecord EXCEPT !.status = "lost"]]
         /\ messages' = <<>>
         /\ threads' = {}
         /\ tasks' = {}
         /\ handoffs' = [c \in Chat |-> IF handoffs[c] = "none" THEN "none" ELSE "lost"]
    ELSE UNCHANGED <<reviews, messages, threads, tasks, handoffs>>

SessionsRestarted ==
    IF "sessions" \in InMemory
    THEN /\ sessions' = [t \in Thread |-> NewMemory]
         /\ lifetime' = [t \in Thread |-> "absent"]
    ELSE UNCHANGED sessionVars

\* A call in flight ends without a reply.
CutOff(calls) ==
    [p \in DOMAIN calls |->
        IF calls[p].at \in {"idle", "replied"} THEN calls[p]
        ELSE [calls[p] EXCEPT !.at = "replied", !.memory = NewMemory]]

Restart ==
    /\ restarts < MaxRestarts
    /\ restarts' = restarts + 1
    /\ turn' = NoOne
    /\ config' = NoService
    /\ settings' \in Environments
    /\ chat' = CutOff(chat)
    /\ resume' = CutOff(resume)
    /\ pause' = CutOff(pause)
    /\ append' = CutOff(append)
    /\ RecordsRestarted
    /\ SessionsRestarted
    /\ UNCHANGED decide

-----------------------------------------------------------------------------

DoorNext ==
    \E c \in Chat :
        \/ \E t \in Thread, say \in Sayable :
               ServeChat(c, t, say) \/ ServeFirstChat(c, t, say)
        \/ RefuseChat(c)

\* The steps of Harness that find the service running.
RunningNext ==
    /\ (\E c \in Chat : ChatStep(c)) \/ ManagerNext \/ FactsNext
    /\ UNCHANGED processVars

BackendNext == DoorNext \/ RunningNext \/ Restart

BackendSpec == BackendInit /\ [][BackendNext]_backendVars

-----------------------------------------------------------------------------
\* Properties

\* Of a pointer kept for the thread t: it is empty, or at a review that is gone,
\* or at one of that thread.
PointsInto(t, r) ==
    \/ r = NoReview
    \/ reviews[r].status = "lost"
    \/ Known(r) /\ reviews[r].thread = t

\* A session that outlives the process never makes a review of another thread
\* the active one of its own, nor one that does not exist yet: what it points at
\* is a review of its thread, or is gone (SessionMemory.active_review_id, new_id).
SessionPointsIntoItsThread ==
    \A t \in Thread : PointsInto(t, sessions[t].review)

\* A call that has saved the session of t and not yet set its time to live.
ChatRefreshes(c, t) == chat[c].at = "refresh" /\ chat[c].thread = t
AppendRefreshes(a, t) == append[a].at = "refresh" /\ append[a].thread = t
ResumeRefreshes(p, t) ==
    resume[p].at = "refresh" /\ reviews[resume[p].review].thread = t

Refreshing(t) ==
    \/ \E c \in Chat : ChatRefreshes(c, t)
    \/ \E a \in Appender : AppendRefreshes(a, t)
    \/ \E p \in Resumer : ResumeRefreshes(p, t)

\* One whose EXPIRE raises in this step.
RefreshRaises(t) ==
    \/ \E c \in Chat : ChatRefreshes(c, t) /\ chat'[c].reply = "500"
    \/ \E a \in Appender : AppendRefreshes(a, t) /\ append'[a].reply = "error"
    \/ \E p \in Resumer : ResumeRefreshes(p, t) /\ resume'[p].reply = "500"

\* A session that nothing will ever end.
Endless(t) == lifetime[t] = "kept" /\ ~Refreshing(t)

\* A step in which the process is killed.
Kill == restarts' # restarts

\* With sessions in Redis, one is left to live for ever only in a step that ends a
\* call between its HSET and its EXPIRE, by a kill or because the EXPIRE raises;
\* no call that is answered leaves one, whichever calls save the same session
\* before or after, or find it expired (RedisSessionStore.save).
OnlyFailureLosesLifetime ==
    [][\A t \in Thread :
           Endless(t)' =>
               Endless(t) \/ RefreshRaises(t) \/ (Kill /\ Refreshing(t))]_backendVars

BeingFinished(p, r) == resume[p].at = "finish_review" /\ resume[p].review = r

\* A consumed review that no call is going to finish.
Stranded(r) == reviews[r].status = "resumed" /\ \A p \in Resumer : ~BeingFinished(p, r)

\* A handoff that its chat is not going to close.
LeftOpen(c) == handoffs[c] = "created" /\ chat[c].at \notin {"tools", "close_handoff"}

\* A decision that has been consumed is being carried out: no review waits in
\* "resumed", which no call would ever take it out of (docs/03 section 5:
\* the state machine of reviews is recoverable; resume_after_review).
ConsumedReviewIsCarriedOut == \A r \in Review : ~Stranded(r)

\* What a call has begun and not finished is given up only in a step in which the
\* process is killed, or in which that very call fails and says so: finish_review
\* raises on a review that is marked resumed, or a tool or complete_handoff raises
\* on a handoff that is open, and the client gets a 500.  No call that succeeds,
\* no failing session and no other call of the same review gives one up
\* (resume_after_review, invoke).
OnlyFailureAbandons ==
    [][/\ \A r \in Review :
              Stranded(r)' =>
                  \/ Stranded(r) \/ Kill
                  \/ /\ RecordsFail
                     /\ \E p \in Resumer :
                            BeingFinished(p, r) /\ resume'[p].reply = "500"
       /\ \A c \in Chat :
              LeftOpen(c)' =>
                  \/ LeftOpen(c) \/ Kill
                  \/ RecordsFail /\ chat[c].reply = "none" /\ chat'[c].reply = "500"
      ]_backendVars

\* A chat that was refused because no service could be built.
Refused(c) == chat[c].reply = "500" /\ chat[c].thread = NoThread

\* A service that reports to be ready does not refuse chats for want of a
\* configuration (docs/09 section 3: /ready checks the agents' configuration
\* and the model profiles; build_readiness).
ReadyServiceServes == Ready => \A c \in Chat : ~Refused(c)

-----------------------------------------------------------------------------
\* The inductive invariants behind the properties, on top of HarnessInv.

\* Behind StartedServiceServesItsAgents: no chat is at work without a service,
\* and none has been routed before it is received.
ServiceInv ==
    \A c \in Chat :
        /\ chat[c].at = "idle" => chat[c].agent = "none"
        /\ config = NoService => chat[c].at \in {"idle", "replied"}

\* Behind SessionPointsIntoItsThread: so do the copies that the calls in flight
\* will save, and the reviews that chats are about to make active.
PointerInv ==
    /\ SessionPointsIntoItsThread
    /\ \A c \in Chat :
           /\ PointsInto(chat[c].thread, chat[c].memory.review)
           /\ PointsInto(chat[c].thread, chat[c].review)
           /\ chat[c].at = "idle" => chat[c].memory.review = NoReview
    /\ \A a \in Appender : PointsInto(append[a].thread, append[a].memory.review)
    /\ \A p \in Resumer : resume[p].memory.review = NoReview
=============================================================================

------------------------------- MODULE Deployed -------------------------------
(***************************************************************************)
(* The wiring of harness/factory.py, Suspends = {}: one InMemoryStores, so *)
(* that no call of a store lets another coroutine run.  What each call     *)
(* knows at each of its steps when it is the only one at work; the         *)
(* inductive invariant behind GateJudgesOwnMessage, UserMessageAnswered,   *)
(* FactsKept, SessionAgreesWithTranscript and                              *)
(* QuietSessionPointsAtOpenReview.                                         *)
(***************************************************************************)
EXTENDS Harness

\* What the service has started with.
Served == config \in Configurations /\ Validate(config)

\* What config/agents.yaml gives every agent, and the sample of docs/04 does not.
EveryAgentMayAsk ==
    \A agents \in Configurations : Validate(agents) =>
        \A agent \in DOMAIN agents.agents :
            "request_human_review" \in agents.agents[agent].tools

\* What the router can name is configured.
EveryAgentIsConfigured ==
    \A agents \in Configurations : Validate(agents) => Agents \subseteq DOMAIN agents.agents

-----------------------------------------------------------------------------

\* A call that is at work has the loop.
AloneInv ==
    /\ \A c \in Chat : chat[c].at \notin {"idle", "replied"} => turn = c
    /\ \A p \in Resumer : resume[p].at \notin {"idle", "replied"} => turn = p
    /\ \A a \in Appender : append[a].at \notin {"idle", "replied"} => turn = a

\* A dictionary has no time to live.
NoneExpires ==
    /\ \A t \in Thread : lifetime[t] # "expiring"
    /\ \A c \in Chat : chat[c].at # "refresh"
    /\ \A p \in Resumer : resume[p].at # "refresh"
    /\ \A a \in Appender : append[a].at # "refresh"

\* A copy that has been loaded and not saved differs from the session by what its
\* call has changed.
CopyInv ==
    /\ \A c \in Chat :
           chat[c].at \in {"list_messages", "handoff", "tools", "close_handoff",
                          "assistant_message", "save"} =>
               chat[c].memory = sessions[chat[c].thread]
    /\ \A p \in Resumer :
           resume[p].at = "save" =>
               resume[p].memory =
                   [sessions[reviews[resume[p].review].thread] EXCEPT !.review = NoReview]
    /\ \A a \in Appender :
           append[a].at = "save" =>
               append[a].memory =
                   [sessions[append[a].thread] EXCEPT !.facts = Append(@, a)]

\* The text by which c is to be gated.
OwnText(c) == [author |-> c, risky |-> chat[c].say.risky]

\* The message c has saved is still the last of all when c plans by it, and what
\* c has done by then follows from it.
GateInv(c) ==
    /\ chat[c].at \in {"load", "list_messages"} =>
           /\ messages # <<>>
           /\ messages[Len(messages)].thread = chat[c].thread
           /\ messages[Len(messages)].text = OwnText(c)
    /\ chat[c].at \in {"handoff", "tools"} =>
           /\ chat[c].latest = OwnText(c)
           /\ chat[c].say.risky => chat[c].plan = <<"request_human_review">>
    /\ chat[c].review # NoReview =>
           /\ chat[c].say.risky
           /\ Known(chat[c].review)
           /\ reviews[chat[c].review].action = OwnText(c)
           /\ reviews[chat[c].review].thread = chat[c].thread
    /\ (\E task \in tasks : task.by = c) => chat[c].at # "idle" /\ ~chat[c].say.risky
    /\ /\ chat[c].say.risky
       /\ \/ chat[c].at \in {"close_handoff", "assistant_message", "save", "refresh"}
          \/ chat[c].reply = "200"
       => chat[c].review # NoReview

\* How far the transcript has got with c.
AnswerInv(c) ==
    /\ chat[c].at \notin {"idle", "user_message"} =>
           \E i \in DOMAIN messages : /\ messages[i].text.author = c
                                      /\ messages[i].role = "user"
                                      /\ messages[i].thread = chat[c].thread
    /\ chat[c].at \in {"save", "refresh", "replied"} => MessageAnswered(c)

\* No session has a fact before its append_fact has saved it.
FactsInv ==
    /\ FactsKept
    /\ \A a \in Appender : append[a].at # "replied" =>
           /\ append[a].reply = "none"
           /\ \A t \in Thread : \A i \in DOMAIN sessions[t].facts : sessions[t].facts[i] # a

\* Of these places in the transcript one is the last.
HasLast(places) == places # {} => \E i \in places : \A j \in places : j <= i

\* The review call p has answered in t, and its session does not show it yet.
Clearing(p, t) ==
    resume[p].at \in {"load", "save"} /\ reviews[resume[p].review].thread = t

\* So has chat c.
Persisting(c, t) == chat[c].at = "save" /\ chat[c].thread = t

\* Only a chat that has got this far has answered.
AnswersSaved ==
    \A i \in DOMAIN messages : \A c \in Chat :
        messages[i].role = "assistant" /\ messages[i].text.author = c =>
            chat[c].at \in {"save", "replied"}

\* The transcript of t tells what is in its session, or will be once the call at
\* work on it has saved its copy.
SessionTold(t) ==
    /\ HasLast(AboutReview(t)) /\ HasLast(ChatAnswers(t))
    /\ \A c \in Chat : Persisting(c, t) =>
           /\ PersistedMemory(c).review = ToldReview(t)
           /\ PersistedMemory(c).agent = ToldAgent(t)
    /\ (\A c \in Chat : ~Persisting(c, t)) =>
           /\ sessions[t].agent = ToldAgent(t)
           /\ ToldReview(t) = IF \E p \in Resumer : Clearing(p, t) THEN NoReview
                              ELSE sessions[t].review

SessionInv == AnswersSaved /\ \A t \in Thread : SessionTold(t)

\* Behind QuietSessionPointsAtOpenReview: an active review that is consumed is one
\* whose resumption will clear it.
Resuming(p, r) ==
    /\ resume[p].review = r
    /\ resume[p].at \in {"finish_review", "add_message", "load", "save"}

ActiveFor(r, t) ==
    /\ Known(r) /\ reviews[r].thread = t
    /\ \/ reviews[r].status \in {"pending"} \cup Decision
       \/ \E p \in Resumer : Resuming(p, r)

\* The review c has asked for, before its session shows it.
Asked(c) ==
    /\ reviews[chat[c].review].status = "pending"
    /\ reviews[chat[c].review].thread = chat[c].thread

PointerActive(t) == sessions[t].review # NoReview => ActiveFor(sessions[t].review, t)

ActiveInv ==
    /\ \A t \in Thread : PointerActive(t)
    /\ \A c \in Chat : chat[c].at # "replied" /\ chat[c].review # NoReview => Asked(c)

\* What follows from calls being served one after the other.
SerialInv ==
    /\ AloneInv
    /\ NoneExpires
    /\ CopyInv
    /\ FactsInv
    /\ SessionInv
    /\ ActiveInv

\* On top of HarnessInv.
DeployedInv ==
    /\ SerialInv
    /\ Served
    /\ \A c \in Chat : GateInv(c) /\ AnswerInv(c)
=============================================================================

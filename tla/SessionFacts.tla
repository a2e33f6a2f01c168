---------------------------- MODULE SessionFacts ----------------------------
(***************************************************************************)
(* append_fact of both session stores: it loads a thread's memory, adds a  *)
(* fact and saves the whole memory again.  Each element of Appender is one *)
(* call, a coroutine of the event loop beside those that load and save the *)
(* same memory.  The protocol of stores/protocols.py offers it; the tests  *)
(* of the stores are its only callers yet.                                 *)
(***************************************************************************)
EXTENDS SessionStore

CONSTANT Appender   \* calls of append_fact

ASSUME SessionFactsAssumption == Appender \subseteq Author

VARIABLE append     \* where each appender is, and its local variables

AppendCall ==
    [at : {"idle", "save", "refresh", "replied"}, thread : Thread \cup {NoThread},
     memory : Memory, reply : {"none", "done", "error"}]

AppendTypeOK == append \in [Appender -> AppendCall]

AppendInit ==
    append = [a \in Appender |->
        [at |-> "idle", thread |-> NoThread, memory |-> NewMemory, reply |-> "none"]]

AppendReply(a, reply) ==
    /\ append' = [append EXCEPT ![a] =
            [at |-> "replied", thread |-> @.thread, memory |-> NewMemory, reply |-> reply]]
    /\ Finish

\* load, and the fact appended to the copy that was loaded.
AppendLoad(a, t) ==
    /\ append[a].at = "idle"
    /\ turn = NoOne
    /\ append' = [append EXCEPT ![a] =
            [at |-> "save", thread |-> t,
             memory |-> [Load(t) EXCEPT !.facts = Append(@, a)], reply |-> "none"]]
    /\ Continue(a, "sessions", "sessions")
    /\ UNCHANGED sessionVars

AppendSave(a) ==
    /\ append[a].at = "save"
    /\ MayRun(a)
    /\ Save(append[a].thread, append[a].memory)
    /\ IF AfterSave = "refresh"
       THEN /\ append' = [append EXCEPT ![a].at = "refresh"]
            /\ Continue(a, "sessions", "sessions")
       ELSE AppendReply(a, "done")

AppendRefresh(a) ==
    /\ append[a].at = "refresh"
    /\ MayRun(a)
    /\ Refresh(append[a].thread)
    /\ AppendReply(a, "done")

\* A call of the session store raises; one whose load raises has done nothing.
AppendFails(a) ==
    /\ SessionsFail
    /\ append[a].at \in {"save", "refresh"}
    /\ MayRun(a)
    /\ AppendReply(a, "error")
    /\ UNCHANGED sessionVars

AppendStep(a) == AppendSave(a) \/ AppendRefresh(a) \/ AppendFails(a)

AppenderNext ==
    \E a \in Appender : (\E t \in Thread : AppendLoad(a, t)) \/ AppendStep(a)

-----------------------------------------------------------------------------

\* A fact that was appended stays: whoever loads and saves the memory of its
\* thread from then on, persist or resume_after_review or another append_fact,
\* saves it again, and once (append_fact).
FactsKept ==
    \A a \in Appender : append[a].reply = "done" =>
        \E i \in DOMAIN sessions[append[a].thread].facts :
            \A j \in DOMAIN sessions[append[a].thread].facts :
                sessions[append[a].thread].facts[j] = a <=> j = i
=============================================================================

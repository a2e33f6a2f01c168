---------------------------- MODULE SessionStore ----------------------------
(***************************************************************************)
(* The short-term memory of each thread.  With "sessions" in Suspends this *)
(* is RedisSessionStore (stores/redis/session.py): a hash per thread,      *)
(* written whole by HSET and then given its time to live by a second       *)
(* command, EXPIRE.  Otherwise it is the dictionary of InMemoryStores,     *)
(* whose load returns the live object; nothing runs between a load and its *)
(* save then, so a copy and the live object cannot be told apart.          *)
(***************************************************************************)
EXTENDS EventLoop, Records, AgentPolicy

VARIABLES
    sessions,       \* the SessionMemory of each thread
    lifetime        \* each session's key: absent, kept for ever, or expiring

sessionVars == <<sessions, lifetime>>

\* SessionMemory: its active review, its important facts, each known by the
\* call that appended it, and the agent that answered last.  recent_summary is
\* written by nothing; last_intent is written with active_agent and says as much.
Memory ==
    [review : Review \cup {NoReview}, facts : Seq(Author), agent : Agents \cup {"main"}]

NewMemory == [review |-> NoReview, facts |-> <<>>, agent |-> "main"]

SessionsInit ==
    /\ sessions = [t \in Thread |-> NewMemory]
    /\ lifetime = [t \in Thread |-> "absent"]

\* A key that is absent loads as a fresh SessionMemory.
Load(t) == sessions[t]

\* HSET writes every field of the hash, and leaves the time to live of an
\* existing key alone.
Save(t, memory) ==
    /\ sessions' = [sessions EXCEPT ![t] = memory]
    /\ lifetime' = [lifetime EXCEPT ![t] = IF @ = "expiring" THEN @ ELSE "kept"]

\* A bug save would have without its EXPIRE.
NoRefresh(t) == UNCHANGED sessionVars

\* EXPIRE; it does nothing to a key that is absent.
Refresh(t) ==
    /\ lifetime' = [lifetime EXCEPT ![t] = IF @ = "absent" THEN @ ELSE "expiring"]
    /\ UNCHANGED sessions

\* The time to live of 14 days runs out.
Expire(t) ==
    /\ lifetime[t] = "expiring"
    /\ sessions' = [sessions EXCEPT ![t] = NewMemory]
    /\ lifetime' = [lifetime EXCEPT ![t] = "absent"]

\* The store call after a save: Redis alone has one.
AfterSave == IF "sessions" \in Suspends THEN "refresh" ELSE "reply"
=============================================================================

------------------------------ MODULE EventLoop ------------------------------
(***************************************************************************)
(* The scheduling every handler of the backend runs under.  All handlers   *)
(* are coroutines of one asyncio event loop, so a coroutine keeps the loop *)
(* until it awaits something that really suspends: awaiting an async       *)
(* method that never suspends itself, as those of InMemoryStores, does     *)
(* not let anything else run.  Suspends names the stores whose calls do    *)
(* suspend:                                                                *)
(*   {}                        the wiring of harness/factory.py, where all *)
(*                             stores are one InMemoryStores;              *)
(*   {"sessions"}              RedisSessionStore as the short-term memory; *)
(*   {"records", "sessions"}   any implementation of the protocols of      *)
(*                             stores/protocols.py, all of them async.     *)
(***************************************************************************)
CONSTANTS
    Suspends,       \* the stores whose calls suspend the caller
    SessionsFail,   \* whether calls of the session store may raise
    RecordsFail,    \* whether those of the other stores, and the tools, may raise
    NoOne           \* a value that is no coroutine

VARIABLE turn       \* the coroutine the loop is running, NoOne at a suspension

Stores == {"records", "sessions"}

\* An in-memory dictionary neither suspends nor fails, and what the tools ask
\* today is local too.  Sessions kept in memory beside suspending record stores
\* are a wiring nothing plans.
ASSUME EventLoopAssumption ==
    /\ Suspends \subseteq Stores
    /\ "records" \in Suspends => "sessions" \in Suspends
    /\ SessionsFail \in BOOLEAN
    /\ SessionsFail => "sessions" \in Suspends
    /\ RecordsFail \in BOOLEAN
    /\ RecordsFail => "records" \in Suspends

MayRun(p) == turn \in {NoOne, p}

\* p has made a call to the store `here` and goes on to call the store `next`.
Continue(p, here, next) ==
    turn' = IF {here, next} \cap Suspends = {} THEN p ELSE NoOne

\* A coroutine answers its client.
Finish == turn' = NoOne
=============================================================================

--------------------------- MODULE ReviewLifecycle ---------------------------
(***************************************************************************)
(* What the human-in-the-loop review promises, and nothing of how it is    *)
(* done: a review is opened, decided once, carried out once according to   *)
(* that decision, and its thread is told the outcome once.  The state      *)
(* machine of docs/07 without the state "resumed", in which a decision is  *)
(* consumed and not carried out yet, and without "expired", which no code  *)
(* assigns.                                                                *)
(***************************************************************************)
CONSTANT Review     \* review identifiers

VARIABLES
    outcome,        \* where each review stands
    answered        \* the reviews whose outcome has been told to their thread

lifecycleVars == <<outcome, answered>>

\* What a human decided, and what carrying out that decision leads to.
Decision == {"approved", "rejected"}
ResultOf(decision) == IF decision = "approved" THEN "completed" ELSE "cancelled"

LifecycleInit ==
    /\ outcome = [r \in Review |-> "absent"]
    /\ answered = {}

Open(r) ==
    /\ outcome[r] = "absent"
    /\ outcome' = [outcome EXCEPT ![r] = "pending"]
    /\ UNCHANGED answered

Decide(r, decision) ==
    /\ outcome[r] = "pending"
    /\ outcome' = [outcome EXCEPT ![r] = decision]
    /\ UNCHANGED answered

CarryOut(r) ==
    /\ outcome[r] \in Decision
    /\ outcome' = [outcome EXCEPT ![r] = ResultOf(outcome[r])]
    /\ UNCHANGED answered

Answer(r) ==
    /\ outcome[r] \in {"completed", "cancelled"}
    /\ r \notin answered
    /\ answered' = answered \cup {r}
    /\ UNCHANGED outcome

LifecycleNext ==
    \E r \in Review :
        \/ Open(r)
        \/ \E decision \in Decision : Decide(r, decision)
        \/ CarryOut(r)
        \/ Answer(r)

LifecycleSpec == LifecycleInit /\ [][LifecycleNext]_lifecycleVars
=============================================================================

------------------------- MODULE OperationLifecycle -------------------------
(***************************************************************************)
(* What the operation queue promises its clients: accepted operations run  *)
(* one at a time, in the order they were accepted, each ends once, and an  *)
(* operation leaves the queue early only by being cancelled.               *)
(* This is the lifecycle state machine at the head of                      *)
(* engine/solidifai_engine/operations.py with the queue in front of it;    *)
(* OperationQueue implements it.                                           *)
(***************************************************************************)
EXTENDS Integers, FiniteSets

CONSTANTS Ops

Terminal == {"succeeded", "failed", "cancelled", "timed_out"}
Live == {"running", "publishing"}

VARIABLES
    state,   \* lifecycle state of each operation; "new" is not accepted yet
    ticket   \* order of acceptance

lifecycleVars == <<state, ticket>>

Queued == {o \in Ops : state[o] = "queued"}
Accepted == Cardinality({o \in Ops : state[o] # "new"})

Init ==
    /\ state = [o \in Ops |-> "new"]
    /\ ticket = [o \in Ops |-> 0]

\* Operations in S leave the queue cancelled.
Cancelled(S) == [o \in Ops |-> IF o \in S THEN "cancelled" ELSE state[o]]

\* o is accepted behind everything accepted before, in place of those in S.
Accept(o, S) ==
    /\ state[o] = "new" /\ S \subseteq Queued
    /\ state' = [Cancelled(S) EXCEPT ![o] = "queued"]
    /\ ticket' = [ticket EXCEPT ![o] = Accepted + 1]

Withdraw(S) ==
    /\ S \subseteq Queued
    /\ state' = Cancelled(S)
    /\ UNCHANGED ticket

\* The oldest queued operation gets the writer when nobody holds it.
Begin(o) ==
    /\ o \in Queued
    /\ \A q \in Queued : ticket[o] <= ticket[q]
    /\ \A x \in Ops : state[x] \notin Live
    /\ state' = [state EXCEPT ![o] = "running"]
    /\ UNCHANGED ticket

Publish(o) ==
    /\ state[o] \in Live
    /\ state' = [state EXCEPT ![o] = "publishing"]
    /\ UNCHANGED ticket

End(o, final) ==
    /\ state[o] \in Live
    /\ state' = [state EXCEPT ![o] = final]
    /\ UNCHANGED ticket

Next ==
    \/ \E o \in Ops : \E S \in SUBSET Queued : Accept(o, S)
    \/ \E S \in SUBSET Queued : Withdraw(S)
    \/ \E o \in Ops : Begin(o) \/ Publish(o)
    \/ \E o \in Ops, final \in Terminal : End(o, final)

Spec == Init /\ [][Next]_lifecycleVars
=============================================================================

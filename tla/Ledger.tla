------------------------------- MODULE Ledger -------------------------------
(***************************************************************************)
(* What the event trail promises, without streams, deliveries or retries:  *)
(* a request that happened is recorded at most once and counted at most    *)
(* once, and nothing that did not happen is either.                        *)
(***************************************************************************)
EXTENDS Naturals, FiniteSets

CONSTANT Requests   \* request ids

VARIABLES
    happened,   \* requests of which the platform emitted the fact
    recorded,   \* requests with a row in audit_log
    counted,    \* requests that were metered
    usage       \* what the customer is billed for

vars == <<happened, recorded, counted, usage>>

Init ==
    /\ happened = {} /\ recorded = {} /\ counted = {}
    /\ usage = 0

Happen(r) ==
    /\ happened' = happened \cup {r}
    /\ UNCHANGED <<recorded, counted, usage>>

Record(r) ==
    /\ r \in happened \ recorded
    /\ recorded' = recorded \cup {r}
    /\ UNCHANGED <<happened, counted, usage>>

Count(r) ==
    /\ r \in happened \ counted
    /\ counted' = counted \cup {r}
    /\ usage' = usage + 1
    /\ UNCHANGED <<happened, recorded>>

Next == \E r \in Requests : Happen(r) \/ Record(r) \/ Count(r)

Spec == Init /\ [][Next]_vars
=============================================================================

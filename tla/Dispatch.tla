------------------------------ MODULE Dispatch ------------------------------
(***************************************************************************)
(* What the block promises a caller, without gates, bus, envelopes, clocks *)
(* or secrets: who calls is found out once; the operation is performed     *)
(* only for a role that may, an rpc at most once and a command at most     *)
(* max_deliver times; the caller gets one answer, and it is true.          *)
(***************************************************************************)
EXTENDS Roles

CONSTANTS
    Calls,      \* the dispatches under way
    RequestId,  \* RequestId[c]: shared by the calls of one batch
    Rule,       \* Rule[o]: the OperationRule of operation o
    Reads,      \* the operations that write nothing
    MaxDeliver  \* max_deliver of a durable consumer

VARIABLES
    request,    \* request[c]: what the caller asked for, [op, named]
    role,       \* role[c]: who the caller is, Nobody until that is known
    outcome,    \* outcome[c]: what the caller has been told
    performed,  \* performed[c]: how often the handler's writes were made
    recorded    \* calls with an event of their own

vars == <<request, role, outcome, performed, recorded>>

Nobody == "not identified"

IsRpc(c) == Rule[request[c].op].transport = "rpc"

\* The caller may do this, and hands out no role above their own.
Permitted(c) ==
    /\ role[c] \in ORG_ROLES
    /\ ROLE_RANK[role[c]] >= ROLE_RANK[Rule[request[c].op].minRole]
    /\ request[c].named # NoRole =>
          request[c].named \in ORG_ROLES /\ ROLE_RANK[request[c].named] <= ROLE_RANK[role[c]]

\* How often the operation may be performed.
Times(c) == IF IsRpc(c) THEN 1 ELSE MaxDeliver

Recorded(c) == \E d \in recorded : RequestId[d] = RequestId[c]

Init ==
    /\ role = [c \in Calls |-> Nobody]
    /\ outcome = [c \in Calls |-> "open"]
    /\ performed = [c \in Calls |-> 0]
    /\ recorded = {}

\* The session lookup; it may already end the call.
Identify(c) ==
    /\ role[c] = Nobody
    /\ outcome[c] = "open"
    /\ \E r \in ORG_ROLES : role' = [role EXCEPT ![c] = r]
    /\ \E o \in {"open", "refused", "unknown"} : outcome' = [outcome EXCEPT ![c] = o]
    /\ UNCHANGED <<request, performed, recorded>>

\* The handler's writes, also after the caller has given up - but never after
\* a refusal.
Perform(c) ==
    /\ Permitted(c)
    /\ outcome[c] # "refused"
    /\ performed[c] < Times(c)
    /\ performed' = [performed EXCEPT ![c] = @ + 1]
    /\ UNCHANGED <<request, role, outcome, recorded>>

Record(c) ==
    /\ performed[c] > 0
    /\ recorded' = recorded \cup {c}
    /\ UNCHANGED <<request, role, outcome, performed>>

\* The caller's one answer.
Tell(c, what) ==
    /\ outcome[c] = "open"
    /\ role[c] # Nobody
    /\ outcome' = [outcome EXCEPT ![c] = what]
    /\ UNCHANGED <<request, role, performed, recorded>>

\* A caller is refused what was not done; the result of a read may be lost.
Refuse(c) == (performed[c] = 0 \/ request[c].op \in Reads) /\ Tell(c, "refused")

Confirm(c) ==
    /\ IsRpc(c)
    /\ performed[c] = 1
    /\ Rule[request[c].op].audit => Recorded(c)
    /\ Tell(c, "OK")

Accept(c) == ~IsRpc(c) /\ Permitted(c) /\ Tell(c, "ACCEPTED")

\* Nobody knows: INTERNAL or SERVICE_UNAVAILABLE.
Doubt(c) == Tell(c, "unknown")

Next ==
    \E c \in Calls :
        \/ Identify(c) \/ Perform(c) \/ Record(c)
        \/ Refuse(c) \/ Confirm(c) \/ Accept(c) \/ Doubt(c)

Spec == Init /\ [][Next]_vars
=============================================================================

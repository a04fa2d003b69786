------------------------------ MODULE PlanGate ------------------------------
(***************************************************************************)
(* The plan gate of dispatch over time: the gateway's entitlements cache   *)
(* (apps/web/src/gateway/deps.ts), the billing service behind it           *)
(* (packages/billing/src/autumn.adapter.ts), the gate itself (gate 6 of    *)
(* packages/guardrail/src/gateway.ts) and the meter that counts what the   *)
(* gate let through.                                                       *)
(*                                                                         *)
(* One organisation and one resource.  A call is suspended while it waits  *)
(* for the billing service and while its own service executes it; every    *)
(* gateway process has a cache of its own.  Autumn is external: it holds   *)
(* the plan, which a checkout changes, and the count the meter reports.    *)
(***************************************************************************)
EXTENDS Registry

CONSTANTS
    Calls,          \* the calls of the organisation's members
    Gateways,       \* the gateway's processes
    Resource,       \* the resource looked at
    Ops,            \* its operations called
    Plans,          \* the plans the organisation may be on
    InitialUsage,   \* what Autumn may have counted so far
    TTL,            \* TTL_MS in ticks
    Timeout,        \* timeoutMs of the billing request in ticks
    MaxChanges,     \* bound: plan changes
    MaxTime         \* bound: last tick

ASSUME RegistryAssumption ==
    /\ Resource \in RESOURCE_KEYS
    /\ Ops \subseteq operationsOf(Resource)
    /\ Plans \subseteq PLAN_KEYS

ASSUME TimeAssumption == TTL \in Nat \ {0} /\ Timeout \in Nat /\ MaxTime \in Nat

ASSUME BoundAssumption == MaxChanges \in Nat

ASSUME UsageAssumption == InitialUsage \subseteq Nat

VARIABLES
    now,        \* time in ticks
    plan,       \* the plan Autumn has for the organisation
    usage,      \* the units Autumn has counted
    changes,    \* how often the plan changed
    held,       \* history: held[t], the entitlements held at some moment of tick t
    cache,      \* cache[g]: the entry of gateway g, or NoEntry
    call,       \* call[c]: where dispatch is suspended
    reply,      \* reply[c]: what the billing service read for c
    created,    \* the rows there are
    unmetered   \* creations whose event the meter has not consumed

vars == <<now, plan, usage, changes, held, cache, call, reply, created, unmetered>>

autumnVars  == <<now, plan, usage, changes, held>>
serviceVars == <<created, unmetered>>

-----------------------------------------------------------------------------
(* Values *)

NoEntry == [none |-> "entry"]
NoReply == [none |-> "reply"]
Idle    == [pc |-> "idle"]
Finished == [pc |-> "finished"]

\* readPlan and readUsage on Autumn's customer.
Entitled(p, n) == [plan |-> p, usage |-> [r \in {Resource} |-> n]]

Current == Entitled(plan, usage)

consumes(op) == ruleFor(Resource, op).consumes

allowed(entitlements) == checkResourceAccess(Resource, entitlements, 1).allowed

Init ==
    /\ now = 0
    /\ plan \in Plans
    /\ usage \in InitialUsage
    /\ changes = 0
    /\ held = [t \in 0..MaxTime |-> IF t = 0 THEN {Current} ELSE {}]
    /\ cache = [g \in Gateways |-> NoEntry]
    /\ call = [c \in Calls |-> Idle]
    /\ reply = [c \in Calls |-> NoReply]
    /\ created = usage
    /\ unmetered = 0

-----------------------------------------------------------------------------
(* The gateway *)

\* Gate 6: only an operation that consumes is held against the plan.
Gate(c, op, entitlements, degraded) ==
    call' = [call EXCEPT ![c] =
        [pc |-> IF consumes(op) /\ ~allowed(entitlements) THEN "refused" ELSE "executing",
         op |-> op, degraded |-> degraded]]

Live(entry) == entry # NoEntry /\ entry.expiresAt > now

\* Slip: a hit renews the entry.
HitRenews(c, g, op) ==
    /\ call[c] = Idle
    /\ Live(cache[g])
    /\ Gate(c, op, cache[g].value, FALSE)
    /\ cache' = [cache EXCEPT ![g].expiresAt = now + TTL]
    /\ UNCHANGED <<autumnVars, reply, serviceVars>>

\* entitlements, a live entry: no await, the call goes straight through the gate.
Hit(c, g, op) ==
    /\ call[c] = Idle
    /\ Live(cache[g])
    /\ Gate(c, op, cache[g].value, FALSE)
    /\ UNCHANGED <<autumnVars, cache, reply, serviceVars>>

\* entitlements, no live entry: the billing service is asked.
Miss(c, g, op) ==
    /\ call[c] = Idle
    /\ ~Live(cache[g])
    /\ call' = [call EXCEPT ![c] =
          [pc |-> "asking", gateway |-> g, op |-> op, deadline |-> now + Timeout]]
    /\ UNCHANGED <<autumnVars, cache, reply, serviceVars>>

\* The answer is cached for TTL from its arrival, over whatever is there.
Receive(c) ==
    /\ call[c].pc = "asking"
    /\ reply[c] # NoReply
    /\ cache' = [cache EXCEPT ![call[c].gateway] =
                    [value |-> reply[c], expiresAt |-> now + TTL]]
    /\ Gate(c, call[c].op, reply[c], FALSE)
    /\ reply' = [reply EXCEPT ![c] = NoReply]
    /\ UNCHANGED <<autumnVars, serviceVars>>

\* Slip: the degraded answer is cached like a real one.
DegradeAndCache(c) ==
    /\ call[c].pc = "asking"
    /\ cache' = [cache EXCEPT ![call[c].gateway] =
                    [value |-> EMPTY_ENTITLEMENTS, expiresAt |-> now + TTL]]
    /\ Gate(c, call[c].op, EMPTY_ENTITLEMENTS, TRUE)
    /\ reply' = [reply EXCEPT ![c] = NoReply]
    /\ UNCHANGED <<autumnVars, serviceVars>>

\* Billing refused, was unreachable or did not answer in time: the call alone
\* is served on nothing, and an answer that comes later finds nobody.
Degrade(c) ==
    /\ call[c].pc = "asking"
    /\ Gate(c, call[c].op, EMPTY_ENTITLEMENTS, TRUE)
    /\ reply' = [reply EXCEPT ![c] = NoReply]
    /\ UNCHANGED <<autumnVars, cache, serviceVars>>

-----------------------------------------------------------------------------
(* The services *)

\* billing.read: getEntitlements asks Autumn, whose answer is the truth of now.
BillingReads(c) ==
    /\ call[c].pc = "asking"
    /\ reply[c] = NoReply
    /\ reply' = [reply EXCEPT ![c] = Current]
    /\ UNCHANGED <<autumnVars, cache, call, serviceVars>>

\* The owning service executes the call, or fails without a write.  A creation
\* is on its way to the meter; nothing tells the meter of a deletion.
Execute(c) ==
    /\ call[c].pc = "executing"
    /\ call' = [call EXCEPT ![c] = Finished]
    /\ \/ /\ call[c].op = "create"
          /\ created' = created + 1
          /\ unmetered' = unmetered + 1
       \/ /\ call[c].op = "delete" /\ created > 0
          /\ created' = created - 1
          /\ UNCHANGED unmetered
       \/ UNCHANGED serviceVars
    /\ UNCHANGED <<autumnVars, cache, reply>>

\* A snapshot of Autumn joins the history of its tick.
Held(p, n) == held' = [held EXCEPT ![now] = @ \cup {Entitled(p, n)}]

\* The meter consumes a creation's event.
Meter ==
    /\ unmetered > 0
    /\ unmetered' = unmetered - 1
    /\ usage' = usage + 1
    /\ Held(plan, usage + 1)
    /\ UNCHANGED <<now, plan, changes, cache, call, reply, created>>

\* ... or the event was never emitted, was dropped or ran out of deliveries.
MeterLost ==
    /\ unmetered > 0
    /\ unmetered' = unmetered - 1
    /\ UNCHANGED <<autumnVars, cache, call, reply, created>>

-----------------------------------------------------------------------------
(* Autumn and the clock *)

\* A checkout completes, a subscription ends.
ChangePlan ==
    /\ changes < MaxChanges
    /\ \E p \in Plans \ {plan} : plan' = p /\ Held(p, usage)
    /\ changes' = changes + 1
    /\ UNCHANGED <<now, usage, cache, call, reply, serviceVars>>

\* The timer of a billing request is punctual.
Tick ==
    /\ now < MaxTime
    /\ \A c \in Calls : call[c].pc = "asking" => now < call[c].deadline
    /\ now' = now + 1
    /\ held' = [held EXCEPT ![now + 1] = {Current}]
    /\ UNCHANGED <<plan, usage, changes, cache, call, reply, serviceVars>>

Dispatch(c) ==
    \/ \E g \in Gateways, op \in Ops : Hit(c, g, op) \/ Miss(c, g, op)
    \/ Receive(c) \/ Degrade(c)

Next ==
    \/ \E c \in Calls : Dispatch(c) \/ BillingReads(c) \/ Execute(c)
    \/ Meter \/ MeterLost \/ ChangePlan \/ Tick

Spec == Init /\ [][Next]_vars

-----------------------------------------------------------------------------
(* Properties *)

Snapshots == [plan : Plans, usage : [{Resource} -> Nat]]

TypeOK ==
    /\ now \in 0..MaxTime
    /\ plan \in Plans
    /\ usage \in Nat /\ created \in Nat /\ unmetered \in Nat
    /\ changes \in 0..MaxChanges
    /\ held \in [0..MaxTime -> SUBSET Snapshots]
    /\ cache \in [Gateways -> [value : Snapshots, expiresAt : Nat] \cup {NoEntry}]
    /\ reply \in [Calls -> Snapshots \cup {NoReply}]
    /\ call \in [Calls -> {Idle, Finished}
            \cup [pc : {"asking"}, gateway : Gateways, op : Ops, deadline : Nat]
            \cup [pc : {"executing", "refused"}, op : Ops, degraded : BOOLEAN]]

\* What Autumn held in the ticks from..to.
HeldIn(from, to) == UNION {held[t] : t \in from..to \cap 0..MaxTime}

\* An entry of a cache is what Autumn held at most one billing request before
\* the entry was made - whichever of two overlapping requests is answered last,
\* and however often billing was down in between (a degraded answer is not
\* cached).
CacheIsRecent ==
    \A g \in Gateways : cache[g] # NoEntry =>
        LET made == cache[g].expiresAt - TTL
        IN  cache[g].value \in HeldIn(made - Timeout, made)

\* c passes the gate, or is refused by it, in this step.
Gated(c) ==
    /\ call[c].pc \in {"idle", "asking"}
    /\ call'[c].pc \in {"executing", "refused"}
    /\ consumes(call'[c].op)

\* The gate's answer is the right one for a plan and a count Autumn held less
\* than TTL and one billing request ago.
Justified(c, since) ==
    \E e \in HeldIn(since, now) : call'[c].pc = "executing" <=> allowed(e)

\* No call is let through or refused on older entitlements, unless billing gave
\* no answer: a full organisation is refused, and a paying one served, at the
\* latest TTL and one billing request after it filled up or paid.
DecisionsAreRecent ==
    [][\A c \in Calls : Gated(c) /\ ~call'[c].degraded =>
            Justified(c, now - TTL - Timeout + 1)]_vars
=============================================================================

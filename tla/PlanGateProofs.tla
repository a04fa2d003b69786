---------------------------- MODULE PlanGateProofs ----------------------------
(***************************************************************************)
(* The plan gate never decides on older entitlements than it may: for any  *)
(* number of calls and of gateway processes, any plans, any counts, any    *)
(* lifetime of a cache entry and any timeout of the billing request.       *)
(***************************************************************************)
EXTENDS PlanGate, TLAPS

-----------------------------------------------------------------------------
(* The table of limits *)

LEMMA Plans3 ==
    /\ PLAN_KEYS = {"free", "pro", "scale"}
    /\ planRank("free") = 0 /\ planRank("pro") = 1 /\ planRank("scale") = 2
  BY DEF PLAN_KEYS, PLANS, planRank

\* limit b allows whatever limit a does.
AtLeast(b, a) == b = Unlimited \/ a = NotInPlan \/ (a \in Nat /\ b \in Nat /\ a <= b)

LEMMA LimitsGrow ==
    ASSUME NEW resource \in RESOURCE_KEYS
    PROVE  /\ AtLeast(limitFor(resource, "pro"), limitFor(resource, "free"))
           /\ limitFor(resource, "scale") = Unlimited
           /\ \A p \in PLAN_KEYS : limitFor(resource, p) \in Nat \cup {Unlimited, NotInPlan}
  <1>1. resource \in {"organization", "membership", "project", "member", "invitation", "billing",
                     "auditLog"}
    BY DEF RESOURCE_KEYS, RESOURCES
  <1>2. CASE resource \in {"organization", "membership", "project"}
    BY <1>2, Plans3 DEF RESOURCES, OrganizationResource, MembershipResource, ProjectResource, Limits,
       limitFor, AtLeast, Unlimited, NotInPlan
  <1>3. CASE resource \in {"member", "invitation", "billing", "auditLog"}
    BY <1>3, Plans3 DEF RESOURCES, MemberResource, InvitationResource, BillingResource,
       AuditLogResource, Limits, limitFor, AtLeast, Unlimited, NotInPlan
  <1> QED
    BY <1>1, <1>2, <1>3

\* What the gate asks of a limit.
Fits(limit, used, requested) == limit = Unlimited \/ (limit \in Nat /\ used + requested <= limit)

LEMMA GateFits ==
    ASSUME NEW resource \in RESOURCE_KEYS, NEW e, e.plan \in PLAN_KEYS,
           Used(resource, e) \in Nat, NEW requested \in Nat
    PROVE  LET d == checkResourceAccess(resource, e, requested)
           IN  /\ d.allowed <=> Fits(limitFor(resource, e.plan), Used(resource, e), requested)
               /\ ~d.allowed => d.nextPlan = nextPlanAfter(e.plan)
  <1> DEFINE limit == limitFor(resource, e.plan)
             used  == Used(resource, e)
  <1>1. limit \in Nat \cup {Unlimited, NotInPlan}
    BY LimitsGrow
  <1>2. CASE limit = NotInPlan
    BY <1>2 DEF checkResourceAccess, Fits, NotInPlan, Unlimited
  <1>3. CASE limit = Unlimited
    BY <1>3 DEF checkResourceAccess, Fits, NotInPlan, Unlimited
  <1>4. CASE limit \in Nat /\ used + requested > limit
    BY <1>4 DEF checkResourceAccess, Fits, NotInPlan, Unlimited
  <1>5. CASE limit \in Nat /\ ~(used + requested > limit)
    BY <1>5 DEF checkResourceAccess, Fits, NotInPlan, Unlimited
  <1> QED
    BY <1>1, <1>2, <1>3, <1>4, <1>5

\* An upgrade never takes away what the gate let through: of any two plans the
\* higher one allows, at the same usage, whatever the lower one allows
\* (checkResourceAccess over the registry's own table).
THEOREM UpgradesOnlyAdd ==
    ASSUME NEW resource \in RESOURCE_KEYS, NEW e, NEW f, Used(resource, e) \in Nat,
           e.plan \in PLAN_KEYS, f.plan \in PLAN_KEYS, planRank(e.plan) <= planRank(f.plan),
           Used(resource, f) = Used(resource, e), NEW requested \in Nat,
           checkResourceAccess(resource, e, requested).allowed
    PROVE  checkResourceAccess(resource, f, requested).allowed
  <1>1. Fits(limitFor(resource, e.plan), Used(resource, e), requested)
    BY GateFits
  <1>2. e.plan = f.plan \/ f.plan = "scale" \/ (e.plan = "free" /\ f.plan = "pro")
    BY Plans3
  <1>3. Fits(limitFor(resource, f.plan), Used(resource, e), requested)
    BY <1>1, <1>2, LimitsGrow DEF Fits, AtLeast, Unlimited, NotInPlan
  <1> QED
    BY <1>3, GateFits

\* Whoever the gate refuses can do something about it: a refusal names the plan
\* to upgrade to, one above their own (nextPlanAfter and the gateway's
\* UPGRADE_REQUIRED).
THEOREM RefusalsNameAPlan ==
    ASSUME NEW resource \in RESOURCE_KEYS, NEW e, Used(resource, e) \in Nat,
           e.plan \in PLAN_KEYS, NEW requested \in Nat,
           ~checkResourceAccess(resource, e, requested).allowed
    PROVE  LET next == checkResourceAccess(resource, e, requested).nextPlan
           IN  next \in PLAN_KEYS /\ planRank(next) > planRank(e.plan)
  <1>1. ~Fits(limitFor(resource, e.plan), Used(resource, e), requested)
    BY GateFits
  <1>2. e.plan # "scale"
    BY <1>1, LimitsGrow DEF Fits
  <1> DEFINE above == {p \in PLAN_KEYS : planRank(p) > planRank(e.plan)}
  <1>3. "scale" \in above
    BY <1>2, Plans3
  <1>4. \E p \in above : \A q \in above : planRank(p) <= planRank(q)
    <2>1. CASE "pro" \in above
      BY <2>1, Plans3
    <2>2. CASE "pro" \notin above
      BY <1>3, <2>2, Plans3
    <2> QED
      BY <2>1, <2>2
  <1>5. nextPlanAfter(e.plan) = CHOOSE p \in above : \A q \in above : planRank(p) <= planRank(q)
    BY <1>3 DEF nextPlanAfter
  <1>6. nextPlanAfter(e.plan) \in above
    BY <1>4, <1>5
  <1> QED
    BY <1>6, GateFits

-----------------------------------------------------------------------------
(* The inductive invariant *)

Times == 0..MaxTime

\* v was held in one of the ticks a..b of a history h.
Within(h, v, a, b) == \E t \in Times : a <= t /\ t <= b /\ v \in h[t]

\* Autumn's state is part of the history of its tick.
HistoryInv == Current \in held[now]

\* A request is younger than its timeout, and its answer as young as itself.
RequestsInv ==
    \A c \in Calls :
        /\ reply[c] # NoReply => call[c].pc = "asking"
        /\ call[c].pc = "asking" =>
              /\ call[c].deadline <= now + Timeout
              /\ now <= call[c].deadline
              /\ reply[c] # NoReply =>
                   Within(held, reply[c], call[c].deadline - Timeout, now)

\* An entry was made in the past, of an answer as young as its request.
EntriesInv ==
    \A g \in Gateways : cache[g] # NoEntry =>
        /\ cache[g].expiresAt <= now + TTL
        /\ Within(held, cache[g].value, cache[g].expiresAt - TTL - Timeout,
                  cache[g].expiresAt - TTL)

Inv == TypeOK /\ HistoryInv /\ RequestsInv /\ EntriesInv

LEMMA Numbers ==
    ASSUME TypeOK
    PROVE  /\ now \in Nat /\ now <= MaxTime /\ now \in Times
           /\ \A c \in Calls : call[c].pc = "asking" =>
                call[c].deadline \in Nat /\ call[c].gateway \in Gateways /\ call[c].op \in Ops
           /\ \A g \in Gateways : cache[g] # NoEntry =>
                cache[g].expiresAt \in Nat /\ cache[g].value \in Snapshots
  BY TimeAssumption DEF TypeOK, Times, Idle, Finished

LEMMA CurrentIsASnapshot ==
    ASSUME NEW p \in Plans, NEW n \in Nat
    PROVE  Entitled(p, n) \in Snapshots
  BY DEF Entitled, Snapshots

LEMMA EntryIsNone ==
    ASSUME NEW v, NEW n
    PROVE  [value |-> v, expiresAt |-> n] # NoEntry
  <1>1. "value" \in DOMAIN [value |-> v, expiresAt |-> n]
    OBVIOUS
  <1>2. "value" \notin DOMAIN NoEntry
    BY DEF NoEntry
  <1> QED
    BY <1>1, <1>2

LEMMA Widen ==
    ASSUME NEW h, NEW v, NEW a \in Int, NEW b \in Int, NEW c \in Int, NEW d \in Int,
           c <= a, b <= d, Within(h, v, a, b)
    PROVE  Within(h, v, c, d)
  BY TimeAssumption DEF Within, Times

LEMMA InitInv == Init => Inv
  <1> SUFFICES ASSUME Init PROVE Inv
    OBVIOUS
  <1>1. plan \in Plans /\ usage \in Nat /\ Current \in Snapshots
    BY UsageAssumption, CurrentIsASnapshot DEF Init, Current
  <1>2. TypeOK
    BY <1>1, TimeAssumption, BoundAssumption DEF Init, TypeOK
  <1>3. HistoryInv
    BY TimeAssumption DEF Init, HistoryInv
  <1> QED
    BY <1>2, <1>3 DEF Init, Inv, RequestsInv, EntriesInv, Idle

-----------------------------------------------------------------------------
(* The steps *)

\* Autumn's own steps add what it holds now to the history of now.
LEMMA AutumnKeeps ==
    ASSUME Inv, UNCHANGED <<now, cache, call, reply>>, plan' \in Plans, usage' \in Nat,
           created' \in Nat, unmetered' \in Nat, changes' \in 0..MaxChanges,
           held' = [held EXCEPT ![now] = @ \cup {Entitled(plan', usage')}]
    PROVE  Inv'
  <1>1. now \in Times /\ now \in Nat /\ held \in [Times -> SUBSET Snapshots]
    BY Numbers DEF Inv, TypeOK, Times
  <1>2. Current' \in Snapshots /\ Current' = Entitled(plan', usage')
    BY CurrentIsASnapshot DEF Current, Entitled
  <1>3. /\ held' \in [Times -> SUBSET Snapshots]
        /\ Current' \in held'[now]
        /\ \A t \in Times : t <= now => held[t] \subseteq held'[t]
    BY <1>1, <1>2
  <1>4. TypeOK'
    BY <1>3 DEF Inv, TypeOK, Times
  <1>5. ASSUME NEW v, NEW a, NEW b \in Int, b <= now, Within(held, v, a, b)
           PROVE  Within(held', v, a, b)
    <2>1. PICK t \in Times : a <= t /\ t <= b /\ v \in held[t]
      BY <1>5 DEF Within
    <2>2. t <= now
      BY <1>1, <1>5, <2>1, TimeAssumption DEF Times
    <2> QED
      BY <1>3, <2>1, <2>2 DEF Within
  <1>6. RequestsInv'
    <2> SUFFICES ASSUME NEW c \in Calls, call[c].pc = "asking", reply[c] # NoReply
                 PROVE  Within(held', reply[c], call[c].deadline - Timeout, now)
      BY DEF Inv, RequestsInv
    <2>1. Within(held, reply[c], call[c].deadline - Timeout, now)
      BY DEF Inv, RequestsInv
    <2>2. now \in Int /\ now <= now
      BY <1>1
    <2> QED
      BY <1>5, <2>1, <2>2
  <1>7. EntriesInv'
    <2> SUFFICES ASSUME NEW g \in Gateways, cache[g] # NoEntry
                 PROVE  Within(held', cache[g].value, cache[g].expiresAt - TTL - Timeout,
                               cache[g].expiresAt - TTL)
      BY DEF Inv, EntriesInv
    <2>1. /\ Within(held, cache[g].value, cache[g].expiresAt - TTL - Timeout,
                    cache[g].expiresAt - TTL)
          /\ cache[g].expiresAt - TTL \in Int /\ cache[g].expiresAt - TTL <= now
      BY <1>1, Numbers, TimeAssumption DEF Inv, EntriesInv
    <2> QED
      BY <1>5, <2>1
  <1> QED
    BY <1>3, <1>4, <1>6, <1>7 DEF Inv, HistoryInv

LEMMA TickKeeps == ASSUME Inv, Tick PROVE Inv'
  <1>1. /\ now \in Times /\ now \in Nat /\ held \in [Times -> SUBSET Snapshots]
        /\ now' = now + 1 /\ now' \in Times
        /\ UNCHANGED <<plan, usage, changes, cache, call, reply, created, unmetered>>
        /\ held' = [held EXCEPT ![now + 1] = {Current}]
    BY Numbers, TimeAssumption DEF Inv, TypeOK, Times, Tick, serviceVars
  <1>2. Current \in Snapshots /\ Current' = Current
    BY <1>1, CurrentIsASnapshot DEF Current, Entitled, Inv, TypeOK
  <1>3. /\ held' \in [Times -> SUBSET Snapshots]
        /\ Current' \in held'[now']
        /\ \A t \in Times : t <= now => held[t] \subseteq held'[t]
    BY <1>1, <1>2, TimeAssumption DEF Times
  <1>4. TypeOK'
    BY <1>1, <1>3 DEF Inv, TypeOK, Times
  <1>5. ASSUME NEW v, NEW a, NEW b \in Int, b <= now, Within(held, v, a, b)
           PROVE  Within(held', v, a, b)
    <2>1. PICK t \in Times : a <= t /\ t <= b /\ v \in held[t]
      BY <1>5 DEF Within
    <2>2. t <= now
      BY <1>1, <1>5, <2>1, TimeAssumption DEF Times
    <2> QED
      BY <1>3, <2>1, <2>2 DEF Within
  <1>6. RequestsInv'
    <2> SUFFICES ASSUME NEW c \in Calls, call[c].pc = "asking"
                 PROVE  /\ call[c].deadline <= now + 1 + Timeout
                        /\ now + 1 <= call[c].deadline
                        /\ reply[c] # NoReply =>
                             Within(held', reply[c], call[c].deadline - Timeout, now + 1)
      BY <1>1 DEF Inv, RequestsInv
    <2>1. call[c].deadline \in Nat
      BY Numbers DEF Inv
    <2>2. now < call[c].deadline /\ call[c].deadline <= now + Timeout
      BY DEF Tick, Inv, RequestsInv
    <2>3. ASSUME reply[c] # NoReply
          PROVE  Within(held', reply[c], call[c].deadline - Timeout, now + 1)
      <3>1. Within(held, reply[c], call[c].deadline - Timeout, now)
        BY <2>3 DEF Inv, RequestsInv
      <3>2. Within(held', reply[c], call[c].deadline - Timeout, now)
        <4>1. now \in Int /\ now <= now
          BY <1>1
        <4> QED
          BY <1>5, <3>1, <4>1
      <3>3. /\ call[c].deadline - Timeout \in Int /\ now \in Int /\ now + 1 \in Int
            /\ now <= now + 1 /\ call[c].deadline - Timeout <= call[c].deadline - Timeout
        BY <1>1, <2>1, TimeAssumption
      <3> QED
        BY <3>2, <3>3, Widen
    <2> QED
      BY <1>1, <2>1, <2>2, <2>3, TimeAssumption
  <1>7. EntriesInv'
    <2> SUFFICES ASSUME NEW g \in Gateways, cache[g] # NoEntry
                 PROVE  /\ cache[g].expiresAt <= now + 1 + TTL
                        /\ Within(held', cache[g].value, cache[g].expiresAt - TTL - Timeout,
                                  cache[g].expiresAt - TTL)
      BY <1>1 DEF EntriesInv
    <2>1. /\ Within(held, cache[g].value, cache[g].expiresAt - TTL - Timeout,
                    cache[g].expiresAt - TTL)
          /\ cache[g].expiresAt - TTL \in Int /\ cache[g].expiresAt - TTL <= now
          /\ cache[g].expiresAt <= now + 1 + TTL
      BY <1>1, Numbers, TimeAssumption DEF Inv, EntriesInv
    <2> QED
      BY <1>5, <2>1
  <1> QED
    BY <1>3, <1>4, <1>6, <1>7 DEF Inv, HistoryInv

\* What a step of one call has to show: the rest is as it was.
LEMMA CallKeeps ==
    ASSUME Inv, UNCHANGED autumnVars, TypeOK', NEW c \in Calls,
           \A d \in Calls \ {c} : call'[d] = call[d] /\ reply'[d] = reply[d],
           reply'[c] # NoReply => call'[c].pc = "asking",
           call'[c].pc = "asking" =>
              /\ call'[c].deadline <= now + Timeout
              /\ now <= call'[c].deadline
              /\ reply'[c] # NoReply =>
                   Within(held, reply'[c], call'[c].deadline - Timeout, now),
           EntriesInv'
    PROVE  Inv'
  <1> USE DEF autumnVars
  <1>1. HistoryInv'
    BY DEF Inv, HistoryInv, Current, Entitled
  <1>2. RequestsInv'
    <2> SUFFICES ASSUME NEW d \in Calls
                 PROVE  /\ reply'[d] # NoReply => call'[d].pc = "asking"
                        /\ call'[d].pc = "asking" =>
                             /\ call'[d].deadline <= now + Timeout
                             /\ now <= call'[d].deadline
                             /\ reply'[d] # NoReply =>
                                  Within(held, reply'[d], call'[d].deadline - Timeout, now)
      BY DEF RequestsInv
    <2> QED
      BY DEF Inv, RequestsInv
  <1> QED
    BY <1>1, <1>2 DEF Inv

\* The gate's state of a call.
LEMMA GateState ==
    ASSUME Inv, NEW c \in Calls, NEW op \in Ops, NEW e, NEW degraded \in BOOLEAN,
           Gate(c, op, e, degraded)
    PROVE  /\ call' \in [Calls -> {Idle, Finished}
                \cup [pc : {"asking"}, gateway : Gateways, op : Ops, deadline : Nat]
                \cup [pc : {"executing", "refused"}, op : Ops, degraded : BOOLEAN]]
           /\ call'[c].pc \in {"executing", "refused"}
           /\ call'[c].op = op /\ call'[c].degraded = degraded
           /\ consumes(op) => (call'[c].pc = "executing" <=> allowed(e))
           /\ \A d \in Calls \ {c} : call'[d] = call[d]
  <1> DEFINE pc == IF consumes(op) /\ ~allowed(e) THEN "refused" ELSE "executing"
             new == [pc |-> pc, op |-> op, degraded |-> degraded]
  <1>1. pc \in {"executing", "refused"} /\ (consumes(op) => (pc = "executing" <=> allowed(e)))
    OBVIOUS
  <1>2. call' = [call EXCEPT ![c] = new]
    BY DEF Gate
  <1> HIDE DEF pc
  <1>3. new \in [pc : {"executing", "refused"}, op : Ops, degraded : BOOLEAN]
    BY <1>1
  <1>4. new.pc = pc /\ new.op = op /\ new.degraded = degraded
    OBVIOUS
  <1> HIDE DEF new
  <1>5. call'[c] = new /\ \A d \in Calls \ {c} : call'[d] = call[d]
    BY <1>2 DEF Inv, TypeOK
  <1>6. call' \in [Calls -> {Idle, Finished}
                \cup [pc : {"asking"}, gateway : Gateways, op : Ops, deadline : Nat]
                \cup [pc : {"executing", "refused"}, op : Ops, degraded : BOOLEAN]]
    BY <1>2, <1>3 DEF Inv, TypeOK
  <1> QED
    BY <1>1, <1>4, <1>5, <1>6

LEMMA EntriesStay ==
    ASSUME Inv, UNCHANGED <<now, held, cache>>
    PROVE  EntriesInv'
  BY DEF Inv, EntriesInv

LEMMA HitKeeps ==
    ASSUME Inv, NEW c \in Calls, NEW g \in Gateways, NEW op \in Ops, Hit(c, g, op)
    PROVE  Inv'
  <1>1. /\ call[c] = Idle /\ Gate(c, op, cache[g].value, FALSE)
        /\ UNCHANGED <<now, plan, usage, changes, held, cache, reply, created, unmetered>>
    BY DEF Hit, autumnVars, serviceVars
  <1>2. /\ call' \in [Calls -> {Idle, Finished}
                \cup [pc : {"asking"}, gateway : Gateways, op : Ops, deadline : Nat]
                \cup [pc : {"executing", "refused"}, op : Ops, degraded : BOOLEAN]]
        /\ call'[c].pc \in {"executing", "refused"}
        /\ \A d \in Calls \ {c} : call'[d] = call[d]
    BY <1>1, GateState
  <1>3. TypeOK'
    BY <1>1, <1>2 DEF Inv, TypeOK
  <1>4. reply[c] = NoReply
    BY <1>1 DEF Inv, RequestsInv, Idle
  <1>5. EntriesInv'
    BY <1>1, EntriesStay
  <1> QED
    BY <1>1, <1>2, <1>3, <1>4, <1>5, CallKeeps DEF autumnVars

LEMMA MissKeeps ==
    ASSUME Inv, NEW c \in Calls, NEW g \in Gateways, NEW op \in Ops, Miss(c, g, op)
    PROVE  Inv'
  <1> DEFINE new == [pc |-> "asking", gateway |-> g, op |-> op, deadline |-> now + Timeout]
  <1>1. /\ call[c] = Idle /\ call' = [call EXCEPT ![c] = new]
        /\ UNCHANGED <<now, plan, usage, changes, held, cache, reply, created, unmetered>>
    BY DEF Miss, autumnVars, serviceVars
  <1>2. now \in Nat /\ now + Timeout \in Nat
    BY Numbers, TimeAssumption DEF Inv
  <1>3. new \in [pc : {"asking"}, gateway : Gateways, op : Ops, deadline : Nat]
        /\ new.deadline = now + Timeout /\ new.pc = "asking"
    BY <1>2
  <1> HIDE DEF new
  <1>4. call'[c] = new /\ \A d \in Calls \ {c} : call'[d] = call[d]
    BY <1>1 DEF Inv, TypeOK
  <1>5. TypeOK'
    BY <1>1, <1>3 DEF Inv, TypeOK
  <1>6. reply'[c] = NoReply /\ \A d \in Calls \ {c} : reply'[d] = reply[d]
    BY <1>1 DEF Inv, RequestsInv, Idle
  <1>7. EntriesInv'
    BY <1>1, EntriesStay
  <1>8. call'[c].deadline <= now + Timeout /\ now <= call'[c].deadline
    BY <1>2, <1>3, <1>4, TimeAssumption
  <1> QED
    BY <1>1, <1>4, <1>5, <1>6, <1>7, <1>8, CallKeeps DEF autumnVars

\* The entry an answer makes: its age is the request's.
LEMMA ReceiveKeeps == ASSUME Inv, NEW c \in Calls, Receive(c) PROVE Inv'
  <1> DEFINE g == call[c].gateway
             entry == [value |-> reply[c], expiresAt |-> now + TTL]
  <1>1. /\ call[c].pc = "asking" /\ reply[c] # NoReply
        /\ cache' = [cache EXCEPT ![g] = entry]
        /\ Gate(c, call[c].op, reply[c], FALSE)
        /\ reply' = [reply EXCEPT ![c] = NoReply]
        /\ UNCHANGED <<now, plan, usage, changes, held, created, unmetered>>
    BY DEF Receive, autumnVars, serviceVars
  <1>2. /\ now \in Nat /\ now + TTL \in Nat /\ g \in Gateways /\ call[c].op \in Ops
        /\ reply[c] \in Snapshots /\ call[c].deadline \in Nat
    BY <1>1, Numbers, TimeAssumption DEF Inv, TypeOK
  <1>3. /\ call' \in [Calls -> {Idle, Finished}
                \cup [pc : {"asking"}, gateway : Gateways, op : Ops, deadline : Nat]
                \cup [pc : {"executing", "refused"}, op : Ops, degraded : BOOLEAN]]
        /\ call'[c].pc \in {"executing", "refused"}
        /\ \A d \in Calls \ {c} : call'[d] = call[d]
    BY <1>1, <1>2, GateState
  <1>4. entry \in [value : Snapshots, expiresAt : Nat]
        /\ entry.value = reply[c] /\ entry.expiresAt = now + TTL
    BY <1>2
  <1> HIDE DEF entry, g
  <1>5. cache'[g] = entry /\ \A h \in Gateways \ {g} : cache'[h] = cache[h]
    BY <1>1, <1>2 DEF Inv, TypeOK
  <1>6. reply'[c] = NoReply /\ \A d \in Calls \ {c} : reply'[d] = reply[d]
    BY <1>1 DEF Inv, TypeOK
  <1>7. TypeOK'
    BY <1>1, <1>2, <1>3, <1>4 DEF Inv, TypeOK
  <1>8. Within(held, reply[c], now - Timeout, now)
    <2>1. /\ Within(held, reply[c], call[c].deadline - Timeout, now)
          /\ now <= call[c].deadline
      BY <1>1 DEF Inv, RequestsInv
    <2>2. /\ now - Timeout <= call[c].deadline - Timeout /\ now <= now
          /\ now - Timeout \in Int /\ call[c].deadline - Timeout \in Int /\ now \in Int
      BY <1>2, <2>1, TimeAssumption
    <2> QED
      BY <2>1, <2>2, Widen
  <1>9. EntriesInv'
    <2> SUFFICES ASSUME NEW h \in Gateways, cache'[h] # NoEntry
                 PROVE  /\ cache'[h].expiresAt <= now + TTL
                        /\ Within(held, cache'[h].value, cache'[h].expiresAt - TTL - Timeout,
                                  cache'[h].expiresAt - TTL)
      BY <1>1 DEF EntriesInv
    <2>1. CASE h = g
      <3>1. entry.expiresAt - TTL = now /\ entry.expiresAt - TTL - Timeout = now - Timeout
            /\ entry.expiresAt <= now + TTL
        BY <1>2, <1>4, TimeAssumption
      <3> QED
        BY <1>4, <1>5, <1>8, <2>1, <3>1
    <2>2. CASE h # g
      BY <1>5, <2>2 DEF Inv, EntriesInv
    <2> QED
      BY <2>1, <2>2
  <1> QED
    BY <1>1, <1>3, <1>6, <1>7, <1>9, CallKeeps DEF autumnVars

LEMMA DegradeKeeps == ASSUME Inv, NEW c \in Calls, Degrade(c) PROVE Inv'
  <1>1. /\ call[c].pc = "asking" /\ Gate(c, call[c].op, EMPTY_ENTITLEMENTS, TRUE)
        /\ reply' = [reply EXCEPT ![c] = NoReply]
        /\ UNCHANGED <<now, plan, usage, changes, held, cache, created, unmetered>>
    BY DEF Degrade, autumnVars, serviceVars
  <1>2. call[c].op \in Ops
    BY <1>1, Numbers DEF Inv
  <1>3. /\ call' \in [Calls -> {Idle, Finished}
                \cup [pc : {"asking"}, gateway : Gateways, op : Ops, deadline : Nat]
                \cup [pc : {"executing", "refused"}, op : Ops, degraded : BOOLEAN]]
        /\ call'[c].pc \in {"executing", "refused"}
        /\ \A d \in Calls \ {c} : call'[d] = call[d]
    BY <1>1, <1>2, GateState
  <1>4. reply'[c] = NoReply /\ \A d \in Calls \ {c} : reply'[d] = reply[d]
    BY <1>1 DEF Inv, TypeOK
  <1>5. TypeOK'
    BY <1>1, <1>3 DEF Inv, TypeOK
  <1>6. EntriesInv'
    BY <1>1, EntriesStay
  <1> QED
    BY <1>1, <1>3, <1>4, <1>5, <1>6, CallKeeps DEF autumnVars

LEMMA BillingKeeps == ASSUME Inv, NEW c \in Calls, BillingReads(c) PROVE Inv'
  <1>1. /\ call[c].pc = "asking" /\ reply' = [reply EXCEPT ![c] = Current]
        /\ UNCHANGED <<now, plan, usage, changes, held, cache, call, created, unmetered>>
    BY DEF BillingReads, autumnVars, serviceVars
  <1>2. Current \in Snapshots
    BY CurrentIsASnapshot DEF Inv, TypeOK, Current
  <1>3. reply'[c] = Current /\ \A d \in Calls \ {c} : reply'[d] = reply[d]
    BY <1>1 DEF Inv, TypeOK
  <1>4. TypeOK'
    BY <1>1, <1>2 DEF Inv, TypeOK
  <1>5. EntriesInv'
    BY <1>1, EntriesStay
  <1>6. /\ call[c].deadline <= now + Timeout /\ now <= call[c].deadline
        /\ call[c].deadline \in Nat /\ now \in Nat /\ now \in Times
    BY <1>1, Numbers DEF Inv, RequestsInv
  <1>7. Within(held, Current, call[c].deadline - Timeout, now)
    BY <1>6, TimeAssumption DEF Inv, HistoryInv, Within
  <1> QED
    BY <1>1, <1>3, <1>4, <1>5, <1>6, <1>7, CallKeeps DEF autumnVars

LEMMA ExecuteKeeps == ASSUME Inv, NEW c \in Calls, Execute(c) PROVE Inv'
  <1>1. /\ call[c].pc = "executing" /\ call' = [call EXCEPT ![c] = Finished]
        /\ UNCHANGED <<now, plan, usage, changes, held, cache, reply>>
    BY DEF Execute, autumnVars
  <1>2. created' \in Nat /\ unmetered' \in Nat
    BY DEF Execute, serviceVars, Inv, TypeOK
  <1>3. call'[c] = Finished /\ \A d \in Calls \ {c} : call'[d] = call[d]
    BY <1>1 DEF Inv, TypeOK
  <1>4. TypeOK'
    BY <1>1, <1>2 DEF Inv, TypeOK
  <1>5. reply'[c] = NoReply
    BY <1>1 DEF Inv, RequestsInv
  <1>6. EntriesInv'
    BY <1>1, EntriesStay
  <1> QED
    BY <1>1, <1>3, <1>4, <1>5, <1>6, CallKeeps DEF autumnVars, Finished

LEMMA NextInv == Inv /\ [Next]_vars => Inv'
  <1> SUFFICES ASSUME Inv, [Next]_vars PROVE Inv'
    OBVIOUS
  <1>0. /\ plan \in Plans /\ usage \in Nat /\ created \in Nat /\ unmetered \in Nat
        /\ changes \in 0..MaxChanges
    BY DEF Inv, TypeOK
  <1>1. CASE UNCHANGED vars
    BY <1>1 DEF vars, Inv, TypeOK, HistoryInv, Current, Entitled, RequestsInv, EntriesInv
  <1>2. CASE Meter
    BY <1>0, <1>2, AutumnKeeps DEF Meter, Held
  <1>3. CASE MeterLost
    BY <1>0, <1>3 DEF MeterLost, autumnVars, Inv, TypeOK, HistoryInv, Current, Entitled,
       RequestsInv, EntriesInv
  <1>4. CASE ChangePlan
    <2>1. changes' \in 0..MaxChanges
      BY <1>0, <1>4, BoundAssumption DEF ChangePlan
    <2> QED
      BY <1>0, <1>4, <2>1, AutumnKeeps DEF ChangePlan, Held, serviceVars
  <1> QED
    BY <1>1, <1>2, <1>3, <1>4, TickKeeps, HitKeeps, MissKeeps, ReceiveKeeps, DegradeKeeps,
       BillingKeeps, ExecuteKeeps DEF Next, Dispatch

LEMMA Invariance == Spec => []Inv
  BY InitInv, NextInv, PTL DEF Spec

-----------------------------------------------------------------------------
(* The theorems *)

\* Calls, answers, caches and Autumn's state keep their types.
THEOREM TypeCorrect == Spec => []TypeOK
  <1>1. Inv => TypeOK
    BY DEF Inv
  <1> QED
    BY <1>1, Invariance, PTL

LEMMA WithinIsHeldIn ==
    ASSUME NEW v, NEW a \in Int, NEW b \in Int, Within(held, v, a, b)
    PROVE  v \in HeldIn(a, b)
  BY DEF Within, HeldIn, Times

\* A cache entry is as young as one billing request when it is made, in every
\* process and however requests overlap (deps.ts, entitlements).
THEOREM RecentCache == Spec => []CacheIsRecent
  <1>1. Inv => CacheIsRecent
    <2> SUFFICES ASSUME Inv, NEW g \in Gateways, cache[g] # NoEntry
                 PROVE  cache[g].value \in HeldIn(cache[g].expiresAt - TTL - Timeout,
                                                  cache[g].expiresAt - TTL)
      BY DEF CacheIsRecent
    <2>1. cache[g].expiresAt \in Nat
      BY Numbers DEF Inv
    <2>2. cache[g].expiresAt - TTL - Timeout \in Int /\ cache[g].expiresAt - TTL \in Int
      BY <2>1, TimeAssumption
    <2>3. Within(held, cache[g].value, cache[g].expiresAt - TTL - Timeout,
                 cache[g].expiresAt - TTL)
      BY DEF Inv, EntriesInv
    <2> QED
      BY <2>2, <2>3, WithinIsHeldIn
  <1> QED
    BY <1>1, Invariance, PTL

\* No decision of the plan gate is older than a cache entry's life and one
\* billing request, those aside that billing did not answer (deps.ts and gate 6
\* of gateway.ts).
THEOREM RecentDecisions == Spec => DecisionsAreRecent
  <1>1. Inv /\ [Next]_vars =>
          [\A c \in Calls : Gated(c) /\ ~call'[c].degraded =>
              Justified(c, now - TTL - Timeout + 1)]_vars
    <2> SUFFICES ASSUME Inv, Next, NEW c \in Calls, Gated(c), ~call'[c].degraded
                 PROVE  Justified(c, now - TTL - Timeout + 1)
      OBVIOUS
    <2> DEFINE since == now - TTL - Timeout + 1
    <2>1. now \in Nat /\ since \in Int /\ now \in Int
      BY Numbers, TimeAssumption DEF Inv
    <2>2. ASSUME NEW e, Within(held, e, since, now), call'[c].pc = "executing" <=> allowed(e)
          PROVE  Justified(c, since)
      <3>1. e \in HeldIn(since, now)
        BY <2>1, <2>2, WithinIsHeldIn
      <3> QED
        BY <2>2, <3>1 DEF Justified
    <2>3. call'[c] # call[c]
      BY DEF Gated
    <2>4. PICK d \in Calls :
            (\E g \in Gateways, op \in Ops : Hit(d, g, op) \/ Miss(d, g, op))
            \/ Receive(d) \/ Degrade(d) \/ Execute(d)
      BY <2>3 DEF Next, Dispatch, BillingReads, Meter, MeterLost, ChangePlan, Tick, autumnVars
    <2>5. d = c
      BY <2>3, <2>4 DEF Hit, Miss, Receive, Degrade, Execute, Gate, Inv, TypeOK
    <2>6. ASSUME NEW g \in Gateways, NEW op \in Ops, Hit(c, g, op)
          PROVE  Justified(c, since)
      <3>1. cache[g] # NoEntry /\ cache[g].expiresAt > now /\ Gate(c, op, cache[g].value, FALSE)
        BY <2>6 DEF Hit, Live
      <3>2. call'[c].op = op /\ (consumes(op) => (call'[c].pc = "executing" <=> allowed(cache[g].value)))
        BY <3>1, GateState
      <3>3. call'[c].pc = "executing" <=> allowed(cache[g].value)
        BY <3>2 DEF Gated
      <3>4. /\ Within(held, cache[g].value, cache[g].expiresAt - TTL - Timeout,
                      cache[g].expiresAt - TTL)
            /\ cache[g].expiresAt <= now + TTL /\ cache[g].expiresAt \in Nat
        BY <3>1, Numbers DEF Inv, EntriesInv
      <3>5. /\ since <= cache[g].expiresAt - TTL - Timeout /\ cache[g].expiresAt - TTL <= now
            /\ cache[g].expiresAt - TTL - Timeout \in Int /\ cache[g].expiresAt - TTL \in Int
        BY <2>1, <3>1, <3>4, TimeAssumption
      <3> HIDE DEF since
      <3>6. Within(held, cache[g].value, since, now)
        BY <2>1, <3>4, <3>5, Widen
      <3> QED
        BY <2>2, <3>3, <3>6
    <2>7. ASSUME NEW g \in Gateways, NEW op \in Ops, Miss(c, g, op)
          PROVE  FALSE
      <3>1. call'[c].pc = "asking"
        BY <2>7 DEF Miss, Inv, TypeOK
      <3> QED
        BY <3>1 DEF Gated
    <2>8. ASSUME Receive(c)
          PROVE  Justified(c, since)
      <3>1. /\ Gate(c, call[c].op, reply[c], FALSE) /\ call[c].pc = "asking" /\ reply[c] # NoReply
            /\ call[c].op \in Ops /\ call[c].deadline \in Nat
        BY <2>8, Numbers DEF Receive, Inv
      <3>2. call'[c].op = call[c].op
            /\ (consumes(call[c].op) => (call'[c].pc = "executing" <=> allowed(reply[c])))
        BY <3>1, GateState
      <3>3. call'[c].pc = "executing" <=> allowed(reply[c])
        BY <3>2 DEF Gated
      <3>4. Within(held, reply[c], call[c].deadline - Timeout, now) /\ now <= call[c].deadline
        BY <3>1 DEF Inv, RequestsInv
      <3>5. since <= call[c].deadline - Timeout /\ call[c].deadline - Timeout \in Int /\ now <= now
        BY <2>1, <3>1, <3>4, TimeAssumption
      <3> HIDE DEF since
      <3>6. Within(held, reply[c], since, now)
        BY <2>1, <3>4, <3>5, Widen
      <3> QED
        BY <2>2, <3>3, <3>6
    <2>9. CASE Degrade(c)
      <3>1. Gate(c, call[c].op, EMPTY_ENTITLEMENTS, TRUE) /\ call[c].op \in Ops
        BY <2>9, Numbers DEF Degrade, Inv
      <3>2. call'[c].degraded = TRUE
        BY <3>1, GateState
      <3> QED
        BY <3>2
    <2>10. CASE Execute(c)
      <3>1. call[c].pc = "executing"
        BY <2>10 DEF Execute
      <3> QED
        BY <3>1 DEF Gated
    <2> QED
      BY <2>4, <2>5, <2>6, <2>7, <2>8, <2>9, <2>10
  <1> QED
    BY <1>1, Invariance, PTL DEF Spec, DecisionsAreRecent
=============================================================================

----------------------------- MODULE EventTrail -----------------------------
(***************************************************************************)
(* What happens to a fact after a service published it: the EVT stream     *)
(* hands it to two durable consumers, the audit trail and the meter        *)
(* (packages/transport/src/request.ts and serve.ts, defineConsumer in      *)
(* packages/guardrail/src/service.ts, services/audit, services/billing and *)
(* packages/billing/src/autumn.adapter.ts).                                *)
(*                                                                         *)
(* A delivery is handled by some replica, suspended at its one effect: the *)
(* insert into audit_log, or the call to Autumn, both external and both    *)
(* able to fail with the effect in.  The stream keeps a message for max_age *)
(* and then drops it, for whoever has not acknowledged it yet.             *)
(***************************************************************************)
EXTENDS Naturals, Sequences, FiniteSets

CONSTANTS
    Events,         \* facts that services emit
    RequestId,      \* RequestId[e]: meta.requestId
    Durables,       \* the durable consumers looked at
    Consumes,       \* the events whose operation the registry marks `consumes`
    MaxDeliver,     \* max_deliver of a durable consumer
    Secrets,        \* the values of ENVELOPE_SECRET, in the order of its rotations
    MaxAge,         \* max_age of the EVT stream, in ticks
    MaxLog,         \* bound: messages the stream ever stores
    MaxTime         \* bound: the clock

Requests == {RequestId[e] : e \in Events}

ASSUME EventAssumption == RequestId \in [Events -> Requests] /\ Consumes \subseteq Events

ASSUME DurableAssumption == Durables \subseteq {"audit-trail", "billing-meter"}

ASSUME DeliveryAssumption == MaxDeliver \in Nat \ {0} /\ MaxLog \in Nat

ASSUME AgeAssumption == MaxAge \in Nat \ {0} /\ MaxTime \in Nat

ASSUME SecretAssumption == Secrets \subseteq Nat /\ Secrets # {}

Processes == Durables \cup {"service"}

VARIABLES
    now,        \* the time
    log,        \* the EVT stream: [event, signedWith, at], oldest first
    window,     \* request ids in the stream's duplicate window
    secret,     \* ENVELOPE_SECRET of each process
    delivery,   \* delivery[d][i]: where message i stands with consumer d
    jobs,       \* deliveries being handled
    rows,       \* events with a row in audit_log
    keys,       \* idempotency keys Autumn has seen
    usage       \* units Autumn has counted

vars == <<now, log, window, secret, delivery, jobs, rows, keys, usage>>

-----------------------------------------------------------------------------
(* Values *)

Messages == [event : Events, signedWith : Secrets, at : 0..MaxTime]

DeliveryStates == {"pending", "inflight", "acked", "dropped", "dead", "expired"}

\* What a consumer may still be handed.
Unsettled == {"pending", "inflight"}

Deliveries == [state : DeliveryStates, deliveries : 0..MaxDeliver]

Jobs == [durable : Durables, index : 1..MaxLog, at : {"running", "applied"},
         attempt : 1..MaxDeliver]

Undelivered == [state |-> "pending", deliveries |-> 0]

Id(i) == RequestId[log[i].event]

Init ==
    /\ now = 0
    /\ log = <<>>
    /\ window = {}
    /\ \E s \in Secrets : secret = [p \in Processes |-> s]
    /\ delivery = [d \in Durables |-> <<>>]
    /\ jobs = {}
    /\ rows = {} /\ keys = {}
    /\ usage = 0

-----------------------------------------------------------------------------
(* The stream *)

\* publishEvent: the msgID is <request id>:evt.  A command that is delivered
\* again emits its event again, with the same id.
Publish(e) ==
    /\ RequestId[e] \notin window
    /\ Len(log) < MaxLog
    /\ log' = Append(log, [event |-> e, signedWith |-> secret["service"], at |-> now])
    /\ delivery' = [d \in Durables |-> Append(delivery[d], Undelivered)]
    /\ window' = window \cup {RequestId[e]}
    /\ UNCHANGED <<now, secret, jobs, rows, keys, usage>>

\* duplicate_window has passed: the server no longer knows the msgID.
Forget(r) ==
    /\ r \in window
    /\ window' = window \ {r}
    /\ UNCHANGED <<now, log, secret, delivery, jobs, rows, keys, usage>>

Tick ==
    /\ now < MaxTime
    /\ now' = now + 1
    /\ UNCHANGED <<log, window, secret, delivery, jobs, rows, keys, usage>>

\* max_age has passed: the stream no longer has the message, and a consumer
\* that was down or retrying all that time will not be handed it.
Expire(i) ==
    /\ i \in DOMAIN log /\ now >= log[i].at + MaxAge
    /\ \E d \in Durables : delivery[d][i].state \in Unsettled
    /\ delivery' = [d \in Durables |->
          IF delivery[d][i].state \in Unsettled
          THEN [delivery[d] EXCEPT ![i] = [state |-> "expired", deliveries |-> delivery[d][i].deliveries]]
          ELSE delivery[d]]
    /\ UNCHANGED <<now, log, window, secret, jobs, rows, keys, usage>>

\* A process restarts with the next secret and loses what it was doing.
Rotate(p) ==
    /\ \E s \in Secrets : s > secret[p] /\ secret' = [secret EXCEPT ![p] = s]
    /\ jobs' = {j \in jobs : j.durable # p}
    /\ UNCHANGED <<now, log, window, delivery, rows, keys, usage>>

-----------------------------------------------------------------------------
(* The consumers *)

Set(d, i, state, n) ==
    delivery' = [delivery EXCEPT ![d][i] = [state |-> state, deliveries |-> n]]

\* Slip: a message is handed out once.
TakeOnce(d, i) ==
    LET n == delivery[d][i].deliveries + 1
    IN  /\ delivery[d][i] = Undelivered
        /\ log[i].signedWith = secret[d]
        /\ Set(d, i, "inflight", n)
        /\ jobs' = jobs \cup {[durable |-> d, index |-> i, at |-> "running", attempt |-> n]}
        /\ UNCHANGED <<now, log, window, secret, rows, keys, usage>>

\* The consumer takes a message whose signature verifies.
Take(d, i) ==
    LET n == delivery[d][i].deliveries + 1
    IN  /\ delivery[d][i].state = "pending"
        /\ log[i].signedWith = secret[d]
        /\ Set(d, i, "inflight", n)
        /\ jobs' = jobs \cup {[durable |-> d, index |-> i, at |-> "running", attempt |-> n]}
        /\ UNCHANGED <<now, log, window, secret, rows, keys, usage>>

\* One that does not verify is dropped, which acknowledges it.
Drop(d, i) ==
    /\ delivery[d][i].state = "pending"
    /\ log[i].signedWith # secret[d]
    /\ Set(d, i, "dropped", delivery[d][i].deliveries + 1)
    /\ UNCHANGED <<now, log, window, secret, jobs, rows, keys, usage>>

\* record: requestId is unique, the insert ignores the conflict.
record(e) ==
    /\ rows' = IF \E r \in rows : RequestId[r] = RequestId[e] THEN rows ELSE rows \cup {e}
    /\ UNCHANGED <<keys, usage>>

\* Slip: track without the idempotency key.
trackWithoutKey(e) ==
    /\ keys' = keys \cup {RequestId[e]}
    /\ usage' = usage + 1
    /\ UNCHANGED rows

\* track: Autumn counts an idempotency key once.
track(e) ==
    /\ IF RequestId[e] \in keys
       THEN UNCHANGED <<keys, usage>>
       ELSE keys' = keys \cup {RequestId[e]} /\ usage' = usage + 1
    /\ UNCHANGED rows

\* What the handler of a consumer does with an event; the meter passes over
\* operations that consume nothing.
Effect(d, e) ==
    CASE d = "audit-trail"                      -> record(e)
      [] d = "billing-meter" /\ e \in Consumes  -> track(e)
      [] OTHER                                  -> UNCHANGED <<rows, keys, usage>>

Apply(j) ==
    /\ j.at = "running"
    /\ Effect(j.durable, log[j.index].event)
    /\ jobs' = (jobs \ {j}) \cup {[j EXCEPT !.at = "applied"]}
    /\ UNCHANGED <<now, log, window, secret, delivery>>

\* The delivery the job works on, as the server has it now.
Open(j) == delivery[j.durable][j.index]

\* The server takes an ack for whichever delivery is open.
Ack(j) ==
    /\ j.at = "applied"
    /\ jobs' = jobs \ {j}
    /\ IF Open(j).state \in Unsettled
       THEN Set(j.durable, j.index, "acked", Open(j).deliveries)
       ELSE UNCHANGED delivery
    /\ UNCHANGED <<now, log, window, secret, rows, keys, usage>>

\* Slip: one delivery too many.
NakOneTooMany(d, i) ==
    Set(d, i, IF delivery[d][i].deliveries <= MaxDeliver THEN "pending" ELSE "dead",
        delivery[d][i].deliveries)

\* Handed out again, until max_deliver; nothing is configured to receive it
\* after that.
Nak(d, i) ==
    Set(d, i, IF delivery[d][i].deliveries < MaxDeliver THEN "pending" ELSE "dead",
        delivery[d][i].deliveries)

\* Slip: the failure is logged and the handler returns.
FailQuietly(j) ==
    /\ jobs' = jobs \ {j}
    /\ IF Open(j).state \in Unsettled
       THEN Set(j.durable, j.index, "acked", Open(j).deliveries)
       ELSE UNCHANGED delivery
    /\ UNCHANGED <<now, log, window, secret, rows, keys, usage>>

\* The database or Autumn refuses, before the effect or after it: the throw is
\* a nak.
Fail(j) ==
    /\ jobs' = jobs \ {j}
    /\ IF Open(j).state = "inflight" THEN Nak(j.durable, j.index) ELSE UNCHANGED delivery
    /\ UNCHANGED <<now, log, window, secret, rows, keys, usage>>

\* The replica dies, or its acknowledgement is lost.
Crash(j) ==
    /\ jobs' = jobs \ {j}
    /\ UNCHANGED <<now, log, window, secret, delivery, rows, keys, usage>>

\* ack_wait runs out.
AckWait(d, i) ==
    /\ delivery[d][i].state = "inflight"
    /\ Nak(d, i)
    /\ UNCHANGED <<now, log, window, secret, jobs, rows, keys, usage>>

Consumer(d, i) == i \in DOMAIN log /\ (Take(d, i) \/ Drop(d, i) \/ AckWait(d, i))

Handle(j) == Apply(j) \/ Ack(j) \/ Fail(j) \/ Crash(j)

Next ==
    \/ \E e \in Events : Publish(e)
    \/ \E r \in window : Forget(r)
    \/ \E p \in Processes : Rotate(p)
    \/ Tick
    \/ \E i \in 1..MaxLog : Expire(i)
    \/ \E d \in Durables, i \in 1..MaxLog : Consumer(d, i)
    \/ \E j \in jobs : Handle(j)

Spec == Init /\ [][Next]_vars

\* JetStream keeps handing out what is neither acknowledged, out of deliveries
\* nor too old.  Nothing obliges a handler to succeed, nor a consumer to be up:
\* what is not handed out any more is aged out.
FairSpec ==
    Spec /\ \A d \in Durables, i \in 1..MaxLog : WF_vars(Consumer(d, i) \/ Expire(i))

-----------------------------------------------------------------------------
(* Properties *)

TypeOK ==
    /\ now \in 0..MaxTime
    /\ log \in Seq(Messages) /\ Len(log) <= MaxLog
    /\ window \subseteq Requests
    /\ secret \in [Processes -> Secrets]
    /\ delivery \in [Durables -> Seq(Deliveries)]
    /\ \A d \in Durables : Len(delivery[d]) = Len(log)
    /\ jobs \subseteq Jobs
    /\ rows \subseteq Events /\ keys \subseteq Requests
    /\ usage \in Nat

Recorded(i) == i \in DOMAIN log /\ \E e \in rows : RequestId[e] = Id(i)

GivenUp(i) == i \in DOMAIN log /\ delivery["audit-trail"][i].state \in {"dropped", "dead", "expired"}

Done(d, i) ==
    CASE d = "audit-trail"   -> Recorded(i)
      [] d = "billing-meter" -> log[i].event \in Consumes => Id(i) \in keys

\* A message the consumer acknowledged had its effect: the audit row is there,
\* the unit is counted (handlers throw on failure, and a throw is a nak).
AckedMeansDone ==
    \A d \in Durables, i \in DOMAIN log : delivery[d][i].state = "acked" => Done(d, i)

\* However often an event is stored, delivered or retried, it is one row and
\* one unit, and every row and unit is an event some service emitted.
Promise == INSTANCE Ledger WITH
    happened <- {Id(i) : i \in DOMAIN log},
    recorded <- {RequestId[e] : e \in rows},
    counted  <- keys

ImplementsLedger == Promise!Spec

\* A stored event is recorded, dropped for its signature, out of deliveries or
\* out of the stream's days.
EveryEventSettles ==
    \A i \in 1..MaxLog :
        i \in DOMAIN log ~> Recorded(i) \/ GivenUp(i)
=============================================================================

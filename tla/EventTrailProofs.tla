-------------------------- MODULE EventTrailProofs --------------------------
(***************************************************************************)
(* The event trail implements the ledger, its variables keep their types   *)
(* and what is acknowledged has had its effect: for any events, any number *)
(* of replicas, deliveries and stored messages, and any rotation.          *)
(***************************************************************************)
EXTENDS EventTrail, SequenceTheorems, TLAPS

Happened == {Id(i) : i \in DOMAIN log}

\* Every effect is of a message the stream holds.
TrailInv ==
    /\ now \in 0..MaxTime
    /\ log \in Seq(Messages)
    /\ secret \in [Processes -> Secrets]
    /\ \A j \in jobs : j.index \in DOMAIN log
    /\ rows \subseteq Events
    /\ \A e \in rows : RequestId[e] \in Happened
    /\ keys \subseteq Happened

LEMMA InitTrailInv == Init => TrailInv
  BY AgeAssumption DEF Init, TrailInv

\* A stored message keeps its place; the last one is new.
LEMMA PublishHappens ==
    ASSUME TrailInv, NEW e \in Events, NEW s \in Secrets,
           log' = Append(log, [event |-> e, signedWith |-> s, at |-> now])
    PROVE  /\ log' \in Seq(Messages)
           /\ DOMAIN log \subseteq DOMAIN log'
           /\ Happened' = Happened \cup {RequestId[e]}
  <1>1. log' \in Seq(Messages) /\ Len(log') = Len(log) + 1
    BY DEF TrailInv, Messages
  <1>2. DOMAIN log = 1..Len(log) /\ DOMAIN log' = 1..(Len(log) + 1)
    BY <1>1 DEF TrailInv
  <1>3. \A i \in DOMAIN log : log'[i] = log[i]
    BY <1>2 DEF TrailInv, Messages
  <1>4. log'[Len(log) + 1].event = e
    BY DEF TrailInv, Messages
  <1> QED
    BY <1>1, <1>2, <1>3, <1>4 DEF Happened, Id, TrailInv

\* Every step keeps the invariant and is a step of the ledger, or one the
\* ledger does not see.
LEMMA TrailStep == TrailInv /\ [Next]_vars => TrailInv' /\ [Promise!Next]_(Promise!vars)
  <1> SUFFICES ASSUME TrailInv, [Next]_vars PROVE TrailInv' /\ [Promise!Next]_(Promise!vars)
    OBVIOUS
  <1> USE DEF Promise!Next, Promise!vars
  <1>1. CASE \E e \in Events : Publish(e)
    <2>1. PICK e \in Events : Publish(e)
      BY <1>1
    <2>2. /\ log' = Append(log, [event |-> e, signedWith |-> secret["service"], at |-> now])
          /\ UNCHANGED <<now, secret, jobs, rows, keys, usage>>
      BY <2>1 DEF Publish
    <2>3. secret["service"] \in Secrets
      BY DEF TrailInv, Processes
    <2>4. /\ log' \in Seq(Messages) /\ DOMAIN log \subseteq DOMAIN log'
          /\ Happened' = Happened \cup {RequestId[e]}
      BY <2>2, <2>3, PublishHappens
    <2>5. TrailInv'
      BY <2>2, <2>4 DEF TrailInv
    <2>6. Promise!Happen(RequestId[e])
      BY <2>2, <2>4 DEF Promise!Happen, Happened
    <2> QED
      BY <2>5, <2>6 DEF Requests
  <1>2. ASSUME UNCHANGED <<log, rows, keys, usage>>, now' \in 0..MaxTime,
               secret' \in [Processes -> Secrets],
               \A j \in jobs' : j.index \in DOMAIN log
        PROVE  TrailInv' /\ [Promise!Next]_(Promise!vars)
    <2>1. Happened' = Happened
      BY <1>2 DEF Happened, Id
    <2> QED
      BY <1>2, <2>1 DEF TrailInv, Happened
  <1>3. CASE \E r \in window : Forget(r)
    BY <1>2, <1>3 DEF Forget, TrailInv
  <1>4. CASE \E p \in Processes : Rotate(p)
    BY <1>2, <1>4 DEF Rotate, TrailInv
  <1>5. CASE \E d \in Durables, i \in 1..MaxLog : Consumer(d, i)
    <2>1. PICK d \in Durables, i \in 1..MaxLog : Consumer(d, i)
      BY <1>5
    <2>2. UNCHANGED <<now, log, secret, rows, keys, usage>>
      BY <2>1 DEF Consumer, Take, Drop, AckWait
    <2>3. ASSUME NEW k \in jobs' \ jobs PROVE k.index = i /\ i \in DOMAIN log
      BY <2>1 DEF Consumer, Take, Drop, AckWait
    <2> QED
      BY <1>2, <2>2, <2>3 DEF TrailInv
  <1>8. CASE Tick
    <2>1. now' \in 0..MaxTime
      BY <1>8, AgeAssumption DEF Tick, TrailInv
    <2> QED
      BY <1>2, <1>8, <2>1 DEF Tick, TrailInv
  <1>9. CASE \E i \in 1..MaxLog : Expire(i)
    BY <1>2, <1>9 DEF Expire, TrailInv
  <1>6. CASE \E j \in jobs : Handle(j)
    <2>1. PICK j \in jobs : Handle(j)
      BY <1>6
    <2>2. CASE Ack(j) \/ Fail(j) \/ Crash(j)
      BY <1>2, <2>2 DEF Ack, Fail, Crash, TrailInv
    <2>3. CASE Apply(j)
      <3> DEFINE fact == log[j.index].event
      <3>0. j.index \in DOMAIN log /\ log[j.index] \in Messages
        BY DEF TrailInv
      <3>1. fact \in Events /\ RequestId[fact] \in Happened /\ RequestId[fact] \in Requests
        BY <3>0 DEF Messages, Happened, Id, Requests
      <3>2. /\ UNCHANGED <<now, log, secret>> /\ Happened' = Happened
            /\ \A k \in jobs' : k.index \in DOMAIN log
        <4>1. [j EXCEPT !.at = "applied"].index = j.index
          OBVIOUS
        <4> QED
          BY <2>3, <4>1 DEF Apply, TrailInv, Happened, Id
      <3>3. CASE record(fact)
        <4>1. CASE \E r \in rows : RequestId[r] = RequestId[fact]
          BY <1>2, <3>2, <3>3, <4>1 DEF record, TrailInv
        <4>2. CASE ~\E r \in rows : RequestId[r] = RequestId[fact]
          <5>1. rows' = rows \cup {fact} /\ UNCHANGED <<keys, usage>>
            BY <3>3, <4>2 DEF record
          <5>2. TrailInv'
            BY <3>1, <3>2, <5>1 DEF TrailInv
          <5>3. PICK r \in Requests : r = RequestId[fact]
            BY <3>1
          <5>4. Promise!Record(r)
            BY <3>1, <3>2, <4>2, <5>1, <5>3 DEF Promise!Record, Happened
          <5> QED
            BY <5>2, <5>4
        <4> QED
          BY <4>1, <4>2
      <3>4. CASE track(fact)
        <4>1. CASE RequestId[fact] \in keys
          BY <1>2, <3>2, <3>4, <4>1 DEF track, TrailInv
        <4>2. CASE RequestId[fact] \notin keys
          <5>1. keys' = keys \cup {RequestId[fact]} /\ usage' = usage + 1 /\ UNCHANGED rows
            BY <3>4, <4>2 DEF track
          <5>2. TrailInv'
            BY <3>1, <3>2, <5>1 DEF TrailInv
          <5>3. Promise!Count(RequestId[fact])
            BY <3>1, <3>2, <4>2, <5>1 DEF Promise!Count, Happened
          <5> QED
            BY <3>1, <5>2, <5>3
        <4> QED
          BY <4>1, <4>2
      <3>5. CASE UNCHANGED <<rows, keys, usage>>
        BY <1>2, <3>2, <3>5 DEF TrailInv
      <3> QED
        BY <2>3, <3>3, <3>4, <3>5 DEF Apply, Effect
    <2> QED
      BY <2>1, <2>2, <2>3 DEF Handle
  <1>7. CASE UNCHANGED vars
    BY <1>2, <1>7 DEF vars, TrailInv
  <1> QED
    BY <1>1, <1>3, <1>4, <1>5, <1>6, <1>7, <1>8, <1>9 DEF Next

\* However often an event is published, stored, delivered, retried or handled
\* by two replicas at once, it is recorded at most once and counted at most
\* once, and nothing is recorded or counted that no service emitted
\* (audit.service.ts, autumn.adapter.ts).
THEOREM TrailImplementsLedger == Spec => ImplementsLedger
  <1>1. Init => Promise!Init
    BY DEF Init, Promise!Init
  <1>2. Spec => []TrailInv
    BY InitTrailInv, TrailStep, PTL DEF Spec
  <1> QED
    BY <1>1, <1>2, TrailStep, PTL DEF Spec, ImplementsLedger, Promise!Spec

-----------------------------------------------------------------------------
(* What is acknowledged has had its effect *)

\* A message waits to be handed out only if a delivery is left for it.
DeliveryLeft ==
    \A d \in Durables, i \in DOMAIN log :
        delivery[d][i].state = "pending" => delivery[d][i].deliveries < MaxDeliver

\* A handler that is past its effect has had it, whatever happened since.
AppliedMeansDone ==
    \A j \in jobs : j.index \in DOMAIN log /\ (j.at = "applied" => Done(j.durable, j.index))

Inv == TypeOK /\ DeliveryLeft /\ AppliedMeansDone /\ AckedMeansDone

LEMMA InitInv == Init => Inv
  <1> SUFFICES ASSUME Init PROVE Inv
    OBVIOUS
  <1>1. log = <<>> /\ DOMAIN log = {} /\ Len(log) = 0
    BY DEF Init
  <1>2. TypeOK
    <2>1. PICK s \in Secrets : secret = [p \in Processes |-> s]
      BY DEF Init
    <2>2. \A d \in Durables : delivery[d] \in Seq(Deliveries) /\ Len(delivery[d]) = 0
      BY DEF Init
    <2>3. delivery \in [Durables -> Seq(Deliveries)]
      BY <2>2 DEF Init
    <2> QED
      BY <1>1, <2>1, <2>2, <2>3, DeliveryAssumption, AgeAssumption DEF Init, TypeOK
  <1> QED
    BY <1>1, <1>2 DEF Inv, Init, DeliveryLeft, AppliedMeansDone, AckedMeansDone

\* One message's delivery to one consumer changes, the others' stay.
LEMMA SetOne ==
    ASSUME TypeOK, NEW d \in Durables, NEW i \in DOMAIN log,
           NEW state \in DeliveryStates, NEW n \in 0..MaxDeliver, Set(d, i, state, n)
    PROVE  /\ delivery' \in [Durables -> Seq(Deliveries)]
           /\ \A c \in Durables : Len(delivery'[c]) = Len(delivery[c])
           /\ delivery'[d][i] = [state |-> state, deliveries |-> n]
           /\ \A c \in Durables : \A k \in DOMAIN log :
                 c # d \/ k # i => delivery'[c][k] = delivery[c][k]
  <1> DEFINE new == [state |-> state, deliveries |-> n]
  <1>1. new \in Deliveries
    BY DEF Deliveries
  <1>2. DOMAIN log = 1..Len(log) /\ Len(delivery[d]) = Len(log) /\ delivery[d] \in Seq(Deliveries)
    BY DEF TypeOK
  <1>3. i \in 1..Len(delivery[d])
    BY <1>2
  <1> HIDE DEF new
  <1>4. DEFINE changed == [delivery[d] EXCEPT ![i] = new]
  <1>5. changed \in Seq(Deliveries) /\ Len(changed) = Len(delivery[d])
    BY <1>1, <1>2, <1>3, ExceptSeq
  <1>6. changed[i] = new /\ \A k \in 1..Len(delivery[d]) : k # i => changed[k] = delivery[d][k]
    BY <1>1, <1>2, <1>3, ExceptSeq
  <1>7. delivery' = [delivery EXCEPT ![d] = changed]
    BY DEF Set, new
  <1> HIDE DEF changed
  <1>8. delivery' \in [Durables -> Seq(Deliveries)]
    BY <1>5, <1>7 DEF TypeOK
  <1>9. delivery'[d] = changed /\ \A c \in Durables : c # d => delivery'[c] = delivery[c]
    BY <1>7 DEF TypeOK
  <1> QED
    BY <1>2, <1>5, <1>6, <1>8, <1>9 DEF new

\* Effects are never taken back, and a message keeps its place.
LEMMA DoneStays ==
    ASSUME NEW d \in Durables, NEW i \in DOMAIN log, Done(d, i),
           i \in DOMAIN log', log'[i] = log[i], rows \subseteq rows', keys \subseteq keys'
    PROVE  Done(d, i)'
  BY DurableAssumption DEF Done, Recorded, Id

\* A step that leaves the stream alone and takes no effect back keeps the
\* invariant, if what it newly acknowledges and applies is done.
LEMMA Quiet ==
    ASSUME Inv, UNCHANGED log, now' \in 0..MaxTime, rows \subseteq rows', keys \subseteq keys',
           delivery' \in [Durables -> Seq(Deliveries)],
           \A c \in Durables : Len(delivery'[c]) = Len(delivery[c]),
           \A c \in Durables : \A k \in DOMAIN log :
              \/ delivery'[c][k] = delivery[c][k]
              \/ /\ delivery'[c][k].state = "pending" => delivery'[c][k].deliveries < MaxDeliver
                 /\ delivery'[c][k].state = "acked" => Done(c, k)',
           jobs' \subseteq Jobs,
           \A j \in jobs' : j.index \in DOMAIN log /\ (j \in jobs \/ (j.at = "applied" => Done(j.durable, j.index)')),
           window' \subseteq Requests, secret' \in [Processes -> Secrets],
           rows' \subseteq Events, keys' \subseteq Requests, usage' \in Nat
    PROVE  Inv'
  <1>1. \A c \in Durables, k \in DOMAIN log : Done(c, k) => Done(c, k)'
    BY DoneStays
  <1>2. TypeOK'
    BY DEF Inv, TypeOK
  <1>3. DeliveryLeft'
    BY DEF Inv, DeliveryLeft
  <1>4. AckedMeansDone'
    BY <1>1 DEF Inv, AckedMeansDone
  <1>5. AppliedMeansDone'
    <2> SUFFICES ASSUME NEW j \in jobs', j.at = "applied"
                 PROVE  Done(j.durable, j.index)'
      BY DEF AppliedMeansDone
    <2>1. j.durable \in Durables /\ j.index \in DOMAIN log
      BY DEF Jobs
    <2>2. CASE j \in jobs
      <3>1. Done(j.durable, j.index)
        BY <2>2 DEF Inv, AppliedMeansDone
      <3> QED
        BY <1>1, <2>1, <3>1
    <2> QED
      BY <2>2
  <1> QED
    BY <1>2, <1>3, <1>4, <1>5 DEF Inv

\* A new message: everybody still has to get it.
\* An event that is stored waits for every consumer; what was stored stays.
LEMMA Published ==
    ASSUME Inv, NEW e \in Events, Publish(e)
    PROVE  /\ log' \in Seq(Messages) /\ Len(log') = Len(log) + 1 /\ Len(log) \in Nat
           /\ DOMAIN log = 1..Len(log) /\ DOMAIN log' = 1..(Len(log) + 1)
           /\ \A i \in DOMAIN log : log'[i] = log[i]
           /\ delivery' \in [Durables -> Seq(Deliveries)]
           /\ \A d \in Durables : Len(delivery'[d]) = Len(log')
           /\ \A d \in Durables : delivery'[d][Len(log')] = Undelivered
           /\ \A d \in Durables : \A i \in DOMAIN log : delivery'[d][i] = delivery[d][i]
  <1> DEFINE new == [event |-> e, signedWith |-> secret["service"], at |-> now]
  <1>1. new \in Messages /\ Undelivered \in Deliveries /\ log \in Seq(Messages)
    BY DeliveryAssumption DEF Inv, TypeOK, Messages, Processes, Undelivered, Deliveries, DeliveryStates
  <1> HIDE DEF new
  <1>2. /\ log' \in Seq(Messages) /\ Len(log') = Len(log) + 1 /\ Len(log) \in Nat
        /\ DOMAIN log = 1..Len(log) /\ DOMAIN log' = 1..(Len(log) + 1)
        /\ \A i \in DOMAIN log : log'[i] = log[i]
    BY <1>1 DEF Publish, new
  <1>3. /\ delivery' \in [Durables -> Seq(Deliveries)]
        /\ \A d \in Durables : Len(delivery'[d]) = Len(log')
        /\ \A d \in Durables : delivery'[d][Len(log')] = Undelivered
        /\ \A d \in Durables : \A i \in DOMAIN log : delivery'[d][i] = delivery[d][i]
    <2>1. delivery' = [d \in Durables |-> Append(delivery[d], Undelivered)]
      BY DEF Publish
    <2>2. ASSUME NEW d \in Durables
          PROVE  /\ delivery'[d] \in Seq(Deliveries) /\ Len(delivery'[d]) = Len(log')
                 /\ delivery'[d][Len(log')] = Undelivered
                 /\ \A i \in DOMAIN log : delivery'[d][i] = delivery[d][i]
      <3>1. delivery[d] \in Seq(Deliveries) /\ Len(delivery[d]) = Len(log)
        BY DEF Inv, TypeOK
      <3>2. delivery'[d] = Append(delivery[d], Undelivered)
        BY <2>1
      <3> HIDE DEF Undelivered
      <3> QED
        BY <1>1, <1>2, <3>1, <3>2, AppendProperties
    <2> QED
      BY <2>1, <2>2
  <1> QED
    BY <1>2, <1>3

LEMMA PublishKeeps == ASSUME Inv, NEW e \in Events, Publish(e) PROVE Inv'
  <1>1. /\ log' \in Seq(Messages) /\ Len(log') = Len(log) + 1 /\ Len(log) \in Nat
        /\ DOMAIN log = 1..Len(log) /\ DOMAIN log' = 1..(Len(log) + 1)
        /\ \A i \in DOMAIN log : log'[i] = log[i]
        /\ delivery' \in [Durables -> Seq(Deliveries)]
        /\ \A d \in Durables : Len(delivery'[d]) = Len(log')
        /\ \A d \in Durables : delivery'[d][Len(log')] = Undelivered
        /\ \A d \in Durables : \A i \in DOMAIN log : delivery'[d][i] = delivery[d][i]
    BY Published
  <1>2. UNCHANGED <<now, secret, jobs, rows, keys, usage>> /\ window' = window \cup {RequestId[e]}
        /\ Len(log) < MaxLog
    BY DEF Publish
  <1>3. TypeOK'
    BY <1>1, <1>2, DeliveryAssumption DEF Inv, TypeOK, Requests
  <1>4. DeliveryLeft'
    BY <1>1, DeliveryAssumption DEF Inv, DeliveryLeft, Undelivered
  <1>5. \A d \in Durables, i \in DOMAIN log : Done(d, i) => Done(d, i)'
    BY <1>1, <1>2, DoneStays
  <1>6. AckedMeansDone'
    BY <1>1, <1>5 DEF Inv, AckedMeansDone, Undelivered
  <1>7. AppliedMeansDone'
    <2>1. \A j \in jobs : j.durable \in Durables
      BY DEF Inv, TypeOK, Jobs
    <2> QED
      BY <1>1, <1>2, <1>5, <2>1 DEF Inv, AppliedMeansDone
  <1> QED
    BY <1>3, <1>4, <1>6, <1>7 DEF Inv

\* The steps that change one delivery and have no effect.
LEMMA DeliverKeeps ==
    ASSUME Inv, NEW d \in Durables, NEW i \in DOMAIN log,
           NEW state \in DeliveryStates, NEW n \in 0..MaxDeliver, Set(d, i, state, n),
           state = "pending" => n < MaxDeliver, state = "acked" => Done(d, i),
           UNCHANGED <<now, log, window, secret, rows, keys, usage>>,
           jobs' \subseteq Jobs,
           \A j \in jobs' \ jobs : j.index \in DOMAIN log /\ j.at = "running"
    PROVE  Inv'
  <1> DEFINE new == [state |-> state, deliveries |-> n]
  <1>1. TypeOK
    BY DEF Inv
  <1>2. /\ delivery' \in [Durables -> Seq(Deliveries)]
        /\ \A c \in Durables : Len(delivery'[c]) = Len(delivery[c])
        /\ delivery'[d][i] = new
        /\ \A c \in Durables : \A k \in DOMAIN log :
             c # d \/ k # i => delivery'[c][k] = delivery[c][k]
    BY <1>1, SetOne
  <1>3. Done(d, i) => Done(d, i)'
    BY DoneStays
  <1>4. ASSUME NEW c \in Durables, NEW k \in DOMAIN log
        PROVE  \/ delivery'[c][k] = delivery[c][k]
               \/ /\ delivery'[c][k].state = "pending" => delivery'[c][k].deliveries < MaxDeliver
                  /\ delivery'[c][k].state = "acked" => Done(c, k)'
    <2>1. CASE c = d /\ k = i
      <3>1. delivery'[c][k].state = state /\ delivery'[c][k].deliveries = n
        BY <1>2, <2>1
      <3> QED
        BY <1>3, <2>1, <3>1
    <2> QED
      BY <1>2, <2>1
  <1>5. \A j \in jobs' : j.index \in DOMAIN log /\ (j \in jobs \/ (j.at = "applied" => Done(j.durable, j.index)'))
    BY DEF Inv, AppliedMeansDone
  <1>6. /\ now' \in 0..MaxTime /\ window' \subseteq Requests /\ secret' \in [Processes -> Secrets]
        /\ rows' \subseteq Events /\ keys' \subseteq Requests /\ usage' \in Nat
    BY DEF Inv, TypeOK
  <1> QED
    BY <1>2, <1>4, <1>5, <1>6, Quiet

\* What the server knows of a delivery.
LEMMA OpenDelivery ==
    ASSUME TypeOK, NEW d \in Durables, NEW i \in DOMAIN log
    PROVE  /\ delivery[d][i] \in Deliveries /\ delivery[d][i].state \in DeliveryStates
           /\ delivery[d][i].deliveries \in 0..MaxDeliver /\ i \in 1..MaxLog
  <1>1. DOMAIN log = 1..Len(log) /\ Len(log) \in Nat /\ Len(log) <= MaxLog
    BY DEF TypeOK
  <1>2. delivery[d] \in Seq(Deliveries) /\ Len(delivery[d]) = Len(log)
    BY DEF TypeOK
  <1>3. delivery[d][i] \in Deliveries
    BY <1>1, <1>2, ElementOfSeq
  <1> QED
    BY <1>1, <1>3, DeliveryAssumption DEF Deliveries

\* A message is handed out again only while deliveries are left.
LEMMA NakKeeps ==
    ASSUME Inv, NEW d \in Durables, NEW i \in DOMAIN log, Nak(d, i),
           UNCHANGED <<now, log, window, secret, rows, keys, usage>>, jobs' \subseteq jobs
    PROVE  Inv'
  <1> DEFINE n == delivery[d][i].deliveries
             state == IF n < MaxDeliver THEN "pending" ELSE "dead"
  <1>1. TypeOK /\ jobs' \subseteq Jobs
    BY DEF Inv, TypeOK
  <1>2. n \in 0..MaxDeliver /\ state \in DeliveryStates /\ (state = "pending" => n < MaxDeliver)
        /\ state # "acked"
    BY <1>1, OpenDelivery DEF DeliveryStates
  <1>3. Set(d, i, state, n)
    BY DEF Nak
  <1> HIDE DEF n, state
  <1> QED
    BY <1>1, <1>2, <1>3, DeliverKeeps

\* The stream and the effects stay as they are, no delivery changes.
LEMMA StillKeeps ==
    ASSUME Inv, UNCHANGED <<log, delivery, rows, keys, usage>>, now' \in 0..MaxTime,
           jobs' \subseteq jobs, window' \subseteq window, secret' \in [Processes -> Secrets]
    PROVE  Inv'
  <1>1. jobs' \subseteq Jobs /\ window' \subseteq Requests
        /\ rows' \subseteq Events /\ keys' \subseteq Requests /\ usage' \in Nat
        /\ delivery' \in [Durables -> Seq(Deliveries)]
    BY DEF Inv, TypeOK
  <1>2. \A j \in jobs' : j.index \in DOMAIN log /\ j \in jobs
    BY DEF Inv, AppliedMeansDone
  <1> QED
    BY <1>1, <1>2, Quiet

\* The effect is in before the job counts as applied.
LEMMA ApplyKeeps == ASSUME Inv, NEW j \in jobs, Apply(j) PROVE Inv'
  <1> DEFINE d == j.durable
             i == j.index
             fact == log[i].event
             after == [j EXCEPT !.at = "applied"]
  <1>1. j \in Jobs /\ d \in Durables /\ i \in DOMAIN log /\ log[i] \in Messages
    BY DEF Inv, TypeOK, AppliedMeansDone, Jobs
  <1>2. fact \in Events /\ Id(i) = RequestId[fact] /\ RequestId[fact] \in Requests
    BY <1>1 DEF Messages, Id, Requests
  <1>3. after \in Jobs /\ after.index = i /\ after.durable = d
    BY <1>1 DEF Jobs
  <1>4. jobs' = (jobs \ {j}) \cup {after} /\ UNCHANGED <<now, log, window, secret, delivery>>
        /\ Effect(d, fact)
    BY DEF Apply
  <1> HIDE DEF after
  <1>5. /\ rows \subseteq rows' /\ keys \subseteq keys'
        /\ rows' \subseteq Events /\ keys' \subseteq Requests /\ usage' \in Nat
    <2>0. rows \subseteq Events /\ keys \subseteq Requests /\ usage \in Nat
      BY DEF Inv, TypeOK
    <2> HIDE DEF d, fact
    <2>1. CASE record(fact)
      BY <1>2, <2>0, <2>1 DEF record
    <2>2. CASE track(fact)
      BY <1>2, <2>0, <2>2 DEF track
    <2>3. CASE UNCHANGED <<rows, keys, usage>>
      BY <2>0, <2>3
    <2> QED
      BY <1>4, <2>1, <2>2, <2>3, Zenon DEF Effect
  <1>6. Done(d, i)'
    <2> i \in DOMAIN log' /\ log'[i].event = fact /\ Id(i)' = RequestId[fact]
      BY <1>1, <1>2, <1>4 DEF Id
    <2>1. CASE d = "audit-trail"
      <3>1. record(fact)
        BY <1>4, <2>1, Zenon DEF Effect
      <3>2. \E e \in rows' : RequestId[e] = RequestId[fact]
        BY <3>1 DEF record
      <3>3. Recorded(i)'
        BY <1>1, <1>2, <1>4, <3>2 DEF Recorded
      <3> QED
        BY <2>1, <3>3 DEF Done
    <2>2. CASE d = "billing-meter"
      <3>1. CASE fact \in Consumes
        <4>1. track(fact)
          BY <1>4, <2>2, <3>1 DEF Effect
        <4>2. RequestId[fact] \in keys'
          BY <4>1 DEF track
        <4> QED
          BY <1>1, <1>2, <1>4, <2>2, <4>2 DEF Done
      <3>2. CASE fact \notin Consumes
        BY <1>1, <1>2, <1>4, <2>2, <3>2 DEF Done
      <3> QED
        BY <3>1, <3>2
    <2> QED
      BY <1>1, <2>1, <2>2, DurableAssumption
  <1>7. jobs' \subseteq Jobs
    BY <1>3, <1>4 DEF Inv, TypeOK
  <1>8. \A k \in jobs' : k.index \in DOMAIN log /\ (k \in jobs \/ (k.at = "applied" => Done(k.durable, k.index)'))
    BY <1>1, <1>3, <1>4, <1>6 DEF Inv, AppliedMeansDone
  <1>9. /\ now' \in 0..MaxTime /\ window' \subseteq Requests /\ secret' \in [Processes -> Secrets]
        /\ delivery' \in [Durables -> Seq(Deliveries)]
    BY <1>4 DEF Inv, TypeOK
  <1> QED
    BY <1>4, <1>5, <1>7, <1>8, <1>9, Quiet

\* What is aged out was not acknowledged, and is handed out no more.
LEMMA ExpireKeeps == ASSUME Inv, NEW i \in 1..MaxLog, Expire(i) PROVE Inv'
  <1>1. /\ i \in DOMAIN log /\ UNCHANGED <<now, log, window, secret, jobs, rows, keys, usage>>
        /\ TypeOK
    BY DEF Expire, Inv
  <1> DEFINE gone(d) == [state |-> "expired", deliveries |-> delivery[d][i].deliveries]
             after(d) == IF delivery[d][i].state \in Unsettled
                         THEN [delivery[d] EXCEPT ![i] = gone(d)] ELSE delivery[d]
  <1>2. delivery' = [d \in Durables |-> after(d)]
    BY DEF Expire
  <1>3. ASSUME NEW d \in Durables
        PROVE  /\ after(d) \in Seq(Deliveries) /\ Len(after(d)) = Len(delivery[d])
               /\ \A k \in DOMAIN log : after(d)[k] = delivery[d][k] \/ after(d)[k].state = "expired"
    <2>1. gone(d) \in Deliveries /\ gone(d).state = "expired"
      BY <1>1, OpenDelivery DEF Deliveries, DeliveryStates
    <2>2. DOMAIN log = 1..Len(log) /\ Len(delivery[d]) = Len(log) /\ delivery[d] \in Seq(Deliveries)
      BY <1>1 DEF TypeOK
    <2> HIDE DEF gone
    <2> DEFINE changed == [delivery[d] EXCEPT ![i] = gone(d)]
    <2>3. /\ changed \in Seq(Deliveries) /\ Len(changed) = Len(delivery[d])
          /\ changed[i] = gone(d)
          /\ \A k \in 1..Len(delivery[d]) : k # i => changed[k] = delivery[d][k]
      BY <1>1, <2>1, <2>2, ExceptSeq
    <2> QED
      BY <2>1, <2>2, <2>3
  <1> HIDE DEF after
  <1>4. \A d \in Durables : delivery'[d] = after(d)
    BY <1>2
  <1>5. delivery' \in [Durables -> Seq(Deliveries)]
    BY <1>2, <1>3
  <1>6. \A j \in jobs' : j.index \in DOMAIN log /\ j \in jobs
    BY <1>1 DEF Inv, AppliedMeansDone
  <1>7. /\ now' \in 0..MaxTime /\ window' \subseteq Requests /\ secret' \in [Processes -> Secrets]
        /\ rows' \subseteq Events /\ keys' \subseteq Requests /\ usage' \in Nat
        /\ jobs' \subseteq Jobs /\ rows \subseteq rows' /\ keys \subseteq keys'
    BY <1>1 DEF TypeOK
  <1>8. ASSUME NEW c \in Durables, NEW k \in DOMAIN log
        PROVE  \/ delivery'[c][k] = delivery[c][k]
               \/ delivery'[c][k].state \notin {"pending", "acked"}
    BY <1>3, <1>4
  <1> QED
    BY <1>1, <1>3, <1>4, <1>5, <1>6, <1>7, <1>8, Quiet

LEMMA NextInv == Inv /\ [Next]_vars => Inv'
  <1> SUFFICES ASSUME Inv, [Next]_vars PROVE Inv'
    OBVIOUS
  <1>0. TypeOK /\ secret \in [Processes -> Secrets] /\ jobs \subseteq Jobs /\ now \in 0..MaxTime
    BY DEF Inv, TypeOK
  <1>1. CASE \E e \in Events : Publish(e)
    BY <1>1, PublishKeeps
  <1>2. CASE \E r \in window : Forget(r)
    BY <1>0, <1>2, StillKeeps DEF Forget
  <1>3. CASE \E p \in Processes : Rotate(p)
    <2>1. secret' \in [Processes -> Secrets]
      BY <1>0, <1>3 DEF Rotate
    <2> QED
      BY <1>0, <1>3, <2>1, StillKeeps DEF Rotate
  <1>4. CASE \E d \in Durables, i \in 1..MaxLog : Consumer(d, i)
    <2>1. PICK d \in Durables, i \in 1..MaxLog : Consumer(d, i)
      BY <1>4
    <2>2. i \in DOMAIN log
      BY <2>1 DEF Consumer
    <2> DEFINE n == delivery[d][i].deliveries
    <2>3. n \in 0..MaxDeliver /\ i \in 1..MaxLog /\ MaxDeliver \in Nat
      BY <1>0, <2>2, OpenDelivery, DeliveryAssumption
    <2>4. delivery[d][i].state = "pending" => n + 1 \in 1..MaxDeliver /\ n + 1 \in 0..MaxDeliver
      BY <2>2, <2>3 DEF Inv, DeliveryLeft
    <2>5. CASE Take(d, i)
      <3> DEFINE job == [durable |-> d, index |-> i, at |-> "running", attempt |-> n + 1]
      <3>1. n + 1 \in 0..MaxDeliver /\ Set(d, i, "inflight", n + 1) /\ job \in Jobs
            /\ jobs' = jobs \cup {job}
        BY <2>3, <2>4, <2>5 DEF Take, Jobs
      <3>2. "inflight" \in DeliveryStates /\ job.index = i /\ job.at = "running"
        BY DEF DeliveryStates
      <3>3. UNCHANGED <<now, log, window, secret, rows, keys, usage>>
        BY <2>5 DEF Take
      <3> HIDE DEF job
      <3>4. jobs' \subseteq Jobs /\ \A j \in jobs' \ jobs : j.index \in DOMAIN log /\ j.at = "running"
        BY <1>0, <2>2, <3>1, <3>2
      <3> HIDE DEF n
      <3> QED
        BY <2>2, <3>1, <3>2, <3>3, <3>4, DeliverKeeps
    <2>6. CASE Drop(d, i)
      <3>1. n + 1 \in 0..MaxDeliver /\ Set(d, i, "dropped", n + 1) /\ "dropped" \in DeliveryStates
        BY <2>4, <2>6 DEF Drop, DeliveryStates
      <3>2. UNCHANGED <<now, log, window, secret, jobs, rows, keys, usage>>
        BY <2>6 DEF Drop
      <3>3. jobs' \subseteq Jobs /\ jobs' \ jobs = {}
        BY <1>0, <3>2
      <3> HIDE DEF n
      <3> QED
        BY <2>2, <3>1, <3>2, <3>3, DeliverKeeps
    <2>7. CASE AckWait(d, i)
      BY <2>2, <2>7, NakKeeps DEF AckWait
    <2> QED
      BY <2>1, <2>5, <2>6, <2>7 DEF Consumer
  <1>5. CASE \E j \in jobs : Handle(j)
    <2>1. PICK j \in jobs : Handle(j)
      BY <1>5
    <2> DEFINE d == j.durable
               i == j.index
    <2>2. d \in Durables /\ i \in DOMAIN log
      BY <1>0 DEF Inv, AppliedMeansDone, Jobs
    <2>3. CASE Apply(j)
      BY <2>3, ApplyKeeps
    <2>4. CASE Ack(j)
      <3>1. Done(d, i) /\ jobs' \subseteq jobs /\ UNCHANGED <<now, log, window, secret, rows, keys, usage>>
        BY <2>4 DEF Ack, Inv, AppliedMeansDone
      <3>2. CASE Open(j).state \in Unsettled
        <4> DEFINE n == delivery[d][i].deliveries
        <4>1. Set(d, i, "acked", n) /\ n \in 0..MaxDeliver /\ "acked" \in DeliveryStates
          BY <1>0, <2>2, <2>4, <3>2, OpenDelivery DEF Ack, Open, DeliveryStates
        <4>2. jobs' \subseteq Jobs /\ jobs' \ jobs = {}
          BY <1>0, <3>1
        <4> HIDE DEF n, d, i
        <4> QED
          BY <2>2, <3>1, <4>1, <4>2, DeliverKeeps
      <3>3. CASE Open(j).state \notin Unsettled
        BY <1>0, <2>4, <3>1, <3>3, StillKeeps DEF Ack
      <3> QED
        BY <3>2, <3>3
    <2>5. CASE Fail(j)
      <3>1. jobs' \subseteq jobs /\ UNCHANGED <<now, log, window, secret, rows, keys, usage>>
        BY <2>5 DEF Fail
      <3>2. CASE Nak(d, i)
        <4> HIDE DEF d, i
        <4> QED
          BY <2>2, <3>1, <3>2, NakKeeps
      <3>3. CASE UNCHANGED delivery
        BY <1>0, <3>1, <3>3, StillKeeps
      <3> QED
        BY <2>5, <3>2, <3>3 DEF Fail
    <2>6. CASE Crash(j)
      BY <1>0, <2>6, StillKeeps DEF Crash
    <2> QED
      BY <2>1, <2>3, <2>4, <2>5, <2>6 DEF Handle
  <1>6. CASE UNCHANGED vars
    BY <1>0, <1>6, StillKeeps DEF vars, Inv, TypeOK
  <1>7. CASE Tick
    <2>1. now' \in 0..MaxTime
      BY <1>0, <1>7, AgeAssumption DEF Tick
    <2> QED
      BY <1>0, <1>7, <2>1, StillKeeps DEF Tick
  <1>8. CASE \E i \in 1..MaxLog : Expire(i)
    BY <1>8, ExpireKeeps
  <1> QED
    BY <1>1, <1>2, <1>3, <1>4, <1>5, <1>6, <1>7, <1>8 DEF Next

LEMMA Invariance == Spec => []Inv
  BY InitInv, NextInv, PTL DEF Spec

\* No message is handed out more than max_deliver times and no consumer's
\* record of a message outgrows the stream (transport/src/serve.ts).
THEOREM TypeCorrect == Spec => []TypeOK
  <1>1. Inv => TypeOK
    BY DEF Inv
  <1> QED
    BY <1>1, Invariance, PTL

\* A consumer that acknowledged a message has had its effect, although the
\* delivery a late acknowledgement closes may be another than the one handled
\* (transport/src/serve.ts, consume).
THEOREM AcknowledgedIsDone == Spec => []AckedMeansDone
  <1>1. Inv => AckedMeansDone
    BY DEF Inv
  <1> QED
    BY <1>1, Invariance, PTL
-----------------------------------------------------------------------------
(* How an event can be lost *)

\* A consumer is done with a message it has not acknowledged only after
\* max_deliver deliveries, because the stream kept it for max_age, or because a
\* process no longer has the secret it started with.
Rotated(first) == \E p \in Processes : secret[p] > first

Spared(first, d, i) ==
    /\ delivery[d][i].state = "dead" => delivery[d][i].deliveries = MaxDeliver
    /\ delivery[d][i].state = "dropped" => Rotated(first)
    /\ delivery[d][i].state = "expired" => now - log[i].at >= MaxAge

\* Secrets only move on, and a message was signed with one the service had.
SecretsMoveOn(first) ==
    /\ \A p \in Processes : secret[p] >= first
    /\ \A i \in DOMAIN log : log[i].signedWith \in first..secret["service"]

SpareInv(first) ==
    /\ SecretsMoveOn(first)
    /\ \A d \in Durables, i \in DOMAIN log : Spared(first, d, i)

LEMMA SpareSet ==
    ASSUME NEW first \in Secrets, Inv, SpareInv(first), NEW d \in Durables, NEW i \in DOMAIN log,
           NEW state \in DeliveryStates, NEW n \in 0..MaxDeliver, Set(d, i, state, n),
           log' = log, secret' = secret,
           now' = now, state = "dead" => n = MaxDeliver, state = "dropped" => Rotated(first),
           state # "expired"
    PROVE  SpareInv(first)'
  <1> DEFINE new == [state |-> state, deliveries |-> n]
  <1>0. TypeOK
    BY DEF Inv
  <1>1. /\ delivery'[d][i] = new
        /\ \A c \in Durables : \A k \in DOMAIN log :
             c # d \/ k # i => delivery'[c][k] = delivery[c][k]
    BY <1>0, SetOne
  <1>2. new.state = state /\ new.deliveries = n
    OBVIOUS
  <1> HIDE DEF new
  <1>3. ASSUME NEW c \in Durables, NEW k \in DOMAIN log PROVE Spared(first, c, k)'
    <2>1. CASE c = d /\ k = i
      BY <1>1, <1>2, <2>1 DEF Spared, Rotated
    <2>2. CASE c # d \/ k # i
      BY <1>1, <2>2 DEF Spared, Rotated, SpareInv
    <2> QED
      BY <2>1, <2>2
  <1> QED
    BY <1>3 DEF SpareInv, SecretsMoveOn

LEMMA SpareNak ==
    ASSUME NEW first \in Secrets, Inv, SpareInv(first), NEW d \in Durables, NEW i \in DOMAIN log,
           Nak(d, i), now' = now, log' = log, secret' = secret
    PROVE  SpareInv(first)'
  <1> DEFINE n == delivery[d][i].deliveries
             state == IF n < MaxDeliver THEN "pending" ELSE "dead"
  <1>1. n \in 0..MaxDeliver /\ state \in {"pending", "dead"} /\ (state = "dead" => n = MaxDeliver)
    BY OpenDelivery, DeliveryAssumption DEF Inv
  <1>2. Set(d, i, state, n) /\ state \in DeliveryStates
    BY <1>1 DEF Nak, DeliveryStates
  <1> HIDE DEF n, state
  <1> QED
    BY <1>1, <1>2, SpareSet

\* A message is distrusted only after a rotation, of its signer or its reader.
LEMMA Distrusted ==
    ASSUME NEW first \in Secrets, TypeOK, SecretsMoveOn(first),
           NEW d \in Durables, NEW i \in DOMAIN log, log[i].signedWith # secret[d]
    PROVE  Rotated(first)
  <1>1. "service" \in Processes /\ d \in Processes
    BY DEF Processes
  <1>2. first \in Nat /\ secret["service"] \in Nat /\ secret[d] \in Nat
    BY <1>1, SecretAssumption DEF TypeOK
  <1>3. log[i].signedWith \in Nat /\ first <= log[i].signedWith
        /\ log[i].signedWith <= secret["service"] /\ secret[d] >= first
    BY <1>1, <1>2 DEF SecretsMoveOn
  <1>4. secret[d] > first \/ secret["service"] > first
    BY <1>2, <1>3
  <1> QED
    BY <1>1, <1>4 DEF Rotated

LEMMA StoredAt == ASSUME TypeOK, NEW i \in DOMAIN log PROVE log[i].at \in Int
  <1>1. log[i] \in Messages
    BY DEF TypeOK
  <1> QED
    BY <1>1, AgeAssumption DEF Messages

LEMMA SpareStep ==
    ASSUME NEW first \in Secrets, Inv, SpareInv(first), [Next]_vars
    PROVE  SpareInv(first)'
  <1>0. TypeOK /\ log \in Seq(Messages) /\ secret \in [Processes -> Secrets] /\ jobs \subseteq Jobs
        /\ SecretsMoveOn(first)
    BY DeliveryAssumption DEF Inv, TypeOK, SpareInv
  <1>1. ASSUME NEW e \in Events, Publish(e) PROVE SpareInv(first)'
    <2>1. secret' = secret /\ log' = Append(log, [event |-> e, signedWith |-> secret["service"], at |-> now])
          /\ now' = now
      BY <1>1 DEF Publish
    <2>2. SecretsMoveOn(first)'
      <3>1. "service" \in Processes /\ secret["service"] \in Nat /\ first \in Nat
        BY <1>0, SecretAssumption DEF Processes
      <3>2. secret["service"] \in first..secret["service"]
        BY <1>0, <3>1 DEF SecretsMoveOn
      <3>3. ASSUME NEW i \in DOMAIN log' PROVE log'[i].signedWith \in first..secret["service"]
        <4>1. \/ i \in DOMAIN log /\ log'[i] = log[i]
              \/ log'[i] = [event |-> e, signedWith |-> secret["service"], at |-> now]
          BY <1>0, <2>1, <3>3
        <4> QED
          BY <1>0, <3>2, <4>1 DEF SecretsMoveOn
      <3> QED
        BY <1>0, <2>1, <3>3 DEF SecretsMoveOn
    <2>3. ASSUME NEW d \in Durables, NEW i \in DOMAIN log' PROVE Spared(first, d, i)'
      <3>1. i \in DOMAIN log \/ i = Len(log')
        BY <1>1, Published
      <3>2. \/ delivery'[d][i] = Undelivered
            \/ i \in DOMAIN log /\ delivery'[d][i] = delivery[d][i] /\ log'[i] = log[i]
        BY <1>1, <3>1, Published
      <3> QED
        BY <2>1, <3>2 DEF Spared, Rotated, SpareInv, Undelivered
    <2> QED
      BY <2>2, <2>3 DEF SpareInv
  <1>2. ASSUME now' = now, log' = log, delivery' = delivery, secret' = secret PROVE SpareInv(first)'
    BY <1>2 DEF SpareInv, SecretsMoveOn, Spared, Rotated
  <1>3. ASSUME NEW p \in Processes, Rotate(p) PROVE SpareInv(first)'
    <2>1. now' = now /\ log' = log /\ delivery' = delivery /\ secret' \in [Processes -> Secrets]
          /\ \A q \in Processes : secret'[q] = secret[q] \/ secret'[q] > secret[q]
      BY <1>0, <1>3 DEF Rotate
    <2>2. \A q \in Processes : secret[q] \in Nat /\ secret'[q] \in Nat
      BY <1>0, <2>1, SecretAssumption
    <2>3. first \in Nat /\ "service" \in Processes
      BY SecretAssumption DEF Processes
    <2>4. \A q \in Processes : secret'[q] >= secret[q]
      BY <2>1, <2>2
    <2>5. Rotated(first) => Rotated(first)'
      BY <2>2, <2>3, <2>4 DEF Rotated
    <2>6. \A q \in Processes : secret'[q] >= first
      BY <1>0, <2>2, <2>3, <2>4 DEF SecretsMoveOn
    <2>7. \A x \in first..secret["service"] : x \in first..secret'["service"]
      BY <2>2, <2>3, <2>4
    <2>8. SecretsMoveOn(first)'
      BY <1>0, <2>1, <2>6, <2>7 DEF SecretsMoveOn
    <2> QED
      BY <2>1, <2>5, <2>8 DEF SpareInv, Spared
  <1>4. ASSUME NEW d \in Durables, NEW i \in 1..MaxLog, Consumer(d, i) PROVE SpareInv(first)'
    <2> DEFINE n == delivery[d][i].deliveries
    <2>1. i \in DOMAIN log /\ n \in 0..MaxDeliver
          /\ (delivery[d][i].state = "pending" => n + 1 \in 0..MaxDeliver)
      BY <1>0, <1>4, OpenDelivery, DeliveryAssumption DEF Consumer, Inv, DeliveryLeft
    <2>2. CASE Take(d, i)
      <3>1. n + 1 \in 0..MaxDeliver /\ Set(d, i, "inflight", n + 1) /\ now' = now /\ log' = log
            /\ secret' = secret /\ "inflight" \in DeliveryStates
        BY <2>1, <2>2 DEF Take, DeliveryStates
      <3> HIDE DEF n
      <3> QED
        BY <2>1, <3>1, SpareSet
    <2>3. CASE Drop(d, i)
      <3>1. n + 1 \in 0..MaxDeliver /\ Set(d, i, "dropped", n + 1) /\ now' = now /\ log' = log
            /\ secret' = secret /\ log[i].signedWith # secret[d] /\ "dropped" \in DeliveryStates
        BY <2>1, <2>3 DEF Drop, DeliveryStates
      <3>2. Rotated(first)
        BY <1>0, <2>1, <3>1, Distrusted
      <3> HIDE DEF n
      <3> QED
        BY <2>1, <3>1, <3>2, SpareSet
    <2>4. CASE AckWait(d, i)
      BY <2>1, <2>4, SpareNak DEF AckWait
    <2> QED
      BY <1>4, <2>2, <2>3, <2>4 DEF Consumer
  <1>5. ASSUME NEW j \in jobs, Handle(j) PROVE SpareInv(first)'
    <2> DEFINE d == j.durable
               i == j.index
    <2>1. d \in Durables /\ i \in DOMAIN log
      BY <1>0 DEF Inv, AppliedMeansDone, Jobs
    <2>2. CASE Ack(j) /\ delivery' # delivery
      <3> DEFINE n == delivery[d][i].deliveries
      <3>1. Set(d, i, "acked", n) /\ n \in 0..MaxDeliver /\ "acked" \in DeliveryStates
            /\ now' = now /\ log' = log /\ secret' = secret
        BY <1>0, <2>1, <2>2, OpenDelivery DEF Ack, Open, DeliveryStates
      <3> HIDE DEF n, d, i
      <3> QED
        BY <2>1, <3>1, SpareSet
    <2>3. CASE Fail(j) /\ delivery' # delivery
      <3>1. Nak(d, i) /\ now' = now /\ log' = log /\ secret' = secret
        BY <2>3 DEF Fail
      <3> HIDE DEF d, i
      <3> QED
        BY <2>1, <3>1, SpareNak
    <2>4. CASE delivery' = delivery
      BY <1>2, <1>5, <2>4 DEF Handle, Apply, Ack, Fail, Crash
    <2> QED
      BY <1>5, <2>2, <2>3, <2>4 DEF Handle, Apply, Crash
  <1>6. ASSUME Tick PROVE SpareInv(first)'
    <2>1. now \in Int /\ now' = now + 1 /\ log' = log /\ delivery' = delivery /\ secret' = secret
      BY <1>0, <1>6, AgeAssumption DEF Tick, TypeOK
    <2>2. ASSUME NEW i \in DOMAIN log PROVE log[i].at \in Int
      BY <1>0, StoredAt
    <2>3. ASSUME NEW d \in Durables, NEW i \in DOMAIN log PROVE Spared(first, d, i)'
      BY <2>1, <2>2, AgeAssumption DEF Spared, Rotated, SpareInv
    <2> QED
      BY <1>0, <2>1, <2>3 DEF SpareInv, SecretsMoveOn
  <1>7. ASSUME NEW i \in 1..MaxLog, Expire(i) PROVE SpareInv(first)'
    <2>1. /\ i \in DOMAIN log /\ UNCHANGED <<now, log, secret>>
          /\ now >= log[i].at + MaxAge /\ now \in Int
      BY <1>0, <1>7, AgeAssumption DEF Expire, TypeOK
    <2>4. log[i].at \in Int
      BY <1>0, <2>1, StoredAt
    <2>2. ASSUME NEW d \in Durables, NEW k \in DOMAIN log
          PROVE  \/ delivery'[d][k] = delivery[d][k]
                 \/ k = i /\ delivery'[d][k].state = "expired"
      <3>1. \/ delivery'[d] = delivery[d]
            \/ delivery'[d] = [delivery[d] EXCEPT ![i] =
                                  [state |-> "expired", deliveries |-> delivery[d][i].deliveries]]
        BY <1>7 DEF Expire
      <3>2. k \in DOMAIN delivery[d] /\ i \in DOMAIN delivery[d]
        BY <1>0, <2>1 DEF TypeOK
      <3> QED
        BY <3>1, <3>2
    <2>3. ASSUME NEW d \in Durables, NEW k \in DOMAIN log PROVE Spared(first, d, k)'
      BY <2>1, <2>2, <2>4, AgeAssumption DEF Spared, Rotated, SpareInv
    <2> QED
      BY <1>0, <2>1, <2>3 DEF SpareInv, SecretsMoveOn
  <1> QED
    BY <1>1, <1>2, <1>3, <1>4, <1>5, <1>6, <1>7 DEF Next, Forget, vars

\* No stored event is lost quietly: a consumer leaves one unhandled only after
\* max_deliver deliveries, once the stream has kept it for max_age, or, its
\* signature not verifying, after a process was restarted with another
\* ENVELOPE_SECRET than all of them started with (streams.ts; serve.ts, consume;
\* service.ts, defineConsumer).
THEOREM NoEventIsLost ==
    ASSUME NEW first \in Secrets
    PROVE  Spec /\ secret = [p \in Processes |-> first] => []SpareInv(first)
  <1>1. Init /\ secret = [p \in Processes |-> first] => SpareInv(first)
    BY SecretAssumption DEF Init, SpareInv, SecretsMoveOn
  <1>2. Inv /\ SpareInv(first) /\ [Next]_vars => SpareInv(first)'
    BY SpareStep
  <1> QED
    BY <1>1, <1>2, Invariance, PTL DEF Spec
=============================================================================

--------------------------- MODULE RateLimitProofs ---------------------------
(***************************************************************************)
(* The rate limiter keeps its promises for any number of calls, tenants    *)
(* and processes, any maximum and any window, in either store.             *)
(***************************************************************************)
EXTENDS RateLimit, FiniteSetTheorems, TLAPS

-----------------------------------------------------------------------------
(* Arithmetic of windows and seconds *)

LEMMA WindowStart ==
    ASSUME NEW t \in Nat
    PROVE  windowStart(t) \in Nat /\ windowStart(t) <= t /\ t < windowStart(t) + Window
  BY LimitAssumption DEF windowStart

LEMMA Multiples ==
    ASSUME NEW m \in Nat, NEW n \in Nat, m < n
    PROVE  m * Window + Window <= n * Window
  <1>1. PICK k \in Nat : n = m + 1 + k
    <2> n - m - 1 \in Nat /\ n = m + 1 + (n - m - 1)
      OBVIOUS
    <2> QED
      OBVIOUS
  <1>2. n * Window = m * Window + Window + k * Window /\ k * Window >= 0
    BY <1>1, LimitAssumption
  <1> QED
    BY <1>2, LimitAssumption

\* Two instants of one store begin windows that are one and the same, or do
\* not overlap.
LEMMA WindowsApart ==
    ASSUME NEW s \in Nat, NEW t \in Nat
    PROVE  \/ windowStart(s) = windowStart(t)
           \/ windowStart(s) + Window <= windowStart(t)
           \/ windowStart(t) + Window <= windowStart(s)
  <1> DEFINE m == s \div Window
             n == t \div Window
  <1>1. m \in Nat /\ n \in Nat
    BY LimitAssumption
  <1>2. windowStart(s) = m * Window /\ windowStart(t) = n * Window
    BY DEF windowStart
  <1> HIDE DEF m, n
  <1>3. m = n \/ m < n \/ n < m
    BY <1>1
  <1> QED
    BY <1>1, <1>2, <1>3, Multiples

LEMMA Ceiling ==
    ASSUME NEW n \in Nat, n > 0
    PROVE  ceilSeconds(n) \in Nat /\ ceilSeconds(n) > 0 /\ ceilSeconds(n) * Second >= n
  <1> DEFINE q == (n + Second - 1) \div Second
             r == (n + Second - 1) % Second
  <1>1. n + Second - 1 = Second * q + r /\ r \in 0..(Second - 1) /\ q \in Int
    BY LimitAssumption
  <1>2. ceilSeconds(n) = q
    BY DEF ceilSeconds
  <1> HIDE DEF q, r
  <1>3. Second * q >= n
    BY <1>1, LimitAssumption
  <1>4. Second * q = q * Second
    BY <1>1, LimitAssumption
  <1>5. q > 0
    BY <1>1, <1>3, LimitAssumption
  <1> QED
    BY <1>1, <1>2, <1>3, <1>4, <1>5

-----------------------------------------------------------------------------
(* The inductive invariant *)

Counted(c) == call[c].pc \in {"incremented", "admitted", "refused"}

\* Counted before its window was over.
InTime(c) == call[c].pc = "incremented" \/ call[c].countedAt < resetAt(call[c].counter)

\* c was the r-th increment of counter b.
RankedIn(calls, c, b, r) ==
    calls[c].pc \notin {"idle", "asking"} /\ calls[c].counter = b /\ calls[c].rank = r

Ranked(c, b, r) == RankedIn(call, c, b, r)

\* One counter per tenant and window: the same one, or none of its instants.
Apart(b, d) ==
    b.at = d.at /\ b.key = d.key =>
        b.start = d.start \/ b.start + Window <= d.start \/ d.start + Window <= b.start

\* A call falls into the window of its counter.
CallsInv ==
    \A c \in Calls : call[c].pc # "idle" =>
        LET b == call[c].counter
        IN  /\ b.key = key(call[c].org)
            /\ b.start <= call[c].at /\ call[c].at < resetAt(b) /\ call[c].at <= now
            /\ call[c].pc = "incremented" => call[c].at = now /\ store = "memory"
            /\ call[c].pc \in {"asking", "failedOpen"} => store = Redis
            /\ store = "memory" => b.at \in Gateways /\ count[b] > 0
            /\ store = Redis => b.at = Redis /\ b.start = windowStart(call[c].at)

\* A counter in memory was begun when the one before it was over.
MemoryInv ==
    store = "memory" =>
        /\ \A b \in Counters : count[b] > 0 => b.start <= now
        /\ \A b, d \in Counters : count[b] > 0 /\ count[d] > 0 => Apart(b, d)

\* Redis does not forget a counter before its window is over.
ExpiryInv == store = Redis => \A b \in Counters : count[b] > 0 => expires[b] >= resetAt(b)

\* While a window lasts, nobody's rank is above the count.
RankInv ==
    \A c \in Calls : Counted(c) =>
        /\ call[c].rank >= 1
        /\ InTime(c) /\ now < resetAt(call[c].counter) => call[c].rank <= count[call[c].counter]
        /\ InTime(c) /\ call[c].pc = "admitted" => call[c].rank <= Max

RanksDiffer ==
    \A c, d \in Calls :
        /\ c # d /\ Counted(c) /\ Counted(d) /\ InTime(c) /\ InTime(d)
        /\ call[c].counter = call[d].counter
        => call[c].rank # call[d].rank

\* Every increment is somebody's.
CoverInv ==
    \A b \in Counters : \A r \in 1..count[b] : \E d \in Calls : Ranked(d, b, r)

RefusedInv ==
    \A c \in Calls : call[c].pc = "refused" =>
        /\ \A r \in 1..(Max + 1) : \E d \in Calls : Ranked(d, call[c].counter, r)
        /\ call[c].retryAfter > 0
        /\ call[c].at + call[c].retryAfter * Second >= resetAt(call[c].counter)

Inv ==
    /\ TypeOK /\ CallsInv /\ MemoryInv /\ ExpiryInv
    /\ RankInv /\ RanksDiffer /\ CoverInv /\ RefusedInv

\* What TypeOK says of a call's fields.
LEMMA Fields ==
    ASSUME TypeOK, NEW c \in Calls, call[c].pc # "idle"
    PROVE  /\ call[c].org \in Organizations /\ call[c].at \in Nat
           /\ call[c].counter \in Counters
           /\ call[c].pc \in {"asking", "incremented", "failedOpen", "admitted", "refused"}
           /\ call[c].pc # "asking" => call[c].rank \in Nat
           /\ call[c].pc \in {"admitted", "refused"} =>
                call[c].countedAt \in Nat /\ call[c].retryAfter \in Nat
  <1> call[c] # Idle
    BY DEF Idle
  <1> QED
    BY DEF TypeOK

LEMMA CounterType ==
    ASSUME NEW b \in Counters
    PROVE  b.start \in Nat /\ b.start <= MaxTime /\ b.key \in Keys /\ b.at \in Places
           /\ resetAt(b) \in Nat /\ resetAt(b) = b.start + Window /\ resetAt(b) > b.start
  BY LimitAssumption DEF Counters, resetAt

LEMMA InitInv == Init => Inv
  <1> SUFFICES ASSUME Init PROVE Inv
    OBVIOUS
  <1> USE DEF Init
  <1>1. TypeOK
    BY LimitAssumption DEF TypeOK
  <1>2. \A c \in Calls : call[c].pc = "idle"
    BY DEF Idle
  <1>3. \A b \in Counters : count[b] = 0
    OBVIOUS
  <1> QED
    BY <1>1, <1>2, <1>3
    DEF Inv, CallsInv, MemoryInv, ExpiryInv, RankInv, RanksDiffer, CoverInv, RefusedInv, Counted

-----------------------------------------------------------------------------
(* The steps *)

\* Ranks and counters of the other calls are left alone, and a call keeps its
\* own: an increment stays somebody's.
LEMMA RankedStays ==
    ASSUME NEW c \in Calls, \A d \in Calls : d # c => call'[d] = call[d],
           \/ call[c].pc \in {"idle", "asking"}
           \/ /\ call'[c].pc \notin {"idle", "asking"}
              /\ call'[c].counter = call[c].counter /\ call'[c].rank = call[c].rank,
           NEW d \in Calls, NEW b, NEW r, Ranked(d, b, r)
    PROVE  Ranked(d, b, r)'
  BY DEF Ranked, RankedIn

LEMMA TickKeeps == ASSUME Inv, Tick PROVE Inv'
  <1> now' = now + 1 /\ UNCHANGED <<store, count, expires, call>> /\ now \in Nat /\ now' <= MaxTime
    BY LimitAssumption DEF Inv, Tick, TypeOK
  <1>1. TypeOK'
    BY LimitAssumption DEF Inv, TypeOK
  <1>2. CallsInv'
    <2> SUFFICES ASSUME NEW c \in Calls, call[c].pc # "idle"
                 PROVE  LET b == call[c].counter
                        IN  /\ b.key = key(call[c].org)
                            /\ b.start <= call[c].at /\ call[c].at < resetAt(b) /\ call[c].at <= now'
                            /\ call[c].pc = "incremented" => call[c].at = now' /\ store = "memory"
                            /\ call[c].pc \in {"asking", "failedOpen"} => store = Redis
                            /\ store = "memory" => b.at \in Gateways /\ count[b] > 0
                            /\ store = Redis => b.at = Redis /\ b.start = windowStart(call[c].at)
      BY DEF CallsInv, resetAt, windowStart, key
    <2>1. call[c].at \in Nat
      BY Fields DEF Inv
    <2> QED
      BY <2>1 DEF Inv, CallsInv, Tick
  <1>3. MemoryInv'
    <2>1. \A b \in Counters : b.start \in Nat
      BY CounterType
    <2> QED
      BY <2>1 DEF Inv, MemoryInv, Apart
  <1>4. ExpiryInv'
    BY DEF Inv, ExpiryInv, resetAt
  <1>5. RankInv'
    <2> SUFFICES ASSUME NEW c \in Calls, Counted(c)
                 PROVE  /\ call[c].rank >= 1
                        /\ InTime(c) /\ now' < resetAt(call[c].counter)
                             => call[c].rank <= count[call[c].counter]
                        /\ InTime(c) /\ call[c].pc = "admitted" => call[c].rank <= Max
      BY DEF RankInv, Counted, InTime, resetAt
    <2>1. call[c].counter \in Counters
      BY Fields DEF Inv, Counted
    <2>2. now' < resetAt(call[c].counter) => now < resetAt(call[c].counter)
      BY <2>1, CounterType
    <2> QED
      BY <2>2 DEF Inv, RankInv
  <1>6. RanksDiffer' /\ CoverInv'
    BY DEF Inv, RanksDiffer, CoverInv, Counted, InTime, resetAt, Ranked, RankedIn
  <1>7. RefusedInv'
    BY DEF Inv, RefusedInv, Ranked, RankedIn, resetAt
  <1> QED
    BY <1>1, <1>2, <1>3, <1>4, <1>5, <1>6, <1>7 DEF Inv

LEMMA AskKeeps ==
    ASSUME Inv, NEW c \in Calls, NEW org \in Organizations, AskRedis(c, org) PROVE Inv'
  <1> DEFINE b == [at |-> Redis, key |-> key(org), start |-> windowStart(now)]
             new == [pc |-> "asking", org |-> org, at |-> now, counter |-> b]
  <1> call' = [call EXCEPT ![c] = new] /\ UNCHANGED <<store, now, count, expires>>
      /\ store = Redis /\ store # "memory" /\ call[c].pc = "idle"
    BY DEF AskRedis, Idle, Redis
  <1>1. now \in Nat /\ now \in 0..MaxTime /\ windowStart(now) \in 0..MaxTime
        /\ windowStart(now) <= now /\ now < windowStart(now) + Window
    BY WindowStart, LimitAssumption DEF Inv, TypeOK
  <1>2. b \in Counters
    BY <1>1 DEF Counters, Places, Keys
  <1> HIDE DEF b
  <1>3. new \in [pc : {"asking"}, org : Organizations, at : Nat, counter : Counters]
    BY <1>1, <1>2
  <1>4. call'[c] = new /\ \A d \in Calls : d # c => call'[d] = call[d]
    BY DEF Inv, TypeOK
  <1>5. TypeOK'
    BY <1>3 DEF Inv, TypeOK
  <1>6. CallsInv'
    <2> SUFFICES ASSUME NEW d \in Calls, call'[d].pc # "idle"
                 PROVE  LET e == call'[d].counter
                        IN  /\ e.key = key(call'[d].org)
                            /\ e.start <= call'[d].at /\ call'[d].at < resetAt(e) /\ call'[d].at <= now
                            /\ call'[d].pc = "incremented" => call'[d].at = now /\ store = "memory"
                            /\ call'[d].pc \in {"asking", "failedOpen"} => store = Redis
                            /\ store = "memory" => e.at \in Gateways /\ count[e] > 0
                            /\ store = Redis => e.at = Redis /\ e.start = windowStart(call'[d].at)
      BY DEF CallsInv, resetAt, windowStart, key
    <2>1. CASE d = c
      BY <1>1, <1>4, <2>1 DEF b, resetAt
    <2>2. CASE d # c
      BY <1>4, <2>2 DEF Inv, CallsInv
    <2> QED
      BY <2>1, <2>2
  <1>7. MemoryInv' /\ ExpiryInv'
    BY DEF Inv, MemoryInv, ExpiryInv, resetAt
  <1>8. \A d \in Calls : Counted(d)' => d # c /\ Counted(d) /\ (InTime(d)' <=> InTime(d))
    BY <1>4 DEF Counted, InTime, resetAt
  <1>9. RankInv' /\ RanksDiffer'
    BY <1>4, <1>8 DEF Inv, RankInv, RanksDiffer, resetAt
  <1>10. \A d \in Calls : \A e, r : Ranked(d, e, r) => Ranked(d, e, r)'
    BY <1>4, RankedStays
  <1>11. CoverInv'
    BY <1>10 DEF Inv, CoverInv
  <1>12. RefusedInv'
    BY <1>4, <1>10 DEF Inv, RefusedInv, resetAt
  <1> QED
    BY <1>5, <1>6, <1>7, <1>9, <1>11, <1>12 DEF Inv

\* The bucket of incr: the live one, or a fresh one.
LEMMA Bucket ==
    ASSUME Inv, NEW c \in Calls, NEW g \in Gateways, NEW org \in Organizations,
           IncrementMemory(c, g, org)
    PROVE  \E b \in Counters :
              /\ Increment(c, org, b)
              /\ b.at = g /\ b.key = key(org) /\ b.start <= now /\ now < resetAt(b)
              /\ \A d \in Counters : count[d] > 0 => Apart(b, d)
  <1> DEFINE live == LiveBuckets(g, key(org))
             fresh == [at |-> g, key |-> key(org), start |-> now]
  <1>0. now \in Nat /\ now \in 0..MaxTime /\ store = "memory"
    BY LimitAssumption DEF Inv, TypeOK, IncrementMemory
  <1>1. CASE \E b \in live : Increment(c, org, b)
    <2>1. PICK b \in live : Increment(c, org, b)
      BY <1>1
    <2>2. b \in Counters /\ b.at = g /\ b.key = key(org) /\ count[b] > 0 /\ resetAt(b) > now
      BY DEF LiveBuckets
    <2>3. b.start <= now /\ \A d \in Counters : count[d] > 0 => Apart(b, d)
      BY <1>0, <2>2 DEF Inv, MemoryInv
    <2>4. now < resetAt(b)
      BY <1>0, <2>2, CounterType
    <2> QED
      BY <2>1, <2>2, <2>3, <2>4
  <1>2. CASE live = {} /\ Increment(c, org, fresh)
    <2>1. fresh \in Counters
      BY <1>0 DEF Counters, Places, Keys
    <2>2. now < resetAt(fresh)
      BY <1>0, LimitAssumption DEF resetAt
    <2>3. ASSUME NEW d \in Counters, count[d] > 0, d.at = g, d.key = key(org)
          PROVE  d.start + Window <= now
      <3>1. ~(resetAt(d) > now)
        BY <1>2, <2>3 DEF LiveBuckets
      <3> QED
        BY <1>0, <3>1, CounterType
    <2>4. \A d \in Counters : count[d] > 0 => Apart(fresh, d)
      BY <2>3 DEF Apart
    <2> HIDE DEF fresh
    <2>5. fresh.at = g /\ fresh.key = key(org) /\ fresh.start <= now
      BY <1>0 DEF fresh
    <2> QED
      BY <1>2, <2>1, <2>2, <2>4, <2>5
  <1> QED
    BY <1>1, <1>2 DEF IncrementMemory

LEMMA IncrementKeeps ==
    ASSUME Inv, NEW c \in Calls, NEW g \in Gateways, NEW org \in Organizations,
           IncrementMemory(c, g, org)
    PROVE  Inv'
  <1>1. PICK b \in Counters :
              /\ Increment(c, org, b)
              /\ b.at = g /\ b.key = key(org) /\ b.start <= now /\ now < resetAt(b)
              /\ \A d \in Counters : count[d] > 0 => Apart(b, d)
    BY Bucket
  <1> DEFINE n == count[b] + 1
             new == [pc |-> "incremented", org |-> org, at |-> now, counter |-> b, rank |-> n]
  <1>2. /\ store = "memory" /\ call[c].pc = "idle" /\ UNCHANGED <<store, now, expires>>
        /\ count' = [count EXCEPT ![b] = n] /\ call' = [call EXCEPT ![c] = new]
    BY <1>1 DEF IncrementMemory, Increment, Idle
  <1>3. now \in Nat /\ count[b] \in Nat /\ n \in Nat /\ b.start \in Nat /\ resetAt(b) = b.start + Window
        /\ store # Redis
    BY <1>2, CounterType, LimitAssumption DEF Inv, TypeOK, Redis
  <1>4. new \in [pc : {"incremented", "failedOpen"}, org : Organizations, at : Nat,
                 counter : Counters, rank : Nat]
    BY <1>3
  <1>5. /\ call'[c] = new /\ \A d \in Calls : d # c => call'[d] = call[d]
        /\ count'[b] = n /\ \A d \in Counters : d # b => count'[d] = count[d]
    BY <1>2 DEF Inv, TypeOK
  <1>6. TypeOK'
    BY <1>2, <1>3, <1>4 DEF Inv, TypeOK
  <1> HIDE DEF n
  <1>7. CallsInv'
    <2> SUFFICES ASSUME NEW d \in Calls, call'[d].pc # "idle"
                 PROVE  LET e == call'[d].counter
                        IN  /\ e.key = key(call'[d].org)
                            /\ e.start <= call'[d].at /\ call'[d].at < resetAt(e) /\ call'[d].at <= now
                            /\ call'[d].pc = "incremented" => call'[d].at = now /\ store = "memory"
                            /\ call'[d].pc \in {"asking", "failedOpen"} => store = Redis
                            /\ store = "memory" => e.at \in Gateways /\ count'[e] > 0
                            /\ store = Redis => e.at = Redis /\ e.start = windowStart(call'[d].at)
      BY <1>2 DEF CallsInv, resetAt, windowStart, key
    <2>1. CASE d = c
      BY <1>1, <1>2, <1>3, <1>5, <2>1 DEF n
    <2>2. CASE d # c
      <3>1. call'[d] = call[d] /\ call[d].counter \in Counters
        BY <1>5, <2>2, Fields DEF Inv
      <3>2. count[call[d].counter] > 0 /\ store = "memory"
        BY <1>2, <3>1 DEF Inv, CallsInv
      <3>3. count'[call[d].counter] > 0
        BY <1>3, <1>5, <3>1, <3>2 DEF n
      <3> QED
        BY <1>2, <1>3, <3>1, <3>3 DEF Inv, CallsInv
    <2> QED
      BY <2>1, <2>2
  <1>8. MemoryInv'
    <2>1. \A d \in Counters : count'[d] > 0 => d = b \/ (d # b /\ count[d] > 0)
      BY <1>5
    <2>2. \A d, e \in Counters : Apart(d, e) => Apart(e, d)
      BY DEF Apart
    <2>3. Apart(b, b)
      BY DEF Apart
    <2>4. ASSUME NEW d \in Counters, NEW e \in Counters, count'[d] > 0, count'[e] > 0
          PROVE  Apart(d, e)
      BY <1>1, <1>2, <2>1, <2>2, <2>3, <2>4 DEF Inv, MemoryInv
    <2>5. \A d \in Counters : count'[d] > 0 => d.start <= now
      BY <1>1, <1>2, <2>1 DEF Inv, MemoryInv
    <2> QED
      BY <1>2, <2>4, <2>5 DEF MemoryInv, Apart
  <1>9. ExpiryInv'
    BY <1>2, <1>3 DEF ExpiryInv
  <1>10. \A d \in Calls : d # c /\ Counted(d)' => Counted(d) /\ (InTime(d)' <=> InTime(d))
    BY <1>5 DEF Counted, InTime, resetAt
  <1>11. ASSUME NEW d \in Calls, d # c, Counted(d)', InTime(d)', call'[d].counter = b
         PROVE  call'[d].rank < n /\ call'[d].rank \in Nat
    <2>1. Counted(d) /\ InTime(d) /\ call'[d] = call[d]
      BY <1>5, <1>10, <1>11
    <2>2. call[d].rank \in Nat
      BY <2>1, Fields DEF Inv, Counted
    <2> QED
      BY <1>1, <1>3, <1>11, <2>1, <2>2 DEF Inv, RankInv, n
  <1>12. RankInv'
    <2> SUFFICES ASSUME NEW d \in Calls, Counted(d)'
                 PROVE  /\ call'[d].rank >= 1
                        /\ InTime(d)' /\ now < resetAt(call'[d].counter)
                             => call'[d].rank <= count'[call'[d].counter]
                        /\ InTime(d)' /\ call'[d].pc = "admitted" => call'[d].rank <= Max
      BY <1>2 DEF RankInv, resetAt
    <2>1. CASE d = c
      BY <1>3, <1>5, <2>1 DEF n
    <2>2. CASE d # c
      <3>1. Counted(d) /\ (InTime(d)' <=> InTime(d)) /\ call'[d] = call[d]
        BY <1>5, <1>10, <2>2
      <3>2. call[d].rank \in Nat /\ call[d].counter \in Counters
        BY <3>1, Fields DEF Inv, Counted
      <3>3. CASE call[d].counter = b
        BY <1>3, <1>5, <1>11, <2>2, <3>1, <3>2, <3>3 DEF Inv, RankInv
      <3>4. CASE call[d].counter # b
        BY <1>5, <3>1, <3>2, <3>4 DEF Inv, RankInv
      <3> QED
        BY <3>3, <3>4
    <2> QED
      BY <2>1, <2>2
  <1>13. RanksDiffer'
    <2> SUFFICES ASSUME NEW d \in Calls, NEW e \in Calls, d # e, Counted(d)', Counted(e)',
                        InTime(d)', InTime(e)', call'[d].counter = call'[e].counter
                 PROVE  call'[d].rank # call'[e].rank
      BY DEF RanksDiffer
    <2>1. call'[c].counter = b /\ call'[c].rank = n
      BY <1>5
    <2>2. CASE d = c
      BY <1>3, <1>11, <2>1, <2>2
    <2>3. CASE e = c
      BY <1>3, <1>11, <2>1, <2>3
    <2>4. CASE d # c /\ e # c
      BY <1>5, <1>10, <2>4 DEF Inv, RanksDiffer
    <2> QED
      BY <2>2, <2>3, <2>4
  <1>14. \A d \in Calls : \A e, r : Ranked(d, e, r) => Ranked(d, e, r)'
    BY <1>2, <1>5, RankedStays
  <1>15. CoverInv'
    <2> SUFFICES ASSUME NEW e \in Counters, NEW r \in 1..count'[e]
                 PROVE  \E d \in Calls : Ranked(d, e, r)'
      BY DEF CoverInv
    <2>1. CASE e = b /\ r = n
      BY <1>5, <2>1 DEF Ranked, RankedIn
    <2>2. CASE ~(e = b /\ r = n)
      <3>1. r \in 1..count[e]
        BY <1>3, <1>5, <2>2 DEF n
      <3> QED
        BY <1>14, <3>1 DEF Inv, CoverInv
    <2> QED
      BY <2>1, <2>2
  <1>16. RefusedInv'
    BY <1>5, <1>14 DEF Inv, RefusedInv, resetAt
  <1> QED
    BY <1>6, <1>7, <1>8, <1>9, <1>12, <1>13, <1>15, <1>16 DEF Inv

LEMMA ResumeKeeps == ASSUME Inv, NEW c \in Calls, ResumeMemory(c) PROVE Inv'
  <1> DEFINE b == call[c].counter
             n == count[b]
             refused == Exceeds(n)
             retryAfter == IF refused THEN ceilSeconds(resetAt(b) - call[c].at) ELSE 0
             new == [pc |-> IF refused THEN "refused" ELSE "admitted",
                     org |-> call[c].org, at |-> call[c].at, counter |-> b,
                     rank |-> call[c].rank, countedAt |-> now, retryAfter |-> retryAfter]
  <1>1. call[c].pc = "incremented" /\ UNCHANGED <<store, now, count, expires>>
    BY DEF ResumeMemory
  <1>2. /\ call[c].org \in Organizations /\ call[c].at \in Nat /\ b \in Counters
        /\ call[c].rank \in Nat /\ now \in Nat /\ n \in Nat
    BY <1>1, Fields, LimitAssumption DEF Inv, TypeOK
  <1>3. call[c].at < resetAt(b) /\ call[c].at = now /\ store = "memory" /\ resetAt(b) \in Nat
        /\ b.start <= call[c].at /\ b.key = key(call[c].org) /\ b.at \in Gateways /\ count[b] > 0
    BY <1>1, <1>2, CounterType DEF Inv, CallsInv
  <1>4. retryAfter \in Nat
        /\ (refused => retryAfter > 0 /\ call[c].at + retryAfter * Second >= resetAt(b))
    <2> DEFINE rest == resetAt(b) - call[c].at
    <2>1. rest \in Nat /\ rest > 0
      BY <1>2, <1>3
    <2>2. ceilSeconds(rest) \in Nat /\ ceilSeconds(rest) > 0 /\ ceilSeconds(rest) * Second >= rest
      BY <2>1, Ceiling
    <2>3. ceilSeconds(rest) * Second \in Nat
      BY <2>2, LimitAssumption
    <2> HIDE DEF rest
    <2>4. retryAfter = IF refused THEN ceilSeconds(rest) ELSE 0
      BY DEF rest
    <2>5. call[c].at + ceilSeconds(rest) * Second >= resetAt(b)
      <3> DEFINE wait == ceilSeconds(rest) * Second
      <3>1. wait \in Nat /\ wait >= rest
        BY <2>2, <2>3
      <3>2. rest = resetAt(b) - call[c].at
        BY DEF rest
      <3> HIDE DEF wait
      <3>3. call[c].at + wait >= resetAt(b)
        BY <1>2, <1>3, <3>1, <3>2
      <3> QED
        BY <3>3 DEF wait
    <2> QED
      BY <2>2, <2>4, <2>5
  <1> HIDE DEF b, n, refused, retryAfter
  <1>5. call' = [call EXCEPT ![c] = new]
    BY DEF ResumeMemory, Verdict, b, n, refused, retryAfter
  <1>6. new \in [pc : {"admitted", "refused"}, org : Organizations, at : Nat,
                 counter : Counters, rank : Nat, countedAt : Nat, retryAfter : Nat]
    BY <1>2, <1>4
  <1>7. TypeOK'
    BY <1>1, <1>5, <1>6 DEF Inv, TypeOK
  <1>8. call'[c] = new /\ \A d \in Calls : d # c => call'[d] = call[d]
    BY <1>5 DEF Inv, TypeOK
  <1>9. /\ call'[c].pc \in {"admitted", "refused"} /\ call'[c].counter = b /\ call'[c].rank = call[c].rank
        /\ call'[c].org = call[c].org /\ call'[c].at = call[c].at /\ call'[c].countedAt = now
        /\ (call'[c].pc = "refused" <=> refused) /\ call'[c].retryAfter = retryAfter
    BY <1>8
  <1>10. CallsInv'
    <2> SUFFICES ASSUME NEW d \in Calls, call'[d].pc # "idle"
                 PROVE  LET e == call'[d].counter
                        IN  /\ e.key = key(call'[d].org)
                            /\ e.start <= call'[d].at /\ call'[d].at < resetAt(e) /\ call'[d].at <= now
                            /\ call'[d].pc = "incremented" => call'[d].at = now /\ store = "memory"
                            /\ call'[d].pc \in {"asking", "failedOpen"} => store = Redis
                            /\ store = "memory" => e.at \in Gateways /\ count[e] > 0
                            /\ store = Redis => e.at = Redis /\ e.start = windowStart(call'[d].at)
      BY <1>1 DEF CallsInv, resetAt, windowStart, key
    <2>1. CASE d = c
      BY <1>2, <1>3, <1>9, <2>1 DEF Redis
    <2>2. CASE d # c
      BY <1>8, <2>2 DEF Inv, CallsInv
    <2> QED
      BY <2>1, <2>2
  <1>11. MemoryInv' /\ ExpiryInv'
    BY <1>1 DEF Inv, MemoryInv, ExpiryInv, Apart, resetAt
  <1>12. \A d \in Calls : /\ Counted(d)' <=> Counted(d)
                          /\ InTime(d)' <=> InTime(d)
                          /\ Counted(d) => call'[d].counter = call[d].counter /\ call'[d].rank = call[d].rank
    BY <1>1, <1>3, <1>8, <1>9 DEF Counted, InTime, resetAt, b
  <1>13. call[c].rank <= n
    BY <1>1, <1>3 DEF Inv, RankInv, Counted, InTime, b, n
  <1>14. RankInv'
    <2> SUFFICES ASSUME NEW d \in Calls, Counted(d)
                 PROVE  /\ call[d].rank >= 1
                        /\ InTime(d) /\ now < resetAt(call[d].counter)
                             => call[d].rank <= count[call[d].counter]
                        /\ InTime(d) /\ call'[d].pc = "admitted" => call[d].rank <= Max
      BY <1>1, <1>12 DEF RankInv, resetAt
    <2>1. CASE d = c
      <3>1. call'[d].pc = "admitted" => n <= Max
        BY <1>2, <1>9, <2>1, LimitAssumption DEF refused, Exceeds
      <3>2. call'[d].pc = "admitted" => call[d].rank <= Max
        BY <1>2, <1>13, <2>1, <3>1, LimitAssumption
      <3> QED
        BY <2>1, <3>2 DEF Inv, RankInv
    <2>2. CASE d # c
      BY <1>8, <2>2 DEF Inv, RankInv
    <2> QED
      BY <2>1, <2>2
  <1>15. RanksDiffer'
    BY <1>12 DEF Inv, RanksDiffer
  <1>16. \A d \in Calls : \A e, r : Ranked(d, e, r) => Ranked(d, e, r)'
    BY <1>8, <1>9, RankedStays DEF b
  <1>17. CoverInv'
    BY <1>1, <1>16 DEF Inv, CoverInv
  <1>18. RefusedInv'
    <2> SUFFICES ASSUME NEW d \in Calls, call'[d].pc = "refused"
                 PROVE  /\ \A r \in 1..(Max + 1) : \E e \in Calls : RankedIn(call', e, call'[d].counter, r)
                        /\ call'[d].retryAfter > 0
                        /\ call'[d].at + call'[d].retryAfter * Second >= resetAt(call'[d].counter)
      BY DEF RefusedInv, resetAt, Ranked, RankedIn
    <2>1. CASE d = c
      <3>1. refused /\ n > Max
        BY <1>9, <2>1 DEF refused, Exceeds
      <3>2. \A r \in 1..(Max + 1) : r \in 1..n
        BY <1>2, <3>1, LimitAssumption
      <3>3. \A r \in 1..(Max + 1) : \E e \in Calls : RankedIn(call', e, b, r)
        BY <1>2, <1>16, <3>2 DEF Inv, CoverInv, n, Ranked
      <3> QED
        BY <1>4, <1>9, <2>1, <3>1, <3>3 DEF Ranked, RankedIn
    <2>2. CASE d # c
      <3>1. call'[d] = call[d] /\ call[d].pc = "refused"
        BY <1>8, <2>2
      <3>2. \A r \in 1..(Max + 1) : \E e \in Calls : Ranked(e, call[d].counter, r)
        BY <3>1 DEF Inv, RefusedInv
      <3>3. \A r \in 1..(Max + 1) : \E e \in Calls : RankedIn(call', e, call[d].counter, r)
        BY <1>16, <3>2 DEF Ranked
      <3> QED
        BY <3>1, <3>3 DEF Inv, RefusedInv, Ranked, RankedIn
    <2> QED
      BY <2>1, <2>2
  <1> QED
    BY <1>7, <1>10, <1>11, <1>14, <1>15, <1>17, <1>18 DEF Inv

\* What INCR and EXPIRE do to the counter a call waits for.
LEMMA RedisStep ==
    ASSUME Inv, NEW c \in Calls, call[c].pc = "asking", RedisCounts(call[c].counter),
           UNCHANGED <<store, now>>
    PROVE  LET b == call[c].counter
               n == incremented(b)
           IN  /\ b \in Counters /\ n \in Nat /\ n >= 1 /\ (n = 1 \/ n = count[b] + 1)
               /\ count[b] \in Nat /\ now \in Nat /\ store = Redis /\ store # "memory"
               /\ now < resetAt(b) => n = count[b] + 1
               /\ count'[b] = n /\ \A d \in Counters : d # b => count'[d] = count[d]
               /\ count' \in [Counters -> Nat] /\ expires' \in [Counters -> Nat]
               /\ MemoryInv' /\ ExpiryInv'
  <1> DEFINE b == call[c].counter
             n == incremented(b)
  <1>1. b \in Counters /\ b.start <= call[c].at /\ call[c].at <= now /\ store = Redis /\ call[c].at \in Nat
    BY Fields DEF Inv, CallsInv
  <1>2. count[b] \in Nat /\ expires[b] \in Nat /\ now \in Nat
    BY <1>1, LimitAssumption DEF Inv, TypeOK
  <1>3. n \in Nat /\ n >= 1 /\ (n = 1 \/ n = count[b] + 1) /\ store # "memory"
    BY <1>1, <1>2 DEF incremented, Redis
  <1>4. resetAt(b) = b.start + Window /\ resetAt(b) \in Nat /\ b.start \in Nat /\ b.start <= now
    BY <1>1, <1>2, CounterType
  <1>5. ASSUME now < resetAt(b) PROVE n = count[b] + 1
    <2>1. CASE count[b] = 0
      BY <2>1 DEF incremented
    <2>2. CASE count[b] > 0
      <3>1. expires[b] >= resetAt(b)
        BY <1>1, <2>2 DEF Inv, ExpiryInv
      <3> QED
        BY <1>2, <1>4, <1>5, <3>1 DEF incremented
    <2> QED
      BY <1>2, <2>1, <2>2
  <1> HIDE DEF b, n
  <1>6. count' = [count EXCEPT ![b] = n] /\ expires' = [expires EXCEPT ![b] = now + Window]
    BY DEF RedisCounts, b, n
  <1>7. /\ count'[b] = n /\ \A d \in Counters : d # b => count'[d] = count[d]
        /\ count' \in [Counters -> Nat] /\ expires' \in [Counters -> Nat]
        /\ expires'[b] = now + Window /\ \A d \in Counters : d # b => expires'[d] = expires[d]
    BY <1>1, <1>2, <1>3, <1>6, LimitAssumption DEF Inv, TypeOK
  <1>8. ExpiryInv'
    <2> SUFFICES ASSUME NEW d \in Counters, count'[d] > 0 PROVE expires'[d] >= resetAt(d)
      BY DEF ExpiryInv, resetAt
    <2>1. CASE d = b
      BY <1>2, <1>4, <1>7, <2>1, LimitAssumption
    <2>2. CASE d # b
      BY <1>1, <1>7, <2>2 DEF Inv, ExpiryInv
    <2> QED
      BY <2>1, <2>2
  <1>9. MemoryInv'
    BY <1>3 DEF MemoryInv
  <1> QED
    BY <1>1, <1>2, <1>3, <1>5, <1>7, <1>8, <1>9 DEF b, n

\* The others' ranks after Redis counted, and the increments it has seen.
LEMMA RedisRanks ==
    ASSUME Inv, NEW c \in Calls, call[c].pc = "asking", RedisCounts(call[c].counter),
           UNCHANGED <<store, now>>, \A d \in Calls : d # c => call'[d] = call[d],
           call'[c].pc \notin {"idle", "asking"}, call'[c].counter = call[c].counter,
           call'[c].rank = incremented(call[c].counter)
    PROVE  /\ \A d \in Calls : d # c /\ Counted(d)' => Counted(d) /\ (InTime(d)' <=> InTime(d))
           /\ \A d \in Calls : d # c /\ Counted(d)' =>
                /\ call'[d].rank >= 1
                /\ InTime(d)' /\ now < resetAt(call'[d].counter)
                     => /\ call'[d].rank <= count'[call'[d].counter]
                        /\ call'[d].counter = call'[c].counter => call'[d].rank < call'[c].rank
                /\ InTime(d)' /\ call'[d].pc = "admitted" => call'[d].rank <= Max
           /\ CoverInv'
           /\ \A d \in Calls : \A e, r : Ranked(d, e, r) => Ranked(d, e, r)'
  <1> DEFINE b == call[c].counter
             n == incremented(b)
  <1>1. /\ b \in Counters /\ n \in Nat /\ n >= 1 /\ (n = 1 \/ n = count[b] + 1)
        /\ count[b] \in Nat
        /\ now < resetAt(b) => n = count[b] + 1
        /\ count'[b] = n /\ \A d \in Counters : d # b => count'[d] = count[d]
    BY RedisStep
  <1>2. \A d \in Calls : d # c /\ Counted(d)' => Counted(d) /\ (InTime(d)' <=> InTime(d))
    BY DEF Counted, InTime, resetAt
  <1> HIDE DEF b, n
  <1>3. ASSUME NEW d \in Calls, d # c, Counted(d)'
        PROVE  /\ call'[d].rank >= 1
               /\ InTime(d)' /\ now < resetAt(call'[d].counter)
                    => /\ call'[d].rank <= count'[call'[d].counter]
                       /\ call'[d].counter = b => call'[d].rank < n
               /\ InTime(d)' /\ call'[d].pc = "admitted" => call'[d].rank <= Max
    <2>1. Counted(d) /\ (InTime(d)' <=> InTime(d)) /\ call'[d] = call[d]
      BY <1>2, <1>3
    <2>2. call[d].rank \in Nat /\ call[d].counter \in Counters
      BY <2>1, Fields DEF Inv, Counted
    <2>3. /\ call[d].rank >= 1
          /\ InTime(d) /\ now < resetAt(call[d].counter) => call[d].rank <= count[call[d].counter]
          /\ InTime(d) /\ call[d].pc = "admitted" => call[d].rank <= Max
      BY <2>1 DEF Inv, RankInv
    <2>4. CASE call[d].counter = b
      BY <1>1, <2>1, <2>2, <2>3, <2>4
    <2>5. CASE call[d].counter # b
      BY <1>1, <2>1, <2>2, <2>3, <2>5
    <2> QED
      BY <2>4, <2>5
  <1>4. \A d \in Calls : \A e, r : Ranked(d, e, r) => Ranked(d, e, r)'
    BY RankedStays
  <1>5. CoverInv'
    <2> SUFFICES ASSUME NEW e \in Counters, NEW r \in 1..count'[e]
                 PROVE  \E d \in Calls : Ranked(d, e, r)'
      BY DEF CoverInv
    <2>1. CASE e = b /\ r = n
      BY <2>1 DEF Ranked, RankedIn, b, n
    <2>2. CASE ~(e = b /\ r = n)
      <3>1. r \in 1..count[e]
        BY <1>1, <2>2
      <3> QED
        BY <1>4, <3>1 DEF Inv, CoverInv
    <2> QED
      BY <2>1, <2>2
  <1> QED
    BY <1>2, <1>3, <1>4, <1>5 DEF b, n

LEMMA AnsweredKeeps == ASSUME Inv, NEW c \in Calls, Answered(c) PROVE Inv'
  <1> DEFINE b == call[c].counter
             n == incremented(b)
             refused == Exceeds(n)
             retryAfter == IF refused THEN ceilSeconds(resetAt(b) - call[c].at) ELSE 0
             new == [pc |-> IF refused THEN "refused" ELSE "admitted",
                     org |-> call[c].org, at |-> call[c].at, counter |-> b,
                     rank |-> n, countedAt |-> now, retryAfter |-> retryAfter]
  <1>1. call[c].pc = "asking" /\ RedisCounts(b) /\ UNCHANGED <<store, now>>
    BY DEF Answered
  <1>2. /\ b \in Counters /\ n \in Nat /\ n >= 1
        /\ now < resetAt(b) => n = count[b] + 1
        /\ now \in Nat /\ store = Redis /\ store # "memory"
        /\ count'[b] = n /\ \A d \in Counters : d # b => count'[d] = count[d]
        /\ count' \in [Counters -> Nat] /\ expires' \in [Counters -> Nat]
        /\ MemoryInv' /\ ExpiryInv'
    BY <1>1, RedisStep
  <1>3. call[c].at < resetAt(b) /\ resetAt(b) \in Nat /\ call[c].org \in Organizations /\ call[c].at \in Nat
        /\ b.start <= call[c].at /\ b.key = key(call[c].org) /\ b.at = Redis
        /\ b.start = windowStart(call[c].at) /\ call[c].at <= now
    BY <1>1, <1>2, Fields, CounterType DEF Inv, CallsInv
  <1>4. retryAfter \in Nat
        /\ (refused => retryAfter > 0 /\ call[c].at + retryAfter * Second >= resetAt(b))
    <2> DEFINE rest == resetAt(b) - call[c].at
    <2>1. rest \in Nat /\ rest > 0
      BY <1>3
    <2>2. ceilSeconds(rest) \in Nat /\ ceilSeconds(rest) > 0 /\ ceilSeconds(rest) * Second >= rest
      BY <2>1, Ceiling
    <2>3. ceilSeconds(rest) * Second \in Nat
      BY <2>2, LimitAssumption
    <2> HIDE DEF rest
    <2>4. retryAfter = IF refused THEN ceilSeconds(rest) ELSE 0
      BY DEF rest
    <2>5. call[c].at + ceilSeconds(rest) * Second >= resetAt(b)
      <3> DEFINE wait == ceilSeconds(rest) * Second
      <3>1. wait \in Nat /\ wait >= rest
        BY <2>2, <2>3
      <3>2. rest = resetAt(b) - call[c].at
        BY DEF rest
      <3> HIDE DEF wait
      <3>3. call[c].at + wait >= resetAt(b)
        BY <1>3, <3>1, <3>2
      <3> QED
        BY <3>3 DEF wait
    <2> QED
      BY <2>2, <2>4, <2>5
  <1> HIDE DEF b, n, refused, retryAfter
  <1>5. call' = [call EXCEPT ![c] = new]
    BY DEF Answered, Verdict, b, n, refused, retryAfter
  <1>6. new \in [pc : {"admitted", "refused"}, org : Organizations, at : Nat,
                 counter : Counters, rank : Nat, countedAt : Nat, retryAfter : Nat]
    BY <1>2, <1>3, <1>4
  <1>7. TypeOK'
    BY <1>1, <1>2, <1>5, <1>6 DEF Inv, TypeOK
  <1>8. call'[c] = new /\ \A d \in Calls : d # c => call'[d] = call[d]
    BY <1>5 DEF Inv, TypeOK
  <1>9. /\ call'[c].pc \in {"admitted", "refused"} /\ call'[c].counter = b /\ call'[c].rank = n
        /\ call'[c].org = call[c].org /\ call'[c].at = call[c].at /\ call'[c].countedAt = now
        /\ (call'[c].pc = "refused" <=> refused) /\ call'[c].retryAfter = retryAfter
    BY <1>8
  <1>10. CallsInv'
    <2> SUFFICES ASSUME NEW d \in Calls, call'[d].pc # "idle"
                 PROVE  LET e == call'[d].counter
                        IN  /\ e.key = key(call'[d].org)
                            /\ e.start <= call'[d].at /\ call'[d].at < resetAt(e) /\ call'[d].at <= now
                            /\ call'[d].pc = "incremented" => call'[d].at = now /\ store = "memory"
                            /\ call'[d].pc \in {"asking", "failedOpen"} => store = Redis
                            /\ e.at = Redis /\ e.start = windowStart(call'[d].at)
      BY <1>1, <1>2 DEF CallsInv, resetAt, windowStart, key
    <2>1. CASE d = c
      BY <1>3, <1>9, <2>1
    <2>2. CASE d # c
      BY <1>2, <1>8, <2>2 DEF Inv, CallsInv
    <2> QED
      BY <2>1, <2>2
  <1>11. /\ \A d \in Calls : d # c /\ Counted(d)' => Counted(d) /\ (InTime(d)' <=> InTime(d))
         /\ \A d \in Calls : d # c /\ Counted(d)' =>
              /\ call'[d].rank >= 1
              /\ InTime(d)' /\ now < resetAt(call'[d].counter)
                   => /\ call'[d].rank <= count'[call'[d].counter]
                      /\ call'[d].counter = call'[c].counter => call'[d].rank < call'[c].rank
              /\ InTime(d)' /\ call'[d].pc = "admitted" => call'[d].rank <= Max
         /\ CoverInv'
         /\ \A d \in Calls : \A e, r : Ranked(d, e, r) => Ranked(d, e, r)'
    <2>1. call'[c].pc \notin {"idle", "asking"} /\ call'[c].counter = call[c].counter
          /\ call'[c].rank = incremented(call[c].counter) /\ RedisCounts(call[c].counter)
      BY <1>1, <1>9 DEF b, n
    <2> QED
      BY <1>1, <1>8, <2>1, RedisRanks
  <1>12. InTime(c)' <=> now < resetAt(b)
    BY <1>1, <1>9 DEF InTime, resetAt
  <1>13. RankInv'
    <2> SUFFICES ASSUME NEW d \in Calls, Counted(d)'
                 PROVE  /\ call'[d].rank >= 1
                        /\ InTime(d)' /\ now < resetAt(call'[d].counter)
                             => call'[d].rank <= count'[call'[d].counter]
                        /\ InTime(d)' /\ call'[d].pc = "admitted" => call'[d].rank <= Max
      BY <1>1 DEF RankInv, resetAt
    <2>1. CASE d = c
      BY <1>2, <1>9, <2>1, LimitAssumption DEF refused, Exceeds
    <2>2. CASE d # c
      BY <1>11, <2>2
    <2> QED
      BY <2>1, <2>2
  <1>14. RanksDiffer'
    <2> SUFFICES ASSUME NEW d \in Calls, NEW e \in Calls, d # e, Counted(d)', Counted(e)',
                        InTime(d)', InTime(e)', call'[d].counter = call'[e].counter
                 PROVE  call'[d].rank # call'[e].rank
      BY DEF RanksDiffer
    <2>0. \A f \in Calls : f # c /\ Counted(f)' => call'[f].rank \in Nat
      BY <1>8, <1>11, Fields DEF Inv, Counted
    <2>1. CASE d = c
      BY <1>2, <1>9, <1>11, <1>12, <2>0, <2>1
    <2>2. CASE e = c
      BY <1>2, <1>9, <1>11, <1>12, <2>0, <2>2
    <2>3. CASE d # c /\ e # c
      BY <1>8, <1>11, <2>3 DEF Inv, RanksDiffer
    <2> QED
      BY <2>1, <2>2, <2>3
  <1>15. RefusedInv'
    <2> SUFFICES ASSUME NEW d \in Calls, call'[d].pc = "refused"
                 PROVE  /\ \A r \in 1..(Max + 1) : \E e \in Calls : RankedIn(call', e, call'[d].counter, r)
                        /\ call'[d].retryAfter > 0
                        /\ call'[d].at + call'[d].retryAfter * Second >= resetAt(call'[d].counter)
      BY DEF RefusedInv, resetAt, Ranked, RankedIn
    <2>1. CASE d = c
      <3>1. refused /\ n > Max
        BY <1>9, <2>1 DEF refused, Exceeds
      <3>2. \A r \in 1..(Max + 1) : r \in 1..count'[b]
        BY <1>2, <3>1, LimitAssumption
      <3>3. \A r \in 1..(Max + 1) : \E e \in Calls : RankedIn(call', e, b, r)
        <4> SUFFICES ASSUME NEW r \in 1..(Max + 1) PROVE \E e \in Calls : RankedIn(call', e, b, r)
          OBVIOUS
        <4> QED
          BY <1>2, <1>11, <3>2 DEF CoverInv, Ranked, RankedIn
      <3> QED
        BY <1>4, <1>9, <2>1, <3>1, <3>3 DEF Ranked, RankedIn
    <2>2. CASE d # c
      BY <1>8, <1>11, <2>2 DEF Inv, RefusedInv, Ranked, RankedIn
    <2> QED
      BY <2>1, <2>2
  <1> QED
    BY <1>2, <1>7, <1>10, <1>11, <1>13, <1>14, <1>15 DEF Inv

LEMMA FailOpenKeeps == ASSUME Inv, NEW c \in Calls, FailOpen(c) PROVE Inv'
  <1> DEFINE b == call[c].counter
  <1>1. PICK counted \in BOOLEAN :
         /\ IF counted THEN RedisCounts(b) ELSE UNCHANGED <<count, expires>>
         /\ call' = [call EXCEPT ![c] =
               [pc |-> "failedOpen", org |-> @.org, at |-> @.at, counter |-> @.counter,
                rank |-> IF counted THEN incremented(@.counter) ELSE Uncounted]]
    BY DEF FailOpen
  <1> DEFINE rank == IF counted THEN incremented(b) ELSE Uncounted
             new == [pc |-> "failedOpen", org |-> call[c].org, at |-> call[c].at,
                     counter |-> b, rank |-> rank]
  <1>2. call[c].pc = "asking" /\ UNCHANGED <<store, now>> /\ call' = [call EXCEPT ![c] = new]
    BY <1>1 DEF FailOpen
  <1>3. /\ b \in Counters /\ call[c].org \in Organizations /\ call[c].at \in Nat
        /\ b.start <= call[c].at /\ call[c].at < resetAt(b) /\ b.key = key(call[c].org)
        /\ b.at = Redis /\ b.start = windowStart(call[c].at) /\ call[c].at <= now
        /\ store = Redis /\ store # "memory"
    BY <1>2, Fields DEF Inv, CallsInv, Redis
  <1>4. rank \in Nat
    BY <1>1, <1>2, RedisStep DEF Uncounted
  <1> HIDE DEF rank
  <1>5. new \in [pc : {"incremented", "failedOpen"}, org : Organizations, at : Nat,
                 counter : Counters, rank : Nat]
    BY <1>3, <1>4
  <1>6. call'[c] = new /\ \A d \in Calls : d # c => call'[d] = call[d]
    BY <1>2 DEF Inv, TypeOK
  <1>7. count' \in [Counters -> Nat] /\ expires' \in [Counters -> Nat] /\ MemoryInv' /\ ExpiryInv'
    <2>1. CASE counted
      BY <1>1, <1>2, <2>1, RedisStep
    <2>2. CASE ~counted
      <3>1. UNCHANGED <<count, expires>>
        BY <1>1, <2>2
      <3> QED
        BY <1>2, <1>3, <3>1 DEF Inv, TypeOK, MemoryInv, ExpiryInv, resetAt
    <2> QED
      BY <2>1, <2>2
  <1>8. TypeOK'
    BY <1>2, <1>5, <1>7 DEF Inv, TypeOK
  <1>9. CallsInv'
    <2> SUFFICES ASSUME NEW d \in Calls, call'[d].pc # "idle"
                 PROVE  LET e == call'[d].counter
                        IN  /\ e.key = key(call'[d].org)
                            /\ e.start <= call'[d].at /\ call'[d].at < resetAt(e) /\ call'[d].at <= now
                            /\ call'[d].pc = "incremented" => call'[d].at = now /\ store = "memory"
                            /\ call'[d].pc \in {"asking", "failedOpen"} => store = Redis
                            /\ e.at = Redis /\ e.start = windowStart(call'[d].at)
      BY <1>2, <1>3 DEF CallsInv, resetAt, windowStart, key
    <2>1. CASE d = c
      BY <1>3, <1>6, <2>1
    <2>2. CASE d # c
      BY <1>3, <1>6, <2>2 DEF Inv, CallsInv
    <2> QED
      BY <2>1, <2>2
  <1>10. \A d \in Calls : Counted(d)' => d # c /\ Counted(d) /\ call'[d] = call[d] /\ (InTime(d)' <=> InTime(d))
    BY <1>6 DEF Counted, InTime, resetAt
  <1>11. /\ \A d \in Calls : Counted(d)' =>
              /\ call'[d].rank >= 1
              /\ InTime(d)' /\ now < resetAt(call'[d].counter)
                   => call'[d].rank <= count'[call'[d].counter]
              /\ InTime(d)' /\ call'[d].pc = "admitted" => call'[d].rank <= Max
         /\ CoverInv'
         /\ \A d \in Calls : \A e, r : Ranked(d, e, r) => Ranked(d, e, r)'
    <2>1. CASE counted
      <3>1. call'[c].pc \notin {"idle", "asking"} /\ call'[c].counter = call[c].counter
            /\ call'[c].rank = incremented(call[c].counter) /\ RedisCounts(call[c].counter)
        BY <1>1, <1>6, <2>1 DEF rank
      <3> QED
        BY <1>2, <1>6, <1>10, <3>1, RedisRanks
    <2>2. CASE ~counted
      <3>1. UNCHANGED <<count, expires>>
        BY <1>1, <2>2
      <3>2. \A d \in Calls : \A e, r : Ranked(d, e, r) => Ranked(d, e, r)'
        BY <1>2, <1>6, RankedStays
      <3>3. CoverInv'
        BY <3>1, <3>2 DEF Inv, CoverInv
      <3> QED
        BY <1>10, <3>1, <3>2, <3>3 DEF Inv, RankInv
    <2> QED
      BY <2>1, <2>2
  <1>12. RankInv'
    BY <1>2, <1>11 DEF RankInv, resetAt
  <1>13. RanksDiffer'
    BY <1>10 DEF Inv, RanksDiffer
  <1>14. RefusedInv'
    <2> SUFFICES ASSUME NEW d \in Calls, call'[d].pc = "refused"
                 PROVE  /\ \A r \in 1..(Max + 1) : \E e \in Calls : RankedIn(call', e, call'[d].counter, r)
                        /\ call'[d].retryAfter > 0
                        /\ call'[d].at + call'[d].retryAfter * Second >= resetAt(call'[d].counter)
      BY DEF RefusedInv, resetAt, Ranked, RankedIn
    <2>1. call'[d] = call[d]
      BY <1>10 DEF Counted
    <2> QED
      BY <1>11, <2>1 DEF Inv, RefusedInv, Ranked, RankedIn
  <1> QED
    BY <1>7, <1>8, <1>9, <1>11, <1>12, <1>13, <1>14 DEF Inv

LEMMA NextInv == Inv /\ [Next]_vars => Inv'
  <1> SUFFICES ASSUME Inv, [Next]_vars PROVE Inv'
    OBVIOUS
  <1>1. CASE UNCHANGED vars
    BY <1>1 DEF vars, Inv, TypeOK, CallsInv, MemoryInv, ExpiryInv, RankInv, RanksDiffer,
       CoverInv, RefusedInv, Counted, InTime, Ranked, RankedIn, Apart, resetAt
  <1> QED
    BY <1>1, TickKeeps, AskKeeps, IncrementKeeps, ResumeKeeps, AnsweredKeeps, FailOpenKeeps DEF Next

LEMMA Invariance == Spec => []Inv
  BY InitInv, NextInv, PTL DEF Spec

-----------------------------------------------------------------------------
(* The theorems *)

\* Counters, calls and verdicts keep their types, in both stores.
THEOREM TypeCorrect == Spec => []TypeOK
  <1>1. Inv => TypeOK
    BY DEF Inv
  <1> QED
    BY <1>1, Invariance, PTL

\* The ranks of the calls a counter let through are different numbers from 1
\* to the maximum.
LEMMA LetThroughBound ==
    ASSUME Inv, NEW b
    PROVE  IsFiniteSet(LetThrough(b)) /\ Cardinality(LetThrough(b)) \in Nat
           /\ Cardinality(LetThrough(b)) <= Max
  <1> DEFINE S == LetThrough(b)
             f == [c \in S |-> call[c].rank]
  <1>1. IsFiniteSet(1..Max) /\ Cardinality(1..Max) = Max
    BY FS_Interval, LimitAssumption
  <1>2. ASSUME NEW c \in S
        PROVE  c \in Calls /\ Counted(c) /\ InTime(c) /\ call[c].counter = b /\ call[c].pc = "admitted"
               /\ call[c].rank \in 1..Max
    <2>1. c \in Calls /\ Counted(c) /\ InTime(c) /\ call[c].counter = b /\ call[c].pc = "admitted"
      BY DEF LetThrough, Counted, InTime
    <2>2. call[c].rank \in Nat
      BY <2>1, Fields DEF Inv
    <2>3. call[c].rank >= 1 /\ call[c].rank <= Max
      BY <2>1 DEF Inv, RankInv
    <2> QED
      BY <2>1, <2>2, <2>3, LimitAssumption
  <1>3. \A c, d \in S : f[c] = f[d] => c = d
    BY <1>2 DEF Inv, RanksDiffer
  <1>4. f \in Injection(S, 1..Max)
    BY <1>2, <1>3 DEF Injection, IsInjective
  <1> HIDE DEF f, S
  <1>5. IsFiniteSet(S) /\ Cardinality(S) <= Max
    BY <1>1, <1>4, FS_Injection
  <1> QED
    BY <1>5, FS_CardinalityType DEF S

\* A fixed window admits at most the declared maximum of an organisation's
\* calls: in memory although the store hands out a bucket that others go on
\* counting in, in Redis although counters expire (ratelimit.ts, rateLimit).
THEOREM AtMostTheMaximum == Spec => []MaxPerWindow
  <1>1. Inv => MaxPerWindow
    BY LetThroughBound DEF MaxPerWindow
  <1> QED
    BY <1>1, Invariance, PTL

\* Two calls of one tenant in one store have the same counter, or counters
\* whose windows do not overlap.
LEMMA CountersApart ==
    ASSUME Inv, NEW c \in Calls, NEW d \in Calls, call[c].pc # "idle", call[d].pc # "idle"
    PROVE  Apart(call[c].counter, call[d].counter)
  <1>1. call[c].counter \in Counters /\ call[d].counter \in Counters
        /\ call[c].at \in Nat /\ call[d].at \in Nat /\ store \in {"memory", Redis}
    BY Fields, StoreAssumption DEF Inv, TypeOK
  <1>2. CASE store = "memory"
    BY <1>1, <1>2 DEF Inv, CallsInv, MemoryInv
  <1>3. CASE store = Redis
    BY <1>1, <1>3, WindowsApart DEF Inv, CallsInv, Apart
  <1> QED
    BY <1>1, <1>2, <1>3

\* A span as long as a window meets two windows at most, so an organisation
\* gets at most twice the maximum within it from one store (ratelimit.ts, the
\* two stores' windows).
THEOREM TwiceTheMaximum == Spec => []AtMostTwiceTheMaximum
  <1>1. Inv => AtMostTwiceTheMaximum
    <2> SUFFICES ASSUME Inv, NEW f \in Calls, Settled(f)
                 PROVE  Cardinality({c \in Calls :
                           /\ call[c].pc = "admitted" /\ call[c].org = call[f].org
                           /\ call[c].counter.at = call[f].counter.at
                           /\ call[c].at \in call[f].at..(call[f].at + Window - 1)
                           /\ c \in LetThrough(call[c].counter)}) <= 2 * Max
      BY DEF AtMostTwiceTheMaximum
    <2> DEFINE S == {c \in Calls :
                           /\ call[c].pc = "admitted" /\ call[c].org = call[f].org
                           /\ call[c].counter.at = call[f].counter.at
                           /\ call[c].at \in call[f].at..(call[f].at + Window - 1)
                           /\ c \in LetThrough(call[c].counter)}
               a == call[f].counter
    <2>1. a \in Counters /\ call[f].at \in Nat /\ call[f].pc # "idle"
          /\ a.start \in Nat /\ a.start <= call[f].at /\ call[f].at < a.start + Window
          /\ a.key = key(call[f].org)
      <3>1. call[f].pc # "idle"
        BY DEF Settled
      <3>2. a \in Counters /\ call[f].at \in Nat
        BY <3>1, Fields DEF Inv
      <3>3. a.start <= call[f].at /\ call[f].at < resetAt(a) /\ a.key = key(call[f].org)
        BY <3>1 DEF Inv, CallsInv
      <3> QED
        BY <3>1, <3>2, <3>3, CounterType
    <2>2. ASSUME NEW c \in S
          PROVE  LET b == call[c].counter
                 IN  /\ b \in Counters /\ c \in LetThrough(b) /\ call[c].pc # "idle" /\ c \in Calls
                     /\ b.at = a.at /\ b.key = a.key /\ b.start \in Nat
                     /\ b = a \/ (b.start >= a.start + Window /\ b.start < call[f].at + Window)
      <3> DEFINE b == call[c].counter
      <3>1. c \in Calls /\ call[c].pc # "idle" /\ c \in LetThrough(b) /\ b.at = a.at
            /\ call[c].org = call[f].org
            /\ call[c].at \in call[f].at..(call[f].at + Window - 1)
        OBVIOUS
      <3>2. b \in Counters /\ call[c].at \in Nat /\ b.start \in Nat /\ resetAt(b) = b.start + Window
        BY <3>1, Fields, CounterType DEF Inv
      <3>3. b.key = a.key /\ b.start <= call[c].at /\ call[c].at < resetAt(b)
        BY <2>1, <3>1 DEF Inv, CallsInv
      <3>4. Apart(b, a)
        BY <2>1, <3>1, CountersApart
      <3> HIDE DEF b, a
      <3>5. b.start = a.start => b = a
        BY <2>1, <3>1, <3>2, <3>3 DEF Counters
      <3>6. b.start # a.start => b.start >= a.start + Window /\ b.start < call[f].at + Window
        BY <2>1, <3>1, <3>2, <3>3, <3>4, LimitAssumption DEF Apart
      <3> QED
        BY <3>1, <3>2, <3>3, <3>5, <3>6 DEF b
    <2>3. PICK b : S \subseteq LetThrough(a) \cup LetThrough(b)
      <3>1. CASE \A c \in S : call[c].counter = a
        BY <2>2, <3>1
      <3>2. CASE \E c \in S : call[c].counter # a
        <4>1. PICK c \in S : call[c].counter # a
          BY <3>2
        <4> DEFINE b == call[c].counter
        <4>2. ASSUME NEW d \in S, call[d].counter # a PROVE call[d].counter = b
          <5> DEFINE e == call[d].counter
          <5>1. /\ b \in Counters /\ e \in Counters /\ b.at = e.at /\ b.key = e.key
                /\ b.start \in Nat /\ e.start \in Nat
                /\ b.start >= a.start + Window /\ b.start < call[f].at + Window
                /\ e.start >= a.start + Window /\ e.start < call[f].at + Window
            BY <2>2, <4>1, <4>2
          <5>2. Apart(b, e)
            BY <2>2, <4>1, CountersApart
          <5> HIDE DEF b, e
          <5>3. b.start = e.start
            BY <2>1, <5>1, <5>2, LimitAssumption DEF Apart
          <5>4. b = e
            BY <5>1, <5>3 DEF Counters
          <5> QED
            BY <5>4 DEF b, e
        <4>3. S \subseteq LetThrough(a) \cup LetThrough(b)
          BY <2>2, <4>2
        <4> QED
          BY <4>3
      <3> QED
        BY <3>1, <3>2
    <2> DEFINE A == LetThrough(a)
               B == LetThrough(b)
    <2>4. IsFiniteSet(A) /\ Cardinality(A) \in Nat /\ Cardinality(A) <= Max
          /\ IsFiniteSet(B) /\ Cardinality(B) \in Nat /\ Cardinality(B) <= Max
      BY LetThroughBound
    <2> HIDE DEF A, B, S
    <2>5. IsFiniteSet(A \cup B) /\ Cardinality(A \cup B) = Cardinality(A) + Cardinality(B) - Cardinality(A \cap B)
          /\ Cardinality(A \cap B) \in Nat
      BY <2>4, FS_Union, FS_Intersection, FS_CardinalityType
    <2>6. S \in SUBSET (A \cup B)
      BY <2>3 DEF A, B
    <2>7. Cardinality(S) <= Cardinality(A \cup B) /\ Cardinality(S) \in Nat
      BY <2>5, <2>6, FS_Subset, FS_CardinalityType
    <2>8. Cardinality(S) <= 2 * Max
      BY <2>4, <2>5, <2>7, LimitAssumption
    <2> QED
      BY <2>8 DEF S
  <1> QED
    BY <1>1, Invariance, PTL

\* Whoever is refused shares its counter with more than the maximum of its own
\* calls: neither another tenant nor a store that fails refuses anybody
\* (ratelimit.ts, the key and the count of 0).
THEOREM RefusalEarned == Spec => []RefusalIsEarned
  <1>1. Inv => RefusalIsEarned
    <2> SUFFICES ASSUME Inv, NEW c \in Calls, call[c].pc = "refused"
                 PROVE  Cardinality({d \in Calls :
                           /\ call[d].pc \notin {"idle", "asking"}
                           /\ call[d].rank # Uncounted
                           /\ call[d].org = call[c].org
                           /\ call[d].counter = call[c].counter}) > Max
      BY DEF RefusalIsEarned
    <2> DEFINE S == {d \in Calls :
                           /\ call[d].pc \notin {"idle", "asking"}
                           /\ call[d].rank # Uncounted
                           /\ call[d].org = call[c].org
                           /\ call[d].counter = call[c].counter}
               T == {d \in S : call[d].rank \in 1..(Max + 1)}
               g == [d \in T |-> call[d].rank]
    <2>1. IsFiniteSet(S) /\ IsFiniteSet(T) /\ T \in SUBSET S
      BY CallsAssumption, FS_Subset
    <2>2. ASSUME NEW r \in 1..(Max + 1) PROVE \E d \in T : g[d] = r
      <3>1. PICK d \in Calls : Ranked(d, call[c].counter, r)
        BY DEF Inv, RefusedInv
      <3>2. /\ call[d].pc \notin {"idle", "asking"} /\ call[d].counter = call[c].counter
            /\ call[d].rank = r
        BY <3>1 DEF Ranked, RankedIn
      <3>3. call[d].org = call[c].org
        BY <3>2 DEF Inv, CallsInv, key
      <3>4. r # Uncounted
        BY LimitAssumption DEF Uncounted
      <3> QED
        BY <3>2, <3>3, <3>4
    <2>3. g \in [T -> 1..(Max + 1)]
      OBVIOUS
    <2>4. g \in Surjection(T, 1..(Max + 1))
      BY <2>2, <2>3 DEF Surjection
    <2> HIDE DEF g, S, T
    <2>5. Cardinality(1..(Max + 1)) <= Cardinality(T) /\ Cardinality(1..(Max + 1)) = Max + 1
      <3>1. 1 \in Int /\ Max + 1 \in Int
        BY LimitAssumption
      <3>2. IsFiniteSet(1..(Max + 1)) /\ Cardinality(1..(Max + 1)) = IF 1 > Max + 1 THEN 0 ELSE (Max + 1) - 1 + 1
        BY <3>1, FS_Interval
      <3>3. Cardinality(1..(Max + 1)) = Max + 1
        BY <3>2, LimitAssumption
      <3>4. Cardinality(1..(Max + 1)) <= Cardinality(T)
        BY <2>1, <2>4, <3>2, FS_Surjection
      <3> QED
        BY <3>3, <3>4
    <2>6. Cardinality(T) <= Cardinality(S) /\ Cardinality(S) \in Nat /\ Cardinality(T) \in Nat
      BY <2>1, FS_Subset, FS_CardinalityType
    <2>7. Cardinality(S) > Max
      BY <2>5, <2>6, LimitAssumption
    <2> QED
      BY <2>7 DEF S
  <1> QED
    BY <1>1, Invariance, PTL

\* The wait a refused caller is told is over only when its window is
\* (ratelimit.ts, Math.ceil).
THEOREM PatienceRewarded == Spec => []PatienceIsRewarded
  <1>1. Inv => PatienceIsRewarded
    <2> SUFFICES ASSUME Inv, NEW c \in Calls, NEW d \in Calls, call[c].pc = "refused"
                 PROVE  /\ call[c].retryAfter > 0
                        /\ /\ call[d] # Idle
                           /\ call[d].at >= call[c].at + call[c].retryAfter * Second
                           => call[d].counter # call[c].counter
      BY DEF PatienceIsRewarded
    <2>1. call[c].retryAfter > 0
          /\ call[c].at + call[c].retryAfter * Second >= resetAt(call[c].counter)
      BY DEF Inv, RefusedInv
    <2>2. ASSUME call[d] # Idle, call[d].counter = call[c].counter
          PROVE  ~(call[d].at >= call[c].at + call[c].retryAfter * Second)
      <3>1. call[d].pc # "idle"
        BY <2>2 DEF Inv, TypeOK
      <3>2. call[d].at \in Nat /\ call[d].at < resetAt(call[c].counter) /\ resetAt(call[c].counter) \in Nat
        BY <2>2, <3>1, Fields, CounterType DEF Inv, CallsInv
      <3>3. call[c].at \in Nat /\ call[c].retryAfter \in Nat
        BY Fields DEF Inv
      <3> DEFINE wait == call[c].retryAfter * Second
      <3>4. wait \in Nat
        BY <3>3, LimitAssumption
      <3>5. call[c].at + wait >= resetAt(call[c].counter)
        BY <2>1
      <3> HIDE DEF wait
      <3>6. ~(call[d].at >= call[c].at + wait)
        BY <3>2, <3>3, <3>4, <3>5
      <3> QED
        BY <3>6 DEF wait
    <2> QED
      BY <2>1, <2>2
  <1> QED
    BY <1>1, Invariance, PTL
=============================================================================

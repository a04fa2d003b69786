------------------------------ MODULE RateLimit ------------------------------
(***************************************************************************)
(* The rate limiter (apps/web/src/gateway/ratelimit.ts) as gate 5 of       *)
(* dispatch uses it: a fixed window of Window ticks per organisation,      *)
(* resource and operation, counted in a process's memory or in Redis       *)
(* (external: INCR and EXPIRE).                                            *)
(*                                                                         *)
(* One resource and one operation, whose limit is Max.  A counter is       *)
(* identified by where it is kept, its key and the instant its window      *)
(* begins.  A process that restarts is another gateway: its memory is      *)
(* empty.  All clocks agree.                                               *)
(***************************************************************************)
EXTENDS Integers, FiniteSets

CONSTANTS
    Calls,          \* the calls that reach gate 5
    Organizations,  \* the tenants they are made for
    Gateways,       \* the gateway's processes
    Stores,         \* the stores a deployment may have selected
    Max,            \* rateLimit.max
    Window,         \* windowSeconds in ticks
    Second,         \* a second in ticks
    MaxTime         \* bound: last tick

Redis == "redis"

ASSUME LimitAssumption ==
    /\ Max \in Nat
    /\ Window \in Nat \ {0}
    /\ Second \in Nat \ {0}
    /\ MaxTime \in Nat

ASSUME CallsAssumption == IsFiniteSet(Calls)

ASSUME StoreAssumption == Stores \subseteq {"memory", Redis} /\ Redis \notin Gateways

VARIABLES
    store,      \* the store selectStore chose when the deployment started
    now,        \* time in ticks
    count,      \* count[b]: what counter b stands at, 0 if there is none
    expires,    \* expires[b]: when Redis forgets counter b
    call        \* call[c]: where rateLimit is suspended, or its verdict

vars == <<store, now, count, expires, call>>

-----------------------------------------------------------------------------
(* Counters *)

\* Slip: the key does not name the tenant.
sharedKey(org) == "project:create"

\* The key of gate 5, of which only the tenant differs here.
key(org) == org

Keys == {key(o) : o \in Organizations}

Places == Gateways \cup {Redis}

Counters == [at : Places, key : Keys, start : 0..MaxTime]

resetAt(b) == b.start + Window

Idle == [pc |-> "idle"]

Settled(c) == call[c].pc \in {"admitted", "refused"}

Uncounted == 0

-----------------------------------------------------------------------------
(* The verdict *)

\* Slip: the rest of the window is rounded to the seconds that are full.
floorSeconds(ticks) == ticks \div Second

\* Math.ceil((resetAt - now) / 1000)
ceilSeconds(ticks) == (ticks + Second - 1) \div Second

\* Slip: the limit itself is still let through.
Exceeds1(n) == n > Max + 1

Exceeds(n) == n > Max

\* rateLimit once the store answered n: refused if n is above the maximum.
\* rank and countedAt are history: which increment of its counter the call's
\* was, and when.
Verdict(c, n, rank) ==
    call' = [call EXCEPT ![c] =
        [pc |-> IF Exceeds(n) THEN "refused" ELSE "admitted",
         org |-> @.org, at |-> @.at, counter |-> @.counter,
         rank |-> rank, countedAt |-> now,
         retryAfter |-> IF Exceeds(n) THEN ceilSeconds(resetAt(@.counter) - @.at) ELSE 0]]

-----------------------------------------------------------------------------
(* InMemoryStore *)

\* The bucket the process's map holds for the key, if its window is not over.
LiveBuckets(g, k) ==
    {b \in Counters : b.at = g /\ b.key = k /\ count[b] > 0 /\ resetAt(b) > now}

Increment(c, org, b) ==
    /\ count' = [count EXCEPT ![b] = @ + 1]
    /\ call' = [call EXCEPT ![c] =
          [pc |-> "incremented", org |-> org, at |-> now, counter |-> b,
           rank |-> count[b] + 1]]

\* incr: the live bucket, or a fresh one whose window begins now.
IncrementMemory(c, g, org) ==
    /\ store = "memory"
    /\ call[c] = Idle
    /\ LET live == LiveBuckets(g, key(org))
       IN  \/ \E b \in live : Increment(c, org, b)
           \/ live = {} /\ Increment(c, org, [at |-> g, key |-> key(org), start |-> now])
    /\ UNCHANGED <<store, now, expires>>

\* The promise carries the bucket, not its count: when rateLimit resumes it
\* reads what other calls have made of the count meanwhile.
ResumeMemory(c) ==
    /\ call[c].pc = "incremented"
    /\ Verdict(c, count[call[c].counter], call[c].rank)
    /\ UNCHANGED <<store, now, count, expires>>

-----------------------------------------------------------------------------
(* UpstashStore *)

\* Slip: windows of half the length.
windowStartHalf(t) == LET half == Window \div 2 IN (t \div half) * half

\* floor(now / window), as the instant that window begins.
windowStart(t) == (t \div Window) * Window

\* incr: the window is that of the clock now, whenever Redis gets to count.
AskRedis(c, org) ==
    /\ store = Redis
    /\ call[c] = Idle
    /\ call' = [call EXCEPT ![c] =
          [pc |-> "asking", org |-> org, at |-> now,
           counter |-> [at |-> Redis, key |-> key(org), start |-> windowStart(now)]]]
    /\ UNCHANGED <<store, now, count, expires>>

\* What INCR makes of the key, which may have expired; EXPIRE renews its life.
incremented(b) == IF expires[b] > now THEN count[b] + 1 ELSE 1

RedisCounts(b) ==
    /\ count' = [count EXCEPT ![b] = incremented(b)]
    /\ expires' = [expires EXCEPT ![b] = now + Window]

\* Redis counts the call and its answer comes back.
Answered(c) ==
    /\ call[c].pc = "asking"
    /\ RedisCounts(call[c].counter)
    /\ Verdict(c, incremented(call[c].counter), incremented(call[c].counter))
    /\ UNCHANGED <<store, now>>

\* The request failed before Redis counted it, or after, or its answer is not
\* the one expected: a count of 0 lets the call through.
FailOpen(c) ==
    /\ call[c].pc = "asking"
    /\ \E counted \in BOOLEAN :
         /\ IF counted THEN RedisCounts(call[c].counter) ELSE UNCHANGED <<count, expires>>
         /\ call' = [call EXCEPT ![c] =
               [pc |-> "failedOpen", org |-> @.org, at |-> @.at, counter |-> @.counter,
                rank |-> IF counted THEN incremented(@.counter) ELSE Uncounted]]
    /\ UNCHANGED <<store, now>>

-----------------------------------------------------------------------------

\* No time passes while a call in memory waits for its microtask.
Tick ==
    /\ now < MaxTime
    /\ \A c \in Calls : call[c].pc # "incremented"
    /\ now' = now + 1
    /\ UNCHANGED <<store, count, expires, call>>

Init ==
    /\ store \in Stores
    /\ now = 0
    /\ count = [b \in Counters |-> 0]
    /\ expires = [b \in Counters |-> 0]
    /\ call = [c \in Calls |-> Idle]

Next ==
    \/ Tick
    \/ \E c \in Calls :
         \/ \E org \in Organizations :
              AskRedis(c, org) \/ \E g \in Gateways : IncrementMemory(c, g, org)
         \/ ResumeMemory(c) \/ Answered(c) \/ FailOpen(c)

Spec == Init /\ [][Next]_vars

-----------------------------------------------------------------------------
(* Properties *)

TypeOK ==
    /\ store \in Stores
    /\ now \in 0..MaxTime
    /\ count \in [Counters -> Nat]
    /\ expires \in [Counters -> Nat]
    /\ call \in [Calls ->
          {Idle}
          \cup [pc : {"asking"}, org : Organizations, at : Nat, counter : Counters]
          \cup [pc : {"incremented", "failedOpen"}, org : Organizations, at : Nat, counter : Counters,
                rank : Nat]
          \cup [pc : {"admitted", "refused"}, org : Organizations, at : Nat,
                counter : Counters, rank : Nat, countedAt : Nat, retryAfter : Nat]]

\* The calls a counter let through, those aside that Redis was not able to
\* count and those it counted only when their window was over (their counter
\* may have expired by then).
LetThrough(b) ==
    {c \in Calls : /\ call[c].pc = "admitted"
                   /\ call[c].counter = b
                   /\ call[c].countedAt < resetAt(b)}

Used == {call[c].counter : c \in {d \in Calls : Settled(d)}}

\* A counter lets at most the declared maximum through, however its calls
\* interleave between the count and the verdict.
MaxPerWindow == \A b \in Used : Cardinality(LetThrough(b)) <= Max

\* In any span as long as a window an organisation gets at most twice the
\* maximum from one store: the calls around a boundary are of two windows.
\* With the in-memory store that is per process.
AtMostTwiceTheMaximum ==
    \A f \in {c \in Calls : Settled(c)} :
        Cardinality({c \in Calls : /\ call[c].pc = "admitted"
                                   /\ call[c].org = call[f].org
                                   /\ call[c].counter.at = call[f].counter.at
                                   /\ call[c].at \in call[f].at..(call[f].at + Window - 1)
                                   /\ c \in LetThrough(call[c].counter)}) <= 2 * Max

\* A tenant is refused for its own calls only: more than the maximum of them
\* have been counted in the window it is refused in.  A store that does not
\* answer refuses nobody.
RefusalIsEarned ==
    \A c \in Calls : call[c].pc = "refused" =>
        Cardinality({d \in Calls : /\ call[d].pc \notin {"idle", "asking"}
                                   /\ call[d].rank # Uncounted
                                   /\ call[d].org = call[c].org
                                   /\ call[d].counter = call[c].counter}) > Max

\* Whoever comes back after retryAfterSeconds is counted in another window, and
\* nobody is told to come back at once.
PatienceIsRewarded ==
    \A c, d \in Calls :
        /\ call[c].pc = "refused" => call[c].retryAfter > 0
        /\ /\ call[c].pc = "refused" /\ call[d] # Idle
           /\ call[d].counter.at = call[c].counter.at
           /\ call[d].org = call[c].org
           /\ call[d].at >= call[c].at + call[c].retryAfter * Second
           => call[d].counter # call[c].counter
=============================================================================

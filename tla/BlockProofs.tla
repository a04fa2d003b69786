----------------------------- MODULE BlockProofs -----------------------------
(***************************************************************************)
(* Theorems about Block, for any registry, any number of calls and         *)
(* replicas, any drift within the tolerance and any rotation of the        *)
(* secret.                                                                 *)
(***************************************************************************)
EXTENDS Block, FiniteSetTheorems, TLAPS

-----------------------------------------------------------------------------
(* Type correctness *)

\* A pending command has a delivery left: without it DeliverCommand could
\* count past max_deliver.
PendingHasDeliveries ==
    \A c \in Calls : cmd[c].state = "pending" => cmd[c].deliveries < MaxDeliver

TypeInv == TypeOK /\ PendingHasDeliveries

\* The ladder has a lowest rung.
LEMMA LowestRoleType == LOWEST_ROLE \in ORG_ROLES
  <1>1. ROLE_RANK["member"] = 1 /\ ROLE_RANK["admin"] = 2 /\ ROLE_RANK["owner"] = 3
    BY DEF ROLE_RANK, ORG_ROLES
  <1>2. \E r \in ORG_ROLES : \A q \in ORG_ROLES : ROLE_RANK[r] <= ROLE_RANK[q]
    BY <1>1 DEF ORG_ROLES
  <1> QED
    BY <1>2 DEF LOWEST_ROLE

\* Neither half of the block answers with a code that is not declared.
LEMMA GateCodes == ASSUME NEW e PROVE HandleGates(e) \in ERROR_CODES \cup {"pass"}
  BY DEF HandleGates, checkFreshness, Fresh, ERROR_CODES

LEMMA VerdictCodes ==
    ASSUME NEW c, NEW r \in Replies PROVE ReplyVerdict(c, r) \in Answers
  BY DEF ReplyVerdict, toFailure, Answers, Replies, ERROR_CODES

LEMMA InitTypeInv == Init => TypeInv
  <1> SUFFICES ASSUME Init PROVE TypeInv
    OBVIOUS
  <1> USE DEF Init
  <1>1. now \in Nat /\ drift \in -MaxDrift..MaxDrift
    OBVIOUS
  <1>2. secret \in [gateway : Secrets, service : Secrets]
    OBVIOUS
  <1>3. role \in [Calls -> ORG_ROLES]
    BY LowestRoleType
  <1>4. cmd \in [Calls -> [state : CommandStates, deliveries : 0..MaxDeliver]]
    BY BoundAssumption DEF CommandStates
  <1>5. PendingHasDeliveries
    BY DEF PendingHasDeliveries
  <1> QED
    BY <1>1, <1>2, <1>3, <1>4, <1>5 DEF TypeInv, TypeOK, NoEnvelope, NoAnswer, NoReply

\* What an answer, a nak and the end of a handle invocation do to the types.
LEMMA NakType ==
    ASSUME TypeInv, NEW c \in Calls, NEW n \in 0..MaxDeliver, Nak(c, n)
    PROVE  /\ cmd' \in [Calls -> [state : CommandStates, deliveries : 0..MaxDeliver]]
           /\ PendingHasDeliveries'
  BY BoundAssumption DEF TypeInv, TypeOK, PendingHasDeliveries, Nak, Mark, CommandStates

LEMMA RespondType ==
    ASSUME TypeInv, NEW c \in Calls, NEW code \in ERROR_CODES \cup {"OK"}, Respond(c, code)
    PROVE  reply' \in [Calls -> Replies \cup {NoReply}]
  BY DEF TypeInv, TypeOK, Respond, Replies

LEMMA FinishType ==
    ASSUME TypeInv, NEW j \in jobs, NEW code \in ERROR_CODES \cup {"OK"}, Finish(j, code)
    PROVE  /\ cmd' \in [Calls -> [state : CommandStates, deliveries : 0..MaxDeliver]]
           /\ PendingHasDeliveries'
           /\ reply' \in [Calls -> Replies \cup {NoReply}]
  <1> DEFINE c == j.call
  <1>1. c \in Calls /\ cmd[c].deliveries \in 0..MaxDeliver
    BY DEF TypeInv, TypeOK, Jobs
  <1>2. CASE IsRpc(c)
    <2>1. Respond(c, code) /\ UNCHANGED cmd
      BY <1>2 DEF Finish
    <2> QED
      BY <1>1, <2>1, RespondType DEF TypeInv, TypeOK, PendingHasDeliveries
  <1>3. CASE ~IsRpc(c)
    <2>1. CASE code = "OK" /\ cmd[c].state \in {"pending", "inflight"}
      <3>1. Mark(c, "acked", cmd[c].deliveries) /\ UNCHANGED reply
        BY <1>3, <2>1 DEF Finish
      <3> QED
        BY <1>1, <3>1 DEF Mark, TypeInv, TypeOK, PendingHasDeliveries, CommandStates
    <2>2. CASE code # "OK" /\ cmd[c].state = "inflight"
      <3>1. Nak(c, cmd[c].deliveries) /\ UNCHANGED reply
        BY <1>3, <2>2 DEF Finish
      <3> QED
        BY <1>1, <3>1, NakType DEF TypeInv, TypeOK
    <2>3. CASE /\ ~(code = "OK" /\ cmd[c].state \in {"pending", "inflight"})
               /\ ~(code # "OK" /\ cmd[c].state = "inflight")
      <3>1. UNCHANGED <<cmd, reply>>
        BY <1>3, <2>3 DEF Finish
      <3> QED
        BY <3>1 DEF TypeInv, TypeOK, PendingHasDeliveries
    <2> QED
      BY <2>1, <2>2, <2>3
  <1> QED
    BY <1>2, <1>3

\* The gateway's steps preserve the types.
LEMMA GatewayType == ASSUME TypeInv, NEW c \in Calls, Gateway(c) PROVE TypeInv'
  <1> USE DEF TypeInv, TypeOK, PendingHasDeliveries, clockVars, busVars, serviceVars, Answers
  <1>1. CASE Identify(c)
    <2>1. UNCHANGED <<clockVars, request, envelope, busVars, serviceVars>>
      BY <1>1 DEF Identify
    <2>2. CASE /\ \E code \in {"INTERNAL", "UNAUTHORIZED", "NO_ACTIVE_ORG"} : Answer(c, code)
               /\ UNCHANGED role
      BY <2>1, <2>2 DEF Answer, ERROR_CODES
    <2>3. CASE \E r \in ORG_ROLES :
                  /\ role' = [role EXCEPT ![c] = r]
                  /\ IF RoleGates(c, r)
                     THEN stage' = [stage EXCEPT ![c] = "rateLimit"] /\ UNCHANGED answer
                     ELSE Answer(c, "PERMISSION_DENIED")
      <3>1. PICK r \in ORG_ROLES :
                  /\ role' = [role EXCEPT ![c] = r]
                  /\ IF RoleGates(c, r)
                     THEN stage' = [stage EXCEPT ![c] = "rateLimit"] /\ UNCHANGED answer
                     ELSE Answer(c, "PERMISSION_DENIED")
        BY <2>3
      <3>2. CASE RoleGates(c, r)
        BY <2>1, <3>1, <3>2
      <3>3. CASE ~RoleGates(c, r)
        BY <2>1, <3>1, <3>3 DEF Answer, ERROR_CODES
      <3> QED
        BY <3>2, <3>3
    <2> QED
      BY <1>1, <2>2, <2>3 DEF Identify
  <1>2. CASE RateLimit(c)
    BY <1>2 DEF RateLimit, Answer, ERROR_CODES
  <1>3. CASE UpgradeRequired(c)
    BY <1>3 DEF UpgradeRequired, Answer, ERROR_CODES
  <1>4. ASSUME Sign(c) PROVE envelope' \in [Calls -> Envelopes \cup {NoEnvelope}]
    BY <1>4, RuleAssumption DEF Sign, Envelopes, permissionsForRole
  <1>5. CASE SendRpc(c)
    BY <1>4, <1>5 DEF SendRpc
  <1>6. CASE SendCommand(c)
    <2>1. cmd' \in [Calls -> [state : CommandStates, deliveries : 0..MaxDeliver]]
      BY <1>6, BoundAssumption DEF SendCommand, Mark, CommandStates
    <2>2. PendingHasDeliveries'
      BY <1>6, BoundAssumption DEF SendCommand, Mark
    <2> QED
      BY <1>4, <1>6, <2>1, <2>2 DEF SendCommand, Answer, ERROR_CODES
  <1>7. CASE PublishAck(c)
    BY <1>7 DEF PublishAck, Answer, ERROR_CODES
  <1>8. CASE ReceiveReply(c)
    BY <1>8, VerdictCodes DEF ReceiveReply, Answer
  <1>9. CASE TimeOut(c)
    BY <1>9 DEF TimeOut, Answer, ERROR_CODES
  <1>10. CASE NoResponders(c)
    BY <1>10 DEF NoResponders, Answer, ERROR_CODES
  <1> QED
    BY <1>1, <1>2, <1>3, <1>5, <1>6, <1>7, <1>8, <1>9, <1>10 DEF Gateway

\* The steps of the bus and of the service preserve the types.
LEMMA DeliverType == ASSUME TypeInv, NEW c \in Calls, Deliver(c) PROVE TypeInv'
  <1> USE DEF TypeInv, TypeOK, clockVars, gatewayVars, busVars, serviceVars
  <1>1. CASE DeliverRpc(c)
    <2> DEFINE verdict == HandleGates(envelope[c])
    <2>1. CASE verdict = "pass"
      BY <1>1, <2>1, BoundAssumption DEF DeliverRpc, PendingHasDeliveries, Jobs
    <2>2. CASE verdict # "pass"
      <3>1. verdict \in ERROR_CODES \cup {"OK"}
        BY <2>2, GateCodes
      <3>2. Respond(c, verdict) /\ UNCHANGED jobs
        BY <1>1, <2>2 DEF DeliverRpc
      <3>3. reply' \in [Calls -> Replies \cup {NoReply}]
        BY <3>1, <3>2, RespondType
      <3> QED
        BY <1>1, <3>2, <3>3 DEF DeliverRpc, PendingHasDeliveries
    <2> QED
      BY <2>1, <2>2
  <1>2. CASE DeliverUnreadable(c)
    BY <1>2 DEF DeliverUnreadable, RefuseUnbound, PendingHasDeliveries, Replies, ERROR_CODES
  <1>3. CASE DeliverCommand(c)
    <2> DEFINE n == cmd[c].deliveries + 1
    <2>1. n \in 1..MaxDeliver
      BY <1>3, BoundAssumption DEF DeliverCommand, PendingHasDeliveries
    <2>2. CASE HandleGates(envelope[c]) = "pass"
      <3>1. jobs' = jobs \cup {[call |-> c, attempt |-> n, at |-> "running"]} /\ Mark(c, "inflight", n)
        BY <1>3, <2>2 DEF DeliverCommand
      <3>2. jobs' \subseteq Jobs
        BY <2>1, <3>1 DEF Jobs
      <3>3. /\ cmd' \in [Calls -> [state : CommandStates, deliveries : 0..MaxDeliver]]
            /\ PendingHasDeliveries'
        BY <2>1, <3>1, BoundAssumption DEF Mark, CommandStates, PendingHasDeliveries
      <3> QED
        BY <1>3, <3>2, <3>3 DEF DeliverCommand
    <2>3. CASE HandleGates(envelope[c]) # "pass"
      <3>1. Nak(c, n) /\ UNCHANGED jobs
        BY <1>3, <2>3 DEF DeliverCommand
      <3>2. /\ cmd' \in [Calls -> [state : CommandStates, deliveries : 0..MaxDeliver]]
            /\ PendingHasDeliveries'
        BY <2>1, <3>1, NakType, BoundAssumption
      <3> QED
        BY <1>3, <3>1, <3>2 DEF DeliverCommand
    <2> QED
      BY <2>2, <2>3
  <1>4. CASE AckWait(c)
    <2>1. /\ cmd' \in [Calls -> [state : CommandStates, deliveries : 0..MaxDeliver]]
          /\ PendingHasDeliveries'
      BY <1>4, NakType DEF AckWait
    <2> QED
      BY <1>4, <2>1 DEF AckWait
  <1>5. CASE Expire(c)
    <2>1. /\ cmd' \in [Calls -> [state : CommandStates, deliveries : 0..MaxDeliver]]
          /\ PendingHasDeliveries'
      BY <1>5 DEF Expire, Mark, CommandStates, PendingHasDeliveries
    <2> QED
      BY <1>5, <2>1 DEF Expire
  <1> QED
    BY <1>1, <1>2, <1>3, <1>4, <1>5 DEF Deliver

LEMMA HandleType == ASSUME TypeInv, NEW j \in jobs, Handle(j) PROVE TypeInv'
  <1> USE DEF TypeInv, TypeOK, clockVars, gatewayVars, busVars, serviceVars
  <1>1. j \in Jobs /\ j.call \in Calls
    BY DEF Jobs
  <1>2. ASSUME NEW code \in ERROR_CODES \cup {"OK"}, Finish(j, code)
        PROVE  /\ cmd' \in [Calls -> [state : CommandStates, deliveries : 0..MaxDeliver]]
               /\ PendingHasDeliveries'
               /\ reply' \in [Calls -> Replies \cup {NoReply}]
    BY <1>2, FinishType
  <1>3. {"OK", "INTERNAL"} \subseteq ERROR_CODES \cup {"OK"}
    BY DEF ERROR_CODES
  <1>4. [call |-> j.call, attempt |-> j.attempt, at |-> "emitting"] \in Jobs
    BY <1>1 DEF Jobs
  <1>5. ASSUME StoreEvent(j.call) PROVE evt' \subseteq Calls
    BY <1>1, <1>5 DEF StoreEvent
  <1>6. CASE HandlerRefuses(j)
    <2>1. PICK code \in HandlerRefusals \cup {"INTERNAL"} : Finish(j, code)
      BY <1>6 DEF HandlerRefuses
    <2>2. code \in ERROR_CODES \cup {"OK"}
      BY InputAssumption DEF ERROR_CODES
    <2> QED
      BY <1>2, <1>6, <2>1, <2>2 DEF HandlerRefuses
  <1>7. CASE HandlerCommits(j)
    <2>1. committed' \in [Calls -> Nat]
      BY <1>1, <1>7 DEF HandlerCommits
    <2>2. CASE Rule[request[j.call].op].audit
      <3>1. jobs' = (jobs \ {j}) \cup {[j EXCEPT !.at = "emitting"]} /\ UNCHANGED <<reply, cmd>>
        BY <1>7, <2>2 DEF HandlerCommits
      <3> QED
        BY <1>1, <1>7, <2>1, <3>1 DEF HandlerCommits, Jobs, PendingHasDeliveries
    <2>3. CASE ~Rule[request[j.call].op].audit
      BY <1>2, <1>3, <1>7, <2>1, <2>3 DEF HandlerCommits
    <2> QED
      BY <2>2, <2>3
  <1>8. CASE HandlerCommitsThenFails(j)
    <2>1. committed' \in [Calls -> Nat]
      BY <1>1, <1>8 DEF HandlerCommitsThenFails
    <2> QED
      BY <1>2, <1>3, <1>8, <2>1 DEF HandlerCommitsThenFails
  <1>9. CASE EmitEvent(j)
    BY <1>2, <1>3, <1>5, <1>9 DEF EmitEvent
  <1>10. CASE EmitFails(j)
    BY <1>2, <1>3, <1>5, <1>10 DEF EmitFails
  <1>11. CASE Crash(j)
    BY <1>11 DEF Crash, PendingHasDeliveries
  <1>12. CASE ReplyTooLarge(j)
    <2>1. committed' \in [Calls -> Nat]
      BY <1>1, <1>12 DEF ReplyTooLarge
    <2>2. reply' \in [Calls -> Replies \cup {NoReply}]
      BY <1>1, <1>12 DEF ReplyTooLarge, RefuseUnbound, Replies, ERROR_CODES
    <2> QED
      BY <1>12, <2>1, <2>2 DEF ReplyTooLarge, PendingHasDeliveries
  <1> QED
    BY <1>6, <1>7, <1>8, <1>9, <1>10, <1>11, <1>12 DEF Handle

LEMMA NextTypeInv == TypeInv /\ [Next]_vars => TypeInv'
  <1> SUFFICES ASSUME TypeInv, [Next]_vars PROVE TypeInv'
    OBVIOUS
  <1> USE DEF TypeInv, TypeOK, PendingHasDeliveries, clockVars, gatewayVars, busVars, serviceVars
  <1>1. CASE \E c \in Calls : Gateway(c)
    BY <1>1, GatewayType
  <1>2. CASE \E c \in Calls : Deliver(c)
    BY <1>2, DeliverType
  <1>3. CASE \E j \in jobs : Handle(j)
    BY <1>3, HandleType
  <1>4. CASE Tick
    BY <1>4 DEF Tick
  <1>5. CASE RotateGateway
    BY <1>5 DEF RotateGateway
  <1>6. CASE RotateService
    BY <1>6 DEF RotateService
  <1>7. CASE Settled \/ UNCHANGED vars
    BY <1>7 DEF Settled, vars
  <1> QED
    BY <1>1, <1>2, <1>3, <1>4, <1>5, <1>6, <1>7 DEF Next

\* Every state of the block is well typed; in particular no command is ever
\* handed out more than max_deliver times, whatever naks, lost
\* acknowledgements and late handlers interleave (serve.ts).
THEOREM TypeCorrect == Spec => []TypeOK
  <1>1. Spec => []TypeInv
    BY InitTypeInv, NextTypeInv, PTL DEF Spec
  <1>2. TypeInv => TypeOK
    BY DEF TypeInv
  <1> QED
    BY <1>1, <1>2, PTL

-----------------------------------------------------------------------------
(* The inductive invariant *)

\* Nothing was written for c and nothing under way can write it.
Untouched(c) ==
    /\ committed[c] = 0 /\ ~Working(c)
    /\ c \notin rpc /\ cmd[c].state = "absent"

\* A dispatch that has sent nothing has caused nothing, and only a dispatch
\* that is over has an answer.
StageInv(c) ==
    /\ stage[c] \in {"idle", "rateLimit", "entitlements"} =>
          Untouched(c) /\ reply[c] = NoReply
    /\ answer[c] # NoAnswer => stage[c] = "answered"

\* The two transports do not mix.
KindInv(c) ==
    /\ stage[c] = "waiting" \/ c \in rpc \/ reply[c] # NoReply => IsRpc(c)
    /\ IsRpc(c) => cmd[c].state = "absent"
    /\ stage[c] = "publishing" => cmd[c].state # "absent"

\* What has passed gates 3 to 4b has passed them with the role that is signed.
GatedInv(c) ==
    stage[c] \in {"rateLimit", "entitlements"} \/ ~Untouched(c) => RoleGates(c, role[c])

\* A handler runs under the secret its envelope was signed with.
SignedInv == \A j \in jobs : envelope[j.call].signedWith = secret.service

\* The event of c is in the stream, if c has one.
Emitted(c) == Rule[request[c].op].audit => \E d \in evt : RequestId[d] = RequestId[c]

\* The life of an rpc: on the bus, then one handle invocation, then a reply.
RpcInv(c) ==
    IsRpc(c) =>
        /\ c \in rpc => committed[c] = 0 /\ ~Working(c) /\ reply[c] = NoReply
        /\ \A j, k \in jobs : j.call = c /\ k.call = c => j = k
        /\ \A j \in jobs : j.call = c =>
              /\ reply[c] = NoReply
              /\ committed[c] = IF j.at = "running" THEN 0 ELSE 1
        /\ committed[c] \in {0, 1}

\* Nothing was written for c, even if its handler ran.
Unwritten(c) == committed[c] = 0 \/ request[c].op \in Reads

\* What a reply waiting in the inbox says is so.
ReplyInv(c) ==
    reply[c] # NoReply =>
        /\ reply[c].code = "OK" => committed[c] = 1 /\ Emitted(c)
        /\ reply[c].code \in CleanRefusals => Unwritten(c)
        /\ ~reply[c].bound \/ reply[c].signedWith # envelope[c].signedWith => Unwritten(c)

\* And so is what the caller was told.
AnswerInv(c) ==
    /\ answer[c] = "OK" => IsRpc(c) /\ committed[c] = 1 /\ ~Working(c) /\ c \notin rpc /\ Emitted(c)
    /\ answer[c] \in CleanRefusals =>
          Unwritten(c) /\ ~Working(c) /\ c \notin rpc /\ cmd[c].state = "absent"

\* The event stream holds facts, and so does a job about to emit.
FactInv ==
    /\ \A c \in evt : committed[c] > 0
    /\ \A j \in jobs : j.at = "emitting" => committed[j.call] > 0

CallInv(c) ==
    StageInv(c) /\ KindInv(c) /\ GatedInv(c) /\ RpcInv(c) /\ ReplyInv(c) /\ AnswerInv(c)

Inv == TypeInv /\ SignedInv /\ FactInv /\ \A c \in Calls : CallInv(c)

-----------------------------------------------------------------------------
(* A step of one call leaves the others alone *)

\* Nothing CallInv(d) looks at has changed.
Same(d) ==
    /\ request' = request
    /\ stage'[d] = stage[d] /\ role'[d] = role[d] /\ envelope'[d] = envelope[d]
    /\ answer'[d] = answer[d] /\ reply'[d] = reply[d] /\ cmd'[d] = cmd[d]
    /\ (d \in rpc') <=> (d \in rpc)
    /\ committed'[d] = committed[d]
    /\ \A j \in jobs \cup jobs' : j.call = d => (j \in jobs <=> j \in jobs')
    /\ evt \subseteq evt'

LEMMA SameCall == ASSUME NEW d \in Calls, CallInv(d), Same(d) PROVE CallInv(d)'
  <1> USE DEF Same
  <1>1. Untouched(d)' <=> Untouched(d)
    BY DEF Untouched, Working
  <1>2. IsRpc(d)' <=> IsRpc(d)
    BY DEF IsRpc
  <1>3. Emitted(d) => Emitted(d)'
    BY DEF Emitted
  <1>4. Working(d)' <=> Working(d)
    BY DEF Working
  <1>5. RoleGates(d, role[d])' <=> RoleGates(d, role[d])
    BY DEF RoleGates, permissionsForRole
  <1>6. StageInv(d)'
    BY <1>1 DEF CallInv, StageInv
  <1>7. KindInv(d)'
    BY <1>2 DEF CallInv, KindInv
  <1>8. GatedInv(d)'
    BY <1>1, <1>5 DEF CallInv, GatedInv
  <1>9. RpcInv(d)'
    BY <1>2, <1>4 DEF CallInv, RpcInv
  <1>10. ReplyInv(d)'
    BY <1>3 DEF CallInv, ReplyInv, Unwritten
  <1>11. AnswerInv(d)'
    BY <1>2, <1>3, <1>4 DEF CallInv, AnswerInv, Unwritten
  <1> QED
    BY <1>6, <1>7, <1>8, <1>9, <1>10, <1>11 DEF CallInv

LEMMA GatewayOthers ==
    ASSUME TypeInv, NEW c \in Calls, Gateway(c)
    PROVE  /\ \A d \in Calls \ {c} : Same(d)
           /\ UNCHANGED <<request, secret, jobs, committed, evt>>
  <1> USE DEF TypeInv, TypeOK, clockVars, busVars, serviceVars, Same, Answer
  <1>1. CASE Identify(c)
    BY <1>1 DEF Identify
  <1>2. CASE RateLimit(c)
    BY <1>2 DEF RateLimit
  <1>3. CASE UpgradeRequired(c)
    BY <1>3 DEF UpgradeRequired
  <1>4. CASE SendRpc(c)
    BY <1>4 DEF SendRpc, Sign
  <1>5. CASE SendCommand(c)
    BY <1>5 DEF SendCommand, Sign, Mark
  <1>6. CASE PublishAck(c)
    BY <1>6 DEF PublishAck
  <1>7. CASE ReceiveReply(c)
    BY <1>7 DEF ReceiveReply
  <1>8. CASE TimeOut(c)
    BY <1>8 DEF TimeOut
  <1>9. CASE NoResponders(c)
    BY <1>9 DEF NoResponders
  <1> QED
    BY <1>1, <1>2, <1>3, <1>4, <1>5, <1>6, <1>7, <1>8, <1>9 DEF Gateway

LEMMA DeliverOthers ==
    ASSUME TypeInv, NEW c \in Calls, Deliver(c)
    PROVE  /\ \A d \in Calls \ {c} : Same(d)
           /\ UNCHANGED <<request, stage, role, envelope, answer, secret, committed, evt>>
  <1> USE DEF TypeInv, TypeOK, clockVars, gatewayVars, serviceVars, Same
  <1>1. CASE DeliverRpc(c)
    BY <1>1 DEF DeliverRpc, Respond
  <1>2. CASE DeliverUnreadable(c)
    BY <1>2 DEF DeliverUnreadable, RefuseUnbound
  <1>3. CASE DeliverCommand(c)
    BY <1>3 DEF DeliverCommand, Mark, Nak
  <1>4. CASE AckWait(c)
    BY <1>4 DEF AckWait, Mark, Nak
  <1>5. CASE Expire(c)
    BY <1>5 DEF Expire, Mark
  <1> QED
    BY <1>1, <1>2, <1>3, <1>4, <1>5 DEF Deliver

LEMMA HandleOthers ==
    ASSUME TypeInv, NEW j \in jobs, Handle(j)
    PROVE  /\ \A d \in Calls \ {j.call} : Same(d)
           /\ UNCHANGED <<request, stage, role, envelope, answer, secret, rpc>>
  <1> USE DEF TypeInv, TypeOK, clockVars, gatewayVars, busVars, Same
  <1>1. j \in Jobs
    OBVIOUS
  <1>2. [j EXCEPT !.at = "emitting"].call = j.call
    BY <1>1 DEF Jobs
  <1>3. ASSUME NEW code, Finish(j, code)
        PROVE  \A d \in Calls \ {j.call} : reply'[d] = reply[d] /\ cmd'[d] = cmd[d]
    BY <1>3 DEF Finish, Respond, Mark, Nak
  <1>4. ASSUME StoreEvent(j.call) PROVE evt \subseteq evt'
    BY <1>4 DEF StoreEvent
  <1>5. CASE HandlerRefuses(j)
    BY <1>3, <1>5 DEF HandlerRefuses
  <1>6. CASE HandlerCommits(j)
    BY <1>2, <1>3, <1>6 DEF HandlerCommits
  <1>7. CASE HandlerCommitsThenFails(j)
    BY <1>3, <1>7 DEF HandlerCommitsThenFails
  <1>8. CASE EmitEvent(j)
    BY <1>3, <1>4, <1>8 DEF EmitEvent
  <1>9. CASE EmitFails(j)
    BY <1>3, <1>4, <1>9 DEF EmitFails
  <1>10. CASE Crash(j)
    BY <1>10 DEF Crash, busVars
  <1>11. CASE ReplyTooLarge(j)
    BY <1>1, <1>11 DEF ReplyTooLarge, RefuseUnbound, Jobs
  <1> QED
    BY <1>5, <1>6, <1>7, <1>8, <1>9, <1>10, <1>11 DEF Handle

-----------------------------------------------------------------------------
(* The gateway's steps preserve the invariant *)

\* What a verdict on a reply owes to the reply.
LEMMA VerdictSound ==
    ASSUME NEW c, NEW r \in Replies
    PROVE  /\ ReplyVerdict(c, r) = "OK" =>
                 r.code = "OK" /\ r.bound /\ r.signedWith = envelope[c].signedWith
           /\ ReplyVerdict(c, r) \in CleanRefusals =>
                 \/ ~r.bound \/ r.signedWith # envelope[c].signedWith
                 \/ r.code \in CleanRefusals
  BY DEF ReplyVerdict, verify, toFailure, CleanRefusals, Replies, ERROR_CODES

\* A dispatch that ends before it sent anything: any refusal is true of it.
LEMMA EarlyAnswer ==
    ASSUME TypeInv, NEW c \in Calls, CallInv(c),
           stage[c] \in {"idle", "rateLimit", "entitlements"},
           stage'[c] = "answered", answer'[c] # "OK", UNCHANGED <<request, busVars, serviceVars>>
    PROVE  CallInv(c)'
  <1>1. Untouched(c)' /\ reply'[c] = NoReply
    BY DEF CallInv, StageInv, Untouched, Working, busVars, serviceVars
  <1>2. StageInv(c)' /\ KindInv(c)' /\ GatedInv(c)'
    BY <1>1 DEF CallInv, StageInv, KindInv, GatedInv, IsRpc, busVars, Untouched
  <1>3. RpcInv(c)' /\ ReplyInv(c)' /\ AnswerInv(c)'
    BY <1>1 DEF RpcInv, ReplyInv, AnswerInv, Untouched, Unwritten, Working
  <1> QED
    BY <1>2, <1>3 DEF CallInv

LEMMA GatewayCall == ASSUME Inv, NEW c \in Calls, Gateway(c) PROVE CallInv(c)'
  <1> USE DEF busVars, serviceVars, clockVars
  <1>0. TypeInv /\ TypeOK /\ CallInv(c) /\ UNCHANGED <<request, secret, jobs, committed, evt>>
    BY GatewayOthers DEF Inv, TypeInv
  <1>a. (IsRpc(c)' <=> IsRpc(c)) /\ (Emitted(c)' <=> Emitted(c)) /\ (Working(c)' <=> Working(c))
    BY <1>0 DEF IsRpc, Emitted, Working
  <1>1. CASE Identify(c)
    <2>1. /\ stage[c] = "idle" /\ Untouched(c) /\ reply[c] = NoReply /\ answer[c] = NoAnswer
          /\ UNCHANGED <<busVars, envelope>>
      BY <1>0, <1>1 DEF Identify, CallInv, StageInv
    <2>2. Untouched(c)' /\ reply'[c] = NoReply
      BY <1>0, <1>a, <2>1 DEF Untouched
    <2>3. CASE stage'[c] = "answered" /\ answer'[c] # "OK"
      BY <1>0, <1>1, <2>1, <2>2, <2>3, EarlyAnswer
    <2>4. CASE /\ stage'[c] = "rateLimit" /\ UNCHANGED answer
               /\ RoleGates(c, role[c])'
      <3>1. StageInv(c)' /\ KindInv(c)' /\ GatedInv(c)'
        BY <1>0, <1>a, <2>1, <2>2, <2>4 DEF CallInv, StageInv, KindInv, GatedInv, Untouched
      <3>2. RpcInv(c)' /\ ReplyInv(c)' /\ AnswerInv(c)'
        BY <2>1, <2>2, <2>4 DEF RpcInv, ReplyInv, AnswerInv, Untouched, Unwritten, Working, NoAnswer, CleanRefusals, ERROR_CODES
      <3> QED
        BY <3>1, <3>2 DEF CallInv
    <2>5. \/ stage'[c] = "answered" /\ answer'[c] # "OK"
          \/ stage'[c] = "rateLimit" /\ UNCHANGED answer /\ RoleGates(c, role[c])'
      <3>1. ASSUME NEW code, Answer(c, code), code # "OK"
            PROVE  stage'[c] = "answered" /\ answer'[c] # "OK"
        BY <1>0, <3>1 DEF Answer, TypeOK
      <3>2. CASE \E code \in {"INTERNAL", "UNAUTHORIZED", "NO_ACTIVE_ORG"} : Answer(c, code)
        BY <3>1, <3>2
      <3>3. CASE \E r \in ORG_ROLES :
                    /\ role' = [role EXCEPT ![c] = r]
                    /\ IF RoleGates(c, r)
                       THEN stage' = [stage EXCEPT ![c] = "rateLimit"] /\ UNCHANGED answer
                       ELSE Answer(c, "PERMISSION_DENIED")
        <4>1. PICK r \in ORG_ROLES :
                    /\ role' = [role EXCEPT ![c] = r]
                    /\ IF RoleGates(c, r)
                       THEN stage' = [stage EXCEPT ![c] = "rateLimit"] /\ UNCHANGED answer
                       ELSE Answer(c, "PERMISSION_DENIED")
          BY <3>3
        <4>2. CASE RoleGates(c, r)
          <5>1. role'[c] = r
            BY <1>0, <4>1 DEF TypeOK
          <5>2. RoleGates(c, role[c])'
            BY <1>0, <4>2, <5>1 DEF RoleGates, permissionsForRole
          <5> QED
            BY <1>0, <4>1, <4>2, <5>2 DEF TypeOK
        <4>3. CASE ~RoleGates(c, r)
          BY <3>1, <4>1, <4>3
        <4> QED
          BY <4>2, <4>3
      <3> QED
        BY <1>1, <3>2, <3>3 DEF Identify
    <2> QED
      BY <2>3, <2>4, <2>5
  <1>2. CASE RateLimit(c)
    <2>1. /\ stage[c] = "rateLimit" /\ Untouched(c) /\ reply[c] = NoReply /\ answer[c] = NoAnswer
          /\ UNCHANGED <<busVars, envelope, role>>
      BY <1>0, <1>2 DEF RateLimit, CallInv, StageInv
    <2>2. CASE Answer(c, "RATE_LIMITED")
      BY <1>0, <2>1, <2>2, EarlyAnswer DEF Answer, TypeOK
    <2>3. CASE stage' = [stage EXCEPT ![c] = "entitlements"] /\ UNCHANGED answer
      <3>1. stage'[c] = "entitlements" /\ answer'[c] = NoAnswer
        BY <1>0, <2>1, <2>3 DEF TypeOK
      <3>2. Untouched(c)' /\ reply'[c] = NoReply
        BY <1>0, <1>a, <2>1 DEF Untouched
      <3>3. RoleGates(c, role[c])'
        BY <1>0, <2>1 DEF CallInv, GatedInv, RoleGates, permissionsForRole
      <3>4. StageInv(c)' /\ KindInv(c)' /\ GatedInv(c)'
        BY <1>0, <1>a, <2>1, <3>1, <3>2, <3>3 DEF CallInv, StageInv, KindInv, GatedInv, Untouched
      <3>5. RpcInv(c)' /\ ReplyInv(c)' /\ AnswerInv(c)'
        BY <3>1, <3>2 DEF RpcInv, ReplyInv, AnswerInv, Untouched, Unwritten, Working, NoAnswer, CleanRefusals, ERROR_CODES
      <3> QED
        BY <3>4, <3>5 DEF CallInv
    <2> QED
      BY <1>2, <2>2, <2>3 DEF RateLimit
  <1>3. CASE UpgradeRequired(c)
    <2>1. stage[c] = "entitlements" /\ Answer(c, "UPGRADE_REQUIRED") /\ UNCHANGED busVars
      BY <1>3 DEF UpgradeRequired
    <2> QED
      BY <1>0, <2>1, EarlyAnswer DEF Answer, TypeOK
  <1>4. CASE SendRpc(c)
    <2>1. /\ stage[c] = "entitlements" /\ Untouched(c) /\ reply[c] = NoReply /\ IsRpc(c)
          /\ stage'[c] = "waiting" /\ c \in rpc'
          /\ UNCHANGED <<answer, reply, cmd, role>> /\ answer[c] = NoAnswer
      BY <1>0, <1>4 DEF SendRpc, CallInv, StageInv, TypeOK
    <2>2. RoleGates(c, role[c])'
      BY <1>0, <2>1 DEF CallInv, GatedInv, RoleGates, permissionsForRole
    <2>3. StageInv(c)' /\ KindInv(c)' /\ GatedInv(c)'
      BY <1>0, <1>a, <2>1, <2>2 DEF CallInv, StageInv, KindInv, GatedInv
    <2>4. RpcInv(c)' /\ ReplyInv(c)' /\ AnswerInv(c)'
      BY <1>0, <1>a, <2>1 DEF RpcInv, ReplyInv, AnswerInv, Untouched, Unwritten, Working, NoAnswer, CleanRefusals, ERROR_CODES
    <2> QED
      BY <2>3, <2>4 DEF CallInv
  <1>5. CASE SendCommand(c)
    <2>1. /\ stage[c] = "entitlements" /\ Untouched(c) /\ reply[c] = NoReply /\ ~IsRpc(c)
          /\ UNCHANGED <<reply, rpc, role>> /\ answer[c] = NoAnswer
          /\ \/ stage'[c] = "publishing" /\ answer'[c] = NoAnswer /\ cmd'[c].state # "absent"
             \/ stage'[c] = "answered" /\ answer'[c] = "INTERNAL"
      BY <1>0, <1>5 DEF SendCommand, CallInv, StageInv, TypeOK, Answer, IsCommand, IsRpc, Mark
    <2>2. RoleGates(c, role[c])'
      BY <1>0, <2>1 DEF CallInv, GatedInv, RoleGates, permissionsForRole
    <2>3. StageInv(c)' /\ KindInv(c)' /\ GatedInv(c)'
      BY <1>0, <1>a, <2>1, <2>2 DEF StageInv, KindInv, GatedInv, Untouched
    <2>4. RpcInv(c)' /\ ReplyInv(c)' /\ AnswerInv(c)'
      BY <1>a, <2>1 DEF RpcInv, ReplyInv, AnswerInv, NoAnswer, CleanRefusals, ERROR_CODES
    <2> QED
      BY <2>3, <2>4 DEF CallInv
  <1>6. ASSUME stage[c] \in {"waiting", "publishing"}, stage'[c] = "answered",
               answer'[c] \in {"ACCEPTED", "INTERNAL", "SERVICE_UNAVAILABLE"},
               UNCHANGED <<request, role, envelope, reply, cmd, evt, serviceVars>>,
               rpc' \in {rpc, rpc \ {c}}
        PROVE  CallInv(c)'
    <2>1. Untouched(c) => Untouched(c)'
      BY <1>6, <1>a DEF Untouched
    <2>2. RoleGates(c, role[c]) => RoleGates(c, role[c])'
      BY <1>6 DEF RoleGates, permissionsForRole
    <2>3. StageInv(c)' /\ KindInv(c)' /\ GatedInv(c)'
      BY <1>0, <1>6, <1>a, <2>1, <2>2 DEF CallInv, StageInv, KindInv, GatedInv
    <2>4. RpcInv(c)' /\ ReplyInv(c)' /\ AnswerInv(c)'
      BY <1>0, <1>6, <1>a DEF CallInv, RpcInv, ReplyInv, AnswerInv, Unwritten, CleanRefusals, ERROR_CODES
    <2> QED
      BY <2>3, <2>4 DEF CallInv
  <1>7. CASE PublishAck(c)
    BY <1>0, <1>6, <1>7 DEF PublishAck, Answer, TypeOK
  <1>8. CASE TimeOut(c)
    BY <1>0, <1>6, <1>8 DEF TimeOut, Answer, TypeOK
  <1>9. CASE NoResponders(c)
    BY <1>0, <1>6, <1>9 DEF NoResponders, Answer, TypeOK
  <1>10. CASE ReceiveReply(c)
    <2> DEFINE r == reply[c]
    <2>1. /\ stage[c] = "waiting" /\ r \in Replies /\ r # NoReply
          /\ stage'[c] = "answered" /\ answer'[c] = ReplyVerdict(c, r) /\ reply'[c] = NoReply
          /\ UNCHANGED <<role, envelope, rpc, cmd>>
      BY <1>0, <1>10 DEF ReceiveReply, Answer, TypeOK
    <2>2. IsRpc(c) /\ cmd[c].state = "absent" /\ c \notin rpc /\ ~Working(c)
      BY <1>0, <2>1 DEF CallInv, KindInv, RpcInv, Working
    <2>3. RoleGates(c, role[c]) => RoleGates(c, role[c])'
      BY <1>0, <2>1 DEF RoleGates, permissionsForRole
    <2>4. answer'[c] = "OK" => committed[c] = 1 /\ Emitted(c)
      BY <1>0, <2>1, VerdictSound DEF CallInv, ReplyInv
    <2>5. answer'[c] \in CleanRefusals => Unwritten(c)'
      BY <1>0, <2>1, VerdictSound DEF CallInv, ReplyInv, Unwritten
    <2>6. StageInv(c)' /\ KindInv(c)'
      BY <1>a, <2>1, <2>2 DEF StageInv, KindInv
    <2>7. GatedInv(c)'
      BY <1>0, <1>a, <2>1, <2>3 DEF CallInv, GatedInv, Untouched
    <2>8. RpcInv(c)' /\ ReplyInv(c)'
      BY <1>0, <1>a, <2>1, <2>2 DEF CallInv, RpcInv, ReplyInv, Working
    <2>9. AnswerInv(c)'
      BY <1>0, <1>a, <2>1, <2>2, <2>4, <2>5 DEF AnswerInv, Working
    <2> QED
      BY <2>6, <2>7, <2>8, <2>9 DEF CallInv
  <1> QED
    BY <1>1, <1>2, <1>3, <1>4, <1>5, <1>7, <1>8, <1>9, <1>10 DEF Gateway

LEMMA GatewayInv == ASSUME Inv, NEW c \in Calls, Gateway(c) PROVE Inv'
  <1>1. TypeInv /\ TypeInv'
    BY GatewayType DEF Inv
  <1>2. \A d \in Calls : CallInv(d)'
    BY <1>1, GatewayCall, GatewayOthers, SameCall DEF Inv
  <1>3. FactInv'
    BY <1>1, GatewayOthers DEF Inv, FactInv
  <1>4. ASSUME NEW j \in jobs PROVE envelope'[j.call] = envelope[j.call]
    <2>1. CASE j.call = c
      <3>1. stage[c] # "entitlements"
        BY <1>1, <2>1 DEF Inv, CallInv, StageInv, Untouched, Working
      <3> QED
        BY <3>1, <2>1 DEF Gateway, Identify, RateLimit, UpgradeRequired, SendRpc, SendCommand,
                          PublishAck, ReceiveReply, TimeOut, NoResponders
    <2>2. CASE j.call # c
      BY <1>1, <2>2, GatewayOthers DEF Same, TypeInv, TypeOK, Jobs
    <2> QED
      BY <2>1, <2>2
  <1>5. SignedInv'
    BY <1>1, <1>4, GatewayOthers DEF Inv, SignedInv
  <1> QED
    BY <1>1, <1>2, <1>3, <1>5 DEF Inv

-----------------------------------------------------------------------------
(* The bus and the service preserve the invariant *)

\* A command that is under way has no reply to give and no refusal to keep.
LEMMA CommandStep ==
    ASSUME NEW c \in Calls, CallInv(c), ~Untouched(c), ~IsRpc(c),
           UNCHANGED <<request, stage, role, envelope, answer, reply, rpc>>,
           cmd[c].state # "absent" => cmd'[c].state # "absent"
    PROVE  CallInv(c)'
  <1>1. IsRpc(c)' <=> IsRpc(c)
    BY DEF IsRpc
  <1>2. RoleGates(c, role[c])'
    BY DEF CallInv, GatedInv, RoleGates, permissionsForRole
  <1>3. StageInv(c)' /\ KindInv(c)' /\ GatedInv(c)'
    BY <1>1, <1>2 DEF CallInv, StageInv, KindInv, GatedInv
  <1>4. RpcInv(c)' /\ ReplyInv(c)' /\ AnswerInv(c)'
    BY <1>1, ReadAssumption DEF CallInv, KindInv, RpcInv, ReplyInv, AnswerInv, Unwritten, Untouched, IsRpc
  <1> QED
    BY <1>3, <1>4 DEF CallInv

\* The handler is asked only if the signature verified.
LEMMA PassIsSigned ==
    ASSUME NEW e, HandleGates(e) = "pass" PROVE e.signedWith = secret.service
  BY DEF HandleGates, verify, checkFreshness, Fresh

LEMMA DeliverCall ==
    ASSUME Inv, NEW c \in Calls, Deliver(c) PROVE CallInv(c)' /\ SignedInv'
  <1> USE DEF clockVars, gatewayVars, busVars, serviceVars
  <1>0. /\ TypeInv /\ TypeOK /\ CallInv(c) /\ SignedInv
        /\ UNCHANGED <<request, stage, role, envelope, answer, secret, committed, evt>>
    BY DeliverOthers DEF Inv, TypeInv
  <1>a. IsRpc(c)' <=> IsRpc(c)
    BY <1>0 DEF IsRpc
  <1>1. ASSUME c \in rpc, rpc' = rpc \ {c}, UNCHANGED cmd,
               \/ /\ reply' = reply
                  /\ jobs' = jobs \cup {[call |-> c, attempt |-> 1, at |-> "running"]}
               \/ /\ reply'[c] # NoReply /\ reply'[c].code # "OK"
                  /\ jobs' = jobs
        PROVE  CallInv(c)'
    <2>1. /\ IsRpc(c) /\ committed[c] = 0 /\ ~Working(c) /\ reply[c] = NoReply
          /\ ~Untouched(c) /\ cmd[c].state = "absent"
      BY <1>0, <1>1 DEF CallInv, KindInv, RpcInv, Untouched
    <2>2. RoleGates(c, role[c])'
      BY <1>0, <2>1 DEF CallInv, GatedInv, RoleGates, permissionsForRole
    <2>3. StageInv(c)' /\ KindInv(c)' /\ GatedInv(c)'
      BY <1>0, <1>1, <1>a, <2>1, <2>2 DEF CallInv, StageInv, KindInv, GatedInv
    <2>4. RpcInv(c)'
      BY <1>0, <1>1, <1>a, <2>1 DEF RpcInv, Working
    <2>5. ReplyInv(c)'
      BY <1>0, <1>1, <2>1 DEF ReplyInv, Unwritten
    <2>6. AnswerInv(c)'
      BY <1>0, <1>1, <2>1 DEF CallInv, AnswerInv
    <2> QED
      BY <2>3, <2>4, <2>5, <2>6 DEF CallInv
  <1>2. CASE DeliverRpc(c)
    <2> DEFINE verdict == HandleGates(envelope[c])
    <2>1. CASE verdict = "pass"
      <3>1. /\ c \in rpc /\ rpc' = rpc \ {c} /\ UNCHANGED <<cmd, reply>>
            /\ jobs' = jobs \cup {[call |-> c, attempt |-> 1, at |-> "running"]}
        BY <1>2, <2>1 DEF DeliverRpc
      <3>2. envelope[c].signedWith = secret.service
        BY <2>1, PassIsSigned
      <3> QED
        BY <1>0, <1>1, <3>1, <3>2 DEF SignedInv
    <2>2. CASE verdict # "pass"
      <3>1. c \in rpc /\ rpc' = rpc \ {c} /\ UNCHANGED <<cmd, jobs>> /\ Respond(c, verdict)
        BY <1>2, <2>2 DEF DeliverRpc
      <3>2. verdict # "OK"
        BY GateCodes DEF ERROR_CODES
      <3>3. reply'[c] # NoReply /\ reply'[c].code # "OK"
        BY <1>0, <3>1, <3>2 DEF Respond, TypeOK, NoReply
      <3> QED
        BY <1>0, <1>1, <3>1, <3>3 DEF SignedInv
    <2> QED
      BY <2>1, <2>2
  <1>3. CASE DeliverUnreadable(c)
    <2>1. c \in rpc /\ rpc' = rpc \ {c} /\ UNCHANGED <<cmd, jobs>>
      BY <1>3 DEF DeliverUnreadable
    <2>2. reply'[c] # NoReply /\ reply'[c].code # "OK"
      BY <1>0, <1>3 DEF DeliverUnreadable, RefuseUnbound, TypeOK, NoReply
    <2> QED
      BY <1>0, <1>1, <2>1, <2>2 DEF SignedInv
  <1>4. ASSUME cmd[c].state # "absent", UNCHANGED <<rpc, reply>>,
               \E n : Nak(c, n) \/ Mark(c, "inflight", n) \/ Mark(c, "expired", n)
        PROVE  CallInv(c)'
    <2>1. ~IsRpc(c) /\ ~Untouched(c)
      BY <1>0, <1>4 DEF CallInv, KindInv, Untouched
    <2>2. cmd'[c].state # "absent"
      BY <1>0, <1>4 DEF Nak, Mark, TypeOK
    <2> QED
      BY <1>0, <1>4, <2>1, <2>2, CommandStep
  <1>5. CASE DeliverCommand(c)
    <2>1. CallInv(c)'
      BY <1>4, <1>5 DEF DeliverCommand
    <2>2. CASE HandleGates(envelope[c]) = "pass"
      <3>1. \A j \in jobs' \ jobs : j.call = c
        BY <1>5, <2>2 DEF DeliverCommand
      <3>2. envelope[c].signedWith = secret.service
        BY <2>2, PassIsSigned
      <3> QED
        BY <1>0, <2>1, <3>1, <3>2 DEF SignedInv
    <2>3. CASE HandleGates(envelope[c]) # "pass"
      BY <1>0, <1>5, <2>1, <2>3 DEF DeliverCommand, SignedInv
    <2> QED
      BY <2>2, <2>3
  <1>6. CASE AckWait(c)
    BY <1>0, <1>4, <1>6 DEF AckWait, SignedInv
  <1>7. CASE Expire(c)
    BY <1>0, <1>4, <1>7 DEF Expire, SignedInv
  <1> QED
    BY <1>2, <1>3, <1>5, <1>6, <1>7 DEF Deliver

LEMMA DeliverInv == ASSUME Inv, NEW c \in Calls, Deliver(c) PROVE Inv'
  <1>1. TypeInv /\ TypeInv'
    BY DeliverType DEF Inv
  <1>2. \A d \in Calls : CallInv(d)'
    BY <1>1, DeliverCall, DeliverOthers, SameCall DEF Inv
  <1>3. \A j \in jobs' : j.at = "emitting" => j \in jobs
    BY DEF Deliver, DeliverRpc, DeliverUnreadable, DeliverCommand, AckWait, Expire, serviceVars
  <1>4. FactInv'
    BY <1>1, <1>3, DeliverOthers DEF Inv, FactInv
  <1> QED
    BY <1>1, <1>2, <1>4, DeliverCall DEF Inv

\* A handle invocation of an rpc ends with a reply that is so.
LEMMA RpcEnds ==
    ASSUME Inv, NEW j \in jobs, IsRpc(j.call), NEW r,
           reply' = [reply EXCEPT ![j.call] = r], r.signedWith = secret.service,
           jobs' = jobs \ {j}, evt \subseteq evt', committed'[j.call] \in {0, 1},
           UNCHANGED <<request, stage, role, envelope, answer, rpc, cmd>>,
           r.code = "OK" => committed'[j.call] = 1 /\ Emitted(j.call)',
           r.code \in CleanRefusals \/ ~r.bound => Unwritten(j.call)'
    PROVE  CallInv(j.call)'
  <1> DEFINE c == j.call
  <1>0. TypeOK /\ c \in Calls /\ CallInv(c) /\ envelope[c].signedWith = secret.service
    BY DEF Inv, TypeInv, TypeOK, Jobs, SignedInv
  <1>1. Working(c) /\ ~Untouched(c) /\ c \notin rpc /\ cmd[c].state = "absent"
    BY <1>0 DEF CallInv, KindInv, RpcInv, Working, Untouched
  <1>2. ~Working(c)'
    BY <1>0 DEF CallInv, RpcInv, Working
  <1>3. IsRpc(c)' /\ RoleGates(c, role[c])'
    BY <1>0, <1>1 DEF CallInv, GatedInv, RoleGates, permissionsForRole, IsRpc
  <1>4. reply'[c] = r
    BY <1>0 DEF TypeOK
  <1>5. StageInv(c)' /\ KindInv(c)' /\ GatedInv(c)'
    BY <1>0, <1>1, <1>3 DEF CallInv, StageInv, KindInv, GatedInv
  <1>6. RpcInv(c)'
    BY <1>1, <1>2 DEF RpcInv, Working
  <1>7. ReplyInv(c)'
    BY <1>0, <1>4 DEF ReplyInv
  <1>8. AnswerInv(c)'
    BY <1>0, <1>1 DEF CallInv, AnswerInv
  <1> QED
    BY <1>5, <1>6, <1>7, <1>8 DEF CallInv

LEMMA RpcResponds ==
    ASSUME Inv, NEW j \in jobs, IsRpc(j.call), NEW code, Respond(j.call, code),
           jobs' = jobs \ {j}, evt \subseteq evt', committed'[j.call] \in {0, 1},
           UNCHANGED <<request, stage, role, envelope, answer, rpc, cmd>>,
           code = "OK" => committed'[j.call] = 1 /\ Emitted(j.call)',
           code \in CleanRefusals => committed'[j.call] = 0
    PROVE  CallInv(j.call)'
  <1> DEFINE r == [code |-> code, bound |-> TRUE, signedWith |-> secret.service]
  <1>1. /\ reply' = [reply EXCEPT ![j.call] = r] /\ r.signedWith = secret.service
        /\ r.code = "OK" => committed'[j.call] = 1 /\ Emitted(j.call)'
        /\ r.code \in CleanRefusals \/ ~r.bound => Unwritten(j.call)'
    BY DEF Respond, Unwritten
  <1> HIDE DEF r
  <1> QED
    BY <1>1, RpcEnds

LEMMA HandleCall == ASSUME Inv, NEW j \in jobs, Handle(j) PROVE CallInv(j.call)'
  <1> DEFINE c == j.call
  <1> USE DEF clockVars, gatewayVars, busVars
  <1>0. /\ TypeInv /\ TypeOK /\ j \in Jobs /\ c \in Calls /\ CallInv(c)
        /\ UNCHANGED <<request, stage, role, envelope, answer, secret, rpc>>
    BY HandleOthers DEF Inv, TypeInv, TypeOK, Jobs
  <1>1. Working(c) /\ ~Untouched(c)
    BY DEF Working, Untouched
  <1>2. CASE ~IsRpc(c)
    <2>1. ASSUME NEW code, Finish(j, code) PROVE UNCHANGED reply
      BY <1>2, <2>1 DEF Finish
    <2>2. UNCHANGED reply
      BY <1>0, <1>2, <2>1, ReadAssumption DEF IsRpc, Handle, HandlerRefuses, HandlerCommits, HandlerCommitsThenFails, ReplyTooLarge, EmitEvent, EmitFails, Crash
    <2>3. ASSUME NEW code, Finish(j, code) PROVE cmd[c].state # "absent" => cmd'[c].state # "absent"
      BY <1>0, <1>2, <2>3 DEF Finish, Mark, Nak, TypeOK
    <2>4. cmd[c].state # "absent" => cmd'[c].state # "absent"
      BY <2>3 DEF Handle, HandlerRefuses, HandlerCommits, HandlerCommitsThenFails, ReplyTooLarge, EmitEvent, EmitFails, Crash
    <2> QED
      BY <1>0, <1>1, <1>2, <2>2, <2>4, CommandStep
  <1>3. CASE IsRpc(c)
    <2>1. ASSUME NEW code, Finish(j, code) PROVE Respond(c, code) /\ UNCHANGED cmd
      BY <1>3, <2>1 DEF Finish
    <2>2. committed[c] = IF j.at = "running" THEN 0 ELSE 1
      BY <1>0, <1>3 DEF CallInv, RpcInv
    <2>3. "OK" \notin CleanRefusals /\ "INTERNAL" \notin CleanRefusals
      BY DEF CleanRefusals, ERROR_CODES
    <2>4. CASE HandlerRefuses(j)
      <3>1. PICK code \in HandlerRefusals \cup {"INTERNAL"} : Finish(j, code)
        BY <2>4 DEF HandlerRefuses
      <3>2. code # "OK"
        BY InputAssumption
      <3> QED
        BY <1>0, <1>3, <2>1, <2>2, <2>4, <3>1, <3>2, RpcResponds DEF HandlerRefuses
    <2>5. CASE HandlerCommits(j)
      <3>1. j.at = "running" /\ committed'[c] = 1 /\ UNCHANGED evt
        BY <1>0, <2>2, <2>5 DEF HandlerCommits, TypeOK
      <3>2. CASE ~Rule[request[c].op].audit
        <4>1. jobs' = jobs \ {j} /\ Finish(j, "OK")
          BY <2>5, <3>2 DEF HandlerCommits
        <4>2. Emitted(c)'
          BY <1>0, <3>2 DEF Emitted
        <4> QED
          BY <1>0, <1>3, <2>1, <2>3, <3>1, <4>1, <4>2, RpcResponds
      <3>3. CASE Rule[request[c].op].audit
        <4>1. /\ jobs' = (jobs \ {j}) \cup {[j EXCEPT !.at = "emitting"]}
              /\ UNCHANGED <<reply, cmd>>
          BY <2>5, <3>3 DEF HandlerCommits
        <4>2. [j EXCEPT !.at = "emitting"].call = c /\ [j EXCEPT !.at = "emitting"].at = "emitting"
          BY <1>0 DEF Jobs
        <4>3. IsRpc(c)' /\ RoleGates(c, role[c])' /\ Working(c)'
          BY <1>0, <1>1, <1>3, <4>1, <4>2 DEF CallInv, GatedInv, RoleGates, permissionsForRole, IsRpc, Working
        <4>4. StageInv(c)' /\ KindInv(c)' /\ GatedInv(c)'
          BY <1>0, <1>1, <1>3, <4>1, <4>3 DEF CallInv, StageInv, KindInv, GatedInv
        <4>5. c \notin rpc /\ reply[c] = NoReply
          BY <1>0, <1>1, <1>3 DEF CallInv, RpcInv
        <4>6. \A k \in jobs' : k.call = c => k = [j EXCEPT !.at = "emitting"]
          BY <1>0, <1>3, <4>1 DEF CallInv, RpcInv
        <4>7. RpcInv(c)' /\ ReplyInv(c)'
          BY <1>0, <3>1, <4>1, <4>2, <4>5, <4>6 DEF RpcInv, ReplyInv
        <4>8. AnswerInv(c)'
          BY <1>0, <1>1 DEF CallInv, AnswerInv
        <4> QED
          BY <4>4, <4>7, <4>8 DEF CallInv
      <3> QED
        BY <3>2, <3>3
    <2>6. CASE HandlerCommitsThenFails(j)
      <3>1. committed'[c] = 1
        BY <1>0, <2>2, <2>6 DEF HandlerCommitsThenFails, TypeOK
      <3> QED
        BY <1>0, <1>3, <2>1, <2>3, <2>6, <3>1, RpcResponds DEF HandlerCommitsThenFails
    <2>7. ASSUME StoreEvent(c) PROVE Emitted(c)' /\ evt \subseteq evt'
      BY <1>0, <2>7 DEF StoreEvent, Emitted
    <2>8. CASE EmitEvent(j)
      BY <1>0, <1>3, <2>1, <2>2, <2>3, <2>7, <2>8, RpcResponds DEF EmitEvent
    <2>9. CASE EmitFails(j)
      BY <1>0, <1>3, <2>1, <2>2, <2>3, <2>7, <2>9, RpcResponds DEF EmitFails
    <2>10. CASE Crash(j)
      <3>1. jobs' = jobs \ {j} /\ UNCHANGED <<reply, cmd, evt, committed>>
        BY <2>10 DEF Crash
      <3>2. IsRpc(c)' /\ RoleGates(c, role[c])' /\ ~Working(c)'
        BY <1>0, <1>1, <1>3, <3>1 DEF CallInv, GatedInv, RpcInv, RoleGates, permissionsForRole, IsRpc, Working
      <3>3. StageInv(c)' /\ KindInv(c)' /\ GatedInv(c)'
        BY <1>0, <1>1, <1>3, <3>1, <3>2 DEF CallInv, StageInv, KindInv, GatedInv
      <3>4. RpcInv(c)' /\ ReplyInv(c)'
        BY <1>0, <1>1, <1>3, <3>1, <3>2 DEF CallInv, RpcInv, ReplyInv, Working
      <3>5. AnswerInv(c)'
        BY <1>0, <1>1 DEF CallInv, AnswerInv
      <3> QED
        BY <3>3, <3>4, <3>5 DEF CallInv
    <2>11. CASE ReplyTooLarge(j)
      <3>1. j.at = "running" /\ committed'[c] = 1 /\ request[c].op \in Reads
        BY <1>0, <2>2, <2>11 DEF ReplyTooLarge, TypeOK
      <3>2. Unwritten(j.call)' /\ IsRpc(j.call) /\ committed'[j.call] \in {0, 1}
        BY <1>0, <1>3, <3>1 DEF Unwritten
      <3> DEFINE r == [code |-> "UNTRUSTED_ENVELOPE", bound |-> FALSE, signedWith |-> secret.service]
      <3>3. /\ jobs' = jobs \ {j} /\ evt' = evt /\ cmd' = cmd
            /\ reply' = [reply EXCEPT ![j.call] = r]
        BY <2>11 DEF ReplyTooLarge, RefuseUnbound
      <3>4. r.signedWith = secret.service /\ r.code # "OK" /\ evt \subseteq evt'
        BY <3>3
      <3> HIDE DEF r
      <3>5. UNCHANGED <<request, stage, role, envelope, answer, rpc, cmd>>
        BY <1>0, <3>3
      <3> QED
        BY <3>2, <3>3, <3>4, <3>5, RpcEnds
    <2> QED
      BY <2>4, <2>5, <2>6, <2>8, <2>9, <2>10, <2>11 DEF Handle
  <1> QED
    BY <1>2, <1>3

LEMMA HandleInv == ASSUME Inv, NEW j \in jobs, Handle(j) PROVE Inv'
  <1> USE DEF clockVars, gatewayVars, busVars
  <1>1. TypeInv /\ TypeInv' /\ j \in Jobs /\ UNCHANGED <<envelope, secret>>
    BY HandleType, HandleOthers DEF Inv, TypeInv, TypeOK
  <1>2. \A d \in Calls : CallInv(d)'
    BY <1>1, HandleCall, HandleOthers, SameCall DEF Inv
  <1>3. \A k \in jobs' : \E i \in jobs : i.call = k.call
    <2>1. [j EXCEPT !.at = "emitting"].call = j.call
      BY <1>1 DEF Jobs
    <2> QED
      BY <2>1 DEF Handle, HandlerRefuses, HandlerCommits, HandlerCommitsThenFails, ReplyTooLarge, EmitEvent, EmitFails, Crash
  <1>4. SignedInv'
    BY <1>1, <1>3 DEF Inv, SignedInv
  <1>5. \A c \in Calls : committed'[c] >= committed[c]
    BY <1>1 DEF TypeInv, TypeOK, Handle, HandlerRefuses, HandlerCommits, HandlerCommitsThenFails,
                ReplyTooLarge, EmitEvent, EmitFails, Crash
  <1>6. \A k \in jobs' : k.at = "emitting" => committed'[k.call] > 0
    <2>1. CASE HandlerCommits(j)
      <3>1. committed'[j.call] > 0
        BY <1>1, <2>1 DEF HandlerCommits, TypeInv, TypeOK, Jobs
      <3>2. \A k \in jobs' : k \in jobs \/ k.call = j.call
        BY <1>1, <2>1 DEF HandlerCommits, Jobs
      <3> QED
        BY <1>1, <1>5, <3>1, <3>2 DEF Inv, FactInv, TypeInv, TypeOK, Jobs
    <2>2. CASE ~HandlerCommits(j)
      <3>1. jobs' \subseteq jobs
        BY <2>2 DEF Handle, HandlerRefuses, HandlerCommitsThenFails, ReplyTooLarge, EmitEvent, EmitFails, Crash
      <3> QED
        BY <1>1, <1>5, <3>1 DEF Inv, FactInv, TypeInv, TypeOK, Jobs
    <2> QED
      BY <2>1, <2>2
  <1>7. \A c \in evt' : committed'[c] > 0
    <2>1. CASE j.at = "emitting"
      <3>1. evt' \subseteq evt \cup {j.call}
        BY DEF Handle, HandlerRefuses, HandlerCommits, HandlerCommitsThenFails, ReplyTooLarge, EmitEvent, EmitFails,
               Crash, StoreEvent
      <3> QED
        BY <1>1, <1>5, <2>1, <3>1 DEF Inv, FactInv, TypeInv, TypeOK, Jobs
    <2>2. CASE j.at # "emitting"
      <3>1. evt' = evt
        BY <2>2 DEF Handle, HandlerRefuses, HandlerCommits, HandlerCommitsThenFails, ReplyTooLarge, EmitEvent, EmitFails, Crash
      <3> QED
        BY <1>1, <1>5, <3>1 DEF Inv, FactInv, TypeInv, TypeOK
    <2> QED
      BY <2>1, <2>2
  <1> QED
    BY <1>1, <1>2, <1>4, <1>6, <1>7 DEF Inv, FactInv

-----------------------------------------------------------------------------
(* The invariant and what follows from it *)

LEMMA InitInv == Init => Inv
  <1> SUFFICES ASSUME Init PROVE Inv
    OBVIOUS
  <1>1. TypeInv
    BY InitTypeInv
  <1>2. ASSUME NEW c \in Calls PROVE CallInv(c)
    <2>1. /\ stage[c] = "idle" /\ answer[c] = NoAnswer /\ reply[c] = NoReply
          /\ cmd[c].state = "absent" /\ committed[c] = 0 /\ jobs = {} /\ rpc = {}
      BY DEF Init
    <2>2. Untouched(c)
      BY <2>1 DEF Untouched, Working
    <2> QED
      BY <2>1, <2>2 DEF CallInv, StageInv, KindInv, GatedInv, RpcInv, ReplyInv, AnswerInv,
                        NoAnswer, CleanRefusals, ERROR_CODES
  <1>3. SignedInv /\ FactInv
    BY DEF Init, SignedInv, FactInv
  <1> QED
    BY <1>1, <1>2, <1>3 DEF Inv

LEMMA NextInv == Inv /\ [Next]_vars => Inv'
  <1> SUFFICES ASSUME Inv, [Next]_vars PROVE Inv'
    OBVIOUS
  <1> USE DEF clockVars, gatewayVars, busVars, serviceVars
  <1>0. TypeInv' /\ \A c \in Calls : CallInv(c)
    BY NextTypeInv DEF Inv
  <1>1. CASE \E c \in Calls : Gateway(c)
    BY <1>1, GatewayInv
  <1>2. CASE \E c \in Calls : Deliver(c)
    BY <1>2, DeliverInv
  <1>3. CASE \E j \in jobs : Handle(j)
    BY <1>3, HandleInv
  <1>4. ASSUME UNCHANGED <<gatewayVars, busVars, serviceVars, secret>> PROVE Inv'
    <2>1. \A c \in Calls : Same(c)
      BY <1>4 DEF Same
    <2> QED
      BY <1>0, <1>4, <2>1, SameCall DEF Inv, SignedInv, FactInv
  <1>5. CASE Tick
    BY <1>4, <1>5 DEF Tick
  <1>6. CASE Settled \/ UNCHANGED vars
    BY <1>4, <1>6 DEF Settled, vars
  <1>7. CASE RotateGateway
    <2>1. \A c \in Calls : Same(c)
      BY <1>7 DEF RotateGateway, Same
    <2>2. secret'.service = secret.service
      BY <1>7 DEF RotateGateway, Inv, TypeInv, TypeOK
    <2>3. SignedInv' /\ FactInv'
      BY <1>7, <2>2 DEF RotateGateway, Inv, SignedInv, FactInv
    <2> QED
      BY <1>0, <2>1, <2>3, SameCall DEF Inv
  <1>8. CASE RotateService
    <2>1. jobs' = {} /\ UNCHANGED <<gatewayVars, busVars, committed>>
      BY <1>8 DEF RotateService
    <2>2. SignedInv' /\ FactInv'
      BY <2>1 DEF Inv, SignedInv, FactInv
    <2>3. ASSUME NEW c \in Calls PROVE CallInv(c)'
      <3>1. Untouched(c) => Untouched(c)'
        BY <2>1 DEF Untouched, Working
      <3>2. RoleGates(c, role[c])' <=> RoleGates(c, role[c])
        BY <2>1 DEF RoleGates, permissionsForRole
      <3>3. ~Untouched(c)' => ~Untouched(c)
        BY <3>1
      <3>4. StageInv(c)' /\ KindInv(c)' /\ GatedInv(c)'
        BY <1>0, <2>1, <3>1, <3>2, <3>3 DEF CallInv, StageInv, KindInv, GatedInv, IsRpc
      <3>5. ~Working(c)'
        BY <2>1 DEF Working
      <3>6. RpcInv(c)' /\ ReplyInv(c)' /\ AnswerInv(c)'
        BY <1>0, <2>1, <3>1, <3>5 DEF CallInv, RpcInv, ReplyInv, AnswerInv, Unwritten, IsRpc, Emitted
      <3> QED
        BY <3>4, <3>6 DEF CallInv
    <2> QED
      BY <1>0, <2>2, <2>3 DEF Inv
  <1> QED
    BY <1>1, <1>2, <1>3, <1>5, <1>6, <1>7, <1>8 DEF Next

\* The invariant of the block.
THEOREM Invariance == Spec => []Inv
  BY InitInv, NextInv, PTL DEF Spec

\* Whatever is lost, late, retried or restarted, nothing is written, and no
\* handler runs, for a caller whose role the registry does not let through
\* (gateway.ts gates 3 to 4b).
THEOREM OnlyAuthorisedWork == Spec => []NoUnauthorisedWork
  <1>1. Inv => NoUnauthorisedWork
    <2> SUFFICES ASSUME Inv, NEW c \in Calls, committed[c] > 0 \/ Working(c)
                 PROVE  /\ ROLE_RANK[role[c]] >= ROLE_RANK[Rule[request[c].op].minRole]
                        /\ request[c].named # NoRole =>
                              /\ request[c].named \in ORG_ROLES
                              /\ ROLE_RANK[request[c].named] <= ROLE_RANK[role[c]]
      BY DEF NoUnauthorisedWork
    <2>1. RoleGates(c, role[c])
      BY DEF Inv, CallInv, GatedInv, Untouched
    <2>2. roleAtLeast(role[c], Rule[request[c].op].minRole)
      BY <2>1 DEF RoleGates
    <2>3. request[c].named # NoRole => request[c].named \in assignableRoles(role[c])
      BY <2>1 DEF RoleGates, refusedRole
    <2> QED
      BY <2>2, <2>3 DEF roleAtLeast, assignableRoles, ROLE_RANK, ORG_ROLES
  <1> QED
    BY <1>1, Invariance, PTL

\* An answer of "done" is true: the writes are in, once, and the event stream
\* holds an event under the call's request id.
THEOREM DoneIsDone == Spec => []OkMeansDone
  <1>1. Inv => OkMeansDone
    BY DEF Inv, CallInv, AnswerInv, Emitted, OkMeansDone
  <1> QED
    BY <1>1, Invariance, PTL

\* While no two calls share a request id, every "done" has an event of its own:
\* the batches that share one are the only cause of a missing record (the msgID
\* of service.ts's emit).
THEOREM RecordedUnlessBatched ==
    ASSUME \A c, d \in Calls : RequestId[c] = RequestId[d] => c = d
    PROVE  Spec => []OkMeansRecorded
  <1>1. Inv => OkMeansRecorded
    <2> SUFFICES ASSUME Inv, NEW c \in Calls, answer[c] = "OK", Rule[request[c].op].audit
                 PROVE  c \in evt
      BY DEF OkMeansRecorded
    <2>1. PICK d \in evt : RequestId[d] = RequestId[c]
      BY DEF Inv, CallInv, AnswerInv, Emitted
    <2>2. d \in Calls
      BY DEF Inv, TypeInv, TypeOK
    <2> QED
      BY <2>1, <2>2
  <1> QED
    BY <1>1, Invariance, PTL

\* A coded refusal is final: nothing was written and nothing still under way
\* can write.
THEOREM RefusalIsFinal == Spec => []RefusalMeansNotDone
  <1>1. Inv => RefusalMeansNotDone
    BY DEF Inv, CallInv, AnswerInv, Unwritten, RefusalMeansNotDone
  <1> QED
    BY <1>1, Invariance, PTL

\* The event stream never holds an event whose write did not happen.
THEOREM EventsHappened == Spec => []EventsAreFacts
  <1>1. Inv => EventsAreFacts
    BY DEF Inv, FactInv, EventsAreFacts
  <1> QED
    BY <1>1, Invariance, PTL

\* An rpc's handler runs at most once, counting the run under way.
THEOREM AtMostOneRun == Spec => []RpcAtMostOnce
  <1>1. Inv => RpcAtMostOnce
    <2> SUFFICES ASSUME Inv, NEW c \in Calls, IsRpc(c)
                 PROVE  committed[c] + Cardinality({j \in jobs : j.call = c /\ j.at = "running"}) <= 1
      BY DEF RpcAtMostOnce
    <2> DEFINE running == {j \in jobs : j.call = c /\ j.at = "running"}
    <2>1. RpcInv(c) /\ committed[c] \in {0, 1}
      BY DEF Inv, CallInv, RpcInv
    <2>2. CASE running = {}
      BY <2>1, <2>2, FS_EmptySet
    <2>3. CASE running # {}
      <3>1. PICK j \in running : TRUE
        BY <2>3
      <3>2. running = {j} /\ committed[c] = 0
        BY <2>1, <3>1 DEF RpcInv
      <3> QED
        BY <3>2, FS_Singleton
    <2> QED
      BY <2>2, <2>3
  <1> QED
    BY <1>1, Invariance, PTL

-----------------------------------------------------------------------------
(* How often a command is performed *)

Running(c) == {j \in jobs : j.call = c /\ j.at = "running"}

\* Every run of a command's handler, over or under way, is one delivery.
RunsAreDeliveries(c) ==
    ~IsRpc(c) => committed[c] + Cardinality(Running(c)) <= cmd[c].deliveries

DeliveryInv == IsFiniteSet(jobs) /\ \A c \in Calls : RunsAreDeliveries(c)

LEMMA RunsAreFinite ==
    ASSUME IsFiniteSet(jobs), NEW c
    PROVE  IsFiniteSet(Running(c)) /\ Cardinality(Running(c)) \in Nat
  BY FS_Subset, FS_CardinalityType DEF Running

LEMMA NoMoreRuns ==
    ASSUME Inv, TypeInv', DeliveryInv, NEW c \in Calls, (Running(c))' \subseteq Running(c),
           request' = request, committed'[c] = committed[c],
           cmd'[c].deliveries >= cmd[c].deliveries
    PROVE  RunsAreDeliveries(c)'
  <1>1. Cardinality((Running(c))') <= Cardinality(Running(c)) /\ Cardinality((Running(c))') \in Nat
    BY RunsAreFinite, FS_Subset, FS_CardinalityType DEF DeliveryInv
  <1>2. /\ committed[c] \in Nat /\ cmd[c].deliveries \in Nat /\ cmd'[c].deliveries \in Nat
        /\ Cardinality(Running(c)) \in Nat
    BY RunsAreFinite, BoundAssumption DEF DeliveryInv, Inv, TypeInv, TypeOK
  <1> SUFFICES ASSUME ~IsRpc(c)'
               PROVE  committed'[c] + Cardinality((Running(c))') <= cmd'[c].deliveries
    BY DEF RunsAreDeliveries
  <1>3. committed[c] + Cardinality(Running(c)) <= cmd[c].deliveries
    BY DEF DeliveryInv, RunsAreDeliveries, IsRpc
  <1> QED
    BY <1>1, <1>2, <1>3

LEMMA OthersRuns ==
    ASSUME Inv, TypeInv', DeliveryInv, NEW d \in Calls, Same(d)
    PROVE  RunsAreDeliveries(d)'
  <1>1. (Running(d))' \subseteq Running(d)
    BY DEF Running, Same
  <1>2. cmd'[d].deliveries >= cmd[d].deliveries
    BY BoundAssumption DEF Same, Inv, TypeInv, TypeOK
  <1> QED
    BY <1>1, <1>2, NoMoreRuns DEF Same

LEMMA GatewayRuns ==
    ASSUME Inv, TypeInv', DeliveryInv, NEW c \in Calls, Gateway(c) PROVE RunsAreDeliveries(c)'
  <1>1. UNCHANGED <<request, jobs, committed>>
    BY GatewayOthers DEF Inv
  <1>2. CASE SendCommand(c)
    <2>1. committed[c] = 0 /\ ~Working(c)
      BY <1>2 DEF SendCommand, Inv, CallInv, StageInv, Untouched
    <2>2. (Running(c))' = {}
      BY <1>1, <2>1 DEF Running, Working
    <2>3. cmd'[c].deliveries \in Nat
      BY BoundAssumption DEF TypeInv, TypeOK
    <2> QED
      BY <1>1, <2>1, <2>2, <2>3, FS_EmptySet DEF RunsAreDeliveries
  <1>3. CASE ~SendCommand(c)
    <2>1. cmd' = cmd
      BY <1>3 DEF Gateway, Identify, RateLimit, UpgradeRequired, SendRpc, PublishAck, ReceiveReply,
                  TimeOut, NoResponders, busVars
    <2>2. (Running(c))' \subseteq Running(c) /\ cmd'[c].deliveries >= cmd[c].deliveries
      BY <1>1, <2>1, BoundAssumption DEF Running, Inv, TypeInv, TypeOK
    <2> QED
      BY <1>1, <2>2, NoMoreRuns
  <1> QED
    BY <1>2, <1>3

LEMMA OneMore ==
    ASSUME NEW S, IsFiniteSet(S), NEW x
    PROVE  /\ IsFiniteSet(S) /\ Cardinality(S) \in Nat
           /\ IsFiniteSet(S \cup {x})
           /\ Cardinality(S \cup {x}) <= Cardinality(S) + 1
           /\ Cardinality(S \cup {x}) \in Nat
  <1>1. Cardinality(S) \in Nat
    BY FS_CardinalityType
  <1>2. IsFiniteSet(S \cup {x})
        /\ (Cardinality(S \cup {x}) = Cardinality(S) \/ Cardinality(S \cup {x}) = Cardinality(S) + 1)
    <2>1. /\ IsFiniteSet(S \cup {x})
          /\ Cardinality(S \cup {x}) = IF x \in S THEN Cardinality(S) ELSE Cardinality(S) + 1
      BY FS_AddElement
    <2> QED
      BY <2>1
  <1> QED
    BY <1>1, <1>2

LEMMA OneLess ==
    ASSUME NEW S, IsFiniteSet(S), NEW x \in S
    PROVE  /\ IsFiniteSet(S \ {x}) /\ Cardinality(S) \in Nat
           /\ Cardinality(S \ {x}) = Cardinality(S) - 1
           /\ Cardinality(S \ {x}) \in Nat
  <1>1. /\ IsFiniteSet(S \ {x})
        /\ Cardinality(S \ {x}) = IF x \in S THEN Cardinality(S) - 1 ELSE Cardinality(S)
    BY FS_RemoveElement
  <1>2. Cardinality(S) \in Nat /\ Cardinality(S \ {x}) \in Nat
    BY <1>1, FS_CardinalityType
  <1> QED
    BY <1>1, <1>2

LEMMA DeliverRuns ==
    ASSUME Inv, TypeInv', DeliveryInv, NEW c \in Calls, Deliver(c) PROVE RunsAreDeliveries(c)'
  <1>0. UNCHANGED <<request, committed>> /\ cmd[c].deliveries \in Nat /\ committed[c] \in Nat
    BY DeliverOthers, BoundAssumption DEF Inv, TypeInv, TypeOK
  <1>1. CASE DeliverRpc(c) \/ DeliverUnreadable(c)
    BY <1>0, <1>1 DEF DeliverRpc, DeliverUnreadable, RunsAreDeliveries, IsRpc, Inv, CallInv, KindInv
  <1>2. CASE DeliverCommand(c)
    <2> DEFINE n == cmd[c].deliveries + 1
               new == [call |-> c, attempt |-> n, at |-> "running"]
    <2>1. cmd'[c].deliveries = n
      BY <1>2 DEF DeliverCommand, Nak, Mark, Inv, TypeInv, TypeOK
    <2>2. (Running(c))' \subseteq Running(c) \cup {new}
      BY <1>2 DEF DeliverCommand, Running
    <2> HIDE DEF new
    <2>3. /\ IsFiniteSet(Running(c)) /\ Cardinality(Running(c)) \in Nat
          /\ IsFiniteSet(Running(c) \cup {new})
          /\ Cardinality(Running(c) \cup {new}) <= Cardinality(Running(c)) + 1
          /\ Cardinality(Running(c) \cup {new}) \in Nat
      <3>1. IsFiniteSet(Running(c))
        BY RunsAreFinite DEF DeliveryInv
      <3> QED
        BY <3>1, OneMore
    <2>4. /\ Cardinality((Running(c))') \in Nat
          /\ Cardinality((Running(c))') <= Cardinality(Running(c)) + 1
      BY <2>2, <2>3, FS_Subset, FS_CardinalityType
    <2>5. ~IsRpc(c) => committed[c] + Cardinality(Running(c)) <= cmd[c].deliveries
      BY DEF DeliveryInv, RunsAreDeliveries
    <2>6. ~IsRpc(c) => committed[c] + Cardinality((Running(c))') <= n
      BY <1>0, <2>3, <2>4, <2>5
    <2> QED
      BY <1>0, <2>1, <2>6 DEF RunsAreDeliveries, IsRpc
  <1>3. CASE AckWait(c)
    <2>1. (Running(c))' \subseteq Running(c) /\ cmd'[c].deliveries >= cmd[c].deliveries
      BY <1>0, <1>3 DEF AckWait, Nak, Mark, Running, serviceVars, Inv, TypeInv, TypeOK
    <2> QED
      BY <1>0, <2>1, NoMoreRuns
  <1>4. CASE Expire(c)
    <2>1. (Running(c))' \subseteq Running(c) /\ cmd'[c].deliveries >= cmd[c].deliveries
      BY <1>0, <1>4 DEF Expire, Mark, Running, serviceVars, Inv, TypeInv, TypeOK
    <2> QED
      BY <1>0, <2>1, NoMoreRuns
  <1> QED
    BY <1>1, <1>2, <1>3, <1>4 DEF Deliver

LEMMA HandleRuns ==
    ASSUME Inv, TypeInv', DeliveryInv, NEW j \in jobs, Handle(j)
    PROVE  RunsAreDeliveries(j.call)'
  <1> DEFINE c == j.call
  <1>0. /\ request' = request /\ j \in Jobs /\ c \in Calls
        /\ cmd[c].deliveries \in Nat /\ committed[c] \in Nat
    BY HandleOthers, BoundAssumption DEF Inv, TypeInv, TypeOK, Jobs
  <1>1. cmd'[c].deliveries = cmd[c].deliveries
    <2>1. ASSUME NEW code, Finish(j, code) PROVE cmd'[c].deliveries = cmd[c].deliveries
      BY <1>0, <2>1 DEF Finish, Mark, Nak, Inv, TypeInv, TypeOK
    <2> QED
      BY <2>1 DEF Handle, HandlerRefuses, HandlerCommits, HandlerCommitsThenFails, ReplyTooLarge, EmitEvent,
                  EmitFails, Crash, busVars
  <1>2. CASE HandlerCommits(j) \/ HandlerCommitsThenFails(j) \/ ReplyTooLarge(j)
    <2>1. j \in Running(c) /\ committed'[c] = committed[c] + 1
      BY <1>0, <1>2 DEF HandlerCommits, HandlerCommitsThenFails, ReplyTooLarge, Running, Inv, TypeInv, TypeOK
    <2>2. (Running(c))' \subseteq Running(c) \ {j}
      BY <1>0, <1>2 DEF HandlerCommits, HandlerCommitsThenFails, ReplyTooLarge, Running, Jobs
    <2>3. /\ IsFiniteSet(Running(c) \ {j}) /\ Cardinality(Running(c)) \in Nat
          /\ Cardinality(Running(c) \ {j}) = Cardinality(Running(c)) - 1
          /\ Cardinality(Running(c) \ {j}) \in Nat
      <3>1. IsFiniteSet(Running(c))
        BY RunsAreFinite DEF DeliveryInv
      <3> QED
        BY <2>1, <3>1, OneLess
    <2>4. /\ Cardinality((Running(c))') \in Nat
          /\ Cardinality((Running(c))') <= Cardinality(Running(c)) - 1
      BY <2>2, <2>3, FS_Subset, FS_CardinalityType
    <2>5. ~IsRpc(c) => committed[c] + Cardinality(Running(c)) <= cmd[c].deliveries
      BY <1>0 DEF DeliveryInv, RunsAreDeliveries
    <2>6. ~IsRpc(c) => committed'[c] + Cardinality((Running(c))') <= cmd'[c].deliveries
      BY <1>0, <1>1, <2>1, <2>3, <2>4, <2>5
    <2> QED
      BY <1>0, <2>6 DEF RunsAreDeliveries, IsRpc
  <1>3. CASE ~(HandlerCommits(j) \/ HandlerCommitsThenFails(j) \/ ReplyTooLarge(j))
    <2>1. jobs' = jobs \ {j} /\ committed' = committed
      BY <1>3 DEF Handle, HandlerRefuses, EmitEvent, EmitFails, Crash
    <2>2. (Running(c))' \subseteq Running(c)
      BY <2>1 DEF Running
    <2> QED
      BY <1>0, <1>1, <2>1, <2>2, NoMoreRuns
  <1> QED
    BY <1>2, <1>3

LEMMA DeliveryStep == ASSUME Inv, Inv', DeliveryInv, [Next]_vars PROVE DeliveryInv'
  <1> USE DEF clockVars, gatewayVars, busVars, serviceVars
  <1>0. TypeInv /\ TypeInv'
    BY DEF Inv
  <1>1. IsFiniteSet(jobs')
    <2>1. CASE \E x : jobs' \subseteq jobs \cup {x}
      BY <2>1, FS_AddElement, FS_Subset DEF DeliveryInv
    <2>2. CASE jobs' \subseteq jobs
      BY <2>2, FS_Subset DEF DeliveryInv
    <2>3. ASSUME NEW c \in Calls, Gateway(c) PROVE jobs' = jobs
      BY <1>0, <2>3, GatewayOthers
    <2>4. ASSUME NEW c \in Calls, Deliver(c) PROVE \E x : jobs' \subseteq jobs \cup {x}
      BY <2>4 DEF Deliver, DeliverRpc, DeliverUnreadable, DeliverCommand, AckWait, Expire
    <2>5. ASSUME NEW j \in jobs, Handle(j) PROVE \E x : jobs' \subseteq jobs \cup {x}
      BY <2>5 DEF Handle, HandlerRefuses, HandlerCommits, HandlerCommitsThenFails, ReplyTooLarge, EmitEvent,
                  EmitFails, Crash
    <2> QED
      BY <2>1, <2>2, <2>3, <2>4, <2>5 DEF Next, Tick, RotateGateway, RotateService, Settled, vars
  <1>2. ASSUME NEW c \in Calls PROVE RunsAreDeliveries(c)'
    <2>1. ASSUME NEW d \in Calls, Gateway(d) \/ Deliver(d) PROVE RunsAreDeliveries(c)'
      BY <1>0, <2>1, GatewayOthers, DeliverOthers, OthersRuns, GatewayRuns, DeliverRuns
    <2>2. ASSUME NEW j \in jobs, Handle(j) PROVE RunsAreDeliveries(c)'
      BY <1>0, <2>2, HandleOthers, OthersRuns, HandleRuns
    <2>3. CASE Tick \/ RotateGateway \/ RotateService \/ Settled \/ UNCHANGED vars
      <3>1. (Running(c))' \subseteq Running(c) /\ UNCHANGED <<request, committed, cmd>>
        BY <2>3 DEF Running, Tick, RotateGateway, RotateService, Settled, vars
      <3>2. cmd'[c].deliveries >= cmd[c].deliveries
        BY <1>0, <3>1, BoundAssumption DEF TypeInv, TypeOK
      <3> QED
        BY <1>0, <3>1, <3>2, NoMoreRuns
    <2> QED
      BY <2>1, <2>2, <2>3 DEF Next
  <1> QED
    BY <1>1, <1>2 DEF DeliveryInv

-----------------------------------------------------------------------------
(* Where a command can be *)

Stored(c) == cmd[c].state \notin {"absent", "duplicate"}

\* An accepted command is in the stream, unless the stream holds one of the same
\* request; it is acknowledged only when it is done, given up only when no
\* delivery is left, and dropped only for its age.
QueuedInv(c) ==
    /\ answer[c] = "ACCEPTED" => cmd[c].state # "absent"
    /\ cmd[c].state = "duplicate" =>
          \E d \in Calls \ {c} : RequestId[d] = RequestId[c] /\ Stored(d)
    /\ cmd[c].state = "acked" => committed[c] > 0 /\ Emitted(c)
    /\ cmd[c].state = "pending" => cmd[c].deliveries < MaxDeliver
    /\ cmd[c].state = "inflight" => cmd[c].deliveries > 0
    /\ cmd[c].state = "dead" => cmd[c].deliveries = MaxDeliver
    /\ cmd[c].state = "expired" => now >= envelope[c].issuedAt + MaxAge
    /\ Stored(c) => envelope[c].issuedAt \in Nat

QueueInv == \A c \in Calls : QueuedInv(c)

\* Nothing done or stored is undone, and nothing gets younger.
Onward ==
    /\ request' = request /\ evt \subseteq evt'
    /\ now \in Nat /\ (now' = now \/ now' = now + 1)
    /\ \A d \in Calls : /\ Stored(d) => (Stored(d))' /\ envelope'[d] = envelope[d]
                        /\ committed[d] > 0 => committed'[d] > 0

LEMMA QueuedStays ==
    ASSUME Onward, NEW c \in Calls, QueuedInv(c), cmd'[c] = cmd[c],
           answer'[c] = "ACCEPTED" => answer[c] = "ACCEPTED" \/ cmd[c].state # "absent"
    PROVE  QueuedInv(c)'
  <1>1. cmd[c].state = "duplicate" =>
          \E d \in Calls \ {c} : RequestId[d] = RequestId[c] /\ (Stored(d))'
    BY DEF QueuedInv, Onward
  <1>2. Emitted(c) => Emitted(c)'
    BY DEF Onward, Emitted
  <1>3. committed[c] > 0 => committed'[c] > 0
    BY DEF Onward
  <1>4. cmd'[c].state = "expired" => now' >= envelope'[c].issuedAt + MaxAge
    <2>1. ASSUME cmd[c].state = "expired" PROVE now' >= envelope'[c].issuedAt + MaxAge
      <3>1. Stored(c)
        BY <2>1 DEF Stored
      <3>2. envelope'[c] = envelope[c] /\ envelope[c].issuedAt \in Nat
        BY <3>1 DEF Onward, QueuedInv
      <3>3. now >= envelope[c].issuedAt + MaxAge /\ MaxAge \in Nat
        BY <2>1, BoundAssumption DEF QueuedInv
      <3> QED
        BY <3>2, <3>3 DEF Onward
    <2> QED
      BY <2>1
  <1>5. (Stored(c))' => envelope'[c].issuedAt \in Nat
    BY DEF Stored, Onward, QueuedInv
  <1> QED
    BY <1>1, <1>2, <1>3, <1>4, <1>5 DEF QueuedInv

\* A delivery that is handed back was not the last, or was.
LEMMA QueuedNak ==
    ASSUME TypeOK, TypeOK', NEW c \in Calls, NEW n \in Nat, Nak(c, n),
           envelope'[c].issuedAt \in Nat
    PROVE  QueuedInv(c)' /\ cmd'[c].state \in {"pending", "dead"}
  <1>1. /\ cmd'[c].deliveries = n /\ n <= MaxDeliver
        /\ cmd'[c].state = IF n < MaxDeliver THEN "pending" ELSE "dead"
    BY BoundAssumption DEF Nak, Mark, TypeOK
  <1> QED
    BY <1>1, BoundAssumption DEF QueuedInv

LEMMA GatewayQueued ==
    ASSUME Inv, Inv', QueueInv, NEW c \in Calls, Gateway(c) PROVE QueueInv'
  <1> USE DEF clockVars, busVars, serviceVars
  <1>0. /\ TypeOK /\ CallInv(c) /\ QueuedInv(c)
        /\ \A d \in Calls \ {c} : Same(d)
        /\ UNCHANGED <<request, committed, evt>>
    BY GatewayOthers DEF Inv, TypeInv, QueueInv
  <1>a. now \in Nat /\ now' = now
    BY <1>0 DEF TypeOK, Gateway, Identify, RateLimit, UpgradeRequired, SendRpc, SendCommand,
       PublishAck, ReceiveReply, TimeOut, NoResponders
  <1>b. envelope'[c] = envelope[c] \/ cmd[c].state = "absent"
    BY <1>0 DEF CallInv, StageInv, Untouched, Gateway, Identify, RateLimit, UpgradeRequired, SendRpc,
       SendCommand, PublishAck, ReceiveReply, TimeOut, NoResponders
  <1>1. CASE SendCommand(c) /\ cmd' # cmd
    <2>1. cmd[c].state = "absent" /\ answer'[c] = NoAnswer
      BY <1>0, <1>1 DEF SendCommand, CallInv, StageInv, Untouched
    <2>2. cmd' = [cmd EXCEPT ![c] = [state |-> IF SeenByCmd(c) THEN "duplicate" ELSE "pending",
                                     deliveries |-> 0]]
      BY <1>1 DEF SendCommand, Mark
    <2>3. /\ cmd'[c].state = IF SeenByCmd(c) THEN "duplicate" ELSE "pending"
          /\ cmd'[c].deliveries = 0
          /\ \A d \in Calls \ {c} : cmd'[d] = cmd[d]
      BY <1>0, <2>2 DEF TypeOK
    <2>4. \A d \in Calls : Stored(d) => (Stored(d))' /\ envelope'[d] = envelope[d]
      BY <1>0, <2>1, <2>3 DEF Stored, Same
    <2>5. Onward
      BY <1>0, <1>a, <2>4 DEF Onward
    <2>a. envelope'[c].issuedAt \in Nat
      BY <1>0, <1>1, <1>a DEF SendCommand, Sign, TypeOK
    <2>6. SeenByCmd(c) => \E d \in Calls \ {c} : RequestId[d] = RequestId[c] /\ (Stored(d))'
      BY <2>4 DEF SeenByCmd, Stored
    <2>7. QueuedInv(c)'
      BY <2>1, <2>3, <2>6, <2>a, BoundAssumption DEF QueuedInv, NoAnswer
    <2>8. \A d \in Calls \ {c} : QueuedInv(d)'
      BY <1>0, <2>5, QueuedStays DEF QueueInv, Same
    <2> QED
      BY <2>7, <2>8 DEF QueueInv
  <1>2. CASE cmd' = cmd
    <2>1. Onward
      <3>1. \A d \in Calls : Stored(d) => (Stored(d))' /\ envelope'[d] = envelope[d]
        BY <1>0, <1>2, <1>b DEF Stored, Same
      <3> QED
        BY <1>0, <1>a, <3>1 DEF Onward
    <2>2. answer'[c] = "ACCEPTED" => answer[c] = "ACCEPTED" \/ cmd[c].state # "absent"
      <3>1. CASE PublishAck(c)
        BY <1>0, <3>1 DEF PublishAck, CallInv, KindInv
      <3>2. CASE ReceiveReply(c)
        <4>1. answer'[c] = ReplyVerdict(c, reply[c])
          BY <1>0, <3>2 DEF ReceiveReply, Answer, TypeOK
        <4>2. ReplyVerdict(c, reply[c]) # "ACCEPTED"
          BY DEF ReplyVerdict, toFailure
        <4> QED
          BY <4>1, <4>2
      <3>3. CASE ~PublishAck(c) /\ ~ReceiveReply(c)
        BY <1>0, <3>3 DEF Gateway, Identify, RateLimit, UpgradeRequired, SendRpc, SendCommand,
           TimeOut, NoResponders, Answer, TypeOK
      <3> QED
        BY <3>1, <3>2, <3>3
    <2>3. \A d \in Calls \ {c} : answer'[d] = answer[d]
      BY <1>0 DEF Same
    <2> QED
      BY <1>2, <2>1, <2>2, <2>3, QueuedStays DEF QueueInv
  <1>3. cmd' = cmd \/ SendCommand(c)
    BY DEF Gateway, Identify, RateLimit, UpgradeRequired, SendRpc, PublishAck, ReceiveReply,
           TimeOut, NoResponders
  <1> QED
    BY <1>1, <1>2, <1>3

LEMMA DeliverQueued ==
    ASSUME Inv, Inv', QueueInv, NEW c \in Calls, Deliver(c) PROVE QueueInv'
  <1>0. /\ TypeOK /\ TypeOK' /\ QueuedInv(c) /\ cmd[c].deliveries \in Nat
        /\ \A d \in Calls \ {c} : Same(d)
        /\ UNCHANGED <<request, answer, committed, evt>>
    BY DeliverOthers, BoundAssumption DEF Inv, TypeInv, TypeOK, QueueInv
  <1>a. now \in Nat /\ UNCHANGED <<now, envelope>>
    BY <1>0 DEF TypeOK, Deliver, DeliverRpc, DeliverUnreadable, DeliverCommand, AckWait, Expire,
       clockVars, gatewayVars
  <1>b. cmd[c].state \in {"pending", "inflight"} => envelope'[c].issuedAt \in Nat
    BY <1>0, <1>a DEF QueuedInv, Stored
  <1>1. cmd'[c] = cmd[c] \/ (Stored(c) /\ (Stored(c))' /\ QueuedInv(c)')
    <2>1. CASE DeliverRpc(c) \/ DeliverUnreadable(c)
      BY <2>1 DEF DeliverRpc, DeliverUnreadable
    <2>2. ASSUME NEW n \in Nat, Nak(c, n), cmd[c].state \in {"pending", "inflight"}
          PROVE  Stored(c) /\ (Stored(c))' /\ QueuedInv(c)'
      BY <1>0, <1>b, <2>2, QueuedNak DEF Stored
    <2>3. CASE AckWait(c)
      BY <1>0, <2>2, <2>3 DEF AckWait
    <2>4. CASE DeliverCommand(c)
      <3> DEFINE n == cmd[c].deliveries + 1
      <3>1. cmd[c].state = "pending" /\ n \in Nat /\ n > 0 /\ (Mark(c, "inflight", n) \/ Nak(c, n))
        BY <1>0, <2>4 DEF DeliverCommand
      <3>2. CASE Mark(c, "inflight", n)
        <4>1. cmd'[c].state = "inflight" /\ cmd'[c].deliveries = n
          BY <1>0, <3>2 DEF Mark, TypeOK
        <4> QED
          BY <1>0, <1>b, <3>1, <4>1 DEF Stored, QueuedInv
      <3> QED
        BY <2>2, <3>1, <3>2
    <2>5. CASE Expire(c)
      <3>1. /\ cmd[c].state \in {"pending", "inflight"} /\ now >= envelope[c].issuedAt + MaxAge
            /\ cmd'[c].state = "expired"
        BY <1>0, <2>5 DEF Expire, Mark, TypeOK
      <3>2. Stored(c) /\ (Stored(c))'
        BY <3>1 DEF Stored
      <3>3. QueuedInv(c)'
        BY <1>0, <1>a, <1>b, <3>1 DEF QueuedInv
      <3> QED
        BY <3>2, <3>3
    <2> QED
      BY <2>1, <2>3, <2>4, <2>5 DEF Deliver
  <1>2. Onward
    BY <1>0, <1>1, <1>a DEF Onward, Stored, Same
  <1> QED
    BY <1>0, <1>1, <1>2, QueuedStays DEF QueueInv, Same

LEMMA HandleQueued ==
    ASSUME Inv, Inv', QueueInv, NEW j \in jobs, Handle(j) PROVE QueueInv'
  <1> DEFINE c == j.call
  <1>0. /\ TypeOK /\ TypeOK' /\ c \in Calls /\ QueuedInv(c) /\ cmd[c].deliveries \in Nat
        /\ \A d \in Calls \ {c} : Same(d)
        /\ UNCHANGED <<request, answer>> /\ FactInv /\ committed \in [Calls -> Nat]
    BY HandleOthers, BoundAssumption DEF Inv, TypeInv, TypeOK, QueueInv, Jobs
  <1>a. now \in Nat /\ UNCHANGED <<now, envelope>>
    BY <1>0 DEF TypeOK, Handle, HandlerRefuses, HandlerCommits, HandlerCommitsThenFails,
       ReplyTooLarge, EmitEvent, EmitFails, Crash, clockVars, gatewayVars
  <1>b. Stored(c) => envelope'[c].issuedAt \in Nat
    BY <1>0, <1>a DEF QueuedInv
  <1>1. evt \subseteq evt' /\ \A d \in Calls : committed'[d] >= committed[d]
    BY <1>0 DEF Handle, HandlerRefuses, HandlerCommits, HandlerCommitsThenFails, ReplyTooLarge, EmitEvent, EmitFails,
       Crash, StoreEvent, busVars
  <1>2. ASSUME NEW code, Finish(j, code), code = "OK" => committed'[c] > 0 /\ Emitted(c)'
        PROVE  cmd'[c] = cmd[c] \/ (Stored(c) /\ (Stored(c))' /\ QueuedInv(c)')
    <2>1. CASE code = "OK" /\ cmd[c].state \in {"pending", "inflight"}
               /\ Mark(c, "acked", cmd[c].deliveries)
      <3>1. cmd'[c].state = "acked"
        BY <1>0, <2>1 DEF Mark, TypeOK
      <3> QED
        BY <1>2, <1>b, <2>1, <3>1 DEF Stored, QueuedInv
    <2>2. CASE cmd[c].state = "inflight" /\ Nak(c, cmd[c].deliveries)
      BY <1>0, <1>b, <2>2, QueuedNak DEF Stored
    <2> QED
      BY <1>2, <2>1, <2>2 DEF Finish
  <1>3. cmd'[c] = cmd[c] \/ (Stored(c) /\ (Stored(c))' /\ QueuedInv(c)')
    <2>1. CASE HandlerCommits(j)
      <3>1. committed'[c] > 0
        BY <1>0, <2>1 DEF HandlerCommits
      <3>2. ~Rule[request[c].op].audit => Emitted(c)' /\ Finish(j, "OK")
        BY <1>0, <2>1 DEF HandlerCommits, Emitted
      <3>3. Rule[request[c].op].audit => cmd' = cmd
        BY <2>1 DEF HandlerCommits
      <3> QED
        BY <1>2, <3>1, <3>2, <3>3
    <2>2. CASE EmitEvent(j)
      <3>1. committed'[c] > 0 /\ Finish(j, "OK")
        BY <1>0, <2>2 DEF EmitEvent, FactInv
      <3>2. \E d \in evt' : RequestId[d] = RequestId[c]
        BY <2>2 DEF EmitEvent, StoreEvent
      <3> QED
        BY <1>2, <3>1, <3>2 DEF Emitted
    <2>3. CASE Crash(j)
      BY <2>3 DEF Crash, busVars
    <2>4. CASE HandlerRefuses(j)
      <3>1. PICK code \in HandlerRefusals \cup {"INTERNAL"} : Finish(j, code)
        BY <2>4 DEF HandlerRefuses
      <3>2. code # "OK"
        BY InputAssumption
      <3> QED
        BY <1>2, <3>1, <3>2
    <2>5. CASE HandlerCommitsThenFails(j) \/ EmitFails(j)
      <3>1. Finish(j, "INTERNAL")
        BY <2>5 DEF HandlerCommitsThenFails, EmitFails
      <3> QED
        BY <1>2, <3>1
    <2>6. CASE ReplyTooLarge(j)
      BY <2>6 DEF ReplyTooLarge
    <2> QED
      BY <2>1, <2>2, <2>3, <2>4, <2>5, <2>6 DEF Handle
  <1>4. Onward
    <2>1. \A d \in Calls : committed[d] > 0 => committed'[d] > 0
      BY <1>0, <1>1 DEF TypeOK
    <2> QED
      BY <1>0, <1>1, <1>3, <1>a, <2>1 DEF Onward, Stored, Same
  <1> QED
    BY <1>0, <1>3, <1>4, QueuedStays DEF QueueInv, Same

LEMMA QueueStep == ASSUME Inv, Inv', QueueInv, [Next]_vars PROVE QueueInv'
  <1>1. CASE Tick \/ RotateGateway \/ RotateService \/ Settled \/ UNCHANGED vars
    <2>1. UNCHANGED <<request, answer, envelope, cmd, committed, evt>> /\ (now' = now \/ now' = now + 1)
      BY <1>1 DEF Tick, RotateGateway, RotateService, Settled, vars, clockVars, gatewayVars, busVars,
         serviceVars
    <2>2. Onward
      BY <2>1 DEF Onward, Stored, Inv, TypeInv, TypeOK
    <2> QED
      BY <2>1, <2>2, QueuedStays DEF QueueInv
  <1> QED
    BY <1>1, GatewayQueued, DeliverQueued, HandleQueued DEF Next

\* No accepted command is lost on the way: it waits in the stream, is being
\* handled, was done and recorded, was handed out max_deliver times, or has
\* outlived the stream's max_age; only one whose request id the stream has seen
\* is dropped before that (streams.ts, serve.ts).
THEOREM NoCommandIsLost == Spec => []QueueInv
  <1>1. Init => QueueInv
    BY DEF Init, QueueInv, QueuedInv, Stored, NoAnswer
  <1>2. Inv /\ Inv' /\ QueueInv /\ [Next]_vars => QueueInv'
    BY QueueStep
  <1> QED
    BY <1>1, <1>2, Invariance, PTL DEF Spec

-----------------------------------------------------------------------------
(* The promise to a caller *)

Known == [c \in Calls |-> IF stage[c] = "idle" THEN "not identified" ELSE role[c]]

Told == [c \in Calls |-> Outcome(answer[c])]

LEMMA OutcomeIs ==
    ASSUME NEW code
    PROVE  /\ code = NoAnswer => Outcome(code) = "open"
           /\ code \in CleanRefusals => Outcome(code) = "refused"
           /\ code \in {"OK", "ACCEPTED"} => Outcome(code) = code
           /\ code \notin {NoAnswer, "OK", "ACCEPTED"} \cup CleanRefusals => Outcome(code) = "unknown"
  BY DEF Outcome, NoAnswer, CleanRefusals, ERROR_CODES

LEMMA NothingTold ==
    ASSUME UNCHANGED <<request, stage, role, answer, committed, evt>>
    PROVE  UNCHANGED Promise!vars
  BY DEF Promise!vars

\* Whoever passed the gates may do what they ask for.
LEMMA GatesPermit ==
    ASSUME TypeInv, NEW c \in Calls, stage[c] # "idle", RoleGates(c, role[c])
    PROVE  Promise!Permitted(c)
  <1>1. roleAtLeast(role[c], Rule[request[c].op].minRole) /\ role[c] \in ORG_ROLES
    BY DEF RoleGates, TypeInv, TypeOK
  <1>2. request[c].named # NoRole => request[c].named \in assignableRoles(role[c])
    BY DEF RoleGates, refusedRole
  <1>3. Known[c] = role[c]
    BY DEF Known
  <1>4. \A r \in ORG_ROLES : ROLE_RANK[r] \in Nat
    BY DEF ROLE_RANK, ORG_ROLES
  <1>5. request[c].named # NoRole => /\ request[c].named \in ORG_ROLES
                                     /\ ROLE_RANK[request[c].named] <= ROLE_RANK[role[c]]
    BY <1>1, <1>2, <1>4 DEF assignableRoles, roleAtLeast
  <1> QED
    BY <1>1, <1>3, <1>5 DEF Known, Promise!Permitted, roleAtLeast, Promise!ORG_ROLES,
       Promise!ROLE_RANK, Promise!NoRole, ORG_ROLES, ROLE_RANK, NoRole

\* The answer of a dispatch is the one answer the promise allows, and true.
LEMMA AnswersMap ==
    ASSUME Inv, Inv', NEW c \in Calls, stage[c] \notin {"idle", "answered"},
           NEW code \in Answers, Answer(c, code),
           code = "ACCEPTED" => stage[c] = "publishing",
           UNCHANGED <<request, role, committed, evt>>
    PROVE  Promise!Next
  <1>1. /\ answer[c] = NoAnswer /\ answer'[c] = code /\ stage'[c] = "answered"
        /\ code # NoAnswer /\ role[c] \in ORG_ROLES
    BY DEF Inv, TypeInv, TypeOK, CallInv, StageInv, Answer, Answers, NoAnswer, ERROR_CODES
  <1>2. Told[c] = "open" /\ Known[c] = role[c]
    BY <1>1, OutcomeIs DEF Told, Known
  <1>3. Known' = Known
    <2>1. \A d \in Calls : (stage'[d] = "idle") <=> (stage[d] = "idle")
      BY <1>1 DEF Answer, Inv, TypeInv, TypeOK
    <2> QED
      BY <2>1 DEF Known
  <1>4. Told' = [Told EXCEPT ![c] = Outcome(answer'[c])]
    <2>1. \A d \in Calls : d # c => answer'[d] = answer[d]
      BY DEF Answer, Inv, TypeInv, TypeOK
    <2> QED
      BY <2>1 DEF Told
  <1>5. role[c] # "not identified"
    BY <1>1 DEF ORG_ROLES
  <1>6. Promise!Tell(c, Outcome(answer'[c]))
    BY <1>2, <1>3, <1>4, <1>5 DEF Told, Known, Promise!Tell, Promise!Nobody
  <1>7. CASE code \in CleanRefusals
    <2>1. Outcome(answer'[c]) = "refused"
      BY <1>1, <1>7, OutcomeIs
    <2>2. committed[c] = 0 \/ request[c].op \in Reads
      BY <1>1, <1>7 DEF Inv, CallInv, AnswerInv, Unwritten
    <2> QED
      BY <1>6, <2>1, <2>2 DEF Promise!Refuse, Promise!Next
  <1>8. CASE code = "OK"
    <2>1. Outcome(answer'[c]) = "OK"
      BY <1>1, <1>8, OutcomeIs
    <2>2. IsRpc(c) /\ committed[c] = 1 /\ Emitted(c)
      BY <1>1, <1>8 DEF Inv, CallInv, AnswerInv, IsRpc, Emitted
    <2> QED
      BY <1>6, <2>1, <2>2 DEF IsRpc, Emitted, Promise!Confirm, Promise!Next, Promise!IsRpc,
         Promise!Recorded
  <1>9. CASE code = "ACCEPTED"
    <2>1. Outcome(answer'[c]) = "ACCEPTED"
      BY <1>1, <1>9, OutcomeIs
    <2>2. ~IsRpc(c) /\ RoleGates(c, role[c])
      BY <1>9 DEF Inv, CallInv, KindInv, GatedInv, Untouched
    <2>3. Promise!Permitted(c)
      BY <2>2, GatesPermit DEF Inv
    <2> QED
      BY <1>6, <2>1, <2>2, <2>3 DEF IsRpc, Promise!Accept, Promise!Next, Promise!IsRpc
  <1>10. CASE code \notin CleanRefusals \cup {"OK", "ACCEPTED"}
    <2>1. Outcome(answer'[c]) = "unknown"
      BY <1>1, <1>10, OutcomeIs
    <2> QED
      BY <1>6, <2>1 DEF Promise!Doubt, Promise!Next
  <1> QED
    BY <1>7, <1>8, <1>9, <1>10

LEMMA GatewayMaps ==
    ASSUME Inv, Inv', NEW c \in Calls, Gateway(c) PROVE Promise!Next \/ UNCHANGED Promise!vars
  <1> USE DEF clockVars, busVars, serviceVars
  <1>0. TypeOK /\ TypeOK' /\ CallInv(c) /\ UNCHANGED <<request, committed, evt>>
    BY GatewayOthers DEF Inv, TypeInv
  <1>1. CASE Identify(c)
    <2>1. stage[c] = "idle" /\ answer[c] = NoAnswer /\ role'[c] \in ORG_ROLES
      BY <1>0, <1>1 DEF Identify, CallInv, StageInv, TypeOK
    <2>2. /\ stage'[c] # "idle"
          /\ answer'[c] \in {NoAnswer, "INTERNAL", "UNAUTHORIZED", "NO_ACTIVE_ORG", "PERMISSION_DENIED"}
          /\ \A d \in Calls : d # c => stage'[d] = stage[d] /\ role'[d] = role[d] /\ answer'[d] = answer[d]
      BY <1>0, <1>1, <2>1 DEF Identify, Answer, TypeOK
    <2>3. Known[c] = "not identified" /\ Told[c] = "open"
      BY <2>1, OutcomeIs DEF Known, Told
    <2>4. Known' = [Known EXCEPT ![c] = role'[c]]
      BY <2>2 DEF Known
    <2>5. Told' = [Told EXCEPT ![c] = Outcome(answer'[c])]
      BY <2>2 DEF Told
    <2>6. Outcome(answer'[c]) \in {"open", "refused", "unknown"}
      BY <2>2, OutcomeIs DEF CleanRefusals, ERROR_CODES
    <2>7. Promise!Identify(c)
      BY <1>0, <2>1, <2>3, <2>4, <2>5, <2>6 DEF Known, Told, Promise!Identify, Promise!Nobody,
         Promise!ORG_ROLES, ORG_ROLES
    <2> QED
      BY <2>7 DEF Promise!Next
  <1>2. CASE RateLimit(c) /\ stage' = [stage EXCEPT ![c] = "entitlements"] /\ UNCHANGED answer
    <2>1. UNCHANGED <<role, Known, Told>>
      <3>1. role' = role /\ \A d \in Calls : (stage'[d] = "idle") <=> (stage[d] = "idle")
        BY <1>0, <1>2 DEF RateLimit, TypeOK
      <3> QED
        BY <1>2, <3>1 DEF Known, Told
    <2> QED
      BY <1>0, <2>1 DEF Promise!vars, Known, Told
  <1>3. CASE SendRpc(c) \/ (SendCommand(c) /\ stage'[c] = "publishing")
    <2>1. UNCHANGED <<role, answer>> /\ stage[c] = "entitlements"
          /\ \E s \in {"waiting", "publishing"} : stage' = [stage EXCEPT ![c] = s]
      BY <1>0, <1>3 DEF SendRpc, SendCommand, Answer, TypeOK
    <2>2. UNCHANGED <<Known, Told>>
      <3>1. \A d \in Calls : (stage'[d] = "idle") <=> (stage[d] = "idle")
        BY <1>0, <2>1 DEF TypeOK
      <3> QED
        BY <2>1, <3>1 DEF Known, Told
    <2> QED
      BY <1>0, <2>2 DEF Promise!vars, Known, Told
  <1>4. ASSUME stage[c] \notin {"idle", "answered"}, role' = role, NEW code \in Answers,
               Answer(c, code), code = "ACCEPTED" => stage[c] = "publishing"
        PROVE  Promise!Next
    BY <1>0, <1>4, AnswersMap
  <1>5. CASE RateLimit(c) /\ Answer(c, "RATE_LIMITED")
    BY <1>4, <1>5 DEF RateLimit, Answers, ERROR_CODES
  <1>6. CASE UpgradeRequired(c)
    BY <1>4, <1>6 DEF UpgradeRequired, Answers, ERROR_CODES
  <1>7. CASE SendCommand(c) /\ Answer(c, "INTERNAL")
    BY <1>4, <1>7 DEF SendCommand, Answers, ERROR_CODES
  <1>8. CASE PublishAck(c)
    BY <1>4, <1>8 DEF PublishAck, Answers, ERROR_CODES
  <1>9. CASE ReceiveReply(c)
    <2>1. reply[c] \in Replies /\ ReplyVerdict(c, reply[c]) \in Answers
      BY <1>0, <1>9, VerdictCodes DEF ReceiveReply, TypeOK
    <2>2. ReplyVerdict(c, reply[c]) # "ACCEPTED"
      BY <2>1 DEF ReplyVerdict, toFailure
    <2> QED
      BY <1>4, <1>9, <2>1, <2>2 DEF ReceiveReply
  <1>10. CASE TimeOut(c) \/ NoResponders(c)
    BY <1>4, <1>10 DEF TimeOut, NoResponders, Answers, ERROR_CODES
  <1>11. SendCommand(c) => stage'[c] = "publishing" \/ Answer(c, "INTERNAL")
    BY <1>0 DEF SendCommand, TypeOK
  <1> QED
    BY <1>1, <1>2, <1>3, <1>5, <1>6, <1>7, <1>8, <1>9, <1>10, <1>11 DEF Gateway, RateLimit

LEMMA HandleMaps ==
    ASSUME Inv, DeliveryInv, NEW j \in jobs, Handle(j) PROVE Promise!Next \/ UNCHANGED Promise!vars
  <1> DEFINE c == j.call
  <1>0. /\ TypeInv /\ TypeOK /\ c \in Calls /\ CallInv(c) /\ FactInv /\ ~Untouched(c) /\ Working(c)
        /\ UNCHANGED <<request, stage, role, answer>>
    BY HandleOthers DEF Inv, TypeInv, TypeOK, Jobs, Untouched, Working
  <1>1. UNCHANGED <<Known, Told>>
    BY <1>0 DEF Known, Told
  <1>2. CASE HandlerCommits(j) \/ HandlerCommitsThenFails(j) \/ ReplyTooLarge(j)
    <2>1. /\ j.at = "running" /\ evt' = evt
          /\ committed' = [committed EXCEPT ![c] = @ + 1]
      BY <1>2 DEF HandlerCommits, HandlerCommitsThenFails, ReplyTooLarge
    <2>2. Promise!Permitted(c)
      BY <1>0, GatesPermit DEF CallInv, StageInv, GatedInv
    <2>3. Told[c] # "refused"
      <3>1. answer[c] \notin CleanRefusals
        BY <1>0 DEF CallInv, AnswerInv
      <3> QED
        BY <1>0, <3>1, OutcomeIs DEF Told
    <2>4. committed[c] < IF IsRpc(c) THEN 1 ELSE MaxDeliver
      <3>1. CASE IsRpc(c)
        BY <1>0, <2>1, <3>1 DEF CallInv, RpcInv
      <3>2. CASE ~IsRpc(c)
        <4>1. j \in Running(c)
          BY <2>1 DEF Running
        <4>2. Cardinality(Running(c)) \in Nat /\ Cardinality(Running(c)) # 0
          BY <4>1, RunsAreFinite, FS_EmptySet DEF DeliveryInv
        <4>3. /\ committed[c] + Cardinality(Running(c)) <= cmd[c].deliveries
              /\ cmd[c].deliveries \in 0..MaxDeliver /\ committed[c] \in Nat
          BY <1>0, <3>2 DEF DeliveryInv, RunsAreDeliveries, TypeOK
        <4> QED
          BY <3>2, <4>2, <4>3, BoundAssumption
      <3> QED
        BY <3>1, <3>2
    <2>5. Promise!Perform(c)
      BY <1>0, <1>1, <2>1, <2>2, <2>3, <2>4 DEF Known, Told, IsRpc, Promise!Perform, Promise!Times,
         Promise!IsRpc
    <2> QED
      BY <1>0, <2>5 DEF Promise!Next
  <1>3. CASE EmitEvent(j) \/ EmitFails(j)
    <2>1. committed[c] > 0 /\ committed' = committed /\ (evt' = evt \/ evt' = evt \cup {c})
      BY <1>0, <1>3 DEF EmitEvent, EmitFails, StoreEvent, FactInv
    <2>2. CASE evt' = evt
      BY <1>0, <2>1, <2>2, NothingTold
    <2>3. CASE evt' = evt \cup {c}
      <3>1. Promise!Record(c)
        BY <1>0, <1>1, <2>1, <2>3 DEF Known, Told, Promise!Record
      <3> QED
        BY <1>0, <3>1 DEF Promise!Next
    <2> QED
      BY <2>1, <2>2, <2>3
  <1>4. CASE HandlerRefuses(j) \/ Crash(j)
    BY <1>0, <1>4, NothingTold DEF HandlerRefuses, Crash, busVars
  <1> QED
    BY <1>2, <1>3, <1>4 DEF Handle

LEMMA StepMaps ==
    ASSUME Inv, Inv', DeliveryInv, [Next]_vars PROVE Promise!Next \/ UNCHANGED Promise!vars
  <1>1. ASSUME NEW c \in Calls, Gateway(c) PROVE Promise!Next \/ UNCHANGED Promise!vars
    BY <1>1, GatewayMaps
  <1>2. ASSUME NEW c \in Calls, Deliver(c) PROVE UNCHANGED Promise!vars
    BY <1>2, DeliverOthers, NothingTold DEF Inv
  <1>3. ASSUME NEW j \in jobs, Handle(j) PROVE Promise!Next \/ UNCHANGED Promise!vars
    BY <1>3, HandleMaps
  <1>4. CASE Tick \/ RotateGateway \/ RotateService \/ Settled \/ UNCHANGED vars
    BY <1>4, NothingTold DEF Tick, RotateGateway, RotateService, Settled, vars, gatewayVars, busVars,
       serviceVars
  <1> QED
    BY <1>1, <1>2, <1>3, <1>4 DEF Next

\* The gates, the bus and the handler keep the promise of Dispatch: a caller is
\* who they were found to be, nothing is performed that they may not do, a
\* command at most max_deliver times and an rpc once, nothing after a refusal,
\* and the one answer a caller gets is true (gateway.ts, service.ts, serve.ts).
THEOREM BlockImplementsDispatch == Spec => ImplementsDispatch
  <1>1. Init => Promise!Init
    <2> SUFFICES ASSUME Init PROVE Promise!Init
      OBVIOUS
    <2>1. \A c \in Calls : stage[c] = "idle" /\ answer[c] = NoAnswer
      BY DEF Init
    <2>2. Known = [c \in Calls |-> "not identified"] /\ Told = [c \in Calls |-> "open"]
      BY <2>1, OutcomeIs DEF Known, Told
    <2> QED
      BY <2>2 DEF Init, Known, Told, Promise!Init, Promise!Nobody
  <1>2. Init => DeliveryInv
    <2> SUFFICES ASSUME Init PROVE DeliveryInv
      OBVIOUS
    <2>1. /\ jobs = {} /\ \A c \in Calls : committed[c] = 0 /\ cmd[c].deliveries = 0
      BY DEF Init
    <2>2. \A c \in Calls : Running(c) = {}
      BY <2>1 DEF Running
    <2> QED
      BY <2>1, <2>2, FS_EmptySet DEF DeliveryInv, RunsAreDeliveries
  <1>3. Inv /\ Inv' /\ DeliveryInv /\ [Next]_vars => DeliveryInv'
    BY DeliveryStep
  <1>4. Inv /\ Inv' /\ DeliveryInv /\ [Next]_vars => [Promise!Next]_(Promise!vars)
    BY StepMaps
  <1> QED
    BY <1>1, <1>2, <1>3, <1>4, Invariance, PTL DEF Spec, ImplementsDispatch, Promise!Spec

-----------------------------------------------------------------------------
(* Time *)

\* What is signed was signed in the past, with the operation's own budget, and
\* what is on the bus was signed.
EnvelopeInv ==
    \A c \in Calls :
        /\ envelope[c] # NoEnvelope =>
              /\ envelope[c].op = request[c].op
              /\ envelope[c].issuedAt \in Nat /\ envelope[c].issuedAt <= now
              /\ envelope[c].deadlineAt = envelope[c].issuedAt + Rule[request[c].op].timeout
        /\ c \in rpc => envelope[c] # NoEnvelope

LEMMA GatewayEnvelope == ASSUME Inv, EnvelopeInv, NEW c \in Calls, Gateway(c) PROVE EnvelopeInv'
  <1>1. now' = now /\ request' = request /\ now \in Nat
    BY DEF Gateway, Identify, RateLimit, UpgradeRequired, SendRpc, SendCommand, PublishAck,
           ReceiveReply, TimeOut, NoResponders, clockVars, Inv, TypeInv, TypeOK
  <1>2. CASE UNCHANGED envelope /\ rpc' \subseteq rpc
    BY <1>1, <1>2 DEF EnvelopeInv
  <1>3. CASE Sign(c) /\ rpc' \subseteq rpc \cup {c}
    <2>1. /\ envelope' = [envelope EXCEPT ![c] = envelope'[c]] /\ envelope'[c] # NoEnvelope
          /\ envelope'[c].op = request[c].op /\ envelope'[c].issuedAt = now
          /\ envelope'[c].deadlineAt = now + Rule[request[c].op].timeout
      BY <1>3 DEF Sign, Inv, TypeInv, TypeOK, NoEnvelope
    <2>2. \A d \in Calls \ {c} : envelope'[d] = envelope[d]
      BY <2>1 DEF Inv, TypeInv, TypeOK
    <2> QED
      BY <1>1, <1>3, <2>1, <2>2 DEF EnvelopeInv
  <1>4. (UNCHANGED envelope /\ rpc' \subseteq rpc) \/ (Sign(c) /\ rpc' \subseteq rpc \cup {c})
    BY DEF Gateway, Identify, RateLimit, UpgradeRequired, SendRpc, SendCommand, PublishAck,
           ReceiveReply, TimeOut, NoResponders, busVars
  <1> QED
    BY <1>2, <1>3, <1>4

LEMMA NextEnvelope == ASSUME Inv, EnvelopeInv, [Next]_vars PROVE EnvelopeInv'
  <1> USE DEF clockVars, gatewayVars, busVars, serviceVars
  <1>1. ASSUME UNCHANGED <<request, envelope>>, rpc' \subseteq rpc, now' = now \/ now' = now + 1
        PROVE  EnvelopeInv'
    <2>1. now \in Nat
      BY DEF Inv, TypeInv, TypeOK
    <2> QED
      BY <1>1, <2>1 DEF EnvelopeInv
  <1>2. CASE \E c \in Calls : Gateway(c)
    BY <1>2, GatewayEnvelope
  <1>3. CASE \E c \in Calls : Deliver(c)
    BY <1>1, <1>3 DEF Deliver, DeliverRpc, DeliverUnreadable, DeliverCommand, AckWait, Expire
  <1>4. CASE \E j \in jobs : Handle(j)
    BY <1>1, <1>4 DEF Handle, HandlerRefuses, HandlerCommits, HandlerCommitsThenFails, ReplyTooLarge, EmitEvent,
                      EmitFails, Crash
  <1>5. CASE Tick \/ RotateGateway \/ RotateService \/ Settled \/ UNCHANGED vars
    BY <1>1, <1>5 DEF Tick, RotateGateway, RotateService, Settled, vars
  <1> QED
    BY <1>2, <1>3, <1>4, <1>5 DEF Next

\* What the service's clock makes of an envelope on the bus.
LEMMA Verdicts ==
    ASSUME Inv, EnvelopeInv, NEW c \in rpc
    PROVE  /\ HandleGates(envelope[c]) = "DEADLINE_EXCEEDED" => now >= envelope[c].deadlineAt
           /\ HandleGates(envelope[c]) = "UNTRUSTED_ENVELOPE" =>
                envelope[c].signedWith # secret.service
           /\ envelope[c].deadlineAt \in Nat
           /\ HandleGates(envelope[c]) = "pass" =>
                now < envelope[c].deadlineAt + CLOCK_SKEW + MaxDrift
  <1> DEFINE e == envelope[c]
             rule == Rule[request[c].op]
  <1>1. c \in Calls /\ IsRpc(c) /\ request[c].op \in Ops
    BY DEF Inv, TypeInv, TypeOK, CallInv, KindInv
  <1>2. /\ e.op = request[c].op /\ e.issuedAt \in Nat /\ e.issuedAt <= now
        /\ e.deadlineAt = e.issuedAt + rule.timeout
    BY <1>1 DEF EnvelopeInv
  <1>3. rule.timeout \in Nat /\ rule.timeout > 0 /\ rule.timeout <= MAX_TIMEOUT /\ MAX_TIMEOUT \in Nat
        /\ rule.transport = "rpc"
    BY <1>1, RuleAssumption DEF IsRpc
  <1>4. now \in Nat /\ drift \in Int /\ drift <= MaxDrift /\ -MaxDrift <= drift
        /\ MaxDrift \in Nat /\ CLOCK_SKEW \in Nat /\ MaxDrift <= CLOCK_SKEW
    BY ClockAssumption DEF Inv, TypeInv, TypeOK
  <1> HIDE DEF e, rule
  <1> DEFINE freshness == checkFreshness(e, rule.transport, Clock, CLOCK_SKEW, MAX_TIMEOUT)
  <1>5. freshness = IF e.deadlineAt + CLOCK_SKEW <= now + drift THEN "DEADLINE_EXCEEDED" ELSE Fresh
    BY <1>2, <1>3, <1>4 DEF checkFreshness, Clock
  <1>6. HandleGates(e) = IF ~verify(e.signedWith, secret.service) THEN "UNTRUSTED_ENVELOPE"
                         ELSE IF freshness # Fresh THEN freshness
                         ELSE IF e.op \notin e.permissions \/ refusedRole(e.named, e.role)
                              THEN "PERMISSION_DENIED" ELSE "pass"
    BY <1>2 DEF HandleGates, rule
  <1> HIDE DEF freshness
  <1>7. HandleGates(e) = "DEADLINE_EXCEEDED" => now >= e.deadlineAt
    BY <1>2, <1>3, <1>4, <1>5, <1>6 DEF Fresh
  <1>8. HandleGates(e) = "UNTRUSTED_ENVELOPE" => e.signedWith # secret.service
    BY <1>5, <1>6 DEF verify, Fresh
  <1>9. HandleGates(e) = "pass" => now < e.deadlineAt + CLOCK_SKEW + MaxDrift
    BY <1>2, <1>3, <1>4, <1>5, <1>6 DEF Fresh
  <1>10. e.deadlineAt \in Nat
    BY <1>2, <1>3
  <1> QED
    BY <1>7, <1>8, <1>9, <1>10 DEF e

\* NoLiveRequestExpires for one call, with the type that time passes in.
Alive(c) ==
    reply[c] # NoReply =>
        /\ reply[c].code = "DEADLINE_EXCEEDED" =>
              envelope[c].deadlineAt \in Nat /\ now >= envelope[c].deadlineAt
        /\ reply[c].code = "UNTRUSTED_ENVELOPE" /\ reply[c].bound =>
              reply[c].signedWith # envelope[c].signedWith

LEMMA FinishAlive ==
    ASSUME Inv, NEW j \in jobs, NEW code \in HandlerRefusals \cup {"OK", "INTERNAL"}, Finish(j, code),
           UNCHANGED <<now, envelope>>, Alive(j.call)
    PROVE  Alive(j.call)'
  <1>1. j.call \in Calls
    BY DEF Inv, TypeInv, TypeOK, Jobs
  <1>2. code \notin {"DEADLINE_EXCEEDED", "UNTRUSTED_ENVELOPE"}
    BY InputAssumption
  <1>3. UNCHANGED reply \/ reply'[j.call].code = code
    BY <1>1 DEF Finish, Respond, Inv, TypeInv, TypeOK
  <1> QED
    BY <1>2, <1>3 DEF Alive

LEMMA NextAlive ==
    ASSUME Inv, EnvelopeInv, \A c \in Calls : Alive(c), [Next]_vars
    PROVE  \A c \in Calls : Alive(c)'
  <1> USE DEF clockVars, gatewayVars, busVars, serviceVars
  <1>1. ASSUME NEW d \in Calls, reply'[d] = reply[d], envelope'[d] = envelope[d],
               now' = now \/ now' = now + 1
        PROVE  Alive(d)'
    <2>1. now \in Nat
      BY DEF Inv, TypeInv, TypeOK
    <2> QED
      BY <1>1, <2>1 DEF Alive
  <1>2. \A c \in Calls : Alive(c)
    OBVIOUS
  <1>3. ASSUME NEW c \in Calls, Gateway(c), NEW d \in Calls PROVE Alive(d)'
    <2>1. now' = now /\ (d # c => reply'[d] = reply[d] /\ envelope'[d] = envelope[d])
      BY <1>3, GatewayOthers DEF Inv, Same, Gateway, Identify, RateLimit, UpgradeRequired, SendRpc,
         SendCommand, PublishAck, ReceiveReply, TimeOut, NoResponders
    <2>2. \/ UNCHANGED <<reply, envelope>>
          \/ stage[c] = "entitlements" /\ UNCHANGED reply
          \/ reply'[c] = NoReply
      BY <1>3 DEF Gateway, Identify, RateLimit, UpgradeRequired, SendRpc, SendCommand, PublishAck,
                  ReceiveReply, TimeOut, NoResponders, Inv, TypeInv, TypeOK
    <2>3. stage[c] = "entitlements" => reply[c] = NoReply
      BY DEF Inv, CallInv, StageInv
    <2>4. CASE d # c
      BY <1>1, <2>1, <2>4
    <2>5. CASE d = c
      BY <1>1, <2>1, <2>2, <2>3, <2>5 DEF Alive
    <2> QED
      BY <2>4, <2>5
  <1>4. ASSUME NEW c \in Calls, Deliver(c), NEW d \in Calls PROVE Alive(d)'
    <2>1. now' = now /\ UNCHANGED envelope /\ (d # c => reply'[d] = reply[d])
      BY <1>4, DeliverOthers DEF Inv, Same, Deliver, DeliverRpc, DeliverUnreadable, DeliverCommand,
                                 AckWait, Expire
    <2>2. \/ UNCHANGED reply
          \/ c \in rpc /\ HandleGates(envelope[c]) # "pass"
               /\ Respond(c, HandleGates(envelope[c]))
          \/ reply'[c].bound = FALSE /\ reply'[c].code = "UNTRUSTED_ENVELOPE"
      BY <1>4 DEF Deliver, DeliverRpc, DeliverUnreadable, RefuseUnbound, DeliverCommand, AckWait,
                  Expire, Inv, TypeInv, TypeOK
    <2>3. CASE UNCHANGED reply \/ d # c
      BY <1>1, <2>1, <2>3
    <2>4. CASE d = c /\ c \in rpc /\ Respond(c, HandleGates(envelope[c]))
      <3>1. reply'[c] = [code |-> HandleGates(envelope[c]), bound |-> TRUE, signedWith |-> secret.service]
        BY <2>4 DEF Respond, Inv, TypeInv, TypeOK
      <3> QED
        BY <2>1, <2>4, <3>1, Verdicts DEF Alive
    <2>5. CASE d = c /\ reply'[c].bound = FALSE /\ reply'[c].code = "UNTRUSTED_ENVELOPE"
      BY <2>5 DEF Alive
    <2> QED
      BY <2>2, <2>3, <2>4, <2>5
  <1>5. ASSUME NEW j \in jobs, Handle(j), NEW d \in Calls PROVE Alive(d)'
    <2>1. now' = now /\ UNCHANGED envelope /\ (d # j.call => reply'[d] = reply[d])
      BY <1>5, HandleOthers DEF Inv, Same, Handle, HandlerRefuses, HandlerCommits,
         HandlerCommitsThenFails, ReplyTooLarge, EmitEvent, EmitFails, Crash
    <2>2. \/ UNCHANGED reply
          \/ \E code \in HandlerRefusals \cup {"OK", "INTERNAL"} : Finish(j, code)
          \/ RefuseUnbound(j.call)
      BY <1>5 DEF Handle, HandlerRefuses, HandlerCommits, HandlerCommitsThenFails, ReplyTooLarge, EmitEvent,
                  EmitFails, Crash
    <2>3. CASE UNCHANGED reply \/ d # j.call
      BY <1>1, <2>1, <2>3
    <2>4. CASE d = j.call /\ \E code \in HandlerRefusals \cup {"OK", "INTERNAL"} : Finish(j, code)
      BY <1>2, <2>1, <2>4, FinishAlive
    <2>5. CASE d = j.call /\ RefuseUnbound(j.call)
      <3>1. reply'[d].bound = FALSE /\ reply'[d].code = "UNTRUSTED_ENVELOPE"
        BY <2>5 DEF RefuseUnbound, Inv, TypeInv, TypeOK
      <3> QED
        BY <3>1 DEF Alive
    <2> QED
      BY <2>2, <2>3, <2>4, <2>5
  <1>6. CASE Tick \/ RotateGateway \/ RotateService \/ Settled \/ UNCHANGED vars
    BY <1>1, <1>6 DEF Tick, RotateGateway, RotateService, Settled, vars
  <1> QED
    BY <1>3, <1>4, <1>5, <1>6 DEF Next

TimeInv == Inv /\ EnvelopeInv /\ \A c \in Calls : Alive(c)

\* What is signed, and what waits in an inbox, is in time.
THEOREM Timely == Spec => []TimeInv
  <1>1. Init => TimeInv
    BY InitInv DEF TimeInv, Init, EnvelopeInv, Alive
  <1>2. TimeInv /\ [Next]_vars => TimeInv'
    BY NextInv, NextEnvelope, NextAlive DEF TimeInv
  <1> QED
    BY <1>1, <1>2, PTL DEF Spec

\* While the clocks are within the tolerance of each other, no envelope is
\* refused as expired before its deadline, and none as untrusted that was
\* read and signed with the service's secret (checkFreshness).
THEOREM NoLiveRefusal == Spec => []NoLiveRequestExpires
  <1>1. TimeInv => NoLiveRequestExpires
    BY DEF TimeInv, Alive, NoLiveRequestExpires
  <1> QED
    BY <1>1, Timely, PTL

\* No handler starts on an rpc later than the tolerance, and the drift, after
\* its deadline.
THEOREM StartsInTime == Spec => WorkStartsInTime
  <1>1. ASSUME TimeInv, [Next]_vars
        PROVE  [\A j \in jobs' \ jobs : j.at = "running" /\ IsRpc(j.call) =>
                   now < envelope[j.call].deadlineAt + CLOCK_SKEW + MaxDrift]_vars
    <2> SUFFICES ASSUME NEW j \in jobs' \ jobs, j.at = "running", IsRpc(j.call), Next
                 PROVE  now < envelope[j.call].deadlineAt + CLOCK_SKEW + MaxDrift
      BY <1>1
    <2>1. ASSUME NEW c \in Calls, DeliverRpc(c)
          PROVE  j.call = c /\ c \in rpc /\ HandleGates(envelope[c]) = "pass"
      BY <2>1 DEF DeliverRpc
    <2>2. ASSUME NEW c \in Calls, DeliverCommand(c) PROVE FALSE
      <3>1. j.call = c /\ cmd[c].state = "pending"
        BY <2>2 DEF DeliverCommand
      <3> QED
        BY <1>1, <3>1 DEF TimeInv, Inv, CallInv, KindInv
    <2>3. ASSUME NEW k \in jobs, Handle(k) PROVE FALSE
      <3>1. jobs' \subseteq jobs \cup {[k EXCEPT !.at = "emitting"]}
        BY <2>3 DEF Handle, HandlerRefuses, HandlerCommits, HandlerCommitsThenFails, ReplyTooLarge, EmitEvent,
                    EmitFails, Crash
      <3>2. [k EXCEPT !.at = "emitting"].at = "emitting"
        BY <1>1 DEF TimeInv, Inv, TypeInv, TypeOK, Jobs
      <3> QED
        BY <3>1, <3>2
    <2>4. \E c \in Calls : DeliverRpc(c) \/ DeliverCommand(c)
      BY <2>3, GatewayOthers, <1>1
         DEF Next, Deliver, DeliverUnreadable, AckWait, Expire, Tick, RotateGateway, RotateService, Settled,
             vars, serviceVars, TimeInv, Inv
    <2> QED
      BY <1>1, <2>1, <2>2, <2>4, Verdicts DEF TimeInv
  <1> QED
    BY <1>1, Timely, PTL DEF Spec, WorkStartsInTime
=============================================================================

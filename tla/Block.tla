-------------------------------- MODULE Block --------------------------------
(***************************************************************************)
(* The guardrail block: one call travelling from the gateway's dispatch    *)
(* over the bus to the owning service's handle and back                    *)
(* (packages/guardrail/src/gateway.ts and service.ts,                      *)
(* packages/transport/src/request.ts and serve.ts).                        *)
(*                                                                         *)
(* A step is what one process does between two awaits.  What dispatch gets *)
(* from its injected GatewayDeps (identity, rate limit verdict,            *)
(* entitlements) and what a handler does are inputs, chosen by \E.         *)
(* Time is in ticks of the gateway's clock; the service's clock differs    *)
(* from it by `drift`.  A message that is lost is one that is never taken. *)
(***************************************************************************)
EXTENDS Roles, Envelope, FiniteSets

CONSTANTS
    Calls,            \* the dispatches under way
    RequestId,        \* RequestId[c]: x-request-id of the HTTP request c came in;
                      \* the calls of one tRPC batch share it
    Ops,              \* the declared (resource, operation) pairs
    Rule,             \* Rule[o]: the OperationRule of o, its timeout in ticks
    Inputs,           \* the role names a body may carry, a subset of NamedRoles
    HandlerRefusals,  \* the codes handlers throw as ServiceError
    Reads,            \* the operations that write nothing; what they return may
                      \* be more than a message holds
    CLOCK_SKEW,       \* CLOCK_SKEW_MS in ticks
    MAX_TIMEOUT,      \* the longest declared timeout, in ticks
    MaxDrift,         \* how far apart the two clocks are at most
    MaxDeliver,       \* max_deliver of a durable consumer
    MaxAge,           \* max_age of the CMD stream in ticks
    Secrets,          \* the values ENVELOPE_SECRET takes over a rotation
    StartBy, MaxTime  \* bounds: last dispatch, last tick

\* What OperationRule's type allows, for any registry.
ASSUME RuleAssumption ==
    /\ Rule \in [Ops -> [minRole : ORG_ROLES, transport : {"rpc", "command"},
                         consumes : BOOLEAN, audit : BOOLEAN, timeout : Nat \ {0}]]
    /\ MAX_TIMEOUT \in Nat
    /\ \A o \in Ops : Rule[o].timeout <= MAX_TIMEOUT

\* Whatever writes is audited, and a command is sent to write.
ASSUME ReadAssumption ==
    \A o \in Reads : o \in Ops /\ Rule[o].transport = "rpc" /\ ~Rule[o].audit

ASSUME InputAssumption ==
    /\ Inputs \subseteq NamedRoles
    /\ HandlerRefusals \subseteq {"NOT_FOUND", "CONFLICT", "INVALID_INPUT", "PERMISSION_DENIED"}

\* The tolerance is meant to cover the distance between the two clocks.
ASSUME ClockAssumption ==
    /\ CLOCK_SKEW \in Nat
    /\ MaxDrift \in Nat
    /\ MaxDrift <= CLOCK_SKEW

ASSUME BoundAssumption ==
    /\ MaxDeliver \in Nat \ {0}
    /\ MaxAge \in Nat \ {0}
    /\ StartBy \in Nat
    /\ MaxTime \in Nat

VARIABLES
    now,        \* the gateway's clock
    drift,      \* the service's clock minus the gateway's
    secret,     \* ENVELOPE_SECRET of each process: [gateway, service]
    request,    \* request[c]: what the caller asked for, [op, named]
    stage,      \* stage[c]: where dispatch is suspended
    role,       \* role[c]: the role identify returned
    envelope,   \* envelope[c]: the signed envelope, once built
    answer,     \* answer[c]: what dispatch returned or threw
    rpc,        \* calls whose request message is on the bus
    reply,      \* reply[c]: the reply message waiting in c's inbox
    cmd,        \* cmd[c]: c's message in the CMD stream and its delivery count
    jobs,       \* handle invocations under way in the service
    committed,  \* committed[c]: how often c's handler ran to completion
    evt         \* calls whose event the EVT stream has stored

gatewayVars == <<request, stage, role, envelope, answer>>
busVars     == <<rpc, reply, cmd, evt>>
serviceVars == <<jobs, committed>>
clockVars   == <<now, drift, secret>>
vars == <<clockVars, gatewayVars, busVars, serviceVars>>

-----------------------------------------------------------------------------
(* Values *)

NoAnswer   == "none"
NoEnvelope == [none |-> "envelope"]
NoReply    == [none |-> "reply"]

Answers == ERROR_CODES \cup {"OK", "ACCEPTED"}

\* requestMeta and the signature, on what the two ends decide with.
Envelopes == [op : Ops, role : ORG_ROLES, named : Inputs, permissions : SUBSET Ops,
              issuedAt : Nat, deadlineAt : Nat, signedWith : Secrets]

\* `bound` is false for a refusal that could not name a request ("unknown").
Replies == [code : ERROR_CODES \cup {"OK"}, bound : BOOLEAN, signedWith : Secrets]

\* A command is pending (to deliver), in flight (delivered, not acknowledged),
\* acked, dead (out of deliveries) or expired (dropped by the stream for its
\* age); in the last three it is never handed out again.
CommandStates == {"absent", "duplicate", "pending", "inflight", "acked", "dead", "expired"}

Jobs == [call : Calls, attempt : 1..MaxDeliver, at : {"running", "emitting"}]

IsRpc(c)     == Rule[request[c].op].transport = "rpc"
IsCommand(c) == Rule[request[c].op].transport = "command"

Init ==
    /\ now = 0
    /\ drift \in -MaxDrift..MaxDrift
    /\ \E s \in Secrets : secret = [gateway |-> s, service |-> s]
    /\ request \in [Calls -> [op : Ops, named : Inputs]]
    /\ stage = [c \in Calls |-> "idle"]
    /\ role = [c \in Calls |-> LOWEST_ROLE]
    /\ envelope = [c \in Calls |-> NoEnvelope]
    /\ answer = [c \in Calls |-> NoAnswer]
    /\ rpc = {}
    /\ reply = [c \in Calls |-> NoReply]
    /\ cmd = [c \in Calls |-> [state |-> "absent", deliveries |-> 0]]
    /\ jobs = {}
    /\ committed = [c \in Calls |-> 0]
    /\ evt = {}

-----------------------------------------------------------------------------
(* The gateway: dispatch *)

permissionsForRole(r) == {o \in Ops : roleAtLeast(r, Rule[o].minRole)}

\* dispatch returns or throws: the caller has its answer.
Answer(c, code) ==
    /\ answer' = [answer EXCEPT ![c] = code]
    /\ stage' = [stage EXCEPT ![c] = "answered"]

\* Gates 3, 4 and 4b on the identity's role.
RoleGates(c, r) ==
    /\ roleAtLeast(r, Rule[request[c].op].minRole)
    /\ request[c].op \in permissionsForRole(r)
    /\ ~refusedRole(request[c].named, r)

\* Gates 1 to 4b.  identify may also throw, which reaches the caller as it is.
Identify(c) ==
    /\ stage[c] = "idle"
    /\ now <= StartBy
    /\ \/ /\ \E code \in {"INTERNAL", "UNAUTHORIZED", "NO_ACTIVE_ORG"} : Answer(c, code)
          /\ UNCHANGED role
       \/ \E r \in ORG_ROLES :
            /\ role' = [role EXCEPT ![c] = r]
            /\ IF RoleGates(c, r)
               THEN stage' = [stage EXCEPT ![c] = "rateLimit"] /\ UNCHANGED answer
               ELSE Answer(c, "PERMISSION_DENIED")
    /\ UNCHANGED <<clockVars, request, envelope, busVars, serviceVars>>

\* Gate 5.
RateLimit(c) ==
    /\ stage[c] = "rateLimit"
    /\ \/ stage' = [stage EXCEPT ![c] = "entitlements"] /\ UNCHANGED answer
       \/ Answer(c, "RATE_LIMITED")
    /\ UNCHANGED <<clockVars, request, role, envelope, busVars, serviceVars>>

\* Step 7: the decision is signed into the envelope.
Sign(c) ==
    LET r == role[c]
    IN  envelope' = [envelope EXCEPT ![c] =
            [op |-> request[c].op, role |-> r, named |-> request[c].named,
             permissions |-> permissionsForRole(r), issuedAt |-> now,
             deadlineAt |-> now + Rule[request[c].op].timeout,
             signedWith |-> secret.gateway]]

\* Gate 6 refuses: only an operation that consumes is held against the plan.
UpgradeRequired(c) ==
    /\ stage[c] = "entitlements"
    /\ Rule[request[c].op].consumes
    /\ Answer(c, "UPGRADE_REQUIRED")
    /\ UNCHANGED <<clockVars, request, role, envelope, busVars, serviceVars>>

\* Gate 6 passes, and step 8 puts the request on the bus and waits.
SendRpc(c) ==
    /\ stage[c] = "entitlements"
    /\ IsRpc(c)
    /\ Sign(c)
    /\ rpc' = rpc \cup {c}
    /\ stage' = [stage EXCEPT ![c] = "waiting"]
    /\ UNCHANGED <<clockVars, request, role, answer, reply, cmd, evt, serviceVars>>

\* The stream, or its consumer, has c's message in this state from now on.
Mark(c, state, deliveries) ==
    cmd' = [cmd EXCEPT ![c] = [state |-> state, deliveries |-> deliveries]]

\* The CMD stream drops a message whose msgID, the request id, it has seen
\* inside its duplicate window.
SeenByCmd(c) ==
    \E d \in Calls \ {c} :
        RequestId[d] = RequestId[c] /\ cmd[d].state \notin {"absent", "duplicate"}

\* ... or publishes the command: the server stores it, drops it as a
\* duplicate, or never gets it.
SendCommand(c) ==
    /\ stage[c] = "entitlements"
    /\ IsCommand(c)
    /\ Sign(c)
    /\ \/ /\ stage' = [stage EXCEPT ![c] = "publishing"]
          /\ Mark(c, IF SeenByCmd(c) THEN "duplicate" ELSE "pending", 0)
          /\ UNCHANGED answer
       \/ Answer(c, "INTERNAL") /\ UNCHANGED cmd
    /\ UNCHANGED <<clockVars, request, role, rpc, reply, evt, serviceVars>>

\* The publish acknowledgement arrives, or the publish call gives up on it.
PublishAck(c) ==
    /\ stage[c] = "publishing"
    /\ \E code \in {"ACCEPTED", "INTERNAL"} : Answer(c, code)
    /\ UNCHANGED <<clockVars, request, role, envelope, busVars, serviceVars>>

\* toFailure: the codes the gateway passes on, everything else is INTERNAL.
toFailure(code) ==
    IF code \in {"UPGRADE_REQUIRED", "PERMISSION_DENIED", "NOT_FOUND", "CONFLICT",
                 "INVALID_INPUT", "DEADLINE_EXCEEDED", "UNTRUSTED_ENVELOPE",
                 "UNAUTHORIZED", "NO_ACTIVE_ORG", "SERVICE_UNAVAILABLE"}
    THEN code ELSE "INTERNAL"

\* Steps 9 and 10: what dispatch makes of a reply.  A dispatch verifies with
\* the secret its own process signed with.
ReplyVerdict(c, r) ==
    IF ~r.bound \/ ~verify(r.signedWith, envelope[c].signedWith) THEN "UNTRUSTED_ENVELOPE"
    ELSE IF r.code = "OK" THEN "OK" ELSE toFailure(r.code)

\* Slip: a late reply corrects what the caller was told.
ReceiveLateReply(c) ==
    /\ stage[c] \in {"waiting", "answered"}
    /\ reply[c] # NoReply
    /\ Answer(c, ReplyVerdict(c, reply[c]))
    /\ reply' = [reply EXCEPT ![c] = NoReply]
    /\ UNCHANGED <<clockVars, request, role, envelope, rpc, cmd, evt, serviceVars>>

ReceiveReply(c) ==
    /\ stage[c] = "waiting"
    /\ reply[c] # NoReply
    /\ Answer(c, ReplyVerdict(c, reply[c]))
    /\ reply' = [reply EXCEPT ![c] = NoReply]
    /\ UNCHANGED <<clockVars, request, role, envelope, rpc, cmd, evt, serviceVars>>

\* Slip: the transport retries a request that timed out.
TimeOutRetries(c) ==
    /\ stage[c] = "waiting"
    /\ now >= envelope[c].deadlineAt
    /\ Sign(c)
    /\ rpc' = rpc \cup {c}
    /\ UNCHANGED <<clockVars, request, stage, role, answer, reply, cmd, evt, serviceVars>>

\* Slip: the timer is dropped once a service has taken the request.
TimeOutOnlyUndelivered(c) ==
    /\ stage[c] = "waiting"
    /\ c \in rpc
    /\ now >= envelope[c].deadlineAt
    /\ Answer(c, "SERVICE_UNAVAILABLE")
    /\ UNCHANGED <<clockVars, request, role, envelope, busVars, serviceVars>>

\* The request's timer fires: whatever happens to the request from here on,
\* the caller was told the service did not respond.
TimeOut(c) ==
    /\ stage[c] = "waiting"
    /\ now >= envelope[c].deadlineAt
    /\ Answer(c, "SERVICE_UNAVAILABLE")
    /\ UNCHANGED <<clockVars, request, role, envelope, busVars, serviceVars>>

\* Nobody subscribes to the subject: the server says so at once.
NoResponders(c) ==
    /\ stage[c] = "waiting"
    /\ c \in rpc
    /\ rpc' = rpc \ {c}
    /\ Answer(c, "SERVICE_UNAVAILABLE")
    /\ UNCHANGED <<clockVars, request, role, envelope, reply, cmd, evt, serviceVars>>

-----------------------------------------------------------------------------
(* The service: handle *)

Clock == now + drift

\* The gates of handle, in order; "pass" hands the payload to the handler.
HandleGates(e) ==
    LET freshness == checkFreshness(e, Rule[e.op].transport, Clock, CLOCK_SKEW, MAX_TIMEOUT)
    IN  IF ~verify(e.signedWith, secret.service) THEN "UNTRUSTED_ENVELOPE"
        ELSE IF freshness # Fresh THEN freshness
        ELSE IF e.op \notin e.permissions \/ refusedRole(e.named, e.role)
        THEN "PERMISSION_DENIED"
        ELSE "pass"

Respond(c, code) ==
    reply' = [reply EXCEPT ![c] =
        [code |-> code, bound |-> TRUE, signedWith |-> secret.service]]

\* serveRpc hands a request to handle: a signed refusal, or the handler runs.
DeliverRpc(c) ==
    /\ c \in rpc
    /\ rpc' = rpc \ {c}
    /\ LET verdict == HandleGates(envelope[c])
       IN  IF verdict = "pass"
           THEN /\ jobs' = jobs \cup {[call |-> c, attempt |-> 1, at |-> "running"]}
                /\ UNCHANGED reply
           ELSE Respond(c, verdict) /\ UNCHANGED jobs
    /\ UNCHANGED <<clockVars, gatewayVars, cmd, evt, committed>>

\* The refusal signed when the service booted, which names no request.
RefuseUnbound(c) ==
    reply' = [reply EXCEPT ![c] = [code |-> "UNTRUSTED_ENVELOPE", bound |-> FALSE,
                                   signedWith |-> secret.service]]

\* Bytes this build cannot read as an envelope.
DeliverUnreadable(c) ==
    /\ c \in rpc
    /\ rpc' = rpc \ {c}
    /\ RefuseUnbound(c)
    /\ UNCHANGED <<clockVars, gatewayVars, cmd, evt, serviceVars>>

\* Slip: one delivery too many.
NakOneTooMany(c, deliveries) ==
    Mark(c, IF deliveries <= MaxDeliver THEN "pending" ELSE "dead", deliveries)

\* A refused or failed delivery is nak'ed: handed out again while deliveries
\* are left.  Nothing is configured to receive it afterwards.
Nak(c, deliveries) ==
    Mark(c, IF deliveries < MaxDeliver THEN "pending" ELSE "dead", deliveries)

\* The durable consumer takes a pending command.
DeliverCommand(c) ==
    LET n == cmd[c].deliveries + 1
    IN  /\ cmd[c].state = "pending"
        /\ IF HandleGates(envelope[c]) = "pass"
           THEN /\ jobs' = jobs \cup {[call |-> c, attempt |-> n, at |-> "running"]}
                /\ Mark(c, "inflight", n)
           ELSE Nak(c, n) /\ UNCHANGED jobs
        /\ UNCHANGED <<clockVars, gatewayVars, rpc, reply, evt, committed>>

\* ack_wait runs out on an unacknowledged command: the consumer crashed, its
\* acknowledgement was lost, or the handler is still running somewhere.
AckWait(c) ==
    /\ cmd[c].state = "inflight"
    /\ Nak(c, cmd[c].deliveries)
    /\ UNCHANGED <<clockVars, gatewayVars, rpc, reply, evt, serviceVars>>

\* The stream drops a command that is older than max_age, wherever it is.
Expire(c) ==
    /\ cmd[c].state \in {"pending", "inflight"}
    /\ now >= envelope[c].issuedAt + MaxAge
    /\ Mark(c, "expired", cmd[c].deliveries)
    /\ UNCHANGED <<clockVars, gatewayVars, rpc, reply, evt, serviceVars>>

\* Slip: a delivery is acknowledged however the handler ended.
FinishAlwaysAcks(j, code) ==
    LET c == j.call
    IN  IF IsRpc(c)
        THEN Respond(c, code) /\ UNCHANGED cmd
        ELSE /\ UNCHANGED reply
             /\ IF cmd[c].state \in {"pending", "inflight"}
                THEN Mark(c, "acked", cmd[c].deliveries)
                ELSE UNCHANGED cmd

\* The end of a handle invocation: the reply of an rpc, the ack or nak of a
\* command.  JetStream takes a late ack for whichever delivery is open.
Finish(j, code) ==
    LET c == j.call
    IN  IF IsRpc(c)
        THEN Respond(c, code) /\ UNCHANGED cmd
        ELSE /\ UNCHANGED reply
             /\ IF code = "OK" /\ cmd[c].state \in {"pending", "inflight"}
                THEN Mark(c, "acked", cmd[c].deliveries)
                ELSE IF code # "OK" /\ cmd[c].state = "inflight"
                     THEN Nak(c, cmd[c].deliveries)
                     ELSE UNCHANGED cmd

\* The handler throws: nothing was written - but what an organisation already
\* gone had left behind, which organization.delete removes before NOT_FOUND.
HandlerRefuses(j) ==
    /\ j.at = "running"
    /\ jobs' = jobs \ {j}
    /\ \E code \in HandlerRefusals \cup {"INTERNAL"} : Finish(j, code)
    /\ UNCHANGED <<clockVars, gatewayVars, rpc, evt, committed>>

\* Slip: the event goes out before the handler has run.
HandlerEmitsFirst(j) ==
    /\ j.at = "running"
    /\ IF Rule[request[j.call].op].audit
       THEN /\ jobs' = (jobs \ {j}) \cup {[j EXCEPT !.at = "emitting"]}
            /\ UNCHANGED <<reply, cmd>>
       ELSE jobs' = jobs \ {j} /\ Finish(j, "OK")
    /\ UNCHANGED <<clockVars, gatewayVars, rpc, evt, committed>>

\* The handler's writes are in.  An audited operation goes on to emit its
\* event, any other one answers.
HandlerCommits(j) ==
    /\ j.at = "running"
    /\ committed' = [committed EXCEPT ![j.call] = @ + 1]
    /\ IF Rule[request[j.call].op].audit
       THEN /\ jobs' = (jobs \ {j}) \cup {[j EXCEPT !.at = "emitting"]}
            /\ UNCHANGED <<reply, cmd>>
       ELSE jobs' = jobs \ {j} /\ Finish(j, "OK")
    /\ UNCHANGED <<clockVars, gatewayVars, rpc, evt>>

\* A read has its result, but it is more than a message holds: responding
\* throws, and the refusal that names no request goes out instead.
ReplyTooLarge(j) ==
    /\ j.at = "running"
    /\ request[j.call].op \in Reads
    /\ committed' = [committed EXCEPT ![j.call] = @ + 1]
    /\ jobs' = jobs \ {j}
    /\ RefuseUnbound(j.call)
    /\ UNCHANGED <<clockVars, gatewayVars, rpc, cmd, evt>>

\* Slip: a handler that writes first and finds the conflict afterwards.
HandlerCommitsThenRefuses(j) ==
    /\ j.at = "running"
    /\ committed' = [committed EXCEPT ![j.call] = @ + 1]
    /\ jobs' = jobs \ {j}
    /\ Finish(j, "CONFLICT")
    /\ UNCHANGED <<clockVars, gatewayVars, rpc, evt>>

\* The handler's writes are in, but its output does not parse or the database
\* connection broke on the way back: the catch answers INTERNAL, no event.
HandlerCommitsThenFails(j) ==
    /\ j.at = "running"
    /\ committed' = [committed EXCEPT ![j.call] = @ + 1]
    /\ jobs' = jobs \ {j}
    /\ Finish(j, "INTERNAL")
    /\ UNCHANGED <<clockVars, gatewayVars, rpc, evt>>

\* The EVT stream stores an event unless it holds one with the same msgID,
\* <request id>:evt.
StoreEvent(c) ==
    evt' = IF \E d \in evt : RequestId[d] = RequestId[c] THEN evt ELSE evt \cup {c}

EmitEvent(j) ==
    /\ j.at = "emitting"
    /\ StoreEvent(j.call)
    /\ jobs' = jobs \ {j}
    /\ Finish(j, "OK")
    /\ UNCHANGED <<clockVars, gatewayVars, rpc, committed>>

\* Slip: a failed publish is logged and swallowed.
EmitFailsQuietly(j) ==
    /\ j.at = "emitting"
    /\ StoreEvent(j.call) \/ UNCHANGED evt
    /\ jobs' = jobs \ {j}
    /\ Finish(j, "OK")
    /\ UNCHANGED <<clockVars, gatewayVars, rpc, committed>>

\* publishEvent throws, with the event stored or not: the catch answers
\* INTERNAL for work that is done.
EmitFails(j) ==
    /\ j.at = "emitting"
    /\ StoreEvent(j.call) \/ UNCHANGED evt
    /\ jobs' = jobs \ {j}
    /\ Finish(j, "INTERNAL")
    /\ UNCHANGED <<clockVars, gatewayVars, rpc, committed>>

\* The replica dies: nobody answers, nobody acknowledges.
Crash(j) ==
    /\ jobs' = jobs \ {j}
    /\ UNCHANGED <<clockVars, gatewayVars, busVars, committed>>

-----------------------------------------------------------------------------
(* The environment *)

Dispatching(c) == stage[c] \in {"rateLimit", "entitlements"}

\* Every dispatch is on the bus by StartBy, so that its deadline is inside
\* the horizon.
Tick ==
    /\ now < MaxTime
    /\ now < StartBy \/ \A c \in Calls : ~Dispatching(c)
    /\ now' = now + 1
    /\ UNCHANGED <<drift, secret, gatewayVars, busVars, serviceVars>>

\* A process restarts with another ENVELOPE_SECRET.  Rotation moves both to
\* it, one after the other; the service loses what it was doing.
RotateGateway ==
    /\ secret.gateway = secret.service
    /\ \E s \in Secrets \ {secret.gateway} : secret' = [secret EXCEPT !.gateway = s]
    /\ UNCHANGED <<now, drift, gatewayVars, busVars, serviceVars>>

RotateService ==
    /\ secret.gateway # secret.service
    /\ secret' = [secret EXCEPT !.service = secret.gateway]
    /\ jobs' = {}
    /\ UNCHANGED <<now, drift, gatewayVars, busVars, committed>>

\* Everything that was asked has come to rest.
Settled ==
    /\ \A c \in Calls : stage[c] \in {"idle", "answered"}
    /\ rpc = {} /\ jobs = {}
    /\ \A c \in Calls : cmd[c].state \notin {"pending", "inflight"}
    /\ UNCHANGED vars

Gateway(c) ==
    \/ Identify(c)   \/ RateLimit(c)   \/ UpgradeRequired(c)
    \/ SendRpc(c)    \/ SendCommand(c) \/ PublishAck(c)
    \/ ReceiveReply(c) \/ TimeOut(c)   \/ NoResponders(c)

Deliver(c) ==
    \/ DeliverRpc(c) \/ DeliverUnreadable(c) \/ DeliverCommand(c) \/ AckWait(c) \/ Expire(c)

Handle(j) ==
    \/ HandlerRefuses(j) \/ HandlerCommits(j) \/ HandlerCommitsThenFails(j)
    \/ ReplyTooLarge(j)  \/ EmitEvent(j)      \/ EmitFails(j)      \/ Crash(j)

\* Between its first await and its last, a dispatch is the gateway's to resume.
Resume(c) == stage[c] # "idle" /\ Gateway(c)

Next ==
    \/ \E c \in Calls : Gateway(c) \/ Deliver(c)
    \/ \E j \in jobs : Handle(j)
    \/ Tick \/ RotateGateway \/ RotateService
    \/ Settled

Spec == Init /\ [][Next]_vars

(***************************************************************************)
(* The gateway's event loop resumes a dispatch whose await is over, time   *)
(* passes, and a command that is neither acknowledged nor out of           *)
(* deliveries is handed out again or, while nobody takes it, drops out of  *)
(* the stream for its age.  Nothing obliges a service to answer an rpc,    *)
(* nor a handler to succeed.                                               *)
(***************************************************************************)
Fairness ==
    /\ WF_vars(Tick)
    /\ \A c \in Calls : WF_vars(Resume(c))
                       /\ WF_vars(DeliverCommand(c) \/ AckWait(c) \/ Expire(c))

FairSpec == Spec /\ Fairness

-----------------------------------------------------------------------------
(* Properties *)

TypeOK ==
    /\ now \in Nat
    /\ drift \in -MaxDrift..MaxDrift
    /\ secret \in [gateway : Secrets, service : Secrets]
    /\ request \in [Calls -> [op : Ops, named : Inputs]]
    /\ stage \in [Calls -> {"idle", "rateLimit", "entitlements", "publishing",
                            "waiting", "answered"}]
    /\ role \in [Calls -> ORG_ROLES]
    /\ envelope \in [Calls -> Envelopes \cup {NoEnvelope}]
    /\ answer \in [Calls -> Answers \cup {NoAnswer}]
    /\ rpc \subseteq Calls
    /\ reply \in [Calls -> Replies \cup {NoReply}]
    /\ cmd \in [Calls -> [state : CommandStates, deliveries : 0..MaxDeliver]]
    /\ jobs \subseteq Jobs
    /\ committed \in [Calls -> Nat]
    /\ evt \subseteq Calls

\* A handle invocation for c is under way.
Working(c) == \E j \in jobs : j.call = c

\* No handler runs, and no write happens, for a caller whose role is below the
\* one the registry asks for, or who hands out a role above their own - however
\* late the bus delivers the envelope (gateway gates 3-4b, service gates 5-5b).
NoUnauthorisedWork ==
    \A c \in Calls : committed[c] > 0 \/ Working(c) =>
        /\ ROLE_RANK[role[c]] >= ROLE_RANK[Rule[request[c].op].minRole]
        /\ request[c].named # NoRole =>
              request[c].named \in ORG_ROLES /\ ROLE_RANK[request[c].named] <= ROLE_RANK[role[c]]

\* The caller is told "done" only when the writes are in, once, and the EVT
\* stream holds an event under the call's request id (service.ts answers ok
\* after publishEvent, gateway.ts accepts only a bound, signed ok).
OkMeansDone ==
    \A c \in Calls : answer[c] = "OK" =>
        /\ committed[c] = 1
        /\ Rule[request[c].op].audit => \E d \in evt : RequestId[d] = RequestId[c]

CleanRefusals == ERROR_CODES \ {"SERVICE_UNAVAILABLE", "INTERNAL"}

\* A coded refusal is final: nothing was written for the call and nothing that
\* is still on the bus, in the stream or in a service can write it later; only
\* a read may have run.  The two codes left out are the ones that tell the
\* caller nobody knows.
RefusalMeansNotDone ==
    \A c \in Calls : answer[c] \in CleanRefusals =>
        /\ committed[c] = 0 \/ request[c].op \in Reads
        /\ ~Working(c) /\ c \notin rpc /\ cmd[c].state = "absent"

\* An rpc is never executed twice, whatever times out, is lost or answers late:
\* the transport does not retry.
RpcAtMostOnce ==
    \A c \in Calls : IsRpc(c) =>
        committed[c] + Cardinality({j \in jobs : j.call = c /\ j.at = "running"}) <= 1

\* The EVT stream holds facts only: no event without its write.
EventsAreFacts == \A c \in evt : committed[c] > 0

\* While the two clocks are within the tolerance of each other, a service
\* refuses an envelope as expired only when its caller's deadline has passed,
\* and as untrusted only when it could not read it or holds another secret
\* (checkFreshness against CLOCK_SKEW_MS).
NoLiveRequestExpires ==
    \A c \in Calls : reply[c] # NoReply =>
        /\ reply[c].code = "DEADLINE_EXCEEDED" => now >= envelope[c].deadlineAt
        /\ reply[c].code = "UNTRUSTED_ENVELOPE" /\ reply[c].bound =>
              reply[c].signedWith # envelope[c].signedWith

\* A handler never starts on an rpc later than the tolerance after its
\* deadline, by however much the service's clock runs behind.
WorkStartsInTime ==
    [][\A j \in jobs' \ jobs : j.at = "running" /\ IsRpc(j.call) =>
            now < envelope[j.call].deadlineAt + CLOCK_SKEW + MaxDrift]_vars

\* The promise to a caller, in spite of everything between the gateway and the
\* handler: see Dispatch.  In particular an answer is never taken back, and a
\* command is performed at most max_deliver times.
Outcome(code) ==
    CASE code = NoAnswer              -> "open"
      [] code \in CleanRefusals       -> "refused"
      [] code \in {"OK", "ACCEPTED"}  -> code
      [] OTHER                        -> "unknown"

Promise == INSTANCE Dispatch WITH
    role      <- [c \in Calls |-> IF stage[c] = "idle" THEN "not identified" ELSE role[c]],
    outcome   <- [c \in Calls |-> Outcome(answer[c])],
    performed <- committed,
    recorded  <- evt

ImplementsDispatch == Promise!Spec

\* Every dispatch that got past the session lookup is answered, even when the
\* service never is: the timer of the request sees to it.
EveryDispatchAnswered ==
    \A c \in Calls : stage[c] # "idle" ~> stage[c] = "answered"

\* An accepted command is executed, uses up its deliveries or outlives the
\* stream's max_age: it does not stay where nothing happens to it.
AcceptedSettles ==
    \A c \in Calls : answer[c] = "ACCEPTED" ~>
                        (committed[c] > 0 \/ cmd[c].state \in {"dead", "expired"})

-----------------------------------------------------------------------------
(* What the repository says of the block and the code does not do *)

\* README.md: a service succeeds and the event does the rest - a call answered
\* "done" has an event of its own.
OkMeansRecorded ==
    \A c \in Calls : answer[c] = "OK" /\ Rule[request[c].op].audit => c \in evt
=============================================================================

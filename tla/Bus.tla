-------------------------------- MODULE Bus --------------------------------
(***************************************************************************)
(* Who may say what on the bus: the permissions and keys                   *)
(* infra/nats/generate-auth.ts derives from the registry, the files it     *)
(* leaves them in, the connection each process opens with its credential   *)
(* (packages/transport/src/connection.ts) and the steps of the platform    *)
(* that the server then lets through or refuses: a dispatch, a service's   *)
(* subscriptions and consumers, its reply, its event, an acknowledgement.  *)
(*                                                                         *)
(* nats-server is external.  It knows the auth.conf it started with; a     *)
(* process may be started with another process's credential, from a        *)
(* registry newer than that file, or while the server is down.             *)
(***************************************************************************)
EXTENDS Registry

CONSTANTS
    Programs,     \* the processes: the gateway and services
    Builds,       \* the sets of permissions the registry may declare
    FirstBuild,   \* the one everything was generated from
    USERS,        \* the credentials, in the order they are written
    Shared,       \* the credentials another process may be started with by mistake
    Waits,        \* bound: how long a request may have waited, in milliseconds
    MaxSeed,      \* bound: keys ever made for one user
    MaxBoots      \* bound: starts of a process

ASSUME BuildAssumption == FirstBuild \in Builds /\ \A b \in Builds : b \subseteq PERMISSIONS

ASSUME BoundAssumption == MaxSeed \in Nat \ {0} /\ MaxBoots \in Nat /\ Waits \subseteq Nat

\* Each process has a credential of its name.
ASSUME UserAssumption ==
    /\ USERS \in Seq(STRING)
    /\ "gateway" \in Programs
    /\ Programs \cup Shared \subseteq {USERS[i] : i \in DOMAIN USERS}

VARIABLES
    source,   \* what the checked-out registry declares
    gen,      \* the run of the generator
    nk, env,  \* its seed and env file of each user, as the number of the key
    conf,     \* auth.conf: the key and, through the build, the permissions of each user
    server,   \* the auth.conf the server started with, and whether it is up
    streams,  \* the streams that were made
    process,  \* each program's process
    boots,    \* starts so far
    call      \* one dispatch on its way, and who acted on it

files == <<nk, env, conf>>
vars == <<source, gen, files, server, streams, process, boots, call>>

Users == {USERS[i] : i \in DOMAIN USERS}
Stopped == [up |-> FALSE, barred |-> "no"]
NoCall == [pc |-> "none"]
Services == Programs \ {"gateway"}

-----------------------------------------------------------------------------
(* Permissions.  A subject is a tuple; a pattern is the set of its subjects. *)

routesOf(build) == {r \in ROUTES : <<r.resource, r.operation>> \in build}

owned(service, build) == {r \in routesOf(build) : r.owner = service}

inbox(user) == <<"_INBOX", user>>
Ack(stream) == <<"$JS.ACK", stream>>
JS_API_INFO == <<"$JS.API.INFO">>

\* What a pull consumer on one stream has to be able to ask for.
consumerApi(stream) ==
    {<<"$JS.API", api, stream>> : api \in {"STREAM.INFO", "CONSUMER.CREATE",
        "CONSUMER.DURABLE.CREATE", "CONSUMER.INFO", "CONSUMER.MSG.NEXT"}}

streamApi(stream) ==
    {<<"$JS.API", api, stream>> : api \in {"STREAM.CREATE", "STREAM.UPDATE", "STREAM.INFO"}}

streamOf(kind) == CHOOSE s \in DOMAIN STREAMS : STREAMS[s].subjects = kind

\* The trail belongs to the owner of auditLog, the meter to that of billing.
EVENT_CONSUMERS == {RESOURCES["auditLog"].owner, RESOURCES["billing"].owner}

consumed(service, build) ==
    {streamOf("cmd") : r \in {r \in owned(service, build) : r.transport = "command"}}
      \cup {streamOf("evt") : s \in EVENT_CONSUMERS \cap {service}}

Permissions(publish, subscribe, allowResponses) ==
    [publish |-> publish, subscribe |-> subscribe, allowResponses |-> allowResponses]

gatewayUser(build) ==
    Permissions({r.subject : r \in routesOf(build)}, {inbox("gateway")}, FALSE)

\* Slip: the filter on the owner is missing.
serviceUserOfAll(service, build) ==
    LET serves == {r.subject : r \in {r \in routesOf(build) : r.transport = "rpc"}}
        emits  == {r.event : r \in routesOf(build)} \ {NoSubject}
    IN  Permissions(emits \cup {JS_API_INFO}
                      \cup UNION {consumerApi(s) \cup {Ack(s)} : s \in consumed(service, build)},
                    serves \cup {inbox(service)}, serves # {})

\* Slip: what is not audited is not served.
serviceUserOfAudited(service, build) ==
    LET audited == {r \in owned(service, build) : r.event # NoSubject}
        serves == {r.subject : r \in {r \in audited : r.transport = "rpc"}}
        reads  == consumed(service, build)
    IN  Permissions({r.event : r \in audited} \cup {JS_API_INFO}
                      \cup UNION {consumerApi(s) \cup {Ack(s)} : s \in reads},
                    serves \cup {inbox(service)}, serves # {})

\* "$JS.ACK.>" names no stream: it covers those of any.
serviceUser(service, build) ==
    LET serves == {r.subject : r \in {r \in owned(service, build) : r.transport = "rpc"}}
        emits  == {r.event : r \in owned(service, build)} \ {NoSubject}
        reads  == consumed(service, build)
        jetstream == IF reads = {} THEN {}
                     ELSE {JS_API_INFO} \cup {Ack(s) : s \in DOMAIN STREAMS}
                            \cup UNION {consumerApi(s) : s \in reads}
    IN  Permissions(emits \cup jetstream, serves \cup {inbox(service)}, serves # {})

bootstrapUser ==
    Permissions({JS_API_INFO} \cup UNION {streamApi(s) : s \in DOMAIN STREAMS},
                {inbox("bootstrap")}, FALSE)

observerUser(build) ==
    Permissions({}, ({r.event : r \in routesOf(build)} \ {NoSubject}) \cup {inbox("observer")}, FALSE)

permissionsOf(user, build) ==
    CASE user = "gateway"   -> gatewayUser(build)
      [] user = "observer"  -> observerUser(build)
      [] user = "bootstrap" -> bootstrapUser
      [] OTHER              -> serviceUser(user, build)

\* allow_responses: one reply, for 30 seconds.
ReplyWindow == 30000

-----------------------------------------------------------------------------
(* The generator: for each user the seed, then the env file; auth.conf last *)

Edit ==
    /\ \E b \in Builds : source \subseteq b /\ source # b /\ source' = b
    /\ UNCHANGED <<gen, files, server, streams, process, boots, call>>

Generate ==
    /\ gen.pc = "idle"
    /\ \E rotate \in BOOLEAN : gen' = [pc |-> "seed", at |-> 1, rotate |-> rotate]
    /\ UNCHANGED <<source, files, server, streams, process, boots, call>>

\* loadOrCreateSeed
WriteSeed ==
    /\ gen.pc = "seed" /\ gen.at \in DOMAIN USERS
    /\ \/ ~gen.rotate /\ UNCHANGED nk
       \/ /\ gen.rotate /\ nk[USERS[gen.at]] < MaxSeed
          /\ nk' = [nk EXCEPT ![USERS[gen.at]] = @ + 1]
    /\ gen' = [gen EXCEPT !.pc = "env"]
    /\ UNCHANGED <<source, env, conf, server, streams, process, boots, call>>

WriteEnv ==
    /\ gen.pc = "env"
    /\ env' = [env EXCEPT ![USERS[gen.at]] = nk[USERS[gen.at]]]
    /\ gen' = [gen EXCEPT !.pc = "seed", !.at = @ + 1]
    /\ UNCHANGED <<source, nk, conf, server, streams, process, boots, call>>

\* Slip: auth.conf is written as the keys are.
WriteConfFirst ==
    /\ gen.pc = "env" \/ (gen.pc = "seed" /\ gen.at \notin DOMAIN USERS)
    /\ conf' = [keys |-> nk, build |-> source]
    /\ gen' = IF gen.pc = "env" THEN gen ELSE [gen EXCEPT !.pc = "idle"]
    /\ UNCHANGED <<source, nk, env, server, streams, process, boots, call>>

WriteConf ==
    /\ gen.pc = "seed" /\ gen.at \notin DOMAIN USERS
    /\ conf' = [keys |-> nk, build |-> source]
    /\ gen' = [gen EXCEPT !.pc = "idle"]
    /\ UNCHANGED <<source, nk, env, server, streams, process, boots, call>>

Interrupt ==
    /\ gen.pc # "idle"
    /\ gen' = [gen EXCEPT !.pc = "idle"]
    /\ UNCHANGED <<source, files, server, streams, process, boots, call>>

\* --check: what the generator would write now is what is there.
checkPasses == conf.build = source /\ conf.keys = nk

-----------------------------------------------------------------------------
(* Connections *)

\* A key the server knows for that user.
known(user, seed, at) == at.keys[user] = seed

grants(p) == permissionsOf(process[p].user, server.build)

mayPublish(p, subject) == subject \in grants(p).publish

\* inboxPrefix is made from the user's name: replies and publish acknowledgements.
mayListen(p) == inbox(process[p].user) \in grants(p).subscribe

\* A process that needs nothing forgiven: its own credential, and a registry
\* whose permissions the server was given.
matches(p) == process[p].user = p /\ process[p].build \subseteq server.build

\* Started again with the auth.conf of now.  A client whose key is gone is let
\* in no more; nothing in the code opens another connection.
ServerStarts ==
    /\ ~server.up
    /\ server' = [up |-> TRUE, keys |-> conf.keys, build |-> conf.build]
    /\ process' = [p \in Programs |->
         IF process[p].up /\ process[p].link = "open" /\ ~known(process[p].user, process[p].seed, conf)
         THEN [process[p] EXCEPT !.link = "dead"] ELSE process[p]]
    /\ UNCHANGED <<source, gen, files, streams, boots, call>>

\* What is on its way is lost.
ServerStops ==
    /\ server.up
    /\ server' = [server EXCEPT !.up = FALSE]
    /\ call' = NoCall
    /\ UNCHANGED <<source, gen, files, streams, process, boots>>

\* scripts/bootstrap-streams.ts: ensureStreams
Bootstrap ==
    /\ server.up /\ known("bootstrap", env["bootstrap"], server)
    /\ {JS_API_INFO} \cup UNION {streamApi(s) : s \in DOMAIN STREAMS}
         \subseteq permissionsOf("bootstrap", server.build).publish
    /\ streams' = DOMAIN STREAMS
    /\ UNCHANGED <<source, gen, files, server, process, boots, call>>

Process(user, link, serving) ==
    [up |-> TRUE, user |-> user, seed |-> env[user], build |-> source,
     link |-> link, serving |-> serving, early |-> ~(source \subseteq server.build)]

served(service, build) == {r.subject : r \in {r \in owned(service, build) : r.transport = "rpc"}}

\* consume: jsm, consumers.add, consumers.get, consume.
ConsumerNeeds(stream) ==
    {<<"$JS.API", api, stream>> :
       api \in {"STREAM.INFO", "CONSUMER.CREATE", "CONSUMER.INFO", "CONSUMER.MSG.NEXT"}}

\* The process a refused consumer ended: wronged if it had come with its own
\* credential and a registry the server was given.
Barred(p, user) ==
    [up |-> FALSE,
     barred |-> IF user = p /\ source \subseteq server.build THEN "wronged" ELSE "forgiven"]

\* A service connects and subscribes as it starts.  A subscription the server
\* refuses is logged; a consumer it refuses ends the process.  So do, with
\* nothing refused, a stream that is not there and a connection that fails.
BootService(p, user) ==
    LET may   == permissionsOf(user, server.build)
        reads == consumed(p, source)
        needs == IF reads = {} THEN {} ELSE {JS_API_INFO} \cup UNION {ConsumerNeeds(s) : s \in reads}
        wants == served(p, source)
    IN  /\ server.up /\ known(user, env[user], server)
        /\ \/ /\ needs \subseteq may.publish /\ reads \subseteq streams
              /\ process' = [process EXCEPT ![p] = Process(user, "open", wants \cap may.subscribe)]
           \/ /\ ~(needs \subseteq may.publish)
              /\ process' = [process EXCEPT ![p] = Barred(p, user)]

\* The gateway connects on its first call.
BootGateway(user) == process' = [process EXCEPT !["gateway"] = Process(user, "none", {})]

Boot(p) ==
    /\ ~process[p].up
    /\ boots < MaxBoots /\ boots' = boots + 1
    /\ \E user \in {p} \cup Shared : IF p = "gateway" THEN BootGateway(user) ELSE BootService(p, user)
    /\ UNCHANGED <<source, gen, files, server, streams, call>>

\* SIGTERM: closeConnection, exit.  What it was working on is lost.
Stop(p) ==
    /\ process[p].up
    /\ process' = [process EXCEPT ![p] = Stopped]
    /\ call' = IF call.pc # "none" /\ p \in {call.by, "gateway"} THEN NoCall ELSE call
    /\ UNCHANGED <<source, gen, files, server, streams, boots>>

\* connection(): the promise is kept, the rejected one too.
Connect ==
    /\ process["gateway"].up /\ process["gateway"].link = "none"
    /\ process' = [process EXCEPT !["gateway"].link =
         IF server.up /\ known(process["gateway"].user, process["gateway"].seed, server)
         THEN "open" ELSE "dead"]
    /\ UNCHANGED <<source, gen, files, server, streams, boots, call>>

-----------------------------------------------------------------------------
(* A dispatch *)

linked(p) == server.up /\ process[p].up /\ process[p].link = "open"

\* The step of p that the server refused.
Refused(p, step) ==
    call' = [call EXCEPT !.pc = "refused", !.step = step, !.forgiven = ~matches(p)]

routeOf(permission) ==
    CHOOSE r \in ROUTES : r.resource = permission[1] /\ r.operation = permission[2]

Asked(route) ==
    [pc |-> "asked", route |-> route, by |-> "nobody", age |-> 0, step |-> "none",
     forgiven |-> FALSE]

\* rpcRequest and publishCommand: the inbox and the subject have to be granted.
Ask ==
    /\ call.pc \in {"none", "done", "refused"}
    /\ linked("gateway")
    /\ \E permission \in process["gateway"].build :
         LET asked == Asked(routeOf(permission))
         IN  call' = IF mayPublish("gateway", asked.route.subject) /\ mayListen("gateway")
                     THEN asked
                     ELSE [asked EXCEPT !.pc = "refused", !.step = "ask", !.forgiven = ~matches("gateway")]
    /\ UNCHANGED <<source, gen, files, server, streams, process, boots>>

\* The queue group, or the durable consumer, hands it to a process.
Take(p) ==
    /\ call.pc = "asked" /\ linked(p)
    /\ IF call.route.transport = "rpc"
       THEN call.route.subject \in process[p].serving
       ELSE streamOf("cmd") \in consumed(p, process[p].build) \cap streams
    /\ call' = [call EXCEPT !.pc = "working", !.by = p]
    /\ UNCHANGED <<source, gen, files, server, streams, process, boots>>

\* handle: the event of an audited operation, once it succeeded.
Emit ==
    /\ call.pc = "working" /\ linked(call.by)
    /\ IF \/ call.route.event = NoSubject
          \/ mayPublish(call.by, call.route.event) /\ mayListen(call.by)
       THEN call' = [call EXCEPT !.pc = "emitted"]
       ELSE Refused(call.by, "emit")
    /\ UNCHANGED <<source, gen, files, server, streams, process, boots>>

\* message.respond, or message.ack for a command.
Answer ==
    /\ call.pc = "emitted" /\ linked(call.by)
    /\ IF call.route.transport = "rpc"
       THEN IF grants(call.by).allowResponses /\ call.age < ReplyWindow
            THEN call' = [call EXCEPT !.pc = "done"]
            ELSE Refused(call.by, "reply")
       ELSE IF mayPublish(call.by, Ack(streamOf("cmd")))
            THEN call' = [call EXCEPT !.pc = "done"]
            ELSE Refused(call.by, "ack")
    /\ UNCHANGED <<source, gen, files, server, streams, process, boots>>

Tick ==
    /\ call.pc \in {"asked", "working", "emitted"}
    /\ \E age \in Waits : age > call.age /\ call' = [call EXCEPT !.age = age]
    /\ UNCHANGED <<source, gen, files, server, streams, process, boots>>

Init ==
    /\ source = FirstBuild
    /\ gen = [pc |-> "idle", at |-> 1, rotate |-> FALSE]
    /\ nk = [u \in Users |-> 1]
    /\ env = nk
    /\ conf = [keys |-> nk, build |-> source]
    /\ server = [up |-> FALSE, keys |-> nk, build |-> source]
    /\ streams = {}
    /\ process = [p \in Programs |-> Stopped]
    /\ boots = 0
    /\ call = NoCall

Next ==
    \/ Edit \/ Generate \/ WriteSeed \/ WriteEnv \/ WriteConf \/ Interrupt
    \/ ServerStarts \/ ServerStops \/ Bootstrap \/ Connect
    \/ \E p \in Programs : Boot(p) \/ Stop(p) \/ Take(p)
    \/ Ask \/ Emit \/ Answer \/ Tick

Spec == Init /\ [][Next]_vars

-----------------------------------------------------------------------------
(* Properties *)

Keys == [Users -> 1..MaxSeed]

TypeOK ==
    /\ source \in Builds
    /\ gen \in [pc : {"idle", "seed", "env"}, at : 1..(Len(USERS) + 1), rotate : BOOLEAN]
    /\ nk \in Keys /\ env \in Keys
    /\ conf \in [keys : Keys, build : Builds]
    /\ server \in [up : BOOLEAN, keys : Keys, build : Builds]
    /\ streams \in SUBSET DOMAIN STREAMS
    /\ DOMAIN process = Programs
    /\ boots \in 0..MaxBoots
    /\ call.pc \in {"none", "asked", "working", "emitted", "done", "refused"}
    /\ call.pc \in {"working", "emitted"} => process[call.by].up

\* What the gateway and the services do on the way of a dispatch - request,
\* durable command, event, acknowledgement - is let through.
StepsAreGranted ==
    (call.pc = "refused" /\ call.step # "reply") => call.forgiven

\* "30s covers the longest timeout the registry declares": a reply somebody
\* still waits for is let through.
RepliesAreGranted ==
    (call.pc = "refused" /\ call.step = "reply")
       => call.forgiven \/ call.age >= ruleFor(call.route.resource, call.route.operation).timeoutMs

\* A refused subscription is only logged (serve.ts): a service that was not
\* started ahead of auth.conf serves every rpc subject it owns none the less.
SubscriptionsAreGranted ==
    \A p \in Services :
       (process[p].up /\ process[p].user = p /\ ~process[p].early)
         => process[p].serving = served(p, process[p].build)

\* A service started with its own credential on a server that knew its registry
\* gets the durable consumers it needs.
ConsumersAreGranted ==
    \A p \in Services : process[p].up \/ process[p].barred # "wronged"

\* "Nothing here is a hand-written subject" (generate-auth.ts): a process with
\* its own credential is never refused anything once the server knows the
\* registry it was started from, through rotations, restarts and registries
\* that grow.
NothingIsRefused ==
    StepsAreGranted /\ RepliesAreGranted /\ SubscriptionsAreGranted /\ ConsumersAreGranted

\* "Only its owner is" subscribed (RUNBOOK.md): a dispatch is worked on, its
\* event emitted and its answer given under the credential of the operation's
\* owner, also when a process was started with somebody else's.
OnlyTheOwnerWorks ==
    call.pc \in {"working", "emitted", "done"} => process[call.by].user = call.route.owner

\* When --check passes and the server runs with that auth.conf, every process
\* started from its env file is let in - after any number of generator runs cut
\* short between two of the files, --rotate among them.
CheckIsHonest ==
    (gen.pc = "idle" /\ checkPasses /\ server.keys = conf.keys)
       => \A user \in Users : known(user, env[user], server)
=============================================================================

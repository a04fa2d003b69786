------------------------------ MODULE BusProofs ------------------------------
(***************************************************************************)
(* The generator's check is honest and only an operation's owner works on  *)
(* it, for any processes, credentials and registries that grow.            *)
(***************************************************************************)
EXTENDS Bus, TLAPS

-----------------------------------------------------------------------------
(* The inductive invariant *)

\* The generator is through with user j, or about to be once more.
Written(j) ==
    env[USERS[j]] = nk[USERS[j]] \/ (gen.pc = "env" /\ USERS[j] = USERS[gen.at])

\* A seed newer than the env file made from it is newer than auth.conf too,
\* unless the env file is the one the generator is about to write.
KeysInv ==
    /\ \A u \in Users : conf.keys[u] <= nk[u]
    /\ \A u \in Users : env[u] = nk[u] \/ conf.keys[u] < nk[u]
    /\ gen.pc = "env" => gen.at \in DOMAIN USERS
    /\ gen.pc # "idle" => \A j \in DOMAIN USERS : j < gen.at => Written(j)

\* What the server granted a process is its credential's.
OwnSubjects(p) ==
    /\ \A r \in ROUTES : r.subject \in process[p].serving => r.owner = process[p].user
    /\ "CMD" \in consumed(p, process[p].build) =>
         \A r \in ROUTES : r.transport # "rpc" => r.owner = process[p].user

Processes == [up : {TRUE}, user : Users, seed : 1..MaxSeed, build : Builds,
              link : {"none", "open", "dead"}, serving : SUBSET {r.subject : r \in ROUTES},
              early : BOOLEAN]

Halts == [up : {FALSE}, barred : {"no", "forgiven", "wronged"}]

ProcessInv ==
    /\ process \in [Programs -> Halts \cup Processes]
    /\ \A p \in Programs : process[p].up => OwnSubjects(p)

Calls == [pc : {"asked", "working", "emitted", "done", "refused"}, route : ROUTES,
          by : Programs \cup {"nobody"}, age : Nat,
          step : {"none", "ask", "emit", "reply", "ack"}, forgiven : BOOLEAN]

CallInv ==
    /\ call \in {NoCall} \cup Calls
    /\ call.pc \in {"working", "emitted", "done"} =>
         /\ call.by \in Programs /\ process[call.by].up
         /\ process[call.by].user = call.route.owner

Inv == TypeOK /\ KeysInv /\ ProcessInv /\ CallInv

-----------------------------------------------------------------------------
(* The registry *)

LEMMA Resources ==
    RESOURCE_KEYS = {"organization", "membership", "project", "member", "invitation", "billing",
                     "auditLog"}
  BY DEF RESOURCE_KEYS, RESOURCES

LEMMA Owners ==
    \A r \in RESOURCE_KEYS : RESOURCES[r].owner \in {"identity", "projects", "billing", "audit"}
  BY Resources DEF RESOURCES, OrganizationResource, MembershipResource, ProjectResource,
                   MemberResource, InvitationResource, BillingResource, AuditLogResource

\* One service takes the commands.
LEMMA Commanded ==
    ASSUME NEW r \in RESOURCE_KEYS, NEW o \in operationsOf(r),
           ruleFor(r, o).transport # "rpc"
    PROVE  RESOURCES[r].owner = "identity"
  <1>1. CASE r \in {"organization", "membership", "member", "invitation"}
    BY <1>1 DEF RESOURCES, OrganizationResource, MembershipResource, MemberResource,
                InvitationResource
  <1>2. CASE r = "project"
    BY <1>2 DEF RESOURCES, ProjectResource, ruleFor, operationsOf, isOperationOf, Op
  <1>3. CASE r = "billing"
    BY <1>3 DEF RESOURCES, BillingResource, ruleFor, operationsOf, isOperationOf, Op
  <1>4. CASE r = "auditLog"
    BY <1>4 DEF RESOURCES, AuditLogResource, ruleFor, operationsOf, isOperationOf, Op
  <1> QED
    BY <1>1, <1>2, <1>3, <1>4, Resources

LEMMA Streams == streamOf("cmd") = "CMD" /\ streamOf("evt") = "EVT" /\ DOMAIN STREAMS = {"CMD", "EVT"}
  BY DEF streamOf, STREAMS

\* A route is its permission's.
LEMMA RouteOfPermission ==
    ASSUME NEW r \in ROUTES
    PROVE  /\ r.resource \in RESOURCE_KEYS /\ r.operation \in operationsOf(r.resource)
           /\ r.owner = RESOURCES[r.resource].owner
           /\ r.transport = ruleFor(r.resource, r.operation).transport
           /\ r.subject = <<IF r.transport = "rpc" THEN "rpc" ELSE "cmd", r.resource, r.operation>>
           /\ r.event = NoSubject \/ r.event = <<"evt", r.resource, r.operation>>
  <1>1. PICK p \in PERMISSIONS :
          LET rule == ruleFor(p[1], p[2])
          IN  r = [resource |-> p[1], operation |-> p[2], transport |-> rule.transport,
                   owner |-> RESOURCES[p[1]].owner,
                   subject |-> Subject(IF rule.transport = "rpc" THEN "rpc" ELSE "cmd", p[1], p[2]),
                   event |-> IF rule.audit THEN Subject("evt", p[1], p[2]) ELSE NoSubject]
    BY DEF ROUTES
  <1>2. p[1] \in RESOURCE_KEYS /\ p[2] \in operationsOf(p[1])
    BY DEF PERMISSIONS
  <1> QED
    BY <1>1, <1>2 DEF Subject

\* A subject is one route's.
LEMMA RouteOfSubject ==
    ASSUME NEW r \in ROUTES, NEW s \in ROUTES, r.subject = s.subject
    PROVE  r.owner = s.owner
  BY RouteOfPermission

LEMMA RouteOf ==
    ASSUME NEW p \in PERMISSIONS
    PROVE  routeOf(p) \in ROUTES /\ routeOf(p).resource = p[1] /\ routeOf(p).operation = p[2]
  <1> DEFINE rule == ruleFor(p[1], p[2])
             r == [resource |-> p[1], operation |-> p[2], transport |-> rule.transport,
                   owner |-> RESOURCES[p[1]].owner,
                   subject |-> Subject(IF rule.transport = "rpc" THEN "rpc" ELSE "cmd", p[1], p[2]),
                   event |-> IF rule.audit THEN Subject("evt", p[1], p[2]) ELSE NoSubject]
  <1>1. r \in ROUTES
    BY Zenon DEF ROUTES
  <1>2. r.resource = p[1] /\ r.operation = p[2]
    OBVIOUS
  <1> QED
    BY <1>1, <1>2 DEF routeOf

\* A command's owner is who takes commands.
LEMMA CommandOwner ==
    ASSUME NEW r \in ROUTES, r.transport # "rpc"
    PROVE  r.owner = "identity"
  BY RouteOfPermission, Commanded

\* Only the service that takes the commands may ask for their consumer.
LEMMA CommandConsumer ==
    ASSUME NEW user, NEW build,
           <<"$JS.API", "CONSUMER.CREATE", "CMD">> \in permissionsOf(user, build).publish
    PROVE  user = "identity"
  <1> DEFINE api == <<"$JS.API", "CONSUMER.CREATE", "CMD">>
  <1>1. \A r \in ROUTES : r.subject # api /\ r.event # api
    BY RouteOfPermission DEF NoSubject
  <1>2. user # "gateway"
    BY <1>1, Zenon DEF permissionsOf, gatewayUser, Permissions, routesOf
  <1>3. user # "observer"
    BY Zenon DEF permissionsOf, observerUser, Permissions
  <1>4. user # "bootstrap"
    <2>1. api \in bootstrapUser.publish => \E s \in DOMAIN STREAMS : api \in streamApi(s)
      BY DEF bootstrapUser, Permissions, JS_API_INFO
    <2>2. \A s : api \notin streamApi(s)
      BY DEF streamApi
    <2>3. user = "bootstrap" => api \in bootstrapUser.publish
      BY Zenon DEF permissionsOf
    <2> QED
      BY <2>1, <2>2, <2>3
  <1>5. CASE api \in serviceUser(user, build).publish
    <2>1. "CMD" \in consumed(user, build)
      <3>1. \E s \in consumed(user, build) : api \in consumerApi(s)
        <4> DEFINE emits == {r.event : r \in owned(user, build)} \ {NoSubject}
        <4>1. api \notin emits
          BY <1>1 DEF owned, routesOf
        <4>2. \A s : api # Ack(s) /\ api # JS_API_INFO
          BY DEF Ack, JS_API_INFO
        <4>3. serviceUser(user, build).publish
                \subseteq emits \cup {JS_API_INFO} \cup {Ack(s) : s \in DOMAIN STREAMS}
                            \cup UNION {consumerApi(s) : s \in consumed(user, build)}
          BY DEF serviceUser, Permissions
        <4> HIDE DEF emits
        <4> QED
          BY <1>5, <4>1, <4>2, <4>3
      <3>2. \A s : api \in consumerApi(s) => s = "CMD"
        BY DEF consumerApi
      <3> QED
        BY <3>1, <3>2
    <2>2. PICK r \in owned(user, build) : r.transport = "command"
      BY <2>1, Streams DEF consumed
    <2> QED
      BY <2>2, CommandOwner DEF owned, routesOf
  <1> QED
    BY <1>2, <1>3, <1>4, <1>5, Zenon DEF permissionsOf

\* Only its owner may listen on a route's subject.
LEMMA SubjectListener ==
    ASSUME NEW r \in ROUTES, NEW user, NEW build,
           r.subject \in permissionsOf(user, build).subscribe
    PROVE  r.owner = user
  <1>1. \A u : r.subject # inbox(u)
    BY RouteOfPermission DEF inbox
  <1>2. user # "gateway"
    BY <1>1, Zenon DEF permissionsOf, gatewayUser, Permissions
  <1>3. user # "observer"
    <2> DEFINE heard == {q.event : q \in routesOf(build)} \ {NoSubject}
    <2>1. user = "observer" => permissionsOf(user, build) = observerUser(build)
      BY Zenon DEF permissionsOf
    <2>2. r.subject \notin heard
      <3>1. \A q \in ROUTES : q.event # NoSubject => r.subject # q.event
        BY RouteOfPermission
      <3> QED
        BY <3>1 DEF routesOf
    <2>3. observerUser(build).subscribe = heard \cup {inbox("observer")}
      BY DEF observerUser, Permissions
    <2> QED
      BY <1>1, <2>1, <2>2, <2>3
  <1>4. user # "bootstrap"
    BY <1>1, Zenon DEF permissionsOf, bootstrapUser, Permissions
  <1>5. CASE r.subject \in serviceUser(user, build).subscribe
    <2>1. serviceUser(user, build).subscribe
            = {q.subject : q \in {q \in owned(user, build) : q.transport = "rpc"}} \cup {inbox(user)}
      BY DEF serviceUser, Permissions
    <2>2. PICK q \in owned(user, build) : r.subject = q.subject
      BY <1>1, <1>5, <2>1
    <2> QED
      BY <2>2, RouteOfSubject DEF owned, routesOf
  <1> QED
    BY <1>2, <1>3, <1>4, <1>5, Zenon DEF permissionsOf

\* The gateway takes no commands.
LEMMA GatewayConsumes == ASSUME NEW build PROVE "CMD" \notin consumed("gateway", build)
  <1>1. owned("gateway", build) = {}
    BY RouteOfPermission, Owners DEF owned, routesOf
  <1>2. "CMD" \in consumed("gateway", build) => \E r \in owned("gateway", build) : r.transport = "command"
    BY Streams DEF consumed
  <1> QED
    BY <1>1, <1>2

-----------------------------------------------------------------------------
(* The actions *)

LEMMA InvInit == Init => Inv
  <1> SUFFICES ASSUME Init PROVE Inv
    OBVIOUS
  <1>1. TypeOK
    BY BuildAssumption, BoundAssumption, UserAssumption DEF Init, TypeOK, Keys, NoCall
  <1>2. KeysInv
    BY DEF Init, KeysInv
  <1>3. ProcessInv
    BY DEF Init, ProcessInv, Stopped, Halts
  <1>4. CallInv
    BY DEF Init, CallInv, NoCall
  <1> QED
    BY <1>1, <1>2, <1>3, <1>4 DEF Inv

\* The generator writes files and nothing else.
LEMMA GeneratorKeeps ==
    ASSUME Inv, Edit \/ Generate \/ WriteSeed \/ WriteEnv \/ WriteConf \/ Interrupt
    PROVE  Inv'
  <1>1. UNCHANGED <<server, streams, process, boots, call>>
    BY DEF Edit, Generate, WriteSeed, WriteEnv, WriteConf, Interrupt
  <1>2. ProcessInv' /\ CallInv'
    BY <1>1 DEF Inv, ProcessInv, CallInv, OwnSubjects
  <1>3. Len(USERS) \in Nat /\ DOMAIN USERS = 1..Len(USERS)
    BY UserAssumption
  <1>4. \A u \in Users : nk[u] \in 1..MaxSeed /\ env[u] \in 1..MaxSeed /\ conf.keys[u] \in 1..MaxSeed
    BY DEF Inv, TypeOK, Keys
  <1>5. /\ source' \in Builds
        /\ gen' \in [pc : {"idle", "seed", "env"}, at : 1..(Len(USERS) + 1), rotate : BOOLEAN]
        /\ nk' \in Keys /\ env' \in Keys /\ conf' \in [keys : Keys, build : Builds]
        /\ KeysInv'
    <2>1. CASE Edit
      BY <2>1 DEF Edit, Inv, TypeOK, KeysInv, Written, files
    <2>2. CASE Generate
      BY <1>3, <2>2 DEF Generate, Inv, TypeOK, KeysInv, files
    <2>3. CASE Interrupt
      BY <2>3 DEF Interrupt, Inv, TypeOK, KeysInv, files
    <2>4. CASE WriteSeed
      <3> DEFINE user == USERS[gen.at]
      <3>1. gen.pc = "seed" /\ gen.at \in DOMAIN USERS /\ user \in Users
        BY <2>4 DEF WriteSeed, Users
      <3>2. /\ UNCHANGED <<source, env, conf>> /\ gen' = [gen EXCEPT !.pc = "env"]
            /\ nk' = nk \/ (nk[user] < MaxSeed /\ nk' = [nk EXCEPT ![user] = @ + 1])
        BY <2>4 DEF WriteSeed
      <3>3. \A j \in DOMAIN USERS : USERS[j] \in Users
        BY DEF Users
      <3>4. nk \in [Users -> 1..MaxSeed] /\ MaxSeed \in Int
        BY BoundAssumption DEF Inv, TypeOK, Keys
      <3>5. gen' \in [pc : {"idle", "seed", "env"}, at : 1..(Len(USERS) + 1), rotate : BOOLEAN]
            /\ gen'.at = gen.at /\ gen'.pc = "env"
        BY <3>2 DEF Inv, TypeOK
      <3> HIDE DEF user
      <3>6. nk' \in Keys /\ \A u \in Users : nk'[u] = nk[u] \/ (u = user /\ nk'[u] = nk[u] + 1)
        <4>1. CASE nk' = nk
          BY <3>4, <4>1 DEF Keys
        <4>2. CASE nk[user] < MaxSeed /\ nk' = [nk EXCEPT ![user] = @ + 1]
          <5>1. nk[user] + 1 \in 1..MaxSeed
            BY <1>4, <3>1, <3>4, <4>2
          <5> QED
            BY <3>1, <3>4, <4>2, <5>1 DEF Keys
        <4> QED
          BY <3>2, <4>1, <4>2
      <3>7. \A u \in Users : conf.keys[u] <= nk'[u] /\ (env[u] = nk'[u] \/ conf.keys[u] < nk'[u])
        BY <1>4, <3>4, <3>6 DEF Inv, KeysInv
      <3>8. \A j \in DOMAIN USERS : j < gen.at =>
              env[USERS[j]] = nk'[USERS[j]] \/ USERS[j] = user
        BY <3>1, <3>3, <3>6 DEF Inv, KeysInv, Written
      <3> QED
        BY <3>1, <3>2, <3>5, <3>6, <3>7, <3>8 DEF Inv, TypeOK, KeysInv, Written, user
    <2>5. CASE WriteEnv
      <3> DEFINE user == USERS[gen.at]
      <3>1. gen.pc = "env" /\ gen.at \in DOMAIN USERS /\ user \in Users
        BY <2>5 DEF WriteEnv, Users, Inv, KeysInv
      <3>2. /\ env' = [env EXCEPT ![user] = nk[user]] /\ UNCHANGED <<source, nk, conf>>
            /\ gen' = [gen EXCEPT !.pc = "seed", !.at = @ + 1]
        BY <2>5 DEF WriteEnv
      <3>3. \A j \in DOMAIN USERS : USERS[j] \in Users
        BY DEF Users
      <3>4. gen.at \in Int /\ gen.at + 1 \in 1..(Len(USERS) + 1)
        BY <1>3, <3>1
      <3>5. gen' \in [pc : {"idle", "seed", "env"}, at : 1..(Len(USERS) + 1), rotate : BOOLEAN]
            /\ gen'.pc = "seed" /\ gen'.at = gen.at + 1
        BY <3>2, <3>4 DEF Inv, TypeOK
      <3>6. \A j \in DOMAIN USERS : j < gen.at + 1 => j < gen.at \/ USERS[j] = user
        BY <1>3, <3>4
      <3> HIDE DEF user
      <3>7. env' \in Keys /\ \A u \in Users : env'[u] = IF u = user THEN nk[u] ELSE env[u]
        BY <1>4, <3>1, <3>2 DEF Inv, TypeOK, Keys
      <3>8. \A j \in DOMAIN USERS : j < gen.at + 1 => env'[USERS[j]] = nk[USERS[j]]
        BY <3>1, <3>3, <3>6, <3>7 DEF Inv, KeysInv, Written, user
      <3>9. \A u \in Users : env'[u] = nk[u] \/ conf.keys[u] < nk[u]
        BY <3>7 DEF Inv, KeysInv
      <3> QED
        BY <3>2, <3>5, <3>7, <3>8, <3>9 DEF Inv, TypeOK, KeysInv, Written
    <2>6. CASE WriteConf
      <3>1. conf' = [keys |-> nk, build |-> source] /\ UNCHANGED <<source, nk, env>>
            /\ gen' = [gen EXCEPT !.pc = "idle"] /\ gen.pc = "seed" /\ gen.at \notin DOMAIN USERS
        BY <2>6 DEF WriteConf
      <3>2. \A j \in DOMAIN USERS : j < gen.at
        BY <1>3, <3>1 DEF Inv, TypeOK
      <3>3. \A u \in Users : env[u] = nk[u]
        BY <3>1, <3>2 DEF Inv, KeysInv, Written, Users
      <3>4. conf'.keys = nk /\ conf' \in [keys : Keys, build : Builds]
        BY <3>1 DEF Inv, TypeOK
      <3>5. gen' \in [pc : {"idle", "seed", "env"}, at : 1..(Len(USERS) + 1), rotate : BOOLEAN]
            /\ gen'.pc = "idle"
        BY <3>1 DEF Inv, TypeOK
      <3>6. KeysInv'
        BY <1>4, <3>1, <3>3, <3>4, <3>5, BoundAssumption DEF KeysInv
      <3> QED
        BY <3>1, <3>4, <3>5, <3>6 DEF Inv, TypeOK
    <2> QED
      BY <2>1, <2>2, <2>3, <2>4, <2>5, <2>6
  <1>6. TypeOK'
    BY <1>1, <1>5 DEF Inv, TypeOK
  <1> QED
    BY <1>2, <1>5, <1>6 DEF Inv

\* A process that stays what it is keeps what it was granted.
LEMMA ProcessesKept ==
    ASSUME ProcessInv, process' \in [Programs -> Halts \cup Processes],
           \A p \in Programs : process'[p].up =>
              /\ process[p].up /\ process'[p].user = process[p].user
              /\ process'[p].build = process[p].build /\ process'[p].serving = process[p].serving
    PROVE  ProcessInv'
  BY DEF ProcessInv, OwnSubjects

LEMMA ServerKeeps ==
    ASSUME Inv, ServerStarts \/ ServerStops \/ Bootstrap
    PROVE  Inv'
  <1>1. UNCHANGED <<source, gen, nk, env, conf, boots>>
    BY DEF ServerStarts, ServerStops, Bootstrap, files
  <1>2. KeysInv'
    BY <1>1 DEF Inv, KeysInv, Written
  <1>3. CASE ServerStarts
    <2>1. /\ server' = [up |-> TRUE, keys |-> conf.keys, build |-> conf.build]
          /\ UNCHANGED <<streams, call>>
          /\ process' = [p \in Programs |->
               IF process[p].up /\ process[p].link = "open" /\ ~known(process[p].user, process[p].seed, conf)
               THEN [process[p] EXCEPT !.link = "dead"] ELSE process[p]]
      BY <1>3 DEF ServerStarts
    <2>2. ASSUME NEW p \in Programs
          PROVE  /\ process'[p] \in Halts \cup Processes
                 /\ process'[p].up = process[p].up
                 /\ process[p].up => /\ process'[p].user = process[p].user
                                     /\ process'[p].build = process[p].build
                                     /\ process'[p].serving = process[p].serving
      <3>1. process[p] \in Halts \cup Processes /\ (process[p].up => process[p] \in Processes)
        BY DEF Inv, ProcessInv, Stopped, Halts
      <3>2. \/ process'[p] = process[p]
            \/ process[p].up /\ process'[p] = [process[p] EXCEPT !.link = "dead"]
        BY <2>1
      <3>3. CASE process'[p] = process[p]
        BY <3>1, <3>3
      <3>4. CASE process[p].up /\ process'[p] = [process[p] EXCEPT !.link = "dead"]
        <4>1. process'[p] \in Processes /\ process'[p].up
          BY <3>1, <3>4 DEF Processes
        <4> QED
          BY <3>1, <3>4, <4>1 DEF Processes
      <3> QED
        BY <3>2, <3>3, <3>4
    <2>3. process' \in [Programs -> Halts \cup Processes]
      BY <2>1, <2>2
    <2>4. ProcessInv'
      BY <2>2, <2>3, ProcessesKept DEF Inv
    <2>5. CallInv'
      BY <2>1, <2>2 DEF Inv, CallInv
    <2>6. TypeOK'
      BY <1>1, <2>1, <2>2, <2>3 DEF Inv, TypeOK, CallInv
    <2> QED
      BY <1>2, <2>4, <2>5, <2>6 DEF Inv
  <1>4. CASE ServerStops
    <2>1. server' = [server EXCEPT !.up = FALSE] /\ call' = NoCall /\ UNCHANGED <<streams, process>>
      BY <1>4 DEF ServerStops
    <2>2. TypeOK' /\ CallInv'
      BY <1>1, <2>1 DEF Inv, TypeOK, CallInv, NoCall
    <2> QED
      BY <1>2, <2>1, <2>2 DEF Inv, ProcessInv, OwnSubjects
  <1>5. CASE Bootstrap
    <2>1. streams' = DOMAIN STREAMS /\ UNCHANGED <<server, process, call>>
      BY <1>5 DEF Bootstrap
    <2>2. TypeOK' /\ CallInv'
      BY <1>1, <2>1 DEF Inv, TypeOK, CallInv
    <2> QED
      BY <1>2, <2>1, <2>2 DEF Inv, ProcessInv, OwnSubjects
  <1> QED
    BY <1>3, <1>4, <1>5

\* A process started with any credential gets what is that credential's.
LEMMA BootKeeps == ASSUME Inv, NEW p \in Programs, Boot(p) PROVE Inv'
  <1>1. /\ ~process[p].up /\ boots < MaxBoots /\ boots' = boots + 1
        /\ UNCHANGED <<source, gen, nk, env, conf, server, streams, call>>
    BY DEF Boot, files
  <1>2. PICK user \in {p} \cup Shared : IF p = "gateway" THEN BootGateway(user) ELSE BootService(p, user)
    BY DEF Boot
  <1>0. CASE process' = [process EXCEPT ![p] = Barred(p, user)]
    <2>1. Barred(p, user) \in Halts /\ ~Barred(p, user).up
      BY DEF Barred, Halts
    <2> HIDE DEF Barred
    <2>2. /\ process' \in [Programs -> Halts \cup Processes]
          /\ ~process'[p].up /\ \A q \in Programs \ {p} : process'[q] = process[q]
      BY <1>0, <2>1 DEF Inv, ProcessInv
    <2>3. ProcessInv'
      BY <2>2, ProcessesKept DEF Inv
    <2>4. CallInv'
      BY <1>1, <2>2 DEF Inv, CallInv
    <2>5. boots' \in 0..MaxBoots
      BY <1>1, BoundAssumption DEF Inv, TypeOK
    <2>6. TypeOK'
      BY <1>1, <2>2, <2>4, <2>5 DEF Inv, TypeOK, CallInv
    <2> QED
      BY <1>1, <2>3, <2>4, <2>6 DEF Inv, KeysInv, Written
  <1> SUFFICES ASSUME process' # [process EXCEPT ![p] = Barred(p, user)] PROVE Inv'
    BY <1>0
  <1>3. user \in Users /\ env[user] \in 1..MaxSeed /\ source \in Builds
    BY UserAssumption DEF Users, Inv, TypeOK, Keys
  <1> DEFINE Started(serving) ==
               [up |-> TRUE, user |-> user, seed |-> env[user], build |-> source,
                link |-> IF p = "gateway" THEN "none" ELSE "open", serving |-> serving,
                early |-> ~(source \subseteq server.build)]
  <1>4. PICK serving :
          /\ process' = [process EXCEPT ![p] = Started(serving)]
          /\ \A subject \in serving : /\ subject \in {r.subject : r \in ROUTES}
                                      /\ subject \in permissionsOf(user, server.build).subscribe
          /\ "CMD" \in consumed(p, source) =>
               <<"$JS.API", "CONSUMER.CREATE", "CMD">> \in permissionsOf(user, server.build).publish
    <2>1. CASE p = "gateway"
      <3>1. process' = [process EXCEPT !["gateway"] = Process(user, "none", {})]
        BY <1>2, <2>1 DEF BootGateway
      <3> DEFINE granted == {}
      <3>2. process' = [process EXCEPT ![p] = Started(granted)]
        BY <2>1, <3>1 DEF Process
      <3>3. "CMD" \notin consumed(p, source)
        BY <2>1, GatewayConsumes
      <3>4. \A subject \in granted : /\ subject \in {r.subject : r \in ROUTES}
                                     /\ subject \in permissionsOf(user, server.build).subscribe
        OBVIOUS
      <3> HIDE DEF Started, granted
      <3> QED
        BY <3>2, <3>3, <3>4, Zenon
    <2>2. CASE p # "gateway"
      <3> DEFINE may   == permissionsOf(user, server.build)
                 reads == consumed(p, source)
                 needs == IF reads = {} THEN {} ELSE {JS_API_INFO} \cup UNION {ConsumerNeeds(s) : s \in reads}
                 wants == served(p, source)
      <3>1. /\ needs \subseteq may.publish
            /\ process' = [process EXCEPT ![p] = Process(user, "open", wants \cap may.subscribe)]
        BY <1>2, <2>2 DEF BootService
      <3>2. process' = [process EXCEPT ![p] = Started(wants \cap may.subscribe)]
        BY <2>2, <3>1 DEF Process
      <3>3. wants \subseteq {r.subject : r \in ROUTES}
        BY DEF served, owned, routesOf
      <3>4. ASSUME "CMD" \in reads PROVE <<"$JS.API", "CONSUMER.CREATE", "CMD">> \in may.publish
        <4>1. <<"$JS.API", "CONSUMER.CREATE", "CMD">> \in ConsumerNeeds("CMD")
          BY DEF ConsumerNeeds
        <4> HIDE DEF may, reads
        <4>2. ConsumerNeeds("CMD") \subseteq needs
          BY <3>4
        <4> QED
          BY <3>1, <4>1, <4>2
      <3> DEFINE granted == wants \cap may.subscribe
      <3>5. \A subject \in granted : /\ subject \in {r.subject : r \in ROUTES}
                                     /\ subject \in permissionsOf(user, server.build).subscribe
        BY <3>3
      <3>6. process' = [process EXCEPT ![p] = Started(granted)]
        BY <3>2
      <3>7. "CMD" \in consumed(p, source) =>
              <<"$JS.API", "CONSUMER.CREATE", "CMD">> \in permissionsOf(user, server.build).publish
        BY <3>4
      <3> HIDE DEF Started, granted
      <3> QED
        BY <3>5, <3>6, <3>7, Zenon
    <2> QED
      BY <2>1, <2>2
  <1>5. /\ Started(serving) \in Processes
        /\ Started(serving).user = user /\ Started(serving).build = source
        /\ Started(serving).serving = serving /\ Started(serving).up
    BY <1>3, <1>4 DEF Processes
  <1> HIDE DEF Started
  <1>6. /\ process' \in [Programs -> Halts \cup Processes]
        /\ process'[p] = Started(serving) /\ \A q \in Programs \ {p} : process'[q] = process[q]
    BY <1>4, <1>5 DEF Inv, ProcessInv
  <1>7. ASSUME NEW r \in ROUTES, r.subject \in serving PROVE r.owner = user
    BY <1>4, <1>7, SubjectListener
  <1>8. ASSUME "CMD" \in consumed(p, source), NEW r \in ROUTES, r.transport # "rpc"
        PROVE  r.owner = user
    BY <1>4, <1>8, CommandConsumer, CommandOwner
  <1>9. OwnSubjects(p)'
    BY <1>5, <1>6, <1>7, <1>8 DEF OwnSubjects
  <1>10. ASSUME NEW q \in Programs \ {p}, process'[q].up PROVE OwnSubjects(q)'
    BY <1>6, <1>10 DEF Inv, ProcessInv, OwnSubjects
  <1>11. ProcessInv'
    BY <1>6, <1>9, <1>10 DEF ProcessInv
  <1>12. CallInv'
    BY <1>1, <1>6 DEF Inv, CallInv
  <1>13. TypeOK'
    <2>1. boots' \in 0..MaxBoots
      BY <1>1, BoundAssumption DEF Inv, TypeOK
    <2> QED
      BY <1>1, <1>6, <1>12, <2>1 DEF Inv, TypeOK, CallInv
  <1> QED
    BY <1>1, <1>11, <1>12, <1>13 DEF Inv, KeysInv, Written

LEMMA StopKeeps == ASSUME Inv, (\E p \in Programs : Stop(p)) \/ Connect PROVE Inv'
  <1>1. UNCHANGED <<source, gen, nk, env, conf, server, streams, boots>>
    BY DEF Stop, Connect, files
  <1>2. /\ call' \in {call, NoCall}
        /\ process' \in [Programs -> Halts \cup Processes]
        /\ \A q \in Programs : process'[q].up =>
             /\ process[q].up /\ process'[q].user = process[q].user
             /\ process'[q].build = process[q].build /\ process'[q].serving = process[q].serving
        /\ \A q \in Programs : (call' # NoCall /\ call.pc # "none" /\ q = call.by) =>
             (process[q].up => process'[q].up)
    <2>1. ASSUME NEW p \in Programs, Stop(p)
          PROVE  /\ process' = [process EXCEPT ![p] = Stopped]
                 /\ call' = IF call.pc # "none" /\ p \in {call.by, "gateway"} THEN NoCall ELSE call
      BY <2>1 DEF Stop
    <2>2. CASE \E p \in Programs : Stop(p)
      <3>1. PICK p \in Programs : Stop(p)
        BY <2>2
      <3>2. Stopped \in Halts /\ ~Stopped.up
        BY DEF Stopped, Halts
      <3> HIDE DEF Stopped
      <3>3. /\ process' \in [Programs -> Halts \cup Processes]
            /\ ~process'[p].up /\ \A q \in Programs \ {p} : process'[q] = process[q]
        BY <2>1, <3>1, <3>2 DEF Inv, ProcessInv
      <3> QED
        BY <2>1, <3>1, <3>3
    <2>3. CASE Connect
      <3>1. PICK link \in {"open", "dead"} : process' = [process EXCEPT !["gateway"].link = link]
        BY <2>3 DEF Connect
      <3>2. process["gateway"].up /\ call' = call
        BY <2>3 DEF Connect
      <3>3. process["gateway"] \in Processes
        BY <3>2, UserAssumption DEF Inv, ProcessInv, Stopped, Halts
      <3>4. [process["gateway"] EXCEPT !.link = link] \in Processes
        BY <3>3 DEF Processes
      <3>5. process' = [process EXCEPT !["gateway"] = [process["gateway"] EXCEPT !.link = link]]
        BY <3>1
      <3> QED
        BY <3>2, <3>3, <3>4, <3>5, UserAssumption DEF Inv, ProcessInv, Processes
    <2> QED
      BY <2>2, <2>3
  <1>3. ProcessInv'
    BY <1>2, ProcessesKept DEF Inv
  <1>4. CallInv'
    BY <1>2 DEF Inv, CallInv, NoCall
  <1>5. TypeOK'
    BY <1>1, <1>2, <1>4 DEF Inv, TypeOK, CallInv, NoCall
  <1> QED
    BY <1>1, <1>3, <1>4, <1>5 DEF Inv, KeysInv, Written

\* The way of a dispatch: it is taken by an owner, and stays with it.
LEMMA CallKeeps ==
    ASSUME Inv, Ask \/ (\E p \in Programs : Take(p)) \/ Emit \/ Answer \/ Tick
    PROVE  Inv'
  <1>1. UNCHANGED <<source, gen, files, server, streams, process, boots>>
    BY DEF Ask, Take, Emit, Answer, Tick
  <1>2. \A p, step : matches(p) \in BOOLEAN
    BY DEF matches
  <1>3. CallInv'
    <2>1. CASE Ask
      <3>1. PICK permission \in process["gateway"].build :
              LET asked == Asked(routeOf(permission))
              IN  call' = IF mayPublish("gateway", asked.route.subject) /\ mayListen("gateway")
                          THEN asked
                          ELSE [asked EXCEPT !.pc = "refused", !.step = "ask", !.forgiven = ~matches("gateway")]
        BY <2>1 DEF Ask
      <3>2. process["gateway"] \in Processes
        <4>1. linked("gateway")
          BY <2>1 DEF Ask
        <4> QED
          BY <4>1, UserAssumption DEF linked, Inv, ProcessInv, Stopped, Halts
      <3>3. routeOf(permission) \in ROUTES
        BY <3>1, <3>2, RouteOf, BuildAssumption DEF Processes
      <3> DEFINE asked == Asked(routeOf(permission))
      <3>4. asked \in Calls /\ asked.pc = "asked"
        BY <3>3 DEF Asked, Calls
      <3>5. \/ call' = asked
            \/ call' = [asked EXCEPT !.pc = "refused", !.step = "ask", !.forgiven = ~matches("gateway")]
        BY <3>1
      <3> HIDE DEF asked
      <3>6. call' \in Calls /\ call'.pc \in {"asked", "refused"}
        BY <1>2, <3>4, <3>5 DEF Calls
      <3> QED
        BY <3>6 DEF CallInv
    <2>2. ASSUME NEW p \in Programs, Take(p) PROVE CallInv'
      <3>1. /\ call.pc = "asked" /\ call \in Calls /\ process[p].up
            /\ call' = [call EXCEPT !.pc = "working", !.by = p]
        <4>1. call.pc = "asked" /\ linked(p) /\ call' = [call EXCEPT !.pc = "working", !.by = p]
          BY <2>2 DEF Take
        <4> QED
          BY <4>1 DEF linked, Inv, CallInv, NoCall
      <3>2. call' \in Calls /\ call'.pc = "working" /\ call'.by = p /\ call'.route = call.route
            /\ call.route \in ROUTES
        BY <3>1 DEF Calls
      <3>3. OwnSubjects(p)
        BY <3>1 DEF Inv, ProcessInv
      <3>4. process[p].user = call.route.owner
        BY <2>2, <3>2, <3>3, Streams DEF Take, OwnSubjects
      <3> QED
        BY <1>1, <3>1, <3>2, <3>4 DEF CallInv
    <2>3. ASSUME call \in Calls, call.pc \in {"working", "emitted"},
                 NEW pc \in {"emitted", "done", "refused"}, NEW step \in {"none", "emit", "reply", "ack"},
                 NEW forgiven \in BOOLEAN,
                 call' = [call EXCEPT !.pc = pc, !.step = step, !.forgiven = forgiven]
          PROVE  CallInv'
      <3>1. call' \in Calls /\ call'.by = call.by /\ call'.route = call.route
        BY <2>3 DEF Calls
      <3> QED
        BY <1>1, <2>3, <3>1 DEF Inv, CallInv
    <2>4. ASSUME call \in Calls, call.pc \in {"working", "emitted"}, NEW pc \in {"emitted", "done"},
                 call' = [call EXCEPT !.pc = pc]
          PROVE  CallInv'
      <3>1. call' \in Calls /\ call'.by = call.by /\ call'.route = call.route
        BY <2>4 DEF Calls
      <3> QED
        BY <1>1, <2>4, <3>1 DEF Inv, CallInv
    <2>5. CASE Emit
      <3>1. call \in Calls /\ call.pc = "working"
        BY <2>5 DEF Emit, Inv, CallInv, NoCall
      <3>2. call' = [call EXCEPT !.pc = "emitted"] \/ Refused(call.by, "emit")
        BY <2>5 DEF Emit
      <3> QED
        BY <1>2, <2>3, <2>4, <3>1, <3>2 DEF Refused
    <2>6. CASE Answer
      <3>1. call \in Calls /\ call.pc = "emitted"
        BY <2>6 DEF Answer, Inv, CallInv, NoCall
      <3>2. call' = [call EXCEPT !.pc = "done"] \/ Refused(call.by, "reply") \/ Refused(call.by, "ack")
        BY <2>6 DEF Answer
      <3> QED
        BY <1>2, <2>3, <2>4, <3>1, <3>2 DEF Refused
    <2>7. CASE Tick
      <3>1. PICK age \in Waits : call' = [call EXCEPT !.age = age]
        BY <2>7 DEF Tick
      <3>2. call \in Calls /\ age \in Nat
        BY <2>7, BoundAssumption DEF Tick, Inv, CallInv, NoCall
      <3>3. call' \in Calls /\ call'.by = call.by /\ call'.route = call.route /\ call'.pc = call.pc
        BY <3>1, <3>2 DEF Calls
      <3> QED
        BY <1>1, <3>3 DEF Inv, CallInv
    <2> QED
      BY <2>1, <2>2, <2>5, <2>6, <2>7
  <1>4. TypeOK'
    <2>1. call'.pc \in {"none", "asked", "working", "emitted", "done", "refused"}
      BY <1>3 DEF CallInv, NoCall, Calls
    <2> QED
      BY <1>1, <1>3, <2>1 DEF Inv, TypeOK, CallInv, files
  <1> QED
    BY <1>1, <1>3, <1>4 DEF Inv, KeysInv, Written, ProcessInv, OwnSubjects, files

LEMMA InvNext == Inv /\ [Next]_vars => Inv'
  <1> SUFFICES ASSUME Inv, [Next]_vars PROVE Inv'
    OBVIOUS
  <1>1. CASE UNCHANGED vars
    BY <1>1 DEF vars, files, Inv, TypeOK, KeysInv, Written, ProcessInv, OwnSubjects, CallInv
  <1> QED
    BY <1>1, GeneratorKeeps, ServerKeeps, BootKeeps, StopKeeps, CallKeeps DEF Next

-----------------------------------------------------------------------------
(* The theorems *)

\* Every variable keeps its type, and whoever works on a dispatch runs.
THEOREM TypeCorrect == Spec => []TypeOK
  <1>1. Inv => TypeOK
    BY DEF Inv
  <1> QED
    BY InvInit, InvNext, <1>1, PTL DEF Spec

\* What generate-auth.ts --check passes lets everybody in: no run cut short
\* between two files leaves a credential the check does not see.
THEOREM HonestCheck == Spec => []CheckIsHonest
  <1>1. Inv => CheckIsHonest
    <2> SUFFICES ASSUME Inv, checkPasses, server.keys = conf.keys, NEW user \in Users
                 PROVE  known(user, env[user], server)
      BY DEF CheckIsHonest
    <2>1. conf.keys[user] = nk[user] /\ nk[user] \in Int
      BY DEF checkPasses, Inv, TypeOK, Keys
    <2>2. env[user] = nk[user]
      BY <2>1 DEF Inv, KeysInv
    <2> QED
      BY <2>1, <2>2 DEF known
  <1> QED
    BY InvInit, InvNext, <1>1, PTL DEF Spec

\* "Only its owner is" subscribed: a dispatch is worked on under the
\* credential of the operation's owner, whoever holds whose credential.
THEOREM OwnersWork == Spec => []OnlyTheOwnerWorks
  <1>1. Inv => OnlyTheOwnerWorks
    BY DEF Inv, CallInv, OnlyTheOwnerWorks
  <1> QED
    BY InvInit, InvNext, <1>1, PTL DEF Spec

-----------------------------------------------------------------------------
(* What is granted *)

\* There is one command, and no caller waits longer than the reply window.
LEMMA Declared ==
    ASSUME NEW r \in RESOURCE_KEYS, NEW o \in operationsOf(r)
    PROVE  /\ ruleFor(r, o).transport = "rpc"
                \/ (ruleFor(r, o).transport = "command" /\ r = "member" /\ o = "create")
           /\ ruleFor(r, o).timeoutMs \in Nat /\ ruleFor(r, o).timeoutMs <= ReplyWindow
  <1> USE DEF RESOURCES, ruleFor, operationsOf, isOperationOf, OPERATIONS, Op, ReplyWindow
  <1>1. CASE r = "organization"
    BY <1>1 DEF OrganizationResource
  <1>2. CASE r = "membership"
    BY <1>2 DEF MembershipResource
  <1>3. CASE r = "project"
    BY <1>3 DEF ProjectResource
  <1>4. CASE r = "member"
    BY <1>4 DEF MemberResource
  <1>5. CASE r = "invitation"
    BY <1>5 DEF InvitationResource
  <1>6. CASE r = "billing"
    BY <1>6 DEF BillingResource
  <1>7. CASE r = "auditLog"
    BY <1>7 DEF AuditLogResource
  <1> QED
    BY <1>1, <1>2, <1>3, <1>4, <1>5, <1>6, <1>7, Resources

permissionOf(r) == <<r.resource, r.operation>>

LEMMA DeclaredRoute ==
    ASSUME NEW r \in ROUTES
    PROVE  /\ r.transport = "rpc" \/ (r.transport = "command" /\ permissionOf(r) = <<"member", "create">>)
           /\ ruleFor(r.resource, r.operation).timeoutMs <= ReplyWindow
  BY RouteOfPermission, Declared DEF permissionOf

\* The routes an owner is granted are granted it as a service.
LEMMA OwnerIsService ==
    ASSUME NEW user, NEW build, NEW r \in owned(user, build)
    PROVE  permissionsOf(user, build) = serviceUser(user, build)
  <1>1. user \in {"identity", "projects", "billing", "audit"}
    BY RouteOfPermission, Owners DEF owned, routesOf
  <1> QED
    BY <1>1, Zenon DEF permissionsOf

\* Whatever a route's owner has to say and hear on its way.
LEMMA OwnerMay ==
    ASSUME NEW user, NEW build, NEW r \in owned(user, build)
    PROVE  LET may == permissionsOf(user, build)
           IN  /\ r.event = NoSubject \/ r.event \in may.publish
               /\ inbox(user) \in may.subscribe
               /\ r.transport = "rpc" => r.subject \in may.subscribe /\ may.allowResponses
               /\ r.transport = "command" => Ack("CMD") \in may.publish
  <1> DEFINE serves == {q.subject : q \in {q \in owned(user, build) : q.transport = "rpc"}}
             emits  == {q.event : q \in owned(user, build)} \ {NoSubject}
             reads  == consumed(user, build)
             jetstream == IF reads = {} THEN {}
                          ELSE {JS_API_INFO} \cup {Ack(s) : s \in DOMAIN STREAMS}
                                 \cup UNION {consumerApi(s) : s \in reads}
  <1>1. permissionsOf(user, build)
          = [publish |-> emits \cup jetstream, subscribe |-> serves \cup {inbox(user)},
             allowResponses |-> (serves # {})]
    BY OwnerIsService, Zenon DEF serviceUser, Permissions
  <1>2. r.event = NoSubject \/ r.event \in emits
    OBVIOUS
  <1>3. r.transport = "rpc" => r.subject \in serves
    OBVIOUS
  <1>4. ASSUME r.transport = "command" PROVE Ack("CMD") \in jetstream
    <2>1. "CMD" \in reads
      BY <1>4, Streams DEF consumed
    <2> HIDE DEF reads
    <2> QED
      BY <2>1, Streams
  <1> HIDE DEF serves, emits, jetstream
  <1>5. /\ permissionsOf(user, build).publish = emits \cup jetstream
        /\ permissionsOf(user, build).subscribe = serves \cup {inbox(user)}
        /\ permissionsOf(user, build).allowResponses = (serves # {})
    BY <1>1
  <1>6. r.transport = "rpc" => permissionsOf(user, build).allowResponses
    BY <1>3, <1>5
  <1> QED
    BY <1>2, <1>3, <1>4, <1>5, <1>6

\* The gateway may ask for every route.
LEMMA GatewayMay ==
    ASSUME NEW build, NEW r \in routesOf(build)
    PROVE  LET may == permissionsOf("gateway", build)
           IN  r.subject \in may.publish /\ inbox("gateway") \in may.subscribe
  <1>1. permissionsOf("gateway", build)
          = Permissions({q.subject : q \in routesOf(build)}, {inbox("gateway")}, FALSE)
    BY Zenon DEF permissionsOf, gatewayUser
  <1> QED
    BY <1>1 DEF Permissions

\* What a process serves is its registry's, and all of it if it was started
\* with its own credential on a server that knew that registry.
ServedInv(p) ==
    /\ process[p].serving \subseteq served(p, process[p].build)
    /\ p # "gateway" /\ process[p].user = p /\ ~process[p].early
         => process[p].serving = served(p, process[p].build)

\* Who works on a dispatch has its operation in the registry it was started from.
WorkInv ==
    call.pc \in {"working", "emitted"} => permissionOf(call.route) \in process[call.by].build

GrantInv ==
    /\ \A p \in Programs : process[p].up => ServedInv(p)
    /\ WorkInv /\ StepsAreGranted /\ RepliesAreGranted

\* Whatever leaves the processes in what they are and the dispatch where it is.
LEMMA GrantStays ==
    ASSUME Inv, GrantInv, call' \in {call, NoCall},
           \A p \in Programs : process'[p].up =>
              /\ process[p].up /\ process'[p].user = process[p].user
              /\ process'[p].build = process[p].build /\ process'[p].serving = process[p].serving
              /\ process'[p].early = process[p].early,
           call' = call /\ call.pc \in {"working", "emitted"} => process'[call.by].up
    PROVE  GrantInv'
  <1>1. \A p \in Programs : process'[p].up => ServedInv(p)'
    BY DEF GrantInv, ServedInv
  <1>2. WorkInv'
    BY DEF GrantInv, WorkInv, Inv, CallInv, NoCall
  <1>3. StepsAreGranted' /\ RepliesAreGranted'
    BY DEF GrantInv, StepsAreGranted, RepliesAreGranted, NoCall
  <1> QED
    BY <1>1, <1>2, <1>3 DEF GrantInv

LEMMA BootGrants == ASSUME Inv, GrantInv, NEW p \in Programs, Boot(p) PROVE GrantInv'
  <1>1. ~process[p].up /\ UNCHANGED call
    BY DEF Boot
  <1>2. PICK user : IF p = "gateway" THEN BootGateway(user) ELSE BootService(p, user)
    BY DEF Boot
  <1>0. CASE process' = [process EXCEPT ![p] = Barred(p, user)]
    <2>1. ~process'[p].up /\ \A q \in Programs \ {p} : process'[q] = process[q]
      BY <1>0 DEF Barred, Inv, ProcessInv
    <2>2. call.pc \in {"working", "emitted"} => call.by \in Programs /\ process[call.by].up
      BY DEF Inv, CallInv
    <2> QED
      BY <1>1, <2>1, <2>2, GrantStays
  <1> SUFFICES ASSUME process' # [process EXCEPT ![p] = Barred(p, user)] PROVE GrantInv'
    BY <1>0
  <1>3. PICK link, serving :
          /\ process' = [process EXCEPT ![p] = Process(user, link, serving)]
          /\ IF p = "gateway" THEN serving = {}
             ELSE serving = served(p, source) \cap permissionsOf(user, server.build).subscribe
    <2>1. CASE p = "gateway"
      BY <1>2, <2>1, Zenon DEF BootGateway
    <2>2. CASE p # "gateway"
      BY <1>2, <2>2, Zenon DEF BootService
    <2> QED
      BY <2>1, <2>2
  <1>4. /\ process'[p].user = user /\ process'[p].build = source /\ process'[p].serving = serving
        /\ process'[p].early = ~(source \subseteq server.build)
        /\ \A q \in Programs \ {p} : process'[q] = process[q]
    BY <1>3 DEF Process, Inv, ProcessInv
  <1>5. ASSUME p # "gateway", user = p, source \subseteq server.build, NEW subject \in served(p, source)
        PROVE  subject \in permissionsOf(user, server.build).subscribe
    <2>1. PICK r \in owned(p, source) : r.transport = "rpc" /\ subject = r.subject
      BY <1>5 DEF served
    <2>2. r \in owned(p, server.build)
      BY <1>5, <2>1 DEF owned, routesOf
    <2> QED
      BY <1>5, <2>1, <2>2, OwnerMay
  <1>6. ServedInv(p)'
    BY <1>3, <1>4, <1>5 DEF ServedInv
  <1>7. ASSUME NEW q \in Programs \ {p}, process'[q].up PROVE ServedInv(q)'
    BY <1>4, <1>7 DEF GrantInv, ServedInv
  <1>8. WorkInv'
    <2>1. call.pc \in {"working", "emitted"} => call.by \in Programs \ {p}
      BY <1>1 DEF Inv, CallInv
    <2> QED
      BY <1>1, <1>4, <2>1 DEF GrantInv, WorkInv
  <1>9. StepsAreGranted' /\ RepliesAreGranted'
    BY <1>1 DEF GrantInv, StepsAreGranted, RepliesAreGranted
  <1> QED
    BY <1>6, <1>7, <1>8, <1>9 DEF GrantInv

\* Who works on a dispatch and needs nothing forgiven is granted all of it.
LEMMA WorkerMay ==
    ASSUME Inv, GrantInv, call.pc \in {"working", "emitted"}, matches(call.by)
    PROVE  call.route \in owned(call.by, server.build)
  <1>1. call.route \in ROUTES /\ call.route.owner = call.by
    BY DEF Inv, CallInv, Calls, NoCall, matches
  <1>2. permissionOf(call.route) \in server.build
    BY DEF GrantInv, WorkInv, matches
  <1> QED
    BY <1>1, <1>2 DEF owned, routesOf, permissionOf

LEMMA TakeGrants == ASSUME Inv, GrantInv, NEW p \in Programs, Take(p) PROVE GrantInv'
  <1>1. /\ call \in Calls /\ call.route \in ROUTES /\ process[p].up /\ ServedInv(p)
        /\ call' = [call EXCEPT !.pc = "working", !.by = p] /\ UNCHANGED process
    BY DEF Take, linked, Inv, CallInv, NoCall, Calls, GrantInv
  <1>2. call'.pc = "working" /\ call'.by = p /\ call'.route = call.route
    BY <1>1 DEF Calls
  <1>3. PICK r \in owned(p, process[p].build) : permissionOf(r) = permissionOf(call.route)
    <2>1. CASE call.route.transport = "rpc"
      <3>1. call.route.subject \in served(p, process[p].build)
        BY <1>1, <2>1 DEF Take, ServedInv
      <3>2. PICK r \in owned(p, process[p].build) : r.subject = call.route.subject
        BY <3>1 DEF served
      <3>3. r \in ROUTES
        BY DEF owned, routesOf
      <3> QED
        BY <1>1, <3>2, <3>3, RouteOfPermission DEF permissionOf
    <2>2. CASE call.route.transport # "rpc"
      <3>1. "CMD" \in consumed(p, process[p].build)
        BY <2>2, Streams DEF Take
      <3>2. PICK r \in owned(p, process[p].build) : r.transport = "command"
        BY <3>1, Streams DEF consumed
      <3>3. r \in ROUTES
        BY DEF owned, routesOf
      <3> QED
        BY <1>1, <2>2, <3>2, <3>3, DeclaredRoute
    <2> QED
      BY <2>1, <2>2
  <1>4. permissionOf(call.route) \in process[p].build
    BY <1>3 DEF owned, routesOf, permissionOf
  <1> QED
    BY <1>1, <1>2, <1>4 DEF GrantInv, ServedInv, WorkInv, StepsAreGranted, RepliesAreGranted

LEMMA AskGrants == ASSUME Inv, GrantInv, Ask PROVE GrantInv'
  <1>1. linked("gateway") /\ UNCHANGED <<server, process>>
    BY DEF Ask
  <1>2. PICK permission \in process["gateway"].build :
          LET asked == Asked(routeOf(permission))
          IN  call' = IF mayPublish("gateway", asked.route.subject) /\ mayListen("gateway")
                      THEN asked
                      ELSE [asked EXCEPT !.pc = "refused", !.step = "ask", !.forgiven = ~matches("gateway")]
    BY DEF Ask
  <1> DEFINE route == routeOf(permission)
             asked == Asked(route)
  <1>3. process["gateway"] \in Processes
    BY <1>1, UserAssumption DEF linked, Inv, ProcessInv, Stopped, Halts
  <1>4. permission \in PERMISSIONS
    BY <1>2, <1>3, BuildAssumption DEF Processes
  <1>5. route \in ROUTES /\ permissionOf(route) = permission
    BY <1>4, RouteOf DEF PERMISSIONS, permissionOf
  <1>6. ASSUME matches("gateway") PROVE mayPublish("gateway", route.subject) /\ mayListen("gateway")
    <2>1. process["gateway"].user = "gateway" /\ route \in routesOf(server.build)
      BY <1>2, <1>5, <1>6 DEF matches, routesOf, permissionOf
    <2> HIDE DEF route
    <2> QED
      BY <2>1, GatewayMay DEF mayPublish, mayListen, grants
  <1>7. asked.route = route /\ asked.pc = "asked"
    BY DEF Asked
  <1>8. \/ call' = asked
        \/ call' = [asked EXCEPT !.pc = "refused", !.step = "ask", !.forgiven = ~matches("gateway")]
           /\ ~matches("gateway")
    BY <1>2, <1>6, <1>7
  <1>9. call'.pc = "asked" \/ (call'.pc = "refused" /\ call'.step = "ask" /\ call'.forgiven = TRUE)
    <2> DEFINE forgiven == ~matches("gateway")
    <2>1. \A p : matches(p) \in BOOLEAN
      BY DEF matches
    <2>2. ~matches("gateway") => forgiven = TRUE
      BY <2>1
    <2>3. call' = asked \/ (call' = [asked EXCEPT !.pc = "refused", !.step = "ask", !.forgiven = forgiven]
                              /\ forgiven = TRUE)
      BY <1>8, <2>2
    <2>4. asked \in Calls
      BY <1>5 DEF Asked, Calls
    <2>5. forgiven \in BOOLEAN
      BY <2>1
    <2> HIDE DEF forgiven, asked
    <2> QED
      BY <1>7, <2>3, <2>4, <2>5 DEF Calls
  <1> QED
    BY <1>1, <1>9 DEF GrantInv, ServedInv, WorkInv, StepsAreGranted, RepliesAreGranted

\* A refusal is forgiven, or an answer nobody waits for.
LEMMA WorkGrants == ASSUME Inv, GrantInv, Emit \/ Answer PROVE GrantInv'
  <1>1. /\ call \in Calls /\ call.pc \in {"working", "emitted"} /\ call.route \in ROUTES
        /\ UNCHANGED <<server, process>>
    BY DEF Emit, Answer, Inv, CallInv, NoCall, Calls
  <1> DEFINE p == call.by
             Late == call.age >= ruleFor(call.route.resource, call.route.operation).timeoutMs
  <1>2. ASSUME matches(p)
        PROVE  /\ call.route.event = NoSubject \/ mayPublish(p, call.route.event)
               /\ mayListen(p)
               /\ call.route.transport = "rpc" => grants(p).allowResponses
               /\ call.route.transport = "command" => mayPublish(p, Ack("CMD"))
    <2>1. call.route \in owned(p, server.build) /\ process[p].user = p
      BY <1>1, <1>2, WorkerMay DEF matches
    <2> HIDE DEF p
    <2> QED
      BY <2>1, OwnerMay DEF mayPublish, mayListen, grants
  <1>3. \/ call' = [call EXCEPT !.pc = "emitted"] /\ call.pc = "working"
        \/ call' = [call EXCEPT !.pc = "done"]
        \/ Refused(p, "emit") /\ ~matches(p)
        \/ Refused(p, "ack") /\ ~matches(p)
        \/ Refused(p, "reply") /\ (~matches(p) \/ Late)
    <2>1. CASE Emit
      BY <1>2, <2>1 DEF Emit
    <2>2. CASE Answer
      <3>1. ruleFor(call.route.resource, call.route.operation).timeoutMs <= ReplyWindow
            /\ (call.route.transport = "rpc" \/ call.route.transport = "command")
        BY <1>1, DeclaredRoute
      <3>2. ASSUME call.age \in Nat, ~(call.age < ReplyWindow) PROVE Late
        <4>1. ruleFor(call.route.resource, call.route.operation).timeoutMs \in Nat
          BY <1>1, RouteOfPermission, Declared
        <4> QED
          BY <3>1, <3>2, <4>1 DEF ReplyWindow
      <3>3. call.age \in Nat
        BY <1>1 DEF Calls
      <3> QED
        BY <1>2, <2>2, <3>1, <3>2, <3>3, Streams DEF Answer
    <2> QED
      BY <2>1, <2>2
  <1>4. \/ call'.pc = "emitted" /\ call.pc = "working" /\ call'.route = call.route /\ call'.by = call.by
        \/ call'.pc = "done"
        \/ call'.pc = "refused" /\ call'.forgiven = TRUE
        \/ call'.pc = "refused" /\ call'.step = "reply" /\ call'.route = call.route
           /\ call'.age = call.age /\ (call'.forgiven = TRUE \/ Late)
    BY <1>1, <1>3 DEF Refused, Calls
  <1> QED
    BY <1>1, <1>4 DEF GrantInv, ServedInv, WorkInv, StepsAreGranted, RepliesAreGranted

LEMMA TickGrants == ASSUME Inv, GrantInv, Tick PROVE GrantInv'
  <1>1. PICK age \in Waits : call' = [call EXCEPT !.age = age]
    BY DEF Tick
  <1>2. call \in Calls /\ call.pc # "refused" /\ UNCHANGED process
    BY DEF Tick, Inv, CallInv, NoCall
  <1>3. call'.pc = call.pc /\ call'.by = call.by /\ call'.route = call.route
    BY <1>1, <1>2 DEF Calls
  <1> QED
    BY <1>2, <1>3 DEF GrantInv, ServedInv, WorkInv, StepsAreGranted, RepliesAreGranted

LEMMA GrantNext == Inv /\ GrantInv /\ [Next]_vars => GrantInv'
  <1> SUFFICES ASSUME Inv, GrantInv, [Next]_vars PROVE GrantInv'
    OBVIOUS
  <1>1. call.pc \in {"working", "emitted"} => process[call.by].up
    BY DEF Inv, TypeOK
  <1>2. CASE \/ Edit \/ Generate \/ WriteSeed \/ WriteEnv \/ WriteConf \/ Interrupt
             \/ ServerStops \/ Bootstrap \/ UNCHANGED vars
    <2>1. UNCHANGED process /\ call' \in {call, NoCall}
      BY <1>2 DEF Edit, Generate, WriteSeed, WriteEnv, WriteConf, Interrupt, ServerStops, Bootstrap, vars
    <2> QED
      BY <1>1, <2>1, GrantStays
  <1>3. CASE ServerStarts
    <2>1. /\ UNCHANGED call
          /\ process' = [p \in Programs |->
               IF process[p].up /\ process[p].link = "open" /\ ~known(process[p].user, process[p].seed, conf)
               THEN [process[p] EXCEPT !.link = "dead"] ELSE process[p]]
      BY <1>3 DEF ServerStarts
    <2>2. ASSUME NEW p \in Programs
          PROVE  /\ process'[p].up = process[p].up
                 /\ process[p].up =>
                      /\ process'[p].user = process[p].user /\ process'[p].build = process[p].build
                      /\ process'[p].serving = process[p].serving /\ process'[p].early = process[p].early
      <3>1. process[p].up => process[p] \in Processes
        BY DEF Inv, ProcessInv, Stopped, Halts
      <3>2. process'[p] = process[p] \/ (process[p].up /\ process'[p] = [process[p] EXCEPT !.link = "dead"])
        BY <2>1
      <3> QED
        BY <3>1, <3>2 DEF Processes
    <2>3. call.pc \in {"working", "emitted"} => call.by \in Programs
      BY DEF Inv, CallInv
    <2> QED
      BY <1>1, <2>1, <2>2, <2>3, GrantStays
  <1>4. ASSUME NEW p \in Programs, Stop(p) PROVE GrantInv'
    <2>1. /\ process' = [process EXCEPT ![p] = Stopped]
          /\ call' = IF call.pc # "none" /\ p \in {call.by, "gateway"} THEN NoCall ELSE call
      BY <1>4 DEF Stop
    <2>2. \A q \in Programs : process'[q] = IF q = p THEN Stopped ELSE process[q]
      BY <2>1 DEF Inv, ProcessInv
    <2>3. call' = call /\ call.pc \in {"working", "emitted"} => call.by \in Programs \ {p}
      BY <2>1 DEF Inv, CallInv, NoCall
    <2> QED
      BY <1>1, <2>1, <2>2, <2>3, GrantStays DEF Stopped
  <1>5. CASE Connect
    <2>1. UNCHANGED call /\ process["gateway"].up
      BY <1>5 DEF Connect
    <2>2. PICK link : process' = [process EXCEPT !["gateway"].link = link]
      BY <1>5 DEF Connect
    <2>3. process["gateway"] \in Processes /\ "gateway" \in Programs
      BY <2>1, UserAssumption DEF Inv, ProcessInv, Stopped, Halts
    <2>4. \A q \in Programs :
            /\ process'[q].up = process[q].up /\ process'[q].user = process[q].user
            /\ process'[q].build = process[q].build /\ process'[q].serving = process[q].serving
            /\ process'[q].early = process[q].early
      BY <2>2, <2>3 DEF Inv, ProcessInv, Processes
    <2>5. call.pc \in {"working", "emitted"} => call.by \in Programs
      BY DEF Inv, CallInv
    <2> QED
      BY <1>1, <2>1, <2>4, <2>5, GrantStays
  <1> QED
    BY <1>2, <1>3, <1>4, <1>5, BootGrants, TakeGrants, AskGrants, WorkGrants, TickGrants DEF Next

\* A registry that grows leaves a service with all it needed to consume.
LEMMA ConsumerMay ==
    ASSUME NEW p \in Services, NEW build, NEW larger, build \subseteq larger
    PROVE  LET reads == consumed(p, build)
               needs == IF reads = {} THEN {} ELSE {JS_API_INFO} \cup UNION {ConsumerNeeds(s) : s \in reads}
           IN  needs \subseteq permissionsOf(p, larger).publish
  <1> DEFINE reads == consumed(p, build)
             more  == consumed(p, larger)
             serves == {q.subject : q \in {q \in owned(p, larger) : q.transport = "rpc"}}
             emits  == {q.event : q \in owned(p, larger)} \ {NoSubject}
             jetstream == IF more = {} THEN {}
                          ELSE {JS_API_INFO} \cup {Ack(s) : s \in DOMAIN STREAMS}
                                 \cup UNION {consumerApi(s) : s \in more}
  <1>1. CASE reads = {}
    BY <1>1
  <1>2. CASE reads # {}
    <2>1. owned(p, build) \subseteq owned(p, larger)
      BY DEF owned, routesOf
    <2>2. reads \subseteq more
      BY <2>1 DEF consumed
    <2>3. owned(p, build) # {} \/ p \in EVENT_CONSUMERS
      BY <1>2 DEF consumed
    <2>4. p \in {"identity", "projects", "billing", "audit"}
      BY <2>3, RouteOfPermission, Owners, Resources DEF owned, routesOf, EVENT_CONSUMERS
    <2>5. permissionsOf(p, larger) = serviceUser(p, larger)
      BY <2>4, Zenon DEF permissionsOf
    <2>6. permissionsOf(p, larger)
            = [publish |-> emits \cup jetstream, subscribe |-> serves \cup {inbox(p)},
               allowResponses |-> (serves # {})]
      BY <2>5, Zenon DEF serviceUser, Permissions
    <2>7. \A s : ConsumerNeeds(s) \subseteq consumerApi(s)
      BY DEF ConsumerNeeds, consumerApi
    <2> HIDE DEF reads, more, serves, emits
    <2>8. {JS_API_INFO} \cup UNION {ConsumerNeeds(s) : s \in reads} \subseteq jetstream
      BY <1>2, <2>2, <2>7
    <2> HIDE DEF jetstream
    <2>9. permissionsOf(p, larger).publish = emits \cup jetstream
      BY <2>6
    <2> QED
      BY <1>2, <2>8, <2>9 DEF reads
  <1> QED
    BY <1>1, <1>2

\* Only a start can be barred, and it is then for something to be forgiven.
LEMMA ConsumersNext == Inv /\ ConsumersAreGranted /\ [Next]_vars => ConsumersAreGranted'
  <1> SUFFICES ASSUME Inv, ConsumersAreGranted, [Next]_vars, NEW p \in Services
               PROVE  process'[p].up \/ process'[p].barred # "wronged"
    BY DEF ConsumersAreGranted
  <1>1. p \in Programs /\ p # "gateway" /\ process \in [Programs -> Halts \cup Processes]
    BY DEF Services, Inv, ProcessInv
  <1>2. CASE process'[p] = process[p]
    BY <1>2 DEF ConsumersAreGranted
  <1>3. CASE process'[p].up
    BY <1>3
  <1>4. CASE process'[p] = Stopped
    BY <1>4 DEF Stopped
  <1>5. ASSUME NEW q \in Programs, Boot(q), process'[p] # process[p], ~process'[p].up
        PROVE  process'[p].barred # "wronged"
    <2>1. PICK user : IF q = "gateway" THEN BootGateway(user) ELSE BootService(q, user)
      BY <1>5 DEF Boot
    <2>2. q = p
      BY <1>1, <1>5, <2>1 DEF BootGateway, BootService
    <2>3. BootService(p, user)
      BY <1>1, <2>1, <2>2
    <2>4. process' # [process EXCEPT ![p] = Process(user, "open",
                          served(p, source) \cap permissionsOf(user, server.build).subscribe)]
      BY <1>1, <1>5 DEF Process
    <2> DEFINE reads == consumed(p, source)
               needs == IF reads = {} THEN {} ELSE {JS_API_INFO} \cup UNION {ConsumerNeeds(s) : s \in reads}
    <2>5. /\ ~(needs \subseteq permissionsOf(user, server.build).publish)
          /\ process' = [process EXCEPT ![p] = Barred(p, user)]
      BY <2>3, <2>4, Zenon DEF BootService
    <2>6. ~(user = p /\ source \subseteq server.build)
      BY <2>5, ConsumerMay
    <2> QED
      BY <1>1, <2>5, <2>6 DEF Barred
  <1>6. CASE ServerStarts
    <2>1. process'[p] = process[p] \/ (process[p].up /\ process'[p] = [process[p] EXCEPT !.link = "dead"])
      BY <1>1, <1>6 DEF ServerStarts
    <2>2. process[p].up => process[p] \in Processes
      BY <1>1 DEF Halts
    <2> QED
      BY <1>2, <1>3, <2>1, <2>2 DEF Processes
  <1>7. CASE \E q \in Programs : Stop(q)
    <2>1. process'[p] \in {process[p], Stopped}
      BY <1>1, <1>7 DEF Stop
    <2> QED
      BY <1>2, <1>4, <2>1
  <1>8. CASE Connect
    BY <1>1, <1>2, <1>8 DEF Connect
  <1>9. CASE UNCHANGED process
    BY <1>2, <1>9
  <1> QED
    BY <1>2, <1>3, <1>5, <1>6, <1>7, <1>8, <1>9
    DEF Next, vars, Edit, Generate, WriteSeed, WriteEnv, WriteConf, Interrupt, ServerStops, Bootstrap,
        Take, Ask, Emit, Answer, Tick

\* "Nothing here is a hand-written subject": a process with its own credential,
\* on a server that knows the registry it was started from, gets every step of
\* a dispatch through, and a reply as long as somebody waits for it.
THEOREM AllGranted == Spec => []NothingIsRefused
  <1>1. Init => GrantInv
    BY DEF Init, GrantInv, WorkInv, StepsAreGranted, RepliesAreGranted, Stopped, NoCall
  <1>2. GrantInv => StepsAreGranted /\ RepliesAreGranted /\ SubscriptionsAreGranted
    BY DEF GrantInv, ServedInv, SubscriptionsAreGranted, Services
  <1>3. Init => ConsumersAreGranted
    BY DEF Init, ConsumersAreGranted, Services, Stopped
  <1> QED
    BY InvInit, InvNext, GrantNext, ConsumersNext, <1>1, <1>2, <1>3, PTL DEF Spec, NothingIsRefused
=============================================================================

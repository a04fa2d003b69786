------------------------------ MODULE Identity ------------------------------
(***************************************************************************)
(* The identity service's handlers on its three tables                     *)
(* (services/identity/src/index.ts, identity.service.ts and schema.ts).    *)
(*                                                                         *)
(* A handler is a task that is suspended at every database call; the       *)
(* tasks of the service's replicas interleave there.  A task's context -   *)
(* organisation, user and role - is what the gateway signed when the call  *)
(* was made, however much the tables have changed since.  The operations   *)
(* are the registry's (resource, operation) pairs; those that only read    *)
(* are left out.                                                           *)
(***************************************************************************)
EXTENDS Registry

CONSTANTS
    Tasks,      \* handler invocations that may run at once
    Kinds,      \* the operations called, a subset of Mutations
    Users, Slugs, Emails,
    MaxDeliver, \* max_deliver of the command's consumer
    InitialOrganizations, InitialMembers,  \* tables the service may start on
    FirstId,    \* the first id the initial rows do not use
    MaxId,      \* bound: ids are handed out below this one
    MaxCommands \* bound: the commands ever published

Mutations ==
    {<<"organization", "create">>, <<"organization", "update">>, <<"organization", "delete">>,
     <<"member", "create">>, <<"member", "update">>, <<"member", "delete">>,
     <<"membership", "delete">>, <<"invitation", "delete">>}

ASSUME KindsAssumption == Kinds \subseteq Mutations

ASSUME IdAssumption == FirstId \in Nat /\ MaxId \in Nat

\* The tables a service finds: keys are unique and rows belong to organisations.
ASSUME TableAssumption ==
    \A O \in InitialOrganizations, M \in InitialMembers :
        /\ O \subseteq [id : 1..(FirstId - 1), slug : {o.slug : o \in O}]
        /\ M \subseteq [id : 1..(FirstId - 1), org : {o.id : o \in O}, user : Users,
                        role : Seq(STRING)]
        /\ \A o, p \in O : o.slug = p.slug \/ o.id = p.id => o = p
        /\ \A m, n \in M : m.id = n.id => m = n

VARIABLES
    organization,   \* the organisations that exist, [id, slug]
    member,         \* member rows [id, org, user, role], role the claims of the text column
    invitation,     \* pending invitation rows [id, org, email, role]
    nextId,         \* ids are random UUIDs: never used twice
    task,           \* task[t]: Idle or the handler invocation under way
    command         \* the commands published, each with the call it carries, its
                    \* deliveries, whether it is acknowledged, and how many
                    \* invitations were inserted for it

tables == <<organization, member, invitation, nextId>>
vars == <<tables, task, command>>

-----------------------------------------------------------------------------
(* Values and queries *)

Idle == [pc |-> "idle"]

Exists(org) == \E o \in organization : o.id = org

MembersOf(org) == {m \in member : m.org = org}

\* The rows of assertNotTheLastOwner, the role column normalised.
OwnersOf(org) == {m \in MembersOf(org) : normalizeRole(m.role) = HIGHEST_ROLE}

slugTaken(slug) == \E o \in organization : o.slug = slug

\* Slip: the UPDATE and the DELETE name the row and forget the organisation.
memberAnywhere(org, id) == {m \in member : m.id = id}

\* memberIn: one row by id, scoped to the organisation.
memberIn(org, id) == {m \in member : m.org = org /\ m.id = id}

\* membershipOf: the caller's own row.
membershipOf(org, user) == {m \in member : m.org = org /\ m.user = user}

Invitations(org) == {i \in invitation : i.org = org}

-----------------------------------------------------------------------------
(* The start of a call: what the gateway let through *)

\* The bodies the contracts let through, by kind.
Inputs(kind) ==
    CASE kind = <<"organization", "create">> -> [slug : Slugs]
      [] kind = <<"organization", "update">> -> [slug : Slugs]
      [] kind = <<"member", "create">> -> [email : Emails, role : {"member", "owner"}]
      [] kind = <<"member", "update">> -> [member : {m.id : m \in member}, role : {"member", "owner"}]
      [] kind = <<"member", "delete">> -> [member : {m.id : m \in member}]
      [] kind = <<"invitation", "delete">> -> [invitation : {i.id : i \in invitation}]
      [] OTHER -> {[none |-> TRUE]}

IsCommand(kind) == ruleFor(kind[1], kind[2]).transport = "command"

NamedIn(input) == IF "role" \in DOMAIN input THEN input.role ELSE NoRole

MayCall(kind, m, input) ==
    LET r == normalizeRole(m.role)
    IN  can(permissionsForRole(r), kind[1], kind[2]) /\ ~refusedRole(NamedIn(input), r)

\* What the gateway signs for a call of m's.
Signed(kind, m, input) ==
    [pc |-> "read", kind |-> kind, org |-> m.org, user |-> m.user,
     role |-> normalizeRole(m.role), input |-> input, command |-> 0]

\* The calls of these kinds the members' roles allow now; the handler runs later.
LetThrough(kinds) ==
    UNION {{Signed(kind, m, input) : input \in {i \in Inputs(kind) : MayCall(kind, m, i)}}
             : kind \in kinds, m \in member}

CallRpc(t) ==
    /\ task[t] = Idle
    /\ \E c \in LetThrough({k \in Kinds : ~IsCommand(k)}) : task' = [task EXCEPT ![t] = c]
    /\ UNCHANGED <<tables, command>>

PublishCommand ==
    /\ Len(command) < MaxCommands
    /\ \E c \in LetThrough({k \in Kinds : IsCommand(k)}) :
         command' = Append(command, [call |-> c, deliveries |-> 0, acked |-> FALSE])
    /\ UNCHANGED <<tables, task>>

\* The consumer of a replica takes a command that is not acknowledged: it is
\* new, its handler failed, or ack_wait ran out while the handler still runs.
DeliverCommand(t) ==
    /\ task[t] = Idle
    /\ \E r \in DOMAIN command :
         /\ ~command[r].acked
         /\ command[r].deliveries < MaxDeliver
         /\ command' = [command EXCEPT ![r].deliveries = @ + 1]
         /\ task' = [task EXCEPT ![t] = [command[r].call EXCEPT !.command = r]]
    /\ UNCHANGED tables

\* The handler returns or throws.
Done(t) == task' = [task EXCEPT ![t] = Idle]

Goto(t, pc) == task' = [task EXCEPT ![t].pc = pc]

At(t, kind, pc) == task[t] # Idle /\ task[t].kind = kind /\ task[t].pc = pc

-----------------------------------------------------------------------------
(* member.create: a durable command *)

\* Slip: the handler inserts without looking.
MemberCreateReadNothing(t) ==
    /\ At(t, <<"member", "create">>, "read")
    /\ Goto(t, "write")
    /\ UNCHANGED <<tables, command>>

\* Idempotence, as the handler has it: is such an invitation pending?  If so
\* the command is done; the acknowledgement may be lost.
MemberCreateRead(t) ==
    /\ At(t, <<"member", "create">>, "read")
    /\ IF \E i \in Invitations(task[t].org) : i.email = task[t].input.email
       THEN /\ Done(t)
            /\ command' = [command EXCEPT ![task[t].command].acked = TRUE] \/ UNCHANGED command
       ELSE Goto(t, "write") /\ UNCHANGED command
    /\ UNCHANGED tables

\* The insert; after it the event may not be published or the acknowledgement
\* be lost.
MemberCreateWrite(t) ==
    /\ At(t, <<"member", "create">>, "write")
    /\ nextId < MaxId
    /\ invitation' = invitation \cup
          {[id |-> nextId, org |-> task[t].org, email |-> task[t].input.email,
            role |-> task[t].input.role]}
    /\ nextId' = nextId + 1
    /\ \E acked \in {TRUE, command[task[t].command].acked} :
          command' = [command EXCEPT ![task[t].command].acked = acked]
    /\ Done(t)
    /\ UNCHANGED <<organization, member>>

-----------------------------------------------------------------------------
(* member.update, member.delete, membership.delete, invitation.delete *)

\* The role granted, then the target: an owner losing the role is counted first.
MemberUpdateRead(t) ==
    /\ At(t, <<"member", "update">>, "read")
    /\ LET target == memberIn(task[t].org, task[t].input.member)
           granted == task[t].input.role
       IN  IF ~roleAtLeast(task[t].role, granted) \/ target = {}
           THEN Done(t)
           ELSE IF granted # HIGHEST_ROLE
                   /\ \E m \in target : normalizeRole(m.role) = HIGHEST_ROLE
                THEN Goto(t, "count")
                ELSE Goto(t, "write")
    /\ UNCHANGED <<tables, command>>

\* setMemberRole: one UPDATE scoped to the organisation.
MemberUpdateWrite(t) ==
    /\ At(t, <<"member", "update">>, "write")
    /\ LET rows == memberIn(task[t].org, task[t].input.member)
       IN  member' = (member \ rows) \cup {[m EXCEPT !.role = <<task[t].input.role>>] : m \in rows}
    /\ Done(t)
    /\ UNCHANGED <<organization, invitation, nextId, command>>

\* removeMember on the row named in the body: one DELETE, nothing counted.
MemberDelete(t) ==
    /\ At(t, <<"member", "delete">>, "read")
    /\ member' = member \ memberIn(task[t].org, task[t].input.member)
    /\ Done(t)
    /\ UNCHANGED <<organization, invitation, nextId, command>>

\* Slip: the caller's own row is looked up by organisation only.
MembershipDeleteReadAny(t) ==
    /\ At(t, <<"membership", "delete">>, "read")
    /\ \E m \in MembersOf(task[t].org) :
          task' = [task EXCEPT ![t].input = [member |-> m.id],
                               ![t].pc = IF normalizeRole(m.role) = HIGHEST_ROLE
                                         THEN "count" ELSE "write"]
    /\ UNCHANGED <<tables, command>>

\* Leaving: the caller's own row; an owner is counted first.
MembershipDeleteRead(t) ==
    /\ At(t, <<"membership", "delete">>, "read")
    /\ LET own == membershipOf(task[t].org, task[t].user)
       IN  \/ own = {} /\ Done(t)
           \/ \E m \in own :  \* .limit(1): any one of them
                task' = [task EXCEPT ![t].input = [member |-> m.id],
                                     ![t].pc = IF normalizeRole(m.role) = HIGHEST_ROLE
                                               THEN "count" ELSE "write"]
    /\ UNCHANGED <<tables, command>>

MembershipDeleteWrite(t) ==
    /\ At(t, <<"membership", "delete">>, "write")
    /\ member' = member \ memberIn(task[t].org, task[t].input.member)
    /\ Done(t)
    /\ UNCHANGED <<organization, invitation, nextId, command>>

\* Slip: the count includes nobody else.
CountNoOwner(t) ==
    /\ task[t] # Idle /\ task[t].pc = "count"
    /\ IF Cardinality(OwnersOf(task[t].org)) < 1 THEN Done(t) ELSE Goto(t, "write")
    /\ UNCHANGED <<tables, command>>

\* assertNotTheLastOwner: throws CONFLICT, or the write follows.
AssertNotTheLastOwner(t) ==
    /\ task[t] # Idle /\ task[t].pc = "count"
    /\ IF Cardinality(OwnersOf(task[t].org)) <= 1 THEN Done(t) ELSE Goto(t, "write")
    /\ UNCHANGED <<tables, command>>

\* revokeInvitation: one DELETE scoped to the organisation.
InvitationDelete(t) ==
    /\ At(t, <<"invitation", "delete">>, "read")
    /\ invitation' = {i \in invitation :
                         ~(i.org = task[t].org /\ i.id = task[t].input.invitation)}
    /\ Done(t)
    /\ UNCHANGED <<organization, member, nextId, command>>

-----------------------------------------------------------------------------
(* organization.create, update and delete *)

\* The slug is looked up before either write.
SlugRead(t) ==
    /\ At(t, <<"organization", "create">>, "read") \/ At(t, <<"organization", "update">>, "read")
    /\ IF slugTaken(task[t].input.slug) THEN Done(t) ELSE Goto(t, "write")
    /\ UNCHANGED <<tables, command>>

\* Slip: the column is not unique, the lookup alone guards it.
AnySlug(slug) == TRUE

\* organization.slug is unique: a write that breaks it throws.
SlugFree(slug) == ~slugTaken(slug)

\* createOrganization: the organisation and its owner in one transaction.
OrganizationCreateWrite(t) ==
    /\ At(t, <<"organization", "create">>, "write")
    /\ IF SlugFree(task[t].input.slug)
       THEN /\ nextId + 1 < MaxId
            /\ organization' = organization \cup {[id |-> nextId, slug |-> task[t].input.slug]}
            /\ member' = member \cup {[id |-> nextId + 1, org |-> nextId, user |-> task[t].user,
                                       role |-> <<HIGHEST_ROLE>>]}
            /\ nextId' = nextId + 2
       ELSE UNCHANGED <<organization, member, nextId>>
    /\ Done(t)
    /\ UNCHANGED <<invitation, command>>

\* updateOrganization: no row, or a slug taken meanwhile, changes nothing.
OrganizationUpdateWrite(t) ==
    /\ At(t, <<"organization", "update">>, "write")
    /\ organization' =
          IF SlugFree(task[t].input.slug)
          THEN {IF o.id = task[t].org THEN [o EXCEPT !.slug = task[t].input.slug] ELSE o
                  : o \in organization}
          ELSE organization
    /\ Done(t)
    /\ UNCHANGED <<member, invitation, nextId, command>>

\* Slip: the organisation's own row only.
OrganizationDeleteRowOnly(t) ==
    /\ At(t, <<"organization", "delete">>, "read")
    /\ organization' = {o \in organization : o.id # task[t].org}
    /\ Done(t)
    /\ UNCHANGED <<member, invitation, nextId, command>>

\* deleteOrganization: invitations, members and organisation in one transaction.
OrganizationDelete(t) ==
    LET org == task[t].org
    IN  /\ At(t, <<"organization", "delete">>, "read")
        /\ invitation' = invitation \ Invitations(org)
        /\ member' = member \ MembersOf(org)
        /\ organization' = {o \in organization : o.id # org}
        /\ Done(t)
        /\ UNCHANGED <<nextId, command>>

-----------------------------------------------------------------------------
(* Outside the service *)

\* Better Auth accepts an invitation: it stops being pending, and the invitee
\* becomes a member.  Its own calls to the database are taken as one.
AcceptInvitation ==
    /\ nextId < MaxId
    /\ \E i \in invitation, u \in Users :
         /\ Exists(i.org)
         /\ membershipOf(i.org, u) = {}
         /\ invitation' = invitation \ {i}
         /\ member' = member \cup {[id |-> nextId, org |-> i.org, user |-> u, role |-> <<i.role>>]}
    /\ nextId' = nextId + 1
    /\ UNCHANGED <<organization, task, command>>

Step(t) ==
    \/ CallRpc(t) \/ DeliverCommand(t)
    \/ MemberCreateRead(t) \/ MemberCreateWrite(t)
    \/ MemberUpdateRead(t) \/ MemberUpdateWrite(t) \/ MemberDelete(t)
    \/ MembershipDeleteRead(t) \/ MembershipDeleteWrite(t) \/ AssertNotTheLastOwner(t)
    \/ InvitationDelete(t)
    \/ SlugRead(t) \/ OrganizationCreateWrite(t) \/ OrganizationUpdateWrite(t)
    \/ OrganizationDelete(t)

Init ==
    /\ organization \in InitialOrganizations
    /\ member \in InitialMembers
    /\ invitation = {}
    /\ nextId = FirstId
    /\ task = [t \in Tasks |-> Idle]
    /\ command = <<>>

Next == AcceptInvitation \/ PublishCommand \/ \E t \in Tasks : Step(t)

Spec == Init /\ [][Next]_vars

-----------------------------------------------------------------------------
(* The races the handlers lose *)

Running == {t \in Tasks : task[t] # Idle}

\* member.delete on its way to its DELETE, which nothing precedes.
Removes(c) == c.kind = <<"member", "delete">>

\* A write that takes the role away from the row it names, if the row is an
\* owner's by then.
Unseats(c) ==
    \/ Removes(c)
    \/ /\ c.pc = "write"
       /\ \/ c.kind = <<"membership", "delete">>
          \/ c.kind = <<"member", "update">> /\ c.input.role # HIGHEST_ROLE

Names(c, m) == c.org = m.org /\ c.input.member = m.id

\* Such a write is under way.  It counted the owners before, or found that the
\* row's holder was none and was overtaken by a promotion, or counts nothing.
Going(m) == \E t \in Running : Unseats(task[t]) /\ Names(task[t], m)

Staying(org) == {m \in OwnersOf(org) : ~Going(m)}

\* Every owner of an organisation is named by such a write, and no count was to
\* prevent it: there are others than the one each handler looked at, or
\* member.delete names the only one.  The writes under way are enough to leave
\* the organisation without an owner.
OwnersRace ==
    \E o \in organization :
        /\ Staying(o.id) = {}
        /\ \/ \E m, n \in OwnersOf(o.id) : m # n
           \/ \E m \in OwnersOf(o.id), t \in Running : Removes(task[t]) /\ Names(task[t], m)

Inserts(c) == c.kind = <<"member", "create">> /\ c.pc = "write"

\* One address is about to be invited twice; each handler looked before the
\* other inserts.
InvitationRace ==
    \E s, t \in Running : /\ s # t /\ Inserts(task[s]) /\ Inserts(task[t])
                         /\ task[s].org = task[t].org
                         /\ task[s].input.email = task[t].input.email

\* The handlers interleave at every database call, but for the races.
AvoidsTheRaces == ~OwnersRace' /\ ~InvitationRace'

RaceFreeNext == Next /\ AvoidsTheRaces

RaceFreeSpec == Init /\ [][RaceFreeNext]_vars

-----------------------------------------------------------------------------
(* Properties *)

\* No organisation is left without an owner (assertNotTheLastOwner), as long as
\* the writes under way never name every one of its owners past the counts
\* (OwnersRace).
EveryOrganizationHasAnOwner == \A o \in organization : OwnersOf(o.id) # {}

\* An address is invited to an organisation at most once at a time
\* (member.create looks before it inserts), but for InvitationRace.
OnePendingInvitation ==
    \A i, j \in invitation : i.org = j.org /\ i.email = j.email => i = j

\* No two organisations share a slug, however two writes interleave with the
\* two lookups before them.
SlugsUnique == \A o, p \in organization : o.slug = p.slug => o = p

\* A member row never outlives its organisation: the deletion takes the rows
\* along, and a handler suspended across it cannot bring one back.
MembersBelong == \A m \in member : Exists(m.org)

\* A handler touches its own tenant's rows only, and adds rows only there or in
\* the organisation it creates, whatever id a body names and whatever happened
\* to the row since the handler last looked (every query is scoped to ctx.orgId).
TenantIsolation ==
    [][\A t \in Tasks : task[t] # Idle /\ task'[t] # task[t] =>
        LET org == task[t].org
        IN  /\ {o \in organization : o.id # org} \subseteq organization'
            /\ {m \in member : m.org # org} \subseteq member'
            /\ {i \in invitation : i.org # org} \subseteq invitation'
            /\ \A m \in member' \ member : m.org = org \/ ~Exists(m.org)
            /\ \A i \in invitation' \ invitation : i.org = org]_vars

\* Leaving removes the caller's own row and nobody else's.
LeavingRemovesOnlyOneself ==
    [][\A t \in Tasks : At(t, <<"membership", "delete">>, "write") /\ task'[t] # task[t] =>
        \A m \in member \ member' : m.user = task[t].user]_vars
=============================================================================

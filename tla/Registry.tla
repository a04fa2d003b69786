------------------------------ MODULE Registry ------------------------------
(***************************************************************************)
(* The registry: the one table from which the platform derives its         *)
(* permissions, plan limits, subjects and navigation                       *)
(* (packages/registry/src/registry.ts), and the operators derive.ts builds *)
(* on it.  Labels, descriptions and upgrade wording are left out.          *)
(***************************************************************************)
EXTENDS Roles, Naturals, Sequences, FiniteSets

LOCAL INSTANCE FiniteSetsExt

-----------------------------------------------------------------------------
(* Plans *)

PLANS == [free  |-> [rank |-> 0],
          pro   |-> [rank |-> 1],
          scale |-> [rank |-> 2]]

PLAN_KEYS == DOMAIN PLANS

DEFAULT_PLAN == "free"

NoPlan == "no plan"

planRank(plan) == PLANS[plan].rank

\* The plan after this one in ascending rank, or none.
nextPlanAfter(plan) ==
    LET above == {p \in PLAN_KEYS : planRank(p) > planRank(plan)}
    IN  IF above = {} THEN NoPlan
        ELSE CHOOSE p \in above : \A q \in above : planRank(p) <= planRank(q)

-----------------------------------------------------------------------------
(* Resources *)

\* A limit is a number, Unlimited or NotInPlan (`false` in the code).
Unlimited == -1
NotInPlan == -2

\* op({minRole, kind, transport, consumes, audit, timeoutMs})
Op(minRole, kind, transport, consumes, audit, timeoutMs) ==
    [minRole |-> minRole, kind |-> kind, transport |-> transport,
     consumes |-> consumes, audit |-> audit, timeoutMs |-> timeoutMs]

Limits(free, pro, scale) == [free |-> free, pro |-> pro, scale |-> scale]

NoNav == 0

\* nav is the position in the sidebar, NoNav for a resource without a page;
\* rateLimit the calls of one operation an organisation has per window.
OrganizationResource ==
    [owner |-> "identity", nav |-> NoNav, rateLimit |-> 10,
     limits |-> Limits(NotInPlan, 3, Unlimited),
     operations |->
        [read   |-> Op("member", "query",    "rpc", FALSE, FALSE, 3000),
         create |-> Op("owner",  "mutation", "rpc", TRUE,  TRUE,  5000),
         update |-> Op("admin",  "mutation", "rpc", FALSE, TRUE,  5000),
         delete |-> Op("owner",  "mutation", "rpc", FALSE, TRUE,  5000)]]

MembershipResource ==
    [owner |-> "identity", nav |-> NoNav, rateLimit |-> 5,
     limits |-> Limits(Unlimited, Unlimited, Unlimited),
     operations |->
        [delete |-> Op("member", "mutation", "rpc", FALSE, TRUE, 5000)]]

ProjectResource ==
    [owner |-> "projects", nav |-> 1, rateLimit |-> 60,
     limits |-> Limits(2, 25, Unlimited),
     operations |->
        [read   |-> Op("member", "query",    "rpc", FALSE, FALSE, 3000),
         create |-> Op("admin",  "mutation", "rpc", TRUE,  TRUE,  5000),
         update |-> Op("admin",  "mutation", "rpc", FALSE, TRUE,  5000),
         delete |-> Op("admin",  "mutation", "rpc", FALSE, TRUE,  5000)]]

MemberResource ==
    [owner |-> "identity", nav |-> 2, rateLimit |-> 30,
     limits |-> Limits(2, 10, Unlimited),
     operations |->
        [read   |-> Op("member", "query",    "rpc",     FALSE, FALSE, 3000),
         create |-> Op("admin",  "mutation", "command", TRUE,  TRUE,  8000),
         update |-> Op("owner",  "mutation", "rpc",     FALSE, TRUE,  5000),
         delete |-> Op("owner",  "mutation", "rpc",     FALSE, TRUE,  5000)]]

InvitationResource ==
    [owner |-> "identity", nav |-> NoNav, rateLimit |-> 10,
     limits |-> Limits(5, Unlimited, Unlimited),
     operations |->
        [read   |-> Op("admin", "query",    "rpc", FALSE, FALSE, 3000),
         delete |-> Op("admin", "mutation", "rpc", FALSE, TRUE,  5000)]]

BillingResource ==
    [owner |-> "billing", nav |-> 3, rateLimit |-> 20,
     limits |-> Limits(Unlimited, Unlimited, Unlimited),
     operations |->
        [read   |-> Op("admin", "query",    "rpc", FALSE, FALSE, 4000),
         manage |-> Op("owner", "mutation", "rpc", FALSE, TRUE,  8000)]]

AuditLogResource ==
    [owner |-> "audit", nav |-> 4, rateLimit |-> 30,
     limits |-> Limits(NotInPlan, 90, Unlimited),
     operations |->
        [read |-> Op("admin", "query", "rpc", FALSE, FALSE, 4000)]]

RESOURCES ==
    [organization |-> OrganizationResource, membership |-> MembershipResource,
     project |-> ProjectResource, member |-> MemberResource,
     invitation |-> InvitationResource, billing |-> BillingResource,
     auditLog |-> AuditLogResource]

RESOURCE_KEYS == DOMAIN RESOURCES
OPERATIONS == {"create", "read", "update", "delete", "manage"}

isOperationOf(resource, operation) == operation \in DOMAIN RESOURCES[resource].operations

operationsOf(resource) == {o \in OPERATIONS : isOperationOf(resource, o)}

ruleFor(resource, operation) == RESOURCES[resource].operations[operation]

\* The declared (resource, operation) pairs.  A permission is the pair.
PERMISSIONS == UNION {{<<r, o>> : o \in operationsOf(r)} : r \in RESOURCE_KEYS}

Subject(kind, resource, operation) == <<kind, resource, operation>>

NoSubject == <<>>

\* ROUTES: every subject the platform may use, with the event it emits on.
ROUTES ==
    {LET rule == ruleFor(p[1], p[2])
     IN  [resource |-> p[1], operation |-> p[2], transport |-> rule.transport,
          owner |-> RESOURCES[p[1]].owner,
          subject |-> Subject(IF rule.transport = "rpc" THEN "rpc" ELSE "cmd", p[1], p[2]),
          event |-> IF rule.audit THEN Subject("evt", p[1], p[2]) ELSE NoSubject]
       : p \in PERMISSIONS}

allSubjects ==
    {route.subject : route \in ROUTES} \cup ({route.event : route \in ROUTES} \ {NoSubject})

\* The streams: the kind of subject each stores, cmd.> and evt.>, and for how long.
STREAMS == [CMD |-> [subjects |-> "cmd", maxAgeDays |-> 7],
            EVT |-> [subjects |-> "evt", maxAgeDays |-> 30]]

MAX_TIMEOUT_MS == Max({ruleFor(p[1], p[2]).timeoutMs : p \in PERMISSIONS})

-----------------------------------------------------------------------------
(* Permissions *)

permissionsForRole(role) ==
    {p \in PERMISSIONS : roleAtLeast(role, ruleFor(p[1], p[2]).minRole)}

can(held, resource, operation) == <<resource, operation>> \in held

\* The role column is text holding comma-separated names: the highest
\* recognised one wins, an unrecognised one contributes nothing.
normalizeRole(claims) ==
    LET recognised == {LOWEST_ROLE} \cup ({claims[i] : i \in DOMAIN claims} \cap ORG_ROLES)
    IN  CHOOSE r \in recognised : \A q \in recognised : roleAtLeast(r, q)

-----------------------------------------------------------------------------
(* Entitlements: [plan, usage], usage a partial function on the resources *)

EMPTY_ENTITLEMENTS == [plan |-> DEFAULT_PLAN, usage |-> <<>>]

limitFor(resource, plan) == RESOURCES[resource].limits[plan]

isInPlan(resource, plan) == limitFor(resource, plan) # NotInPlan

\* usage[resource] ?? 0
Used(resource, entitlements) ==
    IF resource \in DOMAIN entitlements.usage THEN entitlements.usage[resource] ELSE 0

\* The single gate: the gateway refuses with it, the browser renders with it.
checkResourceAccess(resource, entitlements, requested) ==
    LET limit == limitFor(resource, entitlements.plan)
        used  == Used(resource, entitlements)
        Denied(reason) == [allowed |-> FALSE, reason |-> reason,
                           nextPlan |-> nextPlanAfter(entitlements.plan)]
    IN  CASE limit = NotInPlan -> Denied("not_in_plan")
          [] limit = Unlimited -> [allowed |-> TRUE, remaining |-> Unlimited]
          [] limit >= 0 /\ used + requested > limit -> Denied("limit_reached")
          [] OTHER -> [allowed |-> TRUE, remaining |-> Max({0, limit - used})]

-----------------------------------------------------------------------------
(* Navigation and the dashboard's route guard *)

NAV_ITEMS == {r \in RESOURCE_KEYS : RESOURCES[r].nav # NoNav}

\* The page a resource has is named by the resource; any other path has none.
NoResource == "no resource"

resourceForPath(path) == IF path \in NAV_ITEMS THEN path ELSE NoResource

\* visible answers the permission, locked answers the plan.
navAccess(resource, role, entitlements) ==
    LET readable == operationsOf(resource) \cap {"read", "manage"}
        first    == IF "read" \in readable THEN "read" ELSE "manage"
    IN  IF readable = {} THEN [visible |-> FALSE, locked |-> FALSE]
        ELSE [visible |-> roleAtLeast(role, ruleFor(resource, first).minRole),
              locked  |-> ~isInPlan(resource, entitlements.plan)]

\* The sidebar: what the role may see, each item locked or not.
navFor(role, entitlements) ==
    {[resource |-> r, locked |-> navAccess(r, role, entitlements).locked] :
       r \in {n \in NAV_ITEMS : navAccess(n, role, entitlements).visible}}

=============================================================================

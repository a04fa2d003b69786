---------------------------- MODULE SessionProofs ----------------------------
(***************************************************************************)
(* Sessions fade, sign-ins land where the one before did, and pages and    *)
(* memberships keep their guards, for any organisations, any time a cached *)
(* copy is good for and any number of changes.                             *)
(***************************************************************************)
EXTENDS Session, TLAPS

-----------------------------------------------------------------------------
(* The inductive invariant *)

\* A copy is never younger than the session it is a copy of.
CopyInv ==
    (cookie # NoCookie /\ cookie.copy # NoCopy)
      => cookie.copy.cachedAt <= now /\ cookie.copy.cachedAt <= session.endedAt

\* What is remembered of the last sign-in is where the next one leads.
LandedInv ==
    /\ account # "ready" => landed = NoOrganization
    /\ landed # NoOrganization => landingIn(landed)

\* A request that is served: the account's roles since then are held, the
\* layout waits for its entitlements with one of them, and the page for its
\* data where one of them may read it.
Serving ==
    /\ account = "ready"
    /\ request = [pc |-> "serving", path |-> request.path,
                  page |-> request.page, layout |-> request.layout]
    /\ request.path \in Dashboard
    /\ standing(member) \subseteq held
    /\ request.layout.at = "plan" => \E h \in held : h[2] = request.layout.role
    /\ request.page.at = "service" => everReadable(request.path, request.page.org)

RequestInv ==
    /\ cookie # NoCookie => account = "ready"
    /\ request.pc = "proxy" => request.path \in Pages
    /\ request.pc = "serving" => Serving

Inv == TypeOK /\ CopyInv /\ LandedInv /\ RequestInv

-----------------------------------------------------------------------------
(* Values *)

LEMMA CopiesTyped ==
    /\ NoCookie \notin [copy : Copies]
    /\ \A org : NoCopy # [org |-> org, cachedAt |-> now]
    /\ \A copy \in Copies : copy # NoCopy => copy \in [org : Organizable, cachedAt : 0..MaxTime]
    /\ \A copy : [copy |-> copy] # NoCookie /\ [copy |-> copy].copy = copy
  BY DEF NoCookie, NoCopy, Copies

LEMMA NavItems == NAV_ITEMS = {"project", "member", "billing", "auditLog"}
  <1>1. RESOURCE_KEYS = {"organization", "membership", "project", "member", "invitation", "billing",
                         "auditLog"}
    BY DEF RESOURCE_KEYS, RESOURCES
  <1>2. /\ RESOURCES["organization"].nav = NoNav /\ RESOURCES["membership"].nav = NoNav
        /\ RESOURCES["invitation"].nav = NoNav
    BY DEF RESOURCES, OrganizationResource, MembershipResource, InvitationResource
  <1>3. /\ RESOURCES["project"].nav # NoNav /\ RESOURCES["member"].nav # NoNav
        /\ RESOURCES["billing"].nav # NoNav /\ RESOURCES["auditLog"].nav # NoNav
    BY DEF RESOURCES, ProjectResource, MemberResource, BillingResource, AuditLogResource, NoNav
  <1> QED
    BY <1>1, <1>2, <1>3 DEF NAV_ITEMS

\* Whatever the column says, it is read as a role.
LEMMA ColumnsAreRoles ==
    ASSUME NEW claim PROVE normalizeRole(<<claim>>) \in ORG_ROLES
  <1> DEFINE recognised == {LOWEST_ROLE} \cup ({<<claim>>[i] : i \in DOMAIN <<claim>>} \cap ORG_ROLES)
  <1>1. /\ ROLE_RANK["member"] = 1 /\ ROLE_RANK["admin"] = 2 /\ ROLE_RANK["owner"] = 3
    BY Zenon DEF ROLE_RANK, ORG_ROLES
  <1>2. LOWEST_ROLE \in ORG_ROLES
    BY <1>1 DEF LOWEST_ROLE, ORG_ROLES
  <1>3. recognised \subseteq ORG_ROLES /\ LOWEST_ROLE \in recognised
    BY <1>2
  <1>4. normalizeRole(<<claim>>) =
          CHOOSE r \in recognised : \A q \in recognised : roleAtLeast(r, q)
    BY DEF normalizeRole
  <1> HIDE DEF recognised
  <1>5. \E r \in recognised : \A q \in recognised : roleAtLeast(r, q)
    <2>1. CASE "owner" \in recognised
      BY <1>1, <1>3, <2>1 DEF ORG_ROLES, roleAtLeast
    <2>2. CASE "owner" \notin recognised /\ "admin" \in recognised
      BY <1>1, <1>3, <2>2 DEF ORG_ROLES, roleAtLeast
    <2>3. CASE "owner" \notin recognised /\ "admin" \notin recognised
      BY <1>1, <1>3, <2>3 DEF ORG_ROLES, roleAtLeast
    <2> QED
      BY <2>1, <2>2, <2>3
  <1> QED
    BY <1>3, <1>4, <1>5

LEMMA StandingTyped ==
    ASSUME NEW rows, rows \subseteq Rows
    PROVE  standing(rows) \subseteq Organizations \X ORG_ROLES
  <1> SUFFICES ASSUME NEW m \in rows
               PROVE  <<m.org, normalizeRole(<<m.role>>)>> \in Organizations \X ORG_ROLES
    BY DEF standing
  <1>1. m.org \in Organizations
    BY DEF Rows
  <1>2. normalizeRole(<<m.role>>) \in ORG_ROLES
    BY ColumnsAreRoles
  <1> QED
    BY <1>1, <1>2

\* A new row keeps the account's rows rows, with ids of their own.
LEMMA RowAdded ==
    ASSUME TypeOK, NEW org \in Organizations, NEW role \in Columns,
           NEW rows \in withRow(org, role)
    PROVE  /\ rows \subseteq Rows
           /\ \A m, n \in rows : m.id = n.id => m = n
           /\ member \subseteq rows /\ rows # {}
  <1>1. PICK id \in Ids \ {m.id : m \in member} :
          rows = member \cup {[id |-> id, org |-> org, role |-> role, joined |-> now]}
    BY DEF withRow
  <1>2. [id |-> id, org |-> org, role |-> role, joined |-> now] \in Rows
    BY DEF TypeOK, Rows
  <1>3. \A m \in member : m.id # id
    BY <1>1
  <1> QED
    BY <1>1, <1>2, <1>3 DEF TypeOK

\* There is one first membership.
LEMMA OneLanding ==
    ASSUME TypeOK, NEW a \in Organizable, NEW b \in Organizable,
           landingIn(a), landingIn(b)
    PROVE  a = b
  <1>1. CASE member = {}
    BY <1>1 DEF landingIn
  <1>2. CASE member # {}
    <2>1. PICK m \in member : firstMembership(m) /\ a = m.org
      BY <1>2 DEF landingIn
    <2>2. PICK n \in member : firstMembership(n) /\ b = n.org
      BY <1>2 DEF landingIn
    <2>3. \A r \in member : r.joined \in Int /\ r.id \in Int
      <3>1. 0..MaxTime \subseteq Int /\ Ids \subseteq Int
        BY OrganizationAssumption, TimeAssumption
      <3> QED
        BY <3>1 DEF TypeOK, Rows
    <2>4. /\ n.joined > m.joined \/ (n.joined = m.joined /\ n.id >= m.id)
          /\ m.joined > n.joined \/ (m.joined = n.joined /\ m.id >= n.id)
      BY <2>1, <2>2 DEF firstMembership
    <2>5. m.id = n.id
      BY <2>3, <2>4
    <2> QED
      BY <2>1, <2>2, <2>5 DEF TypeOK
  <1> QED
    BY <1>1, <1>2

\* The endpoints left open add a row or none, in an organisation there is.
LEMMA OpenEndpoints ==
    ASSUME TypeOK, AuthEndpoint
    PROVE  /\ organization' = organization
           /\ \E org \in organization, role \in Columns : member' \in withRow(org, role)
  <1>0. PICK endpoint \in DOMAIN SUPERSEDED \cup KEPT :
          /\ ~supersedes(endpoint)
          /\ \E written \in AuthWrites(endpoint) :
               organization' = written[1] /\ member' = written[2]
    BY DEF AuthEndpoint
  <1>1. PICK written \in AuthWrites(endpoint) :
          organization' = written[1] /\ member' = written[2]
    BY <1>0
  <1>2. endpoint \notin {"create", "delete", "leave", "remove_member", "update_member_role"}
    BY <1>0 DEF supersedes, SUPERSEDED
  <1>3. endpoint = "accept_invitation"
    <2> SUFFICES ASSUME endpoint # "accept_invitation" PROVE FALSE
      OBVIOUS
    <2>1. /\ endpoint # "create" /\ endpoint # "delete"
          /\ endpoint \notin {"leave", "remove_member"} /\ endpoint # "update_member_role"
      BY <1>2
    <2>2. AuthWrites(endpoint) = {}
      BY <2>1, Zenon DEF AuthWrites
    <2> QED
      BY <1>1, <2>2
  <1>4. AuthWrites("accept_invitation") = {organization} \X accepted
    BY Zenon DEF AuthWrites
  <1>5. written \in {organization} \X accepted
    BY <1>1, <1>3, <1>4
  <1>6. organization' = organization /\ member' \in accepted
    BY <1>1, <1>5
  <1>7. PICK org \in {o \in organization : rowsIn(o) = {}}, role \in Columns :
          member' \in withRow(org, role)
    BY <1>6 DEF accepted
  <1> QED
    BY <1>6, <1>7

\* Where a session leads is an organisation or none.
LEMMA ActiveTyped ==
    ASSUME TypeOK, cookie # NoCookie
    PROVE  activeOrganization \in Organizable /\ cookie.copy \in Copies
           /\ cookie \in [copy : Copies]
  <1>1. cookie \in [copy : Copies]
    BY DEF TypeOK
  <1>2. copyHolds(cookie.copy) => cookie.copy.org \in Organizable
    BY <1>1, CopiesTyped DEF copyHolds
  <1> QED
    BY <1>1, <1>2 DEF activeOrganization, TypeOK

-----------------------------------------------------------------------------
(* The browser *)

\* Its part of the type invariant.
BrowserTyped ==
    /\ request.pc \in {"settled", "proxy", "serving", "rendered"}
    /\ links \subseteq Dashboard
    /\ held \subseteq Organizations \X ORG_ROLES

\* One half of a request that is served moves, the other stays.
LEMMA PartMoves ==
    ASSUME Serving, NEW part \in Parts, NEW where, request' = [request EXCEPT ![part] = where]
    PROVE  /\ request' = [pc |-> "serving", path |-> request.path,
                          page |-> request'.page, layout |-> request'.layout]
           /\ request'.pc = "serving" /\ request'.path = request.path
           /\ part = "layout" => request'.layout = where /\ request'.page = request.page
           /\ part = "page" => request'.page = where /\ request'.layout = request.layout
  <1>1. PICK path, page, layout :
          request = [pc |-> "serving", path |-> path, page |-> page, layout |-> layout]
    BY DEF Serving
  <1>3. CASE part = "layout"
    <2>1. request' = [pc |-> "serving", path |-> path, page |-> page, layout |-> where]
      BY <1>1, <1>3
    <2> QED
      BY <1>1, <1>3, <2>1
  <1>4. CASE part = "page"
    <2>1. request' = [pc |-> "serving", path |-> path, page |-> where, layout |-> layout]
      BY <1>1, <1>4
    <2> QED
      BY <1>1, <1>4, <2>1
  <1> QED
    BY <1>3, <1>4 DEF Parts

\* It may wait for the entitlements with a role that was held, and for data that
\* was readable.
LEMMA PartWaits ==
    ASSUME Inv, Serving, NEW part \in Parts, NEW where, request' = [request EXCEPT ![part] = where],
           UNCHANGED <<held, account, member>>, links' \subseteq Dashboard,
           cookie' # NoCookie => account = "ready",
           (part = "layout" /\ where.at = "plan") => \E h \in held : h[2] = where.role,
           (part = "page" /\ where.at = "service") => everReadable(request.path, where.org)
    PROVE  RequestInv' /\ BrowserTyped'
  <1>1. /\ request' = [pc |-> "serving", path |-> request.path,
                       page |-> request'.page, layout |-> request'.layout]
        /\ request'.pc = "serving" /\ request'.path = request.path
        /\ part = "layout" => request'.layout = where /\ request'.page = request.page
        /\ part = "page" => request'.page = where /\ request'.layout = request.layout
    BY PartMoves
  <1>2. request'.layout.at = "plan" => \E h \in held' : h[2] = request'.layout.role
    BY <1>1 DEF Parts, Serving
  <1>3. request'.page.at = "service" => everReadable(request.path, request.page.org)'
    BY <1>1 DEF Parts, Serving, everReadable
  <1>4. Serving'
    BY <1>1, <1>2, <1>3 DEF Serving, standing
  <1>5. BrowserTyped'
    BY <1>1 DEF Inv, TypeOK, BrowserTyped
  <1> QED
    BY <1>1, <1>4, <1>5 DEF RequestInv, Serving

LEMMA RedirectTyped ==
    ASSUME NEW path \in Pages, Redirect(path), cookie' # NoCookie => account' = "ready"
    PROVE  RequestInv' /\ BrowserTyped'
  BY DEF Redirect, RequestInv, BrowserTyped

LEMMA BrowserKept ==
    ASSUME Inv, UNCHANGED browser, account = "ready" => account' = "ready",
           cookie' # NoCookie => account' = "ready",
           account = "ready" => member' = member
    PROVE  RequestInv' /\ BrowserTyped'
  <1>1. UNCHANGED <<request, links, held>>
    BY DEF browser
  <1>2. Serving /\ account' = "ready" /\ member' = member => Serving'
    BY <1>1 DEF Serving, standing, everReadable
  <1>3. request.pc = "serving" => Serving'
    BY <1>2 DEF Inv, RequestInv, Serving
  <1> QED
    BY <1>1, <1>3 DEF Inv, RequestInv, TypeOK, BrowserTyped

-----------------------------------------------------------------------------
(* The actions *)

LEMMA InvInit == Init => Inv
  <1> SUFFICES ASSUME Init PROVE Inv
    OBVIOUS
  <1>1. TypeOK
    BY OrganizationAssumption, TimeAssumption, BoundAssumption
       DEF Init, TypeOK, NoSession, Organizable, NoOrganization, Settled, Never
  <1> QED
    BY <1>1 DEF Init, Inv, CopyInv, LandedInv, RequestInv, NoCookie, Settled

\* Everything but the browser's part of the invariant.
LEMMA Assembled ==
    ASSUME Inv, now' \in 0..MaxTime, now' >= now, UNCHANGED <<account, tables, session, cookie, changes, landed>>,
           RequestInv', BrowserTyped'
    PROVE  Inv'
  <1>1. TypeOK'
    BY DEF Inv, TypeOK, BrowserTyped, tables, Organizable, Copies, Rows, Never
  <1>2. CopyInv'
    <2>1. ASSUME cookie # NoCookie, cookie.copy # NoCopy PROVE cookie.copy.cachedAt \in 0..MaxTime
      BY <2>1, CopiesTyped DEF Inv, TypeOK
    <2>2. now \in Int /\ now' \in Int /\ MaxTime \in Int
      BY TimeAssumption DEF Inv, TypeOK
    <2> QED
      BY <2>1, <2>2 DEF Inv, CopyInv
  <1>3. LandedInv'
    BY DEF Inv, LandedInv, landingIn, firstMembership, tables
  <1> QED
    BY <1>1, <1>2, <1>3 DEF Inv

\* A session that begins.
LEMMA BeginKeeps ==
    ASSUME Inv, NEW org \in Organizable, landingIn(org), Begin(org), landed' = org,
           account' = "ready", UNCHANGED <<now, tables, changes>>, RequestInv', BrowserTyped'
    PROVE  Inv'
  <1>1. /\ session' = [org |-> org, endedAt |-> Never]
        /\ cookie' = [copy |-> [org |-> org, cachedAt |-> now]]
    BY DEF Begin
  <1>2. now \in 0..MaxTime /\ Never = MaxTime + 1 /\ MaxTime \in Nat
    BY TimeAssumption DEF Inv, TypeOK, Never
  <1>3. cookie' \in [copy : Copies] /\ session' \in [org : Organizable, endedAt : 0..Never]
    BY <1>1, <1>2 DEF Copies
  <1>4. TypeOK'
    BY <1>3 DEF Inv, TypeOK, BrowserTyped, tables, Organizable, Copies, Rows, Never
  <1>5. CopyInv'
    BY <1>1, <1>2 DEF CopyInv
  <1>6. LandedInv'
    BY DEF Inv, LandedInv, landingIn, firstMembership, tables
  <1> QED
    BY <1>4, <1>5, <1>6 DEF Inv

\* The memberships change: what the last sign-in led to is forgotten, what the
\* account becomes is held.
LEMMA ChangedKeeps ==
    ASSUME Inv, Changed, organization' \subseteq Organizations, member' \subseteq Rows,
           \A m, n \in member' : m.id = n.id => m = n
    PROVE  Inv'
  <1>1. standing(member') \subseteq Organizations \X ORG_ROLES
    BY StandingTyped
  <1>2. /\ UNCHANGED <<now, account, session, cookie, request, links>>
        /\ account = "ready"
        /\ changes' \in 0..MaxChanges /\ landed' = NoOrganization
        /\ held' \subseteq Organizations \X ORG_ROLES /\ held \subseteq held'
        /\ request.pc = "serving" => standing(member') \subseteq held'
    BY <1>1, BoundAssumption DEF Changed, Inv, TypeOK
  <1>3. TypeOK'
    BY <1>2 DEF Inv, TypeOK, Organizable, Copies, Rows, Never, NoOrganization
  <1>4. CopyInv' /\ LandedInv'
    BY <1>2 DEF Inv, CopyInv, LandedInv
  <1>5. request.pc = "serving" => Serving'
    <2> SUFFICES ASSUME Serving, request.pc = "serving" PROVE Serving'
      BY DEF Inv, RequestInv
    <2>1. request.page.at = "service" => everReadable(request.path, request.page.org)'
      BY <1>2 DEF Serving, everReadable
    <2>2. request.layout.at = "plan" => \E h \in held' : h[2] = request.layout.role
      BY <1>2 DEF Serving
    <2>3. standing(member)' \subseteq held'
      BY <1>2 DEF standing
    <2> QED
      BY <1>2, <2>1, <2>2, <2>3 DEF Serving
  <1>6. RequestInv'
    BY <1>2, <1>5 DEF Inv, RequestInv
  <1> QED
    BY <1>3, <1>4, <1>6 DEF Inv

LEMMA SetActiveKeeps == ASSUME Inv, SetActive PROVE Inv'
  <1>1. PICK m \in member :
          /\ session' = [session EXCEPT !.org = m.org]
          /\ cookie' = [cookie EXCEPT !.copy = [org |-> m.org, cachedAt |-> now]]
    BY DEF SetActive
  <1>2. cookie # NoCookie /\ fresh /\ UNCHANGED <<now, account, tables, browser, changes, landed>>
    BY DEF SetActive
  <1>0. RequestInv' /\ BrowserTyped'
    BY <1>2, BrowserKept DEF tables, Inv, RequestInv
  <1>3. m.org \in Organizable /\ now \in 0..MaxTime
    BY DEF Inv, TypeOK, Rows, Organizable
  <1>4. /\ cookie' = [copy |-> [org |-> m.org, cachedAt |-> now]]
        /\ session' \in [org : Organizable, endedAt : 0..Never]
        /\ session'.endedAt = session.endedAt /\ session.endedAt \in Int
    BY <1>1, <1>2, <1>3, ActiveTyped, TimeAssumption DEF Inv, TypeOK, Never
  <1>5. cookie' \in [copy : Copies]
    BY <1>3, <1>4 DEF Copies
  <1>6. TypeOK'
    BY <1>0, <1>2, <1>4, <1>5 DEF Inv, TypeOK, BrowserTyped, tables, Organizable, Copies, Rows, Never
  <1>7. CopyInv'
    BY <1>2, <1>3, <1>4, TimeAssumption DEF CopyInv, fresh
  <1>8. LandedInv'
    BY <1>2 DEF Inv, LandedInv, landingIn, firstMembership, tables
  <1> QED
    BY <1>0, <1>6, <1>7, <1>8 DEF Inv

LEMMA EndSessionKeeps == ASSUME Inv, EndSession PROVE Inv'
  <1>1. /\ session' = [session EXCEPT !.endedAt = now]
        /\ UNCHANGED <<now, account, tables, cookie, browser, changes, landed>>
    BY DEF EndSession
  <1>0. RequestInv' /\ BrowserTyped'
    BY <1>1, BrowserKept DEF tables, Inv, RequestInv
  <1>2. now \in 0..MaxTime /\ MaxTime \in Nat /\ session \in [org : Organizable, endedAt : 0..Never]
    BY TimeAssumption DEF Inv, TypeOK
  <1>3. session'.endedAt = now /\ session' \in [org : Organizable, endedAt : 0..Never]
    BY <1>1, <1>2 DEF Never
  <1>4. TypeOK'
    BY <1>0, <1>1, <1>3 DEF Inv, TypeOK, BrowserTyped, tables, Organizable, Copies, Rows, Never
  <1>5. CopyInv'
    BY <1>1, <1>3 DEF Inv, CopyInv
  <1>6. LandedInv'
    BY <1>1 DEF Inv, LandedInv, landingIn, firstMembership, tables
  <1> QED
    BY <1>0, <1>4, <1>5, <1>6 DEF Inv

LEMMA MembershipKeeps ==
    ASSUME Inv, LoseMembership \/ ChangeRole \/ DeleteOrganization \/ CreateOrganization \/ AuthEndpoint
    PROVE  Inv'
  <1>1. TypeOK
    BY DEF Inv
  <1>2. CASE LoseMembership
    BY <1>1, <1>2, ChangedKeeps DEF LoseMembership, TypeOK
  <1>3. CASE ChangeRole
    <2>1. PICK m \in member, role \in Columns :
            member' = (member \ {m}) \cup {[m EXCEPT !.role = role]}
      BY <1>3 DEF ChangeRole
    <2>2. [m EXCEPT !.role = role] \in Rows /\ [m EXCEPT !.role = role].id = m.id
      BY <1>1 DEF TypeOK, Rows
    <2>3. Changed /\ organization' \subseteq Organizations
      BY <1>1, <1>3 DEF ChangeRole, TypeOK
    <2>4. member' \subseteq Rows /\ \A n, o \in member' : n.id = o.id => n = o
      BY <1>1, <2>1, <2>2 DEF TypeOK
    <2> QED
      BY <2>3, <2>4, ChangedKeeps
  <1>4. CASE DeleteOrganization
    BY <1>1, <1>4, ChangedKeeps DEF DeleteOrganization, TypeOK
  <1>5. CASE CreateOrganization
    <2>1. PICK org \in Organizations \ organization :
            organization' = organization \cup {org} /\ member' \in withRow(org, HIGHEST_ROLE)
      BY <1>5 DEF CreateOrganization
    <2>2. Changed /\ organization' \subseteq Organizations
      BY <1>1, <1>5, <2>1 DEF CreateOrganization, TypeOK
    <2> QED
      BY <1>1, <2>1, <2>2, RowAdded, ColumnAssumption, ChangedKeeps
  <1>6. CASE AuthEndpoint
    <2>1. PICK org \in organization, role \in Columns : member' \in withRow(org, role)
      BY <1>1, <1>6, OpenEndpoints
    <2>2. Changed /\ organization' \subseteq Organizations /\ org \in Organizations
      BY <1>1, <1>6, OpenEndpoints DEF AuthEndpoint, TypeOK
    <2> QED
      BY <1>1, <2>1, <2>2, RowAdded, ChangedKeeps
  <1> QED
    BY <1>2, <1>3, <1>4, <1>5, <1>6

LEMMA SignUpKeeps ==
    ASSUME Inv, SignUp \/ HookOrganization \/ HookMember \/ HookFails
    PROVE  Inv'
  <1>1. TypeOK /\ account # "ready" /\ landed = NoOrganization
    BY DEF Inv, LandedInv, SignUp, HookOrganization, HookMember, HookFails
  <1>2. /\ UNCHANGED <<now, session, cookie, browser, changes, landed>>
        /\ account' \in {"user", "workspace", "hooked", "ready"}
    BY DEF SignUp, HookOrganization, HookMember, HookFails, tables
  <1>3. organization' \subseteq Organizations
    BY <1>1 DEF SignUp, HookOrganization, HookMember, HookFails, tables, TypeOK
  <1>4. member' \subseteq Rows /\ \A m, n \in member' : m.id = n.id => m = n
    <2>1. CASE HookMember
      <3>1. PICK org \in organization : member' \in withRow(org, HIGHEST_ROLE)
        BY <2>1 DEF HookMember
      <3>2. org \in Organizations
        BY <1>1 DEF TypeOK
      <3> QED
        BY <1>1, <3>1, <3>2, RowAdded, ColumnAssumption
    <2>2. CASE UNCHANGED member
      BY <1>1, <2>2 DEF TypeOK
    <2> QED
      BY <2>1, <2>2 DEF SignUp, HookOrganization, HookFails, tables
  <1>0. RequestInv' /\ BrowserTyped'
    BY <1>1, <1>2, BrowserKept DEF Inv, RequestInv
  <1>5. TypeOK'
    BY <1>0, <1>1, <1>2, <1>3, <1>4 DEF TypeOK, BrowserTyped, Organizable, Copies, Rows, Never
  <1> QED
    BY <1>0, <1>1, <1>2, <1>5 DEF Inv, CopyInv, LandedInv

LEMMA SignInKeeps == ASSUME Inv, SignUpEnds \/ SignIn PROVE Inv'
  <1>1. PICK org \in Organizations \cup {NoOrganization} :
          landingIn(org) /\ Begin(org) /\ landed' = org
    BY DEF SignUpEnds, SignIn
  <1>2. account' = "ready" /\ UNCHANGED <<now, tables, changes>>
    BY DEF SignUpEnds, SignIn
  <1>3. RequestInv' /\ BrowserTyped'
    <2>1. CASE SignUpEnds
      <3>1. UNCHANGED <<browser, tables>>
        BY <2>1 DEF SignUpEnds
      <3> QED
        BY <1>2, <3>1, BrowserKept DEF tables
    <2>2. CASE SignIn
      <3>1. request' = [pc |-> "proxy", path |-> "project"] /\ UNCHANGED <<links, held>>
        BY <2>2 DEF SignIn
      <3>2. "project" \in Pages
        BY NavItems DEF Pages, Dashboard
      <3> QED
        BY <1>2, <3>1, <3>2 DEF Inv, TypeOK, RequestInv, BrowserTyped
    <2> QED
      BY <2>1, <2>2
  <1> QED
    BY <1>1, <1>2, <1>3, BeginKeeps DEF Organizable

LEMMA NavigateKeeps == ASSUME Inv, Navigate \/ FollowLink PROVE Inv'
  <1>1. UNCHANGED <<now, account, tables, session, cookie, changes, landed>>
    BY DEF Navigate, FollowLink
  <1>2. cookie' # NoCookie => account' = "ready"
    BY <1>1 DEF Inv, RequestInv
  <1>3. RequestInv' /\ BrowserTyped'
    <2>1. CASE Navigate
      BY <1>2, <2>1, RedirectTyped DEF Navigate
    <2>2. CASE FollowLink
      <3>1. PICK path \in links : request' = [pc |-> "proxy", path |-> path]
        BY <2>2 DEF FollowLink
      <3>2. path \in Pages /\ UNCHANGED <<links, held>>
        BY <2>2 DEF FollowLink, Inv, TypeOK, Pages
      <3> QED
        BY <1>2, <3>1, <3>2 DEF Inv, TypeOK, RequestInv, BrowserTyped
    <2> QED
      BY <2>1, <2>2
  <1> QED
    BY <1>1, <1>3, Assembled, TimeAssumption DEF Inv, TypeOK

-----------------------------------------------------------------------------
(* A request is served *)

\* What every step of it leaves alone.
LEMMA FollowFrame ==
    ASSUME Follow
    PROVE  /\ UNCHANGED <<now, account, tables, session, changes, landed>>
           /\ \/ UNCHANGED cookie
              \/ /\ hasSession /\ ~copyHolds(cookie.copy)
                 /\ cookie' = [cookie EXCEPT !.copy = [org |-> activeOrganization, cachedAt |-> now]]
  BY DEF Follow, Proxy, GetSession, MemberRow, Layout, Data, Render

\* Where the layout sends a request there is a page.
LEMMA GuardedPages ==
    ASSUME NEW access, guard(access) # NoResource
    PROVE  guard(access) \in Pages
  BY NavItems DEF guard, Pages, Dashboard

LEMMA LinksTyped ==
    ASSUME NEW role, NEW e PROVE linksOf(navFor(role, e)) \subseteq Dashboard
  <1> SUFFICES ASSUME NEW entry \in navFor(role, e)
               PROVE  (IF entry.locked THEN "billing" ELSE entry.resource) \in Dashboard
    BY DEF linksOf
  <1>1. entry.resource \in NAV_ITEMS
    BY DEF navFor
  <1> QED
    BY <1>1, NavItems DEF Dashboard

\* What a membership's row says is held, and read as a role of the ladder.
LEMMA RowIsHeld ==
    ASSUME Serving, NEW org, NEW m \in rowsIn(org), NEW page
    PROVE  /\ \E h \in held : h[2] = normalizeRole(<<m.role>>)
           /\ mayRead(normalizeRole(<<m.role>>), page) => everReadable(page, org)
  <1>1. <<m.org, normalizeRole(<<m.role>>)>> \in held /\ m.org = org
    BY DEF Serving, standing, rowsIn
  <1> QED
    BY <1>1 DEF everReadable, mayRead

LEMMA SignInIsAPage == "sign-in" \in Pages
  BY DEF Pages

LEMMA ProxyBrowser ==
    ASSUME Inv, Proxy PROVE RequestInv' /\ BrowserTyped'
  <1>1. /\ UNCHANGED <<account, member, cookie>>
        /\ request.pc = "proxy" /\ request.path \in Pages
        /\ cookie' # NoCookie => account' = "ready"
    BY DEF Inv, Proxy, RequestInv, tables
  <1>2. CASE Redirect("sign-in")
    BY <1>1, <1>2, SignInIsAPage, RedirectTyped
  <1>3. CASE /\ isPublic(request.path) \/ cookie # NoCookie
             /\ resourceForPath(request.path) # NoResource
             /\ \E at : request' = [pc |-> "serving", path |-> request.path, page |-> At("session"),
                                    layout |-> At(at)] /\ at \in {"session", "passed"}
             /\ held' = standing(member) /\ UNCHANGED links
    <2>1. PICK at : /\ request' = [pc |-> "serving", path |-> request.path, page |-> At("session"),
                                   layout |-> At(at)]
                    /\ at \in {"session", "passed"}
      BY <1>3
    <2>2. request.path \in Dashboard /\ ~isPublic(request.path)
      BY <1>3, NavItems DEF resourceForPath, Dashboard, isPublic
    <2>3. account' = "ready"
      BY <1>1, <1>3, <2>2
    <2>4. held' \subseteq Organizations \X ORG_ROLES
      BY <1>3, StandingTyped DEF Inv, TypeOK
    <2>5. Serving'
      BY <1>1, <1>3, <2>1, <2>2, <2>3 DEF Serving, At, standing
    <2> QED
      BY <1>1, <1>3, <2>1, <2>4, <2>5 DEF Inv, TypeOK, RequestInv, BrowserTyped
  <1>4. CASE request'.pc = "rendered" /\ UNCHANGED <<links, held>>
    BY <1>1, <1>4 DEF Inv, TypeOK, RequestInv, BrowserTyped
  <1> QED
    BY <1>2, <1>3, <1>4 DEF Proxy

LEMMA GetSessionBrowser ==
    ASSUME Inv, NEW part \in Parts, GetSession(part), cookie' # NoCookie => account = "ready"
    PROVE  RequestInv' /\ BrowserTyped'
  <1>1. Serving /\ UNCHANGED <<account, member>> /\ links \subseteq Dashboard
    BY DEF GetSession, Inv, RequestInv, TypeOK, tables
  <1>2. CASE Reaches(part, [at |-> "member", org |-> activeOrganization])
    BY <1>1, <1>2, PartWaits DEF Reaches
  <1>3. CASE Redirect("sign-in")
    BY <1>1, <1>3, SignInIsAPage, RedirectTyped
  <1>4. CASE part = "page" /\ Reaches("page", At("denied"))
    BY <1>1, <1>4, PartWaits DEF Reaches, At
  <1> QED
    BY <1>2, <1>3, <1>4 DEF GetSession, NoIdentity, Parts

LEMMA MemberRowBrowser ==
    ASSUME Inv, NEW part \in Parts, MemberRow(part)
    PROVE  RequestInv' /\ BrowserTyped'
  <1>1. /\ Serving /\ UNCHANGED <<account, member, cookie>> /\ links \subseteq Dashboard
        /\ cookie' # NoCookie => account = "ready"
    BY DEF MemberRow, Inv, RequestInv, TypeOK, tables
  <1>2. CASE Redirect("sign-in")
    BY <1>1, <1>2, SignInIsAPage, RedirectTyped
  <1>3. CASE part = "page" /\ Reaches("page", At("denied"))
    BY <1>1, <1>3, PartWaits DEF Reaches, At
  <1>4. CASE \E m \in rowsIn(request.layout.org) :
               part = "layout" /\ Reaches("layout", [at |-> "plan", role |-> normalizeRole(<<m.role>>)])
    <2>1. PICK m \in rowsIn(request.layout.org) :
            part = "layout" /\ Reaches("layout", [at |-> "plan", role |-> normalizeRole(<<m.role>>)])
      BY <1>4
    <2>2. \E h \in held : h[2] = normalizeRole(<<m.role>>)
      BY <1>1, RowIsHeld
    <2> DEFINE role == normalizeRole(<<m.role>>)
    <2> HIDE DEF role
    <2>3. part = "layout" /\ Reaches("layout", [at |-> "plan", role |-> role])
      BY <2>1 DEF role
    <2>4. \E h \in held : h[2] = role
      BY <2>2 DEF role
    <2> QED
      BY <1>1, <2>3, <2>4, PartWaits DEF Reaches
  <1>5. CASE \E m \in rowsIn(request.page.org) :
               /\ part = "page" /\ mayRead(normalizeRole(<<m.role>>), request.path)
               /\ Reaches("page", [at |-> "service", org |-> request.page.org])
    <2>1. everReadable(request.path, request.page.org)
      BY <1>1, <1>5, RowIsHeld
    <2> QED
      BY <1>1, <1>5, <2>1, PartWaits DEF Reaches
  <1>6. \/ NoIdentity(part)
        \/ \E m \in rowsIn(request[part].org) :
             IF part = "layout" THEN Reaches("layout", [at |-> "plan", role |-> normalizeRole(<<m.role>>)])
             ELSE IF mayRead(normalizeRole(<<m.role>>), request.path)
                  THEN Reaches("page", [at |-> "service", org |-> request[part].org])
                  ELSE Reaches("page", At("denied"))
    BY DEF MemberRow
  <1>7. CASE part = "layout"
    BY <1>2, <1>4, <1>6, <1>7 DEF NoIdentity
  <1>8. CASE part = "page"
    BY <1>3, <1>5, <1>6, <1>8 DEF NoIdentity
  <1> QED
    BY <1>7, <1>8 DEF Parts

LEMMA LayoutBrowser ==
    ASSUME Inv, Layout PROVE RequestInv' /\ BrowserTyped'
  <1>1. /\ Serving /\ UNCHANGED <<account, member, cookie>>
        /\ cookie' # NoCookie => account' = "ready"
    BY DEF Layout, Inv, RequestInv, TypeOK, tables
  <1>2. PICK plan \in PLAN_KEYS :
          LET role         == request.layout.role
              entitlements == [EMPTY_ENTITLEMENTS EXCEPT !.plan = plan]
              to           == guard(navAccess(request.path, role, entitlements))
          IN  IF to = NoResource
              THEN /\ request' = [request EXCEPT !.layout = At("passed")]
                   /\ links' = linksOf(navFor(role, entitlements))
                   /\ UNCHANGED held
              ELSE Redirect(to)
    BY DEF Layout
  <1> DEFINE e      == [EMPTY_ENTITLEMENTS EXCEPT !.plan = plan]
             access == navAccess(request.path, request.layout.role, e)
             to     == guard(access)
  <1>3. \/ /\ request' = [request EXCEPT !["layout"] = At("passed")]
           /\ links' = linksOf(navFor(request.layout.role, e)) /\ UNCHANGED held
        \/ to # NoResource /\ Redirect(to)
    BY <1>2
  <1>4. to # NoResource => to \in Pages
    BY GuardedPages
  <1> HIDE DEF to, e
  <1>5. CASE to # NoResource /\ Redirect(to)
    BY <1>1, <1>4, <1>5, RedirectTyped
  <1>6. CASE /\ request' = [request EXCEPT !["layout"] = At("passed")]
             /\ links' = linksOf(navFor(request.layout.role, e)) /\ UNCHANGED held
    <2>1. links' \subseteq Dashboard
      BY <1>6, LinksTyped
    <2> QED
      BY <1>1, <1>6, <2>1, PartWaits DEF Parts, At
  <1> QED
    BY <1>3, <1>5, <1>6

LEMMA FollowKeeps == ASSUME Inv, Follow PROVE Inv'
  <1>1. /\ UNCHANGED <<now, account, tables, session, changes, landed>>
        /\ \/ UNCHANGED cookie
           \/ /\ hasSession /\ ~copyHolds(cookie.copy)
              /\ cookie' = [cookie EXCEPT !.copy = [org |-> activeOrganization, cachedAt |-> now]]
    BY FollowFrame
  <1>2. cookie' \in {NoCookie} \cup [copy : Copies] /\ CopyInv'
    <2>1. CASE UNCHANGED cookie
      BY <1>1, <2>1 DEF Inv, TypeOK, CopyInv
    <2>2. CASE cookie # NoCookie /\ hasSession /\ ~copyHolds(cookie.copy)
               /\ cookie' = [cookie EXCEPT !.copy = [org |-> activeOrganization, cachedAt |-> now]]
      <3>1. cookie' = [copy |-> [org |-> activeOrganization, cachedAt |-> now]]
            /\ activeOrganization \in Organizable
        BY <2>2, ActiveTyped DEF Inv
      <3>2. now \in 0..MaxTime /\ now < session.endedAt /\ session.endedAt \in Int
        BY <2>2, TimeAssumption DEF hasSession, fresh, Inv, TypeOK, Never
      <3>3. cookie'.copy.cachedAt = now /\ now' = now /\ session' = session
        BY <1>1, <3>1
      <3>4. CopyInv'
        BY <3>2, <3>3 DEF CopyInv
      <3> QED
        BY <3>1, <3>2, <3>4 DEF Copies
    <2> QED
      BY <1>1, <2>1, <2>2 DEF hasSession
  <1>3. cookie' # NoCookie => account = "ready"
    BY <1>1 DEF hasSession, Inv, RequestInv
  <1>4. RequestInv' /\ BrowserTyped'
    <2>1. CASE Proxy
      BY <2>1, ProxyBrowser
    <2>2. CASE Layout
      BY <2>2, LayoutBrowser
    <2>3. CASE Data
      <3>1. /\ Serving /\ request' = [request EXCEPT !["page"] = At("done")]
            /\ UNCHANGED <<links, held, account, member>> /\ links \subseteq Dashboard
        BY <2>3 DEF Data, Reaches, Inv, RequestInv, TypeOK, tables
      <3> QED
        BY <1>3, <3>1, PartWaits DEF Parts, At
    <2>4. CASE Render
      BY <1>1, <1>3, <2>4 DEF Render, Inv, TypeOK, RequestInv, BrowserTyped
    <2>5. ASSUME NEW part \in Parts, GetSession(part) PROVE RequestInv' /\ BrowserTyped'
      BY <1>3, <2>5, GetSessionBrowser
    <2>6. ASSUME NEW part \in Parts, MemberRow(part) PROVE RequestInv' /\ BrowserTyped'
      BY <2>6, MemberRowBrowser
    <2> QED
      BY <2>1, <2>2, <2>3, <2>4, <2>5, <2>6 DEF Follow
  <1>5. TypeOK'
    BY <1>1, <1>2, <1>4 DEF Inv, TypeOK, BrowserTyped, tables, Organizable, Copies, Rows, Never
  <1>6. LandedInv'
    BY <1>1 DEF Inv, LandedInv, landingIn, firstMembership, tables
  <1> QED
    BY <1>2, <1>4, <1>5, <1>6 DEF Inv

LEMMA InvNext == Inv /\ [Next]_vars => Inv'
  <1> SUFFICES ASSUME Inv, [Next]_vars PROVE Inv'
    OBVIOUS
  <1>1. CASE UNCHANGED vars
    <2>1. RequestInv' /\ BrowserTyped'
      BY <1>1, BrowserKept DEF vars, tables, Inv, RequestInv
    <2> QED
      BY <1>1, <2>1, Assembled, TimeAssumption DEF vars, Inv, TypeOK
  <1>2. CASE Tick
    <2>1. RequestInv' /\ BrowserTyped'
      BY <1>2, BrowserKept DEF Tick, tables, Inv, RequestInv
    <2>2. now' \in 0..MaxTime /\ now' >= now
      BY <1>2, TimeAssumption DEF Tick, Inv, TypeOK
    <2> QED
      BY <1>2, <2>1, <2>2, Assembled DEF Tick
  <1>3. CASE SignOut
    <2>1. session' = NoSession /\ cookie' = NoCookie
          /\ UNCHANGED <<now, account, tables, browser, changes, landed>>
      BY <1>3 DEF SignOut
    <2>2. NoSession \in [org : Organizable, endedAt : 0..Never]
      BY TimeAssumption DEF NoSession, Organizable, Never
    <2>3. RequestInv' /\ BrowserTyped'
      BY <2>1, BrowserKept DEF tables
    <2>4. TypeOK'
      BY <2>1, <2>2, <2>3 DEF Inv, TypeOK, BrowserTyped, tables, Organizable, Copies, Rows, Never
    <2> QED
      BY <2>1, <2>3, <2>4 DEF Inv, CopyInv, LandedInv, landingIn, firstMembership, tables
  <1> QED
    BY <1>1, <1>2, <1>3, NavigateKeeps, FollowKeeps, SignUpKeeps, SignInKeeps, EndSessionKeeps,
       MembershipKeeps, SetActiveKeeps DEF Next

-----------------------------------------------------------------------------
(* The theorems *)

\* Every variable keeps its type; the account's member rows have ids of their
\* own.
THEOREM TypeCorrect == Spec => []TypeOK
  <1>1. Inv => TypeOK
    BY DEF Inv
  <1> QED
    BY InvInit, InvNext, <1>1, PTL DEF Spec

\* A part of a served request moves by the steps of that part alone.
LEMMA PartStep ==
    ASSUME Inv, Next, request.pc = "serving", request'.pc = "serving"
    PROVE  \/ request' = request
           \/ Layout \/ Data
           \/ \E part \in Parts : GetSession(part) \/ MemberRow(part)
  <1>1. ~Navigate /\ ~FollowLink /\ ~SignIn /\ ~Proxy /\ ~Render
    BY DEF Navigate, FollowLink, SignIn, Proxy, Render
  <1> QED
    BY <1>1 DEF Next, Follow, Tick, SignUp, HookOrganization, HookMember, HookFails, SignUpEnds,
                SignOut, EndSession, LoseMembership, ChangeRole, DeleteOrganization,
                CreateOrganization, AuthEndpoint, SetActive, Changed, browser

\* Where the verified membership takes a part.
LEMMA RowMoves ==
    ASSUME NEW part \in Parts, MemberRow(part)
    PROVE  \/ request'.pc = "proxy"
           \/ request' = [request EXCEPT !["page"] = At("denied")]
           \/ \E role : request' = [request EXCEPT !["layout"] = [at |-> "plan", role |-> role]]
           \/ \E org : request' = [request EXCEPT !["page"] = [at |-> "service", org |-> org]]
  <1>1. CASE NoIdentity(part)
    BY <1>1 DEF NoIdentity, Redirect, Reaches
  <1>2. CASE Reaches("page", At("denied"))
    BY <1>2 DEF Reaches
  <1>3. ASSUME NEW role, Reaches("layout", [at |-> "plan", role |-> role])
        PROVE  \E r : request' = [request EXCEPT !["layout"] = [at |-> "plan", role |-> r]]
    BY <1>3 DEF Reaches
  <1>4. ASSUME NEW org, Reaches("page", [at |-> "service", org |-> org])
        PROVE  \E o : request' = [request EXCEPT !["page"] = [at |-> "service", org |-> o]]
    BY <1>4 DEF Reaches
  <1>5. \/ NoIdentity(part)
        \/ Reaches("page", At("denied"))
        \/ \E role : Reaches("layout", [at |-> "plan", role |-> role])
        \/ \E org : Reaches("page", [at |-> "service", org |-> org])
    <2>1. \/ NoIdentity(part)
          \/ \E m \in rowsIn(request[part].org) :
               IF part = "layout" THEN Reaches("layout", [at |-> "plan", role |-> normalizeRole(<<m.role>>)])
               ELSE IF mayRead(normalizeRole(<<m.role>>), request.path)
                    THEN Reaches("page", [at |-> "service", org |-> request[part].org])
                    ELSE Reaches("page", At("denied"))
      BY DEF MemberRow
    <2> QED
      BY <2>1
  <1> QED
    BY <1>1, <1>2, <1>3, <1>4, <1>5

\* A session that ended is taken for one for less than cookieCache.maxAge, by
\* the layout and by the gateway (identity.ts, getSession), whatever renewed the
\* copy of it in between.
THEOREM SessionsFade == Spec => EndedSessionsFade
  <1>1. ASSUME Inv, [Next]_vars
        PROVE  [\A part \in Parts :
                  (/\ request.pc = "serving" /\ request'.pc = "serving"
                   /\ request[part].at = "session" /\ request'[part].at = "member")
                    => now < session.endedAt + MaxAge]_vars
    <2> SUFFICES ASSUME Next, NEW part \in Parts,
                        request.pc = "serving", request'.pc = "serving",
                        request[part].at = "session", request'[part].at = "member"
                 PROVE  now < session.endedAt + MaxAge
      BY <1>1
    <2>1. Serving
      BY <1>1 DEF Inv, RequestInv
    <2>2. hasSession
      <3>1. ASSUME NEW other \in Parts, NEW where, where.at # "member",
                   request' = [request EXCEPT ![other] = where]
            PROVE  FALSE
        <4>1. CASE other = "layout" /\ part = "layout"
          BY <2>1, <3>1, <4>1, PartMoves
        <4>2. CASE other = "layout" /\ part = "page"
          BY <2>1, <3>1, <4>2, PartMoves
        <4>3. CASE other = "page" /\ part = "layout"
          BY <2>1, <3>1, <4>3, PartMoves
        <4>4. CASE other = "page" /\ part = "page"
          BY <2>1, <3>1, <4>4, PartMoves
        <4> QED
          BY <4>1, <4>2, <4>3, <4>4 DEF Parts
      <3>2. ~Data
        BY <3>1 DEF Data, Reaches, At, Parts
      <3>3. ~Layout
        <4> SUFFICES ASSUME Layout PROVE FALSE
          OBVIOUS
        <4>1. request' = [request EXCEPT !["layout"] = At("passed")]
          <5>1. request'.pc = "proxy" \/ request' = [request EXCEPT !.layout = At("passed")]
            BY DEF Layout, Redirect
          <5> QED
            BY <5>1
        <4> QED
          BY <3>1, <4>1 DEF At, Parts
      <3>4. ASSUME NEW other \in Parts, MemberRow(other) PROVE FALSE
        <4>1. \/ request'.pc = "proxy"
              \/ request' = [request EXCEPT !["page"] = At("denied")]
              \/ \E role : request' = [request EXCEPT !["layout"] = [at |-> "plan", role |-> role]]
              \/ \E org : request' = [request EXCEPT !["page"] = [at |-> "service", org |-> org]]
          BY <3>4, RowMoves
        <4> QED
          BY <3>1, <4>1 DEF At, Parts
      <3>5. ASSUME NEW other \in Parts, GetSession(other), ~hasSession PROVE FALSE
        <4>1. request'.pc = "proxy" \/ request' = [request EXCEPT !["page"] = At("denied")]
          BY <3>5 DEF GetSession, NoIdentity, Redirect, Reaches
        <4> QED
          BY <3>1, <4>1 DEF At, Parts
      <3>6. request' # request
        OBVIOUS
      <3> QED
        BY <1>1, <3>2, <3>3, <3>4, <3>5, <3>6, PartStep
    <2>4. now \in Int /\ session.endedAt \in Int /\ MaxAge \in Nat
      BY <1>1, TimeAssumption DEF Inv, TypeOK, Never
    <2>5. CASE fresh
      BY <2>4, <2>5 DEF fresh
    <2>6. CASE copyHolds(cookie.copy)
      <3>1. cookie.copy \in [org : Organizable, cachedAt : 0..MaxTime]
        BY <1>1, <2>2, <2>6, ActiveTyped, CopiesTyped DEF Inv, hasSession, copyHolds
      <3>2. cookie.copy.cachedAt \in Int /\ cookie.copy.cachedAt <= session.endedAt
        BY <1>1, <2>2, <2>6, <3>1 DEF Inv, CopyInv, hasSession, copyHolds
      <3> QED
        BY <2>4, <2>6, <3>2 DEF copyHolds
    <2> QED
      BY <2>2, <2>5, <2>6 DEF hasSession
  <1> QED
    BY InvInit, InvNext, <1>1, PTL DEF Spec, EndedSessionsFade

\* Sign-ins lead to one organisation while the memberships stay (auth.ts,
\* session.create.before).
THEOREM SameLanding == Spec => SameTenantNextTime
  <1>1. ASSUME Inv, [Next]_vars
        PROVE  [(SignIn /\ landed # NoOrganization) => landed' = landed]_vars
    <2> SUFFICES ASSUME SignIn, landed # NoOrganization PROVE landed' = landed
      OBVIOUS
    <2>1. PICK org \in Organizable : landingIn(org) /\ landed' = org
      BY DEF SignIn, Organizable
    <2>2. landed \in Organizable /\ landingIn(landed) /\ TypeOK
      BY <1>1 DEF Inv, LandedInv, TypeOK
    <2> QED
      BY <2>1, <2>2, OneLanding
  <1> QED
    BY InvInit, InvNext, <1>1, PTL DEF Spec, SameTenantNextTime

\* Who may create an organisation holds the permission for it.
LEMMA CreatorsMayCreate ==
    ASSUME NEW role, roleAtLeast(role, ruleFor("organization", "create").minRole)
    PROVE  <<"organization", "create">> \in permissionsForRole(role)
  <1>1. "organization" \in RESOURCE_KEYS /\ "create" \in operationsOf("organization")
    BY DEF RESOURCE_KEYS, RESOURCES, OrganizationResource, operationsOf, OPERATIONS, isOperationOf
  <1>2. <<"organization", "create">> \in PERMISSIONS
    BY <1>1 DEF PERMISSIONS
  <1> QED
    BY <1>2 DEF permissionsForRole

\* What superseded.ts closes stays closed: no endpoint left to Better Auth
\* ends or alters a membership or makes an organisation, and an account without
\* a membership gets its first from the sign-up hook or in an organisation that
\* was there before.
THEOREM GuardedMemberships == Spec => MembershipsAreGuarded
  <1>1. ASSUME Inv, [Next]_vars
        PROVE  [/\ AuthEndpoint => member \subseteq member'
                /\ organization' \ organization # {} =>
                     \/ account = "user"
                     \/ \E h \in standing(member) :
                          <<"organization", "create">> \in permissionsForRole(h[2])
                /\ (member = {} /\ member' # {}) =>
                     account = "workspace" \/ \A m \in member' : m.org \in organization]_vars
    <2>1. TypeOK
      BY <1>1 DEF Inv
    <2>2. ASSUME AuthEndpoint
          PROVE  /\ organization' = organization
                 /\ \E org \in organization, role \in Columns : member' \in withRow(org, role)
      BY <2>1, <2>2, OpenEndpoints
    <2>3. ASSUME AuthEndpoint PROVE member \subseteq member'
      <3>1. PICK org \in Organizations, role \in Columns : member' \in withRow(org, role)
        BY <2>1, <2>2, <2>3 DEF TypeOK
      <3> QED
        BY <2>1, <3>1, RowAdded
    <2>4. ASSUME Next, organization' \ organization # {}, account # "user"
          PROVE  \E h \in standing(member) : <<"organization", "create">> \in permissionsForRole(h[2])
      <3>1. ~HookOrganization /\ ~AuthEndpoint /\ ~DeleteOrganization
        BY <2>2, <2>4 DEF HookOrganization, DeleteOrganization
      <3>2. organization' # organization
        BY <2>4
      <3>3. ~Follow
        BY <3>2, FollowFrame DEF tables
      <3>4. CreateOrganization
        BY <2>4, <3>1, <3>2, <3>3
           DEF Next, Tick, Navigate, FollowLink, SignUp, HookMember, HookFails, SignUpEnds, SignIn,
               SignOut, EndSession, LoseMembership, ChangeRole, SetActive, tables
      <3>5. PICK m \in rowsIn(activeOrganization) :
              roleAtLeast(normalizeRole(<<m.role>>), ruleFor("organization", "create").minRole)
        BY <3>4 DEF CreateOrganization
      <3>6. <<"organization", "create">> \in permissionsForRole(normalizeRole(<<m.role>>))
        BY <3>5, CreatorsMayCreate
      <3>7. <<m.org, normalizeRole(<<m.role>>)>> \in standing(member)
        BY DEF standing, rowsIn
      <3> QED
        BY <3>6, <3>7
    <2>5. ASSUME Next, member = {}, member' # {}, account # "workspace"
          PROVE  \A m \in member' : m.org \in organization
      <3>1. ~CreateOrganization /\ ~ChangeRole /\ ~LoseMembership /\ ~DeleteOrganization /\ ~HookMember
        BY <2>5 DEF CreateOrganization, ChangeRole, LoseMembership, DeleteOrganization, rowsIn, HookMember
      <3>2. member' # member
        BY <2>5
      <3>3. ~Follow
        BY <3>2, FollowFrame DEF tables
      <3>4. AuthEndpoint
        BY <2>5, <3>1, <3>2, <3>3
           DEF Next, Tick, Navigate, FollowLink, SignUp, HookOrganization, HookFails, SignUpEnds,
               SignIn, SignOut, EndSession, SetActive, tables
      <3>5. PICK org \in organization, role \in Columns : member' \in withRow(org, role)
        BY <2>2, <3>4
      <3> QED
        BY <2>5, <3>5 DEF withRow
    <2> QED
      BY <1>1, <2>3, <2>4, <2>5 DEF vars, tables
  <1> QED
    BY InvInit, InvNext, <1>1, PTL DEF Spec, MembershipsAreGuarded

\* What the sidebar shows to a role, the role may read: the registry declares
\* no page without a read operation.
LEMMA VisibleIsReadable ==
    ASSUME NEW page \in NAV_ITEMS, NEW role, NEW entitlements,
           navAccess(page, role, entitlements).visible
    PROVE  <<page, "read">> \in permissionsForRole(role)
  <1>1. page \in {"project", "member", "billing", "auditLog"}
    <2>1. page \in RESOURCE_KEYS /\ RESOURCES[page].nav # NoNav
      BY DEF NAV_ITEMS
    <2>2. page \in {"organization", "membership", "project", "member", "invitation", "billing",
                    "auditLog"}
      BY <2>1 DEF RESOURCE_KEYS, RESOURCES
    <2>3. RESOURCES["organization"].nav = NoNav /\ RESOURCES["membership"].nav = NoNav
          /\ RESOURCES["invitation"].nav = NoNav
      BY DEF RESOURCES, OrganizationResource, MembershipResource, InvitationResource
    <2> QED
      BY <2>1, <2>2, <2>3
  <1>2. "read" \in operationsOf(page) /\ page \in RESOURCE_KEYS
    BY <1>1 DEF operationsOf, isOperationOf, OPERATIONS, RESOURCE_KEYS, RESOURCES, ProjectResource,
                MemberResource, BillingResource, AuditLogResource
  <1>3. roleAtLeast(role, ruleFor(page, "read").minRole)
    <2> DEFINE readable == operationsOf(page) \cap {"read", "manage"}
    <2>1. "read" \in readable /\ readable # {}
      BY <1>2
    <2>2. navAccess(page, role, entitlements)
            = [visible |-> roleAtLeast(role, ruleFor(page, "read").minRole),
               locked  |-> ~isInPlan(page, entitlements.plan)]
      BY <2>1 DEF navAccess
    <2> QED
      BY <2>2
  <1>4. <<page, "read">> \in PERMISSIONS
    BY <1>2 DEF PERMISSIONS
  <1> QED
    BY <1>3, <1>4 DEF permissionsForRole

\* Where a link of the sidebar leads, the role may read: an item is locked for
\* the audit log alone, whose readers read the billing page too.
LEMMA LinksAreReadable ==
    ASSUME NEW role, NEW e, e.plan \in PLAN_KEYS, NEW page \in linksOf(navFor(role, e))
    PROVE  <<page, "read">> \in permissionsForRole(role)
  <1>1. PICK r \in NAV_ITEMS :
          /\ navAccess(r, role, e).visible
          /\ page = IF navAccess(r, role, e).locked THEN "billing" ELSE r
    BY DEF linksOf, navFor
  <1>2. <<r, "read">> \in permissionsForRole(role)
    BY <1>1, VisibleIsReadable
  <1>3. CASE navAccess(r, role, e).locked
    <2>1. r = "auditLog"
      <3> SUFFICES ASSUME r \in {"project", "member", "billing"} PROVE FALSE
        BY NavItems
      <3>1. e.plan \in {"free", "pro", "scale"}
        BY DEF PLAN_KEYS, PLANS
      <3>2. isInPlan(r, e.plan)
        BY <3>1 DEF isInPlan, limitFor, RESOURCES, ProjectResource, MemberResource,
           BillingResource, Limits, NotInPlan, Unlimited
      <3> QED
        BY <1>3, <3>2 DEF navAccess
    <2>2. roleAtLeast(role, ruleFor("auditLog", "read").minRole)
      BY <1>2, <2>1 DEF permissionsForRole
    <2>3. /\ ruleFor("auditLog", "read").minRole = "admin"
          /\ ruleFor("billing", "read").minRole = "admin"
      BY DEF ruleFor, RESOURCES, AuditLogResource, BillingResource, Op
    <2>4. <<"billing", "read">> \in PERMISSIONS
      BY DEF PERMISSIONS, operationsOf, isOperationOf, OPERATIONS, RESOURCE_KEYS, RESOURCES,
             BillingResource
    <2>5. <<"billing", "read">> \in permissionsForRole(role)
      BY <2>2, <2>3, <2>4 DEF permissionsForRole
    <2> QED
      BY <1>1, <1>3, <2>5
  <1> QED
    BY <1>1, <1>2, <1>3

\* A page's data is fetched only for an account that has had a role to read it
\* since the request is served, whichever layout the page is shown in (the
\* gateway's gates), and a layout offers only what some such role may read
\* (navFor in the layout and the sidebar).
THEOREM RenderedPages == Spec => RenderedIsAllowed
  <1>1. ASSUME Inv, [Next]_vars
        PROVE  [/\ (/\ request.pc = "serving" /\ request'.pc = "serving"
                    /\ request.page.at = "service" /\ request'.page.at = "done")
                     => everReadable(request.path, request.page.org)
                /\ (links = {} /\ links' # {}) =>
                     \A page \in links' : everReadable(page, NoOrganization)]_vars
    <2>1. request.pc = "serving" /\ request.page.at = "service"
            => everReadable(request.path, request.page.org)
      BY <1>1 DEF Inv, RequestInv, Serving
    <2>2. ASSUME Next, links = {}, links' # {}, NEW page \in links'
          PROVE  everReadable(page, NoOrganization)
      <3>1. Layout /\ links' # {}
        <4>1. ASSUME NEW path, Redirect(path) PROVE FALSE
          BY <2>2, <4>1 DEF Redirect
        <4>2. ASSUME NEW part, GetSession(part) \/ MemberRow(part) PROVE FALSE
          <5>1. UNCHANGED links \/ Redirect("sign-in")
            BY <4>2 DEF GetSession, MemberRow, NoIdentity, Reaches
          <5> QED
            BY <2>2, <4>1, <5>1
        <4>3. ~Proxy /\ ~Navigate
          BY <2>2, <4>1 DEF Proxy, Navigate
        <4> QED
          BY <2>2, <4>2, <4>3
             DEF Next, Follow, Tick, FollowLink, Data, Reaches, Render, SignUp, HookOrganization,
                 HookMember, HookFails, SignUpEnds, SignIn, SignOut, EndSession, LoseMembership,
                 ChangeRole, DeleteOrganization, CreateOrganization, AuthEndpoint, SetActive,
                 Changed, browser
      <3>2. PICK plan \in PLAN_KEYS :
              \/ links' = linksOf(navFor(request.layout.role, [EMPTY_ENTITLEMENTS EXCEPT !.plan = plan]))
              \/ links' = {}
        BY <3>1 DEF Layout, Redirect
      <3> DEFINE e == [EMPTY_ENTITLEMENTS EXCEPT !.plan = plan]
      <3>3. e.plan \in PLAN_KEYS
        BY DEF EMPTY_ENTITLEMENTS
      <3>4. page \in linksOf(navFor(request.layout.role, e))
        BY <2>2, <3>1, <3>2
      <3> HIDE DEF e
      <3>5. <<page, "read">> \in permissionsForRole(request.layout.role)
        BY <3>3, <3>4, LinksAreReadable
      <3>6. \E h \in held : h[2] = request.layout.role
        BY <1>1, <3>1 DEF Layout, Inv, RequestInv, Serving
      <3> QED
        BY <3>5, <3>6 DEF everReadable
    <2> QED
      BY <1>1, <2>1, <2>2 DEF vars, browser
  <1> QED
    BY InvInit, InvNext, <1>1, PTL DEF Spec, RenderedIsAllowed

-----------------------------------------------------------------------------
(* Redirects descend *)

\* Where a page can still send a browser to lies below it.
Level(path) ==
    IF path \in {"home", "sign-in"} THEN 0
    ELSE IF path \in {"onboarding", "project", "member"} THEN 1
    ELSE IF path = "billing" THEN 2 ELSE 3

\* How far the servers are from answering for a layout or a page.
Awaits(at) ==
    IF at = "session" THEN 3 ELSE IF at = "member" THEN 2
    ELSE IF at \in {"plan", "service"} THEN 1 ELSE 0

Distance(r) ==
    8 * Level(r.path) + IF r.pc = "proxy" THEN 8
                        ELSE IF r.pc = "serving" THEN 1 + Awaits(r.layout.at) + Awaits(r.page.at)
                        ELSE 0

UnderWay == request.pc \in {"proxy", "serving"}

\* The layout sends a request down or not at all, whatever the role and the plan.
LEMMA GuardDescends ==
    ASSUME NEW page \in NAV_ITEMS, NEW role \in ORG_ROLES, NEW e, e.plan \in PLAN_KEYS,
           guard(navAccess(page, role, e)) # NoResource
    PROVE  /\ guard(navAccess(page, role, e)) \in Pages
           /\ Level(guard(navAccess(page, role, e))) < Level(page)
  <1> DEFINE access == navAccess(page, role, e)
  <1>1. guard(access) \in {"project", "billing"}
    BY DEF guard
  <1>2. page \in {"project", "member", "billing"} => ~access.locked
    <2>1. ASSUME page \in {"project", "member", "billing"} PROVE isInPlan(page, e.plan)
      <3>1. e.plan \in {"free", "pro", "scale"}
        BY DEF PLAN_KEYS, PLANS
      <3> QED
        BY <2>1, <3>1 DEF isInPlan, limitFor, RESOURCES, ProjectResource, MemberResource,
           BillingResource, Limits, NotInPlan, Unlimited
    <2> QED
      BY <2>1 DEF navAccess
  <1>3. page \in {"project", "member"} => access.visible
    <2>1. ROLE_RANK["member"] = 1 /\ ROLE_RANK["admin"] = 2 /\ ROLE_RANK["owner"] = 3
      BY Zenon DEF ROLE_RANK, ORG_ROLES
    <2>2. roleAtLeast(role, "member")
      BY <2>1 DEF roleAtLeast, ORG_ROLES
    <2>3. ASSUME page \in {"project", "member"}
          PROVE  "read" \in operationsOf(page) /\ ruleFor(page, "read").minRole = "member"
      BY <2>3 DEF operationsOf, isOperationOf, OPERATIONS, ruleFor, Op, RESOURCES, ProjectResource,
         MemberResource
    <2>4. ASSUME page \in {"project", "member"}
          PROVE  access = [visible |-> roleAtLeast(role, ruleFor(page, "read").minRole),
                           locked  |-> ~isInPlan(page, e.plan)]
      BY <2>3, <2>4 DEF navAccess
    <2> QED
      BY <2>2, <2>3, <2>4
  <1>4. page \in {"billing", "auditLog"} /\ (page = "billing" => guard(access) = "project")
    BY <1>2, <1>3, NavItems DEF guard
  <1> QED
    BY <1>1, <1>4, NavItems DEF Level, Pages, Dashboard

Nearer == Distance(request') \in Nat /\ Distance(request') < Distance(request)

LEMMA AwaitsTyped == \A at : Awaits(at) \in 0..3
  BY DEF Awaits

LEMMA AwaitsAre ==
    /\ Awaits("session") = 3 /\ Awaits("member") = 2
    /\ Awaits("plan") = 1 /\ Awaits("service") = 1
    /\ Awaits("passed") = 0 /\ Awaits("done") = 0 /\ Awaits("denied") = 0
  BY DEF Awaits

LEMMA LevelTyped ==
    /\ \A path : Level(path) \in 0..3
    /\ Level("sign-in") = 0
    /\ \A path \in Dashboard : Level(path) > 0
    /\ \A path \in Pages : ~isPublic(path) => Level(path) > 0
  BY NavItems DEF Level, Dashboard, Pages, isPublic

LEMMA RedirectsDescend ==
    ASSUME UnderWay, NEW path \in Pages, Redirect(path), Level(path) < Level(request.path)
    PROVE  Nearer
  <1>1. request'.path = path /\ request'.pc = "proxy"
    BY DEF Redirect
  <1>2. Distance(request') = 8 * Level(path) + 8
    BY <1>1 DEF Distance
  <1>3. Distance(request) > 8 * Level(request.path) /\ Distance(request) \in Int
    BY AwaitsTyped, LevelTyped DEF Distance, UnderWay
  <1> QED
    BY <1>2, <1>3, LevelTyped DEF Nearer

LEMMA PartsDescend ==
    ASSUME Serving, request.pc = "serving", NEW part \in Parts, NEW where,
           request' = [request EXCEPT ![part] = where], Awaits(where.at) < Awaits(request[part].at)
    PROVE  Nearer
  <1>1. /\ request'.pc = "serving" /\ request'.path = request.path
        /\ part = "layout" => request'.layout = where /\ request'.page = request.page
        /\ part = "page" => request'.page = where /\ request'.layout = request.layout
    BY PartMoves
  <1>2. /\ Distance(request) = 8 * Level(request.path) + (1 + Awaits(request.layout.at) + Awaits(request.page.at))
        /\ Distance(request') = 8 * Level(request.path) + (1 + Awaits(request'.layout.at) + Awaits(request'.page.at))
    BY <1>1 DEF Distance
  <1>3. CASE part = "layout"
    BY <1>1, <1>2, <1>3, AwaitsTyped, LevelTyped DEF Nearer
  <1>4. CASE part = "page"
    BY <1>1, <1>2, <1>4, AwaitsTyped, LevelTyped DEF Nearer
  <1> QED
    BY <1>3, <1>4 DEF Parts

LEMMA FollowDescends == ASSUME Inv, Follow PROVE Nearer
  <1>1. CASE Proxy
    <2>1. request.pc = "proxy" /\ UnderWay /\ request.path \in Pages
      BY <1>1 DEF Proxy, UnderWay, Inv, RequestInv
    <2>2. CASE Redirect("sign-in") /\ ~isPublic(request.path)
      BY <2>1, <2>2, LevelTyped, SignInIsAPage, RedirectsDescend
    <2>3. CASE \E at : request' = [pc |-> "serving", path |-> request.path, page |-> At("session"),
                                  layout |-> At(at)]
      <3>1. PICK at : request' = [pc |-> "serving", path |-> request.path, page |-> At("session"),
                                  layout |-> At(at)]
        BY <2>3
      <3>2. /\ Distance(request) = 8 * Level(request.path) + 8
            /\ Distance(request') = 8 * Level(request.path) + (1 + Awaits(at) + Awaits("session"))
        BY <2>1, <3>1 DEF Distance, At
      <3> QED
        BY <3>2, AwaitsTyped, LevelTyped DEF Nearer
    <2>4. CASE request' = [pc |-> "rendered", path |-> request.path, outcome |-> "done"]
      BY <2>1, <2>4, LevelTyped DEF Nearer, Distance
    <2> QED
      BY <1>1, <2>2, <2>3, <2>4 DEF Proxy
  <1>2. CASE ~Proxy
    <2>1. Serving /\ request.pc = "serving" /\ UnderWay /\ request.path \in Dashboard
      <3>1. request.pc = "serving"
        BY <1>2 DEF Follow, Layout, Data, Render, GetSession, MemberRow
      <3> QED
        BY <3>1 DEF Inv, RequestInv, UnderWay, Serving
    <2>2. ASSUME Redirect("sign-in") PROVE Nearer
      BY <2>1, <2>2, LevelTyped, SignInIsAPage, RedirectsDescend
    <2>3. CASE Data
      <3> DEFINE where == At("done")
      <3>1. request["page"].at = "service" /\ request' = [request EXCEPT !["page"] = where]
            /\ where.at = "done"
        BY <2>3 DEF Data, Reaches, At
      <3>2. Awaits(where.at) < Awaits(request["page"].at)
        BY <3>1, AwaitsAre
      <3> HIDE DEF where
      <3> QED
        BY <2>1, <3>1, <3>2, PartsDescend DEF Parts
    <2>4. CASE Render
      <3>1. request'.pc = "rendered" /\ request'.path = request.path
        BY <2>4 DEF Render
      <3> QED
        BY <2>1, <3>1, AwaitsTyped, LevelTyped DEF Nearer, Distance
    <2>5. ASSUME NEW part \in Parts, GetSession(part) PROVE Nearer
      <3>1. request[part].at = "session"
        BY <2>5 DEF GetSession
      <3>2. \/ request' = [request EXCEPT ![part] = [at |-> "member", org |-> activeOrganization]]
            \/ Redirect("sign-in")
            \/ request' = [request EXCEPT ![part] = At("denied")]
        BY <2>5 DEF GetSession, NoIdentity, Reaches, Parts
      <3>3. CASE request' = [request EXCEPT ![part] = [at |-> "member", org |-> activeOrganization]]
        <4> DEFINE where == [at |-> "member", org |-> activeOrganization]
        <4>1. where.at = "member" /\ request' = [request EXCEPT ![part] = where]
          BY <3>3
        <4>2. Awaits(where.at) < Awaits(request[part].at)
          BY <3>1, <4>1, AwaitsAre
        <4> HIDE DEF where
        <4> QED
          BY <2>1, <4>1, <4>2, PartsDescend
      <3>4. CASE request' = [request EXCEPT ![part] = At("denied")]
        <4> DEFINE where == At("denied")
        <4>1. where.at = "denied" /\ request' = [request EXCEPT ![part] = where]
          BY <3>4 DEF At
        <4>2. Awaits(where.at) < Awaits(request[part].at)
          BY <3>1, <4>1, AwaitsAre
        <4> HIDE DEF where
        <4> QED
          BY <2>1, <4>1, <4>2, PartsDescend
      <3> QED
        BY <2>2, <3>2, <3>3, <3>4
    <2>6. ASSUME NEW part \in Parts, MemberRow(part) PROVE Nearer
      <3>1. request[part].at = "member"
        BY <2>6 DEF MemberRow
      <3>2. \/ Redirect("sign-in")
            \/ request' = [request EXCEPT ![part] = At("denied")]
            \/ \E role : request' = [request EXCEPT ![part] = [at |-> "plan", role |-> role]]
            \/ \E org : request' = [request EXCEPT ![part] = [at |-> "service", org |-> org]]
        <4>1. \/ NoIdentity(part)
              \/ \E m \in rowsIn(request[part].org) :
                   IF part = "layout" THEN Reaches("layout", [at |-> "plan", role |-> normalizeRole(<<m.role>>)])
                   ELSE IF mayRead(normalizeRole(<<m.role>>), request.path)
                        THEN Reaches("page", [at |-> "service", org |-> request[part].org])
                        ELSE Reaches("page", At("denied"))
          BY <2>6 DEF MemberRow
        <4>2. CASE part = "layout"
          BY <4>1, <4>2 DEF NoIdentity, Reaches
        <4>3. CASE part = "page"
          BY <4>1, <4>3 DEF NoIdentity, Reaches
        <4> QED
          BY <4>2, <4>3 DEF Parts
      <3>3. CASE request' = [request EXCEPT ![part] = At("denied")]
        <4> DEFINE where == At("denied")
        <4>1. where.at = "denied" /\ request' = [request EXCEPT ![part] = where]
          BY <3>3 DEF At
        <4>2. Awaits(where.at) < Awaits(request[part].at)
          BY <3>1, <4>1, AwaitsAre
        <4> HIDE DEF where
        <4> QED
          BY <2>1, <4>1, <4>2, PartsDescend
      <3>4. ASSUME NEW role, request' = [request EXCEPT ![part] = [at |-> "plan", role |-> role]]
            PROVE  Nearer
        <4> DEFINE where == [at |-> "plan", role |-> role]
        <4>1. where.at = "plan" /\ request' = [request EXCEPT ![part] = where]
          BY <3>4
        <4>2. Awaits(where.at) < Awaits(request[part].at)
          BY <3>1, <4>1, AwaitsAre
        <4> HIDE DEF where
        <4> QED
          BY <2>1, <4>1, <4>2, PartsDescend
      <3>5. ASSUME NEW org, request' = [request EXCEPT ![part] = [at |-> "service", org |-> org]]
            PROVE  Nearer
        <4> DEFINE where == [at |-> "service", org |-> org]
        <4>1. where.at = "service" /\ request' = [request EXCEPT ![part] = where]
          BY <3>5
        <4>2. Awaits(where.at) < Awaits(request[part].at)
          BY <3>1, <4>1, AwaitsAre
        <4> HIDE DEF where
        <4> QED
          BY <2>1, <4>1, <4>2, PartsDescend
      <3> QED
        BY <2>2, <3>2, <3>3, <3>4, <3>5
    <2>7. CASE Layout
      <3>1. request.layout.at = "plan" /\ request.layout.role \in ORG_ROLES
        BY <2>1, <2>7 DEF Layout, Serving, Inv, TypeOK
      <3>2. PICK plan \in PLAN_KEYS :
              \/ request' = [request EXCEPT !["layout"] = At("passed")]
              \/ LET to == guard(navAccess(request.path, request.layout.role,
                                           [EMPTY_ENTITLEMENTS EXCEPT !.plan = plan]))
                 IN  to # NoResource /\ Redirect(to)
        BY <2>7 DEF Layout
      <3> DEFINE e  == [EMPTY_ENTITLEMENTS EXCEPT !.plan = plan]
                 to == guard(navAccess(request.path, request.layout.role, e))
      <3>3. e.plan = plan
        BY DEF EMPTY_ENTITLEMENTS
      <3>4. to # NoResource => to \in Pages /\ Level(to) < Level(request.path)
        BY <2>1, <3>1, <3>3, GuardDescends DEF Dashboard
      <3>5. request' = [request EXCEPT !["layout"] = At("passed")] \/ (to # NoResource /\ Redirect(to))
        BY <3>2
      <3> HIDE DEF to, e
      <3>6. CASE request' = [request EXCEPT !["layout"] = At("passed")]
        <4> DEFINE where == At("passed")
        <4>1. where.at = "passed" /\ request' = [request EXCEPT !["layout"] = where]
              /\ request["layout"].at = "plan"
          BY <3>1, <3>6 DEF At
        <4>2. Awaits(where.at) < Awaits(request["layout"].at)
          BY <4>1, AwaitsAre
        <4> HIDE DEF where
        <4> QED
          BY <2>1, <4>1, <4>2, PartsDescend DEF Parts
      <3>7. CASE to # NoResource /\ Redirect(to)
        BY <2>1, <3>4, <3>7, RedirectsDescend
      <3> QED
        BY <3>5, <3>6, <3>7
    <2> QED
      BY <1>2, <2>3, <2>4, <2>5, <2>6, <2>7 DEF Follow
  <1> QED
    BY <1>1, <1>2

\* No redirect leads in a circle: whatever happens to the session, the
\* memberships and the plan between its steps, every step of a navigation under
\* way brings it nearer to a page, and nothing but its own steps moves it
\* (proxy.ts, layout.tsx).
THEOREM NoCircles == Spec => [][UnderWay => request' = request \/ (Follow /\ Nearer)]_vars
  <1>1. ASSUME Inv, [Next]_vars
        PROVE  [UnderWay => request' = request \/ (Follow /\ Nearer)]_vars
    <2>1. Follow => Nearer
      BY <1>1, FollowDescends
    <2>2. ASSUME Next, UnderWay, ~Follow PROVE request' = request
      BY <2>2
         DEF Next, UnderWay, Tick, Navigate, FollowLink, SignUp, HookOrganization, HookMember,
             HookFails, SignUpEnds, SignIn, SignOut, EndSession, LoseMembership, ChangeRole,
             DeleteOrganization, CreateOrganization, AuthEndpoint, SetActive, Changed, browser
    <2> QED
      BY <1>1, <2>1, <2>2 DEF vars, browser
  <1> QED
    BY InvInit, InvNext, <1>1, PTL DEF Spec
=============================================================================

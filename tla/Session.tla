------------------------------ MODULE Session ------------------------------
(***************************************************************************)
(* From sign-up to a rendered page: the hooks on users and sessions        *)
(* (packages/auth/src/auth.ts), identify (identity.ts), the proxy, the     *)
(* dashboard's layout, sidebar and pages and the policy on Better Auth's   *)
(* own endpoints (apps/web/src/proxy.ts, app/(dashboard), app/api/auth).   *)
(*                                                                         *)
(* The layout guards the page it is mounted with.  A link of the sidebar   *)
(* keeps it mounted: the server renders the next page alone, and what the  *)
(* page may show is for the gateway to say, which it asks for its data.    *)
(*                                                                         *)
(* One account and one browser.  Better Auth is external: it keeps the     *)
(* session, answers from the browser's cookie while the copy in it is      *)
(* fresh, and executes the endpoints that are left to it.  Other people    *)
(* change the account's memberships through the gateway, one call a step.  *)
(***************************************************************************)
EXTENDS Registry

CONSTANTS
    Organizations,  \* the organisations there may be
    Others,         \* those there are before the account is
    Columns,        \* what the role column of a membership may say
    MaxAge,         \* cookieCache.maxAge in ticks
    MaxTime,        \* bound: last tick
    MaxChanges,     \* bound: changes of the account's memberships
    Ids             \* bound: the ids there are for its member rows

ASSUME TimeAssumption == MaxAge \in Nat /\ MaxTime \in Nat

ASSUME BoundAssumption == MaxChanges \in Nat

ASSUME OrganizationAssumption == Others \subseteq Organizations /\ Ids \subseteq Nat

ASSUME ColumnAssumption == Columns \subseteq STRING /\ HIGHEST_ROLE \in Columns

VARIABLES
    now,            \* time in ticks
    account,        \* how far the account's sign-up is
    organization,   \* the organisations that exist
    member,         \* the account's member rows [id, org, role, joined]
    session,        \* the session the browser's cookie names [org, endedAt]
    cookie,         \* the browser's cookies: the copy cached beside the session's
    request,        \* the browser's navigation
    links,          \* the pages the mounted sidebar leads to; none without a layout
    held,           \* history: what the account was, and where, since the request is served
    changes,        \* membership changes so far
    landed          \* history: where the last sign-in led, while the memberships stay

tables == <<organization, member>>
browser == <<request, links, held>>
vars == <<now, account, tables, session, cookie, browser, changes, landed>>

-----------------------------------------------------------------------------
(* Values *)

NoOrganization == "null"
NoSession == [org |-> NoOrganization, endedAt |-> 0]
NoCookie == [none |-> "cookie"]
NoCopy == [none |-> "copy"]
Settled == [pc |-> "settled"]
Never == MaxTime + 1

Dashboard == NAV_ITEMS
Pages == Dashboard \cup {"home", "sign-in", "onboarding"}

Rows == [id : Ids, org : Organizations, role : Columns, joined : 0..MaxTime]

rowsIn(org) == {m \in member : m.org = org}

\* The organisations these rows are in, each with the role the rows give.
standing(rows) == {<<m.org, normalizeRole(<<m.role>>)>> : m \in rows}

\* The session's row is there.
fresh == session.endedAt > now

-----------------------------------------------------------------------------
(* Better Auth's organisation endpoints *)

\* superseded.ts, each with the registry operation that owns it now.
SUPERSEDED ==
    [create               |-> <<"organization", "create">>,
     update               |-> <<"organization", "update">>,
     delete               |-> <<"organization", "delete">>,
     get_full_organization |-> <<"organization", "read">>,
     get_organization     |-> <<"organization", "read">>,
     list_members         |-> <<"member", "read">>,
     invite_member        |-> <<"member", "create">>,
     update_member_role   |-> <<"member", "update">>,
     remove_member        |-> <<"member", "delete">>,
     list_invitations     |-> <<"invitation", "read">>,
     cancel_invitation    |-> <<"invitation", "delete">>,
     leave                |-> <<"membership", "delete">>]

\* superseded.ts refuses to load otherwise.
ASSUME DanglingAssumption ==
    \A e \in DOMAIN SUPERSEDED : isOperationOf(SUPERSEDED[e][1], SUPERSEDED[e][2])

KEPT == {"set_active", "list", "accept_invitation", "reject_invitation", "get_invitation",
         "check_slug", "has_permission", "get_active_member", "get_active_member_role",
         "list_user_invitations"}

\* Slip: creating was forgotten in the list.
supersedesAllButCreate(endpoint) == endpoint \in DOMAIN SUPERSEDED \ {"create"}

supersedes(endpoint) == endpoint \in DOMAIN SUPERSEDED

-----------------------------------------------------------------------------
(* Sign-up and sign-in *)

\* Slip: an unordered findFirst.
anyMembership(m) == TRUE

\* session.create.before: the earliest membership by (createdAt, id), or null.
firstMembership(m) ==
    \A n \in member : n.joined > m.joined \/ (n.joined = m.joined /\ n.id >= m.id)

landingIn(org) ==
    \/ member = {} /\ org = NoOrganization
    \/ \E m \in member : firstMembership(m) /\ org = m.org

\* Slip: the copy of the session before is left in the browser.
BeginWithOldCopy(org) ==
    /\ session' = [org |-> org, endedAt |-> Never]
    /\ cookie' = [copy |-> IF cookie = NoCookie THEN NoCopy ELSE cookie.copy]

\* A session begins and the browser gets its cookies.
Begin(org) ==
    /\ session' = [org |-> org, endedAt |-> Never]
    /\ cookie' = [copy |-> [org |-> org, cachedAt |-> now]]

\* The user row; user.create.after follows.
SignUp ==
    /\ account = "none"
    /\ account' = "user"
    /\ UNCHANGED <<now, tables, session, cookie, browser, changes, landed>>

\* The hook's first insert: the workspace.
HookOrganization ==
    /\ account = "user"
    /\ \E org \in Organizations \ organization : organization' = organization \cup {org}
    /\ account' = "workspace"
    /\ UNCHANGED <<now, member, session, cookie, browser, changes, landed>>

\* Ids are random: a later row may come first among those of one instant.
withRow(org, role) ==
    {member \cup {[id |-> id, org |-> org, role |-> role, joined |-> now]} :
       id \in Ids \ {m.id : m \in member}}

\* The hook's second insert: its owner.
HookMember ==
    /\ account = "workspace"
    /\ \E org \in organization \ Others : member' \in withRow(org, HIGHEST_ROLE)
    /\ account' = "hooked"
    /\ UNCHANGED <<now, organization, session, cookie, browser, changes, landed>>

\* The hook dies before either insert: the account is there all the same.
HookFails ==
    /\ account \in {"user", "workspace"}
    /\ account' = "ready"
    /\ UNCHANGED <<now, tables, session, cookie, browser, changes, landed>>

\* Sign-up ends in a session.
SignUpEnds ==
    /\ account = "hooked"
    /\ account' = "ready"
    /\ \E org \in Organizations \cup {NoOrganization} :
         landingIn(org) /\ Begin(org) /\ landed' = org
    /\ UNCHANGED <<now, tables, browser, changes>>

SignIn ==
    /\ account = "ready"
    /\ request.pc = "rendered" /\ request.path = "sign-in"
    /\ \E org \in Organizations \cup {NoOrganization} :
         landingIn(org) /\ Begin(org) /\ landed' = org
    /\ request' = [pc |-> "proxy", path |-> "project"]  \* callbackURL
    /\ UNCHANGED <<now, account, tables, links, held, changes>>

\* The browser's own sign-out takes the cookies along.
SignOut ==
    /\ cookie # NoCookie
    /\ session' = NoSession
    /\ cookie' = NoCookie
    /\ UNCHANGED <<now, account, tables, browser, changes, landed>>

\* The session expires or is revoked from elsewhere: its row is gone.
EndSession ==
    /\ fresh
    /\ session' = [session EXCEPT !.endedAt = now]
    /\ UNCHANGED <<now, account, tables, cookie, browser, changes, landed>>

-----------------------------------------------------------------------------
(* Who the request is from *)

\* Slip: the copy never goes stale.
copyHoldsForever(copy) == copy # NoCopy

\* cookieCache: the copy answers for MaxAge.
copyHolds(copy) == copy # NoCopy /\ now < copy.cachedAt + MaxAge

\* getSession: the cookie's copy if it holds, else the row if it is there.
hasSession == cookie # NoCookie /\ (copyHolds(cookie.copy) \/ fresh)

activeOrganization ==
    IF copyHolds(cookie.copy) THEN cookie.copy.org ELSE session.org

-----------------------------------------------------------------------------
(* Memberships *)

Changed ==
    /\ account = "ready"
    /\ changes < MaxChanges
    /\ changes' = changes + 1
    /\ landed' = NoOrganization
    /\ held' = IF request.pc = "serving" THEN held \cup standing(member') ELSE held
    /\ UNCHANGED <<now, account, session, cookie, request, links>>

\* Other people's calls through the gateway: the membership ends, its role
\* changes, the organisation is deleted with its rows.
LoseMembership ==
    /\ \E m \in member : member' = member \ {m}
    /\ Changed
    /\ UNCHANGED organization

ChangeRole ==
    /\ \E m \in member, role \in Columns :
         role # m.role /\ member' = (member \ {m}) \cup {[m EXCEPT !.role = role]}
    /\ Changed
    /\ UNCHANGED organization

DeleteOrganization ==
    /\ \E org \in organization :
         /\ organization' = organization \ {org}
         /\ member' = member \ rowsIn(org)
    /\ Changed

\* The onboarding page's call: an owner somewhere opens another organisation.
CreateOrganization ==
    /\ hasSession
    /\ \E m \in rowsIn(activeOrganization) :
         roleAtLeast(normalizeRole(<<m.role>>), ruleFor("organization", "create").minRole)
    /\ \E org \in Organizations \ organization :
         /\ organization' = organization \cup {org}
         /\ member' \in withRow(org, HIGHEST_ROLE)
    /\ Changed

accepted ==
    UNION {withRow(org, role) : org \in {o \in organization : rowsIn(o) = {}}, role \in Columns}

regraded ==
    {(member \ {m}) \cup {[m EXCEPT !.role = role]} : m \in member, role \in Columns}

minted ==
    UNION {{organization \cup {org}} \X withRow(org, HIGHEST_ROLE) :
             org \in Organizations \ organization}

dissolved ==
    {<<organization \ {m.org}, member \ rowsIn(m.org)>> :
       m \in {n \in member : n.role = HIGHEST_ROLE}}

\* What Better Auth's endpoints make of the organisations and the account's
\* rows.  An account needs no membership to create an organisation there.
AuthWrites(endpoint) ==
    CASE endpoint = "create" -> minted
      [] endpoint = "delete" -> dissolved
      [] endpoint = "accept_invitation" -> {organization} \X accepted
      [] endpoint \in {"leave", "remove_member"} -> {<<organization, member \ {m}>> : m \in member}
      [] endpoint = "update_member_role" -> {organization} \X regraded
      [] OTHER -> {}

\* The catch-all hands on what it does not refuse.
AuthEndpoint ==
    /\ cookie # NoCookie /\ fresh
    /\ \E endpoint \in DOMAIN SUPERSEDED \cup KEPT :
         /\ ~supersedes(endpoint)
         /\ \E written \in AuthWrites(endpoint) :
              organization' = written[1] /\ member' = written[2]
    /\ Changed

\* set-active, to an organisation the account is a member of.
SetActive ==
    /\ cookie # NoCookie /\ fresh
    /\ ~supersedes("set_active")
    /\ \E m \in member :
         /\ m.org # session.org
         /\ session' = [session EXCEPT !.org = m.org]
         /\ cookie' = [cookie EXCEPT !.copy = [org |-> m.org, cachedAt |-> now]]
    /\ UNCHANGED <<now, account, tables, browser, changes, landed>>

-----------------------------------------------------------------------------
(* A navigation *)

\* A page is asked for afresh: whatever layout was mounted goes.
Redirect(path) ==
    /\ request' = [pc |-> "proxy", path |-> path]
    /\ links' = {}
    /\ held' = {}

Navigate ==
    /\ request.pc \in {"settled", "rendered"}
    /\ \E path \in Pages : Redirect(path)
    /\ UNCHANGED <<now, account, tables, session, cookie, changes, landed>>

\* A link of the sidebar: the layout stays.
FollowLink ==
    /\ request.pc = "rendered"
    /\ \E path \in links : request' = [pc |-> "proxy", path |-> path]
    /\ UNCHANGED <<now, account, tables, session, cookie, links, held, changes, landed>>

isPublic(path) == path \in {"home", "sign-in"}

At(where) == [at |-> where]

\* proxy: a page that is not public needs a cookie, whatever it is worth.  A
\* page of the dashboard is rendered beside its layout, unless that is mounted.
Proxy ==
    /\ request.pc = "proxy"
    /\ IF ~isPublic(request.path) /\ cookie = NoCookie
       THEN Redirect("sign-in")
       ELSE /\ UNCHANGED links
            /\ IF resourceForPath(request.path) # NoResource
               THEN /\ request' = [pc |-> "serving", path |-> request.path, page |-> At("session"),
                                   layout |-> At(IF links = {} THEN "session" ELSE "passed")]
                    /\ held' = standing(member)
               ELSE /\ request' = [pc |-> "rendered", path |-> request.path, outcome |-> "done"]
                    /\ UNCHANGED held
    /\ UNCHANGED <<now, account, tables, session, cookie, changes, landed>>

Parts == {"layout", "page"}

Reaches(part, where) ==
    /\ request' = [request EXCEPT ![part] = where]
    /\ UNCHANGED <<links, held>>

\* Nobody, or nobody here: the layout redirects, the page's call is refused.
NoIdentity(part) ==
    IF part = "layout" THEN Redirect("sign-in") ELSE Reaches("page", At("denied"))

\* identify, getSession: the cookie's copy if it holds; else the row, of which
\* a copy may reach the browser.  Layout and gateway each identify.
GetSession(part) ==
    /\ request.pc = "serving" /\ request[part].at = "session"
    /\ IF hasSession /\ activeOrganization # NoOrganization
       THEN Reaches(part, [at |-> "member", org |-> activeOrganization])
       ELSE NoIdentity(part)
    /\ \/ UNCHANGED cookie
       \/ /\ hasSession /\ ~copyHolds(cookie.copy)
          /\ cookie' = [cookie EXCEPT !.copy = [org |-> activeOrganization, cachedAt |-> now]]
    /\ UNCHANGED <<now, account, tables, session, changes, landed>>

\* Slip: what the layout offers is not asked about again.
mayReadOffered(role, page) == page \in links \/ <<page, "read">> \in permissionsForRole(role)

\* The gates of dispatch for the operation a page's data comes from.
mayRead(role, page) == <<page, "read">> \in permissionsForRole(role)

\* identify, the membership: verified against the row.  The layout goes on to
\* the entitlements, the gateway to its gates and the service.
MemberRow(part) ==
    /\ request.pc = "serving" /\ request[part].at = "member"
    /\ LET org == request[part].org
       IN  \/ rowsIn(org) = {} /\ NoIdentity(part)
           \/ \E m \in rowsIn(org) :
                LET role == normalizeRole(<<m.role>>)
                IN  IF part = "layout" THEN Reaches("layout", [at |-> "plan", role |-> role])
                    ELSE IF mayRead(role, request.path)
                         THEN Reaches("page", [at |-> "service", org |-> org])
                         ELSE Reaches("page", At("denied"))
    /\ UNCHANGED <<now, account, tables, session, cookie, changes, landed>>

\* Slip: an invisible page sends to billing too.
guardToBilling(access) == IF access.visible /\ ~access.locked THEN NoResource ELSE "billing"

\* Where the layout sends a request for a page, if anywhere.
guard(access) ==
    IF ~access.visible THEN "project"
    ELSE IF access.locked THEN "billing" ELSE NoResource

\* The sidebar's links: a locked item leads to billing.
linksOf(entries) == {IF e.locked THEN "billing" ELSE e.resource : e \in entries}

\* The layout, once the entitlements are there: those of some plan, or of the
\* default one while billing does not answer.
Layout ==
    /\ request.pc = "serving" /\ request.layout.at = "plan"
    /\ \E plan \in PLAN_KEYS :
         LET role         == request.layout.role
             entitlements == [EMPTY_ENTITLEMENTS EXCEPT !.plan = plan]
             to           == guard(navAccess(request.path, role, entitlements))
         IN  IF to = NoResource
             THEN /\ request' = [request EXCEPT !.layout = At("passed")]
                  /\ links' = linksOf(navFor(role, entitlements))
                  /\ UNCHANGED held
             ELSE Redirect(to)
    /\ UNCHANGED <<now, account, tables, session, cookie, changes, landed>>

\* The service answers with the page's data, or does not.
Data ==
    /\ request.pc = "serving" /\ request.page.at = "service"
    /\ Reaches("page", At("done"))
    /\ UNCHANGED <<now, account, tables, session, cookie, changes, landed>>

\* Layout and page are there - or the error boundary in the page's place, as
\* for every call that is denied.
Render ==
    /\ request.pc = "serving" /\ request.layout.at = "passed"
    /\ request.page.at \in {"done", "denied"}
    /\ request' = [pc |-> "rendered", path |-> request.path, outcome |-> request.page.at]
    /\ held' = {}
    /\ UNCHANGED <<now, account, tables, session, cookie, links, changes, landed>>

Tick ==
    /\ now < MaxTime
    /\ now' = now + 1
    /\ UNCHANGED <<account, tables, session, cookie, browser, changes, landed>>

Follow ==
    \/ Proxy \/ Layout \/ Data \/ Render
    \/ \E part \in Parts : GetSession(part) \/ MemberRow(part)

Init ==
    /\ now = 0
    /\ account = "none"
    /\ organization = Others
    /\ member = {}
    /\ session = NoSession
    /\ cookie = NoCookie
    /\ request = Settled
    /\ links = {}
    /\ held = {}
    /\ changes = 0
    /\ landed = NoOrganization

Next ==
    \/ Tick \/ Navigate \/ FollowLink \/ Follow
    \/ SignUp \/ HookOrganization \/ HookMember \/ HookFails \/ SignUpEnds
    \/ SignIn \/ SignOut \/ EndSession
    \/ LoseMembership \/ ChangeRole \/ DeleteOrganization \/ CreateOrganization
    \/ AuthEndpoint \/ SetActive

Spec == Init /\ [][Next]_vars

\* A server that is up answers: the awaits of proxy, layout and page end.
FairSpec == Spec /\ WF_vars(Follow)

-----------------------------------------------------------------------------
(* Properties *)

Organizable == Organizations \cup {NoOrganization}
Copies == {NoCopy} \cup [org : Organizable, cachedAt : 0..MaxTime]

TypeOK ==
    /\ now \in 0..MaxTime
    /\ account \in {"none", "user", "workspace", "hooked", "ready"}
    /\ organization \subseteq Organizations
    /\ member \subseteq Rows
    /\ \A m, n \in member : m.id = n.id => m = n
    /\ session \in [org : Organizable, endedAt : 0..Never]
    /\ cookie \in {NoCookie} \cup [copy : Copies]
    /\ request.pc \in {"settled", "proxy", "serving", "rendered"}
    /\ links \subseteq Dashboard
    /\ held \subseteq Organizations \X ORG_ROLES
    /\ changes \in 0..MaxChanges
    /\ landed \in Organizable

\* The platform is blind to a sign-out or a revocation for cookieCache.maxAge
\* and not longer (auth.ts, the comment on session): layout and gateway take a
\* request for a session's only if that session ended less than MaxAge ago,
\* however often the copy was renewed and set-active called in between.
EndedSessionsFade ==
    [][\A part \in Parts :
         (/\ request.pc = "serving" /\ request'.pc = "serving"
          /\ request[part].at = "session" /\ request'[part].at = "member")
           => now < session.endedAt + MaxAge]_vars

\* Some role the account held since the request is served may read this.
everReadable(page, org) ==
    \E h \in held : (org = h[1] \/ org = NoOrganization) /\ <<page, "read">> \in permissionsForRole(h[2])

\* A page never trusts the layout it is shown in, which may have been mounted
\* for another role, organisation or session: a page's data is fetched only if
\* the account has had, while this request was served, a role in the data's
\* organisation that may read it.  And a layout mounted meanwhile offers only
\* what some role of the account's may read (the gateway's gates, navFor).
RenderedIsAllowed ==
    [][/\ (/\ request.pc = "serving" /\ request'.pc = "serving"
           /\ request.page.at = "service" /\ request'.page.at = "done")
            => everReadable(request.path, request.page.org)
       /\ (links = {} /\ links' # {}) => \A page \in links' : everReadable(page, NoOrganization)]_vars

\* Nothing stops an unordered findFirst "deciding differently next time"
\* (auth.ts, session.create.before): while an account's memberships stay as
\* they are, each sign-in leads to the organisation of the one before.
SameTenantNextTime ==
    [][(SignIn /\ landed # NoOrganization) => landed' = landed]_vars

\* What the registry took over is closed on Better Auth's side (superseded.ts):
\* no endpoint left open ends or alters a membership, and no organisation is
\* made there - by the sign-up hook or by somebody whose role may create one.
\* So an account without a membership - its hook failed, or it was removed
\* everywhere - cannot help itself: it gets one from the hook, or in an
\* organisation that was there before, by an invitation.
MembershipsAreGuarded ==
    [][/\ AuthEndpoint => member \subseteq member'
       /\ organization' \ organization # {} =>
            \/ account = "user"
            \/ \E h \in standing(member) : <<"organization", "create">> \in permissionsForRole(h[2])
       /\ (member = {} /\ member' # {}) =>
            account = "workspace" \/ \A m \in member' : m.org \in organization]_vars

\* Who signs in gets in: after a sign-in of an account with a membership the
\* dashboard is rendered and its page is not refused, unless the session is
\* ended or the memberships change on the way - whatever session, copy and
\* active organisation went before, and whichever organisation set-active turns
\* to meanwhile.
SignInGetsIn ==
    (request.pc = "proxy" /\ request.path = "project" /\ landed # NoOrganization)
      ~> \/ request.pc = "rendered" /\ request.path \in Dashboard /\ request.outcome # "denied"
         \/ landed = NoOrganization \/ cookie = NoCookie \/ ~fresh

\* The redirects of proxy and layout end in a page, or in the dashboard's error
\* boundary: it never sends a browser round in a circle, whatever the role, the
\* plan and the cookie.
EveryNavigationEnds == (request.pc = "proxy") ~> (request.pc = "rendered")
=============================================================================

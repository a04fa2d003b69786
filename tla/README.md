# guardrail-platform in TLA+

A model of the platform's control plane: what happens to one call between the
browser's tRPC request and the row, event and answer it leaves behind; what
happens to the tenant, the audit trail, the rate and the plan limit when several
calls do so at once; how an account gets from sign-up to a rendered page; and
who may say what on the bus. The source is the reference; every definition that
models code names its lines in `PROJECT.json` (`map`).

## 1. The system

The platform is a tRPC gateway (a Next.js app, `apps/web`) in front of services
on a NATS bus. Every call passes the same *block* twice: `dispatch` in the
gateway decides and signs, `handle` in the owning service verifies and
executes. What a call may do is declared once, in the registry.

| Component | State it keeps | Operations | Talks to | What must hold |
|---|---|---|---|---|
| Registry (`packages/registry`) | none, constants | `ruleFor`, `permissionsForRole`, `normalizeRole`, `checkResourceAccess`, `ROUTES`, `navAccess` | used by everything | both ends, the browser and the bus draw the same conclusion from it |
| Envelope (`packages/contracts`) | none | sign, verify, `checkFreshness` | both ends of the block | a live request is not refused, a dead one not started |
| Gateway block (`packages/guardrail/src/gateway.ts`) | one suspended dispatch per call | gates 1-6, sign, rpc or command, check the reply | session, rate limiter, entitlements, bus | the answer is true; every dispatch is answered |
| Service block (`service.ts`) | one suspended `handle` per message | verify, freshness, permission, execute, emit, answer | handler, EVT stream | no unauthorised work; no event without its write |
| Transport (`packages/transport`) | CMD and EVT streams, durable consumers, inboxes | rpc, `publishCommand`, `publishEvent`, `consume` | NATS | an rpc is not repeated; a command is not lost silently |
| Identity service | organisations, members, invitations | eight mutations, one of them a command | Postgres, Better Auth | an owner is left, slugs unique, tenants apart, one invitation |
| Projects service | projects | create, update, delete, list | Postgres | scoped by tenant, stable pages, unique slug |
| Audit service | `audit_log` | insert per event, list | EVT stream, Postgres | one row per fact, none invented |
| Billing service, Autumn adapter | Autumn's plan and counts (external) | `getEntitlements`, `track`, `checkout` | EVT stream, Autumn | one unit per creation |
| Entitlements cache (`apps/web/src/gateway/deps.ts`) | one map per gateway process | hit, miss, degrade | billing over the bus | no decision on old entitlements, outages not remembered |
| Rate limiter (`ratelimit.ts`) | counters per key and window | `incr`, the verdict | Redis or memory | the maximum per window, refusals earned, retries rewarded |
| Authentication (`packages/auth`, `app/api/auth`) | users, sessions, cookie cache | sign-up and session hooks, `identify`, superseded endpoints | Postgres, Better Auth | a sign-in lands where the last one did, an ended session fades, memberships change through the gates only |
| Proxy and dashboard (`proxy.ts`, the layout, its sidebar, the pages) | one suspended request, the mounted layout | redirects, the route guard, links | session, entitlements, registry, gateway | no circle of redirects; a page shows only what the gateway allows, whatever layout it is shown in |
| Bus permissions (`infra/nats`) | seeds, env files, `auth.conf` | `generate-auth.ts`, `--rotate`, `--check` | registry routes, NATS server | every granted step succeeds, only an owner works |
| Connections (`transport/connection.ts`) | one connection per process | connect, drain | NATS server | let in by the key the server knows |

### What is hard about it

- *Time*: two clocks, a tolerance, a timer in the gateway that races the answer.
- *Partial failure*: the writes are in, the event is not; the event is in, the
  answer is not; a replica dies in between.
- *Redelivery and duplicates*: commands and events come again, and duplicate
  windows, idempotency keys and unique columns decide what that means - all of
  them on a request id that the calls of one tRPC batch share.
- *Interleaving*: handlers of two replicas between two statements.
- *Staleness*: roles signed into an envelope, entitlements in a cache, a session
  copied into a cookie, counts that a meter raises later, an `auth.conf` older
  than the registry.
- *Boundaries*: the edge of a rate-limit window, the edge of a page, rows of one
  millisecond.
- *Redirects*: proxy, session, membership, role and plan each send a browser
  somewhere, from five different sources.
- *Rotation* of `ENVELOPE_SECRET` process by process, with messages under way,
  and of NATS keys, file by file.

`PROJECT.json` lists each of these at its line (`hazards`), with the properties
that watch it.

## 2. The modules

| Module | Models | Built on |
|---|---|---|
| `Roles` | role ladder, `assignableRoles`, `refusedRole` (`derive.ts`, `escalation.ts`) | - |
| `Registry` | the declared plans, resources, rules, limits, routes, streams and navigation, and the functions over them | `Roles` |
| `Envelope` | error codes, signature verification, `checkFreshness` | - |
| `Dispatch` | what the block promises a caller (abstract) | `Roles` |
| `Block` | one or more calls through `dispatch`, bus and `handle`; implements `Dispatch` | `Roles`, `Envelope`, `Dispatch` |
| `Identity` | the identity service's handlers on its tables | `Registry` |
| `Projects` | the projects service's handlers, and a client walking the pages of the list | - |
| `Ledger` | what the event trail promises (abstract) | - |
| `EventTrail` | EVT stream, durable consumers, audit rows, meter; implements `Ledger` | `Ledger` |
| `PlanGate` | entitlements cache, gate 6, meter, over time | `Registry` |
| `RateLimit` | gate 5 over the two stores, in windows | - |
| `Session` | sign-up, sign-in, memberships, redirects, layout and pages, the sidebar's links | `Registry` |
| `Bus` | generated permissions and keys, connections, a dispatch's steps as the server lets them through | `Registry` |
| `BlockProofs`, `EventTrailProofs`, `IdentityProofs`, `ProjectsProofs`, `PlanGateProofs`, `RateLimitProofs`, `SessionProofs`, `BusProofs` | theorems | the module they name |
| `MC*` | instances for TLC | the module they name |

`Block` takes the verdicts of gates 5 and 6 as inputs; `RateLimit` and `PlanGate`
are those gates, `Identity` and `Projects` the handlers it starts, `EventTrail`
what becomes of the events it emits, `Bus` whether the server lets its messages
pass, and `Session` where the caller and the role come from. Each takes from the
others only what its properties tell apart.

An operator whose comment begins with `Slip:` is a plausible mistake in the
operator that follows it. No specification uses it; put in the place of its
neighbour it must break the property listed with it under `mutants`.

### Block

A step is what one process does between two awaits.

| Code | Model |
|---|---|
| a suspended `dispatch` | `stage[c]`, with `role[c]`, `envelope[c]`, `answer[c]` |
| gates 1-4b, one await each side | `Identify` (the session lookup's outcome is an input) |
| gate 5, gate 6 | `RateLimit`, `UpgradeRequired` (verdicts are inputs) |
| steps 7 and 8 | `SendRpc`, `SendCommand`, `PublishAck` |
| steps 9 and 10, the catch | `ReceiveReply` with `ReplyVerdict` and `toFailure`, `TimeOut`, `NoResponders` |
| a request on the bus, a reply in an inbox | `rpc`, `reply[c]`; a lost message is one never taken |
| CMD stream and consumer | `cmd[c]`: state and delivery count; `DeliverCommand`, `AckWait`, `Nak`; `Expire` after the stream's `max_age` |
| `handle`, suspended in the handler or before `publishEvent` | `jobs`, with `at` "running" or "emitting" |
| the pre-signed refusal of `serve.ts` | `DeliverUnreadable`, and `ReplyTooLarge` when the reply of a finished read cannot be sent |
| a handler | commits, throws, or commits and fails on the way back: `Handler...` |
| EVT stream with its duplicate window | `evt`, `StoreEvent` on the request id |
| a process restarting | `Crash`, `RotateGateway`, `RotateService` |

The MAC is idealised: a signature stands for the secret it was made with.
Nothing in the model alters an envelope, so what is left to go wrong is two
processes holding different secrets. The registry enters through the constants
`Ops` and `Rule`, so that the theorems hold of any registry; `MCBlock` takes
`Rule` from `Registry`, timeouts rounded to seconds.

`max_age` is the server's: `Expire` takes a command that nobody has finished once
it is that old, whether or not it was ever handed out. A message enters the
stream in the step that signs it, so its age counts from `issuedAt`. A
handler's own refusal changes nothing, with one exception in the source:
`deleteOrganization` of an organisation that is gone deletes what rows it left
and then answers NOT_FOUND (`identity.service.ts:194-203`). `Identity` has that
step; in `Block` a write is one a caller is told about, and this one is not
counted.

`Dispatch` says the same without gates, bus, envelopes, clocks or secrets. A call
is identified once; its writes are made only for a role that may, an rpc's once,
a command's at most `max_deliver` times and none after a refusal; it is told one
thing, and `Refuse`, `Confirm` and `Accept` are possible only when that is true.
The refinement (`Promise`) maps the writes to `performed`, the EVT stream to
`recorded`, and an answer's code to the outcome it is for the caller
(`Outcome`): open, refused, OK, ACCEPTED, or unknown for the codes that leave it
open whether the work was done.

### Identity

A task is a handler suspended at a database call (`pc` "read", "count",
"write"); transactions are one step. Its organisation, user and role are those
signed at the gateway, however the tables change meanwhile; `LetThrough` is
gates 3-4b. A unique index is modelled where the column has one
(`SlugFree`): a write that breaks it throws. The tables are those of
`services/identity/src/schema.ts`, which declares no foreign key.
`packages/auth/src/schema.ts` describes the same tables with cascading foreign
keys to `organization`; no migration is committed and both packages migrate, so
the source does not settle which holds. Under the second a member or
invitation of a deleted organisation is refused by the database as well. `command` is the CMD stream's part
of it. Accepting an invitation is Better Auth's and external: several calls
there, one step here, with the organisation checked. Handlers that only read are
left out.

Two races the handlers can lose, because they look in one statement and write in
another. `OwnersRace`: the writes under way - leavings, demotions and
`member.delete`s - come to name every owner of an organisation. A leaving or a demotion of an owner has counted the owners, another one
among them; a demotion of somebody who was no owner counts nothing, and becomes
an owner's when its row is promoted between its look and its write;
`member.delete` never counts, so that one naming the only owner is such a state
by itself. `InvitationRace`: one address looked up twice and about to be
inserted twice. Nothing in the code excludes either; they are named so that
everything else can be shown to be harmless. `RaceFreeSpec` is `Spec` without the
steps into one of them - the run `race_free` checks it as `Spec` under the action
constraint `AvoidsTheRaces` - and is nothing the code promises: it is the
hypothesis under which the two properties hold. `AvoidsTheRaces` cuts behaviours
only at such a state: until then every handler, `member.delete` among them,
interleaves with every other.

### Projects

A task is a handler suspended at its lookup, its insert or its commit. The
insert is two steps because `createdAt` is the start of the transaction, so
that rows can appear older than rows already shown. A tick is what the column
resolves, `Millisecond` ticks are what a `Date`, and so a cursor, resolves.
`walk` is a client following `nextCursor`; what it has shown (`seen`), the
instants its pages ended at (`ends`) and the rows that were there throughout
(`steady`) are history.

### EventTrail and Ledger

`log` is the EVT stream; `delivery[d][i]` is where message `i` stands with
consumer `d`, `jobs` the handlers at work on deliveries, possibly two on one
message after `AckWait`. `Fail` and `Crash` can follow the effect. `Expire(i)`
drops a message that has reached the stream's `max_age` for every consumer that
has not settled it, unseen if it was down that long; a handler already at work
on it goes on. `Ledger`
has neither streams nor deliveries: requests happen, are recorded at most once
and counted at most once. The refinement (`Promise`) maps the stream to
`happened`, the rows to `recorded`, Autumn's idempotency keys to `counted` and
its count to `usage`.

### PlanGate

One organisation, one resource. `cache[g]` is a gateway process's map,
`call[c]` a dispatch waiting for billing or executing. `Receive` overwrites
whatever is cached, with the time of arrival. `held` is a history variable:
what Autumn held at some moment of each tick.

### RateLimit

A counter is identified by where it is kept, its key and the instant its window
begins. In memory a window begins with the first call after the last one was
over, in Redis with the clock. `IncrementMemory` and `ResumeMemory` are the two
sides of the await: the promise carries the bucket itself, so the verdict is
about the count as later calls left it. `AskRedis` fixes the window, `Answered`
and `FailOpen` come whenever Redis does. Redis is external: INCR, and EXPIRE
renewed with each of them. `rank` and `countedAt` are history.

### Session

One account, one browser. `account` is how far sign-up came, the hook's two
inserts apart from each other; `member` the account's rows, `session` the row
the cookie names, `cookie` what the browser holds, with the copy that
`cookieCache` lets Better Auth answer from.

| Code | Model |
|---|---|
| a navigation | `request`: in the proxy, being served, rendered |
| `layout.tsx` and the page's own call, rendered side by side | `request.layout` and `request.page`, each at its own await |
| `identify`, once for each of them | `GetSession(part)`, `MemberRow(part)` |
| the route guard | `Layout` |
| the page's data: gates of dispatch, service | `mayRead` in `MemberRow("page")`, `Data` |
| `error.tsx` in the page's place | outcome "denied" |
| a full load, a redirect | `Navigate`, `Redirect`: the layout goes |
| a `next/link` of the mounted sidebar | `links`, `FollowLink`: the layout stays, `layout.tsx` is not evaluated again |

So the guard judges the page a layout is mounted with, and not the ones that
follow under it: for those only the gateway stands between the page and its
data. The upgrade prompt's and the denial's `<a>` load afresh, and so, under a
page without a layout, does onboarding's `push`. `held` is history: every
role the account had in every organisation since the request began to be served.
Layout, session copy and links may be older than that; what a page fetches may
not. Not modelled: `error.tsx`'s reset, the router's cache of rendered pages and
React Query's refetches, each of which asks the gateway again or nobody.

Other people's calls change memberships between any two of these steps.
`AuthEndpoint` is any endpoint `superseded.ts` does not close, `AuthWrites` what
Better Auth would make of it: rows for a new organisation (`create`, which asks
for no membership), an organisation gone with its rows (`delete`), a row more,
less or changed. What such an endpoint does is external; that it is reachable is
the code's.

### Bus

A subject is a tuple and a pattern the set of subjects it stands for;
`serviceUser`, `gatewayUser`, `bootstrapUser` and `observerUser` are the
generator's derivations from `ROUTES`. The generator is a process that writes a
seed, then an env file, per user, and `auth.conf` last, and can be cut short at
any of them; `--check` is `checkPasses`. A process starts with the credential its
environment names, which may be somebody else's, from the registry checked out
then, and the server enforces the `auth.conf` it started with. A dispatch is
`Ask`, `Take`, `Emit`, `Answer`, each let through or `Refused`; `age` is how long
its caller has waited, against `allow_responses`. A consumer whose `CONSUMER.INFO`
or subscription the server refuses throws at boot (`serve.ts`): the process stays
down and the refusal is recorded (`Barred`). `forgiven` marks a refusal that is
due: another's credential, or a registry the server does not know yet;
`ConsumersAreGranted`, a part of `NothingIsRefused`, says that no other start is
barred.

## 3. The runs

All passing runs end with no error; a violation run shows one sentence of the
repository that the code does not keep.

| Run | Question | Bounds |
|---|---|---|
| `call` | Is the answer true, the work authorised, done at most once, in time? Is every dispatch answered and every accepted command settled? Does the block implement `Dispatch`? | one call of four kinds, three bodies, clocks up to two ticks apart (the tolerance), two deliveries, one rotation, ten seconds, a CMD stream that keeps a command nine (the seven days, scaled) |
| `race_free` | Two handlers interleaved at every database call, but for the two races: does an organisation keep an owner, is an address invited once? | six kinds of call, `member.delete` among them, one organisation, five spellings of a role column, one command delivered twice, two new ids |
| `concurrent` | Two handlers interleaved: slugs, orphans, tenants, leaving | two organisations that share a person, two free slugs, two new ids |
| `metered` | Does the meter implement the ledger? | two events, stored up to twice in all, three deliveries each, a message as old as the stream keeps it |
| `settles` | Is what is acknowledged done, does every event settle? | both consumers, one stored event, three deliveries, one rotation, one tick to `max_age` |
| `recent` | How old can the entitlements behind a decision be? | three calls, TTL 3, timeout 2, horizon 6, one plan change, one unit below the free limit or at it |
| `limits` | Does a window let the maximum through, is a refusal earned, is patience rewarded? | three calls, two tenants, two processes or Redis, maximum 1, window of three ticks that are half seconds, six instants |
| `projects` | Are slugs unique, tenants apart, and the pages complete? | three rows in every order and with every tie, pages of one or two, two writing calls |
| `session` | Is a page's data allowed under whatever layout, are memberships changed through the gates only, does an ended session fade, do redirects end? | two organisations, roles of a guest and an owner, copies that hold one tick, one tick, two membership changes, two member rows |
| `bus` | Is a granted step ever refused, does only the owner work, is `--check` honest? | four programs, one credential that may be mixed up, a registry that grows once, one rotated key per user, two starts in all |

Why the bounds are enough. `call`: a call's own messages are all that its
properties speak of, calls meet only where they share a stream's duplicate
window (`batch`), and the theorems below hold for any number of calls.
The horizon passes the longest timeout plus tolerance and drift, so every
timer and every expiry is reached. Two deliveries of a command are a first and
a last one, the three of `metered` and `settles` have one in between.
`race_free`: a race takes two handlers, and two tasks can hold every pair of
them at every pair of awaits, the two deliveries of one command among them.
`concurrent`: a violation of its properties needs two writers;
a third adds no new pair. `recent`: TTL and timeout differ, two overlapping
requests fit before, into and over an entry's life, and a third call decides
on what they left; the durations only scale. `limits`: with a maximum of one,
three calls are one too many even for two windows, and a window that is no whole
number of seconds makes the rounding matter. `projects`: three rows are two pages
of one and a look ahead, which is every case of `cursorOf`. `session`: a second
membership and a second change are what it takes for a session to point to an
organisation the account has left; guest and owner are the least and the most a
role may read, so a layout mounted for the one leads where the other may not;
one tick is a copy that has gone stale. In `call` the stream keeps a command
longer than the longest timeout, as seven days do, and shorter than the horizon. `bus`: a second key and a second build are
what "before" and "after" need; two starts are a gateway and the one service that
answers it, or one process on each side of a change.
Except for liveness the theorems of section 4 carry all of this to any bounds.

In `settles` the stream stores one message, because consumers treat messages
independently; that two stored copies are one effect is what `metered` checks
and `TrailImplementsLedger` proves without bounds.

Violations, each with its quotation under `findings`:

| Run | What it shows |
|---|---|
| `batch` | two mutations of one tRPC batch share the request id, the EVT stream drops the second event: no audit row and no metering for it |
| `removed` | `member.delete` removes an organisation's last owner, `assertNotTheLastOwner` is not called there |

In `race_free` `member.delete` is excluded only from what it wins alone, a DELETE
of the only owner, which `removed` shows; in every other order it is there.
`concurrent`, which interleaves everything, lists neither
`EveryOrganizationHasAnOwner` nor `OnePendingInvitation`: two owners leaving at
once break the one, two deliveries of one command at once the other.

`RateLimit`'s type invariant is in no run; `RateLimitProofs` proves it.

Deadlock. `Block` is checked for it: `Settled` is the only way to stop, when
every dispatch is answered and nothing is on the bus, in a stream or in a
service. `Session` and `Bus` are too: there is always another page to open, and
another run of the generator. The other configurations switch it off, because
those systems stop at their bounds: `Identity` when ids are used up or no
organisation is left, `EventTrail` when the log is full and everything settled,
`PlanGate`, `RateLimit` and `Projects` at their horizons and out of calls.

Symmetry is used over the calls of `recent` and `limits` and the tasks of
`projects`, which no property tells apart, and never with liveness.

### Fairness

Used where something is promised to happen, in `Block`, `EventTrail` and
`Session` (`FairSpec` in each), always weak:

- `Block`, `Tick`: time passes.
- `Block`, `Resume(c)`: the event loop resumes a dispatch whose await is over, and
  the timer of `nc.request` is one of them. `Identify` is not included: nobody has
  to make a call.
- `Block`, `DeliverCommand(c) \/ AckWait(c) \/ Expire(c)`, and `EventTrail`,
  `Consumer(d, i) \/ Expire(i)`: JetStream hands out what is neither acknowledged
  nor out of deliveries, takes back what was not acknowledged within `ack_wait`,
  and discards what is older than `max_age` - the last of them with every
  service down.
- `Session`, `Follow`: a gateway that is up answers the request it has, and a
  browser follows its redirect. Nobody has to navigate, sign in or stay signed in.

Nothing obliges a service to take an rpc, a handler to finish or succeed, or a
process not to crash. That is why `EveryDispatchAnswered` rests on the timer
alone, and why `AcceptedSettles` and `EveryEventSettles` allow "out of
deliveries" and "older than `max_age`".

## 4. The proofs

Every safety property the passing runs check is proved for all values of the
constants. Two of them (`EveryOrganizationHasAnOwner`, `OnePendingInvitation`) are
proved of the behaviours that avoid one race each (for the owners, also of tables
that have one to start with), because the code keeps them there only; the theorem
says which. In each module of proofs the argument is the
same: an invariant `Inv` that contains the types, one lemma per action or
group of actions that keeps it, and the theorems as its consequences; an action
property follows from `Inv` and the step.

| Module | Theorem | Of the specification |
|---|---|---|
| `BlockProofs` | `TypeCorrect` | `[]TypeOK` |
| | `OnlyAuthorisedWork` | `[]NoUnauthorisedWork` |
| | `DoneIsDone` | `[]OkMeansDone` |
| | `RefusalIsFinal` | `[]RefusalMeansNotDone` |
| | `EventsHappened` | `[]EventsAreFacts` |
| | `AtMostOneRun` | `[]RpcAtMostOnce` |
| | `NoLiveRefusal` | `[]NoLiveRequestExpires` |
| | `StartsInTime` | `WorkStartsInTime` |
| | `BlockImplementsDispatch` | `ImplementsDispatch` |
| | `RecordedUnlessBatched` (request ids not shared) | `[]OkMeansRecorded` |
| | `NoCommandIsLost` | `[]QueueInv` |
| `EventTrailProofs` | `TrailImplementsLedger` | `ImplementsLedger` |
| | `TypeCorrect`, `AcknowledgedIsDone` | `[]TypeOK`, `[]AckedMeansDone` |
| | `NoEventIsLost` (all processes start with one secret) | `[]SpareInv(first)` |
| `IdentityProofs` | `UniqueSlugs`, `NoOrphans` | `[]SlugsUnique`, `[]MembersBelong` |
| | `TenantsApart`, `LeavingIsPersonal` | `TenantIsolation`, `LeavingRemovesOnlyOneself` |
| | `InvitedOnce` (`[]~InvitationRace`) | `[]OnePendingInvitation` |
| | `OwnersRemain` (`[]~OwnersRace`, `OwnersToStart`) | `[]EveryOrganizationHasAnOwner` |
| | `RacesAside` (`OwnersToStart`) | both, of `RaceFreeSpec` |
| | `NobodyGrantsMore`, `HighestClaimCounts` | of `assignableRoles`, `normalizeRole` |
| `ProjectsProofs` | `TypeCorrect`, `UniqueSlugs` | `[]TypeOK`, `[]SlugsUnique` |
| | `DescendingPages`, `OnlyTies` | `[]PagesDescend`, `[]OnlyTiesAreSkipped` |
| | `TenantsApart` | `TenantIsolation` |
| `PlanGateProofs` | `TypeCorrect`, `RecentCache` | `[]TypeOK`, `[]CacheIsRecent` |
| | `RecentDecisions` | `DecisionsAreRecent` |
| | `UpgradesOnlyAdd`, `RefusalsNameAPlan` | of `checkResourceAccess` over the declared plans |
| `RateLimitProofs` | `TypeCorrect`, `AtMostTheMaximum` | `[]TypeOK`, `[]MaxPerWindow` |
| | `TwiceTheMaximum` | `[]AtMostTwiceTheMaximum` |
| | `RefusalEarned`, `PatienceRewarded` | `[]RefusalIsEarned`, `[]PatienceIsRewarded` |
| `SessionProofs` | `TypeCorrect`, `RenderedPages` | `[]TypeOK`, `RenderedIsAllowed` |
| | `SessionsFade`, `SameLanding` | `EndedSessionsFade`, `SameTenantNextTime` |
| | `GuardedMemberships` | `MembershipsAreGuarded` |
| | `NoCircles` | a navigation's every step comes `Nearer` |
| `BusProofs` | `TypeCorrect`, `OwnersWork` | `[]TypeOK`, `[]OnlyTheOwnerWorks` |
| | `HonestCheck`, `AllGranted` | `[]CheckIsHonest`, `[]NothingIsRefused` |

The strengthenings, and why each is needed:

- `Block`. `Inv` says for every call where its dispatch, its message, its
  invocations, its commits and its events stand to each other: nothing of it is
  on the bus before it was signed (`StageInv`), only an rpc is on the bus and
  only a command in the stream (`KindInv`), whatever is under way passed the
  role gates (`GatedInv`), an rpc's message, invocation and reply exclude each
  other and count its commits (`RpcInv`), and what a reply or an answer says is
  so (`ReplyInv`, `AnswerInv`); and overall, that an invocation runs under the
  secret its envelope was signed with (`SignedInv`: it is why a reply the
  gateway distrusts is never one of finished work) and that every event has its
  write (`FactInv`). The answer's invariant alone is not inductive: a refusal is
  final only because the reply it came from excludes the message it answers. A
  step belongs to one call; `Same` is all `CallInv` reads, and `SameCall` carries
  it over for the others. The two theorems on time need one fact more about what
  is signed (`EnvelopeInv`: in the past, with the operation's own budget), and
  that no verdict still in an inbox was given against the clock (`Alive`).
  The refinement of `Dispatch` needs how often a command is performed: each of its
  invocations is one of its deliveries, so writes and handlers under way are
  never more than deliveries (`DeliveryInv`, "every run is a delivery"). Every step
  is then one step of `Dispatch` or none; the step that emits is its `Record`, the
  one that reads the reply its `Refuse`, `Confirm` or `Doubt`. `NoCommandIsLost`
  follows a command through the stream (`QueueInv`): accepted, it is stored or a
  duplicate of one that is; acknowledged, it is done and has an event under its
  request id; pending, it has deliveries left; given up, it has none; discarded,
  it is `max_age` old.
  `RecordedUnlessBatched` is the other half of the run `batch`: with request ids
  that no two calls share the sentence it refutes is a theorem.
- `EventTrail`. Every effect is of a message the stream holds (`TrailInv`), so
  each step is a step of the ledger or none; a handler past its effect has had
  it, whatever happened since (`AppliedMeansDone`), so an acknowledgement is
  honest even when two replicas share a message. `NoEventIsLost` has to know that
  secrets only move on and that a message carries one the service had
  (`SecretsMoveOn`): then a reader that distrusts a message, older or newer than
  its own secret, means that a process was rotated. What was neither is out of
  deliveries or as old as `max_age`.
- `Identity`. Slugs and orphans are `TableInv`, which speaks of fresh ids too:
  an id a handler still holds cannot come to mean another row. Leaving is
  personal because the row read is the caller's own for as long as it exists
  (`Leaves`). Each queued command is well formed (`CommandInv`), since a delivery
  starts a task from it. For the invitations:
  one about to be inserted has no twin, which is what the handler has just read,
  and the only handler that could have inserted one since would have to be at its
  own write of the same address, which is `InvitationRace`. For the owners: every
  organisation has one that no write under way names (`OwnerInv`), so that a
  write leaves that one alone. A handler coming to its write cannot name the
  last of them: it has counted the owners, so there is another, and that
  one is named as well, which is `OwnersRace`. Nor can a handler that counted
  nothing: the promotion that makes an owner of the row it names, or the
  `member.delete` that starts with it, would be the step into `OwnersRace`.
- `Projects`. What is shown is at the cursor or newer (`WalkInv`), ids are not
  reused (`FreshIds`), and a row that stays is shown once the cursor has passed
  it, or ties with a page's end (`SteadyInv`).
- `PlanGate`. An entry is as young as its expiry says, and its value was
  Autumn's at most one request before it was stored (`EntriesInv`); the same of
  answers on their way (`RequestsInv`).
- `RateLimit`. Increments of a counter have distinct ranks that cover its count
  (`RankInv`, `RanksDiffer`, `CoverInv`); windows of one counter do not overlap
  (`MemoryInv`); Redis forgets none before it is over (`ExpiryInv`).
- `Session`. A copy is never younger than the session it is of, however often it
  was renewed (`CopyInv`); what is remembered of the last sign-in is where the
  next leads (`LandedInv`). What a request being served knows is of the account as
  it was meanwhile (`RequestInv`): the rows there are are in `held`, so is the
  role the layout took to the entitlements, and the organisation the page asks a
  service about is one whose role in `held` may read it. For `NoCircles` a
  request is given a distance, eight times the level of its path plus the awaits
  of layout and page still before it (`Distance`): each redirect goes to a lower level, each await is one less, for
  every role, plan and change in between. A natural number that every step of a
  navigation lowers is why it ends; that the steps are taken is fairness.
- `Bus`. A seed newer than the env file made from it is newer than `auth.conf`
  too, unless the generator is just about to write that file (`KeysInv`): that is
  why `--check` cannot miss a run cut short. What a process subscribes to and
  consumes is its credential owner's (`OwnSubjects`), which rests on the registry
  having one service that takes commands. That nothing is refused needs what a
  process serves to be its own registry's routes (`ServedInv`) and whoever works
  on a dispatch to have the operation in its own registry (`WorkInv`); the reply
  is in time because no declared timeout exceeds the window a reply is allowed
  in.

The named assumptions are the constants' types and what the repository says of
them. Those with content: `RuleAssumption` (what `OperationRule` allows, and
`MAX_TIMEOUT_MS` as the maximum), `ClockAssumption` (drift is within
`CLOCK_SKEW_MS`), `InputAssumption`, `TableAssumption` of `Identity` and of
`Projects` (the tables a service finds obey their keys), `DeliveryAssumption`,
`SecretAssumption`, `RegistryAssumption`, `StoreAssumption`, `UserAssumption`
(each process has a credential of its name) and `DanglingAssumption` (what
`superseded.ts` checks when it is loaded). TLC evaluates them all in the runs.
`Block` and `EventTrail` are proved for any registry; `Session`, `PlanGate` and
`Bus` for the declared one, `Bus` for any part of it.

Only model-checked is liveness, which is out of the prover's reach:
`EveryDispatchAnswered`, `AcceptedSettles`, `EveryEventSettles`, `SignInGetsIn`
and `EveryNavigationEnds`. Its safety part is proved where there is one: `NoCircles`
for the last, `NoCommandIsLost` and `NoEventIsLost` for the second and third
(what has not settled is still handed out, and is given up only at `max_deliver`,
at `max_age` or after a rotation).

## 5. Not modelled

- The replay store (`replay.ts`) has no call site: no nonce is remembered, so
  there is no behaviour to model.
- `tools/guardrail-check.ts` is a lint over program text, without state over time.
- `access.ts`: the roles handed to Better Auth, consulted only by endpoints the
  catch-all refuses. `defineService`'s checks at boot.
- Better Auth itself, Autumn, Redis, NATS and Postgres, beyond what the code in
  `src/` uses of them; those parts are marked external in `map`.
- Rendering, the gates inside a page (they render what `Registry`'s operators
  say), configuration, pools, operations scripts other than
  `bootstrap-streams`; the canonical JSON a MAC is taken over (collisions are not
  in question here); the encoding of NATS keys; handlers that only read, except
  `project.list`.

### Known of the code, outside the properties above

- An event is published after the handler's transaction: a failed publish, a
  crash or a SIGTERM in between leaves a mutation without audit row or metering,
  although `services/audit/src/index.ts:4-5` promises one for each. An event
  that is out of deliveries has nowhere to go either: no dead letter is
  configured.
- A command nobody has finished for seven days, and an event a consumer has not
  taken for thirty, are discarded by the stream (`maxAgeDays` in `STREAMS`):
  the caller keeps its ACCEPTED, the trail its gap.
- `organization.delete` of an organisation that is gone deletes what it left
  behind and answers NOT_FOUND, without an event.
- A redelivered `member.create` invites again once the first invitation is
  revoked or accepted (`services/identity/src/index.ts:60`).
- While billing is down a paying organisation is refused what the free plan does
  not include, `organization.create` among it (`deps.ts:57-60`).
- The plan gate compares with a count that is cached and that the meter raises
  later: calls inside that time pass together, and an organisation can end above
  its limit. Only creations are metered (`services/billing/src/index.ts:75`), a
  deletion frees nothing.
- A plan change is seen after up to 30 s of cache and one billing request of up
  to 4 s; the README says "at most 30s".
- An account whose sign-up hook failed, or that lost its last membership, has a
  null active organisation, which the README says no account ever has. It can
  sign in, ends on the sign-in page, and only an invitation lets it out.
- The comment in `auth.ts` says that a cached cookie is blind to a removed
  membership as well; `identify` reads the row each time, so that this is seen at
  once.
- The in-memory limiter reads the bucket after other calls of the same tick have
  raised it: of calls that arrive together, more can be refused than exceed the
  maximum, though never without that many having been made. A call that Redis
  counts only after its window is over may meet an expired counter. The limiter
  is off in development.
- The cursor of `project.list` is a millisecond and strict: rows of the instant a
  page ends at are skipped.
- `services/projects/src/schema.ts:7-9` relies on `evt.organization.deleted`;
  nothing consumes it, so projects of a deleted organisation stay.
- `auditLog.read` consumes nothing, so the gateway's plan gate does not look at
  it; only the layout keeps the free plan off that page, and it is not
  evaluated again under a mounted sidebar. After a downgrade, or with a layout
  mounted while the plan was higher, the page and its rows are still shown,
  although `app/(dashboard)/audit/page.tsx` says that free-plan organisations
  never reach it. Roles are different: those the gateway asks about each time.
- `connection()` keeps a rejected promise: a gateway whose first connect failed
  does not try again until it is restarted.
- A service started from a registry newer than the server's `auth.conf` serves
  less until it is restarted: a refused subscription is only logged
  (`serve.ts:37`).

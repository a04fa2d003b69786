------------------------------ MODULE Projects ------------------------------
(***************************************************************************)
(* The projects service: its handlers and queries on the project table     *)
(* (services/projects/src/project.handlers.ts, project.service.ts and      *)
(* schema.ts), and a client that walks the pages of project.list while     *)
(* other handlers write.                                                   *)
(*                                                                         *)
(* A tick is what the database's timestamps resolve; Millisecond ticks     *)
(* are what a JavaScript Date, and so a cursor, resolves.  A handler is a  *)
(* task suspended at its database calls; its organisation is the one the   *)
(* gateway signed.                                                         *)
(***************************************************************************)
EXTENDS Integers, FiniteSets

CONSTANTS
    Tasks,          \* handler invocations that may run at once
    Organizations, Slugs,
    Limits,         \* page sizes a client asks for
    Millisecond,    \* a millisecond in ticks
    InitialTables,  \* project tables the service may start on
    Start,          \* the tick after the initial rows
    MaxTime,        \* bound: last tick
    MaxId,          \* bound: ids ever handed out
    MaxCalls        \* bound: calls of handlers that write

ASSUME TimeAssumption ==
    Millisecond \in Nat \ {0} /\ Start \in Nat /\ MaxTime \in Nat /\ Start <= MaxTime

ASSUME BoundAssumption == MaxId \in Nat /\ MaxCalls \in Nat

ASSUME LimitAssumption == Limits \subseteq Nat \ {0}

VARIABLES
    now,        \* time in ticks
    project,    \* the rows [id, org, slug, createdAt, archived]
    nextId,     \* ids are random UUIDs: never used twice
    task,       \* task[t]: Idle or the handler invocation under way
    calls,      \* how many there were
    walk        \* the client's walk over the pages of its organisation

vars == <<now, project, nextId, task, calls, walk>>

-----------------------------------------------------------------------------
(* Values and queries *)

Ids == 1..MaxId

Rows == [id : Ids, org : Organizations, slug : Slugs, createdAt : 0..MaxTime,
         archived : BOOLEAN]

\* The tables a service finds obey the keys of schema.ts; ids are numbered.
ASSUME TableAssumption ==
    \A T \in InitialTables :
        /\ T \subseteq Rows
        /\ \A p \in T : p.id <= Cardinality(T)
        /\ \A p, q \in T : (p.org = q.org /\ p.slug = q.slug) \/ p.id = q.id => p = q

Idle == [pc |-> "idle"]
NoCursor == -1

\* Slip: a query that forgets the organisation.
rowsAnywhere(org, id) == {p \in project : p.id = id}

\* The WHERE of update and remove: the id, within the organisation.
rowsOf(org, id) == {p \in project : p.org = org /\ p.id = id}

bySlug(org, slug) == {p \in project : p.org = org /\ p.slug = slug}

\* Slip: the index is not unique.
indexAllowsAll(org, slug) == TRUE

\* project_org_slug_idx
indexAllows(org, slug) == \A p \in project : ~(p.org = org /\ p.slug = slug)

\* A Date holds the millisecond its timestamp falls into.
toDate(t) == (t \div Millisecond) * Millisecond

-----------------------------------------------------------------------------
(* The handlers that write *)

\* A call the gateway let through, with any body the contract allows.
Call(t) ==
    /\ task[t] = Idle
    /\ calls < MaxCalls
    /\ calls' = calls + 1
    /\ \E org \in Organizations :
         \/ \E slug \in Slugs :
              task' = [task EXCEPT ![t] = [pc |-> "read", org |-> org, slug |-> slug]]
         \/ \E id \in Ids, archived \in BOOLEAN :
              task' = [task EXCEPT ![t] = [pc |-> "update", org |-> org, id |-> id,
                                           archived |-> archived]]
         \/ \E id \in Ids :
              task' = [task EXCEPT ![t] = [pc |-> "delete", org |-> org, id |-> id]]
    /\ UNCHANGED <<now, project, nextId, walk>>

Done(t) == task' = [task EXCEPT ![t] = Idle]

\* project.create: CONFLICT if the slug is taken.
CreateRead(t) ==
    /\ task[t].pc = "read"
    /\ IF bySlug(task[t].org, task[t].slug) # {}
       THEN Done(t)
       ELSE task' = [task EXCEPT ![t].pc = "insert"]
    /\ UNCHANGED <<now, project, nextId, calls, walk>>

\* The INSERT begins: defaultNow() is the start of its transaction.
CreateInsert(t) ==
    /\ task[t].pc = "insert"
    /\ task' = [task EXCEPT ![t] = [pc |-> "commit", org |-> @.org, slug |-> @.slug,
                                    createdAt |-> now]]
    /\ UNCHANGED <<now, project, nextId, calls, walk>>

\* ... and commits, or breaks the unique index and the handler throws.
CreateCommit(t) ==
    /\ task[t].pc = "commit"
    /\ IF indexAllows(task[t].org, task[t].slug)
       THEN /\ nextId <= MaxId
            /\ project' = project \cup
                  {[id |-> nextId, org |-> task[t].org, slug |-> task[t].slug,
                    createdAt |-> task[t].createdAt, archived |-> FALSE]}
            /\ nextId' = nextId + 1
       ELSE UNCHANGED <<project, nextId>>
    /\ Done(t)
    /\ UNCHANGED <<now, calls, walk>>

\* Rows that leave the walker's filter are not there throughout its walk.
Leave(ids) == walk' = [walk EXCEPT !.steady = @ \ ids]

\* project.update: no row is NOT_FOUND.
Update(t) ==
    /\ task[t].pc = "update"
    /\ LET rows == rowsOf(task[t].org, task[t].id)
       IN  /\ project' = (project \ rows) \cup
                            {[p EXCEPT !.archived = task[t].archived] : p \in rows}
           /\ Leave(IF task[t].archived /\ ~walk.includeArchived
                    THEN {p.id : p \in rows} ELSE {})
    /\ Done(t)
    /\ UNCHANGED <<now, nextId, calls>>

\* project.delete
Delete(t) ==
    /\ task[t].pc = "delete"
    /\ project' = project \ rowsOf(task[t].org, task[t].id)
    /\ Leave({p.id : p \in rowsOf(task[t].org, task[t].id)})
    /\ Done(t)
    /\ UNCHANGED <<now, nextId, calls>>

-----------------------------------------------------------------------------
(* project.list and the client that follows its cursors *)

\* Slip: the row of the cursor is included.
beforeOrAt(p, cursor) == cursor = NoCursor \/ p.createdAt <= cursor

before(p, cursor) == cursor = NoCursor \/ p.createdAt < cursor

\* The filters of list.
matching(org, includeArchived, cursor) ==
    {p \in project : /\ p.org = org
                     /\ includeArchived \/ ~p.archived
                     /\ before(p, cursor)}

\* What ORDER BY created_at DESC LIMIT n may return of the rows: rows of one
\* instant come in any order.
newest(rows, n) ==
    {S \in SUBSET rows :
        /\ Cardinality(S) = IF Cardinality(rows) < n THEN Cardinality(rows) ELSE n
        /\ \A p \in S, q \in rows \ S : p.createdAt >= q.createdAt}

\* Slip: the cursor is the row looked ahead at.
cursorOfLookahead(items, fetched) ==
    toDate(CHOOSE t \in {p.createdAt : p \in fetched} :
              \A p \in fetched : t <= p.createdAt)

\* items.at(-1).createdAt.toISOString()
cursorOf(items, fetched) ==
    toDate(CHOOSE t \in {p.createdAt : p \in items} : \A p \in items : t <= p.createdAt)

\* list: one row more than the limit tells whether there is a next page.
list(org, includeArchived, cursor, limit) ==
    UNION {IF Cardinality(fetched) > limit
           THEN {[items |-> items, nextCursor |-> cursorOf(items, fetched)] :
                    items \in newest(fetched, limit)}
           ELSE {[items |-> fetched, nextCursor |-> NoCursor]} :
             fetched \in newest(matching(org, includeArchived, cursor), limit + 1)}

\* One page, and where the client stands after it.
ReadPage ==
    /\ walk.pc = "walking"
    /\ \E limit \in Limits :
       \E page \in list(walk.org, walk.includeArchived, walk.cursor, limit) :
          walk' = [walk EXCEPT
                     !.pc = IF page.nextCursor = NoCursor THEN "done" ELSE "walking",
                     !.cursor = page.nextCursor,
                     !.page = page.items,
                     !.seen = @ \cup walk.page,
                     !.ends = IF page.nextCursor = NoCursor THEN @
                              ELSE @ \cup {cursorOf(page.items, page.items)}]
    /\ UNCHANGED <<now, project, nextId, task, calls>>

-----------------------------------------------------------------------------

Tick ==
    /\ now < MaxTime
    /\ now' = now + 1
    /\ UNCHANGED <<project, nextId, task, calls, walk>>

\* The walk begins on the tables the service starts on; steady are the rows it
\* finds there and that stay.
Init ==
    /\ now = Start
    /\ project \in InitialTables
    /\ nextId = Cardinality(project) + 1
    /\ task = [t \in Tasks |-> Idle]
    /\ calls = 0
    /\ \E org \in Organizations, includeArchived \in BOOLEAN :
         walk = [pc |-> "walking", org |-> org, includeArchived |-> includeArchived,
                 cursor |-> NoCursor, page |-> {}, seen |-> {}, ends |-> {},
                 steady |-> {p.id : p \in matching(org, includeArchived, NoCursor)}]

Next ==
    \/ Tick \/ ReadPage
    \/ \E t \in Tasks : \/ Call(t) \/ CreateRead(t) \/ CreateInsert(t) \/ CreateCommit(t)
                        \/ Update(t) \/ Delete(t)

Spec == Init /\ [][Next]_vars

-----------------------------------------------------------------------------
(* Properties *)

TypeOK ==
    /\ now \in 0..MaxTime
    /\ project \subseteq Rows
    /\ nextId \in Nat \ {0}
    /\ calls \in 0..MaxCalls
    /\ task \in [Tasks ->
          {Idle} \cup [pc : {"read", "insert"}, org : Organizations, slug : Slugs]
                 \cup [pc : {"commit"}, org : Organizations, slug : Slugs,
                        createdAt : 0..MaxTime]
                 \cup [pc : {"update"}, org : Organizations, id : Ids, archived : BOOLEAN]
                 \cup [pc : {"delete"}, org : Organizations, id : Ids]]
    /\ walk \in [pc : {"walking", "done"}, org : Organizations, includeArchived : BOOLEAN,
                 cursor : {NoCursor} \cup Nat, page : SUBSET Rows, seen : SUBSET Rows,
                 ends : SUBSET Nat, steady : SUBSET Ids]

\* An organisation has a slug once, and every id is one project, however two
\* creations interleave between the lookup, the insert and the commit.
SlugsUnique ==
    \A p, q \in project : (p.org = q.org /\ p.slug = q.slug) \/ p.id = q.id => p = q

\* No tenant touches another one's rows, whatever id a body names, and none is
\* refused for them: a handler changes rows of its own organisation only, and
\* a creation fails only on a slug of the caller's organisation.
TenantIsolation ==
    [][\A t \in Tasks :
         /\ task[t] # Idle /\ task'[t] # task[t] =>
              \A p \in (project \ project') \cup (project' \ project) : p.org = task[t].org
         /\ task[t].pc \in {"read", "commit"} /\ task'[t] = Idle /\ project' = project =>
              \E p \in project : p.org = task[t].org /\ p.slug = task[t].slug]_vars

\* The pages of a walk hold the caller's rows, newest first, and no page shows
\* a row again, however many are created, archived or deleted between two pages.
PagesDescend ==
    /\ \A p \in walk.page \cup walk.seen : p.org = walk.org
    /\ \A p \in walk.seen, q \in walk.page : p.id # q.id /\ p.createdAt > q.createdAt

\* A walk misses none of the rows that were there throughout, except rows of
\* the very millisecond in which a page ended: the cursor does not break the
\* tie.
OnlyTiesAreSkipped ==
    walk.pc = "done" =>
        \A p \in project :
            \/ p.id \notin walk.steady
            \/ p.id \in {q.id : q \in walk.page \cup walk.seen}
            \/ toDate(p.createdAt) \in walk.ends
=============================================================================

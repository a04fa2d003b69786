---------------------------- MODULE ProjectsProofs ----------------------------
(***************************************************************************)
(* The projects service and the pages of its list: for any tenants, any    *)
(* number of handlers at once, any page sizes, any tables to start from    *)
(* and any coarseness of a JavaScript Date.                                *)
(***************************************************************************)
EXTENDS Projects, FiniteSetTheorems, TLAPS

-----------------------------------------------------------------------------
(* Numbers and finite sets *)

\* What the cursor's coarseness does to an instant.
LEMMA ToDate ==
    ASSUME NEW t \in Nat
    PROVE  toDate(t) \in Nat /\ toDate(t) <= t /\ t < toDate(t) + Millisecond
  BY TimeAssumption DEF toDate

LEMMA SameDate ==
    ASSUME NEW s \in Nat, NEW t \in Nat, s <= t, toDate(t) <= s
    PROVE  toDate(s) = toDate(t)
  <1> DEFINE k == t \div Millisecond
             m == s \div Millisecond
  <1>1. k \in Nat /\ m \in Nat /\ toDate(t) = k * Millisecond /\ toDate(s) = m * Millisecond
    BY TimeAssumption DEF toDate
  <1>2. m * Millisecond <= s /\ s < m * Millisecond + Millisecond
        /\ k * Millisecond <= s /\ s < k * Millisecond + Millisecond
    BY <1>1, ToDate, TimeAssumption
  <1> HIDE DEF k, m
  <1>3. ~(m < k) /\ ~(k < m)
    <2>1. ASSUME NEW a \in Nat, NEW b \in Nat, a < b
          PROVE  a * Millisecond + Millisecond <= b * Millisecond
      <3> DEFINE c == b - a - 1
      <3>1. c \in Nat /\ b = a + 1 + c
        BY <2>1
      <3> HIDE DEF c
      <3>2. b * Millisecond = a * Millisecond + Millisecond + c * Millisecond /\ c * Millisecond >= 0
        BY <3>1, TimeAssumption
      <3> QED
        BY <3>1, <3>2, TimeAssumption
    <2>2. m * Millisecond \in Nat /\ k * Millisecond \in Nat
      BY <1>1, TimeAssumption
    <2> QED
      BY <1>1, <1>2, <2>1, <2>2, TimeAssumption
  <1> QED
    BY <1>1, <1>3

\* A set of instants has a first one.
LEMMA Earliest ==
    ASSUME NEW S, S \subseteq Nat, S # {}
    PROVE  \E t \in S : \A s \in S : t <= s
  <1>1. PICK t \in S : \A s \in S : ~(<<s, t>> \in OpToRel(<, Nat))
    BY NatLessThanWellFounded, WFMin
  <1>2. \A s \in S : ~(s < t)
    BY <1>1 DEF OpToRel
  <1> QED
    BY <1>2

\* The cursor of a page is the date of its last row.
LEMMA Cursor ==
    ASSUME NEW items, items # {}, \A p \in items : p.createdAt \in Nat, NEW fetched
    PROVE  \E q \in items : /\ cursorOf(items, fetched) = toDate(q.createdAt)
                            /\ \A p \in items : q.createdAt <= p.createdAt
  <1> DEFINE S == {p.createdAt : p \in items}
  <1>1. S \subseteq Nat /\ S # {}
    OBVIOUS
  <1>2. \E t \in S : \A s \in S : t <= s
    BY <1>1, Earliest
  <1>3. \E t \in S : \A p \in items : t <= p.createdAt
    BY <1>2
  <1> DEFINE u == CHOOSE t \in S : \A p \in items : t <= p.createdAt
  <1>4. u \in S /\ \A p \in items : u <= p.createdAt
    BY <1>3
  <1>5. cursorOf(items, fetched) = toDate(u)
    BY DEF cursorOf
  <1> HIDE DEF u
  <1> QED
    BY <1>4, <1>5

\* Ids bound the table.
LEMMA FiniteTable ==
    ASSUME NEW T, T \subseteq Rows, \A p, q \in T : p.id = q.id => p = q
    PROVE  IsFiniteSet(T) /\ Cardinality(T) \in Nat
  <1> DEFINE f == [p \in T |-> p.id]
  <1>1. f \in Injection(T, 1..MaxId)
    BY DEF Rows, Ids, Injection, IsInjective
  <1>2. IsFiniteSet(1..MaxId)
    BY FS_Interval, BoundAssumption
  <1> HIDE DEF f
  <1> QED
    BY <1>1, <1>2, FS_Injection, FS_CardinalityType

-----------------------------------------------------------------------------
(* The inductive invariant *)

\* Ids are handed out once.
FreshIds ==
    /\ \A p \in project : p.id < nextId
    /\ \A i \in walk.steady : i < nextId

\* The rows a walk has shown, as far as they are still there.
Shown(p) ==
    /\ p.org = walk.org /\ p.id < nextId
    /\ \A q \in project : q.id = p.id => q.createdAt = p.createdAt

Pages == walk.page \cup walk.seen

\* Everything shown is at the cursor or newer; before the first page there is
\* nothing.
WalkInv ==
    /\ \A p \in Pages : Shown(p)
    /\ walk.cursor # NoCursor => \A p \in Pages : walk.cursor <= p.createdAt
    /\ walk.pc = "walking" /\ walk.cursor = NoCursor => Pages = {}

Seen(p) == p.id \in {q.id : q \in Pages} \/ toDate(p.createdAt) \in walk.ends

\* Rows that stay match the filter, and those at the cursor or newer are shown
\* or tie with the end of a page.
SteadyInv ==
    \A p \in project : p.id \in walk.steady =>
        /\ p.org = walk.org /\ (walk.includeArchived \/ ~p.archived)
        /\ walk.cursor # NoCursor /\ walk.cursor <= p.createdAt => Seen(p)
        /\ walk.pc = "done" => Seen(p)

Inv ==
    /\ TypeOK /\ SlugsUnique /\ FreshIds
    /\ WalkInv /\ PagesDescend /\ SteadyInv

LEMMA InitInv == Init => Inv
  <1> SUFFICES ASSUME Init PROVE Inv
    OBVIOUS
  <1>1. PICK org \in Organizations, includeArchived \in BOOLEAN :
          walk = [pc |-> "walking", org |-> org, includeArchived |-> includeArchived,
                  cursor |-> NoCursor, page |-> {}, seen |-> {}, ends |-> {},
                  steady |-> {p.id : p \in matching(org, includeArchived, NoCursor)}]
    BY DEF Init
  <1>2. /\ project \subseteq Rows /\ SlugsUnique
        /\ \A p \in project : p.id <= Cardinality(project)
    BY TableAssumption DEF Init, SlugsUnique
  <1>3. Cardinality(project) \in Nat
    BY <1>2, FiniteTable DEF SlugsUnique
  <1>4. matching(org, includeArchived, NoCursor) \subseteq project
    BY DEF matching
  <1>5. walk.steady \subseteq Ids
    BY <1>1, <1>2, <1>4 DEF Rows
  <1>6. TypeOK
    BY <1>1, <1>2, <1>3, <1>5, TimeAssumption, BoundAssumption DEF Init, TypeOK, Rows
  <1>7. FreshIds
    <2>1. \A p \in project : p.id \in Nat /\ p.id < nextId
      BY <1>2, <1>3 DEF Init, Rows, Ids
    <2> QED
      BY <1>1, <1>4, <2>1 DEF FreshIds
  <1>8. WalkInv /\ PagesDescend
    BY <1>1 DEF WalkInv, PagesDescend, Pages, NoCursor
  <1>9. SteadyInv
    <2> SUFFICES ASSUME NEW p \in project, p.id \in walk.steady
                 PROVE  p.org = walk.org /\ (walk.includeArchived \/ ~p.archived)
      BY <1>1 DEF SteadyInv
    <2>1. PICK q \in matching(org, includeArchived, NoCursor) : q.id = p.id
      BY <1>1
    <2>2. q = p
      BY <1>2, <1>4, <2>1 DEF SlugsUnique
    <2> QED
      BY <1>1, <2>2 DEF matching
  <1> QED
    BY <1>2, <1>6, <1>7, <1>8, <1>9 DEF Inv

-----------------------------------------------------------------------------
(* The steps *)

\* Nothing but the clock and the handlers' own state moves.
LEMMA TaskKeeps ==
    ASSUME Inv, UNCHANGED <<project, nextId, walk>>, now' \in Nat, TypeOK'
    PROVE  Inv'
  BY DEF Inv, SlugsUnique, FreshIds, WalkInv, PagesDescend, SteadyInv, Pages, Shown, Seen, toDate

\* A task of some kind has the fields of that kind.
LEMMA TaskFields ==
    ASSUME TypeOK, NEW t \in Tasks
    PROVE  /\ task[t].pc \in {"read", "insert", "commit"} =>
                 task[t].org \in Organizations /\ task[t].slug \in Slugs
           /\ task[t].pc = "commit" => task[t].createdAt \in 0..MaxTime
           /\ task[t].pc \in {"update", "delete"} =>
                 task[t].org \in Organizations /\ task[t].id \in Ids
           /\ task[t].pc = "update" => task[t].archived \in BOOLEAN
  BY DEF TypeOK, Idle

\* Rows are only replaced by rows of the same id, tenant, slug and instant, or
\* leave; ids of rows that leave the filter are not steady any more.
LEMMA RowsKeep ==
    ASSUME Inv, UNCHANGED <<now, nextId, calls>>, TypeOK',
           NEW gone \in SUBSET Ids, walk' = [walk EXCEPT !.steady = @ \ gone],
           \A p \in project' : \E q \in project :
              /\ p.id = q.id /\ p.org = q.org /\ p.slug = q.slug /\ p.createdAt = q.createdAt
              /\ p.archived => q.archived \/ walk.includeArchived \/ p.id \in gone,
           \A p, q \in project' : p.id = q.id => p = q
    PROVE  Inv'
  <1>0. walk \in [pc : {"walking", "done"}, org : Organizations, includeArchived : BOOLEAN,
                 cursor : {NoCursor} \cup Nat, page : SUBSET Rows, seen : SUBSET Rows,
                 ends : SUBSET Nat, steady : SUBSET Ids]
    BY DEF Inv, TypeOK
  <1>1. /\ walk'.pc = walk.pc /\ walk'.org = walk.org /\ walk'.includeArchived = walk.includeArchived
        /\ walk'.cursor = walk.cursor /\ walk'.page = walk.page /\ walk'.seen = walk.seen
        /\ walk'.ends = walk.ends /\ walk'.steady = walk.steady \ gone
    BY <1>0
  <1>2. SlugsUnique'
    BY DEF Inv, SlugsUnique
  <1>3. FreshIds'
    BY <1>1 DEF Inv, FreshIds
  <1>4. Pages' = Pages /\ PagesDescend'
    BY <1>1 DEF Inv, PagesDescend, Pages
  <1>5. WalkInv'
    BY <1>1, <1>4 DEF Inv, WalkInv, Shown
  <1>6. SteadyInv'
    <2> SUFFICES ASSUME NEW p \in project', p.id \in walk.steady, p.id \notin gone
                 PROVE  /\ p.org = walk.org /\ (walk.includeArchived \/ ~p.archived)
                        /\ walk.cursor # NoCursor /\ walk.cursor <= p.createdAt => Seen(p)'
                        /\ walk.pc = "done" => Seen(p)'
      BY <1>1 DEF SteadyInv
    <2>1. PICK q \in project :
              /\ p.id = q.id /\ p.org = q.org /\ p.slug = q.slug /\ p.createdAt = q.createdAt
              /\ p.archived => q.archived \/ walk.includeArchived \/ p.id \in gone
      OBVIOUS
    <2>2. Seen(p)' <=> Seen(q)
      BY <1>1, <1>4, <2>1 DEF Seen, toDate
    <2> QED
      BY <2>1, <2>2 DEF Inv, SteadyInv
  <1> QED
    BY <1>2, <1>3, <1>4, <1>5, <1>6 DEF Inv

LEMMA CommitKeeps == ASSUME Inv, NEW t \in Tasks, CreateCommit(t) PROVE Inv'
  <1>1. CASE ~indexAllows(task[t].org, task[t].slug)
    <2>1. UNCHANGED <<project, nextId, now, calls, walk>> /\ task' = [task EXCEPT ![t] = Idle]
      BY <1>1 DEF CreateCommit, Done
    <2>2. TypeOK'
      BY <2>1 DEF Inv, TypeOK
    <2> QED
      BY <2>1, <2>2, TaskKeeps DEF Inv, TypeOK
  <1>2. CASE indexAllows(task[t].org, task[t].slug)
    <2> DEFINE new == [id |-> nextId, org |-> task[t].org, slug |-> task[t].slug,
                       createdAt |-> task[t].createdAt, archived |-> FALSE]
    <2>1. /\ project' = project \cup {new} /\ nextId' = nextId + 1 /\ nextId <= MaxId
          /\ UNCHANGED <<now, calls, walk>> /\ task' = [task EXCEPT ![t] = Idle]
          /\ task[t].pc = "commit"
      BY <1>2 DEF CreateCommit, Done
    <2>2. new \in Rows /\ nextId \in Nat
      BY <2>1, TaskFields, BoundAssumption DEF Inv, TypeOK, Rows, Ids, FreshIds
    <2>3. TypeOK'
      <3> HIDE DEF new
      <3>1. project' \subseteq Rows /\ nextId' \in Nat \ {0}
        BY <2>1, <2>2 DEF Inv, TypeOK
      <3> QED
        BY <2>1, <3>1 DEF Inv, TypeOK
    <2>4. \A p \in project : p.id \in Nat /\ p.id < nextId
      BY DEF Inv, TypeOK, FreshIds, Rows, Ids
    <2>5. SlugsUnique'
      <3>1. \A p \in project : p.id # new.id /\ ~(p.org = new.org /\ p.slug = new.slug)
        BY <1>2, <2>2, <2>4 DEF indexAllows
      <3> HIDE DEF new
      <3> QED
        BY <2>1, <3>1 DEF Inv, SlugsUnique
    <2>6. FreshIds'
      BY <2>1, <2>2, <2>4 DEF Inv, TypeOK, FreshIds, Ids
    <2>7. Pages' = Pages /\ PagesDescend'
      BY <2>1 DEF Inv, Pages, PagesDescend
    <2>8. WalkInv'
      <3>1. \A p \in Pages : p.id \in Nat
        BY DEF Inv, TypeOK, Pages, Rows, Ids
      <3>2. ASSUME NEW p \in Pages PROVE Shown(p)'
        <4>1. Shown(p) /\ p.id \in Nat
          BY <3>1 DEF Inv, WalkInv
        <4> QED
          BY <2>1, <2>2, <4>1 DEF Shown
      <3> QED
        BY <2>1, <2>7, <3>2 DEF Inv, WalkInv
    <2>9. SteadyInv'
      <3>1. new.id \notin walk.steady
        BY <2>2 DEF Inv, FreshIds
      <3>2. \A p \in project : Seen(p)' <=> Seen(p)
        BY <2>1, <2>7 DEF Seen, toDate
      <3> HIDE DEF new
      <3> QED
        BY <2>1, <3>1, <3>2 DEF Inv, SteadyInv
    <2> QED
      BY <2>3, <2>5, <2>6, <2>7, <2>8, <2>9 DEF Inv
  <1> QED
    BY <1>1, <1>2

LEMMA UpdateKeeps == ASSUME Inv, NEW t \in Tasks, Update(t) PROVE Inv'
  <1> DEFINE rows == rowsOf(task[t].org, task[t].id)
             flag == task[t].archived
             changed == {[p EXCEPT !.archived = flag] : p \in rows}
             gone == IF flag /\ ~walk.includeArchived THEN {p.id : p \in rows} ELSE {}
  <1>1. /\ task[t].pc = "update" /\ project' = (project \ rows) \cup changed
        /\ walk' = [walk EXCEPT !.steady = @ \ gone]
        /\ task' = [task EXCEPT ![t] = Idle] /\ UNCHANGED <<now, nextId, calls>>
    BY DEF Update, Leave, Done
  <1>2. flag \in BOOLEAN /\ rows \subseteq project /\ project \subseteq Rows
    BY <1>1, TaskFields DEF Inv, TypeOK, rowsOf
  <1>3. gone \in SUBSET Ids
    BY <1>2 DEF Rows
  <1>4. ASSUME NEW q \in rows
        PROVE  LET p == [q EXCEPT !.archived = flag]
               IN  p \in Rows /\ p.id = q.id /\ p.org = q.org /\ p.slug = q.slug
                   /\ p.createdAt = q.createdAt /\ p.archived = flag
    BY <1>2 DEF Rows
  <1>5. project' \subseteq Rows
    BY <1>1, <1>2, <1>4
  <1>6. walk' \in [pc : {"walking", "done"}, org : Organizations, includeArchived : BOOLEAN,
                 cursor : {NoCursor} \cup Nat, page : SUBSET Rows, seen : SUBSET Rows,
                 ends : SUBSET Nat, steady : SUBSET Ids]
    BY <1>1 DEF Inv, TypeOK
  <1>7. TypeOK'
    BY <1>1, <1>5, <1>6 DEF Inv, TypeOK
  <1>8. ASSUME NEW p \in project'
        PROVE  \E q \in project :
                 /\ p.id = q.id /\ p.org = q.org /\ p.slug = q.slug /\ p.createdAt = q.createdAt
                 /\ p.archived => q.archived \/ walk.includeArchived \/ p.id \in gone
    <2>1. CASE p \in project \ rows
      BY <2>1
    <2>2. CASE p \in changed
      <3>1. PICK q \in rows : p = [q EXCEPT !.archived = flag]
        BY <2>2
      <3>2. p.archived /\ ~walk.includeArchived => p.id \in gone
        BY <1>4, <3>1
      <3> QED
        BY <1>2, <1>4, <3>1, <3>2
    <2> QED
      BY <1>1, <2>1, <2>2
  <1>9. ASSUME NEW p \in project', NEW q \in project', p.id = q.id PROVE p = q
    <2>1. \A a, b \in project : a.id = b.id => a = b
      BY DEF Inv, SlugsUnique
    <2>2. \A r \in project' : r \in project \ rows \/ r \in changed
      BY <1>1
    <2>3. \A r \in changed : \E a \in rows : r = [a EXCEPT !.archived = flag] /\ r.id = a.id
      BY <1>4
    <2>4. CASE p \in project \ rows /\ q \in project \ rows
      BY <1>9, <2>1, <2>4
    <2>5. CASE p \in changed /\ q \in changed
      BY <1>2, <1>9, <2>1, <2>3, <2>5
    <2>6. CASE p \in project \ rows /\ q \in changed
      BY <1>2, <1>9, <2>1, <2>3, <2>6
    <2>7. CASE p \in changed /\ q \in project \ rows
      BY <1>2, <1>9, <2>1, <2>3, <2>7
    <2> QED
      BY <2>2, <2>4, <2>5, <2>6, <2>7
  <1> HIDE DEF gone, rows, changed
  <1> QED
    BY <1>1, <1>3, <1>7, <1>8, <1>9, RowsKeep

LEMMA DeleteKeeps == ASSUME Inv, NEW t \in Tasks, Delete(t) PROVE Inv'
  <1> DEFINE rows == rowsOf(task[t].org, task[t].id)
             gone == {p.id : p \in rows}
  <1>1. /\ project' = project \ rows /\ walk' = [walk EXCEPT !.steady = @ \ gone]
        /\ task' = [task EXCEPT ![t] = Idle] /\ UNCHANGED <<now, nextId, calls>>
    BY DEF Delete, Leave, Done
  <1>2. rows \subseteq project /\ project \subseteq Rows
    BY DEF Inv, TypeOK, rowsOf
  <1>3. gone \in SUBSET Ids
    BY <1>2 DEF Rows
  <1>4. walk' \in [pc : {"walking", "done"}, org : Organizations, includeArchived : BOOLEAN,
                 cursor : {NoCursor} \cup Nat, page : SUBSET Rows, seen : SUBSET Rows,
                 ends : SUBSET Nat, steady : SUBSET Ids]
    BY <1>1 DEF Inv, TypeOK
  <1>5. TypeOK'
    BY <1>1, <1>2, <1>4 DEF Inv, TypeOK
  <1>6. \A p \in project' : p \in project
    BY <1>1
  <1>7. \A p, q \in project' : p.id = q.id => p = q
    BY <1>6 DEF Inv, SlugsUnique
  <1> HIDE DEF gone, rows
  <1> QED
    BY <1>1, <1>3, <1>5, <1>6, <1>7, RowsKeep

\* The rows of a page, and what it leaves to the next ones.
LEMMA PageOfList ==
    ASSUME Inv, NEW limit \in Limits,
           NEW page \in list(walk.org, walk.includeArchived, walk.cursor, limit)
    PROVE  LET rows == matching(walk.org, walk.includeArchived, walk.cursor)
           IN  /\ page.items \subseteq rows
               /\ page.nextCursor = NoCursor => page.items = rows
               /\ page.nextCursor # NoCursor =>
                    \E q \in page.items :
                       /\ page.nextCursor = toDate(q.createdAt)
                       /\ cursorOf(page.items, page.items) = toDate(q.createdAt)
                       /\ \A p \in page.items : q.createdAt <= p.createdAt
                       /\ \A p \in rows \ page.items : p.createdAt <= q.createdAt
  <1> DEFINE rows == matching(walk.org, walk.includeArchived, walk.cursor)
  <1>0. rows \subseteq project /\ project \subseteq Rows /\ limit \in Nat /\ limit > 0
    BY LimitAssumption DEF matching, Inv, TypeOK
  <1>1. IsFiniteSet(rows) /\ Cardinality(rows) \in Nat /\ \A p \in rows : p.createdAt \in Nat
    <2>1. rows \subseteq Rows /\ \A p, q \in rows : p.id = q.id => p = q
      BY <1>0 DEF Inv, SlugsUnique
    <2> HIDE DEF rows
    <2> QED
      BY <2>1, FiniteTable DEF Rows
  <1> HIDE DEF rows
  <1>2. PICK fetched \in newest(rows, limit + 1) :
           page \in IF Cardinality(fetched) > limit
                    THEN {[items |-> items, nextCursor |-> cursorOf(items, fetched)] :
                             items \in newest(fetched, limit)}
                    ELSE {[items |-> fetched, nextCursor |-> NoCursor]}
    BY DEF list, rows
  <1>3. /\ fetched \in SUBSET rows
        /\ Cardinality(fetched) = IF Cardinality(rows) < limit + 1 THEN Cardinality(rows) ELSE limit + 1
        /\ \A p \in fetched, q \in rows \ fetched : p.createdAt >= q.createdAt
    BY DEF newest
  <1>4. CASE Cardinality(fetched) > limit
    <2>1. PICK items \in newest(fetched, limit) :
              page = [items |-> items, nextCursor |-> cursorOf(items, fetched)]
      BY <1>2, <1>4
    <2>2. /\ items \in SUBSET fetched
          /\ Cardinality(items) = IF Cardinality(fetched) < limit THEN Cardinality(fetched) ELSE limit
          /\ \A p \in items, q \in fetched \ items : p.createdAt >= q.createdAt
      BY <2>1 DEF newest
    <2>3. Cardinality(items) = limit
      BY <1>0, <1>1, <1>3, <1>4, <2>2
    <2>4. items # {}
      <3>1. Cardinality({}) = 0
        BY FS_EmptySet
      <3> QED
        BY <1>0, <2>3, <3>1
    <2>5. items \subseteq rows /\ \A p \in items : p.createdAt \in Nat
      BY <1>1, <1>3, <2>2
    <2>6. PICK q \in items : /\ cursorOf(items, fetched) = toDate(q.createdAt)
                             /\ \A p \in items : q.createdAt <= p.createdAt
      BY <2>4, <2>5, Cursor
    <2>7. cursorOf(items, items) = toDate(q.createdAt)
      BY <2>6 DEF cursorOf
    <2>8. \A p \in rows \ items : p.createdAt <= q.createdAt
      BY <1>1, <1>3, <2>2, <2>5
    <2>9. toDate(q.createdAt) # NoCursor
      BY <2>5, ToDate DEF NoCursor
    <2> QED
      BY <2>1, <2>5, <2>6, <2>7, <2>8, <2>9 DEF rows
  <1>5. CASE ~(Cardinality(fetched) > limit)
    <2>1. page.items = fetched /\ page.nextCursor = NoCursor
      BY <1>2, <1>5
    <2>2. Cardinality(fetched) = Cardinality(rows)
      BY <1>0, <1>1, <1>3, <1>5
    <2>3. fetched = rows
      BY <1>1, <1>3, <2>2, FS_Subset
    <2> QED
      BY <2>1, <2>3 DEF rows
  <1> QED
    BY <1>4, <1>5

LEMMA PageKeeps == ASSUME Inv, ReadPage PROVE Inv'
  <1>0. PICK limit \in Limits :
          \E page \in list(walk.org, walk.includeArchived, walk.cursor, limit) :
             walk' = [walk EXCEPT
                     !.pc = IF page.nextCursor = NoCursor THEN "done" ELSE "walking",
                     !.cursor = page.nextCursor,
                     !.page = page.items,
                     !.seen = @ \cup walk.page,
                     !.ends = IF page.nextCursor = NoCursor THEN @
                              ELSE @ \cup {cursorOf(page.items, page.items)}]
    BY DEF ReadPage
  <1>1. PICK page \in list(walk.org, walk.includeArchived, walk.cursor, limit) :
          walk' = [walk EXCEPT
                     !.pc = IF page.nextCursor = NoCursor THEN "done" ELSE "walking",
                     !.cursor = page.nextCursor,
                     !.page = page.items,
                     !.seen = @ \cup walk.page,
                     !.ends = IF page.nextCursor = NoCursor THEN @
                              ELSE @ \cup {cursorOf(page.items, page.items)}]
    BY <1>0
  <1>2. walk.pc = "walking" /\ UNCHANGED <<now, project, nextId, task, calls>>
    BY DEF ReadPage
  <1> DEFINE rows == matching(walk.org, walk.includeArchived, walk.cursor)
             last == page.nextCursor = NoCursor
             end == cursorOf(page.items, page.items)
  <1>3. /\ page.items \subseteq rows
        /\ last => page.items = rows
        /\ ~last => \E q \in page.items :
                       /\ page.nextCursor = toDate(q.createdAt)
                       /\ end = toDate(q.createdAt)
                       /\ \A p \in page.items : q.createdAt <= p.createdAt
                       /\ \A p \in rows \ page.items : p.createdAt <= q.createdAt
    BY PageOfList
  <1>4. walk \in [pc : {"walking", "done"}, org : Organizations, includeArchived : BOOLEAN,
                 cursor : {NoCursor} \cup Nat, page : SUBSET Rows, seen : SUBSET Rows,
                 ends : SUBSET Nat, steady : SUBSET Ids]
        /\ project \subseteq Rows
    BY DEF Inv, TypeOK
  <1> HIDE DEF last, end
  <1>5. /\ walk'.pc = (IF last THEN "done" ELSE "walking") /\ walk'.cursor = page.nextCursor
        /\ walk'.page = page.items /\ walk'.seen = walk.seen \cup walk.page
        /\ walk'.ends = (IF last THEN walk.ends ELSE walk.ends \cup {end})
        /\ walk'.org = walk.org /\ walk'.includeArchived = walk.includeArchived
        /\ walk'.steady = walk.steady
    BY <1>1, <1>4 DEF last, end
  <1>6. ASSUME NEW p \in rows
        PROVE  /\ p \in project /\ p \in Rows /\ p.createdAt \in Nat /\ p.org = walk.org
               /\ walk.cursor = NoCursor \/ p.createdAt < walk.cursor
    BY <1>4 DEF matching, before, Rows
  <1>7. \A p \in project : /\ p.org = walk.org /\ (walk.includeArchived \/ ~p.archived)
                           /\ walk.cursor = NoCursor \/ p.createdAt < walk.cursor
                           => p \in rows
    BY DEF matching, before
  <1> HIDE DEF rows
  <1>8. \A p \in Pages : p.createdAt \in Nat /\ p.id \in Nat
    BY <1>4 DEF Pages, Rows, Ids
  <1>9. page.nextCursor \in {NoCursor} \cup Nat /\ (~last => end \in Nat /\ end = page.nextCursor)
    <2>1. CASE last
      BY <2>1 DEF last
    <2>2. CASE ~last
      BY <1>3, <1>6, <2>2, ToDate
    <2> QED
      BY <2>1, <2>2
  <1>10. TypeOK'
    <2>1. page.items \subseteq Rows
      BY <1>3, <1>6
    <2>2. walk' \in [pc : {"walking", "done"}, org : Organizations, includeArchived : BOOLEAN,
                 cursor : {NoCursor} \cup Nat, page : SUBSET Rows, seen : SUBSET Rows,
                 ends : SUBSET Nat, steady : SUBSET Ids]
      <3> DEFINE ends == IF last THEN walk.ends ELSE walk.ends \cup {end}
                 pc == IF last THEN "done" ELSE "walking"
      <3>1. ends \subseteq Nat /\ pc \in {"walking", "done"}
        BY <1>4, <1>9
      <3>2. walk' = [walk EXCEPT !.pc = pc, !.cursor = page.nextCursor, !.page = page.items,
                                 !.seen = walk.seen \cup walk.page, !.ends = ends]
        BY <1>1 DEF last, end
      <3> HIDE DEF ends, pc
      <3> QED
        BY <1>4, <1>9, <2>1, <3>1, <3>2
    <2> QED
      BY <1>2, <2>2 DEF Inv, TypeOK
  <1>11. Pages' = Pages \cup page.items /\ walk'.seen = Pages
    BY <1>5 DEF Pages
  <1>12. SlugsUnique' /\ FreshIds'
    BY <1>2, <1>5 DEF Inv, SlugsUnique, FreshIds
  <1>13. ASSUME NEW p \in Pages, NEW q \in page.items
         PROVE  p.createdAt > q.createdAt /\ p.id # q.id
    <2>1. walk.cursor # NoCursor /\ walk.cursor <= p.createdAt /\ Shown(p)
      BY <1>2 DEF Inv, WalkInv
    <2>2. q \in project /\ q.createdAt \in Nat /\ q.createdAt < walk.cursor
      BY <1>3, <1>6, <2>1
    <2>3. walk.cursor \in Nat
      BY <1>4, <2>1
    <2>4. p.createdAt > q.createdAt
      BY <1>8, <2>1, <2>2, <2>3
    <2>5. p.id # q.id
      BY <1>8, <2>1, <2>2, <2>4 DEF Shown
    <2> QED
      BY <2>4, <2>5
  <1>14. PagesDescend'
    <2>1. \A p \in Pages' : p.org = walk.org
      BY <1>3, <1>6, <1>11 DEF Inv, WalkInv, Shown
    <2> QED
      BY <1>5, <1>11, <1>13, <2>1 DEF PagesDescend, Pages
  <1>15. WalkInv'
    <2>1. ASSUME NEW p \in Pages' PROVE Shown(p)'
      <3>1. CASE p \in Pages
        BY <1>2, <1>5, <3>1 DEF Inv, WalkInv, Shown
      <3>2. CASE p \in page.items
        BY <1>2, <1>3, <1>5, <1>6, <3>2 DEF Inv, SlugsUnique, FreshIds, Shown
      <3> QED
        BY <1>11, <3>1, <3>2
    <2>2. ASSUME ~last, NEW p \in Pages' PROVE page.nextCursor <= p.createdAt
      <3>1. PICK q \in page.items :
                       /\ page.nextCursor = toDate(q.createdAt)
                       /\ \A r \in page.items : q.createdAt <= r.createdAt
        BY <1>3, <2>2
      <3>2. q.createdAt \in Nat /\ toDate(q.createdAt) <= q.createdAt /\ toDate(q.createdAt) \in Nat
        BY <1>3, <1>6, ToDate
      <3>3. p.createdAt \in Nat /\ q.createdAt <= p.createdAt
        BY <1>3, <1>6, <1>8, <1>11, <1>13, <3>1, <3>2
      <3> QED
        BY <3>1, <3>2, <3>3
    <2>3. walk'.pc = "walking" => page.nextCursor # NoCursor
      BY <1>5 DEF last
    <2> QED
      BY <1>5, <2>1, <2>2, <2>3 DEF WalkInv, last
  <1>16. SteadyInv'
    <2> SUFFICES ASSUME NEW p \in project, p.id \in walk.steady
                 PROVE  /\ p.org = walk.org /\ (walk.includeArchived \/ ~p.archived)
                        /\ ~last /\ page.nextCursor <= p.createdAt => Seen(p)'
                        /\ last => Seen(p)'
      BY <1>2, <1>5 DEF SteadyInv, last
    <2>1. p.org = walk.org /\ (walk.includeArchived \/ ~p.archived) /\ p.createdAt \in Nat
      BY <1>4 DEF Inv, SteadyInv, Rows
    <2>2. Seen(p) => Seen(p)'
      BY <1>5, <1>11 DEF Seen, toDate
    <2>3. CASE walk.cursor # NoCursor /\ walk.cursor <= p.createdAt
      BY <2>1, <2>2, <2>3 DEF Inv, SteadyInv
    <2>4. CASE ~(walk.cursor # NoCursor /\ walk.cursor <= p.createdAt)
      <3>1. p \in rows
        BY <1>4, <1>7, <2>1, <2>4
      <3>2. CASE p \in page.items
        BY <1>11, <2>1, <3>2 DEF Seen
      <3>3. CASE p \notin page.items
        <4>1. ~last
          BY <1>3, <3>1, <3>3
        <4>2. PICK q \in page.items :
                       /\ page.nextCursor = toDate(q.createdAt) /\ end = toDate(q.createdAt)
                       /\ \A r \in rows \ page.items : r.createdAt <= q.createdAt
          BY <1>3, <4>1
        <4>3. q.createdAt \in Nat /\ p.createdAt <= q.createdAt
          BY <1>3, <1>6, <3>1, <3>3, <4>2
        <4>4. ASSUME page.nextCursor <= p.createdAt PROVE toDate(p.createdAt) \in walk'.ends
          BY <1>5, <2>1, <4>1, <4>2, <4>3, <4>4, SameDate
        <4> QED
          BY <2>1, <4>1, <4>4 DEF Seen, toDate
      <3> QED
        BY <3>2, <3>3
    <2> QED
      BY <2>3, <2>4
  <1> QED
    BY <1>10, <1>12, <1>14, <1>15, <1>16 DEF Inv

LEMMA NextInv == Inv /\ [Next]_vars => Inv'
  <1> SUFFICES ASSUME Inv, [Next]_vars PROVE Inv'
    OBVIOUS
  <1>1. CASE UNCHANGED vars
    <2>1. TypeOK' /\ now' \in Nat
      BY <1>1 DEF vars, Inv, TypeOK
    <2> QED
      BY <1>1, <2>1, TaskKeeps DEF vars
  <1>2. CASE Tick
    <2>1. TypeOK' /\ now' \in Nat
      BY <1>2, TimeAssumption DEF Tick, Inv, TypeOK
    <2> QED
      BY <1>2, <2>1, TaskKeeps DEF Tick
  <1>3. CASE \E t \in Tasks : Call(t) \/ CreateRead(t) \/ CreateInsert(t)
    <2>1. PICK t \in Tasks : Call(t) \/ CreateRead(t) \/ CreateInsert(t)
      BY <1>3
    <2>2. CASE Call(t)
      <3>1. TypeOK'
        BY <2>2, BoundAssumption DEF Call, Inv, TypeOK
      <3> QED
        BY <2>2, <3>1, TaskKeeps DEF Call, TypeOK
    <2>3. CASE CreateRead(t)
      <3>1. TypeOK'
        BY <2>3 DEF CreateRead, Done, Inv, TypeOK, Idle
      <3> QED
        BY <2>3, <3>1, TaskKeeps DEF CreateRead, TypeOK
    <2>4. CASE CreateInsert(t)
      <3>1. TypeOK'
        BY <2>4 DEF CreateInsert, Inv, TypeOK, Idle
      <3> QED
        BY <2>4, <3>1, TaskKeeps DEF CreateInsert, TypeOK
    <2> QED
      BY <2>1, <2>2, <2>3, <2>4
  <1> QED
    BY <1>1, <1>2, <1>3, PageKeeps, CommitKeeps, UpdateKeeps, DeleteKeeps DEF Next

LEMMA Invariance == Spec => []Inv
  BY InitInv, NextInv, PTL DEF Spec

-----------------------------------------------------------------------------
(* The theorems *)

\* Rows, handlers and walks keep their types.
THEOREM TypeCorrect == Spec => []TypeOK
  <1>1. Inv => TypeOK
    BY DEF Inv
  <1> QED
    BY <1>1, Invariance, PTL

\* The unique index keeps a slug single within its tenant, although creations
\* look it up and insert it at different times (project.handlers.ts,
\* project.create).
THEOREM UniqueSlugs == Spec => []SlugsUnique
  <1>1. Inv => SlugsUnique
    BY DEF Inv
  <1> QED
    BY <1>1, Invariance, PTL

\* Pages descend and never repeat a row, whatever is written between them
\* (project.service.ts, list).
THEOREM DescendingPages == Spec => []PagesDescend
  <1>1. Inv => PagesDescend
    BY DEF Inv
  <1> QED
    BY <1>1, Invariance, PTL

\* A walk to the last page shows every row that stayed, but for ties in the
\* millisecond a page ended in (project.service.ts, list).
THEOREM OnlyTies == Spec => []OnlyTiesAreSkipped
  <1>1. Inv => OnlyTiesAreSkipped
    BY DEF Inv, SteadyInv, Seen, Pages, OnlyTiesAreSkipped
  <1> QED
    BY <1>1, Invariance, PTL

\* No handler changes another tenant's rows or refuses a slug because of them
\* (project.service.ts, every WHERE clause).
THEOREM TenantsApart == Spec => TenantIsolation
  <1>1. Inv /\ [Next]_vars =>
          [\A t \in Tasks :
             /\ task[t] # Idle /\ task'[t] # task[t] =>
                  \A p \in (project \ project') \cup (project' \ project) : p.org = task[t].org
             /\ task[t].pc \in {"read", "commit"} /\ task'[t] = Idle /\ project' = project =>
                  \E p \in project : p.org = task[t].org /\ p.slug = task[t].slug]_vars
    <2> SUFFICES ASSUME Inv, Next, NEW t \in Tasks, task[t] # Idle, task'[t] # task[t]
                 PROVE  /\ \A p \in (project \ project') \cup (project' \ project) : p.org = task[t].org
                        /\ task[t].pc \in {"read", "commit"} /\ task'[t] = Idle /\ project' = project =>
                             \E p \in project : p.org = task[t].org /\ p.slug = task[t].slug
      BY DEF Idle
    <2>1. PICK u \in Tasks : CreateRead(u) \/ CreateInsert(u) \/ CreateCommit(u) \/ Update(u) \/ Delete(u)
                             \/ Call(u)
      BY DEF Next, Tick, ReadPage
    <2>2. u = t
      BY <2>1 DEF CreateRead, CreateInsert, CreateCommit, Update, Delete, Call, Done, Inv, TypeOK
    <2>3. CASE CreateRead(t)
      <3>1. CASE bySlug(task[t].org, task[t].slug) # {}
        BY <2>3, <3>1 DEF CreateRead, bySlug
      <3>2. CASE bySlug(task[t].org, task[t].slug) = {}
        <4>1. task' = [task EXCEPT ![t].pc = "insert"] /\ project' = project /\ task[t].pc = "read"
          BY <2>3, <3>2 DEF CreateRead
        <4>2. task'[t].pc = "insert"
          BY <4>1 DEF Inv, TypeOK
        <4> QED
          BY <4>1, <4>2 DEF Idle
      <3> QED
        BY <3>1, <3>2
    <2>4. CASE CreateInsert(t)
      BY <2>4 DEF CreateInsert
    <2>5. CASE CreateCommit(t)
      <3>1. CASE indexAllows(task[t].org, task[t].slug)
        <4> DEFINE new == [id |-> nextId, org |-> task[t].org, slug |-> task[t].slug,
                           createdAt |-> task[t].createdAt, archived |-> FALSE]
        <4>1. project' = project \cup {new}
          BY <2>5, <3>1 DEF CreateCommit
        <4>2. new \notin project
          BY DEF Inv, FreshIds, TypeOK
        <4> QED
          BY <4>1, <4>2
      <3>2. CASE ~indexAllows(task[t].org, task[t].slug)
        BY <2>5, <3>2 DEF CreateCommit, indexAllows
      <3> QED
        BY <3>1, <3>2
    <2>6. CASE Update(t)
      <3>1. \A p \in rowsOf(task[t].org, task[t].id) : p \in Rows /\ p.org = task[t].org
        BY DEF rowsOf, Inv, TypeOK
      <3>2. \A p \in rowsOf(task[t].org, task[t].id) :
               [p EXCEPT !.archived = task[t].archived].org = task[t].org
        BY <3>1 DEF Rows
      <3> QED
        BY <2>6, <3>1, <3>2 DEF Update
    <2>7. CASE Delete(t)
      BY <2>7 DEF Delete, rowsOf
    <2> QED
      BY <2>1, <2>2, <2>3, <2>4, <2>5, <2>6, <2>7 DEF Call
  <1> QED
    BY <1>1, Invariance, PTL DEF Spec, TenantIsolation
=============================================================================

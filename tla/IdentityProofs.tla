---------------------------- MODULE IdentityProofs ----------------------------
(***************************************************************************)
(* The identity service keeps its tables consistent and its tenants apart, *)
(* for any number of handlers at once, any tenants and people, and any     *)
(* tables that obey the keys to start from.                                *)
(***************************************************************************)
EXTENDS Identity, SequenceTheorems, FiniteSetTheorems, TLAPS

-----------------------------------------------------------------------------
(* The inductive invariant *)

Granted == {"member", "owner"}

\* What one role of a member's column may be.
Claims == STRING \cup Granted \cup {HIGHEST_ROLE}

Columns == Seq(Claims)

ColumnRoles == {normalizeRole(claims) : claims \in Columns}

EverySlug == Slugs \cup UNION {{o.slug : o \in O} : O \in InitialOrganizations}

OrganizationRows == [id : Nat, slug : EverySlug]
MemberRows       == [id : Nat, org : Nat, user : Users, role : Columns]
InvitationRows   == [id : Nat, org : Nat, email : Emails, role : Granted]

Bodies == [slug : Slugs] \cup [email : Emails, role : Granted] \cup [member : Nat, role : Granted]
          \cup [member : Nat] \cup [invitation : Nat] \cup {[none |-> TRUE]}

Signatures == [pc : {"read", "count", "write"}, kind : Mutations, org : Nat, user : Users,
               role : ColumnRoles, input : Bodies, command : Nat]

Commands == [call : Signatures, deliveries : Nat, acked : BOOLEAN]

\* A body is of its operation's kind.
WellFormed(c) ==
    /\ c.kind \in {<<"organization", "create">>, <<"organization", "update">>} =>
         c.input \in [slug : Slugs]
    /\ c.kind = <<"member", "create">> => c.input \in [email : Emails, role : Granted]
    /\ c.kind = <<"member", "update">> => c.input \in [member : Nat, role : Granted]

\* Whoever is about to leave holds a row of their own, if it is still there.
Leaves(rows, next, c) ==
    c.kind = <<"membership", "delete">> /\ c.pc \in {"count", "write"} =>
        /\ c.input.member \in Nat /\ c.input.member < next
        /\ \A m \in rows : m.id = c.input.member => m.user = c.user

TableInv ==
    /\ organization \subseteq OrganizationRows /\ member \subseteq MemberRows
    /\ invitation \subseteq InvitationRows /\ nextId \in Nat
    /\ SlugsUnique /\ MembersBelong
    /\ \A o, p \in organization : o.id = p.id => o = p
    /\ \A m, n \in member : m.id = n.id => m = n
    /\ \A o \in organization : o.id < nextId
    /\ \A m \in member : m.id < nextId

TaskInv ==
    /\ task \in [Tasks -> Signatures \cup {Idle}]
    /\ \A t \in Tasks : task[t] # Idle =>
         /\ WellFormed(task[t])
         /\ Leaves(member, nextId, task[t])
         /\ task[t].kind = <<"member", "create">> => task[t].command \in DOMAIN command

CommandInv ==
    /\ command \in Seq(Commands)
    /\ \A r \in DOMAIN command : command[r].call.pc = "read" /\ WellFormed(command[r].call)

Inv == TableInv /\ TaskInv /\ CommandInv

-----------------------------------------------------------------------------
(* Values *)

LEMMA Columns1 == Seq(STRING) \subseteq Columns
  BY SeqDef DEF Columns, Claims

LEMMA Singleton == ASSUME NEW S, NEW r \in S PROVE <<r>> \in Seq(S)
  OBVIOUS

LEMMA OneRole == ASSUME NEW r \in Granted \cup {HIGHEST_ROLE} PROVE <<r>> \in Columns
  <1>1. r \in Claims
    BY DEF Claims
  <1> QED
    BY <1>1, Singleton DEF Columns

LEMMA KindsDiffer ==
    /\ <<"member", "update">> # <<"organization", "create">>
    /\ <<"member", "update">> # <<"organization", "update">>
    /\ <<"member", "update">> # <<"member", "create">>
    /\ <<"member", "create">> # <<"organization", "create">>
    /\ <<"member", "create">> # <<"organization", "update">>
    /\ <<"organization", "update">> # <<"organization", "create">>
  OBVIOUS

\* A body the contracts let through is of its operation's kind.
LEMMA InputKinds ==
    ASSUME NEW kind \in Mutations, NEW input \in Inputs(kind)
    PROVE  /\ \/ input \in [slug : Slugs]
              \/ input \in [email : Emails, role : Granted]
              \/ input \in [member : {m.id : m \in member}, role : Granted]
              \/ input \in [member : {m.id : m \in member}]
              \/ input \in [invitation : {i.id : i \in invitation}]
              \/ input \in {[none |-> TRUE]}
           /\ kind \in {<<"organization", "create">>, <<"organization", "update">>} =>
                input \in [slug : Slugs]
           /\ kind = <<"member", "create">> => input \in [email : Emails, role : Granted]
           /\ kind = <<"member", "update">> =>
                input \in [member : {m.id : m \in member}, role : Granted]
  <1>1. \/ input \in [slug : Slugs]
        \/ input \in [email : Emails, role : Granted]
        \/ input \in [member : {m.id : m \in member}, role : Granted]
        \/ input \in [member : {m.id : m \in member}]
        \/ input \in [invitation : {i.id : i \in invitation}]
        \/ input \in {[none |-> TRUE]}
    BY Zenon DEF Inputs, Granted
  <1>2. ASSUME kind = <<"organization", "create">> PROVE input \in [slug : Slugs]
    <2>1. input \in Inputs(<<"organization", "create">>)
      BY <1>2
    <2> QED
      BY <2>1, KindsDiffer, Zenon DEF Inputs
  <1>3. ASSUME kind = <<"organization", "update">> PROVE input \in [slug : Slugs]
    <2>1. input \in Inputs(<<"organization", "update">>)
      BY <1>3
    <2> QED
      BY <2>1, KindsDiffer, Zenon DEF Inputs
  <1>4. ASSUME kind = <<"member", "create">> PROVE input \in [email : Emails, role : Granted]
    <2>1. input \in Inputs(<<"member", "create">>)
      BY <1>4
    <2> QED
      BY <2>1, KindsDiffer, Zenon DEF Inputs, Granted
  <1>5. ASSUME kind = <<"member", "update">>
        PROVE  input \in [member : {m.id : m \in member}, role : Granted]
    <2>1. input \in Inputs(<<"member", "update">>)
      BY <1>5
    <2> QED
      BY <2>1, KindsDiffer, Zenon DEF Inputs, Granted
  <1> QED
    BY <1>1, <1>2, <1>3, <1>4, <1>5

\* What the gateway signs is well formed and about to be read.
LEMMA SignedCalls ==
    ASSUME Inv, NEW kinds \in SUBSET Kinds, NEW c \in LetThrough(kinds)
    PROVE  /\ c \in Signatures /\ c # Idle /\ c.pc = "read" /\ c.kind \in kinds /\ WellFormed(c)
           /\ c.org < nextId
  <1>0. PICK kind \in kinds, m \in member : \E input \in Inputs(kind) : c = Signed(kind, m, input)
    BY DEF LetThrough
  <1>1. PICK input \in Inputs(kind) : c = Signed(kind, m, input)
    BY <1>0
  <1>2. kind \in Mutations /\ m \in MemberRows /\ \A n \in member : n.id \in Nat
    BY KindsAssumption DEF Inv, TableInv, MemberRows
  <1>3. \A i \in invitation : i.id \in Nat
    BY DEF Inv, TableInv, InvitationRows
  <1>4. input \in Bodies
    BY <1>2, <1>3, InputKinds DEF Bodies
  <1>5. normalizeRole(m.role) \in ColumnRoles /\ m.org \in Nat /\ m.user \in Users
    BY <1>2 DEF MemberRows, ColumnRoles
  <1>6. /\ c.pc = "read" /\ c.kind = kind /\ c.input = input /\ c.org = m.org
        /\ c \in Signatures
    BY <1>1, <1>2, <1>4, <1>5 DEF Signed, Signatures
  <1>7. WellFormed(c)
    BY <1>2, <1>6, InputKinds DEF WellFormed
  <1>8. m.org < nextId
    BY DEF Inv, TableInv, MembersBelong, Exists
  <1> QED
    BY <1>6, <1>7, <1>8 DEF Idle

LEMMA InitInv == Init => Inv
  <1> SUFFICES ASSUME Init PROVE Inv
    OBVIOUS
  <1>0. organization \in InitialOrganizations /\ member \in InitialMembers /\ invitation = {}
        /\ nextId = FirstId /\ task = [t \in Tasks |-> Idle] /\ command = <<>>
    BY DEF Init
  <1>1. /\ organization \subseteq [id : 1..(FirstId - 1), slug : {o.slug : o \in organization}]
        /\ member \subseteq [id : 1..(FirstId - 1), org : {o.id : o \in organization}, user : Users,
                             role : Seq(STRING)]
        /\ \A o, p \in organization : o.slug = p.slug \/ o.id = p.id => o = p
        /\ \A m, n \in member : m.id = n.id => m = n
    BY <1>0, TableAssumption
  <1>2. {o.slug : o \in organization} \subseteq EverySlug
    BY <1>0 DEF EverySlug
  <1>3. organization \subseteq OrganizationRows /\ \A o \in organization : o.id \in Nat /\ o.id < nextId
    BY <1>0, <1>1, <1>2, IdAssumption DEF OrganizationRows
  <1>4. \A m \in member : /\ m.id \in Nat /\ m.id < nextId /\ m.org \in Nat
                          /\ \E o \in organization : o.id = m.org
    BY <1>0, <1>1, <1>3, IdAssumption
  <1>5. member \subseteq MemberRows
    BY <1>1, <1>4, Columns1 DEF MemberRows
  <1>6. TableInv
    BY <1>0, <1>1, <1>3, <1>4, <1>5, IdAssumption
       DEF TableInv, SlugsUnique, MembersBelong, Exists
  <1>7. TaskInv
    BY <1>0 DEF TaskInv
  <1>8. CommandInv
    BY <1>0 DEF CommandInv
  <1> QED
    BY <1>6, <1>7, <1>8 DEF Inv

-----------------------------------------------------------------------------
(* The tasks *)

\* Member rows keep their id and person, new ones have new ids; commands stay.
Grows ==
    /\ nextId' \in Nat /\ nextId <= nextId'
    /\ \A m \in member' : (\E n \in member : n.id = m.id /\ n.user = m.user) \/ m.id >= nextId
    /\ DOMAIN command \subseteq DOMAIN command'

LEMMA Fields ==
    ASSUME Inv, NEW t \in Tasks, task[t] # Idle
    PROVE  /\ task[t] \in Signatures
           /\ task[t].org \in Nat /\ task[t].user \in Users
           /\ task[t].pc \in {"read", "count", "write"}
           /\ WellFormed(task[t]) /\ Leaves(member, nextId, task[t])
           /\ task[t].kind = <<"membership", "delete">> => task[t].kind # <<"member", "create">>
  BY DEF Inv, TaskInv, Signatures

\* A task of whom only the tables moved.
LEMMA TaskStays ==
    ASSUME Inv, Grows, NEW t \in Tasks, task[t] # Idle
    PROVE  /\ WellFormed(task[t])
           /\ Leaves(member', nextId', task[t])
           /\ task[t].kind = <<"member", "create">> => task[t].command \in DOMAIN command'
  <1>1. WellFormed(task[t])
    BY DEF Inv, TaskInv
  <1>2. task[t].kind = <<"member", "create">> => task[t].command \in DOMAIN command'
    BY DEF Inv, TaskInv, Grows
  <1>3. Leaves(member', nextId', task[t])
    <2> SUFFICES ASSUME task[t].kind = <<"membership", "delete">>, task[t].pc \in {"count", "write"}
                 PROVE  /\ task[t].input.member \in Nat /\ task[t].input.member < nextId'
                        /\ \A m \in member' : m.id = task[t].input.member => m.user = task[t].user
      BY DEF Leaves
    <2> DEFINE id == task[t].input.member
    <2>1. id \in Nat /\ id < nextId /\ \A m \in member : m.id = id => m.user = task[t].user
      BY DEF Inv, TaskInv, Leaves
    <2>2. nextId \in Nat /\ nextId' \in Nat /\ nextId <= nextId'
      BY DEF Inv, TableInv, Grows
    <2> HIDE DEF id
    <2>3. \A m \in member' : m.id = id => m.user = task[t].user
      <3> SUFFICES ASSUME NEW m \in member', m.id = id PROVE m.user = task[t].user
        OBVIOUS
      <3>1. CASE \E n \in member : n.id = m.id /\ n.user = m.user
        BY <2>1, <3>1
      <3>2. CASE m.id >= nextId
        BY <2>1, <2>2, <3>2
      <3> QED
        BY <3>1, <3>2 DEF Grows
    <2> QED
      BY <2>1, <2>2, <2>3 DEF id
  <1> QED
    BY <1>1, <1>2, <1>3

LEMMA TasksRest ==
    ASSUME Inv, Grows, UNCHANGED task
    PROVE  TaskInv'
  <1>1. \A t \in Tasks : task[t] # Idle =>
           /\ WellFormed(task[t])
           /\ Leaves(member', nextId', task[t])
           /\ task[t].kind = <<"member", "create">> => task[t].command \in DOMAIN command'
    BY TaskStays
  <1> QED
    BY <1>1 DEF Inv, TaskInv, WellFormed, Leaves

LEMMA TaskMoves ==
    ASSUME Inv, Grows, NEW t \in Tasks, NEW c \in Signatures \cup {Idle},
           task' = [task EXCEPT ![t] = c],
           c # Idle => /\ WellFormed(c) /\ Leaves(member', nextId', c)
                       /\ c.kind = <<"member", "create">> => c.command \in DOMAIN command'
    PROVE  TaskInv'
  <1>1. /\ task' \in [Tasks -> Signatures \cup {Idle}]
        /\ task'[t] = c /\ \A u \in Tasks : u # t => task'[u] = task[u]
    BY DEF Inv, TaskInv
  <1>2. ASSUME NEW u \in Tasks, task'[u] # Idle
        PROVE  /\ WellFormed(task'[u])
               /\ Leaves(member', nextId', task'[u])
               /\ task'[u].kind = <<"member", "create">> => task'[u].command \in DOMAIN command'
    <2>1. CASE u = t
      BY <1>1, <1>2, <2>1
    <2>2. CASE u # t
      BY <1>1, <1>2, <2>2, TaskStays
    <2> QED
      BY <2>1, <2>2
  <1> QED
    BY <1>1, <1>2 DEF TaskInv, WellFormed, Leaves

\* The handler returns, or goes on with the task it has.
LEMMA DoneMoves ==
    ASSUME Inv, Grows, NEW t \in Tasks, Done(t)
    PROVE  TaskInv'
  BY TaskMoves DEF Done

LEMMA GotoMoves ==
    ASSUME Inv, Grows, NEW t \in Tasks, NEW pc \in {"count", "write"}, Goto(t, pc), task[t] # Idle,
           task[t].pc # "read" \/ task[t].kind # <<"membership", "delete">>
    PROVE  TaskInv'
  <1> DEFINE c == [task[t] EXCEPT !.pc = pc]
  <1>1. task[t] \in Signatures /\ task[t].pc \in {"read", "count", "write"}
    BY Fields
  <1>2. /\ c \in Signatures /\ c.kind = task[t].kind /\ c.input = task[t].input
        /\ c.user = task[t].user /\ c.command = task[t].command /\ c.pc = pc
    BY <1>1 DEF Signatures
  <1>3. task' = [task EXCEPT ![t] = c]
    BY DEF Goto
  <1>4. /\ WellFormed(task[t]) /\ Leaves(member', nextId', task[t])
        /\ task[t].kind = <<"member", "create">> => task[t].command \in DOMAIN command'
    BY TaskStays
  <1> HIDE DEF c
  <1>5. WellFormed(c)
    BY <1>2, <1>4 DEF WellFormed
  <1>6. Leaves(member', nextId', c)
    BY <1>1, <1>2, <1>4 DEF Leaves
  <1> QED
    BY <1>2, <1>3, <1>4, <1>5, <1>6, TaskMoves

LEMMA SameTables ==
    ASSUME Inv, UNCHANGED tables
    PROVE  /\ TableInv'
           /\ DOMAIN command \subseteq DOMAIN command' => Grows
  BY DEF Inv, TableInv, Grows, tables, SlugsUnique, MembersBelong, Exists

-----------------------------------------------------------------------------
(* The commands *)

LEMMA PublishKeeps == ASSUME Inv, PublishCommand PROVE Inv'
  <1>1. PICK c \in LetThrough({k \in Kinds : IsCommand(k)}) :
           command' = Append(command, [call |-> c, deliveries |-> 0, acked |-> FALSE])
    BY DEF PublishCommand
  <1> DEFINE new == [call |-> c, deliveries |-> 0, acked |-> FALSE]
  <1>2. UNCHANGED <<tables, task>> /\ command \in Seq(Commands)
    BY DEF PublishCommand, Inv, CommandInv
  <1>3. c \in Signatures /\ c.pc = "read" /\ WellFormed(c)
    BY SignedCalls
  <1>4. new \in Commands /\ new.call = c
    BY <1>3 DEF Commands
  <1> HIDE DEF new
  <1>5. /\ command' \in Seq(Commands) /\ Len(command') = Len(command) + 1
        /\ \A i \in 1..Len(command) : command'[i] = command[i]
        /\ command'[Len(command) + 1] = new
    BY <1>1, <1>2, <1>4, AppendProperties DEF new
  <1>6. Len(command) \in Nat /\ DOMAIN command = 1..Len(command) /\ DOMAIN command' = 1..Len(command')
    BY <1>2, <1>5, LenProperties
  <1>7. CommandInv'
    <2> SUFFICES ASSUME NEW r \in DOMAIN command'
                 PROVE  command'[r].call.pc = "read" /\ WellFormed(command'[r].call)
      BY <1>5 DEF CommandInv, WellFormed
    <2>1. CASE r \in 1..Len(command)
      BY <1>5, <1>6, <2>1 DEF Inv, CommandInv
    <2>2. CASE r = Len(command) + 1
      BY <1>3, <1>4, <1>5, <2>2
    <2> QED
      BY <1>5, <1>6, <2>1, <2>2
  <1>8. Grows /\ TableInv'
    BY <1>2, <1>5, <1>6, SameTables
  <1> QED
    BY <1>2, <1>7, <1>8, TasksRest DEF Inv

\* A delivery, or an acknowledgement, leaves the calls of the commands alone.
LEMMA CommandUpdate ==
    ASSUME Inv, NEW r \in DOMAIN command, NEW new \in Commands, new.call = command[r].call,
           command' = [command EXCEPT ![r] = new]
    PROVE  /\ CommandInv' /\ DOMAIN command' = DOMAIN command
           /\ \A i \in DOMAIN command : command'[i].call = command[i].call
  <1>1. command \in Seq(Commands) /\ r \in 1..Len(command) /\ DOMAIN command = 1..Len(command)
    BY LenProperties DEF Inv, CommandInv
  <1>2. /\ command' \in Seq(Commands) /\ Len(command') = Len(command)
        /\ \A i \in 1..Len(command) : command'[i] = IF i = r THEN new ELSE command[i]
    BY <1>1, ExceptSeq
  <1>3. DOMAIN command' = DOMAIN command
    BY <1>1, <1>2, LenProperties
  <1>4. \A i \in DOMAIN command : command'[i].call = command[i].call
    BY <1>1, <1>2
  <1>5. \A i \in DOMAIN command' : command'[i].call.pc = "read" /\ WellFormed(command'[i].call)
    BY <1>3, <1>4 DEF Inv, CommandInv
  <1> QED
    BY <1>2, <1>3, <1>4, <1>5 DEF CommandInv, WellFormed

LEMMA DeliverKeeps == ASSUME Inv, NEW t \in Tasks, DeliverCommand(t) PROVE Inv'
  <1>1. PICK r \in DOMAIN command :
          /\ command' = [command EXCEPT ![r].deliveries = @ + 1]
          /\ task' = [task EXCEPT ![t] = [command[r].call EXCEPT !.command = r]]
    BY DEF DeliverCommand
  <1> DEFINE new == [command[r] EXCEPT !.deliveries = @ + 1]
             c == [command[r].call EXCEPT !.command = r]
  <1>2. command \in Seq(Commands) /\ r \in 1..Len(command) /\ r \in Nat /\ command[r] \in Commands
    BY LenProperties, ElementOfSeq DEF Inv, CommandInv
  <1>3. new \in Commands /\ new.call = command[r].call
    BY <1>2 DEF Commands
  <1>4. command' = [command EXCEPT ![r] = new]
    BY <1>1
  <1>5. command[r].call \in Signatures /\ command[r].call.pc = "read" /\ WellFormed(command[r].call)
    BY <1>2 DEF Inv, CommandInv, Commands
  <1>6. /\ c \in Signatures /\ c.pc = "read" /\ c.kind = command[r].call.kind
        /\ c.input = command[r].call.input /\ c.command = r
    BY <1>2, <1>5 DEF Signatures
  <1>7. task' = [task EXCEPT ![t] = c] /\ UNCHANGED tables
    BY <1>1 DEF DeliverCommand
  <1> HIDE DEF new, c
  <1>8. WellFormed(c) /\ Leaves(member', nextId', c)
    BY <1>5, <1>6 DEF WellFormed, Leaves
  <1>9. CommandInv' /\ DOMAIN command' = DOMAIN command
    BY <1>3, <1>4, CommandUpdate
  <1>10. TableInv' /\ Grows
    BY <1>7, <1>9, SameTables
  <1>11. TaskInv'
    BY <1>6, <1>7, <1>8, <1>9, <1>10, TaskMoves
  <1> QED
    BY <1>9, <1>10, <1>11 DEF Inv

\* An acknowledgement that arrived, or none.
LEMMA Acknowledged ==
    ASSUME Inv, NEW t \in Tasks, At(t, <<"member", "create">>, task[t].pc), NEW acked \in BOOLEAN,
           command' = [command EXCEPT ![task[t].command].acked = acked]
    PROVE  /\ CommandInv' /\ DOMAIN command' = DOMAIN command
           /\ \A i \in DOMAIN command : command'[i].call = command[i].call
  <1> DEFINE r == task[t].command
             new == [command[r] EXCEPT !.acked = acked]
  <1>1. r \in DOMAIN command
    BY DEF At, Inv, TaskInv
  <1>2. command[r] \in Commands
    BY <1>1, LenProperties, ElementOfSeq DEF Inv, CommandInv
  <1>3. new \in Commands /\ new.call = command[r].call
    BY <1>2 DEF Commands
  <1>4. command' = [command EXCEPT ![r] = new]
    OBVIOUS
  <1> HIDE DEF new, r
  <1> QED
    BY <1>1, <1>3, <1>4, CommandUpdate

LEMMA CommandsRest ==
    ASSUME Inv, UNCHANGED command
    PROVE  CommandInv' /\ DOMAIN command \subseteq DOMAIN command'
  BY DEF Inv, CommandInv

-----------------------------------------------------------------------------
(* The handlers that read *)

LEMMA CallKeeps == ASSUME Inv, NEW t \in Tasks, CallRpc(t) PROVE Inv'
  <1>1. PICK c \in LetThrough({k \in Kinds : ~IsCommand(k)}) : task' = [task EXCEPT ![t] = c]
    BY DEF CallRpc
  <1>2. c \in Signatures /\ c.pc = "read" /\ ~IsCommand(c.kind) /\ WellFormed(c)
    BY SignedCalls
  <1>3. c.kind # <<"member", "create">>
    <2>1. IsCommand(<<"member", "create">>)
      BY DEF IsCommand, ruleFor, RESOURCES, MemberResource, Op
    <2> QED
      BY <1>2, <2>1
  <1>4. Leaves(member', nextId', c)
    BY <1>2 DEF Leaves
  <1>5. CommandInv' /\ TableInv' /\ Grows
    BY SameTables, CommandsRest DEF CallRpc
  <1>6. TaskInv'
    BY <1>1, <1>2, <1>3, <1>4, <1>5, TaskMoves
  <1> QED
    BY <1>5, <1>6 DEF Inv

LEMMA CreateReadKeeps == ASSUME Inv, NEW t \in Tasks, MemberCreateRead(t) PROVE Inv'
  <1>1. At(t, <<"member", "create">>, task[t].pc) /\ UNCHANGED tables
    BY DEF MemberCreateRead, At
  <1>2. CASE Done(t) /\ command' = [command EXCEPT ![task[t].command].acked = TRUE]
    <2>1. CommandInv' /\ DOMAIN command' = DOMAIN command
      BY <1>1, <1>2, Acknowledged
    <2>2. TableInv' /\ Grows
      BY <1>1, <2>1, SameTables
    <2> QED
      BY <1>2, <2>1, <2>2, DoneMoves DEF Inv
  <1>3. CASE Done(t) /\ UNCHANGED command
    BY <1>1, <1>3, CommandsRest, SameTables, DoneMoves DEF Inv
  <1>4. CASE Goto(t, "write") /\ UNCHANGED command
    <2>1. CommandInv' /\ TableInv' /\ Grows
      BY <1>1, <1>4, CommandsRest, SameTables
    <2>2. task[t] # Idle /\ task[t].kind # <<"membership", "delete">>
      BY <1>1 DEF At
    <2> QED
      BY <1>4, <2>1, <2>2, GotoMoves DEF Inv
  <1> QED
    BY <1>2, <1>3, <1>4 DEF MemberCreateRead

LEMMA UpdateReadKeeps == ASSUME Inv, NEW t \in Tasks, MemberUpdateRead(t) PROVE Inv'
  <1>1. CommandInv' /\ TableInv' /\ Grows
    BY SameTables, CommandsRest DEF MemberUpdateRead
  <1>2. task[t] # Idle /\ task[t].kind # <<"membership", "delete">>
    BY DEF MemberUpdateRead, At
  <1>3. Done(t) \/ Goto(t, "count") \/ Goto(t, "write")
    BY DEF MemberUpdateRead
  <1>4. TaskInv'
    BY <1>1, <1>2, <1>3, DoneMoves, GotoMoves
  <1> QED
    BY <1>1, <1>4 DEF Inv

\* The row the caller is to leave with is the caller's.
LEMMA LeaveReadKeeps == ASSUME Inv, NEW t \in Tasks, MembershipDeleteRead(t) PROVE Inv'
  <1>1. CommandInv' /\ TableInv' /\ Grows /\ member' = member /\ nextId' = nextId
    BY SameTables, CommandsRest DEF MembershipDeleteRead, tables
  <1>2. task[t] # Idle /\ task[t].kind = <<"membership", "delete">>
    BY DEF MembershipDeleteRead, At
  <1>3. CASE Done(t)
    BY <1>1, <1>3, DoneMoves DEF Inv
  <1>4. CASE \E m \in membershipOf(task[t].org, task[t].user) :
                task' = [task EXCEPT ![t].input = [member |-> m.id],
                                     ![t].pc = IF normalizeRole(m.role) = HIGHEST_ROLE
                                               THEN "count" ELSE "write"]
    <2>1. PICK m \in membershipOf(task[t].org, task[t].user) :
                task' = [task EXCEPT ![t].input = [member |-> m.id],
                                     ![t].pc = IF normalizeRole(m.role) = HIGHEST_ROLE
                                               THEN "count" ELSE "write"]
      BY <1>4
    <2> DEFINE pc == IF normalizeRole(m.role) = HIGHEST_ROLE THEN "count" ELSE "write"
               c == [task[t] EXCEPT !.input = [member |-> m.id], !.pc = pc]
    <2>2. task \in [Tasks -> Signatures \cup {Idle}] /\ task[t] \in Signatures
      BY <1>2, Fields DEF Inv, TaskInv
    <2>3. m \in member /\ m.user = task[t].user /\ m.id \in Nat /\ m.id < nextId
      BY DEF membershipOf, MembersOf, Inv, TableInv, MemberRows
    <2>4. pc \in {"count", "write"}
      OBVIOUS
    <2>5. task' = [task EXCEPT ![t] = c]
      BY <2>1, <2>2
    <2> HIDE DEF pc
    <2>6. /\ c \in Signatures /\ c.kind = task[t].kind /\ c.user = task[t].user
          /\ c.input = [member |-> m.id] /\ c.pc = pc
      <3>1. [member |-> m.id] \in Bodies
        BY <2>3 DEF Bodies
      <3> QED
        BY <2>2, <2>4, <3>1 DEF Signatures
    <2>7. c.input.member = m.id
      BY <2>6
    <2> HIDE DEF c
    <2>8. \A n \in member : n.id = m.id => n.user = c.user
      BY <2>3, <2>6 DEF Inv, TableInv
    <2>9. WellFormed(c) /\ Leaves(member', nextId', c) /\ c.kind # <<"member", "create">>
      BY <1>1, <1>2, <2>3, <2>6, <2>7, <2>8 DEF WellFormed, Leaves
    <2>10. TaskInv'
      BY <1>1, <2>5, <2>6, <2>9, TaskMoves
    <2> QED
      BY <1>1, <2>10 DEF Inv
  <1> QED
    BY <1>3, <1>4 DEF MembershipDeleteRead

LEMMA CountKeeps == ASSUME Inv, NEW t \in Tasks, AssertNotTheLastOwner(t) PROVE Inv'
  <1>1. CommandInv' /\ TableInv' /\ Grows
    BY SameTables, CommandsRest DEF AssertNotTheLastOwner
  <1>2. task[t] # Idle /\ task[t].pc # "read" /\ (Done(t) \/ Goto(t, "write"))
    BY DEF AssertNotTheLastOwner
  <1>3. TaskInv'
    BY <1>1, <1>2, DoneMoves, GotoMoves
  <1> QED
    BY <1>1, <1>3 DEF Inv

LEMMA SlugReadKeeps == ASSUME Inv, NEW t \in Tasks, SlugRead(t) PROVE Inv'
  <1>1. CommandInv' /\ TableInv' /\ Grows
    BY SameTables, CommandsRest DEF SlugRead
  <1>2. /\ task[t] # Idle /\ task[t].kind # <<"membership", "delete">>
        /\ Done(t) \/ Goto(t, "write")
    BY DEF SlugRead, At
  <1>3. TaskInv'
    BY <1>1, <1>2, DoneMoves, GotoMoves
  <1> QED
    BY <1>1, <1>3 DEF Inv

-----------------------------------------------------------------------------
(* The handlers that write *)

LEMMA CreateWriteKeeps == ASSUME Inv, NEW t \in Tasks, MemberCreateWrite(t) PROVE Inv'
  <1> DEFINE new == [id |-> nextId, org |-> task[t].org, email |-> task[t].input.email,
                     role |-> task[t].input.role]
  <1>1. /\ At(t, <<"member", "create">>, task[t].pc) /\ task[t] # Idle
        /\ invitation' = invitation \cup {new} /\ nextId' = nextId + 1
        /\ Done(t) /\ UNCHANGED <<organization, member>>
    BY DEF MemberCreateWrite, At
  <1>2. nextId \in Nat /\ task[t].org \in Nat /\ task[t].input \in [email : Emails, role : Granted]
    BY <1>1, Fields DEF Inv, TableInv, WellFormed, At
  <1>3. new \in InvitationRows
    BY <1>2 DEF InvitationRows
  <1> HIDE DEF new
  <1>4. PICK acked \in {TRUE, command[task[t].command].acked} :
           command' = [command EXCEPT ![task[t].command].acked = acked]
    BY DEF MemberCreateWrite
  <1>5. acked \in BOOLEAN
    <2>1. command[task[t].command] \in Commands
      BY <1>1, LenProperties, ElementOfSeq DEF Inv, CommandInv, TaskInv, At
    <2> QED
      BY <2>1 DEF Commands
  <1>6. CommandInv' /\ DOMAIN command' = DOMAIN command
    BY <1>1, <1>4, <1>5, Acknowledged
  <1>7. TableInv'
    BY <1>1, <1>2, <1>3 DEF Inv, TableInv, SlugsUnique, MembersBelong, Exists,
       OrganizationRows, MemberRows
  <1>8. Grows
    BY <1>1, <1>2, <1>6 DEF Grows
  <1> QED
    BY <1>1, <1>6, <1>7, <1>8, DoneMoves DEF Inv

\* A handler that takes member rows away, or changes their role only.
LEMMA MembersShrink ==
    ASSUME Inv, UNCHANGED <<organization, invitation, nextId, command>>, NEW t \in Tasks, Done(t),
           member' \subseteq MemberRows,
           \A m \in member' : \E n \in member : m.id = n.id /\ m.org = n.org /\ m.user = n.user,
           \A m, n \in member' : m.id = n.id => m = n
    PROVE  Inv'
  <1>1. CommandInv' /\ DOMAIN command \subseteq DOMAIN command'
    BY CommandsRest
  <1>2. TableInv'
    <2>1. \A m \in member' : m.id < nextId /\ \E o \in organization : o.id = m.org
      BY DEF Inv, TableInv, MembersBelong, Exists
    <2> QED
      BY <2>1 DEF Inv, TableInv, SlugsUnique, MembersBelong, Exists
  <1>3. Grows
    BY <1>1 DEF Grows, Inv, TableInv
  <1> QED
    BY <1>1, <1>2, <1>3, DoneMoves DEF Inv

LEMMA MembersGo ==
    ASSUME Inv, UNCHANGED <<organization, invitation, nextId, command>>, NEW t \in Tasks, Done(t),
           member' \subseteq member
    PROVE  Inv'
  <1>1. /\ member' \subseteq MemberRows
        /\ \A m \in member' : \E n \in member : m.id = n.id /\ m.org = n.org /\ m.user = n.user
        /\ \A m, n \in member' : m.id = n.id => m = n
    BY DEF Inv, TableInv
  <1> QED
    BY <1>1, MembersShrink

LEMMA UpdateWriteKeeps == ASSUME Inv, NEW t \in Tasks, MemberUpdateWrite(t) PROVE Inv'
  <1> DEFINE rows == memberIn(task[t].org, task[t].input.member)
             column == <<task[t].input.role>>
             changed == {[m EXCEPT !.role = column] : m \in rows}
  <1>1. /\ task[t] # Idle /\ task[t].kind = <<"member", "update">> /\ Done(t)
        /\ member' = (member \ rows) \cup changed
        /\ UNCHANGED <<organization, invitation, nextId, command>>
    BY DEF MemberUpdateWrite, At
  <1>2. column \in Columns
    <2>1. task[t].input.role \in Granted
      BY <1>1, Fields DEF WellFormed
    <2> QED
      BY <2>1, OneRole
  <1>3. rows \subseteq member /\ member \subseteq MemberRows
        /\ \A m, n \in member : m.id = n.id => m = n
    BY DEF memberIn, Inv, TableInv
  <1> HIDE DEF column, rows
  <1>4. ASSUME NEW m \in rows
        PROVE  LET n == [m EXCEPT !.role = column]
               IN  n \in MemberRows /\ n.id = m.id /\ n.org = m.org /\ n.user = m.user
    BY <1>2, <1>3 DEF MemberRows
  <1>5. ASSUME NEW m \in member'
        PROVE  m \in MemberRows
               /\ \E n \in member : /\ m.id = n.id /\ m.org = n.org /\ m.user = n.user
                                    /\ IF n \in rows THEN m = [n EXCEPT !.role = column] ELSE m = n
    <2>1. CASE m \in member \ rows
      BY <1>3, <2>1
    <2>2. CASE m \in changed
      BY <1>3, <1>4, <2>2
    <2> QED
      BY <1>1, <2>1, <2>2
  <1>6. ASSUME NEW m \in member', NEW n \in member', m.id = n.id PROVE m = n
    BY <1>3, <1>5, <1>6
  <1> HIDE DEF changed
  <1> QED
    BY <1>1, <1>5, <1>6, MembersShrink

LEMMA InvitationKeeps == ASSUME Inv, NEW t \in Tasks, InvitationDelete(t) PROVE Inv'
  <1>1. /\ invitation' \subseteq invitation /\ Done(t)
        /\ UNCHANGED <<organization, member, nextId, command>>
    BY DEF InvitationDelete
  <1>2. TableInv' /\ Grows /\ CommandInv'
    BY <1>1, CommandsRest DEF Inv, TableInv, SlugsUnique, MembersBelong, Exists, Grows
  <1> QED
    BY <1>1, <1>2, DoneMoves DEF Inv

LEMMA OrganizationCreateKeeps ==
    ASSUME Inv, NEW t \in Tasks, OrganizationCreateWrite(t) PROVE Inv'
  <1> DEFINE slug == task[t].input.slug
             org == [id |-> nextId, slug |-> slug]
             owner == [id |-> nextId + 1, org |-> nextId, user |-> task[t].user,
                       role |-> <<HIGHEST_ROLE>>]
  <1>1. /\ task[t] # Idle /\ task[t].kind = <<"organization", "create">> /\ Done(t)
        /\ UNCHANGED <<invitation, command>>
    BY DEF OrganizationCreateWrite, At
  <1>2. /\ nextId \in Nat /\ task[t].user \in Users /\ slug \in Slugs
    BY <1>1, Fields DEF Inv, TableInv, WellFormed
  <1>3. CASE UNCHANGED <<organization, member, nextId>>
    BY <1>1, <1>3, SameTables, CommandsRest, DoneMoves DEF Inv, tables
  <1>4. CASE /\ SlugFree(slug) /\ organization' = organization \cup {org}
             /\ member' = member \cup {owner} /\ nextId' = nextId + 2
    <2>1. org \in OrganizationRows /\ org.id = nextId /\ org.slug = slug
      BY <1>2 DEF OrganizationRows, EverySlug
    <2>2. <<HIGHEST_ROLE>> \in Columns
      BY OneRole
    <2>3. owner \in MemberRows /\ owner.id = nextId + 1 /\ owner.org = nextId
      BY <1>2, <2>2 DEF MemberRows
    <2>4. \A o \in organization : o.slug # slug
      BY <1>4 DEF SlugFree, slugTaken
    <2> HIDE DEF org, owner, slug
    <2>5. /\ \A o \in organization : o.id \in Nat /\ o.id < nextId
          /\ \A m \in member : m.id \in Nat /\ m.id < nextId
      BY DEF Inv, TableInv, OrganizationRows, MemberRows
    <2>6. SlugsUnique' /\ \A o, p \in organization' : o.id = p.id => o = p
      BY <1>4, <2>1, <2>4, <2>5 DEF Inv, TableInv, SlugsUnique
    <2>7. MembersBelong'
      BY <1>4, <2>1, <2>3 DEF Inv, TableInv, MembersBelong, Exists
    <2>8. \A m, n \in member' : m.id = n.id => m = n
      BY <1>2, <1>4, <2>3, <2>5 DEF Inv, TableInv
    <2>9. /\ \A o \in organization' : o.id < nextId'
          /\ \A m \in member' : m.id < nextId'
      BY <1>2, <1>4, <2>1, <2>3, <2>5
    <2>10. TableInv'
      BY <1>1, <1>2, <1>4, <2>1, <2>3, <2>6, <2>7, <2>8, <2>9 DEF Inv, TableInv
    <2>11. Grows
      BY <1>1, <1>2, <1>4, <2>3 DEF Grows
    <2> QED
      BY <1>1, <2>10, <2>11, CommandsRest, DoneMoves DEF Inv
  <1> QED
    BY <1>3, <1>4 DEF OrganizationCreateWrite

LEMMA OrganizationUpdateKeeps ==
    ASSUME Inv, NEW t \in Tasks, OrganizationUpdateWrite(t) PROVE Inv'
  <1> DEFINE slug == task[t].input.slug
             id == task[t].org
             renamed(o) == IF o.id = id THEN [o EXCEPT !.slug = slug] ELSE o
  <1>1. /\ task[t] # Idle /\ task[t].kind = <<"organization", "update">> /\ Done(t)
        /\ UNCHANGED <<member, invitation, nextId, command>>
        /\ organization' = IF SlugFree(slug) THEN {renamed(o) : o \in organization} ELSE organization
    BY DEF OrganizationUpdateWrite, At
  <1>2. slug \in Slugs /\ organization \subseteq OrganizationRows
    BY <1>1, Fields DEF Inv, TableInv, WellFormed
  <1>3. CASE ~SlugFree(slug)
    BY <1>1, <1>3, SameTables, CommandsRest, DoneMoves DEF Inv, tables
  <1>4. CASE SlugFree(slug)
    <2> HIDE DEF slug, id
    <2>1. ASSUME NEW o \in organization
          PROVE  /\ renamed(o) \in OrganizationRows /\ renamed(o).id = o.id
                 /\ renamed(o).slug = IF o.id = id THEN slug ELSE o.slug
      <3>1. o \in OrganizationRows
        BY <1>2
      <3> QED
        BY <1>2, <3>1 DEF OrganizationRows, EverySlug
    <2>2. \A o \in organization : o.slug # slug
      BY <1>4 DEF SlugFree, slugTaken
    <2>3. organization' = {renamed(o) : o \in organization}
      BY <1>1, <1>4
    <2> HIDE DEF renamed
    <2>4. /\ organization' \subseteq OrganizationRows
          /\ \A p \in organization' : \E o \in organization : p = renamed(o) /\ p.id = o.id
          /\ \A o \in organization : \E p \in organization' : p.id = o.id
      BY <2>1, <2>3
    <2>5. SlugsUnique'
      <3> SUFFICES ASSUME NEW o \in organization, NEW p \in organization,
                          renamed(o).slug = renamed(p).slug
                   PROVE  renamed(o) = renamed(p)
        BY <2>3 DEF SlugsUnique
      <3>1. o = p
        BY <2>1, <2>2 DEF Inv, TableInv, SlugsUnique
      <3> QED
        BY <3>1
    <2>6. \A o, p \in organization' : o.id = p.id => o = p
      BY <2>4 DEF Inv, TableInv
    <2>7. MembersBelong' /\ \A o \in organization' : o.id < nextId
      BY <1>1, <2>4 DEF Inv, TableInv, MembersBelong, Exists
    <2>8. TableInv' /\ Grows
      BY <1>1, <2>4, <2>5, <2>6, <2>7, CommandsRest DEF Inv, TableInv, Grows
    <2> QED
      BY <1>1, <2>8, CommandsRest, DoneMoves DEF Inv
  <1> QED
    BY <1>3, <1>4

LEMMA OrganizationDeleteKeeps == ASSUME Inv, NEW t \in Tasks, OrganizationDelete(t) PROVE Inv'
  <1> DEFINE id == task[t].org
  <1>1. /\ invitation' = invitation \ Invitations(id) /\ member' = member \ MembersOf(id)
        /\ organization' = {o \in organization : o.id # id}
        /\ Done(t) /\ UNCHANGED <<nextId, command>>
    BY DEF OrganizationDelete
  <1> HIDE DEF id
  <1>2. MembersBelong'
    BY <1>1 DEF Inv, TableInv, MembersBelong, Exists, MembersOf
  <1>3. TableInv' /\ Grows
    BY <1>1, <1>2, CommandsRest DEF Inv, TableInv, SlugsUnique, Grows
  <1> QED
    BY <1>1, <1>3, CommandsRest, DoneMoves DEF Inv

LEMMA AcceptKeeps == ASSUME Inv, AcceptInvitation PROVE Inv'
  <1>1. PICK i \in invitation, u \in Users :
          /\ Exists(i.org) /\ invitation' = invitation \ {i}
          /\ member' = member \cup {[id |-> nextId, org |-> i.org, user |-> u, role |-> <<i.role>>]}
    BY DEF AcceptInvitation
  <1> DEFINE new == [id |-> nextId, org |-> i.org, user |-> u, role |-> <<i.role>>]
  <1>2. nextId' = nextId + 1 /\ UNCHANGED <<organization, task, command>> /\ nextId \in Nat
    BY DEF AcceptInvitation, Inv, TableInv
  <1>3. i.org \in Nat /\ i.role \in Granted
    BY DEF Inv, TableInv, InvitationRows
  <1>4. new \in MemberRows /\ new.id = nextId /\ new.org = i.org
    BY <1>2, <1>3, OneRole DEF MemberRows
  <1> HIDE DEF new
  <1>5. member' = member \cup {new} /\ \A m \in member : m.id \in Nat /\ m.id < nextId
    BY <1>1 DEF new, Inv, TableInv, MemberRows
  <1>6. /\ \A m, n \in member' : m.id = n.id => m = n
        /\ \A m \in member' : m.id < nextId'
        /\ \A o \in organization : o.id \in Nat /\ o.id < nextId'
    BY <1>2, <1>4, <1>5 DEF Inv, TableInv, OrganizationRows
  <1>7. MembersBelong'
    BY <1>1, <1>2, <1>4, <1>5 DEF Inv, TableInv, MembersBelong, Exists
  <1>8. TableInv'
    BY <1>1, <1>2, <1>4, <1>5, <1>6, <1>7 DEF Inv, TableInv, SlugsUnique
  <1>9. Grows
    BY <1>2, <1>4, <1>5 DEF Grows
  <1> QED
    BY <1>2, <1>8, <1>9, CommandsRest, TasksRest DEF Inv

LEMMA StepKeeps == ASSUME Inv, NEW t \in Tasks, Step(t) PROVE Inv'
  <1>1. CASE MemberDelete(t)
    BY <1>1, MembersGo DEF MemberDelete
  <1>2. CASE MembershipDeleteWrite(t)
    BY <1>2, MembersGo DEF MembershipDeleteWrite
  <1> QED
    BY <1>1, <1>2, CallKeeps, DeliverKeeps, CreateReadKeeps, CreateWriteKeeps, UpdateReadKeeps,
       UpdateWriteKeeps, LeaveReadKeeps, CountKeeps, InvitationKeeps, SlugReadKeeps,
       OrganizationCreateKeeps, OrganizationUpdateKeeps, OrganizationDeleteKeeps DEF Step

LEMMA NextInv == Inv /\ [Next]_vars => Inv'
  <1> SUFFICES ASSUME Inv, [Next]_vars PROVE Inv'
    OBVIOUS
  <1>1. CASE UNCHANGED vars
    <2>1. TableInv' /\ Grows /\ CommandInv'
      BY <1>1, SameTables, CommandsRest DEF vars
    <2> QED
      BY <1>1, <2>1, TasksRest DEF vars, Inv
  <1> QED
    BY <1>1, PublishKeeps, AcceptKeeps, StepKeeps DEF Next

LEMMA Invariance == Spec => []Inv
  BY InitInv, NextInv, PTL DEF Spec

-----------------------------------------------------------------------------
(* The theorems *)

\* The unique column keeps slugs apart however lookups and writes interleave
\* (index.ts, organization.create and organization.update).
THEOREM UniqueSlugs == Spec => []SlugsUnique
  <1>1. Inv => SlugsUnique
    BY DEF Inv, TableInv
  <1> QED
    BY <1>1, Invariance, PTL

\* No member row outlives its organisation (identity.service.ts,
\* deleteOrganization).
THEOREM NoOrphans == Spec => []MembersBelong
  <1>1. Inv => MembersBelong
    BY DEF Inv, TableInv
  <1> QED
    BY <1>1, Invariance, PTL

\* A step of one task leaves the others'.
LEMMA OnlyOneTask ==
    ASSUME Inv, NEW t \in Tasks, NEW u \in Tasks, Step(u), task'[t] # task[t]
    PROVE  u = t
  <1>1. task \in [Tasks -> Signatures \cup {Idle}]
    BY DEF Inv, TaskInv
  <1> QED
    BY <1>1 DEF Step, CallRpc, DeliverCommand, MemberCreateRead, MemberCreateWrite,
       MemberUpdateRead, MemberUpdateWrite, MemberDelete, MembershipDeleteRead,
       MembershipDeleteWrite, AssertNotTheLastOwner, InvitationDelete, SlugRead,
       OrganizationCreateWrite, OrganizationUpdateWrite, OrganizationDelete, Done, Goto

\* Rows of other tenants survive every handler, and new ones are the caller's
\* tenant's or a new organisation's (identity.service.ts, every WHERE clause).
THEOREM TenantsApart == Spec => TenantIsolation
  <1>1. Inv /\ [Next]_vars =>
          [\A t \in Tasks : task[t] # Idle /\ task'[t] # task[t] =>
            LET org == task[t].org
            IN  /\ {o \in organization : o.id # org} \subseteq organization'
                /\ {m \in member : m.org # org} \subseteq member'
                /\ {i \in invitation : i.org # org} \subseteq invitation'
                /\ \A m \in member' \ member : m.org = org \/ ~Exists(m.org)
                /\ \A i \in invitation' \ invitation : i.org = org]_vars
    <2> SUFFICES ASSUME Inv, Next, NEW t \in Tasks, task[t] # Idle, task'[t] # task[t]
                 PROVE  LET org == task[t].org
                        IN  /\ {o \in organization : o.id # org} \subseteq organization'
                            /\ {m \in member : m.org # org} \subseteq member'
                            /\ {i \in invitation : i.org # org} \subseteq invitation'
                            /\ \A m \in member' \ member : m.org = org \/ ~Exists(m.org)
                            /\ \A i \in invitation' \ invitation : i.org = org
      OBVIOUS
    <2> DEFINE org == task[t].org
    <2>1. Step(t)
      BY OnlyOneTask DEF Next, AcceptInvitation, PublishCommand
    <2>2. CASE UNCHANGED tables
      BY <2>2 DEF tables
    <2>3. CASE MemberCreateWrite(t)
      BY <2>3 DEF MemberCreateWrite
    <2>4. CASE MemberUpdateWrite(t)
      <3> DEFINE rows == memberIn(org, task[t].input.member)
                 column == <<task[t].input.role>>
      <3>1. /\ member' = (member \ rows) \cup {[m EXCEPT !.role = column] : m \in rows}
            /\ UNCHANGED <<organization, invitation>>
        BY <2>4 DEF MemberUpdateWrite
      <3>2. \A m \in rows : m.org = org /\ m \in MemberRows
        BY DEF memberIn, Inv, TableInv
      <3> HIDE DEF rows, column, org
      <3>3. \A m \in rows : [m EXCEPT !.role = column].org = org
        BY <3>2 DEF MemberRows
      <3>4. \A m \in member' \ member : m.org = org
        BY <3>1, <3>3
      <3>5. {m \in member : m.org # org} \subseteq member'
        BY <3>1, <3>2
      <3> QED
        BY <3>1, <3>4, <3>5 DEF org
    <2>5. CASE MemberDelete(t) \/ MembershipDeleteWrite(t)
      BY <2>5 DEF MemberDelete, MembershipDeleteWrite, memberIn
    <2>6. CASE InvitationDelete(t)
      BY <2>6 DEF InvitationDelete
    <2>7. CASE OrganizationCreateWrite(t)
      <3>1. \A m \in member' \ member : m.org = nextId
        BY <2>7 DEF OrganizationCreateWrite
      <3>2. ~Exists(nextId)
        BY DEF Exists, Inv, TableInv, OrganizationRows
      <3> QED
        BY <2>7, <3>1, <3>2 DEF OrganizationCreateWrite
    <2>8. CASE OrganizationUpdateWrite(t)
      BY <2>8 DEF OrganizationUpdateWrite
    <2>9. CASE OrganizationDelete(t)
      BY <2>9 DEF OrganizationDelete, MembersOf, Invitations
    <2> QED
      BY <2>1, <2>2, <2>3, <2>4, <2>5, <2>6, <2>7, <2>8, <2>9
         DEF Step, CallRpc, DeliverCommand, MemberCreateRead, MemberUpdateRead,
             MembershipDeleteRead, AssertNotTheLastOwner, SlugRead
  <1> QED
    BY <1>1, Invariance, PTL DEF Spec, TenantIsolation

\* Leaving deletes the row the caller had when the handler looked, and that row
\* has not become another person's (identity.service.ts, membership.delete).
THEOREM LeavingIsPersonal == Spec => LeavingRemovesOnlyOneself
  <1>1. Inv /\ [Next]_vars =>
          [\A t \in Tasks : At(t, <<"membership", "delete">>, "write") /\ task'[t] # task[t] =>
             \A m \in member \ member' : m.user = task[t].user]_vars
    <2> SUFFICES ASSUME Inv, Next, NEW t \in Tasks, At(t, <<"membership", "delete">>, "write"),
                        task'[t] # task[t], NEW m \in member \ member'
                 PROVE  m.user = task[t].user
      OBVIOUS
    <2>1. Step(t)
      BY OnlyOneTask DEF Next, AcceptInvitation, PublishCommand
    <2>2. task[t] # Idle /\ task[t].kind = <<"membership", "delete">> /\ task[t].pc = "write"
      BY DEF At
    <2>3. MembershipDeleteWrite(t)
      BY <2>1, <2>2 DEF Step, CallRpc, DeliverCommand, MemberCreateRead, MemberCreateWrite,
         MemberUpdateRead, MemberUpdateWrite, MemberDelete, MembershipDeleteRead,
         AssertNotTheLastOwner, InvitationDelete, SlugRead, OrganizationCreateWrite,
         OrganizationUpdateWrite, OrganizationDelete, At
    <2>4. m.id = task[t].input.member
      BY <2>3 DEF MembershipDeleteWrite, memberIn
    <2> QED
      BY <2>2, <2>4 DEF Inv, TaskInv, Leaves
  <1> QED
    BY <1>1, Invariance, PTL DEF Spec, LeavingRemovesOnlyOneself

-----------------------------------------------------------------------------
(* The ladder of roles *)

LEMMA Ladder ==
    /\ ROLE_RANK["member"] = 1 /\ ROLE_RANK["admin"] = 2 /\ ROLE_RANK["owner"] = 3
    /\ \A r \in ORG_ROLES : ROLE_RANK[r] \in Nat
    /\ LOWEST_ROLE = "member" /\ HIGHEST_ROLE = "owner"
  <1>1. ROLE_RANK["member"] = 1 /\ ROLE_RANK["admin"] = 2 /\ ROLE_RANK["owner"] = 3
    BY Zenon DEF ROLE_RANK, ORG_ROLES
  <1>2. LOWEST_ROLE = "member" /\ HIGHEST_ROLE = "owner"
    BY <1>1 DEF LOWEST_ROLE, HIGHEST_ROLE, ORG_ROLES
  <1> QED
    BY <1>1, <1>2 DEF ORG_ROLES

\* Every operation of the table asks for a role of the ladder.
LEMMA RulesNameRoles ==
    ASSUME NEW resource \in RESOURCE_KEYS, NEW operation \in operationsOf(resource)
    PROVE  ruleFor(resource, operation).minRole \in ORG_ROLES
  <1>1. resource \in {"organization", "membership", "project", "member", "invitation", "billing",
                     "auditLog"}
    BY DEF RESOURCE_KEYS, RESOURCES
  <1>2. operation \in DOMAIN RESOURCES[resource].operations
    BY DEF operationsOf, isOperationOf
  <1>3. CASE resource \in {"organization", "membership"}
    BY <1>2, <1>3 DEF RESOURCES, OrganizationResource, MembershipResource, ruleFor, Op, ORG_ROLES
  <1>4. CASE resource \in {"project", "member"}
    BY <1>2, <1>4 DEF RESOURCES, ProjectResource, MemberResource, ruleFor, Op, ORG_ROLES
  <1>5. CASE resource \in {"invitation", "billing", "auditLog"}
    BY <1>2, <1>5 DEF RESOURCES, InvitationResource, BillingResource, AuditLogResource, ruleFor, Op,
                      ORG_ROLES
  <1> QED
    BY <1>1, <1>3, <1>4, <1>5

\* Whatever gate 4 lets an actor hand out, nobody is given a permission by it
\* that the actor does not hold (escalation.ts over the registry's own table).
THEOREM NobodyGrantsMore ==
    ASSUME NEW actor \in ORG_ROLES, NEW named \in NamedRoles \ {NoRole},
           ~refusedRole(named, actor)
    PROVE  named \in ORG_ROLES /\ permissionsForRole(named) \subseteq permissionsForRole(actor)
  <1>1. named \in ORG_ROLES /\ ROLE_RANK[named] <= ROLE_RANK[actor]
    BY Ladder DEF refusedRole, assignableRoles, roleAtLeast
  <1>2. ASSUME NEW p \in permissionsForRole(named) PROVE p \in permissionsForRole(actor)
    <2>1. p \in PERMISSIONS /\ roleAtLeast(named, ruleFor(p[1], p[2]).minRole)
      BY <1>2 DEF permissionsForRole
    <2>2. PICK r \in RESOURCE_KEYS : \E o \in operationsOf(r) : p = <<r, o>>
      BY <2>1 DEF PERMISSIONS
    <2>3. ruleFor(p[1], p[2]).minRole \in ORG_ROLES
      BY <2>2, RulesNameRoles
    <2>4. roleAtLeast(actor, ruleFor(p[1], p[2]).minRole)
      BY <1>1, <2>1, <2>3, Ladder DEF roleAtLeast
    <2> QED
      BY <2>1, <2>4 DEF permissionsForRole
  <1> QED
    BY <1>1, <1>2

\* Of the names in a role column the highest recognised one counts, and a
\* column without one is the lowest role, never a higher (normalizeRole).
THEOREM HighestClaimCounts ==
    ASSUME NEW claims
    PROVE  LET r == normalizeRole(claims)
           IN  /\ r \in ORG_ROLES
               /\ \A i \in DOMAIN claims : claims[i] \in ORG_ROLES => roleAtLeast(r, claims[i])
               /\ r # LOWEST_ROLE => \E i \in DOMAIN claims : claims[i] = r
  <1> DEFINE named == {claims[i] : i \in DOMAIN claims}
             recognised == {LOWEST_ROLE} \cup (named \cap ORG_ROLES)
  <1>1. recognised \subseteq ORG_ROLES /\ LOWEST_ROLE \in recognised
    BY Ladder DEF ORG_ROLES
  <1>2. normalizeRole(claims) = CHOOSE r \in recognised : \A q \in recognised : roleAtLeast(r, q)
    BY DEF normalizeRole
  <1>3. \A i \in DOMAIN claims : claims[i] \in ORG_ROLES => claims[i] \in recognised
    OBVIOUS
  <1>4. \A r \in recognised : r # LOWEST_ROLE => \E i \in DOMAIN claims : claims[i] = r
    OBVIOUS
  <1> HIDE DEF recognised
  <1>5. \E r \in recognised : \A q \in recognised : roleAtLeast(r, q)
    <2>1. CASE "owner" \in recognised
      BY <1>1, <2>1, Ladder DEF ORG_ROLES, roleAtLeast
    <2>2. CASE "owner" \notin recognised /\ "admin" \in recognised
      BY <1>1, <2>2, Ladder DEF ORG_ROLES, roleAtLeast
    <2>3. CASE "owner" \notin recognised /\ "admin" \notin recognised
      BY <1>1, <2>3, Ladder DEF ORG_ROLES, roleAtLeast
    <2> QED
      BY <2>1, <2>2, <2>3
  <1>6. /\ normalizeRole(claims) \in recognised
        /\ \A q \in recognised : roleAtLeast(normalizeRole(claims), q)
    BY <1>2, <1>5
  <1> QED
    BY <1>1, <1>3, <1>4, <1>6

-----------------------------------------------------------------------------
(* What the races spare *)

OwnersToStart ==
    \A O \in InitialOrganizations, M \in InitialMembers : \A o \in O :
        \E m \in M : m.org = o.id /\ normalizeRole(m.role) = HIGHEST_ROLE

\* A column that holds the highest role alone is the highest role.
LEMMA OwnersAreOwners == normalizeRole(<<HIGHEST_ROLE>>) = HIGHEST_ROLE
  <1> DEFINE claims == <<HIGHEST_ROLE>>
  <1>1. HIGHEST_ROLE \in ORG_ROLES /\ claims[1] = HIGHEST_ROLE /\ 1 \in DOMAIN claims
    BY Ladder DEF ORG_ROLES
  <1> HIDE DEF claims
  <1>2. normalizeRole(claims) \in ORG_ROLES /\ roleAtLeast(normalizeRole(claims), HIGHEST_ROLE)
    BY <1>1, HighestClaimCounts
  <1>3. normalizeRole(claims) = HIGHEST_ROLE
    BY <1>2, Ladder DEF roleAtLeast, ORG_ROLES
  <1> QED
    BY <1>3 DEF claims

\* A handler that goes on keeps its call.
LEMMA GoesOn ==
    ASSUME Inv, NEW t \in Tasks, task[t] # Idle, NEW pc, Goto(t, pc)
    PROVE  /\ task'[t].pc = pc /\ task'[t].kind = task[t].kind
           /\ task'[t].org = task[t].org /\ task'[t].input = task[t].input
  BY Fields DEF Goto, Inv, TaskInv, Signatures

LEMMA WriteIsNotIdle == ASSUME Inv, NEW t \in Tasks, task[t] # Idle, Goto(t, "write")
                        PROVE  task'[t] # Idle
  <1>1. task'[t] = [task[t] EXCEPT !.pc = "write"] /\ task[t] \in Signatures
    BY Fields DEF Goto, Inv, TaskInv
  <1> QED
    BY <1>1 DEF Idle, Signatures

LEMMA Stops == ASSUME Inv, NEW t \in Tasks, Done(t) PROVE task'[t] = Idle
  BY DEF Done, Inv, TaskInv

\* Whoever starts on a call has read nothing yet.
LEMMA Starts ==
    ASSUME Inv, NEW t \in Tasks, CallRpc(t) \/ DeliverCommand(t)
    PROVE  /\ task'[t].pc = "read"
           /\ \/ task'[t].org < nextId
              \/ \E r \in DOMAIN command : task'[t].org = command[r].call.org
  <1>1. task \in [Tasks -> Signatures \cup {Idle}]
    BY DEF Inv, TaskInv
  <1>2. CASE CallRpc(t)
    BY <1>1, <1>2, SignedCalls DEF CallRpc
  <1>3. CASE DeliverCommand(t)
    <2>1. PICK r \in DOMAIN command : task' = [task EXCEPT ![t] = [command[r].call EXCEPT !.command = r]]
      BY <1>3 DEF DeliverCommand
    <2>2. command \in Seq(Commands) /\ command[r] \in Commands
      BY LenProperties, ElementOfSeq DEF Inv, CommandInv
    <2>3. command[r].call \in Signatures /\ command[r].call.pc = "read"
      BY <2>2 DEF Inv, CommandInv, Commands
    <2> QED
      BY <1>1, <2>1, <2>3 DEF Signatures
  <1> QED
    BY <1>2, <1>3

\* Whoever leaves returns, or goes on with a row of their own.
LEMMA Leaving ==
    ASSUME Inv, NEW t \in Tasks, MembershipDeleteRead(t)
    PROVE  \/ task'[t] = Idle
           \/ \E m \in membershipOf(task[t].org, task[t].user) :
                /\ task'[t].kind = <<"membership", "delete">> /\ task'[t].org = task[t].org
                /\ task'[t].input.member = m.id
                /\ task'[t].pc = IF normalizeRole(m.role) = HIGHEST_ROLE THEN "count" ELSE "write"
  <1>1. task[t] \in Signatures /\ task[t].kind = <<"membership", "delete">>
    BY Fields DEF MembershipDeleteRead, At
  <1>2. task \in [Tasks -> Signatures \cup {Idle}]
    BY DEF Inv, TaskInv
  <1>3. CASE Done(t)
    BY <1>3, Stops
  <1>4. ASSUME NEW m \in membershipOf(task[t].org, task[t].user), NEW pc,
               task' = [task EXCEPT ![t].input = [member |-> m.id], ![t].pc = pc]
        PROVE  /\ task'[t].kind = <<"membership", "delete">> /\ task'[t].org = task[t].org
               /\ task'[t].input.member = m.id /\ task'[t].pc = pc
    <2>1. task'[t] = [task[t] EXCEPT !.input = [member |-> m.id], !.pc = pc]
      BY <1>2, <1>4
    <2> QED
      BY <1>1, <2>1 DEF Signatures
  <1> QED
    BY <1>3, <1>4 DEF MembershipDeleteRead

-----------------------------------------------------------------------------
(* Nobody is invited twice *)

\* What an invitation about to be inserted relies on.
Uninvited(c) ==
    c.kind = <<"member", "create">> =>
        /\ c.pc # "count"
        /\ c.pc = "write" =>
             \A i \in invitation : ~(i.org = c.org /\ i.email = c.input.email)

InviteInv == OnePendingInvitation /\ \A t \in Tasks : task[t] # Idle => Uninvited(task[t])

LEMMA FewerInvitations ==
    ASSUME InviteInv, invitation' \subseteq invitation,
           \A t \in Tasks : \/ task'[t] = task[t] \/ task'[t] = Idle \/ task'[t].pc = "read"
                            \/ task'[t].kind # <<"member", "create">>
    PROVE  InviteInv'
  <1>1. OnePendingInvitation'
    BY DEF InviteInv, OnePendingInvitation
  <1>2. ASSUME NEW t \in Tasks, task'[t] # Idle PROVE Uninvited(task[t])'
    <2>1. CASE task'[t] = task[t]
      BY <1>2, <2>1 DEF InviteInv, Uninvited
    <2>2. CASE task'[t].pc = "read" \/ task'[t].kind # <<"member", "create">>
      BY <2>2 DEF Uninvited
    <2> QED
      BY <1>2, <2>1, <2>2
  <1> QED
    BY <1>1, <1>2 DEF InviteInv

LEMMA InviteStep ==
    ASSUME Inv, InviteInv, ~InvitationRace, [Next]_vars PROVE InviteInv'
  <1>1. CASE UNCHANGED vars
    BY <1>1, FewerInvitations DEF vars, tables
  <1>2. CASE AcceptInvitation \/ PublishCommand
    BY <1>2, FewerInvitations DEF AcceptInvitation, PublishCommand, tables
  <1>3. ASSUME NEW t \in Tasks, Step(t) PROVE InviteInv'
    <2>1. \A u \in Tasks : u # t => task'[u] = task[u]
      BY <1>3, OnlyOneTask
    <2>2. CASE CallRpc(t) \/ DeliverCommand(t)
      BY <2>1, <2>2, Starts, FewerInvitations DEF CallRpc, DeliverCommand, tables
    <2>3. CASE MemberCreateRead(t)
      <3>1. CASE Done(t)
        BY <2>1, <2>3, <3>1, Stops, FewerInvitations DEF MemberCreateRead, tables
      <3>2. CASE /\ Goto(t, "write")
                 /\ ~\E i \in Invitations(task[t].org) : i.email = task[t].input.email
        <4>1. /\ task'[t].pc = "write"
              /\ task'[t].org = task[t].org /\ task'[t].input = task[t].input
              /\ invitation' = invitation
          BY <2>3, <3>2, GoesOn DEF MemberCreateRead, At, tables
        <4>2. Uninvited(task[t])'
          BY <3>2, <4>1 DEF Uninvited, Invitations
        <4>3. \A u \in Tasks : task'[u] # Idle => Uninvited(task[u])'
          BY <2>1, <4>1, <4>2 DEF InviteInv, Uninvited
        <4> QED
          BY <4>1, <4>3 DEF InviteInv, OnePendingInvitation
      <3> QED
        BY <2>3, <3>1, <3>2 DEF MemberCreateRead
    <2>4. CASE MemberCreateWrite(t)
      <3> DEFINE new == [id |-> nextId, org |-> task[t].org, email |-> task[t].input.email,
                         role |-> task[t].input.role]
      <3>1. /\ invitation' = invitation \cup {new}
            /\ new.org = task[t].org /\ new.email = task[t].input.email
            /\ task[t] # Idle /\ task'[t] = Idle /\ Inserts(task[t])
        BY <2>4, Stops DEF MemberCreateWrite, At, Inserts
      <3>2. \A i \in invitation : ~(i.org = new.org /\ i.email = new.email)
        BY <2>4, <3>1 DEF InviteInv, Uninvited, MemberCreateWrite, At
      <3> HIDE DEF new
      <3>3. OnePendingInvitation'
        BY <3>1, <3>2 DEF InviteInv, OnePendingInvitation
      <3>4. ASSUME NEW u \in Tasks, task'[u] # Idle PROVE Uninvited(task[u])'
        <4>1. u # t /\ task'[u] = task[u] /\ Uninvited(task[u])
          BY <2>1, <3>1, <3>4 DEF InviteInv
        <4>2. CASE ~Inserts(task[u])
          BY <4>1, <4>2 DEF Uninvited, Inserts
        <4>3. CASE Inserts(task[u])
          <5>1. ~(task[u].org = new.org /\ task[u].input.email = new.email)
            BY <3>1, <3>4, <4>1, <4>3 DEF InvitationRace, Running
          <5> QED
            BY <3>1, <4>1, <4>3, <5>1 DEF Uninvited, Inserts
        <4> QED
          BY <4>2, <4>3
      <3> QED
        BY <3>3, <3>4 DEF InviteInv
    <2>5. CASE AssertNotTheLastOwner(t)
      <3>1. task[t] # Idle /\ task[t].kind # <<"member", "create">> /\ invitation' = invitation
        BY <2>5 DEF AssertNotTheLastOwner, InviteInv, Uninvited, tables
      <3>2. Done(t) \/ Goto(t, "write")
        BY <2>5 DEF AssertNotTheLastOwner
      <3>3. task'[t] = Idle \/ task'[t].kind # <<"member", "create">>
        BY <3>1, <3>2, Stops, GoesOn
      <3> QED
        BY <2>1, <3>1, <3>3, FewerInvitations
    <2>6. CASE MemberUpdateRead(t) \/ SlugRead(t)
      <3>1. /\ task[t] # Idle /\ task[t].kind # <<"member", "create">> /\ invitation' = invitation
            /\ Done(t) \/ Goto(t, "count") \/ Goto(t, "write")
        BY <2>6 DEF MemberUpdateRead, SlugRead, At, tables
      <3>2. task'[t] = Idle \/ task'[t].kind # <<"member", "create">>
        BY <3>1, Stops, GoesOn
      <3> QED
        BY <2>1, <3>1, <3>2, FewerInvitations
    <2>7. CASE MembershipDeleteRead(t)
      <3>1. task'[t] = Idle \/ task'[t].kind # <<"member", "create">>
        BY <2>7, Leaving
      <3> QED
        BY <2>1, <2>7, <3>1, FewerInvitations DEF MembershipDeleteRead, tables
    <2>8. CASE \/ MemberUpdateWrite(t) \/ MemberDelete(t) \/ MembershipDeleteWrite(t)
               \/ InvitationDelete(t) \/ OrganizationCreateWrite(t) \/ OrganizationUpdateWrite(t)
               \/ OrganizationDelete(t)
      <3>1. Done(t) /\ invitation' \subseteq invitation
        BY <2>8 DEF MemberUpdateWrite, MemberDelete, MembershipDeleteWrite, InvitationDelete,
           OrganizationCreateWrite, OrganizationUpdateWrite, OrganizationDelete
      <3> QED
        BY <2>1, <3>1, Stops, FewerInvitations
    <2> QED
      BY <1>3, <2>2, <2>3, <2>4, <2>5, <2>6, <2>7, <2>8 DEF Step
  <1> QED
    BY <1>1, <1>2, <1>3 DEF Next

\* However the handlers interleave and however often a command is delivered, an
\* address has one invitation of an organisation, unless two handlers insert
\* after both have looked (index.ts, member.create).
THEOREM InvitedOnce == Spec /\ []~InvitationRace => []OnePendingInvitation
  <1>1. Init => InviteInv
    BY DEF Init, InviteInv, OnePendingInvitation
  <1>2. Inv /\ InviteInv /\ ~InvitationRace /\ [Next]_vars => InviteInv'
    BY InviteStep
  <1>3. InviteInv => OnePendingInvitation
    BY DEF InviteInv
  <1> QED
    BY <1>1, <1>2, <1>3, Invariance, PTL DEF Spec

-----------------------------------------------------------------------------
(* Somebody always owns the organisation *)

\* The calls under way and waiting are for organisations whose ids are spent.
SpentInv ==
    /\ \A t \in Tasks : task[t] # Idle => task[t].org < nextId
    /\ \A r \in DOMAIN command : command[r].call.org < nextId

\* Every organisation has an owner whom no write under way names.
OwnerInv == SpentInv /\ \A o \in organization : Staying(o.id) # {}

\* Spent ids stay spent.
LEMMA LaterIds ==
    ASSUME Inv', nextId \in Nat, nextId' = nextId \/ nextId' = nextId + 1 \/ nextId' = nextId + 2,
           \A u \in Tasks : task'[u] # Idle => task'[u].org < nextId,
           \A r \in DOMAIN command' : command'[r].call.org < nextId
    PROVE  SpentInv'
  <1>1. \A u \in Tasks : task'[u] # Idle => task'[u].org \in Nat
    BY DEF Inv, TaskInv, Signatures
  <1>2. \A r \in DOMAIN command' : command'[r].call.org \in Nat
    <2>1. ASSUME NEW r \in DOMAIN command' PROVE command'[r] \in Commands
      BY LenProperties, ElementOfSeq DEF Inv, CommandInv
    <2> QED
      BY <2>1 DEF Commands, Signatures
  <1> QED
    BY <1>1, <1>2 DEF SpentInv

\* The commands' calls never change, and nobody calls for an organisation to come.
LEMMA SpentStep == ASSUME Inv, SpentInv, [Next]_vars PROVE SpentInv'
  <1>1. CASE UNCHANGED vars \/ AcceptInvitation
    <2>1. nextId \in Nat /\ (nextId' = nextId \/ nextId' = nextId + 1) /\ UNCHANGED <<task, command>>
      BY <1>1 DEF Inv, TableInv, vars, tables, AcceptInvitation
    <2> QED
      BY <2>1, NextInv, LaterIds DEF SpentInv
  <1>2. CASE PublishCommand
    <2>1. PICK c \in LetThrough({k \in Kinds : IsCommand(k)}) :
             command' = Append(command, [call |-> c, deliveries |-> 0, acked |-> FALSE])
      BY <1>2 DEF PublishCommand
    <2> DEFINE new == [call |-> c, deliveries |-> 0, acked |-> FALSE]
    <2>2. c.org < nextId /\ c \in Signatures
      BY SignedCalls
    <2>3. new \in Commands /\ new.call = c /\ command \in Seq(Commands)
      BY <2>2 DEF Commands, Inv, CommandInv
    <2> HIDE DEF new
    <2>4. /\ Len(command') = Len(command) + 1 /\ command' \in Seq(Commands)
          /\ \A i \in 1..Len(command) : command'[i] = command[i]
          /\ command'[Len(command) + 1] = new
      BY <2>1, <2>3, AppendProperties DEF new
    <2>5. /\ Len(command) \in Nat /\ DOMAIN command = 1..Len(command)
          /\ DOMAIN command' = 1..Len(command')
      BY <2>3, <2>4, LenProperties
    <2>6. \A r \in DOMAIN command' : r \in 1..Len(command) \/ r = Len(command) + 1
      BY <2>4, <2>5
    <2>7. \A r \in DOMAIN command' : command'[r].call.org < nextId
      BY <2>2, <2>3, <2>4, <2>5, <2>6 DEF SpentInv
    <2> QED
      BY <1>2, <2>7 DEF SpentInv, PublishCommand, tables
  <1>3. ASSUME NEW t \in Tasks, Step(t) PROVE SpentInv'
    <2>1. task \in [Tasks -> Signatures \cup {Idle}] /\ command \in Seq(Commands)
      BY DEF Inv, TaskInv, CommandInv
    <2>2. /\ DOMAIN command' = DOMAIN command
          /\ \A r \in DOMAIN command : command'[r].call = command[r].call
      <3>1. CASE DeliverCommand(t)
        <4>1. PICK r \in DOMAIN command : command' = [command EXCEPT ![r].deliveries = @ + 1]
          BY <3>1 DEF DeliverCommand
        <4> DEFINE new == [command[r] EXCEPT !.deliveries = @ + 1]
        <4>2. command[r] \in Commands
          BY <2>1, LenProperties, ElementOfSeq
        <4>3. new \in Commands /\ new.call = command[r].call /\ command' = [command EXCEPT ![r] = new]
          BY <4>1, <4>2 DEF Commands
        <4> HIDE DEF new
        <4> QED
          BY <4>3, CommandUpdate
      <3>2. CASE MemberCreateRead(t)
        <4>1. At(t, <<"member", "create">>, task[t].pc)
          BY <3>2 DEF MemberCreateRead, At
        <4>2. \/ command' = [command EXCEPT ![task[t].command].acked = TRUE] \/ UNCHANGED command
          BY <3>2 DEF MemberCreateRead
        <4> QED
          BY <4>1, <4>2, Acknowledged
      <3>3. CASE MemberCreateWrite(t)
        <4>1. At(t, <<"member", "create">>, task[t].pc)
          BY <3>3 DEF MemberCreateWrite, At
        <4>2. PICK acked \in {TRUE, command[task[t].command].acked} :
                 command' = [command EXCEPT ![task[t].command].acked = acked]
          BY <3>3 DEF MemberCreateWrite
        <4>3. command[task[t].command] \in Commands
          BY <2>1, <4>1, LenProperties, ElementOfSeq DEF Inv, TaskInv, At
        <4> QED
          BY <4>1, <4>2, <4>3, Acknowledged DEF Commands
      <3> QED
        BY <1>3, <3>1, <3>2, <3>3 DEF Step, CallRpc, MemberUpdateRead, MemberUpdateWrite,
           MemberDelete, MembershipDeleteRead, MembershipDeleteWrite, AssertNotTheLastOwner,
           InvitationDelete, SlugRead, OrganizationCreateWrite, OrganizationUpdateWrite,
           OrganizationDelete
    <2>3. task'[t] = Idle \/ task'[t].org < nextId
      <3>1. CASE CallRpc(t) \/ DeliverCommand(t)
        BY <3>1, Starts DEF SpentInv
      <3>2. CASE MembershipDeleteRead(t)
        <4>1. task[t] # Idle /\ task[t].kind = <<"membership", "delete">>
          BY <3>2 DEF MembershipDeleteRead, At
        <4> QED
          BY <3>2, <4>1, Leaving DEF SpentInv
      <3>3. CASE Done(t)
        BY <3>3, Stops
      <3>4. CASE task[t] # Idle /\ (Goto(t, "count") \/ Goto(t, "write"))
        BY <3>4, GoesOn DEF SpentInv
      <3> QED
        BY <1>3, <3>1, <3>2, <3>3, <3>4 DEF Step, MemberCreateRead, MemberCreateWrite,
           MemberUpdateRead, MemberUpdateWrite, MemberDelete, MembershipDeleteWrite,
           AssertNotTheLastOwner, InvitationDelete, SlugRead, OrganizationCreateWrite,
           OrganizationUpdateWrite, OrganizationDelete, At
    <2>4. \A u \in Tasks : u # t => task'[u] = task[u]
      BY <1>3, OnlyOneTask
    <2>5. ASSUME NEW u \in Tasks, task'[u] # Idle
          PROVE  task'[u].org < nextId
      BY <2>3, <2>4, <2>5 DEF SpentInv
    <2>6. \A r \in DOMAIN command' : command'[r].call.org < nextId
      BY <2>2 DEF SpentInv
    <2>7. nextId \in Nat /\ (nextId' = nextId \/ nextId' = nextId + 1 \/ nextId' = nextId + 2)
      BY <1>3 DEF Inv, TableInv, tables, Step, CallRpc, DeliverCommand, MemberCreateRead,
         MemberCreateWrite, MemberUpdateRead, MemberUpdateWrite, MemberDelete,
         MembershipDeleteRead, MembershipDeleteWrite, AssertNotTheLastOwner, InvitationDelete,
         SlugRead, OrganizationCreateWrite, OrganizationUpdateWrite, OrganizationDelete
    <2> QED
      BY <2>5, <2>6, <2>7, NextInv, LaterIds DEF Next
  <1> QED
    BY <1>1, <1>2, <1>3 DEF Next

\* The owners of an organisation keep their rows and their role.
OwnersKept(org) == \A m \in OwnersOf(org) : \E n \in (OwnersOf(org))' : n.id = m.id

\* Those who stay keep their rows and their role.
StayersKept(org) == \A m \in Staying(org) : \E n \in (OwnersOf(org))' : n.id = m.id

\* No further write is on its way, and it is not the stayers who lose the role.
LEMMA OwnersSurvive ==
    ASSUME Inv, OwnerInv, SpentInv',
           \A o \in organization' :
              \/ StayersKept(o.id) /\ \E p \in organization : p.id = o.id
              \/ o.id >= nextId /\ (OwnersOf(o.id))' # {},
           \A t \in Tasks : task'[t] = task[t] \/ task'[t] = Idle \/ ~Unseats(task'[t])
    PROVE  OwnerInv'
  <1> SUFFICES ASSUME NEW o \in organization' PROVE (Staying(o.id))' # {}
    BY DEF OwnerInv
  <1>1. CASE StayersKept(o.id) /\ \E p \in organization : p.id = o.id
    <2>1. PICK m \in Staying(o.id) : TRUE
      BY <1>1 DEF OwnerInv
    <2>2. PICK n \in (OwnersOf(o.id))' : n.id = m.id
      BY <1>1, <2>1 DEF StayersKept
    <2>3. n.org = o.id /\ m.org = o.id /\ ~Going(m)
      BY <2>1, <2>2 DEF Staying, OwnersOf, MembersOf
    <2>4. ASSUME NEW t \in Tasks, task'[t] # Idle, Unseats(task'[t]), Names(task'[t], n) PROVE FALSE
      <3>1. task'[t] = task[t]
        BY <2>4
      <3> QED
        BY <2>2, <2>3, <2>4, <3>1 DEF Going, Names, Running
    <2>5. ~(Going(n))'
      BY <2>4 DEF Going, Running
    <2> QED
      BY <2>2, <2>5 DEF Staying
  <1>2. CASE o.id >= nextId /\ (OwnersOf(o.id))' # {}
    <2>1. PICK n \in (OwnersOf(o.id))' : n.org = o.id
      BY <1>2 DEF OwnersOf, MembersOf
    <2>2. ASSUME NEW t \in Tasks, task'[t] # Idle, Unseats(task'[t]), Names(task'[t], n) PROVE FALSE
      <3>1. task[t] # Idle /\ task[t].org = o.id
        BY <2>1, <2>2 DEF Names
      <3>2. task[t].org < nextId /\ task[t].org \in Nat /\ nextId \in Nat
        BY <3>1, Fields DEF OwnerInv, SpentInv, Inv, TableInv
      <3> QED
        BY <1>2, <3>1, <3>2
    <2>3. ~(Going(n))'
      BY <2>2 DEF Going, Running
    <2> QED
      BY <2>1, <2>3 DEF Staying
  <1> QED
    BY <1>1, <1>2

LEMMA OwnersStay ==
    ASSUME Inv, OwnerInv, SpentInv', member \subseteq member',
           \A o \in organization' : \E p \in organization : p.id = o.id,
           \A t \in Tasks : task'[t] = task[t] \/ task'[t] = Idle \/ ~Unseats(task'[t])
    PROVE  OwnerInv'
  <1>1. ASSUME NEW org PROVE StayersKept(org)
    BY DEF StayersKept, Staying, OwnersOf, MembersOf
  <1> QED
    BY <1>1, OwnersSurvive

\* Nothing lets a write go on that names the only owner, unless nothing counts
\* for it; whom it names when others are there, the races decide.
LEMMA OwnersGoOn ==
    ASSUME Inv, OwnerInv, SpentInv', ~OwnersRace', NEW t \in Tasks,
           \A u \in Tasks : u # t => task'[u] = task[u],
           UNCHANGED <<organization, member>>, task'[t] # Idle,
           Unseats(task'[t]) => \A o \in organization : \A m \in OwnersOf(o.id) :
              Names(task'[t], m) => Removes(task'[t]) \/ \E n \in OwnersOf(o.id) : n # m
    PROVE  OwnerInv'
  <1> SUFFICES ASSUME NEW o \in organization PROVE (Staying(o.id))' # {}
    BY DEF OwnerInv
  <1>1. PICK m \in Staying(o.id) : TRUE
    BY DEF OwnerInv
  <1>2. (OwnersOf(o.id))' = OwnersOf(o.id) /\ m \in OwnersOf(o.id) /\ ~Going(m)
    BY <1>1 DEF Staying, OwnersOf, MembersOf
  <1>3. CASE ~(Going(m))'
    BY <1>2, <1>3 DEF Staying
  <1>4. CASE (Going(m))'
    <2>1. Unseats(task'[t]) /\ Names(task'[t], m)
      BY <1>2, <1>4 DEF Going, Running
    <2>2. Removes(task'[t]) \/ \E n \in OwnersOf(o.id) : n # m
      BY <1>2, <2>1
    <2>3. t \in Running'
      BY DEF Running
    <2> QED
      BY <1>2, <2>1, <2>2, <2>3 DEF OwnersRace
  <1> QED
    BY <1>3, <1>4

\* Besides a counted owner there is another.
LEMMA AnotherOwner ==
    ASSUME NEW org, ~(Cardinality(OwnersOf(org)) <= 1), NEW m \in OwnersOf(org)
    PROVE  \E n \in OwnersOf(org) : n # m
  <1> SUFFICES ASSUME \A n \in OwnersOf(org) : n = m PROVE FALSE
    OBVIOUS
  <1>1. OwnersOf(org) = {m} /\ Cardinality({m}) = 1
    BY FS_Singleton
  <1>2. Cardinality(OwnersOf(org)) = 1
    BY <1>1
  <1> QED
    BY <1>2

\* A write that takes the role away takes it from the row it names.
LEMMA UnseatingKeepsOwners ==
    ASSUME Inv, OwnerInv, SpentInv', NEW t \in Tasks, task[t] # Idle,
           Unseats(task[t]), task'[t] = Idle, \A u \in Tasks : u # t => task'[u] = task[u],
           organization' = organization,
           member \ memberIn(task[t].org, task[t].input.member) \subseteq member'
    PROVE  OwnerInv'
  <1>1. ASSUME NEW org PROVE StayersKept(org)
    <2> SUFFICES ASSUME NEW m \in Staying(org) PROVE m \in (OwnersOf(org))'
      BY DEF StayersKept
    <2>1. m \in member /\ m.org = org /\ normalizeRole(m.role) = HIGHEST_ROLE /\ ~Going(m)
      BY DEF Staying, OwnersOf, MembersOf
    <2>2. m \notin memberIn(task[t].org, task[t].input.member)
      BY <2>1 DEF Going, Names, Running, memberIn
    <2> QED
      BY <2>1, <2>2 DEF OwnersOf, MembersOf
  <1> QED
    BY <1>1, OwnersSurvive

\* Whoever is granted the role owns the organisation; whoever keeps it, too.
LEMMA GrantingKeepsOwners ==
    ASSUME Inv, NEW t \in Tasks, MemberUpdateWrite(t), task[t].input.role = HIGHEST_ROLE, NEW org
    PROVE  OwnersKept(org)
  <1> DEFINE rows == memberIn(task[t].org, task[t].input.member)
             updated(m) == [m EXCEPT !.role = <<HIGHEST_ROLE>>]
  <1>1. member' = (member \ rows) \cup {updated(m) : m \in rows}
    BY DEF MemberUpdateWrite
  <1>2. SUFFICES ASSUME NEW m \in OwnersOf(org) PROVE \E n \in (OwnersOf(org))' : n.id = m.id
    BY DEF OwnersKept
  <1>3. m \in member /\ m \in MemberRows /\ m.org = org
    BY DEF OwnersOf, MembersOf, Inv, TableInv
  <1>4. CASE m \notin rows
    BY <1>1, <1>3, <1>4 DEF OwnersOf, MembersOf
  <1>5. CASE m \in rows
    <2>1. updated(m).org = org /\ updated(m).id = m.id /\ updated(m).role = <<HIGHEST_ROLE>>
      BY <1>3 DEF MemberRows
    <2>2. updated(m) \in member'
      BY <1>1, <1>5
    <2> HIDE DEF updated
    <2> QED
      BY <2>1, <2>2, OwnersAreOwners DEF OwnersOf, MembersOf
  <1> QED
    BY <1>4, <1>5

\* A new organisation comes with its owner, a deleted one goes with its members.
LEMMA OrganizationsKeepOwners ==
    ASSUME Inv, OwnerInv, SpentInv', NEW t \in Tasks, task'[t] = Idle,
           \A u \in Tasks : u # t => task'[u] = task[u],
           OrganizationCreateWrite(t) \/ OrganizationUpdateWrite(t) \/ OrganizationDelete(t)
    PROVE  OwnerInv'
  <1>1. CASE OrganizationCreateWrite(t)
    <2> DEFINE org == [id |-> nextId, slug |-> task[t].input.slug]
               owner == [id |-> nextId + 1, org |-> nextId, user |-> task[t].user,
                         role |-> <<HIGHEST_ROLE>>]
    <2>1. \/ UNCHANGED <<organization, member>>
          \/ organization' = organization \cup {org} /\ member' = member \cup {owner}
      BY <1>1 DEF OrganizationCreateWrite
    <2>2. org.id = nextId /\ owner.org = nextId /\ normalizeRole(owner.role) = HIGHEST_ROLE
      BY OwnersAreOwners
    <2>3. nextId \in Nat
      BY DEF Inv, TableInv
    <2> HIDE DEF org, owner
    <2>4. ASSUME NEW o \in organization PROVE StayersKept(o.id)
      BY <2>1 DEF StayersKept, Staying, OwnersOf, MembersOf
    <2>5. CASE organization' = organization \cup {org} /\ member' = member \cup {owner}
      <3>1. ASSUME NEW id, id = nextId PROVE owner \in (OwnersOf(id))'
        BY <2>2, <2>5, <3>1 DEF OwnersOf, MembersOf
      <3>2. ASSUME NEW o, o = org PROVE o.id >= nextId /\ (OwnersOf(o.id))' # {}
        BY <2>2, <2>3, <3>1, <3>2
      <3> QED
        BY <2>4, <2>5, <3>2, OwnersSurvive
    <2>6. CASE UNCHANGED <<organization, member>>
      BY <2>4, <2>6, OwnersSurvive
    <2> QED
      BY <2>1, <2>5, <2>6
  <1>2. CASE OrganizationUpdateWrite(t)
    <2>1. \A o \in organization' : \E p \in organization : p.id = o.id
      <3> DEFINE renamed(o) == IF o.id = task[t].org THEN [o EXCEPT !.slug = task[t].input.slug] ELSE o
      <3>1. \A o \in organization : renamed(o).id = o.id
        BY DEF Inv, TableInv, OrganizationRows
      <3>2. organization' = organization \/ organization' = {renamed(o) : o \in organization}
        BY <1>2 DEF OrganizationUpdateWrite
      <3> HIDE DEF renamed
      <3> QED
        BY <3>1, <3>2
    <2>2. member' = member
      BY <1>2 DEF OrganizationUpdateWrite
    <2> QED
      BY <2>1, <2>2, OwnersStay
  <1>3. CASE OrganizationDelete(t)
    <2>1. /\ organization' = {o \in organization : o.id # task[t].org}
          /\ member' = {m \in member : m.org # task[t].org}
      BY <1>3 DEF OrganizationDelete, MembersOf
    <2>2. ASSUME NEW o \in organization' PROVE o \in organization /\ StayersKept(o.id)
      BY <2>1 DEF StayersKept, Staying, OwnersOf, MembersOf
    <2> QED
      BY <2>2, OwnersSurvive
  <1> QED
    BY <1>1, <1>2, <1>3

LEMMA OwnerStep ==
    ASSUME Inv, OwnerInv, ~OwnersRace', [Next]_vars PROVE OwnerInv'
  <1>0. SpentInv'
    BY SpentStep DEF OwnerInv
  <1>1. CASE UNCHANGED vars
    BY <1>0, <1>1, OwnersStay DEF vars, tables
  <1>2. CASE AcceptInvitation \/ PublishCommand
    BY <1>0, <1>2, OwnersStay DEF AcceptInvitation, PublishCommand, tables
  <1>3. ASSUME NEW t \in Tasks, Step(t) PROVE OwnerInv'
    <2> DEFINE org == task[t].org
               rows == memberIn(task[t].org, task[t].input.member)
    <2>1. \A u \in Tasks : u # t => task'[u] = task[u]
      BY <1>3, OnlyOneTask
    <2>2. CASE CallRpc(t) \/ DeliverCommand(t)
      <3>1. task'[t].pc = "read" /\ UNCHANGED <<organization, member>>
        BY <2>2, Starts DEF CallRpc, DeliverCommand, tables
      <3>2. Unseats(task'[t]) => Removes(task'[t])
        BY <3>1 DEF Unseats
      <3>3. CASE task'[t] = Idle
        BY <1>0, <2>1, <3>1, <3>3, OwnersStay
      <3>4. CASE task'[t] # Idle
        BY <1>0, <2>1, <3>1, <3>2, <3>4, OwnersGoOn
      <3> QED
        BY <3>3, <3>4
    <2>3. CASE MemberCreateRead(t) \/ SlugRead(t)
      <3>1. /\ task[t] # Idle
            /\ task[t].kind \notin {<<"membership", "delete">>, <<"member", "update">>,
                                    <<"member", "delete">>}
            /\ UNCHANGED <<organization, member>> /\ (Done(t) \/ Goto(t, "write"))
        BY <2>3 DEF MemberCreateRead, SlugRead, At, tables
      <3>2. task'[t] = Idle \/ ~Unseats(task'[t])
        BY <3>1, Stops, GoesOn DEF Unseats, Removes
      <3> QED
        BY <1>0, <2>1, <3>1, <3>2, OwnersStay
    <2>4. CASE MemberUpdateRead(t)
      <3>1. /\ task[t] # Idle /\ task[t].kind = <<"member", "update">>
            /\ UNCHANGED <<organization, member>>
        BY <2>4 DEF MemberUpdateRead, At, tables
      <3>2. CASE Done(t)
        BY <1>0, <2>1, <3>1, <3>2, Stops, OwnersStay
      <3>3. CASE Goto(t, "count")
        <4>1. ~Unseats(task'[t])
          BY <3>1, <3>3, GoesOn DEF Unseats, Removes
        <4> QED
          BY <1>0, <2>1, <3>1, <4>1, OwnersStay
      <3>4. CASE /\ Goto(t, "write")
                 /\ \/ task[t].input.role = HIGHEST_ROLE
                    \/ \A m \in rows : normalizeRole(m.role) # HIGHEST_ROLE
        <4>1. /\ task'[t].pc = "write" /\ task'[t].kind = task[t].kind
              /\ task'[t].org = org /\ task'[t].input = task[t].input
          BY <3>1, <3>4, GoesOn
        <4>2. CASE task[t].input.role = HIGHEST_ROLE
          <5>1. ~Unseats(task'[t])
            BY <3>1, <4>1, <4>2 DEF Unseats, Removes
          <5> QED
            BY <1>0, <2>1, <3>1, <5>1, OwnersStay
        <4>3. CASE \A m \in rows : normalizeRole(m.role) # HIGHEST_ROLE
          <5>1. task'[t] # Idle
            BY <3>1, <3>4, WriteIsNotIdle
          <5>2. ASSUME NEW id, NEW m \in OwnersOf(id) PROVE ~Names(task'[t], m)
            BY <4>1, <4>3 DEF Names, memberIn, OwnersOf, MembersOf
          <5> QED
            BY <1>0, <2>1, <3>1, <5>1, <5>2, OwnersGoOn
        <4> QED
          BY <3>4, <4>2, <4>3
      <3> QED
        BY <2>4, <3>2, <3>3, <3>4 DEF MemberUpdateRead
    <2>5. CASE MembershipDeleteRead(t)
      <3>1. task[t] # Idle /\ UNCHANGED <<organization, member>>
        BY <2>5 DEF MembershipDeleteRead, At, tables
      <3>2. CASE task'[t] = Idle
        BY <1>0, <2>1, <3>1, <3>2, OwnersStay
      <3>3. ASSUME NEW m \in membershipOf(org, task[t].user), task'[t].org = org,
                   task'[t].kind = <<"membership", "delete">>, task'[t].input.member = m.id,
                   task'[t].pc = IF normalizeRole(m.role) = HIGHEST_ROLE THEN "count" ELSE "write",
                   task'[t] # Idle
            PROVE  OwnerInv'
        <4>1. CASE normalizeRole(m.role) = HIGHEST_ROLE
          <5>1. ~Unseats(task'[t])
            BY <3>3, <4>1 DEF Unseats, Removes
          <5> QED
            BY <1>0, <2>1, <3>1, <5>1, OwnersStay
        <4>2. CASE normalizeRole(m.role) # HIGHEST_ROLE
          <5>1. m \in member /\ \A n \in member : n.id = m.id => n = m
            BY DEF membershipOf, MembersOf, Inv, TableInv
          <5>2. ASSUME NEW id, NEW n \in OwnersOf(id) PROVE ~Names(task'[t], n)
            BY <3>3, <4>2, <5>1 DEF Names, OwnersOf, MembersOf
          <5> QED
            BY <1>0, <2>1, <3>1, <3>3, <5>2, OwnersGoOn
        <4> QED
          BY <4>1, <4>2
      <3> QED
        BY <2>5, <3>2, <3>3, Leaving
    <2>6. CASE AssertNotTheLastOwner(t)
      <3>1. task[t] # Idle /\ UNCHANGED <<organization, member>>
        BY <2>6 DEF AssertNotTheLastOwner, tables
      <3>2. CASE Done(t)
        BY <1>0, <2>1, <3>1, <3>2, Stops, OwnersStay
      <3>3. CASE Goto(t, "write") /\ ~(Cardinality(OwnersOf(org)) <= 1)
        <4>1. task'[t].pc = "write" /\ task'[t].org = org /\ task'[t] # Idle
          BY <3>1, <3>3, GoesOn, WriteIsNotIdle
        <4>2. ASSUME NEW o \in organization, NEW m \in OwnersOf(o.id), Names(task'[t], m)
              PROVE  \E n \in OwnersOf(o.id) : n # m
          <5>1. o.id = org
            BY <4>1, <4>2 DEF Names, OwnersOf, MembersOf
          <5> QED
            BY <3>3, <4>2, <5>1, AnotherOwner
        <4> QED
          BY <1>0, <2>1, <3>1, <4>1, <4>2, OwnersGoOn
      <3> QED
        BY <2>6, <3>2, <3>3 DEF AssertNotTheLastOwner
    <2>7. CASE MemberCreateWrite(t) \/ InvitationDelete(t)
      <3>1. Done(t) /\ UNCHANGED <<organization, member>>
        BY <2>7 DEF MemberCreateWrite, InvitationDelete
      <3> QED
        BY <1>0, <2>1, <3>1, Stops, OwnersStay
    <2>8. CASE MemberDelete(t)
      <3>1. /\ task[t] # Idle /\ Unseats(task[t])
            /\ Done(t) /\ organization' = organization /\ member \ rows \subseteq member'
        BY <2>8 DEF MemberDelete, At, Unseats, Removes
      <3> QED
        BY <1>0, <2>1, <3>1, Stops, UnseatingKeepsOwners
    <2>9. CASE MemberUpdateWrite(t)
      <3>1. /\ task[t] # Idle /\ task[t].kind = <<"member", "update">> /\ task[t].pc = "write"
            /\ Done(t) /\ organization' = organization /\ member \ rows \subseteq member'
        BY <2>9 DEF MemberUpdateWrite, At
      <3>2. CASE task[t].input.role = HIGHEST_ROLE
        <4>1. \A o \in organization' : StayersKept(o.id)
          BY <2>9, <3>2, GrantingKeepsOwners DEF OwnersKept, StayersKept, Staying
        <4> QED
          BY <1>0, <2>1, <3>1, <4>1, Stops, OwnersSurvive
      <3>3. CASE task[t].input.role # HIGHEST_ROLE
        <4>1. Unseats(task[t])
          BY <3>1, <3>3 DEF Unseats
        <4> QED
          BY <1>0, <2>1, <3>1, <4>1, Stops, UnseatingKeepsOwners
      <3> QED
        BY <3>2, <3>3
    <2>10. CASE MembershipDeleteWrite(t)
      <3>1. /\ task[t] # Idle /\ Unseats(task[t])
            /\ Done(t) /\ organization' = organization /\ member \ rows \subseteq member'
        BY <2>10 DEF MembershipDeleteWrite, At, Unseats
      <3> QED
        BY <1>0, <2>1, <3>1, Stops, UnseatingKeepsOwners
    <2>11. CASE OrganizationCreateWrite(t) \/ OrganizationUpdateWrite(t) \/ OrganizationDelete(t)
      <3>1. Done(t)
        BY <2>11 DEF OrganizationCreateWrite, OrganizationUpdateWrite, OrganizationDelete
      <3> QED
        BY <1>0, <2>1, <2>11, <3>1, Stops, OrganizationsKeepOwners
    <2> QED
      BY <1>3, <2>2, <2>3, <2>4, <2>5, <2>6, <2>7, <2>8, <2>9, <2>10, <2>11 DEF Step
  <1> QED
    BY <1>1, <1>2, <1>3 DEF Next

\* However the handlers interleave, no organisation loses its last owner: not to
\* owners who leave or are removed, not to owners whose role is changed, not to
\* a role granted or an organisation deleted in between - unless the writes under
\* way come to name every owner of one organisation and no count was to see it
\* (index.ts, assertNotTheLastOwner).
THEOREM OwnersRemain ==
    ASSUME OwnersToStart
    PROVE  Spec /\ []~OwnersRace => []EveryOrganizationHasAnOwner
  <1>1. Init => OwnerInv
    <2> SUFFICES ASSUME Init PROVE OwnerInv
      OBVIOUS
    <2>1. /\ organization \in InitialOrganizations /\ member \in InitialMembers
          /\ \A t \in Tasks : task[t] = Idle /\ command = <<>>
      BY DEF Init
    <2>2. \A o \in organization : OwnersOf(o.id) # {}
      BY <2>1 DEF OwnersToStart, OwnersOf, MembersOf
    <2>3. \A org : Staying(org) = OwnersOf(org)
      BY <2>1 DEF Staying, Going, Running
    <2>4. SpentInv
      BY DEF Init, SpentInv
    <2> QED
      BY <2>2, <2>3, <2>4 DEF OwnerInv
  <1>2. Inv /\ OwnerInv /\ (~OwnersRace)' /\ [Next]_vars => OwnerInv'
    BY OwnerStep
  <1>3. OwnerInv => EveryOrganizationHasAnOwner
    BY DEF OwnerInv, EveryOrganizationHasAnOwner, Staying
  <1> QED
    BY <1>1, <1>2, <1>3, Invariance, PTL DEF Spec

\* The specification that spares the two races is the system until one happens.
LEMMA RaceFree == RaceFreeSpec => Spec /\ []~OwnersRace /\ []~InvitationRace
  <1>1. Init => ~OwnersRace /\ ~InvitationRace
    BY DEF Init, OwnersRace, InvitationRace, Staying, Going, Running
  <1>2. ~OwnersRace /\ ~InvitationRace /\ [RaceFreeNext]_vars =>
           [Next]_vars /\ (~OwnersRace /\ ~InvitationRace)'
    <2>1. CASE RaceFreeNext
      BY <2>1 DEF RaceFreeNext, AvoidsTheRaces
    <2>2. CASE UNCHANGED vars
      <3>1. UNCHANGED <<organization, member, task>>
        BY <2>2 DEF vars, tables
      <3>2. OwnersRace' = OwnersRace
        BY <3>1 DEF OwnersRace, Staying, Going, OwnersOf, MembersOf, Running, Unseats, Removes, Names
      <3>3. InvitationRace' = InvitationRace
        BY <3>1 DEF InvitationRace, Running, Inserts
      <3> QED
        BY <2>2, <3>2, <3>3
    <2> QED
      BY <2>1, <2>2
  <1> QED
    BY <1>1, <1>2, PTL DEF RaceFreeSpec, Spec

\* What the race-free run checks, for all handlers, tenants and people.
THEOREM RacesAside ==
    ASSUME OwnersToStart
    PROVE  RaceFreeSpec => []EveryOrganizationHasAnOwner /\ []OnePendingInvitation
  BY RaceFree, OwnersRemain, InvitedOnce, PTL
=============================================================================

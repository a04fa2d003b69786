------------------------------- MODULE MCBlock -------------------------------
(***************************************************************************)
(* Instances of Block over operations of the real registry, with a tick of *)
(* one second.                                                             *)
(***************************************************************************)
EXTENDS Block

R == INSTANCE Registry

TickMs == 1000

\* The registry's rule of o = <<resource, operation>>, its timeout in ticks.
RegistryRule(o) ==
    LET rule == R!ruleFor(o[1], o[2])
    IN  [minRole |-> rule.minRole, transport |-> rule.transport,
         consumes |-> rule.consumes, audit |-> rule.audit,
         timeout |-> rule.timeoutMs \div TickMs]

MCRule == [o \in Ops |-> RegistryRule(o)]

\* Every mutation of the registry is audited.
MCReads == {o \in Ops : ~RegistryRule(o).audit}

MCMaxTimeout == R!MAX_TIMEOUT_MS \div TickMs

\* One query, one audited and plan-limited mutation, the one command.
ProjectRead  == <<"project", "read">>
ProjectCreate == <<"project", "create">>
MemberUpdate == <<"member", "update">>
MemberCreate == <<"member", "create">>

CallOps    == {ProjectRead, ProjectCreate, MemberUpdate, MemberCreate}
MutationOps == {ProjectCreate}

CONSTANTS c1, c2

\* Two HTTP requests, or one tRPC batch of two calls.
OwnIds   == [c \in Calls |-> c]
SharedId == [c \in Calls |-> c1]

Bodies == {NoRole, "owner", UnknownRole}
PlainBodies == {NoRole}
=============================================================================

-------------------------------- MODULE Roles --------------------------------
(***************************************************************************)
(* The role ladder of an organisation and the operators the registry       *)
(* derives from it (packages/registry/src/define.ts and derive.ts).  Both  *)
(* halves of the block, the registry and the identity service use it.      *)
(***************************************************************************)
EXTENDS Integers

\* ORG_ROLES and ROLE_RANK: the ladder, lowest first.
ORG_ROLES == {"member", "admin", "owner"}

ROLE_RANK == [r \in ORG_ROLES |-> CASE r = "member" -> 1
                                    [] r = "admin"  -> 2
                                    [] r = "owner"  -> 3]

\* The two ends of the ladder, found by rank and never by name.
LOWEST_ROLE == CHOOSE r \in ORG_ROLES : \A q \in ORG_ROLES : ROLE_RANK[r] <= ROLE_RANK[q]

HIGHEST_ROLE == CHOOSE r \in ORG_ROLES : \A q \in ORG_ROLES : ROLE_RANK[r] >= ROLE_RANK[q]

roleAtLeast(actual, required) == ROLE_RANK[actual] >= ROLE_RANK[required]

\* Every role an actor may hand out: nobody grants a role above their own.
assignableRoles(actor) == {r \in ORG_ROLES : roleAtLeast(actor, r)}

\* A body that names no role (namedRole returns null).
NoRole == "no role named"

\* A name no organisation declares; it is refused like a role above one's own.
UnknownRole == "a name no organisation declares"

NamedRoles == ORG_ROLES \cup {NoRole, UnknownRole}

\* Slip: a role name nobody declared passes the gate.
refusedKnownRole(named, actor) == named \in ORG_ROLES /\ named \notin assignableRoles(actor)

\* refusedRole # null: the body names a role the actor may not grant.
refusedRole(named, actor) == named # NoRole /\ named \notin assignableRoles(actor)
=============================================================================

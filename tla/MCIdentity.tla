----------------------------- MODULE MCIdentity -----------------------------
(***************************************************************************)
(* Instances of Identity: two people in one organisation, the second in    *)
(* every role the text column may spell, and one of them owning another    *)
(* organisation.                                                           *)
(***************************************************************************)
EXTENDS Identity

CONSTANTS u1, u2, s1, s2, s3

Row(id, org, user, role) == [id |-> id, org |-> org, user |-> user, role |-> role]

\* Role columns, one of them with two roles in it, one with none we know.
Columns == {<<"member">>, <<"admin">>, <<"owner">>, <<"admin", "owner">>, <<"guest">>}

OneOrganization == {{[id |-> 1, slug |-> s1]}}

OneTenant == {{Row(3, 1, u1, <<"owner">>), Row(4, 1, u2, column)} : column \in Columns}

TwoOrganizations == {{[id |-> 1, slug |-> s1], [id |-> 2, slug |-> s2]}}

TwoTenants == {{Row(3, 1, u1, <<"owner">>), Row(4, 1, u2, <<"owner">>), Row(5, 2, u2, <<"owner">>)}}

RaceFreeKinds   == {<<"member", "create">>, <<"member", "update">>, <<"membership", "delete">>,
                    <<"member", "delete">>, <<"invitation", "delete">>, <<"organization", "delete">>}
ConcurrentKinds == {<<"organization", "create">>, <<"organization", "update">>,
                    <<"organization", "delete">>, <<"member", "update">>,
                    <<"member", "delete">>, <<"membership", "delete">>}
RemoveKinds     == {<<"member", "delete">>}
=============================================================================

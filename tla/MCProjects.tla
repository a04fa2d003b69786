----------------------------- MODULE MCProjects -----------------------------
(***************************************************************************)
(* Instances of Projects: tables of three rows created within two          *)
(* milliseconds, in every order and with every tie, one of them archived   *)
(* or of another tenant.                                                   *)
(***************************************************************************)
EXTENDS Projects, TLC

CONSTANTS o1, o2, s1, s2, s3, t1, t2

Row(id, org, slug, createdAt, archived) ==
    [id |-> id, org |-> org, slug |-> slug, createdAt |-> createdAt, archived |-> archived]

\* Three milliseconds, a tie among the oldest, among the newest, an exact one.
Times == {<<0, 2, 4>>, <<0, 1, 2>>, <<3, 2, 0>>, <<2, 2, 0>>}

Tables ==
    {{Row(1, o1, s1, t[1], FALSE), Row(2, o1, s2, t[2], archived), Row(3, org, s3, t[3], FALSE)} :
        t \in Times, archived \in BOOLEAN, org \in {o1, o2}}
    
Symmetric == Permutations(Tasks)
=============================================================================

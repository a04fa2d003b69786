----------------------------- MODULE MCSession -----------------------------
(***************************************************************************)
(* Instances of Session: a workspace of one's own and one other            *)
(* organisation.                                                           *)
(***************************************************************************)
EXTENDS Session

CONSTANTS own, other
=============================================================================

---------------------------- MODULE MCEventTrail ----------------------------
(***************************************************************************)
(* Instances of EventTrail: a consuming mutation and one that consumes     *)
(* nothing, under request ids of their own.                                *)
(***************************************************************************)
EXTENDS EventTrail

CONSTANTS created, updated

OwnIds == [e \in Events |-> e]
=============================================================================

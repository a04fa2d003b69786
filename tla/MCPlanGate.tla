----------------------------- MODULE MCPlanGate -----------------------------
(***************************************************************************)
(* Instances of PlanGate: an organisation one project below the free       *)
(* plan's limit or at it.                                                  *)
(***************************************************************************)
EXTENDS PlanGate, TLC

CONSTANTS c1, c2, c3, g1

Symmetric == Permutations(Calls)
=============================================================================

---------------------------- MODULE MCActivePlan ----------------------------
EXTENDS ActivePlan, TLC

CONSTANTS r1, r2, qa, qb, ka, kb

(* Each query a plan of its own, or two windows over one plan. *)
OneKeyEach == qa :> ka @@ qb :> kb
OneKeyShared == qa :> ka @@ qb :> ka

Nothing == <<NoQuery, 0>>

=============================================================================

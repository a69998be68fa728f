------------------------------ MODULE MCClient ------------------------------
(* A live query with two request ids, two mutations, a pipe of two events and *)
(* one lost connection; the bounds are in the configurations.                 *)
EXTENDS ClientSubscription, TLC
=============================================================================

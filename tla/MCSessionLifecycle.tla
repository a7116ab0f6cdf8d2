------------------------- MODULE MCSessionLifecycle -------------------------
(* Instances of SessionLifecycle for TLC. *)
EXTENDS SessionLifecycle, TLC

UserSymmetry == Permutations(User)
=============================================================================

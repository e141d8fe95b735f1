---------------------------- MODULE MCObjectIndex ----------------------------
(* Three keys with two ETags each, for ObjectIndex. *)
EXTENDS ObjectIndex, TLC

CONSTANTS k1, k2, k3

KeySymmetry == Permutations({k1, k2, k3})
=============================================================================

---------------------------- MODULE MCDocLifecycle ----------------------------
(* Instances of DocLifecycle for TLC. *)
EXTENDS DocLifecycle, TLC

CONSTANTS k1, k2, h1, h2

KbSymmetry == Permutations(Kbs)
=============================================================================

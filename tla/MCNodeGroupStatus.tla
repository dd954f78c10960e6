-------------------------- MODULE MCNodeGroupStatus --------------------------
(* Instances of NodeGroupStatus for TLC. *)
EXTENDS NodeGroupStatus

CONSTANTS w1, w2
=============================================================================

----------------------------- MODULE MCFlowGraph -----------------------------
(* Instances of FlowGraph for TLC. *)
EXTENDS FlowGraph

CONSTANTS a, b, c, s, e, w1, w2

\* Chains, a fork and a join, a cycle; nodes that lead nowhere or come from nowhere.
SomeEdges == {<<s, a>>, <<a, b>>, <<a, c>>, <<b, c>>, <<c, b>>, <<c, e>>}
=============================================================================

----------------------------- MODULE MCStreamCall -----------------------------
(* Instances of StreamCall for TLC. *)
EXTENDS StreamCall

CONSTANTS g1, g2, g3, h1, h2, c1

\* Two streams of one helper and one of another.
Makers == [g \in Streams |-> IF g = g3 THEN h2 ELSE h1]
Items == [g \in Streams |-> IF g = g3 THEN 2 ELSE 1]
=============================================================================

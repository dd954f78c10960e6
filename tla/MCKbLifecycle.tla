----------------------------- MODULE MCKbLifecycle -----------------------------
(* Instances of KbLifecycle for TLC. *)
EXTENDS KbLifecycle, TLC

CONSTANTS d1, d2, a1, a2, t1, t2

\* Two documents of one algorithm, one document of two.
TwoTasks == {[docs |-> {d1, d2}, algos |-> {a1}], [docs |-> {d1}, algos |-> {a1, a2}]}
=============================================================================

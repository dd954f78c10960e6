--------------------------- MODULE MCParseTaskQueue ---------------------------
(* Instances of ParseTaskQueue for TLC. *)
EXTENDS ParseTaskQueue, TLC

CONSTANTS t1, t2, t3, w1, w2, w3

\* t1 and t2 are adds of the same priority, t3 is a delete (base.py weights).
MCScore == [t \in Tasks |-> IF t = t3 THEN 100 ELSE 1000]
MCBad == {t2}
MCAllStatuses == Reportable
WorkerSymmetry == Permutations(Workers)
=============================================================================

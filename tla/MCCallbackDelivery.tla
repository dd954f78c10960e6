-------------------------- MODULE MCCallbackDelivery --------------------------
(* Instances of CallbackDelivery for TLC. *)
EXTENDS CallbackDelivery, TLC

CONSTANTS t1, h1, h2

MCOneItem == [t \in Tasks |-> 1]
MCTwoItems == [t \in Tasks |-> 2]
HandlerSymmetry == Permutations(Handlers)
=============================================================================

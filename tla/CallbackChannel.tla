---------------------------- MODULE CallbackChannel ----------------------------
(***************************************************************************)
(* What the callbacks of the parsing service promise to the document       *)
(* service: a callback that was sent is applied at most once, or is lost;  *)
(* the deterministic callback_id of server.py _default_post_func ("ensures *)
(* idempotent callbacks") is there for that.  Nothing is promised about    *)
(* the order.  CallbackDelivery implements this.                           *)
(***************************************************************************)
EXTENDS SequencesExt

CONSTANT Callbacks

VARIABLES
  pending,  \* callbacks that were sent and may still be applied
  applied   \* callbacks in the order in which they were applied

chanVars == <<pending, applied>>

WasApplied(c) == c \in Range(applied)

ChanInit == pending = {} /\ applied = << >>

\* Sending again what was applied has no effect.
Send(S) ==
  /\ pending' = pending \cup {c \in S : ~WasApplied(c)}
  /\ UNCHANGED applied

Deliver(c) ==
  /\ c \in pending
  /\ pending' = pending \ {c}
  /\ applied' = Append(applied, c)

Lose(S) ==
  /\ pending' = pending \ S
  /\ UNCHANGED applied

ChanNext ==
  \/ \E S \in SUBSET Callbacks : Send(S) \/ Lose(S)
  \/ \E c \in Callbacks : Deliver(c)

ChanSpec == ChanInit /\ [][ChanNext]_chanVars
=============================================================================

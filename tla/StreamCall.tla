------------------------------ MODULE StreamCall ------------------------------
(***************************************************************************)
(* StreamCallHelper (lazyllm/module/stream_helper.py): a blocking call runs *)
(* in a pool of threads and puts what it has to say into the queue of its   *)
(* session (lazyllm/common/queue.py); a generator polls the queue until the *)
(* call is done, and closes: it cancels the call, or asks it to stop, and   *)
(* waits for it.  Other threads may close the helper at any time.           *)
(*                                                                         *)
(* Each stream has a session of its own, that is consumed in a context of   *)
(* its own (init_sid).  The queue is that of SQLite: the file lock makes    *)
(* every operation one step.                                               *)
(***************************************************************************)
EXTENDS Integers, Sequences, FiniteSets

CONSTANTS
  Streams,   \* generators
  Helpers, HelperOf,  \* the helper that each of them was made by
  Overlap,   \* whether a helper may be called while another stream of it is open
  Closers,   \* other threads, each of which may call close() once
  PoolSize,  \* threads of the pool
  MaxItems   \* bound, per stream: messages of a call

None == "NONE"

ASSUME StreamAssumption ==
  /\ IsFiniteSet(Streams) /\ Streams \cap Closers = {} /\ None \notin Streams
  /\ HelperOf \in [Streams -> Helpers]
  /\ Overlap \in BOOLEAN
  /\ PoolSize \in Nat \ {0} /\ MaxItems \in [Streams -> Nat]

VARIABLES
  rows,      \* per stream: the queue of its session
  sent,      \* per stream: how many messages its call has put into it
  future,    \* per stream: the future of its call
  current,   \* per helper: the stream whose future it has
  notified,  \* per helper: _cancel_notified
  pc,        \* per stream and closer
  target,    \* per stream and closer: the stream whose call it asks to stop
  batch,     \* per stream: messages taken from the queue and not yet yielded
  yielded,   \* per stream: messages yielded
  quit,      \* history, per stream: its consumer has closed the generator early
  asked,     \* history, per helper: close() was called by another thread
  calls      \* history, per stream: calls of on_cancel for it

call == <<rows, sent, future>>
helper == <<current, notified>>
vars == <<call, helper, pc, target, batch, yielded, quit, asked, calls>>

Procs == Streams \cup Closers

TypeOK ==
  /\ rows \in [Streams -> Seq(Nat)]
  /\ batch \in [Streams -> Seq(Nat)] /\ yielded \in [Streams -> Seq(Nat)]
  /\ sent \in [Streams -> Nat] /\ \A g \in Streams : sent[g] <= MaxItems[g]
  /\ future \in [Streams -> {"none", "pending", "running", "done", "canceled"}]
  /\ current \in [Helpers -> Streams \cup {None}] /\ notified \in [Helpers -> BOOLEAN]
  /\ pc \in [Procs -> {"new", "poll", "fetch", "yield", "lastFetch", "lastYield", "close",
                       "notify", "join", "closed"}]
  /\ target \in [Procs -> Streams \cup {None}]
  /\ quit \in [Streams -> BOOLEAN] /\ asked \in [Helpers -> BOOLEAN]
  /\ calls \in [Streams -> Nat]
  \* no more calls run than the pool has threads
  /\ Cardinality({g \in Streams : future[g] = "running"}) <= PoolSize

Init ==
  /\ rows = [g \in Streams |-> << >>] /\ sent = [g \in Streams |-> 0]
  /\ future = [g \in Streams |-> "none"]
  /\ current = [h \in Helpers |-> None] /\ notified = [h \in Helpers |-> FALSE]
  /\ pc = [p \in Procs |-> "new"] /\ target = [p \in Procs |-> None]
  /\ batch = [g \in Streams |-> << >>] /\ yielded = [g \in Streams |-> << >>]
  /\ quit = [g \in Streams |-> FALSE] /\ asked = [h \in Helpers |-> FALSE]
  /\ calls = [g \in Streams |-> 0]

Ended(g) == future[g] \in {"done", "canceled"}
Goto(p, place) == pc' = [pc EXCEPT ![p] = place]

-----------------------------------------------------------------------------
(* The call, in a thread of the pool.                                      *)

\* Seeded: the pool has a thread for everyone.
Run_Unbounded(g) ==
  /\ future[g] = "pending"
  /\ future' = [future EXCEPT ![g] = "running"]
  /\ UNCHANGED <<rows, sent, helper, pc, target, batch, yielded, quit, asked, calls>>

Run(g) ==
  /\ future[g] = "pending"
  /\ Cardinality({k \in Streams : future[k] = "running"}) < PoolSize
  /\ future' = [future EXCEPT ![g] = "running"]
  /\ UNCHANGED <<rows, sent, helper, pc, target, batch, yielded, quit, asked, calls>>

Enqueue(g) ==
  /\ future[g] = "running" /\ sent[g] < MaxItems[g]
  /\ sent' = [sent EXCEPT ![g] = @ + 1]
  /\ rows' = [rows EXCEPT ![g] = Append(@, sent'[g])]
  /\ UNCHANGED <<future, helper, pc, target, batch, yielded, quit, asked, calls>>

\* It returns or raises, asked to or not.
Finish(g) ==
  /\ future[g] = "running"
  /\ future' = [future EXCEPT ![g] = "done"]
  /\ UNCHANGED <<rows, sent, helper, pc, target, batch, yielded, quit, asked, calls>>

-----------------------------------------------------------------------------
(* The generator.                                                          *)

MayCall(g) ==
  Overlap \/ \A k \in Streams \ {g} : HelperOf[k] = HelperOf[g] => pc[k] \in {"new", "closed"}

Submit(g) ==
  /\ pc[g] = "new" /\ MayCall(g) /\ Goto(g, "poll")
  /\ rows' = [rows EXCEPT ![g] = << >>]
  /\ notified' = [notified EXCEPT ![HelperOf[g]] = FALSE]
  /\ future' = [future EXCEPT ![g] = "pending"]
  /\ current' = [current EXCEPT ![HelperOf[g]] = g]
  /\ UNCHANGED <<sent, target, batch, yielded, quit, asked, calls>>

\* Seeded: nothing is fetched once the call is done.
Poll_NoLast(g) ==
  /\ pc[g] = "poll" /\ Goto(g, IF Ended(g) THEN "close" ELSE "fetch")
  /\ UNCHANGED <<call, helper, target, batch, yielded, quit, asked, calls>>

\* Seeded: a call that was canceled is not done.
Poll_Result(g) ==
  /\ pc[g] = "poll" /\ Goto(g, IF future[g] = "done" THEN "lastFetch" ELSE "fetch")
  /\ UNCHANGED <<call, helper, target, batch, yielded, quit, asked, calls>>

Poll(g) ==
  /\ pc[g] = "poll" /\ Goto(g, IF Ended(g) THEN "lastFetch" ELSE "fetch")
  /\ UNCHANGED <<call, helper, target, batch, yielded, quit, asked, calls>>

Yielding(g, items) ==
  /\ yielded' = [yielded EXCEPT ![g] = Append(@, Head(items))]
  /\ batch' = [batch EXCEPT ![g] = Tail(items)]

\* Takes all there is and yields the first of it; nothing to take: it sleeps, or is through.
Fetch(g) ==
  /\ pc[g] \in {"fetch", "lastFetch"}
  /\ rows' = [rows EXCEPT ![g] = << >>]
  /\ IF rows[g] = << >>
     THEN Goto(g, IF pc[g] = "fetch" THEN "poll" ELSE "close") /\ UNCHANGED <<batch, yielded>>
     ELSE Goto(g, IF pc[g] = "fetch" THEN "yield" ELSE "lastYield") /\ Yielding(g, rows[g])
  /\ UNCHANGED <<sent, future, helper, target, quit, asked, calls>>

\* The consumer asks for the next message, or closes the generator where it has stopped.
Resume(g) ==
  /\ pc[g] \in {"yield", "lastYield"}
  /\ IF batch[g] = << >>
     THEN Goto(g, IF pc[g] = "yield" THEN "poll" ELSE "close") /\ UNCHANGED <<batch, yielded>>
     ELSE Yielding(g, batch[g]) /\ UNCHANGED pc
  /\ UNCHANGED <<call, helper, target, quit, asked, calls>>

Quit(g) ==
  /\ pc[g] \in {"yield", "lastYield"}
  /\ quit' = [quit EXCEPT ![g] = TRUE] /\ Goto(g, "close")
  /\ UNCHANGED <<call, helper, target, batch, yielded, asked, calls>>

-----------------------------------------------------------------------------
(* close().                                                                *)

\* Seeded: a call that runs is asked to stop by everyone who closes.
RequestCancel_Again(p, h) ==
  LET g == current[h] IN
  CASE g = None -> Goto(p, "closed") /\ UNCHANGED <<future, notified, target>>
    [] g # None /\ future[g] = "pending" ->
         future' = [future EXCEPT ![g] = "canceled"] /\ Goto(p, "join") /\ UNCHANGED <<notified, target>>
    [] g # None /\ future[g] = "running" ->
         /\ notified' = [notified EXCEPT ![h] = TRUE] /\ target' = [target EXCEPT ![p] = g]
         /\ Goto(p, "notify") /\ UNCHANGED future
    [] OTHER -> Goto(p, "join") /\ UNCHANGED <<future, notified, target>>

\* _request_cancel, of the call that the helper has now: one that waits is canceled, one
\* that runs is asked to stop, once.
RequestCancel(p, h) ==
  LET g == current[h] IN
  CASE g = None -> Goto(p, "closed") /\ UNCHANGED <<future, notified, target>>
    [] g # None /\ future[g] = "pending" ->
         future' = [future EXCEPT ![g] = "canceled"] /\ Goto(p, "join") /\ UNCHANGED <<notified, target>>
    [] g # None /\ future[g] = "running" /\ ~notified[h] ->
         /\ notified' = [notified EXCEPT ![h] = TRUE] /\ target' = [target EXCEPT ![p] = g]
         /\ Goto(p, "notify") /\ UNCHANGED future
    [] OTHER -> Goto(p, "join") /\ UNCHANGED <<future, notified, target>>

Close(g) ==
  /\ pc[g] = "close" /\ RequestCancel(g, HelperOf[g])
  /\ UNCHANGED <<rows, sent, current, batch, yielded, quit, asked, calls>>

CloseFromOutside(c, h) ==
  /\ pc[c] = "new" /\ asked' = [asked EXCEPT ![h] = TRUE] /\ RequestCancel(c, h)
  /\ UNCHANGED <<rows, sent, current, batch, yielded, quit, calls>>

\* on_cancel, outside the lock; an error of it is only logged.
Notify(p) ==
  /\ pc[p] = "notify" /\ Goto(p, "join")
  /\ calls' = [calls EXCEPT ![target[p]] = @ + 1]
  /\ UNCHANGED <<call, helper, target, batch, yielded, quit, asked>>

\* Seeded: close() does not wait.
Join_NoWait(p, h) ==
  /\ pc[p] = "join" /\ (p \in Streams => h = HelperOf[p])
  /\ Goto(p, "closed")
  /\ UNCHANGED <<call, helper, target, batch, yielded, quit, asked, calls>>

\* Waits for the call that the helper has now.
Join(p, h) ==
  /\ pc[p] = "join" /\ (p \in Streams => h = HelperOf[p])
  /\ current[h] # None /\ Ended(current[h])
  /\ Goto(p, "closed")
  /\ UNCHANGED <<call, helper, target, batch, yielded, quit, asked, calls>>

-----------------------------------------------------------------------------
Produce(g) == Run(g) \/ Finish(g)
Consume(g) == Submit(g) \/ Poll(g) \/ Fetch(g) \/ Resume(g) \/ Close(g)
Closing(p) == Notify(p) \/ \E h \in Helpers : Join(p, h)

Next ==
  \/ \E g \in Streams : Produce(g) \/ Enqueue(g) \/ Consume(g) \/ Quit(g)
  \/ \E p \in Procs : Closing(p)
  \/ \E c \in Closers, h \in Helpers : CloseFromOutside(c, h)

Spec == Init /\ [][Next]_vars

\* Calls get their thread and return in the end; a generator is consumed, or closed.
FairSpec ==
  /\ Spec
  /\ \A g \in Streams : WF_vars(Produce(g)) /\ WF_vars(Consume(g))
  /\ \A p \in Procs : WF_vars(Closing(p))

-----------------------------------------------------------------------------
\* What the call has put into the queue is yielded, about to be, or still there: each
\* message once and in order, none lost when the queue is cleared or the call ends.
NothingLost ==
  \A g \in Streams : yielded[g] \o batch[g] \o rows[g] = [i \in 1..sent[g] |-> i]

\* A generator that runs to its end has yielded everything: its last fetch comes after
\* the call is done (_drain).
AllYielded ==
  \A g \in Streams :
    pc[g] \in {"close", "notify", "join", "closed"} /\ ~quit[g] => Ended(g) /\ Len(yielded[g]) = sent[g]

\* No message is lost or repeated, and none is left when a stream ends by itself
\* (_drain, SQLiteQueue).
Delivered == NothingLost /\ AllYielded

\* A generator that is closed has no call any more, waiting or running (close).
Joined == \A g \in Streams : pc[g] = "closed" => Ended(g)

\* on_cancel is called at most once for a call, for one that had begun, and only when
\* somebody closed before its end.
CalledOnce ==
  \A g \in Streams :
    /\ calls[g] <= 1
    /\ calls[g] = 1 => (quit[g] \/ asked[HelperOf[g]]) /\ future[g] \in {"running", "done"}

\* Every stream that has begun is closed in the end, and so is every helper that another
\* thread has begun to close.
StreamEnds == \A p \in Procs : pc[p] # "new" ~> pc[p] = "closed"
=============================================================================

---------------------------- MODULE StreamCallProofs ----------------------------
(***************************************************************************)
(* Proofs about StreamCall: its types, that no message is lost or          *)
(* repeated, that a closed stream has no call left, and that on_cancel is  *)
(* called once at most.                                                    *)
(***************************************************************************)
EXTENDS StreamCall, FiniteSetTheorems, SequenceTheorems, TLAPS

-----------------------------------------------------------------------------
(* Sequences: what a stream has yielded, has taken and has in its queue.   *)

LEMMA AppendToConcat ==
  ASSUME NEW s \in Seq(Nat), NEW r \in Seq(Nat), NEW e \in Nat
  PROVE  Append(r, e) \in Seq(Nat) /\ s \o Append(r, e) = Append(s \o r, e)
  <1>1. Append(r, e) \in Seq(Nat) /\ Append(r, e) = r \o <<e>>
    BY AppendProperties, AppendIsConcat
  <1>2. s \o r \in Seq(Nat)
    BY ConcatProperties
  <1>3. Append(s \o r, e) = (s \o r) \o <<e>>
    BY <1>2, AppendIsConcat
  <1>4. (s \o r) \o <<e>> = s \o (r \o <<e>>)
    <2>1. <<e>> \in Seq(Nat)
      OBVIOUS
    <2> QED BY <2>1, ConcatAssociative
  <1> QED BY <1>1, <1>3, <1>4

LEMMA CountOn ==
  ASSUME NEW n \in Nat
  PROVE  Append([i \in 1..n |-> i], n + 1) = [i \in 1..(n + 1) |-> i]
  <1> DEFINE upto == [i \in 1..n |-> i]
             last == Append(upto, n + 1)
             next == [i \in 1..(n + 1) |-> i]
  <1>1. upto \in Seq(Nat) /\ Len(upto) = n /\ next \in Seq(Nat) /\ Len(next) = n + 1
    OBVIOUS
  <1>2. /\ last \in Seq(Nat) /\ Len(last) = n + 1
        /\ \A i \in 1..n : last[i] = upto[i]
        /\ last[n + 1] = n + 1
    <2> HIDE DEF upto
    <2> QED BY <1>1, AppendProperties
  <1>3. ASSUME NEW i \in 1..(n + 1) PROVE last[i] = next[i]
    <2> HIDE DEF last
    <2> QED BY <1>2
  <1>4. last = next
    <2> HIDE DEF last, next
    <2> QED BY <1>1, <1>2, <1>3, SeqEqual
  <1> QED BY <1>4

UpTo(n) == [i \in 1..n |-> i]

\* A message is put at the end of the queue.
LEMMA PutLast ==
  ASSUME NEW s \in Seq(Nat), NEW r \in Seq(Nat), NEW n \in Nat, s \o r = UpTo(n)
  PROVE  Append(r, n + 1) \in Seq(Nat) /\ s \o Append(r, n + 1) = UpTo(n + 1)
  <1>1. n + 1 \in Nat
    OBVIOUS
  <1>2. Append(r, n + 1) \in Seq(Nat) /\ s \o Append(r, n + 1) = Append(s \o r, n + 1)
    BY <1>1, AppendToConcat
  <1>3. Append(UpTo(n), n + 1) = UpTo(n + 1)
    BY CountOn DEF UpTo
  <1> QED BY <1>2, <1>3

\* The first message of what was taken is yielded.
LEMMA TakeFirst ==
  ASSUME NEW y \in Seq(Nat), NEW b \in Seq(Nat), b # << >>
  PROVE  /\ Append(y, Head(b)) \in Seq(Nat) /\ Tail(b) \in Seq(Nat)
         /\ Append(y, Head(b)) \o Tail(b) = y \o b
  <1>1. /\ Head(b) \in Nat /\ Tail(b) \in Seq(Nat) /\ Tail(b) = SubSeq(b, 2, Len(b))
        /\ Len(b) \in Nat \ {0}
    BY HeadTailProperties, TailIsSubSeq, EmptySeq
  <1>2. b = <<Head(b)>> \o Tail(b)
    <2>1. SubSeq(b, 1, Len(b)) = <<b[1]>> \o SubSeq(b, 1 + 1, Len(b))
      BY <1>1, SubSeqRecursiveFirst
    <2>2. SubSeq(b, 1, Len(b)) = b
      BY SubSeqFull
    <2>3. b[1] = Head(b)
      BY <1>1
    <2> QED BY <1>1, <2>1, <2>2, <2>3
  <1>3. Append(y, Head(b)) = y \o <<Head(b)>> /\ Append(y, Head(b)) \in Seq(Nat)
    BY <1>1, AppendIsConcat, AppendProperties
  <1>4. (y \o <<Head(b)>>) \o Tail(b) = y \o (<<Head(b)>> \o Tail(b))
    <2>1. <<Head(b)>> \in Seq(Nat)
      BY <1>1
    <2> QED BY <1>1, <2>1, ConcatAssociative
  <1> QED BY <1>1, <1>2, <1>3, <1>4

-----------------------------------------------------------------------------
(* The invariant.                                                          *)

Shut == {"close", "notify", "join", "closed"}

\* A stream has no messages but those that its call has put, a call that has ended puts
\* no more, and the last fetch leaves none.
StreamInv(g) ==
  /\ yielded[g] \o batch[g] \o rows[g] = [i \in 1..sent[g] |-> i]
  /\ pc[g] = "new" <=> future[g] = "none"
  /\ pc[g] = "new" => rows[g] = << >>
  /\ pc[g] \in {"new", "poll", "fetch", "lastFetch"} => batch[g] = << >>
  /\ pc[g] \in {"lastFetch", "lastYield"} => Ended(g)
  /\ pc[g] = "lastYield" => rows[g] = << >>
  /\ pc[g] \in Shut /\ ~quit[g] => Ended(g) /\ batch[g] = << >> /\ rows[g] = << >>

IInv == TypeOK /\ \A g \in Streams : StreamInv(g)

\* A helper has the call of the stream that is open.
Owner ==
  /\ \A g \in Streams : pc[g] \notin {"new", "closed"} => current[HelperOf[g]] = g
  /\ \A h \in Helpers : current[h] # None => HelperOf[current[h]] = h

\* Somebody has called on_cancel for the stream, or is about to.
Asking(g) == calls[g] = 1 \/ \E p \in Procs : pc[p] = "notify" /\ target[p] = g

\* One thread at most asks a call to stop, and the helper remembers it for as long as it
\* has the call.
CallInv ==
  /\ \A p \in Procs : pc[p] = "notify" => target[p] \in Streams /\ calls[target[p]] = 0
  /\ \A p, q \in Procs :
       pc[p] = "notify" /\ pc[q] = "notify" /\ target[p] = target[q] => p = q
  /\ \A g \in Streams : calls[g] \in {0, 1}
  /\ \A g \in Streams : Asking(g) =>
       /\ future[g] \in {"running", "done"} /\ (quit[g] \/ asked[HelperOf[g]])
       /\ current[HelperOf[g]] = g => notified[HelperOf[g]]

SerialInv == IInv /\ Owner /\ Joined /\ CallInv

-----------------------------------------------------------------------------
(* What all steps share.                                                   *)

Running == {g \in Streams : future[g] = "running"}

\* Only a call that begins takes a thread of the pool.
LEMMA PoolKept ==
  ASSUME TypeOK, \A g \in Streams : future'[g] = "running" => future[g] = "running"
  PROVE  Cardinality({g \in Streams : future'[g] = "running"}) <= PoolSize
  <1> DEFINE after == {g \in Streams : future'[g] = "running"}
  <1>1. IsFiniteSet(Running) /\ after \subseteq Running /\ Cardinality(Running) <= PoolSize
    <2>1. Running \subseteq Streams /\ after \subseteq Running
      BY DEF Running
    <2>2. Cardinality(Running) <= PoolSize
      BY DEF TypeOK, Running
    <2>3. IsFiniteSet(Running)
      BY <2>1, StreamAssumption, FS_Subset
    <2> QED BY <2>1, <2>2, <2>3
  <1>2. /\ IsFiniteSet(after) /\ Cardinality(after) <= Cardinality(Running)
    BY <1>1, FS_Subset
  <1>3. Cardinality(after) \in Nat /\ Cardinality(Running) \in Nat
    BY <1>1, <1>2, FS_CardinalityType
  <1> HIDE DEF after
  <1> QED
    <2>1. Cardinality(after) <= PoolSize
      BY <1>1, <1>2, <1>3, StreamAssumption
    <2> QED BY <2>1 DEF after

\* How a call may go on behind a stream's back.
Onward(g) ==
  \/ future'[g] = future[g]
  \/ future[g] = "pending" /\ future'[g] \in {"running", "canceled"}
  \/ future[g] = "running" /\ future'[g] = "done"

\* A stream that does nothing itself keeps its invariant.
LEMMA StreamKept ==
  ASSUME NEW g \in Streams, StreamInv(g), Onward(g),
         rows'[g] = rows[g], sent'[g] = sent[g], pc'[g] = pc[g],
         batch'[g] = batch[g], yielded'[g] = yielded[g], quit'[g] = quit[g]
  PROVE  StreamInv(g)'
  BY DEF StreamInv, Onward, Ended

\* Closing: what _request_cancel leaves.
LEMMA CancelStep ==
  ASSUME TypeOK, NEW p \in Procs, NEW h \in Helpers, RequestCancel(p, h)
  PROVE  \E place \in {"closed", "join", "notify"} :
           /\ pc' = [pc EXCEPT ![p] = place]
           /\ future' \in [Streams -> {"none", "pending", "running", "done", "canceled"}]
           /\ \A g \in Streams : Onward(g) /\ (future[g] # "pending" => future'[g] = future[g])
           /\ \A g \in Streams : future'[g] = "running" => future[g] = "running"
           /\ place = "closed" => current[h] = None
           /\ place = "notify" =>
                /\ current[h] \in Streams /\ future[current[h]] = "running" /\ ~notified[h]
                /\ notified' = [notified EXCEPT ![h] = TRUE]
                /\ target' = [target EXCEPT ![p] = current[h]]
           /\ place # "notify" => UNCHANGED <<notified, target>>
  <1> DEFINE g == current[h]
  <1>1. g \in Streams \cup {None} /\ future \in [Streams -> {"none", "pending", "running", "done", "canceled"}]
    BY DEF TypeOK
  <1>2. CASE g = None
    BY <1>1, <1>2 DEF RequestCancel, Goto, Onward
  <1>3. CASE g # None /\ future[g] = "pending"
    <2>1. future' = [future EXCEPT ![g] = "canceled"] /\ pc' = [pc EXCEPT ![p] = "join"]
          /\ UNCHANGED <<notified, target>>
      BY <1>3 DEF RequestCancel, Goto
    <2> HIDE DEF g
    <2> QED BY <1>1, <1>3, <2>1 DEF Onward
  <1>4. CASE g # None /\ future[g] = "running" /\ ~notified[h]
    <2>1. /\ future' = future /\ pc' = [pc EXCEPT ![p] = "notify"]
          /\ notified' = [notified EXCEPT ![h] = TRUE] /\ target' = [target EXCEPT ![p] = g]
      BY <1>4 DEF RequestCancel, Goto
    <2> QED BY <1>1, <1>4, <2>1 DEF Onward
  <1>5. CASE g # None /\ future[g] # "pending" /\ ~(future[g] = "running" /\ ~notified[h])
    <2>1. future' = future /\ pc' = [pc EXCEPT ![p] = "join"] /\ UNCHANGED <<notified, target>>
      BY <1>5 DEF RequestCancel, Goto
    <2> QED BY <1>1, <2>1 DEF Onward
  <1> QED BY <1>2, <1>3, <1>4, <1>5

-----------------------------------------------------------------------------
(* Types and messages, however the helpers are used.                       *)

LEMMA InvInit == Init => IInv
  <1> SUFFICES ASSUME Init PROVE IInv
    OBVIOUS
  <1> USE DEF Init
  <1>1. Cardinality({g \in Streams : future[g] = "running"}) <= PoolSize
    <2> DEFINE now == {g \in Streams : future[g] = "running"}
    <2>1. now = {}
      OBVIOUS
    <2>2. Cardinality({}) = 0
      BY FS_EmptySet
    <2> HIDE DEF now
    <2>3. Cardinality(now) <= PoolSize
      BY <2>1, <2>2, StreamAssumption
    <2> QED BY <2>3 DEF now
  <1>2. \A g \in Streams : sent[g] <= MaxItems[g]
    BY StreamAssumption
  <1>3. << >> \in Seq(Nat) /\ rows \in [Streams -> Seq(Nat)]
        /\ batch \in [Streams -> Seq(Nat)] /\ yielded \in [Streams -> Seq(Nat)]
    OBVIOUS
  <1>4. /\ sent \in [Streams -> Nat] /\ calls \in [Streams -> Nat]
        /\ quit \in [Streams -> BOOLEAN] /\ asked \in [Helpers -> BOOLEAN]
    OBVIOUS
  <1>5. /\ future \in [Streams -> {"none", "pending", "running", "done", "canceled"}]
        /\ current \in [Helpers -> Streams \cup {None}] /\ notified \in [Helpers -> BOOLEAN]
        /\ target \in [Procs -> Streams \cup {None}]
    OBVIOUS
  <1>6. pc \in [Procs -> {"new", "poll", "fetch", "yield", "lastFetch", "lastYield", "close",
                          "notify", "join", "closed"}]
    OBVIOUS
  <1>7. TypeOK
    BY <1>1, <1>2, <1>3, <1>4, <1>5, <1>6 DEF TypeOK
  <1>8. ASSUME NEW g \in Streams PROVE StreamInv(g)
    <2>1. << >> \o << >> \o << >> = [i \in 1..0 |-> i]
      OBVIOUS
    <2>2. g \in Procs
      BY DEF Procs
    <2> QED BY <2>1, <2>2 DEF StreamInv, Shut, Ended
  <1> QED BY <1>7, <1>8 DEF IInv

LEMMA InvRun ==
  ASSUME IInv, NEW g \in Streams, Run(g)
  PROVE  IInv'
  <1>1. /\ TypeOK /\ future[g] = "pending" /\ future' = [future EXCEPT ![g] = "running"]
        /\ Cardinality(Running) < PoolSize
        /\ UNCHANGED <<rows, sent, current, notified, pc, target, batch, yielded, quit, asked, calls>>
    BY DEF IInv, Run, Running, helper
  <1>2. future' \in [Streams -> {"none", "pending", "running", "done", "canceled"}]
        /\ \A k \in Streams : future'[k] = IF k = g THEN "running" ELSE future[k]
    BY <1>1 DEF TypeOK
  <1>3. Cardinality({k \in Streams : future'[k] = "running"}) <= PoolSize
    <2> DEFINE after == {k \in Streams : future'[k] = "running"}
    <2>1. after = Running \cup {g}
      BY <1>2 DEF Running
    <2>2. IsFiniteSet(Running)
      BY StreamAssumption, FS_Subset DEF Running
    <2>3. Cardinality(Running) \in Nat
          /\ Cardinality(Running \cup {g}) \in {Cardinality(Running), Cardinality(Running) + 1}
      BY <2>2, FS_AddElement, FS_CardinalityType
    <2>4. Cardinality(Running \cup {g}) <= PoolSize
      BY <1>1, <2>3, StreamAssumption
    <2> HIDE DEF after
    <2>5. Cardinality(after) <= PoolSize
      BY <2>1, <2>4
    <2> QED BY <2>5 DEF after
  <1>4. TypeOK'
    BY <1>1, <1>2, <1>3 DEF TypeOK
  <1>5. \A k \in Streams : StreamInv(k)'
    BY <1>1, <1>2, StreamKept DEF IInv, Onward
  <1> QED BY <1>4, <1>5 DEF IInv

LEMMA InvFinish ==
  ASSUME IInv, NEW g \in Streams, Finish(g)
  PROVE  IInv'
  <1>1. /\ TypeOK /\ future[g] = "running" /\ future' = [future EXCEPT ![g] = "done"]
        /\ UNCHANGED <<rows, sent, current, notified, pc, target, batch, yielded, quit, asked, calls>>
    BY DEF IInv, Finish, helper
  <1>2. future' \in [Streams -> {"none", "pending", "running", "done", "canceled"}]
        /\ \A k \in Streams : future'[k] = IF k = g THEN "done" ELSE future[k]
    BY <1>1 DEF TypeOK
  <1>3. Cardinality({k \in Streams : future'[k] = "running"}) <= PoolSize
    BY <1>1, <1>2, PoolKept
  <1>4. TypeOK'
    BY <1>1, <1>2, <1>3 DEF TypeOK
  <1>5. \A k \in Streams : StreamInv(k)'
    BY <1>1, <1>2, StreamKept DEF IInv, Onward
  <1> QED BY <1>4, <1>5 DEF IInv

LEMMA InvEnqueue ==
  ASSUME IInv, NEW g \in Streams, Enqueue(g)
  PROVE  IInv'
  <1>1. /\ TypeOK /\ StreamInv(g) /\ future[g] = "running" /\ sent[g] < MaxItems[g]
        /\ sent' = [sent EXCEPT ![g] = sent[g] + 1]
        /\ rows' = [rows EXCEPT ![g] = Append(rows[g], sent'[g])]
        /\ UNCHANGED <<future, current, notified, pc, target, batch, yielded, quit, asked, calls>>
    BY DEF IInv, Enqueue, helper
  <1>2. /\ sent[g] \in Nat /\ rows[g] \in Seq(Nat) /\ batch[g] \in Seq(Nat) /\ yielded[g] \in Seq(Nat)
        /\ sent'[g] = sent[g] + 1 /\ rows'[g] = Append(rows[g], sent[g] + 1)
        /\ \A k \in Streams \ {g} : sent'[k] = sent[k] /\ rows'[k] = rows[k]
    BY <1>1 DEF TypeOK
  <1>3. /\ rows'[g] \in Seq(Nat)
        /\ (yielded[g] \o batch[g]) \o rows'[g] = [i \in 1..sent'[g] |-> i]
    <2> DEFINE s == yielded[g] \o batch[g]
               r == rows[g]
               n == sent[g]
    <2>1. s \in Seq(Nat) /\ r \in Seq(Nat) /\ n \in Nat
      BY <1>2, ConcatProperties
    <2>2. s \o r = UpTo(n)
      BY <1>1 DEF StreamInv, UpTo
    <2>3. Append(r, n + 1) \in Seq(Nat) /\ s \o Append(r, n + 1) = UpTo(n + 1)
      <3> HIDE DEF s, r, n
      <3> QED BY ONLY <2>1, <2>2, PutLast
    <2> QED BY <1>2, <2>3 DEF UpTo
  <1>4. TypeOK'
    <2>1. rows' \in [Streams -> Seq(Nat)]
      <3> DEFINE r == Append(rows[g], sent'[g])
      <3>1. rows' = [rows EXCEPT ![g] = r] /\ rows \in [Streams -> Seq(Nat)] /\ r \in Seq(Nat)
        BY <1>1, <1>2, <1>3 DEF TypeOK
      <3> HIDE DEF r
      <3> QED BY <3>1
    <2>2. sent' \in [Streams -> Nat] /\ \A k \in Streams : sent'[k] <= MaxItems[k]
      <3>1. sent \in [Streams -> Nat] /\ MaxItems \in [Streams -> Nat]
            /\ \A k \in Streams : sent[k] <= MaxItems[k]
        BY <1>1, StreamAssumption DEF TypeOK
      <3>2. sent' \in [Streams -> Nat]
        BY <1>1, <1>2, <3>1
      <3>3. sent'[g] <= MaxItems[g]
        BY <1>1, <1>2, <3>1
      <3> QED BY <1>2, <3>1, <3>2, <3>3
    <2> QED BY <1>1, <2>1, <2>2 DEF TypeOK
  <1>5. ASSUME NEW k \in Streams PROVE StreamInv(k)'
    <2>1. CASE k = g
      BY <1>1, <1>3, <2>1 DEF StreamInv, Ended
    <2>2. CASE k # g
      BY <1>1, <1>2, <2>2, StreamKept DEF IInv, Onward
    <2> QED BY <2>1, <2>2
  <1> QED BY <1>4, <1>5 DEF IInv

Places == {"new", "poll", "fetch", "yield", "lastFetch", "lastYield", "close", "notify", "join", "closed"}

\* A stream goes on: every other stream is as it was.
LEMMA StreamStep ==
  ASSUME IInv, NEW g \in Streams, NEW place \in Places, Goto(g, place),
         NEW b \in Seq(Nat), batch' = [batch EXCEPT ![g] = b],
         NEW y \in Seq(Nat), yielded' = [yielded EXCEPT ![g] = y],
         NEW r \in Seq(Nat), rows' = [rows EXCEPT ![g] = r],
         UNCHANGED <<sent, future, current, notified, target, quit, asked, calls>>
  PROVE  /\ TypeOK'
         /\ pc'[g] = place /\ batch'[g] = b /\ yielded'[g] = y /\ rows'[g] = r
         /\ \A k \in Streams \ {g} : StreamInv(k)'
  <1>1. /\ TypeOK /\ pc' = [pc EXCEPT ![g] = place] /\ g \in Procs
        /\ pc \in [Procs -> Places]
    BY DEF IInv, TypeOK, Goto, Procs, Places
  <1>2. /\ batch' \in [Streams -> Seq(Nat)] /\ yielded' \in [Streams -> Seq(Nat)]
        /\ rows' \in [Streams -> Seq(Nat)]
        /\ batch'[g] = b /\ yielded'[g] = y /\ rows'[g] = r
        /\ \A k \in Streams \ {g} : batch'[k] = batch[k] /\ yielded'[k] = yielded[k] /\ rows'[k] = rows[k]
    BY <1>1 DEF TypeOK
  <1>3. pc' \in [Procs -> Places] /\ pc'[g] = place /\ \A k \in Streams \ {g} : pc'[k] = pc[k]
    BY <1>1 DEF Procs
  <1>4. TypeOK'
    BY <1>1, <1>2, <1>3 DEF TypeOK, Places
  <1>5. ASSUME NEW k \in Streams \ {g} PROVE StreamInv(k)'
    BY <1>2, <1>3, StreamKept DEF IInv, Onward
  <1> QED BY <1>2, <1>3, <1>4, <1>5

LEMMA Unpack ==
  ASSUME IInv, NEW g \in Streams
  PROVE  /\ StreamInv(g) /\ g \in Procs
         /\ rows[g] \in Seq(Nat) /\ batch[g] \in Seq(Nat) /\ yielded[g] \in Seq(Nat)
         /\ sent[g] \in Nat
         /\ rows = [rows EXCEPT ![g] = rows[g]] /\ batch = [batch EXCEPT ![g] = batch[g]]
         /\ yielded = [yielded EXCEPT ![g] = yielded[g]] /\ pc = [pc EXCEPT ![g] = pc[g]]
         /\ HelperOf[g] \in Helpers
  BY StreamAssumption DEF IInv, TypeOK, Procs

LEMMA InvPoll ==
  ASSUME IInv, NEW g \in Streams, Poll(g)
  PROVE  IInv'
  <1>1. PICK place \in {"lastFetch", "fetch"} :
          Goto(g, place) /\ (place = "lastFetch" => Ended(g)) /\ pc[g] = "poll"
    BY DEF Poll
  <1>2. UNCHANGED <<rows, sent, future, current, notified, target, batch, yielded, quit, asked, calls>>
    BY DEF Poll, call, helper
  <1>3. /\ TypeOK' /\ pc'[g] = place /\ \A k \in Streams \ {g} : StreamInv(k)'
    BY <1>1, <1>2, Unpack, StreamStep DEF Places
  <1>4. StreamInv(g)'
    BY <1>1, <1>2, <1>3, Unpack DEF StreamInv, Ended, Shut
  <1> QED BY <1>3, <1>4 DEF IInv

LEMMA InvFetch ==
  ASSUME IInv, NEW g \in Streams, Fetch(g)
  PROVE  IInv'
  <1>1. /\ pc[g] \in {"fetch", "lastFetch"} /\ rows' = [rows EXCEPT ![g] = << >>]
        /\ << >> \in Seq(Nat)
        /\ UNCHANGED <<sent, future, current, notified, target, quit, asked, calls>>
    BY DEF Fetch, helper
  <1>2. batch[g] = << >> /\ StreamInv(g) /\ future[g] # "none" /\ (pc[g] = "lastFetch" => Ended(g))
    BY <1>1, Unpack DEF StreamInv
  <1>3. CASE rows[g] = << >>
    <2>1. PICK place \in {"poll", "close"} :
            Goto(g, place) /\ (place = "close" <=> pc[g] = "lastFetch")
      BY <1>1, <1>3 DEF Fetch
    <2>2. /\ batch' = [batch EXCEPT ![g] = batch[g]] /\ yielded' = [yielded EXCEPT ![g] = yielded[g]]
          /\ batch' = batch /\ yielded' = yielded
          /\ batch[g] \in Seq(Nat) /\ yielded[g] \in Seq(Nat) /\ place \in Places
      BY <1>3, Unpack DEF Fetch, Places
    <2>3. /\ TypeOK' /\ pc'[g] = place /\ rows'[g] = << >>
          /\ \A k \in Streams \ {g} : StreamInv(k)'
      BY <1>1, <2>1, <2>2, StreamStep
    <2>4. StreamInv(g)'
      BY <1>1, <1>2, <1>3, <2>1, <2>2, <2>3 DEF StreamInv, Ended, Shut
    <2> QED BY <2>3, <2>4 DEF IInv
  <1>4. CASE rows[g] # << >>
    <2> DEFINE y == Append(yielded[g], Head(rows[g]))
               b == Tail(rows[g])
    <2>1. PICK place \in {"yield", "lastYield"} :
            Goto(g, place) /\ (place = "lastYield" <=> pc[g] = "lastFetch")
      BY <1>1, <1>4 DEF Fetch
    <2>2. yielded' = [yielded EXCEPT ![g] = y] /\ batch' = [batch EXCEPT ![g] = b]
      BY <1>4 DEF Fetch, Yielding
    <2>3. y \in Seq(Nat) /\ b \in Seq(Nat) /\ y \o b = yielded[g] \o rows[g]
      BY <1>4, Unpack, TakeFirst
    <2> HIDE DEF y, b
    <2>4. /\ TypeOK' /\ pc'[g] = place /\ rows'[g] = << >> /\ batch'[g] = b /\ yielded'[g] = y
          /\ \A k \in Streams \ {g} : StreamInv(k)'
      <3>1. place \in Places
        BY DEF Places
      <3> QED BY <1>1, <2>1, <2>2, <2>3, <3>1, StreamStep
    <2>5. (y \o b) \o << >> = y \o b /\ (yielded[g] \o << >>) = yielded[g]
      BY <2>3, Unpack, ConcatProperties, ConcatEmptySeq
    <2>6. (yielded[g] \o batch[g]) \o rows[g] = [i \in 1..sent[g] |-> i]
      BY <1>2 DEF StreamInv
    <2>7. (y \o b) \o << >> = [i \in 1..sent[g] |-> i]
      BY <1>2, <2>3, <2>5, <2>6
    <2>8. (yielded'[g] \o batch'[g]) \o rows'[g] = [i \in 1..sent'[g] |-> i]
      BY <1>1, <2>4, <2>7
    <2>9. StreamInv(g)'
      BY <1>1, <1>2, <2>1, <2>4, <2>8 DEF StreamInv, Ended, Shut
    <2> QED BY <2>4, <2>9 DEF IInv
  <1> QED BY <1>3, <1>4

LEMMA InvResume ==
  ASSUME IInv, NEW g \in Streams, Resume(g)
  PROVE  IInv'
  <1>1. /\ pc[g] \in {"yield", "lastYield"}
        /\ UNCHANGED <<rows, sent, future, current, notified, target, quit, asked, calls>>
    BY DEF Resume, call, helper
  <1>2. /\ StreamInv(g) /\ future[g] # "none"
        /\ pc[g] = "lastYield" => Ended(g) /\ rows[g] = << >>
    BY <1>1, Unpack DEF StreamInv
  <1>3. CASE batch[g] = << >>
    <2>1. PICK place \in {"poll", "close"} :
            Goto(g, place) /\ (place = "close" <=> pc[g] = "lastYield")
      BY <1>1, <1>3 DEF Resume
    <2>2. UNCHANGED <<batch, yielded>>
      BY <1>3 DEF Resume
    <2>3. TypeOK' /\ pc'[g] = place /\ \A k \in Streams \ {g} : StreamInv(k)'
      BY <1>1, <2>1, <2>2, Unpack, StreamStep DEF Places
    <2>4. StreamInv(g)'
      BY <1>1, <1>2, <1>3, <2>1, <2>2, <2>3 DEF StreamInv, Ended, Shut
    <2> QED BY <2>3, <2>4 DEF IInv
  <1>4. CASE batch[g] # << >>
    <2> DEFINE y == Append(yielded[g], Head(batch[g]))
               b == Tail(batch[g])
    <2>1. /\ yielded' = [yielded EXCEPT ![g] = y] /\ batch' = [batch EXCEPT ![g] = b]
          /\ Goto(g, pc[g])
      BY <1>4, Unpack DEF Resume, Yielding, Goto
    <2>2. y \in Seq(Nat) /\ b \in Seq(Nat) /\ y \o b = yielded[g] \o batch[g]
      BY <1>4, Unpack, TakeFirst
    <2> HIDE DEF y, b
    <2>3. /\ TypeOK' /\ pc'[g] = pc[g] /\ batch'[g] = b /\ yielded'[g] = y
          /\ \A k \in Streams \ {g} : StreamInv(k)'
      <3>1. pc[g] \in Places
        BY <1>1 DEF Places
      <3> DEFINE r == rows[g]
                 place == pc[g]
      <3>2. rows' = [rows EXCEPT ![g] = r] /\ r \in Seq(Nat)
        BY <1>1, Unpack
      <3>3. /\ Goto(g, place) /\ place \in Places
            /\ UNCHANGED <<sent, future, current, notified, target, quit, asked, calls>>
        BY <1>1, <2>1, <3>1
      <3> HIDE DEF r, place
      <3>4. TypeOK' /\ pc'[g] = place /\ \A k \in Streams \ {g} : StreamInv(k)'
        BY <2>1, <2>2, <3>2, <3>3, StreamStep
      <3>5. batch'[g] = b /\ yielded'[g] = y
        BY <2>1, <2>2, <3>2, <3>3, StreamStep
      <3> QED BY <3>4, <3>5 DEF place
    <2>4. (yielded[g] \o batch[g]) \o rows[g] = [i \in 1..sent[g] |-> i]
      BY <1>2 DEF StreamInv
    <2>5. (yielded'[g] \o batch'[g]) \o rows'[g] = [i \in 1..sent'[g] |-> i]
      BY <1>1, <2>2, <2>3, <2>4
    <2>6. StreamInv(g)'
      BY <1>1, <1>2, <2>3, <2>5 DEF StreamInv, Ended, Shut
    <2> QED BY <2>3, <2>6 DEF IInv
  <1> QED BY <1>3, <1>4

LEMMA InvSubmit ==
  ASSUME IInv, NEW g \in Streams, Submit(g)
  PROVE  IInv'
  <1>1. /\ TypeOK /\ pc[g] = "new" /\ pc' = [pc EXCEPT ![g] = "poll"]
        /\ rows' = [rows EXCEPT ![g] = << >>]
        /\ notified' = [notified EXCEPT ![HelperOf[g]] = FALSE]
        /\ future' = [future EXCEPT ![g] = "pending"]
        /\ current' = [current EXCEPT ![HelperOf[g]] = g]
        /\ UNCHANGED <<sent, target, batch, yielded, quit, asked, calls>>
    BY DEF IInv, Submit, Goto
  <1>2. StreamInv(g) /\ rows[g] = << >> /\ batch[g] = << >> /\ HelperOf[g] \in Helpers /\ g \in Procs
    BY <1>1, Unpack DEF StreamInv
  <1>3. /\ \A k \in Streams : rows'[k] = rows[k] /\ future'[k] = IF k = g THEN "pending" ELSE future[k]
        /\ \A k \in Streams : pc'[k] = IF k = g THEN "poll" ELSE pc[k]
    BY <1>1, <1>2 DEF TypeOK, Procs
  <1>4. Cardinality({k \in Streams : future'[k] = "running"}) <= PoolSize
    BY <1>1, <1>3, PoolKept
  <1>5. TypeOK'
    <2>1. rows' \in [Streams -> Seq(Nat)] /\ future' \in [Streams -> {"none", "pending", "running", "done", "canceled"}]
      BY <1>1 DEF TypeOK
    <2>2. current' \in [Helpers -> Streams \cup {None}] /\ notified' \in [Helpers -> BOOLEAN]
      BY <1>1 DEF TypeOK
    <2>3. pc' \in [Procs -> Places]
      BY <1>1, <1>2 DEF TypeOK, Places
    <2> QED BY <1>1, <1>4, <2>1, <2>2, <2>3 DEF TypeOK, Places
  <1>6. ASSUME NEW k \in Streams PROVE StreamInv(k)'
    <2>1. StreamInv(g)'
      <3>1. /\ pc'[g] = "poll" /\ future'[g] = "pending" /\ rows'[g] = rows[g] /\ batch'[g] = << >>
            /\ yielded'[g] = yielded[g] /\ batch'[g] = batch[g] /\ sent'[g] = sent[g]
        BY <1>1, <1>2, <1>3
      <3> QED BY <1>2, <3>1 DEF StreamInv, Shut
    <2>2. CASE k # g
      BY <1>1, <1>3, <2>2, StreamKept DEF IInv, Onward
    <2> QED BY <2>1, <2>2
  <1> QED BY <1>5, <1>6 DEF IInv

LEMMA InvQuit ==
  ASSUME IInv, NEW g \in Streams, Quit(g)
  PROVE  IInv'
  <1>1. /\ TypeOK /\ pc[g] \in {"yield", "lastYield"} /\ pc' = [pc EXCEPT ![g] = "close"]
        /\ quit' = [quit EXCEPT ![g] = TRUE] /\ g \in Procs
        /\ UNCHANGED <<rows, sent, future, current, notified, target, batch, yielded, asked, calls>>
    BY DEF IInv, Quit, Goto, call, helper, Procs
  <1>2. /\ \A k \in Streams : quit'[k] = IF k = g THEN TRUE ELSE quit[k]
        /\ \A k \in Streams : pc'[k] = IF k = g THEN "close" ELSE pc[k]
    BY <1>1 DEF TypeOK, Procs
  <1>3. TypeOK'
    <2>1. quit' \in [Streams -> BOOLEAN] /\ pc' \in [Procs -> Places]
      BY <1>1 DEF TypeOK, Places
    <2> QED BY <1>1, <2>1 DEF TypeOK, Places
  <1>4. ASSUME NEW k \in Streams PROVE StreamInv(k)'
    <2>1. StreamInv(g)'
      <3>1. /\ pc'[g] = "close" /\ quit'[g] = TRUE /\ future'[g] = future[g] /\ rows'[g] = rows[g]
            /\ yielded'[g] = yielded[g] /\ batch'[g] = batch[g] /\ sent'[g] = sent[g]
        BY <1>1, <1>2
      <3>2. StreamInv(g) /\ future[g] # "none"
        BY <1>1, Unpack DEF StreamInv
      <3> QED BY <3>1, <3>2 DEF StreamInv, Shut
    <2>2. CASE k # g
      BY <1>1, <1>2, <2>2, StreamKept DEF IInv, Onward
    <2> QED BY <2>1, <2>2
  <1> QED BY <1>3, <1>4 DEF IInv

\* _request_cancel, by a stream that closes or by another thread.
LEMMA InvCancel ==
  ASSUME IInv, NEW p \in Procs, NEW h \in Helpers, RequestCancel(p, h),
         p \in Streams => pc[p] = "close",
         asked' \in [Helpers -> BOOLEAN],
         UNCHANGED <<rows, sent, current, batch, yielded, quit, calls>>
  PROVE  IInv'
  <1>1. TypeOK /\ pc \in [Procs -> Places] /\ target \in [Procs -> Streams \cup {None}]
        /\ notified \in [Helpers -> BOOLEAN]
    BY DEF IInv, TypeOK, Places
  <1>2. PICK place \in {"closed", "join", "notify"} :
           /\ pc' = [pc EXCEPT ![p] = place]
           /\ future' \in [Streams -> {"none", "pending", "running", "done", "canceled"}]
           /\ \A g \in Streams : Onward(g) /\ (future[g] # "pending" => future'[g] = future[g])
           /\ \A g \in Streams : future'[g] = "running" => future[g] = "running"
           /\ place = "closed" => current[h] = None
           /\ place = "notify" =>
                /\ current[h] \in Streams /\ future[current[h]] = "running" /\ ~notified[h]
                /\ notified' = [notified EXCEPT ![h] = TRUE]
                /\ target' = [target EXCEPT ![p] = current[h]]
           /\ place # "notify" => UNCHANGED <<notified, target>>
    BY <1>1, CancelStep
  <1>3. Cardinality({g \in Streams : future'[g] = "running"}) <= PoolSize
    BY <1>1, <1>2, PoolKept
  <1>4. TypeOK'
    <2>1. pc' \in [Procs -> Places]
      BY <1>1, <1>2 DEF Places
    <2>2. notified' \in [Helpers -> BOOLEAN] /\ target' \in [Procs -> Streams \cup {None}]
      BY <1>1, <1>2
    <2> QED BY <1>1, <1>2, <1>3, <2>1, <2>2 DEF TypeOK, Places
  <1>5. ASSUME NEW k \in Streams PROVE StreamInv(k)'
    <2>1. CASE k = p
      <3>1. /\ pc'[k] = place /\ pc[k] = "close" /\ StreamInv(k)
            /\ Onward(k) /\ (future[k] # "pending" => future'[k] = future[k])
        BY <1>1, <1>2, <2>1 DEF IInv
      <3> QED BY <3>1 DEF StreamInv, Shut, Ended, Onward
    <2>2. CASE k # p
      <3>1. pc'[k] = pc[k] /\ Onward(k) /\ StreamInv(k)
        BY <1>1, <1>2, <2>2 DEF IInv, Procs
      <3> QED BY <3>1, StreamKept
    <2> QED BY <2>1, <2>2
  <1> QED BY <1>4, <1>5 DEF IInv

\* Somebody who closes goes on.
LEMMA InvLeave ==
  ASSUME IInv, NEW p \in Procs, NEW place \in {"join", "closed"}, Goto(p, place),
         pc[p] \in {"notify", "join"}, calls' \in [Streams -> Nat],
         UNCHANGED <<rows, sent, future, current, notified, target, batch, yielded, quit, asked>>
  PROVE  IInv'
  <1>1. TypeOK /\ pc \in [Procs -> Places] /\ pc' = [pc EXCEPT ![p] = place]
    BY DEF IInv, TypeOK, Places, Goto
  <1>2. TypeOK'
    <2>1. pc' \in [Procs -> Places]
      BY <1>1 DEF Places
    <2> QED BY <1>1, <2>1 DEF TypeOK, Places
  <1>3. ASSUME NEW k \in Streams PROVE StreamInv(k)'
    <2>1. CASE k = p
      <3>1. pc'[k] = place /\ pc[k] \in {"notify", "join"} /\ StreamInv(k)
        BY <1>1, <2>1 DEF IInv
      <3> QED BY <3>1 DEF StreamInv, Shut, Ended
    <2>2. CASE k # p
      <3>1. pc'[k] = pc[k] /\ Onward(k) /\ StreamInv(k)
        BY <1>1, <2>2 DEF IInv, Procs, Onward
      <3> QED BY <3>1, StreamKept
    <2> QED BY <2>1, <2>2
  <1> QED BY <1>2, <1>3 DEF IInv

LEMMA InvClosing ==
  ASSUME IInv, NEW p \in Procs, Closing(p)
  PROVE  IInv'
  <1>1. CASE Notify(p)
    <2>1. calls' \in [Streams -> Nat]
      <3>1. calls \in [Streams -> Nat] /\ calls' = [calls EXCEPT ![target[p]] = calls[target[p]] + 1]
        BY <1>1 DEF Notify, IInv, TypeOK
      <3>2. \A g \in Streams : calls'[g] = IF g = target[p] THEN calls[g] + 1 ELSE calls[g]
        BY <3>1
      <3>3. DOMAIN calls' = Streams /\ calls' = [g \in Streams |-> calls'[g]]
        BY <3>1
      <3>4. \A g \in Streams : calls'[g] \in Nat
        <4>1. \A g \in Streams : calls[g] \in Nat
          BY <3>1
        <4> QED BY <3>2, <4>1
      <3> DEFINE after == calls'
      <3>5. after = [g \in Streams |-> after[g]] /\ \A g \in Streams : after[g] \in Nat
        BY <3>3, <3>4
      <3> HIDE DEF after
      <3>6. after \in [Streams -> Nat]
        BY <3>5
      <3> QED BY <3>6 DEF after
    <2> QED BY <1>1, <2>1, InvLeave DEF Notify, call, helper
  <1>2. CASE \E h \in Helpers : Join(p, h)
    <2>1. calls' \in [Streams -> Nat]
      BY <1>2 DEF Join, IInv, TypeOK
    <2>2. /\ pc[p] = "join" /\ Goto(p, "closed")
          /\ UNCHANGED <<rows, sent, future, current, notified, target, batch, yielded, quit, asked>>
      BY <1>2 DEF Join, call, helper
    <2> QED BY <2>1, <2>2, InvLeave
  <1> QED BY <1>1, <1>2 DEF Closing

LEMMA InvClose ==
  ASSUME IInv, NEW g \in Streams, Close(g)
  PROVE  IInv'
  <1>1. asked' \in [Helpers -> BOOLEAN]
    BY DEF Close, IInv, TypeOK
  <1> QED BY <1>1, Unpack, InvCancel DEF Close

LEMMA InvCloseFromOutside ==
  ASSUME IInv, NEW c \in Closers, NEW h \in Helpers, CloseFromOutside(c, h)
  PROVE  IInv'
  <1>1. asked' \in [Helpers -> BOOLEAN]
    BY DEF CloseFromOutside, IInv, TypeOK
  <1>2. c \in Procs /\ c \notin Streams
    BY StreamAssumption DEF Procs
  <1> QED BY <1>1, <1>2, InvCancel DEF CloseFromOutside

LEMMA InvStutter ==
  ASSUME IInv, UNCHANGED vars
  PROVE  IInv'
  BY DEF IInv, TypeOK, StreamInv, Ended, vars, call, helper

LEMMA InvNext == IInv /\ [Next]_vars => IInv'
  <1> SUFFICES ASSUME IInv, [Next]_vars PROVE IInv'
    OBVIOUS
  <1>1. ASSUME NEW g \in Streams, Produce(g) PROVE IInv'
    BY <1>1, InvRun, InvFinish DEF Produce
  <1>2. ASSUME NEW g \in Streams, Enqueue(g) PROVE IInv'
    BY <1>2, InvEnqueue
  <1>3. ASSUME NEW g \in Streams, Consume(g) PROVE IInv'
    BY <1>3, InvSubmit, InvPoll, InvFetch, InvResume, InvClose DEF Consume
  <1>4. ASSUME NEW g \in Streams, Quit(g) PROVE IInv'
    BY <1>4, InvQuit
  <1>5. ASSUME NEW p \in Procs, Closing(p) PROVE IInv'
    BY <1>5, InvClosing
  <1>6. ASSUME NEW c \in Closers, NEW h \in Helpers, CloseFromOutside(c, h) PROVE IInv'
    BY <1>6, InvCloseFromOutside
  <1>7. CASE UNCHANGED vars
    BY <1>7, InvStutter
  <1> QED BY <1>1, <1>2, <1>3, <1>4, <1>5, <1>6, <1>7 DEF Next

LEMMA InvAlways == Spec => []IInv
  BY InvInit, InvNext, PTL DEF Spec

\* Every variable keeps its type, and no more calls run than the pool has threads,
\* whoever closes what.
THEOREM TypeCorrect == Spec => []TypeOK
  <1>1. IInv => TypeOK
    BY DEF IInv
  <1> QED BY <1>1, InvAlways, PTL

\* No message of a call is lost, repeated or reordered between the queue and the consumer,
\* and a stream that is not left early has yielded all of them, for any streams, helpers,
\* overlapping or not, and any other threads that close them.
THEOREM MessagesDelivered == Spec => []Delivered
  <1>1. IInv => Delivered
    <2> SUFFICES ASSUME IInv PROVE Delivered
      OBVIOUS
    <2>1. NothingLost
      BY DEF IInv, StreamInv, NothingLost
    <2>2. AllYielded
      <3> SUFFICES ASSUME NEW g \in Streams, pc[g] \in Shut, ~quit[g]
                   PROVE  Ended(g) /\ Len(yielded[g]) = sent[g]
        BY DEF AllYielded, Shut
      <3>1. Ended(g) /\ batch[g] = << >> /\ rows[g] = << >>
        BY DEF IInv, StreamInv
      <3>2. (yielded[g] \o batch[g]) \o rows[g] = [i \in 1..sent[g] |-> i]
        BY DEF IInv, StreamInv
      <3>3. yielded[g] \in Seq(Nat) /\ sent[g] \in Nat
        BY Unpack
      <3>4. yielded[g] \o << >> = yielded[g]
        BY <3>3, ConcatEmptySeq
      <3>5. yielded[g] = [i \in 1..sent[g] |-> i]
        BY <3>1, <3>2, <3>4
      <3>6. Len([i \in 1..sent[g] |-> i]) = sent[g]
        BY <3>3
      <3> QED BY <3>1, <3>5, <3>6
    <2> QED BY <2>1, <2>2 DEF Delivered
  <1> QED BY <1>1, InvAlways, PTL

-----------------------------------------------------------------------------
(* Closing, when a helper has one open stream at a time.                   *)

\* A step that closes nothing.
LEMMA SerialKept ==
  ASSUME SerialInv, UNCHANGED <<current, notified, target, asked, calls>>,
         \A p \in Procs : pc'[p] = pc[p] \/ {pc[p], pc'[p]} \cap {"new", "closed", "notify"} = {},
         \A g \in Streams : Onward(g) /\ (quit[g] => quit'[g])
  PROVE  Owner' /\ Joined' /\ CallInv'
  <1>1. Owner /\ Joined /\ CallInv /\ Streams \subseteq Procs
    BY DEF SerialInv, Procs
  <1>2. ASSUME NEW p \in Procs, NEW place \in {"new", "closed", "notify"}
        PROVE  pc'[p] = place <=> pc[p] = place
    <2>1. CASE pc'[p] = pc[p]
      BY <2>1
    <2>2. CASE {pc[p], pc'[p]} \cap {"new", "closed", "notify"} = {}
      BY <2>2
    <2> QED BY <2>1, <2>2
  <1>3. Owner'
    BY <1>1, <1>2 DEF Owner
  <1>4. Joined'
    BY <1>1, <1>2 DEF Joined, Onward, Ended
  <1>5. CallInv'
    <2>1. \A g \in Streams : Asking(g)' => Asking(g)
      BY <1>2 DEF Asking
    <2>2. /\ \A p \in Procs : pc'[p] = "notify" => target[p] \in Streams /\ calls[target[p]] = 0
          /\ \A p, q \in Procs :
               pc'[p] = "notify" /\ pc'[q] = "notify" /\ target[p] = target[q] => p = q
          /\ \A g \in Streams : calls[g] \in {0, 1}
      BY <1>1, <1>2 DEF CallInv
    <2>3. ASSUME NEW g \in Streams, Asking(g)'
          PROVE  /\ future'[g] \in {"running", "done"} /\ (quit'[g] \/ asked[HelperOf[g]])
                 /\ current[HelperOf[g]] = g => notified[HelperOf[g]]
      <3>1. Asking(g)
        BY <2>1, <2>3
      <3> QED BY <1>1, <3>1 DEF CallInv, Onward
    <2> QED BY <2>2, <2>3 DEF CallInv
  <1> QED BY <1>3, <1>4, <1>5

LEMMA SerialSubmit ==
  ASSUME SerialInv, ~Overlap, NEW g \in Streams, Submit(g)
  PROVE  Owner' /\ Joined' /\ CallInv'
  <1> DEFINE h == HelperOf[g]
  <1>1. /\ pc[g] = "new" /\ pc' = [pc EXCEPT ![g] = "poll"]
        /\ \A k \in Streams \ {g} : HelperOf[k] = h => pc[k] \in {"new", "closed"}
        /\ notified' = [notified EXCEPT ![h] = FALSE]
        /\ future' = [future EXCEPT ![g] = "pending"]
        /\ current' = [current EXCEPT ![h] = g]
        /\ UNCHANGED <<target, quit, asked, calls>>
    BY DEF Submit, MayCall, Goto
  <1>2. /\ TypeOK /\ Owner /\ Joined /\ CallInv /\ future[g] = "none" /\ h \in Helpers /\ g \in Procs
        /\ \A k \in Streams : HelperOf[k] \in Helpers /\ k \in Procs /\ k # None
    BY <1>1, Unpack, StreamAssumption DEF SerialInv, IInv, StreamInv
  <1>3. /\ \A p \in Procs : pc'[p] = IF p = g THEN "poll" ELSE pc[p]
        /\ \A k \in Streams : future'[k] = IF k = g THEN "pending" ELSE future[k]
        /\ \A i \in Helpers : current'[i] = IF i = h THEN g ELSE current[i]
        /\ \A i \in Helpers : notified'[i] = IF i = h THEN FALSE ELSE notified[i]
    BY <1>1, <1>2 DEF TypeOK
  <1> HIDE DEF h
  <1>4. Owner'
    <2>1. ASSUME NEW k \in Streams, pc'[k] \notin {"new", "closed"} PROVE current'[HelperOf[k]] = k
      <3>1. CASE k = g
        BY <1>2, <1>3, <3>1 DEF h
      <3>2. CASE k # g
        <4>1. pc[k] \notin {"new", "closed"} /\ HelperOf[k] # h
          BY <1>1, <1>2, <1>3, <2>1, <3>2
        <4> QED BY <1>2, <1>3, <4>1 DEF Owner
      <3> QED BY <3>1, <3>2
    <2>2. ASSUME NEW i \in Helpers, current'[i] # None PROVE HelperOf[current'[i]] = i
      <3>1. CASE i = h
        BY <1>3, <3>1 DEF h
      <3>2. CASE i # h
        BY <1>2, <1>3, <2>2, <3>2 DEF Owner
      <3> QED BY <3>1, <3>2
    <2> QED BY <2>1, <2>2 DEF Owner
  <1>5. Joined'
    BY <1>2, <1>3 DEF Joined, Ended
  <1>6. CallInv'
    <2>1. \A p \in Procs : pc'[p] = "notify" => pc[p] = "notify"
      BY <1>3
    <2>2. \A k \in Streams : Asking(k)' => Asking(k)
      BY <1>1, <2>1 DEF Asking
    <2>3. ~Asking(g)
      BY <1>2 DEF CallInv
    <2>4. ASSUME NEW k \in Streams, Asking(k)'
          PROVE  /\ future'[k] \in {"running", "done"} /\ (quit[k] \/ asked[HelperOf[k]])
                 /\ current'[HelperOf[k]] = k => notified'[HelperOf[k]]
      <3>1. Asking(k) /\ k # g
        BY <2>2, <2>3, <2>4
      <3>2. CASE HelperOf[k] = h
        BY <1>2, <1>3, <3>1, <3>2 DEF CallInv
      <3>3. CASE HelperOf[k] # h
        BY <1>2, <1>3, <3>1, <3>3 DEF CallInv
      <3> QED BY <3>2, <3>3
    <2>5. /\ \A p \in Procs : pc'[p] = "notify" => target[p] \in Streams /\ calls[target[p]] = 0
          /\ \A p, q \in Procs :
               pc'[p] = "notify" /\ pc'[q] = "notify" /\ target[p] = target[q] => p = q
          /\ \A k \in Streams : calls[k] \in {0, 1}
      BY <1>2, <2>1 DEF CallInv
    <2> QED BY <1>1, <2>4, <2>5 DEF CallInv
  <1> QED BY <1>4, <1>5, <1>6

\* A call is asked to stop that nobody has asked before, and that somebody closes.
LEMMA SerialCancel ==
  ASSUME SerialInv, NEW p \in Procs, NEW h \in Helpers, RequestCancel(p, h),
         pc[p] \in {"new", "close"},
         p \in Streams => pc[p] = "close" /\ h = HelperOf[p] /\ asked' = asked,
         p \notin Streams => asked' = [asked EXCEPT ![h] = TRUE],
         UNCHANGED <<current, quit, calls>>
  PROVE  Owner' /\ Joined' /\ CallInv'
  <1>1. /\ TypeOK /\ Owner /\ Joined /\ CallInv /\ \A g \in Streams : StreamInv(g)
        /\ pc \in [Procs -> Places] /\ asked \in [Helpers -> BOOLEAN]
        /\ notified \in [Helpers -> BOOLEAN] /\ target \in [Procs -> Streams \cup {None}]
        /\ \A g \in Streams : g \in Procs /\ HelperOf[g] \in Helpers /\ g # None
    BY StreamAssumption DEF SerialInv, IInv, TypeOK, Places, Procs
  <1>2. PICK place \in {"closed", "join", "notify"} :
           /\ pc' = [pc EXCEPT ![p] = place]
           /\ future' \in [Streams -> {"none", "pending", "running", "done", "canceled"}]
           /\ \A g \in Streams : Onward(g) /\ (future[g] # "pending" => future'[g] = future[g])
           /\ \A g \in Streams : future'[g] = "running" => future[g] = "running"
           /\ place = "closed" => current[h] = None
           /\ place = "notify" =>
                /\ current[h] \in Streams /\ future[current[h]] = "running" /\ ~notified[h]
                /\ notified' = [notified EXCEPT ![h] = TRUE]
                /\ target' = [target EXCEPT ![p] = current[h]]
           /\ place # "notify" => UNCHANGED <<notified, target>>
    BY <1>1, CancelStep
  <1>3. /\ \A q \in Procs : pc'[q] = IF q = p THEN place ELSE pc[q]
        /\ \A q \in Procs : q # p => target'[q] = target[q]
        /\ \A i \in Helpers : (asked[i] => asked'[i]) /\ (notified[i] => notified'[i])
    BY <1>1, <1>2
  <1>4. p \in Streams => place # "closed"
    BY <1>1, <1>2 DEF Owner
  <1>5. Owner'
    BY <1>1, <1>3 DEF Owner
  <1>6. Joined'
    BY <1>1, <1>2, <1>3, <1>4 DEF Joined, Ended
  <1>7. CASE place # "notify"
    <2>1. /\ \A q \in Procs : pc'[q] = "notify" => pc[q] = "notify"
          /\ UNCHANGED <<notified, target>>
      BY <1>2, <1>3, <1>7
    <2>2. \A k \in Streams : Asking(k)' => Asking(k)
      BY <2>1 DEF Asking
    <2>3. ASSUME NEW k \in Streams, Asking(k)'
          PROVE  /\ future'[k] \in {"running", "done"} /\ (quit[k] \/ asked'[HelperOf[k]])
                 /\ current[HelperOf[k]] = k => notified[HelperOf[k]]
      <3>1. Asking(k)
        BY <2>2, <2>3
      <3> QED BY <1>1, <1>2, <1>3, <3>1 DEF CallInv
    <2>4. /\ \A q \in Procs : pc'[q] = "notify" => target[q] \in Streams /\ calls[target[q]] = 0
          /\ \A q, r \in Procs :
               pc'[q] = "notify" /\ pc'[r] = "notify" /\ target[q] = target[r] => q = r
          /\ \A k \in Streams : calls[k] \in {0, 1}
      BY <1>1, <2>1 DEF CallInv
    <2>5. CallInv'
      BY <2>1, <2>3, <2>4 DEF CallInv
    <2> QED BY <1>5, <1>6, <2>5
  <1>8. CASE place = "notify"
    <2> DEFINE g == current[h]
    <2>1. /\ g \in Streams /\ future[g] = "running" /\ future'[g] = "running" /\ ~notified[h]
          /\ notified'[h] /\ target'[p] = g /\ HelperOf[g] = h /\ calls[g] \in {0, 1}
      BY <1>1, <1>2, <1>8 DEF Owner, CallInv
    <2>2. ~Asking(g)
      BY <1>1, <2>1 DEF CallInv
    <2>3. calls[g] = 0 /\ \A q \in Procs : pc[q] = "notify" => target[q] # g
      BY <2>1, <2>2 DEF Asking
    <2>4. quit[g] \/ asked'[h]
      <3>1. CASE p \in Streams
        <4>1. g = p
          BY <1>1, <3>1 DEF Owner
        <4>2. ~Ended(g)
          BY <2>1 DEF Ended
        <4> QED BY <1>1, <3>1, <4>1, <4>2 DEF StreamInv, Shut
      <3>2. CASE p \notin Streams
        BY <1>1, <3>2
      <3> QED BY <3>1, <3>2
    <2> HIDE DEF g
    <2>5. \A q \in Procs : q # p /\ pc'[q] = "notify" => pc[q] = "notify" /\ target'[q] = target[q]
      BY <1>3
    <2>6. \A q \in Procs : pc'[q] = "notify" => target'[q] \in Streams /\ calls[target'[q]] = 0
      BY <1>1, <2>1, <2>3, <2>5 DEF CallInv
    <2>7. ASSUME NEW q \in Procs, NEW r \in Procs,
                 pc'[q] = "notify", pc'[r] = "notify", target'[q] = target'[r]
          PROVE  q = r
      BY <1>1, <2>1, <2>3, <2>5, <2>7 DEF CallInv
    <2>8. ASSUME NEW k \in Streams, Asking(k)'
          PROVE  /\ future'[k] \in {"running", "done"} /\ (quit[k] \/ asked'[HelperOf[k]])
                 /\ current[HelperOf[k]] = k => notified'[HelperOf[k]]
      <3>1. CASE k = g
        BY <2>1, <2>4, <3>1
      <3>2. CASE k # g
        <4>1. Asking(k)
          BY <2>1, <2>5, <2>8, <3>2 DEF Asking
        <4> QED BY <1>1, <1>2, <1>3, <4>1 DEF CallInv
      <3> QED BY <3>1, <3>2
    <2>9. CallInv'
      BY <1>1, <2>6, <2>7, <2>8 DEF CallInv
    <2> QED BY <1>5, <1>6, <2>9
  <1> QED BY <1>7, <1>8

LEMMA SerialNotify ==
  ASSUME SerialInv, NEW p \in Procs, Notify(p)
  PROVE  Owner' /\ Joined' /\ CallInv'
  <1> DEFINE t == target[p]
  <1>1. /\ TypeOK /\ Owner /\ Joined /\ CallInv /\ Streams \subseteq Procs
        /\ pc[p] = "notify" /\ pc' = [pc EXCEPT ![p] = "join"]
        /\ calls' = [calls EXCEPT ![t] = calls[t] + 1]
        /\ UNCHANGED <<future, current, notified, target, quit, asked>>
    BY DEF SerialInv, IInv, Notify, Goto, call, helper, Procs
  <1>2. /\ t \in Streams /\ calls[t] = 0 /\ calls'[t] = 1
        /\ \A k \in Streams \ {t} : calls'[k] = calls[k]
        /\ \A q \in Procs : pc'[q] = IF q = p THEN "join" ELSE pc[q]
    BY <1>1 DEF CallInv, TypeOK
  <1>3. Owner' /\ Joined'
    BY <1>1, <1>2 DEF Owner, Joined, Ended
  <1>4. \A k \in Streams : Asking(k)' => Asking(k)
    <2> SUFFICES ASSUME NEW k \in Streams, Asking(k)' PROVE Asking(k)
      OBVIOUS
    <2>1. CASE k = t
      BY <1>1, <2>1 DEF Asking
    <2>2. CASE k # t
      <3>1. CASE calls'[k] = 1
        BY <1>2, <2>2, <3>1 DEF Asking
      <3>2. CASE \E q \in Procs : pc'[q] = "notify" /\ target'[q] = k
        BY <1>1, <1>2, <3>2 DEF Asking
      <3> QED BY <3>1, <3>2 DEF Asking
    <2> QED BY <2>1, <2>2
  <1> HIDE DEF t
  <1>5. \A q \in Procs : pc'[q] = "notify" => q # p /\ pc[q] = "notify" /\ target[q] # t
    BY <1>1, <1>2 DEF CallInv, t
  <1>6. \A q \in Procs : pc'[q] = "notify" => target[q] \in Streams /\ calls'[target[q]] = 0
    BY <1>1, <1>2, <1>5 DEF CallInv
  <1>7. \A q, r \in Procs :
          pc'[q] = "notify" /\ pc'[r] = "notify" /\ target[q] = target[r] => q = r
    BY <1>1, <1>5 DEF CallInv
  <1>8. \A k \in Streams : calls'[k] \in {0, 1}
    BY <1>1, <1>2 DEF CallInv
  <1>9. ASSUME NEW k \in Streams, Asking(k)'
        PROVE  /\ future[k] \in {"running", "done"} /\ (quit[k] \/ asked[HelperOf[k]])
               /\ current[HelperOf[k]] = k => notified[HelperOf[k]]
    BY <1>1, <1>4, <1>9 DEF CallInv
  <1>10. CallInv'
    BY <1>1, <1>6, <1>7, <1>8, <1>9 DEF CallInv
  <1> QED BY <1>3, <1>10

\* The call that is waited for is the stream's own.
LEMMA SerialJoin ==
  ASSUME SerialInv, NEW p \in Procs, NEW h \in Helpers, Join(p, h)
  PROVE  Owner' /\ Joined' /\ CallInv'
  <1>1. /\ TypeOK /\ Owner /\ Joined /\ CallInv
        /\ pc[p] = "join" /\ pc' = [pc EXCEPT ![p] = "closed"]
        /\ p \in Streams => h = HelperOf[p]
        /\ current[h] # None /\ Ended(current[h])
        /\ UNCHANGED <<future, current, notified, target, quit, asked, calls>>
    BY DEF SerialInv, IInv, Join, Goto, call, helper
  <1>2. /\ \A q \in Procs : pc'[q] = IF q = p THEN "closed" ELSE pc[q]
        /\ \A k \in Streams : k \in Procs
    BY <1>1 DEF TypeOK, Procs
  <1>3. Owner'
    BY <1>1, <1>2 DEF Owner
  <1>4. Joined'
    <2> SUFFICES ASSUME NEW k \in Streams, pc'[k] = "closed" PROVE Ended(k)
      BY <1>1 DEF Joined, Ended
    <2>1. CASE k = p
      <3>1. current[h] = p
        BY <1>1, <2>1 DEF Owner
      <3> QED BY <1>1, <2>1, <3>1
    <2>2. CASE k # p
      BY <1>1, <1>2, <2>2 DEF Joined
    <2> QED BY <2>1, <2>2
  <1>5. CallInv'
    <2>1. \A q \in Procs : pc'[q] = "notify" <=> pc[q] = "notify"
      BY <1>1, <1>2
    <2>2. \A k \in Streams : Asking(k)' => Asking(k)
      BY <1>1, <2>1 DEF Asking
    <2>3. ASSUME NEW k \in Streams, Asking(k)'
          PROVE  /\ future[k] \in {"running", "done"} /\ (quit[k] \/ asked[HelperOf[k]])
                 /\ current[HelperOf[k]] = k => notified[HelperOf[k]]
      BY <1>1, <2>2, <2>3 DEF CallInv
    <2>4. /\ \A q \in Procs : pc'[q] = "notify" => target[q] \in Streams /\ calls[target[q]] = 0
          /\ \A q, r \in Procs :
               pc'[q] = "notify" /\ pc'[r] = "notify" /\ target[q] = target[r] => q = r
          /\ \A k \in Streams : calls[k] \in {0, 1}
      BY <1>1, <2>1 DEF CallInv
    <2> QED BY <1>1, <2>3, <2>4 DEF CallInv
  <1> QED BY <1>3, <1>4, <1>5

LEMMA SerialInit == Init => SerialInv
  <1> SUFFICES ASSUME Init PROVE SerialInv
    OBVIOUS
  <1>1. IInv
    BY InvInit
  <1>2. /\ \A p \in Procs : pc[p] = "new"
        /\ \A g \in Streams : pc[g] = "new" /\ calls[g] = 0
        /\ \A h \in Helpers : current[h] = None
    BY DEF Init, Procs
  <1>3. Owner /\ Joined
    BY <1>2 DEF Owner, Joined
  <1>4. CallInv
    BY <1>2 DEF CallInv, Asking
  <1> QED BY <1>1, <1>3, <1>4 DEF SerialInv

LEMMA SerialNext ==
  ASSUME ~Overlap, SerialInv, [Next]_vars
  PROVE  SerialInv'
  <1>1. IInv'
    BY InvNext DEF SerialInv
  <1>2. /\ pc \in [Procs -> Places] /\ Streams \subseteq Procs /\ future \in [Streams -> {"none", "pending", "running", "done", "canceled"}]
        /\ quit \in [Streams -> BOOLEAN]
    BY DEF SerialInv, IInv, TypeOK, Places, Procs
  <1>3. ASSUME NEW g \in Streams, Run(g) \/ Finish(g) \/ Enqueue(g)
        PROVE  Owner' /\ Joined' /\ CallInv'
    <2>1. /\ UNCHANGED <<current, notified, target, asked, calls, pc, quit>>
          /\ \A k \in Streams : Onward(k)
      BY <1>2, <1>3 DEF Run, Finish, Enqueue, helper, Onward
    <2> QED BY <2>1, SerialKept
  <1>4. ASSUME NEW g \in Streams, Poll(g) \/ Fetch(g) \/ Resume(g) \/ Quit(g)
        PROVE  Owner' /\ Joined' /\ CallInv'
    <2>1. /\ UNCHANGED <<future, current, notified, target, asked, calls>>
          /\ quit' = quit \/ quit' = [quit EXCEPT ![g] = TRUE]
          /\ {pc[g], pc'[g]} \cap {"new", "closed", "notify"} = {}
          /\ \A p \in Procs : p # g => pc'[p] = pc[p]
      BY <1>2, <1>4 DEF Poll, Fetch, Resume, Quit, Goto, call, helper
    <2>2. \A k \in Streams : Onward(k) /\ (quit[k] => quit'[k])
      BY <1>2, <2>1 DEF Onward
    <2>3. \A p \in Procs : pc'[p] = pc[p] \/ {pc[p], pc'[p]} \cap {"new", "closed", "notify"} = {}
      BY <2>1
    <2> QED BY <2>1, <2>2, <2>3, SerialKept
  <1>5. ASSUME NEW g \in Streams, Submit(g)
        PROVE  Owner' /\ Joined' /\ CallInv'
    BY <1>5, SerialSubmit
  <1>6. ASSUME NEW g \in Streams, Close(g)
        PROVE  Owner' /\ Joined' /\ CallInv'
    <2>1. /\ pc[g] = "close" /\ RequestCancel(g, HelperOf[g]) /\ HelperOf[g] \in Helpers /\ g \in Procs
          /\ UNCHANGED <<current, quit, asked, calls>>
      BY <1>2, <1>6, StreamAssumption DEF Close
    <2> QED BY <2>1, SerialCancel
  <1>7. ASSUME NEW c \in Closers, NEW h \in Helpers, CloseFromOutside(c, h)
        PROVE  Owner' /\ Joined' /\ CallInv'
    <2>1. /\ pc[c] = "new" /\ RequestCancel(c, h) /\ c \in Procs /\ c \notin Streams
          /\ asked' = [asked EXCEPT ![h] = TRUE] /\ UNCHANGED <<current, quit, calls>>
      BY <1>7, StreamAssumption DEF CloseFromOutside, Procs
    <2> QED BY <2>1, SerialCancel
  <1>8. ASSUME NEW p \in Procs, Closing(p)
        PROVE  Owner' /\ Joined' /\ CallInv'
    BY <1>8, SerialNotify, SerialJoin DEF Closing
  <1>9. ASSUME UNCHANGED vars
        PROVE  Owner' /\ Joined' /\ CallInv'
    <2>1. /\ UNCHANGED <<current, notified, target, asked, calls, pc, quit>>
          /\ \A k \in Streams : Onward(k)
      BY <1>9 DEF vars, call, helper, Onward
    <2> QED BY <2>1, SerialKept
  <1>10. Owner' /\ Joined' /\ CallInv'
    BY <1>3, <1>4, <1>5, <1>6, <1>7, <1>8, <1>9 DEF Next, Produce, Consume
  <1> QED BY <1>1, <1>10 DEF SerialInv

LEMMA SerialAlways ==
  ASSUME ~Overlap
  PROVE  Spec => []SerialInv
  <1>1. SerialInv /\ [Next]_vars => SerialInv'
    BY SerialNext
  <1> QED BY <1>1, SerialInit, PTL DEF Spec

\* A stream that is closed has no call any more, provided that its helper is not called
\* while it is open: the call that close() waits for is then its own.
THEOREM ClosedIsJoined ==
  ASSUME ~Overlap
  PROVE  Spec => []Joined
  <1>1. SerialInv => Joined
    BY DEF SerialInv
  <1> QED BY <1>1, SerialAlways, PTL

\* Under the same condition on_cancel is called once at most for a call, one that had
\* begun, and only when its consumer stopped early or somebody closed its helper.
THEOREM CancelCalledOnce ==
  ASSUME ~Overlap
  PROVE  Spec => []CalledOnce
  <1>1. SerialInv => CalledOnce
    <2> SUFFICES ASSUME SerialInv, NEW g \in Streams
                 PROVE  /\ calls[g] <= 1
                        /\ calls[g] = 1 =>
                             (quit[g] \/ asked[HelperOf[g]]) /\ future[g] \in {"running", "done"}
      BY DEF CalledOnce
    <2>1. calls[g] \in {0, 1}
      BY DEF SerialInv, CallInv
    <2>2. calls[g] = 1 => Asking(g)
      BY DEF Asking
    <2> QED BY <2>1, <2>2 DEF SerialInv, CallInv
  <1> QED BY <1>1, SerialAlways, PTL

=============================================================================

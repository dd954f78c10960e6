------------------------ MODULE CallbackDeliveryProofs ------------------------
(***************************************************************************)
(* Proofs about CallbackDelivery: its types, that no callback is applied   *)
(* twice, the order of the rows and of the callbacks, what is behind a row *)
(* that is gone, and that the delivery implements CallbackChannel.         *)
(*                                                                         *)
(* Typed strengthens the types by what the posting thread and the request  *)
(* threads hold.  Lined says where the rows that passed each other are,    *)
(* Hands what the threads hold of a row, Answers what is behind an answer, *)
(* and AllPosted that callbacks are posted for every item before a row.    *)
(***************************************************************************)
EXTENDS CallbackDelivery, SequenceTheorems, TLAPS

\* Inserting into a sequence, removing from it and a larger range keep its type.
LEMMA InsertTyped ==
  ASSUME NEW S, NEW q \in Seq(S), NEW e \in S, NEW k \in 1..(Len(q) + 1)
  PROVE  InsertAt(q, k, e) \in Seq(S)
  <1>1. SubSeq(q, 1, k - 1) \in Seq(S)
    OBVIOUS
  <1>2. SubSeq(q, k, Len(q)) \in Seq(S)
    OBVIOUS
  <1>3. <<e>> \in Seq(S)
    OBVIOUS
  <1>4. SubSeq(q, 1, k - 1) \o <<e>> \in Seq(S)
    BY <1>1, <1>3, ConcatProperties
  <1>5. (SubSeq(q, 1, k - 1) \o <<e>>) \o SubSeq(q, k, Len(q)) \in Seq(S)
    BY <1>2, <1>4, ConcatProperties
  <1> QED BY <1>5 DEF InsertAt

LEMMA RemoveTyped ==
  ASSUME NEW S, NEW q \in Seq(S), NEW i \in DOMAIN q
  PROVE  RemoveAt(q, i) \in Seq(S) /\ Len(RemoveAt(q, i)) = Len(q) - 1
  <1>1. SubSeq(q, 1, i - 1) \in Seq(S) /\ Len(SubSeq(q, 1, i - 1)) = i - 1
    OBVIOUS
  <1>2. SubSeq(q, i + 1, Len(q)) \in Seq(S) /\ Len(SubSeq(q, i + 1, Len(q))) = Len(q) - i
    OBVIOUS
  <1>3. /\ SubSeq(q, 1, i - 1) \o SubSeq(q, i + 1, Len(q)) \in Seq(S)
        /\ Len(SubSeq(q, 1, i - 1) \o SubSeq(q, i + 1, Len(q))) = (i - 1) + (Len(q) - i)
    BY <1>1, <1>2, ConcatProperties
  <1>4. i \in Nat /\ Len(q) \in Nat /\ (i - 1) + (Len(q) - i) = Len(q) - 1
    OBVIOUS
  <1> QED BY <1>3, <1>4 DEF RemoveAt

LEMMA SeqInto ==
  ASSUME NEW S, NEW T, S \subseteq T, NEW q \in Seq(S)
  PROVE  q \in Seq(T)
  OBVIOUS

-----------------------------------------------------------------------------
(* Types.                                                                  *)

\* Outside peek the posting thread holds a row that was enqueued and one of its
\* items: what makes the callback id it computes a proper one.  It awaits a
\* request thread only in wait.
SenderHolds ==
  /\ spc # "peek" => row \in 1..Len(log) /\ item \in 1..Items[log[row].task]
  /\ on # NoHandler => spc = "wait"

Typed == TypeOK /\ SenderHolds

LEMMA CallbackTyped ==
  ASSUME TypeOK, NEW id \in 1..Len(log), NEW k \in 1..Items[log[id].task]
  PROVE  Callback(id, k) \in Callbacks
  <1>1. log[id] \in [task : Tasks, status : Statuses]
    BY ElementOfSeq DEF TypeOK
  <1> QED BY <1>1 DEF Callback, Callbacks

LEMMA TypedInit == Init => Typed
  BY DeliveryAssumption DEF Init, Typed, TypeOK, SenderHolds, Ids

LEMMA TypedEnqueue ==
  ASSUME Typed, NEW t \in Tasks, NEW s \in Statuses, Enqueue(t, s)
  PROVE  Typed'
  <1> DEFINE r == [task |-> t, status |-> s]
  <1>1. /\ log' = Append(log, r) /\ Len(log) < MaxRows
        /\ log \in Seq([task : Tasks, status : Statuses])
    BY DEF Typed, TypeOK, Enqueue
  <1>2. r \in [task : Tasks, status : Statuses]
    OBVIOUS
  <1>3. /\ log' \in Seq([task : Tasks, status : Statuses])
        /\ Len(log') = Len(log) + 1
        /\ \A i \in 1..Len(log) : log'[i] = log[i]
    <2> HIDE DEF r
    <2> QED BY <1>1, <1>2, AppendProperties
  <1>4. 1..Len(log) \subseteq 1..Len(log') /\ Len(log) + 1 \in 1..Len(log')
    BY <1>1, <1>3
  <1>5. queue' \in Seq(1..Len(log'))
    <2>1. queue \in Seq(1..Len(log'))
      BY <1>4, SeqInto DEF Typed, TypeOK
    <2>2. PICK k \in 1..(Len(queue) + 1) : queue' = InsertAt(queue, k, Len(log) + 1)
      BY DEF Enqueue, Arrive
    <2> QED BY <2>1, <2>2, <1>4, InsertTyped
  <1>6. due' \subseteq 1..Len(log')
    BY <1>4 DEF Typed, TypeOK, Enqueue
  <1>7. Len(log') <= MaxRows
    BY <1>1, <1>3, DeliveryAssumption
  <1>8. row' \in 0..Len(log')
    BY <1>1, <1>3 DEF Typed, TypeOK, Enqueue, sender
  <1>9. TypeOK'
    BY <1>3, <1>5, <1>6, <1>7, <1>8
       DEF Typed, TypeOK, Enqueue, sender, threads, history
  <1>10. SenderHolds'
    BY <1>3, <1>4 DEF Typed, SenderHolds, Enqueue, sender
  <1> QED BY <1>9, <1>10 DEF Typed

\* The table once a row was taken out, or moved.
LEMMA RemoveRowTyped ==
  ASSUME Typed, RemoveRow, spc # "peek"
  PROVE  /\ log' = log /\ queue' \in Seq(1..Len(log)) /\ due' \subseteq 1..Len(log)
         /\ attempts' \in [Ids -> Nat] /\ troubles' = troubles
  <1>1. queue \in Seq(1..Len(log)) /\ due \subseteq 1..Len(log)
    BY DEF Typed, TypeOK
  <1>2. PICK i \in DOMAIN queue : queue' = RemoveAt(queue, i)
    BY DEF RemoveRow
  <1>3. queue' \in Seq(1..Len(log))
    BY <1>1, <1>2, RemoveTyped
  <1>4. attempts' \in [Ids -> Nat]
    BY DEF RemoveRow, Typed, TypeOK
  <1> QED BY <1>1, <1>3, <1>4 DEF RemoveRow

LEMMA MoveTyped ==
  ASSUME Typed, spc # "peek", NEW i \in DOMAIN queue, NEW k \in DOMAIN queue,
         queue' = InsertAt(RemoveAt(queue, i), k, row)
  PROVE  queue' \in Seq(1..Len(log))
  <1>1. queue \in Seq(1..Len(log)) /\ row \in 1..Len(log)
    BY DEF Typed, TypeOK, SenderHolds
  <1>2. /\ RemoveAt(queue, i) \in Seq(1..Len(log))
        /\ Len(RemoveAt(queue, i)) = Len(queue) - 1
    BY <1>1, RemoveTyped
  <1>3. k \in 1..(Len(RemoveAt(queue, i)) + 1)
    BY <1>1, <1>2
  <1> QED BY <1>1, <1>2, <1>3, InsertTyped

\* The steps that read the table but leave the rows as they are.
LEMMA TypedQuiet ==
  ASSUME Typed, UNCHANGED <<log, queue>>,
         \/ Elapse \/ Peek \/ PostFails \/ Timeout \/ Restart \/ Crash
         \/ \E h \in Handlers : Post(h) \/ Handler(h)
  PROVE  Typed'
  <1> USE DEF Typed, table, sender, threads, history
  <1>0. /\ queue \in Seq(1..Len(log)) /\ Len(log) \in Nat
        /\ \A id \in 1..Len(log) : Items[log[id].task] \in Nat \ {0}
    <2>1. \A id \in 1..Len(log) : log[id] \in [task : Tasks, status : Statuses]
      BY ElementOfSeq DEF TypeOK
    <2> QED BY <2>1, DeliveryAssumption DEF TypeOK
  <1>1. CASE Elapse
    <2>1. PICK i \in DOMAIN queue : due' = due \cup {queue[i]}
      BY <1>1 DEF Elapse
    <2>2. queue[i] \in 1..Len(log)
      BY <1>0, ElementOfSeq
    <2>3. due' \subseteq 1..Len(log')
      BY <2>1, <2>2 DEF TypeOK
    <2> QED BY <1>1, <2>3 DEF Elapse, TypeOK, SenderHolds
  <1>2. CASE Peek
    BY <1>2, <1>0 DEF Peek, TypeOK, SenderHolds
  <1>3. CASE PostFails
    BY <1>3 DEF PostFails, TypeOK, SenderHolds
  <1>4. CASE Timeout
    <2>1. Callback(row, item) \in Callbacks
      BY <1>4, CallbackTyped DEF Timeout, SenderHolds
    <2> QED BY <1>4, <2>1 DEF Timeout, TypeOK, SenderHolds
  <1>5. CASE Restart
    <2>1. spc = "wait" => Callback(row, item) \in Callbacks
      BY CallbackTyped DEF SenderHolds
    <2> QED BY <1>5, <2>1 DEF Restart, NextRound, Trouble, TypeOK, SenderHolds
  <1>6. CASE Crash
    <2>1. cut' \subseteq Callbacks
      BY <1>6 DEF Crash, Executes, TypeOK
    <2>2. /\ hpc' \in [Handlers -> {"idle", "record", "apply", "forget", "ok", "err"}]
          /\ hcb' \in [Handlers -> Callbacks \cup {NoCallback}]
          /\ \A h \in Handlers : hpc'[h] = "idle"
          /\ on' \in Handlers \cup {NoHandler}
      BY <1>6 DEF Crash
    <2>3. /\ troubles' \in Nat
          /\ spc' \in {"peek", "post", "wait", "clear", "failed", "rejected"}
      BY <1>6 DEF Crash, Trouble, TypeOK
    <2>4. TypeOK'
      BY <1>6, <2>1, <2>2, <2>3 DEF Crash, TypeOK
    <2>5. on # NoHandler => spc = "wait"
      BY DEF SenderHolds
    <2>6. SenderHolds'
      BY <1>6, <2>5 DEF Crash, SenderHolds
    <2> QED BY <2>4, <2>6
  <1>7. ASSUME NEW h \in Handlers, Post(h)
        PROVE  Typed'
    <2>1. Callback(row, item) \in Callbacks
      BY <1>7, CallbackTyped DEF Post, SenderHolds
    <2> QED BY <1>7, <2>1 DEF Post, TypeOK, SenderHolds
  <1>8. ASSUME NEW h \in Handlers, Handler(h)
        PROVE  Typed'
    <2> USE DEF HGoto
    <2>1. CASE Record(h)
      BY <2>1 DEF Record, TypeOK, SenderHolds
    <2>2. CASE Apply(h)
      <3>1. /\ hcb[h] \in Callbacks /\ applied \in Seq(Callbacks)
            /\ applied' = applied \/ applied' = Append(applied, hcb[h])
        BY <2>2 DEF Apply, TypeOK
      <3>2. applied' \in Seq(Callbacks)
        BY <3>1, AppendProperties
      <3> QED BY <2>2, <3>2 DEF Apply, TypeOK, SenderHolds
    <2>3. CASE Forget(h)
      BY <2>3 DEF Forget, Trouble, TypeOK, SenderHolds
    <2>4. CASE Answer(h)
      <3>1. TypeOK'
        BY <2>4 DEF Answer, TypeOK
      <3>2. CASE on # h
        BY <2>4, <3>1, <3>2 DEF Answer, SenderHolds
      <3>3. CASE on = h
        <4>1. spc = "wait" /\ row \in 1..Len(log) /\ item \in 1..Items[log[row].task]
          BY <2>4, <3>3, DeliveryAssumption DEF SenderHolds
        <4>2. Items[log[row].task] \in Nat
          BY <4>1, <1>0
        <4> QED BY <2>4, <3>1, <3>3, <4>1, <4>2 DEF Answer, SenderHolds
      <3> QED BY <3>2, <3>3
    <2> QED BY <1>8, <2>1, <2>2, <2>3, <2>4 DEF Handler
  <1> QED BY <1>1, <1>2, <1>3, <1>4, <1>5, <1>6, <1>7, <1>8

\* The three steps that end the delivery of a row.
LEMMA TypedRound ==
  ASSUME Typed, Clear \/ Postpone \/ Reject
  PROVE  Typed'
  <1> USE DEF table, sender, threads, history
  <1>0. /\ spc # "peek" /\ row \in 1..Len(log) /\ row \in Ids /\ Len(log) \in Nat
        /\ NextAttempt(row) \in Nat
    <2>1. spc # "peek" /\ row \in 1..Len(log)
      BY DEF Typed, SenderHolds, Clear, Postpone, Reject
    <2>2. Len(log) \in Nat /\ Len(log) <= MaxRows /\ MaxRows \in Nat
      BY DeliveryAssumption DEF Typed, TypeOK
    <2>3. row \in Ids
      BY <2>1, <2>2 DEF Ids
    <2> QED BY <2>1, <2>2, <2>3 DEF NextAttempt, Typed, TypeOK
  <1>1. /\ log' = log /\ queue' \in Seq(1..Len(log)) /\ due' \subseteq 1..Len(log)
        /\ attempts' \in [Ids -> Nat] /\ troubles' \in Nat
    <2>1. CASE RemoveRow
      BY <2>1, <1>0, RemoveRowTyped DEF Typed, TypeOK
    <2>2. CASE UNCHANGED table
      <3>1. log' = log /\ queue' = queue /\ due' = due
        BY <2>2
      <3>2. \/ attempts' = attempts
            \/ attempts' = [attempts EXCEPT ![row] = NextAttempt(row)]
            \/ attempts' = [attempts EXCEPT ![row] = 0]
        BY DEF Clear, Postpone, Reject, RemoveRow
      <3>3. troubles' = troubles \/ troubles' = troubles + 1
        BY DEF Clear, Postpone, Reject, RemoveRow, Trouble
      <3>4. attempts' \in [Ids -> Nat] /\ troubles' \in Nat
        BY <1>0, <3>2, <3>3 DEF Typed, TypeOK
      <3> QED BY <3>1, <3>4 DEF Typed, TypeOK
    <2>3. CASE Postpone /\ ~RemoveRow /\ ~UNCHANGED table
      <3>1. /\ due' = due \ {row} /\ log' = log /\ troubles' = troubles
            /\ attempts' = [attempts EXCEPT ![row] = NextAttempt(row)]
            /\ \E i, k \in DOMAIN queue : queue' = InsertAt(RemoveAt(queue, i), k, row)
        BY <2>3 DEF Postpone
      <3>2. queue' \in Seq(1..Len(log))
        BY <3>1, <1>0, MoveTyped
      <3> QED BY <3>1, <3>2, <1>0 DEF Typed, TypeOK
    <2> QED BY <2>1, <2>2, <2>3 DEF Clear, Reject
  <1>2. /\ retried' \subseteq Ids /\ dropped' \subseteq Ids
        /\ spc' = "peek" /\ row' = 0 /\ item' = 1
        /\ UNCHANGED <<on, hpc, hcb, records, applied, abandoned, cut>>
    BY <1>0 DEF Clear, Postpone, Reject, NextRound, Typed, TypeOK
  <1>3. on = NoHandler
    BY DEF Typed, SenderHolds, Clear, Postpone, Reject
  <1>4. TypeOK'
    BY <1>1, <1>2, <1>0 DEF Typed, TypeOK
  <1>5. SenderHolds'
    BY <1>2, <1>3 DEF SenderHolds
  <1> QED BY <1>4, <1>5 DEF Typed

LEMMA TypedStep == Typed /\ [Next]_vars => Typed'
  <1> SUFFICES ASSUME Typed, [Next]_vars
               PROVE  Typed'
    OBVIOUS
  <1>1. CASE UNCHANGED vars
    BY <1>1 DEF vars, Typed, TypeOK, SenderHolds
  <1>2. ASSUME NEW t \in Tasks, NEW s \in Statuses, Enqueue(t, s)
        PROVE  Typed'
    BY <1>2, TypedEnqueue
  <1>3. CASE Clear \/ Postpone \/ Reject
    BY <1>3, TypedRound
  <1>4. ASSUME \/ Elapse \/ Peek \/ PostFails \/ Timeout \/ Restart \/ Crash
               \/ \E h \in Handlers : Post(h) \/ Handler(h)
        PROVE  Typed'
    <2>1. UNCHANGED <<log, queue>>
      BY <1>4 DEF Elapse, Peek, PostFails, Timeout, Restart, Crash, Post, Handler,
                  Record, Apply, Forget, Answer, table
    <2> QED BY <1>4, <2>1, TypedQuiet
  <1> QED BY <1>1, <1>2, <1>3, <1>4 DEF Next, Sender

\* Every reachable state of the delivery is well typed (server.py, the types of
\* the queue and of the posting thread).
THEOREM DeliveryTyped == Spec => []TypeOK
  <1>1. Typed => TypeOK
    BY DEF Typed
  <1> QED BY TypedInit, TypedStep, <1>1, PTL DEF Spec

-----------------------------------------------------------------------------
(* No callback is applied twice.                                           *)

\* A callback in execution has its record and was not applied; the record keeps
\* every other thread out, and outlives the application.
ExecutedHasRecord ==
  \A h \in Handlers : Executes(h) => hcb[h] \in records /\ ~WasApplied(hcb[h])
OneExecution ==
  \A g, h \in Handlers : Executes(g) /\ Executes(h) /\ hcb[g] = hcb[h] => g = h
AppliedHasRecord == \A i \in DOMAIN applied : applied[i] \in records

Once == ExecutedHasRecord /\ OneExecution /\ AppliedHasRecord /\ IsInjective(applied)

LEMMA OnceImplies == Once => AppliedOnce
  BY DEF Once, ExecutedHasRecord, OneExecution, AppliedOnce

LEMMA OnceInit == Init => Once
  BY DEF Init, Once, ExecutedHasRecord, OneExecution, AppliedHasRecord, Executes,
         IsInjective

\* A step that starts no execution and touches neither records nor applied.
Harmless ==
  /\ UNCHANGED <<records, applied>>
  /\ \A h \in Handlers : Executes(h)' => Executes(h) /\ hcb'[h] = hcb[h]

LEMMA HarmlessKeeps ==
  ASSUME Once, Harmless
  PROVE  Once'
  <1> USE DEF Once, Harmless
  <1>1. ExecutedHasRecord'
    BY DEF ExecutedHasRecord, WasApplied
  <1>2. OneExecution'
    BY DEF OneExecution
  <1>3. AppliedHasRecord' /\ IsInjective(applied)'
    BY DEF AppliedHasRecord, IsInjective
  <1> QED BY <1>1, <1>2, <1>3

LEMMA MostAreHarmless ==
  ASSUME TypeOK,
         \/ UNCHANGED vars \/ Elapse \/ Sender \/ Restart \/ Crash
         \/ \E t \in Tasks, s \in Statuses : Enqueue(t, s)
         \/ \E h \in Handlers : Answer(h)
  PROVE  Harmless
  <1> USE DEF threads, Harmless, Executes
  <1>1. CASE UNCHANGED vars
    BY <1>1 DEF vars
  <1>2. CASE Elapse \/ Restart \/ \E t \in Tasks, s \in Statuses : Enqueue(t, s)
    BY <1>2 DEF Elapse, Restart, Enqueue
  <1>3. CASE Crash
    BY <1>3 DEF Crash
  <1>4. CASE Peek \/ PostFails \/ Timeout \/ Clear \/ Postpone \/ Reject
    BY <1>4 DEF Peek, PostFails, Timeout, Clear, Postpone, Reject
  <1>5. ASSUME NEW h \in Handlers, Post(h)
        PROVE  Harmless
    BY <1>5 DEF Post, TypeOK
  <1>6. ASSUME NEW h \in Handlers, Answer(h)
        PROVE  Harmless
    BY <1>6 DEF Answer, HGoto, TypeOK
  <1> QED BY <1>1, <1>2, <1>3, <1>4, <1>5, <1>6 DEF Sender

\* The record is written by one thread only, and only when it was not there.
LEMMA RecordKeeps ==
  ASSUME TypeOK, Once, NEW h \in Handlers, Record(h)
  PROVE  Once'
  <1> USE DEF Once
  <1>0. /\ ~Executes(h) /\ applied' = applied /\ hcb' = hcb
        /\ \A g \in Handlers \ {h} : hpc'[g] = hpc[g]
    BY DEF Record, Executes, HGoto, TypeOK
  <1>1. CASE Executes(h)'
    <2>1. hcb[h] \notin records /\ records' = records \cup {hcb[h]}
      BY <1>1 DEF Record, Executes, HGoto, TypeOK
    <2>2. ExecutedHasRecord'
      BY <1>0, <2>1 DEF ExecutedHasRecord, AppliedHasRecord, WasApplied, Range, Executes
    <2>3. OneExecution'
      BY <1>0, <2>1 DEF OneExecution, ExecutedHasRecord, Executes
    <2>4. AppliedHasRecord' /\ IsInjective(applied)'
      BY <1>0, <2>1 DEF AppliedHasRecord, IsInjective
    <2> QED BY <2>2, <2>3, <2>4
  <1>2. CASE ~Executes(h)'
    <2>1. records' = records
      BY <1>2 DEF Record, Executes, HGoto, TypeOK
    <2>2. Harmless
      BY <1>0, <1>2, <2>1 DEF Harmless, Executes
    <2> QED BY <2>2, HarmlessKeeps
  <1> QED BY <1>1, <1>2

LEMMA ApplyKeeps ==
  ASSUME TypeOK, Once, NEW h \in Handlers, Apply(h)
  PROVE  Once'
  <1> USE DEF Once
  <1>0. /\ Executes(h) /\ records' = records /\ hcb' = hcb
        /\ \A g \in Handlers \ {h} : hpc'[g] = hpc[g]
    BY DEF Apply, Executes, HGoto, TypeOK
  <1>1. CASE applied' = applied
    BY <1>0, <1>1, HarmlessKeeps DEF Harmless, Executes
  <1>2. CASE applied' # applied
    <2>1. applied' = Append(applied, hcb[h]) /\ ~Executes(h)'
      BY <1>2 DEF Apply, Executes, HGoto, TypeOK
    <2>2. /\ DOMAIN applied = 1..Len(applied) /\ Len(applied) \in Nat
          /\ DOMAIN applied' = 1..(Len(applied) + 1)
          /\ applied'[Len(applied) + 1] = hcb[h]
          /\ \A i \in DOMAIN applied : applied'[i] = applied[i]
      <3>1. applied \in Seq(Callbacks) /\ hcb[h] \in Callbacks
        BY <1>0 DEF TypeOK, Executes
      <3> QED BY <2>1, <3>1
    <2>3. \A i \in DOMAIN applied : applied[i] # hcb[h]
      BY <1>0 DEF ExecutedHasRecord, WasApplied, Range
    <2>4. ExecutedHasRecord'
      <3> SUFFICES ASSUME NEW g \in Handlers, Executes(g)'
                   PROVE  hcb[g] \in records /\ \A i \in DOMAIN applied' : applied'[i] # hcb[g]
        BY <1>0 DEF ExecutedHasRecord, WasApplied, Range
      <3>1. g # h /\ Executes(g)
        BY <1>0, <2>1 DEF Executes
      <3>2. hcb[g] # hcb[h] /\ hcb[g] \in records /\ \A i \in DOMAIN applied : applied[i] # hcb[g]
        BY <3>1, <1>0 DEF OneExecution, ExecutedHasRecord, WasApplied, Range
      <3> QED BY <3>2, <2>2
    <2>5. OneExecution'
      BY <1>0, <2>1 DEF OneExecution, Executes
    <2>6. AppliedHasRecord'
      BY <1>0, <2>2 DEF AppliedHasRecord, ExecutedHasRecord
    <2>7. IsInjective(applied)'
      BY <2>2, <2>3 DEF IsInjective
    <2> QED BY <2>4, <2>5, <2>6, <2>7
  <1> QED BY <1>1, <1>2

LEMMA ForgetKeeps ==
  ASSUME TypeOK, Once, NEW h \in Handlers, Forget(h)
  PROVE  Once'
  <1> USE DEF Once
  <1>0. /\ Executes(h) /\ ~Executes(h)' /\ applied' = applied /\ hcb' = hcb
        /\ \A g \in Handlers \ {h} : hpc'[g] = hpc[g]
        /\ records \ {hcb[h]} \subseteq records'
    BY DEF Forget, Executes, HGoto, TypeOK
  <1>1. ExecutedHasRecord'
    BY <1>0 DEF ExecutedHasRecord, OneExecution, Executes, WasApplied
  <1>2. OneExecution'
    BY <1>0 DEF OneExecution, Executes
  <1>3. AppliedHasRecord' /\ IsInjective(applied)'
    BY <1>0 DEF AppliedHasRecord, ExecutedHasRecord, WasApplied, Range, IsInjective
  <1> QED BY <1>1, <1>2, <1>3

LEMMA OnceStep == TypeOK /\ Once /\ [Next]_vars => Once'
  <1> SUFFICES ASSUME TypeOK, Once, [Next]_vars
               PROVE  Once'
    OBVIOUS
  <1>1. CASE \/ UNCHANGED vars \/ Elapse \/ Sender \/ Restart \/ Crash
             \/ \E t \in Tasks, s \in Statuses : Enqueue(t, s)
             \/ \E h \in Handlers : Answer(h)
    BY <1>1, MostAreHarmless, HarmlessKeeps
  <1>2. ASSUME NEW h \in Handlers, Record(h) \/ Apply(h) \/ Forget(h)
        PROVE  Once'
    BY <1>2, RecordKeeps, ApplyKeeps, ForgetKeeps
  <1> QED BY <1>1, <1>2 DEF Next, Handler

\* No callback is executed by two request threads at once or applied twice,
\* whatever is posted again (doc_manager.py _record_callback).
THEOREM CallbacksAreIdempotent == Spec => []AppliedOnce
  <1> QED BY OnceInit, OnceStep, OnceImplies, DeliveryTyped, PTL DEF Spec

-----------------------------------------------------------------------------
(* The order of rows and callbacks.                                        *)

\* Where the elements are after an insertion and after a removal.
LEMMA InsertElements ==
  ASSUME NEW S, NEW q \in Seq(S), NEW e \in S, NEW k \in 1..(Len(q) + 1)
  PROVE  /\ InsertAt(q, k, e) \in Seq(S) /\ Len(InsertAt(q, k, e)) = Len(q) + 1
         /\ \A i \in 1..(k - 1) : InsertAt(q, k, e)[i] = q[i]
         /\ InsertAt(q, k, e)[k] = e
         /\ \A i \in (k + 1)..(Len(q) + 1) : InsertAt(q, k, e)[i] = q[i - 1]
  <1> DEFINE before == SubSeq(q, 1, k - 1)
             after == SubSeq(q, k, Len(q))
             left == before \o <<e>>
  <1>0. Len(q) \in Nat /\ k \in Nat /\ 1 <= k /\ k <= Len(q) + 1
    OBVIOUS
  <1>1. /\ before \in Seq(S) /\ Len(before) = k - 1
        /\ \A i \in 1..(k - 1) : before[i] = q[i]
    OBVIOUS
  <1>2. /\ after \in Seq(S) /\ Len(after) = Len(q) - k + 1
        /\ \A i \in 1..(Len(q) - k + 1) : after[i] = q[k + i - 1]
    OBVIOUS
  <1>3. <<e>> \in Seq(S) /\ Len(<<e>>) = 1 /\ <<e>>[1] = e
    OBVIOUS
  <1> HIDE DEF before, after
  <1>4. /\ left \in Seq(S) /\ Len(left) = k
        /\ \A i \in 1..(k - 1) : left[i] = q[i]
        /\ left[k] = e
    BY <1>0, <1>1, <1>3, ConcatProperties
  <1> HIDE DEF left
  <1>5. /\ left \o after \in Seq(S) /\ Len(left \o after) = Len(q) + 1
        /\ \A i \in 1..k : (left \o after)[i] = left[i]
        /\ \A i \in (k + 1)..(Len(q) + 1) : (left \o after)[i] = after[i - k]
    <2>1. /\ left \o after \in Seq(S) /\ Len(left \o after) = Len(left) + Len(after)
          /\ \A i \in 1..(Len(left) + Len(after)) :
               (left \o after)[i] = IF i <= Len(left) THEN left[i] ELSE after[i - Len(left)]
      BY <1>2, <1>4, ConcatProperties
    <2>2. Len(left) + Len(after) = Len(q) + 1
      BY <1>0, <1>2, <1>4
    <2> QED BY <1>0, <1>4, <2>1, <2>2
  <1>6. ASSUME NEW i \in (k + 1)..(Len(q) + 1)
        PROVE  (left \o after)[i] = q[i - 1]
    <2>1. i - k \in 1..(Len(q) - k + 1) /\ k + (i - k) - 1 = i - 1
      BY <1>0
    <2> QED BY <1>2, <1>5, <2>1
  <1>7. InsertAt(q, k, e) = left \o after
    BY DEF InsertAt, left, before, after
  <1>8. \A i \in 1..(k - 1) : i \in 1..k /\ (left \o after)[i] = q[i]
    BY <1>0, <1>4, <1>5
  <1>9. (left \o after)[k] = e
    BY <1>0, <1>4, <1>5
  <1> QED BY <1>5, <1>6, <1>7, <1>8, <1>9

LEMMA RemoveElements ==
  ASSUME NEW S, NEW q \in Seq(S), NEW i \in 1..Len(q)
  PROVE  /\ RemoveAt(q, i) \in Seq(S) /\ Len(RemoveAt(q, i)) = Len(q) - 1
         /\ \A j \in 1..(i - 1) : RemoveAt(q, i)[j] = q[j]
         /\ \A j \in i..(Len(q) - 1) : RemoveAt(q, i)[j] = q[j + 1]
  <1> DEFINE before == SubSeq(q, 1, i - 1)
             after == SubSeq(q, i + 1, Len(q))
  <1>0. Len(q) \in Nat /\ i \in Nat /\ 1 <= i /\ i <= Len(q)
    OBVIOUS
  <1>1. /\ before \in Seq(S) /\ Len(before) = i - 1
        /\ \A j \in 1..(i - 1) : before[j] = q[j]
    OBVIOUS
  <1>2. /\ after \in Seq(S) /\ Len(after) = Len(q) - i
        /\ \A j \in 1..(Len(q) - i) : after[j] = q[i + j]
    OBVIOUS
  <1> HIDE DEF before, after
  <1>3. /\ before \o after \in Seq(S) /\ Len(before \o after) = Len(q) - 1
        /\ \A j \in 1..(i - 1) : (before \o after)[j] = before[j]
        /\ \A j \in i..(Len(q) - 1) : (before \o after)[j] = after[j - (i - 1)]
    <2>1. /\ before \o after \in Seq(S) /\ Len(before \o after) = Len(before) + Len(after)
          /\ \A j \in 1..(Len(before) + Len(after)) :
               (before \o after)[j] = IF j <= Len(before) THEN before[j] ELSE after[j - Len(before)]
      BY <1>1, <1>2, ConcatProperties
    <2>2. Len(before) + Len(after) = Len(q) - 1
      BY <1>0, <1>1, <1>2
    <2> QED BY <1>0, <1>1, <2>1, <2>2
  <1>4. RemoveAt(q, i) = before \o after
    BY DEF RemoveAt, before, after
  <1>5. \A j \in i..(Len(q) - 1) : after[j - (i - 1)] = q[j + 1]
    <2> SUFFICES ASSUME NEW j \in i..(Len(q) - 1)
                 PROVE  after[j - (i - 1)] = q[j + 1]
      OBVIOUS
    <2>1. j - (i - 1) \in 1..(Len(q) - i) /\ i + (j - (i - 1)) = j + 1
      BY <1>0
    <2> QED BY <1>2, <2>1
  <1> QED BY <1>0, <1>1, <1>3, <1>4, <1>5

\* The element at a place of the new sequence, and its place in the old one.
LEMMA InsertOrigin ==
  ASSUME NEW S, NEW q \in Seq(S), NEW e \in S, NEW k \in 1..(Len(q) + 1),
         NEW p \in 1..(Len(q) + 1), p # k
  PROVE  /\ (IF p < k THEN p ELSE p - 1) \in 1..Len(q)
         /\ InsertAt(q, k, e)[p] = q[IF p < k THEN p ELSE p - 1]
  <1>0. /\ Len(q) \in Nat /\ k \in Nat /\ 1 <= k /\ k <= Len(q) + 1
        /\ p \in Nat /\ 1 <= p /\ p <= Len(q) + 1
    OBVIOUS
  <1>1. CASE p < k
    <2>1. p \in 1..(k - 1) /\ p \in 1..Len(q)
      BY <1>0, <1>1
    <2>2. InsertAt(q, k, e)[p] = q[p]
      BY <2>1, InsertElements
    <2> QED BY <1>1, <2>1, <2>2
  <1>2. CASE p > k
    <2>1. p \in (k + 1)..(Len(q) + 1) /\ p - 1 \in 1..Len(q) /\ ~(p < k)
      BY <1>0, <1>2
    <2>2. InsertAt(q, k, e)[p] = q[p - 1]
      BY <2>1, InsertElements
    <2> QED BY <2>1, <2>2
  <1> QED BY <1>0, <1>1, <1>2

LEMMA RemoveOrigin ==
  ASSUME NEW S, NEW q \in Seq(S), NEW i \in 1..Len(q), NEW p \in 1..(Len(q) - 1)
  PROVE  /\ (IF p < i THEN p ELSE p + 1) \in 1..Len(q)
         /\ RemoveAt(q, i)[p] = q[IF p < i THEN p ELSE p + 1]
  <1>0. Len(q) \in Nat /\ i \in Nat /\ 1 <= i /\ i <= Len(q)
    OBVIOUS
  <1>1. CASE p < i
    BY <1>0, <1>1, RemoveElements
  <1>2. CASE p >= i
    BY <1>0, <1>2, RemoveElements
  <1> QED BY <1>0, <1>1, <1>2

LEMMA InsertRange ==
  ASSUME NEW S, NEW q \in Seq(S), NEW e \in S, NEW k \in 1..(Len(q) + 1)
  PROVE  Range(InsertAt(q, k, e)) = Range(q) \cup {e}
  <1> DEFINE r == InsertAt(q, k, e)
  <1>0. Len(q) \in Nat /\ k \in Nat /\ 1 <= k /\ k <= Len(q) + 1
    OBVIOUS
  <1>1. DOMAIN r = 1..(Len(q) + 1) /\ DOMAIN q = 1..Len(q) /\ r[k] = e
    BY InsertElements
  <1>2. \A p \in (k + 1)..(Len(q) + 1) : r[p] = q[p - 1]
    BY InsertElements
  <1>3. ASSUME NEW p \in 1..(Len(q) + 1) PROVE r[p] \in Range(q) \cup {e}
    <2>1. CASE p = k
      BY <1>1, <2>1
    <2>2. CASE p # k
      <3>1. PICK o \in 1..Len(q) : r[p] = q[o]
        BY <2>2, InsertOrigin
      <3> QED BY <1>1, <3>1 DEF Range
    <2> QED BY <2>1, <2>2
  <1>4. ASSUME NEW o \in 1..Len(q) PROVE q[o] \in Range(r)
    <2>1. CASE o < k
      <3>1. o \in 1..(k - 1) /\ o \in 1..(Len(q) + 1)
        BY <1>0, <2>1
      <3>2. r[o] = q[o]
        BY <3>1, InsertElements
      <3> HIDE DEF r
      <3> QED BY <1>1, <3>1, <3>2 DEF Range
    <2>2. CASE o >= k
      <3> DEFINE p == o + 1
      <3>1. p \in (k + 1)..(Len(q) + 1) /\ p \in 1..(Len(q) + 1) /\ p - 1 = o
        BY <1>0, <2>2
      <3> HIDE DEF p
      <3> HIDE DEF r
      <3>2. r[p] = q[p - 1]
        BY <3>1, <1>2
      <3> QED BY <1>1, <3>1, <3>2 DEF Range
    <2> QED BY <1>0, <2>1, <2>2
  <1>5. k \in 1..(Len(q) + 1)
    OBVIOUS
  <1> HIDE DEF r
  <1>6. Range(r) = Range(q) \cup {e}
    BY <1>1, <1>3, <1>4, <1>5 DEF Range
  <1> QED BY <1>6 DEF r

LEMMA RemoveRange ==
  ASSUME NEW S, NEW q \in Seq(S), NEW i \in 1..Len(q)
  PROVE  /\ Range(RemoveAt(q, i)) \subseteq Range(q)
         /\ Range(q) \ {q[i]} \subseteq Range(RemoveAt(q, i))
         /\ IsInjective(q) => q[i] \notin Range(RemoveAt(q, i)) /\ IsInjective(RemoveAt(q, i))
  <1> DEFINE r == RemoveAt(q, i)
  <1>0. Len(q) \in Nat /\ i \in Nat /\ 1 <= i /\ i <= Len(q)
    OBVIOUS
  <1>1. DOMAIN r = 1..(Len(q) - 1) /\ DOMAIN q = 1..Len(q)
    BY <1>0, RemoveElements
  <1>2. \A p \in 1..(Len(q) - 1) : /\ (IF p < i THEN p ELSE p + 1) \in 1..Len(q)
                                   /\ r[p] = q[IF p < i THEN p ELSE p + 1]
    BY RemoveOrigin
  <1>3. ASSUME NEW o \in 1..Len(q), q[o] # q[i] PROVE q[o] \in Range(r)
    <2> DEFINE p == IF o < i THEN o ELSE o - 1
    <2>1. p \in 1..(Len(q) - 1) /\ (IF p < i THEN p ELSE p + 1) = o
      BY <1>0, <1>3
    <2>2. r[p] = q[o]
      BY <1>2, <2>1
    <2> HIDE DEF r, p
    <2> QED BY <1>1, <2>1, <2>2 DEF Range
  <1> HIDE DEF r
  <1>4. Range(r) \subseteq Range(q)
    BY <1>1, <1>2 DEF Range
  <1>5. Range(q) \ {q[i]} \subseteq Range(r)
    BY <1>1, <1>3 DEF Range
  <1>6. ASSUME IsInjective(q) PROVE q[i] \notin Range(r) /\ IsInjective(r)
    <2>1. \A a, b \in 1..Len(q) : q[a] = q[b] => a = b
      BY <1>1, <1>6 DEF IsInjective
    <2>2. \A p \in 1..(Len(q) - 1) : r[p] # q[i]
      BY <1>0, <1>2, <2>1
    <2>3. \A a, b \in 1..(Len(q) - 1) : r[a] = r[b] => a = b
      BY <1>0, <1>2, <2>1
    <2> QED BY <1>1, <2>2, <2>3 DEF Range, IsInjective
  <1> QED BY <1>4, <1>5, <1>6 DEF r

-----------------------------------------------------------------------------
(* The order of the rows.                                                  *)

\* The row that is posted is the first one.  Only rows that were postponed wait for
\* their time, and only they are behind a row that came later.
Lined ==
  /\ IsInjective(queue)
  /\ \A p \in DOMAIN queue : queue[p] \notin due => queue[p] \in retried
  /\ \A p, q \in DOMAIN queue : p < q /\ queue[p] > queue[q] => queue[q] \in retried
  /\ spc # "peek" => queue # << >> /\ queue[1] = row /\ row \in due
  /\ retried \subseteq 1..Len(log)

LEMMA LinedInit == Init => Lined /\ NoOvertaking
  BY DEF Init, Lined, NoOvertaking, IsInjective

\* The steps that leave the rows where they are.
LEMMA LinedStill ==
  ASSUME TypeOK, Lined, NoOvertaking, UNCHANGED <<log, queue, retried>>, due \subseteq due',
         spc' # "peek" =>
           queue # << >> /\ queue[1] = row' /\ row' \in due
  PROVE  Lined' /\ NoOvertaking'
  BY DEF Lined, NoOvertaking, InQueue

LEMMA LinedEnqueue ==
  ASSUME Typed, Lined, NoOvertaking, NEW t \in Tasks, NEW s \in Statuses, Enqueue(t, s)
  PROVE  Lined' /\ NoOvertaking'
  <1> DEFINE n == Len(log) + 1
  <1>1. /\ log \in Seq([task : Tasks, status : Statuses])
        /\ queue \in Seq(1..Len(log)) /\ Len(log) \in Nat
        /\ log' = Append(log, [task |-> t, status |-> s])
        /\ due' = due \cup {n} /\ UNCHANGED <<retried, spc, row>>
    BY DEF Typed, TypeOK, Enqueue, sender, history
  <1>2. Len(log') = n
    BY <1>1
  <1>3. PICK k \in 1..(Len(queue) + 1) :
          /\ \A i \in DOMAIN queue : i < k <=> queue[i] \in due
          /\ queue' = InsertAt(queue, k, n)
    BY DEF Enqueue, Arrive
  <1> DEFINE len == Len(queue)
             S == 1..n
  <1>4. queue \in Seq(S) /\ n \in S /\ n \in Nat
    BY <1>1, SeqInto
  <1>5. /\ len \in Nat /\ DOMAIN queue = 1..len
        /\ \A i \in 1..len : queue[i] \in 1..Len(log) /\ queue[i] \in Int /\ queue[i] < n
    BY <1>1, ElementOfSeq
  <1> HIDE DEF n, S
  <1>6. /\ queue' \in Seq(S) /\ Len(queue') = len + 1 /\ queue'[k] = n
         /\ \A i \in 1..(k - 1) : queue'[i] = queue[i]
    BY <1>3, <1>4, InsertElements
  <1>7. /\ DOMAIN queue' = 1..(len + 1) /\ queue'[k] = n
        /\ \A i \in 1..(k - 1) : queue'[i] = queue[i]
    BY <1>6
  <1>8. \A p \in 1..(len + 1) : p # k =>
          /\ (IF p < k THEN p ELSE p - 1) \in 1..len
          /\ queue'[p] = queue[IF p < k THEN p ELSE p - 1]
    <2> SUFFICES ASSUME NEW p \in 1..(len + 1), p # k
                 PROVE  /\ (IF p < k THEN p ELSE p - 1) \in 1..len
                        /\ queue'[p] = queue[IF p < k THEN p ELSE p - 1]
      OBVIOUS
    <2> QED BY <1>3, <1>4, InsertOrigin
  <1>9. \A p \in 1..(len + 1) : p # k => queue'[p] < n /\ queue'[p] \in Int
    BY <1>5, <1>8
  <1>10. k \in Nat /\ k <= len + 1
    BY <1>3, <1>5
  <1> HIDE DEF len
  <1>11. IsInjective(queue)'
    <2> SUFFICES ASSUME NEW a \in 1..(len + 1), NEW b \in 1..(len + 1), queue'[a] = queue'[b]
                 PROVE  a = b
      BY <1>7 DEF IsInjective
    <2>1. CASE a = k \/ b = k
      BY <2>1, <1>4, <1>7, <1>9
    <2>2. CASE a # k /\ b # k
      <3> DEFINE c == IF a < k THEN a ELSE a - 1
                 d == IF b < k THEN b ELSE b - 1
      <3>1. c \in 1..len /\ d \in 1..len /\ queue[c] = queue[d]
        BY <2>2, <1>8
      <3>2. c = d
        <4> HIDE DEF c, d
        <4> QED BY <3>1, <1>5 DEF Lined, IsInjective
      <3> QED BY <2>2, <3>2, <1>5, <1>10
    <2> QED BY <2>1, <2>2
  <1>12. ASSUME NEW p \in DOMAIN queue', queue'[p] \notin due'
         PROVE  queue'[p] \in retried'
    <2>1. p # k
      BY <1>1, <1>7, <1>12
    <2> QED BY <2>1, <1>1, <1>5, <1>7, <1>8, <1>12 DEF Lined
  <1>13. ASSUME NEW p \in DOMAIN queue', NEW q \in DOMAIN queue', p < q, queue'[p] > queue'[q]
         PROVE  queue'[q] \in retried'
    <2>1. q # k
      BY <1>4, <1>7, <1>9, <1>13
    <2>2. CASE p = k
      <3>1. /\ q - 1 \in 1..len /\ queue'[q] = queue[q - 1] /\ ~(q - 1 < k)
        BY <2>1, <2>2, <1>3, <1>5, <1>7, <1>8, <1>13
      <3>2. queue[q - 1] \notin due
        BY <3>1, <1>3, <1>5
      <3> QED BY <3>1, <3>2, <1>1, <1>5 DEF Lined
    <2>3. CASE p # k
      <3> DEFINE a == IF p < k THEN p ELSE p - 1
                 b == IF q < k THEN q ELSE q - 1
      <3>1. /\ a \in 1..len /\ b \in 1..len
            /\ queue'[p] = queue[a] /\ queue'[q] = queue[b]
        BY <2>1, <2>3, <1>7, <1>8, <1>13
      <3>2. a < b
        BY <2>1, <2>3, <1>3, <1>5, <1>7, <1>13
      <3> HIDE DEF a, b
      <3> QED BY <3>1, <3>2, <1>1, <1>5, <1>13 DEF Lined
    <2> QED BY <2>2, <2>3
  <1>14. ASSUME spc' # "peek"
         PROVE  queue' # << >> /\ queue'[1] = row' /\ row' \in due'
    <2>1. 1 \in 1..len /\ queue[1] \in due /\ queue[1] = row /\ row' = row
      BY <1>1, <1>5, <1>14 DEF Lined
    <2>2. 1 \in 1..(k - 1)
      BY <2>1, <1>3, <1>5
    <2>3. queue' # << >>
      BY <1>5, <1>6
    <2> QED BY <2>1, <2>2, <2>3, <1>1, <1>7
  <1>15. retried' \subseteq 1..Len(log')
    BY <1>1, <1>2 DEF Lined, n
  <1>16. NoOvertaking'
    <2> SUFFICES ASSUME NEW i \in 1..n, NEW j \in 1..n, i < j, InQueue(i)', ~InQueue(j)'
                 PROVE  i \in retried'
      BY <1>2 DEF NoOvertaking
    <2>1. Range(queue') = Range(queue) \cup {n}
      BY <1>3, <1>4, InsertRange
    <2>2. InQueue(j)' <=> InQueue(j) \/ j = n
      BY <2>1 DEF InQueue
    <2>3. j # n /\ i # n /\ ~InQueue(j)
      BY <2>2, <1>4
    <2>4. InQueue(i)
      BY <2>1, <2>3 DEF InQueue
    <2>5. i \in 1..Len(log) /\ j \in 1..Len(log)
      <3>1. Len(log) \in Nat /\ i \in 1..n /\ j \in 1..n /\ i # n /\ j # n /\ n = Len(log) + 1
        BY <1>1, <2>3 DEF n
      <3> QED BY <3>1
    <2> QED BY <1>1, <2>3, <2>4, <2>5 DEF NoOvertaking
  <1> QED BY <1>11, <1>12, <1>13, <1>14, <1>15, <1>16 DEF Lined

\* The row that is posted is the head, and the others stay lined up without it.
LEMMA RestIsLined ==
  ASSUME Typed, Lined, spc # "peek", NEW i \in DOMAIN queue, queue[i] = row,
         NEW rest, rest = RemoveAt(queue, i)
  PROVE  /\ rest \in Seq(1..Len(log)) /\ Len(rest) = Len(queue) - 1
         /\ IsInjective(rest) /\ Range(rest) = Range(queue) \ {row}
         /\ \A p \in DOMAIN rest : rest[p] \notin due => rest[p] \in retried
         /\ \A p, q \in DOMAIN rest : p < q /\ rest[p] > rest[q] => rest[q] \in retried
         /\ \A p \in DOMAIN rest : rest[p] < row => rest[p] \in retried
  <1> DEFINE len == Len(queue)
  <1>1. queue \in Seq(1..Len(log)) /\ len \in Nat /\ DOMAIN queue = 1..len
    BY DEF Typed, TypeOK
  <1>2. /\ rest \in Seq(1..Len(log)) /\ Len(rest) = len - 1
        /\ \A j \in i..(len - 1) : rest[j] = queue[j + 1]
    <2> DEFINE S == 1..Len(log)
    <2>1. queue \in Seq(S) /\ i \in 1..Len(queue)
      BY <1>1
    <2> HIDE DEF S
    <2>2. /\ RemoveAt(queue, i) \in Seq(S) /\ Len(RemoveAt(queue, i)) = len - 1
          /\ \A j \in i..(len - 1) : RemoveAt(queue, i)[j] = queue[j + 1]
      BY <2>1, RemoveElements
    <2> QED BY <2>2 DEF S
  <1>3. /\ Range(rest) \subseteq Range(queue) /\ Range(queue) \ {row} \subseteq Range(rest)
        /\ row \notin Range(rest) /\ IsInjective(rest)
    BY <1>1, RemoveRange DEF Lined
  <1>4. i = 1 /\ queue[1] = row /\ 1 \in 1..len
    <2>1. queue # << >> /\ queue[1] = row
      BY DEF Lined
    <2>2. 1 \in DOMAIN queue
      BY <1>1
    <2> QED BY <2>1, <2>2, <1>1 DEF Lined, IsInjective
  <1>5. DOMAIN rest = 1..(len - 1)
    BY <1>2
  <1> HIDE DEF len
  <1>6. ASSUME NEW p \in 1..(len - 1)
        PROVE  p + 1 \in 1..len /\ 1 < p + 1 /\ rest[p] = queue[p + 1]
    <2>1. p + 1 \in 1..len /\ 1 < p + 1 /\ p \in i..(len - 1)
      BY <1>1, <1>4
    <2> QED BY <1>2, <2>1
  <1>7. ASSUME NEW p \in 1..(len - 1), rest[p] \notin due
        PROVE  rest[p] \in retried
    BY <1>1, <1>6, <1>7 DEF Lined
  <1>8. ASSUME NEW p \in 1..(len - 1), NEW q \in 1..(len - 1), p < q, rest[p] > rest[q]
        PROVE  rest[q] \in retried
    <2> DEFINE a == p + 1
               b == q + 1
    <2>1. a \in 1..len /\ b \in 1..len /\ a < b /\ rest[p] = queue[a] /\ rest[q] = queue[b]
      BY <1>1, <1>6, <1>8
    <2> HIDE DEF a, b
    <2> QED BY <1>1, <1>8, <2>1 DEF Lined
  <1>9. ASSUME NEW p \in 1..(len - 1), rest[p] < row
        PROVE  rest[p] \in retried
    <2> DEFINE a == p + 1
    <2>1. a \in 1..len /\ 1 < a /\ rest[p] = queue[a] /\ queue[1] > queue[a]
      <3>1. a \in 1..len /\ 1 < a /\ rest[p] = queue[a]
        BY <1>6
      <3>2. queue[a] \in Int /\ queue[1] \in Int
        BY <3>1, <1>1, <1>4, ElementOfSeq
      <3> HIDE DEF a
      <3> QED BY <3>1, <3>2, <1>4, <1>9
    <2> HIDE DEF a
    <2> QED BY <1>1, <1>4, <2>1 DEF Lined
  <1> QED BY <1>2, <1>3, <1>5, <1>7, <1>8, <1>9 DEF len

LEMMA LinedRemove ==
  ASSUME Typed, Lined, NoOvertaking, spc # "peek", spc' = "peek", RemoveRow,
         UNCHANGED retried
  PROVE  Lined' /\ NoOvertaking'
  <1>1. PICK i \in DOMAIN queue : queue[i] = row /\ queue' = RemoveAt(queue, i)
    BY DEF RemoveRow
  <1>2. due' = due \ {row} /\ log' = log
    BY DEF RemoveRow
  <1>3. /\ IsInjective(queue') /\ Range(queue') = Range(queue) \ {row}
        /\ \A p \in DOMAIN queue' : queue'[p] \notin due => queue'[p] \in retried
        /\ \A p, q \in DOMAIN queue' : p < q /\ queue'[p] > queue'[q] => queue'[q] \in retried
        /\ \A p \in DOMAIN queue' : queue'[p] < row => queue'[p] \in retried
    BY <1>1, RestIsLined
  <1>4. \A p \in DOMAIN queue' : queue'[p] # row
    BY <1>3 DEF Range
  <1>5. Lined'
    BY <1>2, <1>3, <1>4 DEF Lined
  <1>6. NoOvertaking'
    <2> SUFFICES ASSUME NEW a \in 1..Len(log), NEW b \in 1..Len(log), a < b,
                        a \in Range(queue'), b \notin Range(queue')
                 PROVE  a \in retried
      BY <1>2 DEF NoOvertaking, InQueue
    <2>1. CASE b = row
      <3>1. PICK p \in DOMAIN queue' : queue'[p] = a
        BY DEF Range
      <3> QED BY <1>3, <2>1, <3>1
    <2>2. CASE b # row
      BY <1>3, <2>2 DEF NoOvertaking, InQueue
    <2> QED BY <2>1, <2>2
  <1> QED BY <1>5, <1>6

LEMMA LinedMove ==
  ASSUME Typed, Lined, NoOvertaking, spc # "peek", spc' = "peek", log' = log,
         due' = due \ {row}, retried' = retried \cup {row},
         NEW i \in DOMAIN queue, NEW k \in DOMAIN queue, queue[i] = row,
         NEW rest, rest = RemoveAt(queue, i),
         \A j \in DOMAIN rest : rest[j] \in due => j < k,
         queue' = InsertAt(rest, k, row)
  PROVE  Lined' /\ NoOvertaking' /\ Range(queue') = Range(queue)
  <1> DEFINE len == Len(rest)
             S == 1..Len(log)
  <1>1. /\ rest \in Seq(S) /\ Len(queue) = len + 1 /\ len \in Nat /\ DOMAIN rest = 1..len
        /\ IsInjective(rest) /\ Range(rest) = Range(queue) \ {row}
        /\ \A p \in DOMAIN rest : rest[p] \notin due => rest[p] \in retried
        /\ \A p, q \in DOMAIN rest : p < q /\ rest[p] > rest[q] => rest[q] \in retried
    <2>1. queue \in Seq(S) /\ Len(queue) \in Nat /\ Len(queue) >= 1
      BY DEF Typed, TypeOK
    <2> QED BY <2>1, RestIsLined
  <1>2. row \in S /\ k \in 1..(len + 1) /\ k \in Nat
    BY <1>1 DEF Typed, TypeOK, SenderHolds
  <1>3. ASSUME NEW p \in 1..len PROVE rest[p] \in S /\ rest[p] # row
    <2>1. rest[p] \in S
      BY <1>1, ElementOfSeq
    <2>2. rest[p] \in Range(rest)
      BY <1>1 DEF Range
    <2> QED BY <1>1, <2>1, <2>2
  <1> HIDE DEF S
  <1>4. queue' \in Seq(S) /\ DOMAIN queue' = 1..(len + 1) /\ queue'[k] = row
    <2>1. queue' \in Seq(S) /\ Len(queue') = len + 1 /\ queue'[k] = row
      BY <1>1, <1>2, InsertElements
    <2> QED BY <2>1
  <1>5. \A p \in 1..(len + 1) : p # k =>
          /\ (IF p < k THEN p ELSE p - 1) \in 1..len
          /\ queue'[p] = rest[IF p < k THEN p ELSE p - 1]
    <2> SUFFICES ASSUME NEW p \in 1..(len + 1), p # k
                 PROVE  /\ (IF p < k THEN p ELSE p - 1) \in 1..len
                        /\ queue'[p] = rest[IF p < k THEN p ELSE p - 1]
      OBVIOUS
    <2> QED BY <1>1, <1>2, InsertOrigin
  <1> HIDE DEF len
  <1>6. Range(queue') = Range(queue)
    <2>1. Range(queue') = Range(rest) \cup {row}
      BY <1>1, <1>2, InsertRange DEF len
    <2>2. row \in Range(queue)
      BY DEF Range
    <2> QED BY <1>1, <2>1, <2>2
  <1>7. IsInjective(queue')
    <2> SUFFICES ASSUME NEW a \in 1..(len + 1), NEW b \in 1..(len + 1), queue'[a] = queue'[b]
                 PROVE  a = b
      BY <1>4 DEF IsInjective
    <2>1. CASE a = k \/ b = k
      BY <2>1, <1>3, <1>4, <1>5
    <2>2. CASE a # k /\ b # k
      <3> DEFINE c == IF a < k THEN a ELSE a - 1
                 d == IF b < k THEN b ELSE b - 1
      <3>1. c \in 1..len /\ d \in 1..len /\ rest[c] = rest[d]
        BY <2>2, <1>5
      <3>2. c = d
        <4> HIDE DEF c, d
        <4> QED BY <3>1, <1>1 DEF IsInjective
      <3> QED BY <2>2, <3>2, <1>1, <1>2
    <2> QED BY <2>1, <2>2
  <1>8. ASSUME NEW p \in 1..(len + 1), queue'[p] \notin due'
        PROVE  queue'[p] \in retried'
    <2>1. CASE p = k
      BY <2>1, <1>4
    <2>2. CASE p # k
      BY <2>2, <1>1, <1>3, <1>5, <1>8
    <2> QED BY <2>1, <2>2
  <1>9. ASSUME NEW p \in 1..(len + 1), NEW q \in 1..(len + 1), p < q, queue'[p] > queue'[q]
        PROVE  queue'[q] \in retried'
    <2>1. CASE q = k
      BY <2>1, <1>4
    <2>2. CASE q # k /\ p = k
      <3>1. /\ q - 1 \in 1..len /\ queue'[q] = rest[q - 1] /\ ~(q - 1 < k)
        BY <2>2, <1>1, <1>2, <1>5, <1>9
      <3>2. rest[q - 1] \notin due
        BY <3>1, <1>1
      <3> QED BY <3>1, <3>2, <1>1
    <2>3. CASE q # k /\ p # k
      <3> DEFINE a == IF p < k THEN p ELSE p - 1
                 b == IF q < k THEN q ELSE q - 1
      <3>1. /\ a \in 1..len /\ b \in 1..len
            /\ queue'[p] = rest[a] /\ queue'[q] = rest[b]
        BY <2>3, <1>5
      <3>2. a < b
        BY <2>3, <1>1, <1>2, <1>9
      <3> HIDE DEF a, b
      <3> QED BY <3>1, <3>2, <1>1, <1>9
    <2> QED BY <2>1, <2>2, <2>3
  <1>10. Lined'
    <2>1. retried' \subseteq 1..Len(log')
      BY <1>2 DEF Lined, S
    <2> QED BY <1>4, <1>7, <1>8, <1>9, <2>1 DEF Lined
  <1>11. NoOvertaking'
    BY <1>6 DEF NoOvertaking, InQueue
  <1> QED BY <1>6, <1>10, <1>11

\* What the end of a delivery does to the rows: the row is taken out, is left, or is
\* moved behind the rows that are due.
Moved ==
  /\ due' = due \ {row} /\ retried' = retried \cup {row} /\ UNCHANGED dropped
  /\ \E i, k \in DOMAIN queue : \E rest \in {RemoveAt(queue, i)} :
       /\ queue[i] = row
       /\ \A j \in DOMAIN rest : rest[j] \in due => j < k
       /\ queue' = InsertAt(rest, k, row)

LEMMA RoundEnds ==
  ASSUME Clear \/ Postpone \/ Reject
  PROVE  /\ spc \in {"clear", "failed", "rejected"} /\ spc' = "peek" /\ row' = 0 /\ item' = 1
         /\ UNCHANGED <<log, on, hpc, hcb, records, applied, abandoned, cut>>
         /\ \/ RemoveRow /\ UNCHANGED retried /\ dropped' = dropped \cup {row}
            \/ RemoveRow /\ UNCHANGED retried /\ UNCHANGED dropped /\ spc = "clear"
            \/ UNCHANGED <<queue, due, retried, dropped>>
            \/ Moved
  <1>1. /\ spc \in {"clear", "failed", "rejected"} /\ spc' = "peek" /\ row' = 0 /\ item' = 1
        /\ UNCHANGED <<log, on, hpc, hcb, records, applied, abandoned, cut>>
    BY DEF Clear, Postpone, Reject, NextRound, RemoveRow, threads, history, table
  <1>2. CASE Clear
    BY <1>1, <1>2 DEF Clear, history, table
  <1>3. CASE Postpone
    BY <1>1, <1>3 DEF Postpone, Moved, table
  <1>4. CASE Reject
    BY <1>1, <1>4 DEF Reject, table
  <1> QED BY <1>1, <1>2, <1>3, <1>4

LEMMA LinedStep == Typed /\ Lined /\ NoOvertaking /\ [Next]_vars => Lined' /\ NoOvertaking'
  <1> SUFFICES ASSUME Typed, Lined, NoOvertaking, [Next]_vars
               PROVE  Lined' /\ NoOvertaking'
    OBVIOUS
  <1>1. ASSUME NEW t \in Tasks, NEW s \in Statuses, Enqueue(t, s)
        PROVE  Lined' /\ NoOvertaking'
    BY <1>1, LinedEnqueue
  <1>2. CASE Clear \/ Postpone \/ Reject
    <2>1. spc # "peek" /\ spc' = "peek" /\ log' = log
      BY <1>2, RoundEnds
    <2>2. CASE RemoveRow /\ UNCHANGED retried
      BY <2>1, <2>2, LinedRemove
    <2>3. CASE UNCHANGED <<queue, due, retried>>
      BY <2>1, <2>3, LinedStill DEF Typed
    <2>4. CASE Moved
      <3>1. PICK i \in DOMAIN queue, k \in DOMAIN queue : \E rest \in {RemoveAt(queue, i)} :
              /\ queue[i] = row
              /\ \A j \in DOMAIN rest : rest[j] \in due => j < k
              /\ queue' = InsertAt(rest, k, row)
        BY <2>4 DEF Moved
      <3> DEFINE rest == RemoveAt(queue, i)
      <3>2. /\ queue[i] = row /\ queue' = InsertAt(rest, k, row)
            /\ \A j \in DOMAIN rest : rest[j] \in due => j < k
        BY <3>1
      <3>3. due' = due \ {row} /\ retried' = retried \cup {row}
        BY <2>4 DEF Moved
      <3>4. rest = RemoveAt(queue, i)
        OBVIOUS
      <3> HIDE DEF rest
      <3> QED BY <2>1, <3>2, <3>3, <3>4, LinedMove
    <2> QED BY <1>2, <2>2, <2>3, <2>4, RoundEnds
  <1>3. ASSUME \/ UNCHANGED vars \/ Elapse \/ Peek \/ PostFails \/ Timeout \/ Restart \/ Crash
               \/ \E h \in Handlers : Post(h) \/ Handler(h)
        PROVE  Lined' /\ NoOvertaking'
    <2> USE DEF table, sender, history
    <2>1. UNCHANGED <<log, queue, retried>> /\ due \subseteq due'
      BY <1>3 DEF vars, Elapse, Peek, PostFails, Timeout, Restart, Crash, Post, Handler,
                  Record, Apply, Forget, Answer
    <2>2. spc' # "peek" =>
             \/ queue # << >> /\ row' = queue[1] /\ row' \in due
             \/ spc # "peek" /\ row' = row
      <3>1. CASE UNCHANGED <<spc, row>>
        BY <3>1
      <3>2. CASE Peek \/ PostFails \/ Timeout \/ Restart \/ \E h \in Handlers : Post(h)
        BY <3>2 DEF Peek, PostFails, Timeout, Restart, NextRound, Post
      <3>3. CASE Crash \/ \E h \in Handlers : Answer(h)
        <4>1. spc = "peek" => on = NoHandler
          BY DEF Typed, SenderHolds
        <4>2. row' = row /\ (spc = "peek" => spc' = "peek")
          BY <3>3, <4>1, DeliveryAssumption DEF Crash, Answer
        <4> QED BY <4>2
      <3> QED BY <1>3, <3>1, <3>2, <3>3 DEF vars, Elapse, Handler, Record, Apply, Forget
    <2>3. spc' # "peek" => queue # << >> /\ queue[1] = row' /\ row' \in due
      BY <2>2 DEF Lined
    <2> QED BY <2>1, <2>3, LinedStill DEF Typed
  <1> QED BY <1>1, <1>2, <1>3 DEF Next, Sender

-----------------------------------------------------------------------------
(* What the steps leave: rows keep their callbacks, histories only grow.    *)

LEMMA Grows ==
  ASSUME Typed, [Next]_vars
  PROVE  /\ 1..Len(log) \subseteq 1..Len(log')
         /\ \A id \in 1..Len(log) : log'[id] = log[id]
         /\ \A id \in 1..Len(log) : \A k : Callback(id, k)' = Callback(id, k)
         /\ Range(applied) \subseteq Range(applied')
         /\ retried \subseteq retried' /\ dropped \subseteq dropped'
         /\ abandoned \subseteq abandoned' /\ cut \subseteq cut'
  <1>1. /\ 1..Len(log) \subseteq 1..Len(log')
        /\ \A id \in 1..Len(log) : log'[id] = log[id]
    <2>1. ASSUME NEW t \in Tasks, NEW s \in Statuses, Enqueue(t, s)
          PROVE  /\ 1..Len(log) \subseteq 1..Len(log')
                 /\ \A id \in 1..Len(log) : log'[id] = log[id]
      <3>1. /\ log \in Seq([task : Tasks, status : Statuses])
            /\ [task |-> t, status |-> s] \in [task : Tasks, status : Statuses]
            /\ log' = Append(log, [task |-> t, status |-> s])
        BY <2>1 DEF Typed, TypeOK, Enqueue
      <3>2. /\ Len(log') = Len(log) + 1 /\ Len(log) \in Nat
            /\ \A id \in 1..Len(log) : log'[id] = log[id]
        BY <3>1, AppendProperties
      <3> QED BY <3>2
    <2>2. CASE Clear \/ Postpone \/ Reject
      BY <2>2, RoundEnds
    <2>3. CASE \/ UNCHANGED vars \/ Elapse \/ Peek \/ PostFails \/ Timeout \/ Restart \/ Crash
               \/ \E h \in Handlers : Post(h) \/ Handler(h)
      BY <2>3 DEF vars, Elapse, Peek, PostFails, Timeout, Restart, Crash, Post, Handler,
                  Record, Apply, Forget, Answer, table
    <2> QED BY <2>1, <2>2, <2>3 DEF Next, Sender
  <1>2. \A id \in 1..Len(log) : \A k : Callback(id, k)' = Callback(id, k)
    BY <1>1 DEF Callback
  <1>3. applied' = applied \/ \E h \in Handlers : Apply(h)
    BY DEF Next, Sender, Handler, vars, Enqueue, Elapse, Peek, PostFails, Timeout, Clear,
           Postpone, Reject, Restart, Crash, Post, Record, Forget, Answer
  <1>4. Range(applied) \subseteq Range(applied')
    <2>1. CASE \E h \in Handlers : Apply(h)
      <3>1. PICK h \in Handlers : Apply(h)
        BY <2>1
      <3>2. applied \in Seq(Callbacks) /\ hcb[h] \in Callbacks
        BY <3>1 DEF Apply, Typed, TypeOK
      <3>3. CASE applied' = Append(applied, hcb[h])
        <4>1. /\ Len(applied) \in Nat /\ DOMAIN applied = 1..Len(applied)
              /\ DOMAIN applied' = 1..(Len(applied) + 1)
              /\ \A i \in 1..Len(applied) : applied'[i] = applied[i]
          BY <3>2, <3>3
        <4> QED BY <4>1 DEF Range
      <3> QED BY <3>1, <3>3 DEF Apply
    <2> QED BY <1>3, <2>1
  <1>5. /\ retried \subseteq retried' /\ dropped \subseteq dropped'
        /\ abandoned \subseteq abandoned' /\ cut \subseteq cut'
    <2>1. CASE Clear \/ Postpone \/ Reject
      BY <2>1, RoundEnds DEF Moved
    <2>2. CASE \/ UNCHANGED vars \/ Elapse \/ Peek \/ PostFails \/ Timeout \/ Restart \/ Crash
               \/ \E h \in Handlers : Post(h) \/ Handler(h)
               \/ \E t \in Tasks, s \in Statuses : Enqueue(t, s)
      BY <2>2 DEF vars, Elapse, Peek, PostFails, Timeout, Restart, Crash, Post, Handler,
                  Record, Apply, Forget, Answer, history, Enqueue
    <2> QED BY <2>1, <2>2 DEF Next, Sender
  <1> QED BY <1>1, <1>2, <1>4, <1>5

\* The rows in the table: one comes, or the head goes, or they stay the same.
LEMMA QueueSteps ==
  ASSUME Typed, Lined, [Next]_vars
  PROVE  \/ log' = log /\ Range(queue') = Range(queue)
         \/ /\ Len(log') = Len(log) + 1 /\ Range(queue') = Range(queue) \cup {Len(log) + 1}
            /\ UNCHANGED <<applied, threads, dropped, spc, row>>
         \/ /\ log' = log /\ Range(queue') = Range(queue) \ {row} /\ spc # "peek"
            /\ row \in dropped' \/ spc = "clear"
            /\ UNCHANGED <<applied, threads>>
  <1>1. ASSUME NEW t \in Tasks, NEW s \in Statuses, Enqueue(t, s)
        PROVE  /\ Len(log') = Len(log) + 1 /\ Range(queue') = Range(queue) \cup {Len(log) + 1}
               /\ UNCHANGED <<applied, threads, dropped, spc, row>>
    <2> DEFINE n == Len(log) + 1
               S == 1..n
    <2>1. log' = Append(log, [task |-> t, status |-> s]) /\ Len(log') = n
      BY <1>1 DEF Enqueue, Typed, TypeOK
    <2>2. queue \in Seq(S) /\ n \in S
      BY SeqInto DEF Typed, TypeOK
    <2>3. PICK k \in 1..(Len(queue) + 1) : queue' = InsertAt(queue, k, n)
      BY <1>1 DEF Enqueue, Arrive
    <2> HIDE DEF n, S
    <2>4. Range(queue') = Range(queue) \cup {n}
      BY <2>2, <2>3, InsertRange
    <2> QED BY <1>1, <2>1, <2>4 DEF Enqueue, n, history, sender
  <1>2. CASE Clear \/ Postpone \/ Reject
    <2>1. /\ spc # "peek" /\ spc' = "peek" /\ log' = log
          /\ UNCHANGED <<applied, threads>>
      BY <1>2, RoundEnds DEF threads
    <2>2. CASE RemoveRow /\ (dropped' = dropped \cup {row} \/ spc = "clear")
      <3>1. PICK i \in DOMAIN queue : queue[i] = row /\ queue' = RemoveAt(queue, i)
        BY <2>2 DEF RemoveRow
      <3>2. Range(queue') = Range(queue) \ {row}
        BY <2>1, <3>1, RestIsLined
      <3> QED BY <2>1, <2>2, <3>2
    <2>3. CASE UNCHANGED queue
      BY <2>1, <2>3
    <2>4. CASE Moved
      <3>1. PICK i \in DOMAIN queue, k \in DOMAIN queue : \E rest \in {RemoveAt(queue, i)} :
              /\ queue[i] = row
              /\ queue' = InsertAt(rest, k, row)
        BY <2>4 DEF Moved
      <3> DEFINE rest == RemoveAt(queue, i)
      <3>2. queue[i] = row /\ queue' = InsertAt(rest, k, row) /\ rest = RemoveAt(queue, i)
        BY <3>1
      <3> HIDE DEF rest
      <3>3. /\ queue \in Seq(1..Len(log)) /\ rest \in Seq(1..Len(log))
            /\ Len(rest) = Len(queue) - 1 /\ Range(rest) = Range(queue) \ {row}
        BY <2>1, <3>2, RestIsLined DEF Typed, TypeOK
      <3>4. row \in 1..Len(log) /\ k \in 1..(Len(rest) + 1)
        BY <2>1, <3>3 DEF Typed, SenderHolds
      <3>5. Range(queue') = Range(rest) \cup {row}
        BY <3>2, <3>3, <3>4, InsertRange
      <3>6. row \in Range(queue)
        BY <3>2 DEF Range
      <3> QED BY <2>1, <3>3, <3>5, <3>6
    <2> QED BY <1>2, <2>2, <2>3, <2>4, RoundEnds
  <1>3. ASSUME \/ UNCHANGED vars \/ Elapse \/ Peek \/ PostFails \/ Timeout \/ Restart \/ Crash
               \/ \E h \in Handlers : Post(h) \/ Handler(h)
        PROVE  UNCHANGED <<log, queue>>
    BY <1>3 DEF vars, Elapse, Peek, PostFails, Timeout, Restart, Crash, Post, Handler,
                Record, Apply, Forget, Answer, table
  <1> QED BY <1>1, <1>2, <1>3 DEF Next, Sender

-----------------------------------------------------------------------------
(* Who waits for a request, and who gave it up.                            *)

\* The request that the posting thread awaits is that of its row and item; any
\* other request that runs was abandoned.
Hands ==
  /\ \A h \in Handlers : on = h => hpc[h] # "idle" /\ hcb[h] = Callback(row, item)
  /\ \A h \in Handlers : hpc[h] # "idle" /\ on # h => hcb[h] \in abandoned

LEMMA HandsInit == Init => Hands
  BY DeliveryAssumption DEF Init, Hands

LEMMA HandsStep ==
  ASSUME Typed, Hands, [Next]_vars
  PROVE  Hands'
  <1> USE DEF sender, threads, history
  <1>0. /\ \A h \in Handlers : on = h => spc = "wait" /\ row \in 1..Len(log)
        /\ NoHandler \notin Handlers /\ (spc # "wait" => on = NoHandler)
        /\ abandoned \subseteq abandoned'
        /\ \A id \in 1..Len(log) : \A k : Callback(id, k)' = Callback(id, k)
    BY DeliveryAssumption, Grows DEF Typed, SenderHolds
  <1>1. CASE UNCHANGED <<on, threads, row, item>>
    <2>1. \A h \in Handlers : on = h => Callback(row, item)' = Callback(row, item)
      <3>1. row' = row /\ item' = item
        BY <1>1
      <3> QED BY <3>1, <1>0 DEF Callback
    <2> QED BY <1>0, <1>1, <2>1 DEF Hands
  <1>2. CASE on = NoHandler /\ UNCHANGED <<on, threads>>
    BY <1>0, <1>2 DEF Hands
  <1>3. CASE Timeout \/ Restart
    <2>1. /\ UNCHANGED threads /\ on' = NoHandler
          /\ spc = "wait" => abandoned' = abandoned \cup {Callback(row, item)}
      BY <1>3 DEF Timeout, Restart
    <2> QED BY <1>0, <2>1 DEF Hands
  <1>4. ASSUME NEW h \in Handlers, Post(h)
        PROVE  Hands'
    <2>1. /\ on = NoHandler /\ on' = h /\ row' = row /\ item' = item /\ log' = log
          /\ hpc'[h] = "record" /\ hcb'[h] = Callback(row, item)
          /\ \A g \in Handlers \ {h} : hpc'[g] = hpc[g] /\ hcb'[g] = hcb[g]
      BY <1>0, <1>4 DEF Post, Typed, TypeOK, table
    <2>2. Callback(row, item)' = Callback(row, item)
      BY <2>1 DEF Callback
    <2> QED BY <1>0, <2>1, <2>2 DEF Hands
  <1>5. ASSUME NEW h \in Handlers, Record(h) \/ Apply(h) \/ Forget(h)
        PROVE  Hands'
    <2>1. /\ UNCHANGED <<on, row, item, log, hcb>> /\ hpc[h] # "idle" /\ hpc'[h] # "idle"
          /\ \A g \in Handlers \ {h} : hpc'[g] = hpc[g]
      BY <1>5 DEF Record, Apply, Forget, HGoto, Typed, TypeOK, table
    <2>2. Callback(row, item)' = Callback(row, item)
      BY <2>1 DEF Callback
    <2> QED BY <1>0, <2>1, <2>2 DEF Hands
  <1>6. ASSUME NEW h \in Handlers, Answer(h)
        PROVE  Hands'
    <2>1. /\ row' = row /\ log' = log /\ hpc'[h] = "idle"
          /\ \A g \in Handlers \ {h} : hpc'[g] = hpc[g] /\ hcb'[g] = hcb[g]
          /\ \/ on # h /\ UNCHANGED <<item, on>>
             \/ on = h /\ on' = NoHandler
      BY <1>6 DEF Answer, HGoto, Typed, TypeOK, table
    <2>2. on # h => Callback(row, item)' = Callback(row, item)
      BY <2>1 DEF Callback
    <2> QED BY <1>0, <2>1, <2>2 DEF Hands
  <1>7. CASE Crash
    <2>1. on' = NoHandler /\ \A h \in Handlers : hpc'[h] = "idle"
      BY <1>7 DEF Crash
    <2> QED BY <1>0, <2>1 DEF Hands
  <1>8. CASE Clear \/ Postpone \/ Reject
    BY <1>0, <1>2, <1>8, RoundEnds
  <1>9. CASE UNCHANGED vars \/ Elapse \/ PostFails \/ \E t \in Tasks, s \in Statuses : Enqueue(t, s)
    BY <1>1, <1>9 DEF vars, Elapse, PostFails, Enqueue
  <1>10. CASE Peek
    BY <1>0, <1>2, <1>10 DEF Peek
  <1> QED BY <1>3, <1>4, <1>5, <1>6, <1>7, <1>8, <1>9, <1>10 DEF Next, Sender, Handler

-----------------------------------------------------------------------------
(* What an acknowledgement means.                                          *)

Explained(id, k) ==
  WasApplied(Callback(id, k)) \/ id \in dropped \/ Callback(id, k) \in abandoned \cup cut

\* A record that is left is that of a callback that was applied, is being executed,
\* or was cut off.
RecordsExplained ==
  \A c \in records : WasApplied(c) \/ c \in cut \/ \E h \in Handlers : Executes(h) /\ hcb[h] = c
\* What is acknowledged was applied, unless its record was left by another request.
Acknowledged ==
  /\ \A h \in Handlers : hpc[h] = "ok" => WasApplied(hcb[h]) \/ hcb[h] \in abandoned \cup cut
  /\ spc # "peek" => \A k \in 1..(item - 1) : Explained(row, k)
  /\ spc = "clear" => \A k \in 1..Items[log[row].task] : Explained(row, k)

Answers == RecordsExplained /\ Acknowledged

LEMMA AnswersInit == Init => Answers
  BY DEF Init, Answers, RecordsExplained, Acknowledged

LEMMA ExplainedStays ==
  ASSUME Typed, [Next]_vars, NEW id \in 1..Len(log), NEW k, Explained(id, k)
  PROVE  Explained(id, k)'
  <1>1. Callback(id, k)' = Callback(id, k)
    BY Grows
  <1>2. Range(applied) \subseteq Range(applied')
    BY Grows
  <1>3. dropped \subseteq dropped' /\ abandoned \subseteq abandoned' /\ cut \subseteq cut'
    BY Grows
  <1> QED BY <1>1, <1>2, <1>3 DEF Explained, WasApplied

LEMMA RecordsExplainedStep ==
  ASSUME Typed, RecordsExplained, [Next]_vars
  PROVE  RecordsExplained'
  <1> USE DEF threads, Executes
  <1>0. /\ \A c : WasApplied(c) => WasApplied(c)'
        /\ cut \subseteq cut'
    BY Grows DEF WasApplied
  <1>1. ASSUME records' \subseteq records,
               \A h \in Handlers : Executes(h) => Executes(h)' /\ hcb'[h] = hcb[h]
        PROVE  RecordsExplained'
    BY <1>0, <1>1 DEF RecordsExplained
  <1>2. CASE \/ UNCHANGED vars \/ Elapse \/ Sender \/ Restart
             \/ \E t \in Tasks, s \in Statuses : Enqueue(t, s)
             \/ \E h \in Handlers : Answer(h)
    <2>1. records' = records
      BY <1>2 DEF vars, Elapse, Sender, Restart, Enqueue, Answer, Peek, PostFails, Timeout,
                  Clear, Postpone, Reject, Post
    <2>2. CASE UNCHANGED threads
      BY <2>1, <2>2, <1>1
    <2>3. ASSUME NEW h \in Handlers, Post(h) \/ Answer(h)
          PROVE  \A g \in Handlers : Executes(g) => Executes(g)' /\ hcb'[g] = hcb[g]
      BY <2>3 DEF Post, Answer, HGoto, Typed, TypeOK
    <2>4. CASE \E h \in Handlers : Post(h) \/ Answer(h)
      BY <2>1, <2>3, <2>4, <1>1
    <2> QED BY <1>2, <2>2, <2>4 DEF vars, Elapse, Sender, Restart, Enqueue, Peek, PostFails,
                Timeout, Clear, Postpone, Reject
  <1>3. CASE Crash
    <2>1. /\ records' = records
          /\ \A h \in Handlers : Executes(h) => hcb[h] \in cut'
      BY <1>3 DEF Crash
    <2> QED BY <1>0, <2>1 DEF RecordsExplained
  <1>4. ASSUME NEW h \in Handlers, Record(h)
        PROVE  RecordsExplained'
    <2>1. /\ hcb' = hcb /\ ~Executes(h)
          /\ \A g \in Handlers \ {h} : hpc'[g] = hpc[g]
          /\ \/ records' = records \cup {hcb[h]} /\ Executes(h)'
             \/ records' = records
      BY <1>4 DEF Record, HGoto, Typed, TypeOK
    <2> QED BY <1>0, <2>1 DEF RecordsExplained
  <1>5. ASSUME NEW h \in Handlers, Apply(h)
        PROVE  RecordsExplained'
    <2>1. /\ hcb' = hcb /\ records' = records
          /\ \A g \in Handlers \ {h} : hpc'[g] = hpc[g]
          /\ applied' = Append(applied, hcb[h]) \/ Executes(h)'
      BY <1>5 DEF Apply, HGoto, Typed, TypeOK
    <2>2. applied' = Append(applied, hcb[h]) => WasApplied(hcb[h])'
      <3>1. applied \in Seq(Callbacks) /\ hcb[h] \in Callbacks
        BY <1>5 DEF Apply, Typed, TypeOK
      <3>2. SUFFICES ASSUME applied' = Append(applied, hcb[h])
                     PROVE  hcb[h] \in Range(applied')
        BY <2>1 DEF WasApplied
      <3>3. Len(applied) + 1 \in DOMAIN applied' /\ applied'[Len(applied) + 1] = hcb[h]
        BY <3>1, <3>2
      <3> QED BY <3>3 DEF Range
    <2> QED BY <1>0, <2>1, <2>2 DEF RecordsExplained
  <1>6. ASSUME NEW h \in Handlers, Forget(h)
        PROVE  RecordsExplained'
    <2>1. /\ hcb' = hcb /\ \A g \in Handlers \ {h} : hpc'[g] = hpc[g]
          /\ \/ records' = records \ {hcb[h]}
             \/ records' = records /\ hcb[h] \in cut'
      BY <1>6 DEF Forget, HGoto, Typed, TypeOK
    <2> QED BY <1>0, <2>1 DEF RecordsExplained
  <1> QED BY <1>2, <1>3, <1>4, <1>5, <1>6 DEF Next, Handler

\* A request that is acknowledged because of a record finds the callback applied or
\* cut off, or executed by another request: one of the two was abandoned.
LEMMA OkIsExplained ==
  ASSUME Typed, Hands, Answers, [Next]_vars, NEW h \in Handlers, hpc'[h] = "ok"
  PROVE  hcb[h] \in Range(applied') \/ hcb[h] \in abandoned' \cup cut'
  <1>0. /\ Range(applied) \subseteq Range(applied')
        /\ abandoned \subseteq abandoned' /\ cut \subseteq cut'
    BY Grows
  <1>1. CASE hpc[h] = "ok"
    BY <1>0, <1>1 DEF Answers, Acknowledged, WasApplied
  <1>2. CASE hpc[h] # "ok"
    <2>1. Record(h) \/ Apply(h)
      <3>1. CASE Clear \/ Postpone \/ Reject
        BY <1>2, <3>1, RoundEnds
      <3>2. ASSUME NEW g \in Handlers, Post(g) \/ Handler(g)
            PROVE  Record(h) \/ Apply(h)
        BY <1>2, <3>2 DEF Post, Handler, Record, Apply, Forget, Answer, HGoto, Typed, TypeOK
      <3>3. CASE \/ UNCHANGED vars \/ Elapse \/ Peek \/ PostFails \/ Timeout \/ Restart \/ Crash
                 \/ \E t \in Tasks, s \in Statuses : Enqueue(t, s)
        BY <1>2, <3>3 DEF vars, Elapse, Peek, PostFails, Timeout, Restart, Crash, Enqueue, threads
      <3> QED BY <3>1, <3>2, <3>3 DEF Next, Sender
    <2>2. CASE Record(h)
      <3>1. hpc[h] = "record" /\ hcb[h] \in records
        BY <1>2, <2>2 DEF Record, HGoto, Typed, TypeOK
      <3>2. CASE WasApplied(hcb[h]) \/ hcb[h] \in cut
        BY <1>0, <3>2 DEF WasApplied
      <3>3. ASSUME NEW g \in Handlers, Executes(g), hcb[g] = hcb[h]
            PROVE  hcb[h] \in abandoned
        <4>1. g # h /\ hpc[g] # "idle" /\ hpc[h] # "idle"
          BY <3>1, <3>3 DEF Executes
        <4> QED BY <3>3, <4>1 DEF Hands
      <3> QED BY <1>0, <3>1, <3>2, <3>3 DEF Answers, RecordsExplained
    <2>3. CASE Apply(h)
      <3>1. applied \in Seq(Callbacks) /\ hcb[h] \in Callbacks
        BY <2>3 DEF Apply, Typed, TypeOK
      <3>2. applied' = Append(applied, hcb[h])
        BY <1>2, <2>3 DEF Apply, HGoto, Typed, TypeOK
      <3>3. Len(applied) + 1 \in DOMAIN applied' /\ applied'[Len(applied) + 1] = hcb[h]
        BY <3>1, <3>2
      <3> QED BY <3>3 DEF Range
    <2> QED BY <2>1, <2>2, <2>3
  <1> QED BY <1>1, <1>2

\* How the posting thread goes on with a row.
LEMMA SenderSteps ==
  ASSUME Typed, [Next]_vars, spc' # "peek"
  PROVE  \/ Peek
         \/ /\ spc # "peek" /\ row' = row /\ item' = item
            /\ spc' = "clear" => spc = "clear"
         \/ /\ spc # "peek" /\ row' = row
            /\ \E h \in Handlers : on = h /\ hpc[h] = "ok"
            /\ \/ spc' = "post" /\ item' = item + 1
               \/ spc' = "clear" /\ item' = item /\ item >= Items[log[row].task]
  <1> USE DEF sender
  <1>1. on # NoHandler => spc = "wait"
    BY DEF Typed, SenderHolds
  <1>2. CASE Crash
    BY <1>1, <1>2 DEF Crash
  <1>3. ASSUME NEW h \in Handlers, Answer(h)
        PROVE  \/ /\ spc # "peek" /\ row' = row /\ item' = item
                  /\ spc' = "clear" => spc = "clear"
               \/ /\ spc # "peek" /\ row' = row
                  /\ \E g \in Handlers : on = g /\ hpc[g] = "ok"
                  /\ \/ spc' = "post" /\ item' = item + 1
                     \/ spc' = "clear" /\ item' = item /\ item >= Items[log[row].task]
    <2>1. on = h => spc = "wait"
      BY <1>1, DeliveryAssumption
    <2> QED BY <1>3, <2>1 DEF Answer
  <1>4. CASE UNCHANGED sender
    BY <1>4
  <1>5. CASE \/ Peek \/ PostFails \/ Timeout \/ Restart \/ \E h \in Handlers : Post(h)
    BY <1>5 DEF PostFails, Timeout, Restart, NextRound, Post
  <1>6. CASE Clear \/ Postpone \/ Reject
    BY <1>6, RoundEnds
  <1>7. ASSUME \/ UNCHANGED vars \/ Elapse \/ \E t \in Tasks, s \in Statuses : Enqueue(t, s)
               \/ \E h \in Handlers : Record(h) \/ Apply(h) \/ Forget(h)
        PROVE  UNCHANGED sender
    BY <1>7 DEF vars, Elapse, Enqueue, Record, Apply, Forget
  <1> QED BY <1>2, <1>3, <1>4, <1>5, <1>6, <1>7 DEF Next, Sender, Handler

LEMMA AcknowledgedStep ==
  ASSUME Typed, Hands, Answers, [Next]_vars
  PROVE  Acknowledged'
  <1> USE DEF Answers, table, sender, threads
  <1>1. ASSUME NEW h \in Handlers, hpc'[h] = "ok"
        PROVE  hcb'[h] \in Range(applied') \/ hcb'[h] \in abandoned' \cup cut'
    <2>1. hcb'[h] = hcb[h]
      <3>1. CASE Clear \/ Postpone \/ Reject
        BY <3>1, RoundEnds
      <3>2. ASSUME NEW g \in Handlers, Post(g) \/ Handler(g)
            PROVE  hcb'[h] = hcb[h]
        BY <1>1, <3>2 DEF Post, Handler, Record, Apply, Forget, Answer, HGoto, Typed, TypeOK
      <3>3. CASE \/ UNCHANGED vars \/ Elapse \/ Peek \/ PostFails \/ Timeout \/ Restart \/ Crash
                 \/ \E t \in Tasks, s \in Statuses : Enqueue(t, s)
        BY <1>1, <3>3 DEF vars, Elapse, Peek, PostFails, Timeout, Restart, Crash, Enqueue
      <3> QED BY <3>1, <3>2, <3>3 DEF Next, Sender
    <2> QED BY <1>1, <2>1, OkIsExplained
  <1>2. \A id \in 1..Len(log) : \A k : Explained(id, k) => Explained(id, k)'
    BY ExplainedStays
  <1>3. spc # "peek" => row \in 1..Len(log) /\ item \in 1..Items[log[row].task] /\ item \in Nat
    BY DEF Typed, SenderHolds, TypeOK
  <1>4. ASSUME spc # "peek", NEW h \in Handlers, on = h, hpc[h] = "ok"
        PROVE  \A k \in 1..item : Explained(row, k)
    <2>1. Explained(row, item)
      BY <1>4 DEF Hands, Acknowledged, Explained
    <2> QED BY <1>3, <1>4, <2>1 DEF Acknowledged
  <1>5. ASSUME spc' # "peek", NEW k \in 1..(item' - 1)
        PROVE  Explained(row, k)'
    <2>1. CASE Peek
      BY <1>5, <2>1 DEF Peek
    <2>2. CASE ~Peek
      <3>1. spc # "peek" /\ row' = row /\ Explained(row, k)
        <4>1. CASE item' = item
          BY <1>5, <2>2, <4>1, SenderSteps DEF Acknowledged
        <4>2. CASE item' = item + 1
          BY <1>3, <1>4, <1>5, <2>2, <4>2, SenderSteps
        <4> QED BY <1>5, <2>2, <4>1, <4>2, SenderSteps
      <3> QED BY <1>2, <1>3, <3>1 DEF Explained, Callback
    <2> QED BY <2>1, <2>2
  <1>6. ASSUME spc' = "clear", NEW k \in 1..Items[log'[row'].task]
        PROVE  Explained(row, k)'
    <2>1. ~Peek
      BY <1>6 DEF Peek
    <2>2. spc # "peek" /\ row' = row
      BY <1>6, <2>1, SenderSteps
    <2>3. Items[log'[row'].task] = Items[log[row].task]
      BY <1>3, <2>2, Grows
    <2>4. Items[log[row].task] \in Nat
      <3>1. log[row] \in [task : Tasks, status : Statuses]
        BY <1>3, <2>2, ElementOfSeq DEF Typed, TypeOK
      <3> QED BY <3>1, DeliveryAssumption
    <2>5. Explained(row, k)
      <3>1. CASE spc = "clear"
        BY <1>6, <2>3, <3>1 DEF Acknowledged
      <3>2. CASE spc # "clear"
        <4>1. item = Items[log[row].task] /\ \E h \in Handlers : on = h /\ hpc[h] = "ok"
          BY <1>3, <1>6, <2>1, <2>4, <3>2, SenderSteps
        <4> QED BY <1>4, <1>6, <2>2, <2>3, <4>1
      <3> QED BY <3>1, <3>2
    <2> QED BY <1>2, <1>3, <2>2, <2>5 DEF Explained, Callback
  <1> QED BY <1>1, <1>5, <1>6 DEF Acknowledged, WasApplied

\* What is gone is explained by the acknowledgements or was dropped.
LEMMA GoneStep ==
  ASSUME Typed, Lined, Answers, GoneIsExplained, [Next]_vars
  PROVE  GoneIsExplained'
  <1> SUFFICES ASSUME NEW id \in 1..Len(log'), NEW k \in 1..Items[log'[id].task],
                      id \notin Range(queue')
               PROVE  Explained(id, k)'
    BY DEF GoneIsExplained, Explained, InQueue, WasApplied
  <1>1. id \in 1..Len(log)
    <2>1. CASE log' = log
      BY <2>1
    <2>2. CASE Len(log') = Len(log) + 1 /\ Range(queue') = Range(queue) \cup {Len(log) + 1}
      <3>1. Len(log) \in Nat
        BY DEF Typed, TypeOK
      <3>2. id \in 1..(Len(log) + 1) /\ id # Len(log) + 1
        BY <2>2
      <3> QED BY <3>1, <3>2
    <2> QED BY <2>1, <2>2, QueueSteps
  <1>2. Items[log'[id].task] = Items[log[id].task]
    BY <1>1, Grows
  <1>3. CASE id \notin Range(queue)
    <2>1. Explained(id, k)
      BY <1>1, <1>2, <1>3 DEF GoneIsExplained, Explained, InQueue
    <2> QED BY <1>1, <2>1, ExplainedStays
  <1>4. CASE id \in Range(queue)
    <2>1. id = row /\ (id \in dropped' \/ spc = "clear")
      BY <1>4, QueueSteps
    <2>2. CASE id \in dropped'
      BY <2>2 DEF Explained
    <2>3. CASE spc = "clear"
      <3>1. Explained(id, k)
        BY <1>2, <2>1, <2>3 DEF Answers, Acknowledged
      <3> QED BY <1>1, <3>1, ExplainedStays
    <2> QED BY <2>1, <2>2, <2>3
  <1> QED BY <1>3, <1>4

-----------------------------------------------------------------------------
(* The order of the callbacks.                                             *)

\* Row f was posted: the earlier rows that are still there were postponed.
Passed(f) == \A i \in 1..(f - 1) : InQueue(i) => i \in retried
\* c is a callback of a row that was posted.
Posted(c) == \E f \in 1..Len(log) : Passed(f) /\ c = Callback(f, c.item)

AllPosted ==
  /\ \A h \in Handlers : hpc[h] # "idle" => Posted(hcb[h])
  /\ \A j \in DOMAIN applied : Posted(applied[j])

LEMMA AllPostedInit == Init => AllPosted
  BY DEF Init, AllPosted

LEMMA PostedStays ==
  ASSUME Typed, Lined, [Next]_vars
  PROVE  \A c : Posted(c) => Posted(c)'
  <1> SUFFICES ASSUME NEW c, Posted(c) PROVE Posted(c)'
    OBVIOUS
  <1>1. PICK f \in 1..Len(log) : Passed(f) /\ c = Callback(f, c.item)
    BY DEF Posted
  <1>2. \A i \in 1..(f - 1) : i \in Range(queue') => i \in Range(queue)
    <2>1. \A i \in 1..(f - 1) : i # Len(log) + 1
      BY DEF Typed, TypeOK
    <2> QED BY <2>1, QueueSteps
  <1>3. f \in 1..Len(log') /\ retried \subseteq retried'
    BY Grows
  <1>4. Callback(f, c.item) = Callback(f, c.item)'
    BY Grows
  <1>5. \A i \in 1..(f - 1) : i \in Range(queue') => i \in retried'
    BY <1>1, <1>2, <1>3 DEF Passed, InQueue
  <1>6. Passed(f)'
    BY <1>5 DEF Passed, InQueue
  <1> QED BY <1>1, <1>3, <1>4, <1>6 DEF Posted

\* The row that is being posted is the head of the queue: those before it that are
\* left were postponed.
LEMMA HeadPassed ==
  ASSUME Typed, Lined, spc # "peek"
  PROVE  Passed(row)
  <1> SUFFICES ASSUME NEW i \in 1..(row - 1), i \in Range(queue)
               PROVE  i \in retried
    BY DEF Passed, InQueue
  <1>1. PICK p \in DOMAIN queue : queue[p] = i
    BY DEF Range
  <1>2. queue[1] = row /\ row \in 1..Len(log) /\ queue \in Seq(1..Len(log)) /\ queue # << >>
    BY DEF Lined, Typed, SenderHolds, TypeOK
  <1>3. p # 1 /\ p > 1 /\ 1 \in DOMAIN queue /\ queue[1] > queue[p]
    BY <1>1, <1>2
  <1> QED BY <1>1, <1>3 DEF Lined

LEMMA AllPostedStep ==
  ASSUME Typed, Lined, AllPosted, [Next]_vars
  PROVE  AllPosted'
  <1>0. \A c : Posted(c) => Posted(c)'
    BY PostedStays
  <1>1. ASSUME \A h \in Handlers : hpc'[h] # "idle" => hpc[h] # "idle" /\ hcb'[h] = hcb[h],
               applied' = applied
        PROVE  AllPosted'
    <2>1. \A h \in Handlers : hpc'[h] # "idle" => \E c : c = hcb'[h] /\ Posted(c)'
      BY <1>0, <1>1 DEF AllPosted
    <2>2. \A j \in DOMAIN applied' : \E c : c = applied'[j] /\ Posted(c)'
      BY <1>0, <1>1 DEF AllPosted
    <2> QED BY <2>1, <2>2 DEF AllPosted, Posted, Passed, InQueue, Callback
  <1>2. CASE \/ UNCHANGED vars \/ Elapse \/ Peek \/ PostFails \/ Timeout \/ Restart
             \/ \E t \in Tasks, s \in Statuses : Enqueue(t, s)
    BY <1>1, <1>2 DEF vars, Elapse, Peek, PostFails, Timeout, Restart, Enqueue, threads
  <1>3. CASE Clear \/ Postpone \/ Reject
    BY <1>1, <1>3, RoundEnds
  <1>4. CASE Crash
    BY <1>1, <1>4 DEF Crash
  <1>5. ASSUME NEW h \in Handlers, Record(h) \/ Forget(h) \/ Answer(h)
        PROVE  AllPosted'
    <2>1. /\ \A g \in Handlers : hpc'[g] # "idle" => hpc[g] # "idle" /\ hcb'[g] = hcb[g]
          /\ applied' = applied
      BY <1>5 DEF Record, Forget, Answer, HGoto, Typed, TypeOK
    <2> QED BY <2>1, <1>1
  <1>6. ASSUME NEW h \in Handlers, Post(h)
        PROVE  AllPosted'
    <2> DEFINE c == Callback(row, item)
    <2>1. /\ hcb'[h] = c /\ applied' = applied
          /\ \A g \in Handlers \ {h} : hpc'[g] = hpc[g] /\ hcb'[g] = hcb[g]
      BY <1>6 DEF Post, Typed, TypeOK
    <2>2. Posted(c)
      <3>1. row \in 1..Len(log) /\ Passed(row)
        BY <1>6, HeadPassed DEF Post, Typed, SenderHolds
      <3> QED BY <3>1 DEF Posted, Callback
    <2>3. \E d : d = hcb'[h] /\ Posted(d)'
      <3> HIDE DEF c
      <3>1. \E d : d = c /\ Posted(d)
        BY <2>2
      <3> QED BY <3>1, <2>1, <1>0
    <2>4. \A g \in Handlers : hpc'[g] # "idle" => \E d : d = hcb'[g] /\ Posted(d)'
      BY <1>0, <2>1, <2>3 DEF AllPosted
    <2>5. \A j \in DOMAIN applied' : \E d : d = applied'[j] /\ Posted(d)'
      BY <1>0, <2>1 DEF AllPosted
    <2> HIDE DEF c
    <2> QED BY <2>4, <2>5 DEF AllPosted, Posted, Passed, InQueue, Callback
  <1>7. ASSUME NEW h \in Handlers, Apply(h)
        PROVE  AllPosted'
    <2>1. /\ hpc[h] = "apply" /\ hcb' = hcb
          /\ \A g \in Handlers : hpc'[g] # "idle" => hpc[g] # "idle"
          /\ applied \in Seq(Callbacks) /\ hcb[h] \in Callbacks
          /\ applied' = applied \/ applied' = Append(applied, hcb[h])
      BY <1>7 DEF Apply, HGoto, Typed, TypeOK
    <2>2. \A j \in DOMAIN applied' : applied'[j] = hcb[h] \/ (j \in DOMAIN applied /\ applied'[j] = applied[j])
      BY <2>1
    <2>3. \A g \in Handlers : hpc'[g] # "idle" => \E d : d = hcb'[g] /\ Posted(d)'
      BY <1>0, <2>1 DEF AllPosted
    <2>4. \A j \in DOMAIN applied' : \E d : d = applied'[j] /\ Posted(d)'
      BY <1>0, <2>1, <2>2 DEF AllPosted
    <2> QED BY <2>3, <2>4 DEF AllPosted, Posted, Passed, InQueue, Callback
  <1> QED BY <1>2, <1>3, <1>4, <1>5, <1>6, <1>7 DEF Next, Sender, Handler

LEMMA StartBeforeFinishStep ==
  ASSUME Typed, Lined, Hands, AllPosted, StartBeforeFinish, [Next]_vars
  PROVE  StartBeforeFinish'
  <1> DEFINE Excused(c, ab, re, l) ==
        \/ c \in ab
        \/ \E id \in re : l[id] = [task |-> c.task, status |-> "WORKING"]
        \/ \E m, n \in 1..Len(l) :
             /\ m < n /\ l[m].task = c.task /\ l[n].task = c.task
             /\ l[m].status \in Outcomes /\ l[n].status = "WORKING"
  <1>1. ASSUME NEW c, Excused(c, abandoned, retried, log)
        PROVE  Excused(c, abandoned', retried', log')
    <2>1. /\ abandoned \subseteq abandoned' /\ retried \subseteq retried'
          /\ retried \subseteq 1..Len(log) /\ 1..Len(log) \subseteq 1..Len(log')
          /\ \A id \in 1..Len(log) : log'[id] = log[id]
      BY Grows DEF Lined
    <2>2. CASE \E id \in retried : log[id] = [task |-> c.task, status |-> "WORKING"]
      BY <2>1, <2>2
    <2>3. CASE \E m, n \in 1..Len(log) :
             /\ m < n /\ log[m].task = c.task /\ log[n].task = c.task
             /\ log[m].status \in Outcomes /\ log[n].status = "WORKING"
      <3>1. PICK m \in 1..Len(log), n \in 1..Len(log) :
             /\ m < n /\ log[m].task = c.task /\ log[n].task = c.task
             /\ log[m].status \in Outcomes /\ log[n].status = "WORKING"
        BY <2>3
      <3>2. log'[m] = log[m] /\ log'[n] = log[n] /\ m \in 1..Len(log') /\ n \in 1..Len(log')
        BY <2>1
      <3> QED BY <3>1, <3>2
    <2> QED BY <1>1, <2>1, <2>2, <2>3
  <1>2. SUFFICES ASSUME NEW i \in DOMAIN applied', NEW j \in DOMAIN applied',
                        applied'[i].task = applied'[j].task,
                        applied'[i].item = applied'[j].item,
                        applied'[i].status = "WORKING", applied'[j].status \in Outcomes,
                        j < i
                 PROVE  Excused(applied'[i], abandoned', retried', log')
    BY DEF StartBeforeFinish
  <1>3. ASSUME i \in DOMAIN applied, j \in DOMAIN applied,
               applied'[i] = applied[i], applied'[j] = applied[j]
        PROVE  Excused(applied'[i], abandoned', retried', log')
    <2>1. Excused(applied[i], abandoned, retried, log)
      BY <1>2, <1>3 DEF StartBeforeFinish
    <2> QED BY <1>1, <1>3, <2>1
  <1>4. CASE applied' = applied
    BY <1>3, <1>4
  <1>5. ASSUME NEW h \in Handlers, Apply(h), applied' = Append(applied, hcb[h])
        PROVE  Excused(applied'[i], abandoned', retried', log')
    <2> DEFINE c == hcb[h]
    <2>1. /\ applied \in Seq(Callbacks) /\ c \in Callbacks /\ hpc[h] = "apply"
          /\ UNCHANGED <<log, abandoned, retried>>
      BY <1>5 DEF Apply, Typed, TypeOK, table, history
    <2>2. /\ DOMAIN applied = 1..Len(applied) /\ DOMAIN applied' = 1..(Len(applied) + 1)
          /\ Len(applied) \in Nat /\ applied'[Len(applied) + 1] = c
          /\ \A x \in DOMAIN applied : applied'[x] = applied[x]
      BY <1>5, <2>1
    <2> HIDE DEF c
    <2>3. CASE i \in DOMAIN applied
      BY <1>2, <1>3, <2>2, <2>3
    <2>4. CASE i \notin DOMAIN applied
      <3>1. /\ i = Len(applied) + 1 /\ applied'[i] = c
            /\ j \in DOMAIN applied /\ applied'[j] = applied[j]
        BY <1>2, <2>2, <2>4
      <3>2. c \in abandoned \/ on = h
        BY <2>1 DEF Hands, c
      <3>3. CASE on = h
        <4>1. /\ spc # "peek" /\ row \in 1..Len(log) /\ row \in Nat
              /\ c = Callback(row, item) /\ InQueue(row)
          <5>1. spc = "wait"
            BY <3>3, DeliveryAssumption DEF Typed, SenderHolds
          <5>2. queue \in Seq(1..Len(log)) /\ queue # << >> /\ queue[1] = row
            BY <5>1 DEF Typed, TypeOK, Lined
          <5>3. 1 \in DOMAIN queue
            BY <5>2
          <5> QED BY <3>3, <5>1, <5>2, <5>3 DEF Typed, SenderHolds, Hands, InQueue, Range, c
        <4>2. PICK f \in 1..Len(log) : Passed(f) /\ applied[j] = Callback(f, applied[j].item)
          BY <3>1 DEF AllPosted, Posted
        <4>3. log[f].task = c.task /\ log[f].status \in Outcomes
          BY <1>2, <3>1, <4>2 DEF Callback
        <4>4. log[row].task = c.task /\ log[row].status = "WORKING"
          BY <1>2, <3>1, <4>1 DEF Callback
        <4>5. log[row] = [task |-> c.task, status |-> "WORKING"]
          <5>1. log[row] \in [task : Tasks, status : Statuses]
            BY <4>1, ElementOfSeq DEF Typed, TypeOK
          <5> QED BY <4>4, <5>1
        <4>6. f # row
          BY <4>3, <4>4, DeliveryAssumption
        <4>7. CASE f < row
          BY <2>1, <3>1, <4>1, <4>3, <4>4, <4>7
        <4>8. CASE row < f
          <5>1. row \in retried
            BY <4>1, <4>2, <4>8 DEF Passed
          <5> QED BY <2>1, <3>1, <4>5, <5>1
        <4>9. f \in Nat
          OBVIOUS
        <4> QED BY <4>1, <4>6, <4>7, <4>8, <4>9
      <3> QED BY <2>1, <3>1, <3>2, <3>3
    <2> QED BY <2>3, <2>4
  <1>6. applied' = applied \/ \E h \in Handlers : Apply(h) /\ applied' = Append(applied, hcb[h])
    <2>1. CASE \E h \in Handlers : Apply(h)
      BY <2>1 DEF Apply
    <2>2. CASE Clear \/ Postpone \/ Reject
      BY <2>2, RoundEnds
    <2>3. CASE ~\E h \in Handlers : Apply(h)
      BY <2>2, <2>3 DEF Next, Sender, Handler, vars, Enqueue, Elapse, Peek, PostFails, Timeout,
             Restart, Crash, Post, Record, Forget, Answer
    <2> QED BY <2>1, <2>3
  <1> QED BY <1>4, <1>5, <1>6

-----------------------------------------------------------------------------
(* The theorems about the order and about what is gone.                    *)

Order == Lined /\ NoOvertaking /\ Hands /\ Answers /\ AllPosted

LEMMA OrderInit == Init => Order /\ GoneIsExplained /\ StartBeforeFinish
  <1>1. Init => GoneIsExplained /\ StartBeforeFinish
    BY DEF Init, GoneIsExplained, StartBeforeFinish
  <1> QED BY <1>1, LinedInit, HandsInit, AnswersInit, AllPostedInit DEF Order

LEMMA OrderStep ==
  /\ Typed /\ Order /\ [Next]_vars => Order'
  /\ Typed /\ Order /\ GoneIsExplained /\ [Next]_vars => GoneIsExplained'
  /\ Typed /\ Order /\ StartBeforeFinish /\ [Next]_vars => StartBeforeFinish'
  BY LinedStep, HandsStep, RecordsExplainedStep, AcknowledgedStep, AllPostedStep, GoneStep,
     StartBeforeFinishStep DEF Order, Answers

\* The posting thread holds a row of the queue while it posts it.
LEMMA OrderHolds == Spec => [](Typed /\ Order)
  <1>1. Init => Typed /\ Order
    BY TypedInit, OrderInit
  <1>2. Typed /\ Order /\ [Next]_vars => Typed' /\ Order'
    BY TypedStep, OrderStep
  <1> QED BY <1>1, <1>2, PTL DEF Spec

\* A row leaves the queue only once its callbacks were applied, or dropped, abandoned or
\* cut off (server.py process_finished_task, _drop_callback_task).
THEOREM NoRowVanishes == Spec => []GoneIsExplained
  <1>1. Init => GoneIsExplained
    BY OrderInit
  <1>2. Typed /\ Order /\ GoneIsExplained /\ [Next]_vars => GoneIsExplained'
    BY OrderStep
  <1> QED BY <1>1, <1>2, OrderHolds, PTL DEF Spec

\* Rows leave the queue in their order and START is applied before FINISH, but for a
\* postponement, a request given up or a second run (server.py _schedule_callback_retry).
THEOREM DeliveryIsOrdered == Spec => []Ordered
  <1>1. Init => StartBeforeFinish
    BY OrderInit
  <1>2. Typed /\ Order /\ StartBeforeFinish /\ [Next]_vars => StartBeforeFinish'
    BY OrderStep
  <1>3. Order /\ StartBeforeFinish => Ordered
    BY DEF Order, Ordered
  <1> QED BY <1>1, <1>2, <1>3, OrderHolds, PTL DEF Spec

-----------------------------------------------------------------------------
(* The delivery implements the channel.                                    *)

\* A callback that a row or a request thread holds.
Held(c) ==
  \/ \E id \in 1..Len(log) : InQueue(id) /\ Callback(id, c.item) = c
  \/ \E h \in Handlers : hpc[h] \in {"record", "apply"} /\ hcb[h] = c

LEMMA PendingIsHeld == Pending = {c \in Callbacks : ~WasApplied(c) /\ Held(c)}
  BY DEF Pending, Held

\* What comes to be held is sent, what is held no longer is lost.
LEMMA SentOrLost ==
  ASSUME UNCHANGED applied,
         \/ \A c \in Callbacks : Held(c) => Held(c)'
         \/ \A c \in Callbacks : Held(c)' => Held(c)
  PROVE  Channel!ChanNext
  <1>1. Pending' = {c \in Callbacks : c \notin Range(applied) /\ Held(c)'}
    BY DEF Pending, Held, WasApplied
  <1>2. Pending = {c \in Callbacks : c \notin Range(applied) /\ Held(c)}
    BY PendingIsHeld DEF WasApplied
  <1>3. CASE \A c \in Callbacks : Held(c) => Held(c)'
    <2>1. Pending' = Pending \cup {c \in Pending' : c \notin Range(applied)}
      BY <1>1, <1>2, <1>3
    <2>2. Channel!Send(Pending')
      BY <2>1 DEF Channel!Send, Channel!WasApplied, Channel!Range, Range
    <2>3. Pending' \in SUBSET Callbacks
      BY <1>1
    <2> QED BY <2>2, <2>3 DEF Channel!ChanNext
  <1>4. CASE \A c \in Callbacks : Held(c)' => Held(c)
    <2> DEFINE S == Pending \ Pending'
    <2>1. Pending' = Pending \ S
      BY <1>1, <1>2, <1>4
    <2>2. Channel!Lose(S)
      BY <2>1 DEF Channel!Lose
    <2>3. S \in SUBSET Callbacks
      BY <1>2
    <2> QED BY <2>2, <2>3 DEF Channel!ChanNext
  <1> QED BY <1>3, <1>4

LEMMA ApplyDelivers ==
  ASSUME Typed, Once, NEW h \in Handlers, Apply(h), applied' = Append(applied, hcb[h])
  PROVE  Channel!ChanNext
  <1> DEFINE c == hcb[h]
  <1>1. /\ hpc[h] = "apply" /\ c \in Callbacks /\ applied \in Seq(Callbacks)
        /\ hcb' = hcb /\ UNCHANGED <<log, queue>>
        /\ \A g \in Handlers \ {h} : hpc'[g] = hpc[g]
        /\ hpc'[h] \notin {"record", "apply"}
    BY DEF Apply, HGoto, Typed, TypeOK, table
  <1>2. c \in Pending
    BY <1>1 DEF Once, ExecutedHasRecord, Executes, Pending
  <1>3. Range(applied') = Range(applied) \cup {c}
    <2>1. /\ DOMAIN applied = 1..Len(applied) /\ DOMAIN applied' = 1..(Len(applied) + 1)
          /\ Len(applied) \in Nat /\ applied'[Len(applied) + 1] = c
          /\ \A i \in 1..Len(applied) : applied'[i] = applied[i]
      BY <1>1
    <2>2. \A i \in 1..(Len(applied) + 1) : i \in 1..Len(applied) \/ i = Len(applied) + 1
      BY <2>1
    <2>3. 1..Len(applied) \subseteq 1..(Len(applied) + 1) /\ Len(applied) + 1 \in 1..(Len(applied) + 1)
      BY <2>1
    <2> HIDE DEF c
    <2> QED BY <2>1, <2>2, <2>3 DEF Range
  <1>4. \A d \in Callbacks : d # c => (Held(d)' <=> Held(d))
    <2> SUFFICES ASSUME NEW d \in Callbacks, d # c
                 PROVE  Held(d)' <=> Held(d)
      OBVIOUS
    <2>1. \A id \in 1..Len(log) : InQueue(id)' = InQueue(id) /\ Callback(id, d.item)' = Callback(id, d.item)
      BY <1>1 DEF InQueue, Callback
    <2>2. \A g \in Handlers : hpc'[g] \in {"record", "apply"} /\ hcb'[g] = d
                                <=> hpc[g] \in {"record", "apply"} /\ hcb[g] = d
      BY <1>1
    <2> QED BY <1>1, <2>1, <2>2 DEF Held
  <1>5. Pending' = {d \in Callbacks : d \notin Range(applied') /\ Held(d)'}
    BY DEF Pending, Held, WasApplied
  <1>6. Pending = {d \in Callbacks : d \notin Range(applied) /\ Held(d)}
    BY PendingIsHeld DEF WasApplied
  <1> HIDE DEF c
  <1>7. Pending' = Pending \ {c}
    BY <1>3, <1>4, <1>5, <1>6
  <1>8. Channel!Deliver(c)
    BY <1>2, <1>7 DEF Channel!Deliver, c
  <1> QED BY <1>1, <1>8 DEF Channel!ChanNext, c

LEMMA ChannelStep ==
  ASSUME Typed, Lined, Once, [Next]_vars
  PROVE  [Channel!ChanNext]_(Channel!chanVars)
  <1> USE DEF threads
  <1>0. \A id \in 1..Len(log) : \A k : Callback(id, k)' = Callback(id, k)
    BY Grows
  <1>1. CASE log' = log /\ Range(queue') \subseteq Range(queue) /\ UNCHANGED <<applied, threads>>
    BY <1>0, <1>1, SentOrLost DEF Held, InQueue
  <1>2. CASE /\ Len(log') = Len(log) + 1 /\ Range(queue') = Range(queue) \cup {Len(log) + 1}
             /\ UNCHANGED <<applied, threads>>
    <2>1. 1..Len(log) \subseteq 1..Len(log')
      BY Grows
    <2>2. \A c \in Callbacks : Held(c) => Held(c)'
      BY <1>0, <1>2, <2>1 DEF Held, InQueue
    <2> QED BY <1>2, <2>2, SentOrLost
  <1>3. CASE \/ UNCHANGED vars \/ Elapse \/ Peek \/ PostFails \/ Timeout \/ Restart
             \/ Clear \/ Postpone \/ Reject \/ \E t \in Tasks, s \in Statuses : Enqueue(t, s)
    <2>1. UNCHANGED <<applied, threads>>
      BY <1>3, RoundEnds DEF vars, Elapse, Peek, PostFails, Timeout, Restart, Enqueue
    <2> QED BY <1>1, <1>2, <2>1, QueueSteps
  <1>4. ASSUME UNCHANGED <<log, queue, applied>>,
               \A g \in Handlers : hpc'[g] \in {"record", "apply"} =>
                                     hpc[g] \in {"record", "apply"} /\ hcb'[g] = hcb[g]
        PROVE  Channel!ChanNext
    <2>1. \A c \in Callbacks : Held(c)' => Held(c)
      BY <1>4 DEF Held, InQueue, Callback
    <2> QED BY <1>4, <2>1, SentOrLost
  <1>5. ASSUME NEW h \in Handlers, Record(h) \/ Forget(h) \/ Answer(h)
        PROVE  Channel!ChanNext
    <2>1. /\ UNCHANGED <<log, queue, applied>>
          /\ \A g \in Handlers : hpc'[g] \in {"record", "apply"} =>
                                   hpc[g] \in {"record", "apply"} /\ hcb'[g] = hcb[g]
      BY <1>5 DEF Record, Forget, Answer, HGoto, Typed, TypeOK, table
    <2> QED BY <1>4, <2>1
  <1>6. CASE Crash
    <2>1. /\ UNCHANGED <<log, queue, applied>>
          /\ \A g \in Handlers : hpc'[g] \notin {"record", "apply"}
      BY <1>6 DEF Crash, table
    <2> QED BY <1>4, <2>1
  <1>7. ASSUME NEW h \in Handlers, Post(h)
        PROVE  Channel!ChanNext
    <2>1. /\ UNCHANGED <<log, queue, applied>>
          /\ \A g \in Handlers : hpc[g] \in {"record", "apply"} =>
                                   hpc'[g] \in {"record", "apply"} /\ hcb'[g] = hcb[g]
      BY <1>7 DEF Post, Typed, TypeOK, table
    <2>2. \A c \in Callbacks : Held(c) => Held(c)'
      BY <2>1 DEF Held, InQueue, Callback
    <2> QED BY <2>1, <2>2, SentOrLost
  <1>8. ASSUME NEW h \in Handlers, Apply(h)
        PROVE  Channel!ChanNext
    <2>1. CASE applied' = Append(applied, hcb[h])
      BY <1>8, <2>1, ApplyDelivers
    <2>2. CASE UNCHANGED applied
      <3>1. /\ UNCHANGED <<log, queue>> /\ hcb' = hcb
            /\ \A g \in Handlers : hpc'[g] \in {"record", "apply"} => hpc[g] \in {"record", "apply"}
        BY <1>8 DEF Apply, HGoto, Typed, TypeOK, table
      <3> QED BY <1>4, <2>2, <3>1
    <2> QED BY <1>8, <2>1, <2>2 DEF Apply
  <1> QED BY <1>3, <1>5, <1>6, <1>7, <1>8 DEF Next, Sender, Handler

\* The delivery implements the channel: a callback is applied at most once after it was
\* sent, or is lost (server.py _default_post_func, doc_manager.py on_task_callback).
THEOREM DeliveryImplementsChannel == Spec => ImplementsChannel
  <1>1. Init => Channel!ChanInit
    BY DEF Init, Channel!ChanInit, Pending, InQueue, Range
  <1>2. Typed /\ Order /\ Once /\ [Next]_vars => [Channel!ChanNext]_(Channel!chanVars)
    BY ChannelStep DEF Order
  <1>3. Spec => []Once
    BY OnceInit, OnceStep, DeliveryTyped, PTL DEF Spec
  <1> QED BY <1>1, <1>2, <1>3, OrderHolds, PTL DEF Spec, ImplementsChannel, Channel!ChanSpec
=============================================================================

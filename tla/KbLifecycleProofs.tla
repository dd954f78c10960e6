-------------------------- MODULE KbLifecycleProofs --------------------------
(***************************************************************************)
(* Proofs about KbLifecycle: its types, that doc_count is the number of    *)
(* documents, that a knowledge base keeps an algorithm, and that nothing   *)
(* is left half done when all is quiet.                                    *)
(*                                                                         *)
(* Typed strengthens the types by what the code never checks: a            *)
(* transaction that writes a document has one (FitOps), and no snapshot or *)
(* handler names a task that was not submitted (Named).  Counted says what *)
(* the number hangs on: without a row there is no document, so that the 0  *)
(* with which a row begins is right.                                       *)
(*                                                                         *)
(* Kept is what Bound rests on: what a handler has ahead is all of one     *)
(* request or one callback (Handled), requests come one after the other    *)
(* (OneRequest), the row is made with a binding to follow (Founding), and  *)
(* while one algorithm is unbound another stays (Spared).                  *)
(*                                                                         *)
(* AtRest rests on two invariants.  AllSettled is about each document: its *)
(* snapshot is of one of its tasks, one that lives has no deletion on its  *)
(* way, and what a handler found out before still holds when it acts on it *)
(* (Settled).  Rests is about the knowledge base: as long as a deletion of *)
(* it is on its way (Era), something will come to an end with it           *)
(* (Underway), and each document is to be purged by a task that is not     *)
(* stale, by a task still to be submitted or by a handler (Covered).  The  *)
(* list of what a handler has ahead is one of a few shapes (Sorted).       *)
(***************************************************************************)
EXTENDS KbLifecycle, FiniteSetTheorems, SequenceTheorems, TLAPS

-----------------------------------------------------------------------------
(* Types, and the documents and algorithms that a transaction needs.       *)

FitOps ==
  {op \in Op :
     /\ op.do \in {"bindDoc", "submit", "cancel", "removeDoc", "purge", "dropSnap"} => op.doc \in Docs
     /\ op.do = "bindAlgo" => op.algo \in Algos
     /\ op.do = "submit" => op.kind \in Kinds}

Phases == {"queued", "working", "again", "canceled", "gone"}
TaskRec == [doc : Docs, kind : Kinds, algo : Algos \cup {None}, phase : Phases]
SnapStatuses == {None, "WAITING", "WORKING", "DELETING", "SUCCESS", "FAILED", "CANCELED", "DELETED"}
SnapRec == [status : SnapStatuses, task : 0..MaxTasks]

\* No snapshot and no handler names a task that does not exist.
Named ==
  /\ Len(tasks) <= MaxTasks
  /\ \A d \in Docs : snap[d].task <= Len(tasks)
  /\ \A t \in Threads : serving[t] <= Len(tasks)

Typed == TypeOK /\ todo \in [Threads -> Seq(FitOps)] /\ Named

LEMMA Shape ==
  ASSUME Typed
  PROVE  /\ tasks \in Seq(TaskRec) /\ Len(tasks) \in Nat /\ Len(tasks) <= MaxTasks
         /\ snap \in [Docs -> SnapRec] /\ serving \in [Threads -> 0..MaxTasks]
         /\ todo \in [Threads -> Seq(FitOps)]
  BY DEF Typed, TypeOK, Named, TaskRec, Phases, SnapRec, SnapStatuses

LEMMA FitSeq ==
  ASSUME NEW s \in Seq(FitOps)
  PROVE  s \in Seq(Op)
  <1>1. FitOps \subseteq Op
    BY DEF FitOps
  <1> QED BY <1>1

LEMMA DoFits ==
  ASSUME NEW step \in {"ensureKb", "refuse", "setDeleting", "finalize"}
  PROVE  Do(step) \in FitOps
  BY DEF Do, FitOps, Op, Steps

LEMMA DoDocFits ==
  ASSUME NEW step \in {"bindDoc", "cancel", "removeDoc", "purge", "dropSnap"}, NEW d \in Docs
  PROVE  DoDoc(step, d) \in FitOps
  BY DEF DoDoc, Do, FitOps, Op, Steps

LEMMA DoAlgoFits ==
  ASSUME NEW step \in {"bindAlgo", "countLeft", "removeBinding"}, NEW a \in Algos \cup {None},
         step = "bindAlgo" => a \in Algos
  PROVE  DoAlgo(step, a) \in FitOps
  BY DEF DoAlgo, Do, FitOps, Op, Steps

LEMMA DoSubmitFits ==
  ASSUME NEW kind \in Kinds, NEW d \in Docs, NEW a \in Algos \cup {None}
  PROVE  /\ DoSubmit(kind, d, a) \in FitOps
         /\ [DoSubmit(kind, d, a) EXCEPT !.do = "cancel"] \in FitOps
  BY DEF DoSubmit, FitOps, Op, Steps

LEMMA OrderFits ==
  ASSUME NEW ops \in SUBSET FitOps, IsFiniteSet(ops), NEW q \in Orders(ops)
  PROVE  q \in Seq(FitOps)
  <1>1. Cardinality(ops) \in Nat
    BY FS_CardinalityType
  <1>2. q \in [1..Cardinality(ops) -> FitOps]
    BY DEF Orders
  <1> QED BY <1>1, <1>2

\* Only what a transaction may change of the store, the snapshots and the handlers.
LEMMA StoreTyped ==
  ASSUME Typed, kb' \in {None, "ACTIVE", "DELETING", "DELETED"}, count' \in 0..Cardinality(Docs),
         bindings' \subseteq Algos, rel' \subseteq Docs, snap' \in [Docs -> SnapRec],
         tasks' \in Seq(TaskRec), Len(tasks') <= MaxTasks, Len(tasks) <= Len(tasks'),
         \A d \in Docs : snap'[d].task <= Len(tasks) \/ snap'[d].task <= Len(tasks'),
         todo' \in [Threads -> Seq(FitOps)], serving' \in [Threads -> 0..MaxTasks],
         \A t \in Threads : serving'[t] <= Len(tasks),
         mishap' \in BOOLEAN, stray' \in BOOLEAN, raced' \in BOOLEAN,
         requests' \in 0..MaxRequests, faults' \in 0..MaxFaults
  PROVE  Typed'
  <1>1. Len(tasks) \in Nat /\ Len(tasks') \in Nat
    BY Shape
  <1>2. todo' \in [Threads -> Seq(Op)]
    BY FitSeq
  <1>3. TypeOK'
    BY <1>2 DEF TypeOK, TaskRec, Phases, SnapRec, SnapStatuses
  <1>4. Named'
    <2>1. ASSUME NEW d \in Docs PROVE snap'[d].task <= Len(tasks')
      BY <1>1 DEF SnapRec
    <2>2. ASSUME NEW t \in Threads PROVE serving'[t] <= Len(tasks')
      BY <1>1
    <2> QED BY <2>1, <2>2 DEF Named
  <1> QED BY <1>3, <1>4 DEF Typed

LEMMA SameStore ==
  ASSUME Typed
  PROVE  /\ kb \in {None, "ACTIVE", "DELETING", "DELETED"} /\ count \in 0..Cardinality(Docs)
         /\ bindings \subseteq Algos /\ rel \subseteq Docs
         /\ mishap \in BOOLEAN /\ stray \in BOOLEAN /\ raced \in BOOLEAN
         /\ requests \in 0..MaxRequests /\ faults \in 0..MaxFaults
         /\ \A d \in Docs : snap[d].task <= Len(tasks)
         /\ \A t \in Threads : serving[t] <= Len(tasks)
         /\ MaxTasks \in Nat /\ MaxFaults \in Nat /\ MaxRequests \in Nat
  BY KbAssumption DEF Typed, TypeOK, Named

LEMMA FaultTyped ==
  ASSUME Typed, Fault
  PROVE  faults' \in 0..MaxFaults
  <1>1. faults \in 0..MaxFaults /\ MaxFaults \in Nat
    BY SameStore
  <1> QED BY <1>1 DEF Fault

LEMMA TroubleTyped ==
  ASSUME Typed, Calm \/ Mishap
  PROVE  mishap' \in BOOLEAN /\ faults' \in 0..MaxFaults
  <1>1. CASE Calm
    BY <1>1, SameStore DEF Calm
  <1>2. CASE Mishap
    BY <1>2, FaultTyped DEF Mishap
  <1> QED BY <1>1, <1>2

-----------------------------------------------------------------------------
(* Requests.                                                               *)

LEMMA AdmitTyped ==
  ASSUME Typed, NEW t \in Threads, NEW ops \in Seq(FitOps), Admit(t, ops), mishap' \in BOOLEAN
  PROVE  Typed'
  <1>1. /\ UNCHANGED <<kb, count, bindings, rel, snap, tasks, stray, faults>>
        /\ requests' \in 0..MaxRequests /\ raced' \in BOOLEAN
        /\ todo' = [todo EXCEPT ![t] = ops] /\ serving' = [serving EXCEPT ![t] = 0]
    BY SameStore DEF Admit, store
  <1>2. /\ todo' \in [Threads -> Seq(FitOps)] /\ serving' \in [Threads -> 0..MaxTasks]
        /\ \A u \in Threads : serving'[u] <= Len(tasks)
    BY <1>1, Shape, SameStore
  <1>3. Len(tasks) <= Len(tasks) /\ Len(tasks) <= MaxTasks
    BY Shape
  <1> QED BY <1>1, <1>2, <1>3, Shape, SameStore, StoreTyped

LEMMA CreateTyped ==
  ASSUME Typed, NEW t \in Threads, NEW a \in Algos \cup {None},
         (a # None /\ Create(t, a)) \/ Update(t, a)
  PROVE  Typed'
  <1>1. Do("ensureKb") \in FitOps /\ (a # None => DoAlgo("bindAlgo", a) \in FitOps)
    BY DoFits, DoAlgoFits
  <1>2. CASE a # None /\ Create(t, a)
    <2>1. <<Do("ensureKb"), DoAlgo("bindAlgo", a)>> \in Seq(FitOps)
      BY <1>1, <1>2
    <2> QED BY <1>2, <2>1, AdmitTyped, SameStore DEF Create
  <1>3. CASE Update(t, a)
    <2>1. (IF a = None THEN << >> ELSE <<DoAlgo("bindAlgo", a)>>) \o <<Do("ensureKb")>> \in Seq(FitOps)
      <3>1. (IF a = None THEN << >> ELSE <<DoAlgo("bindAlgo", a)>>) \in Seq(FitOps)
        BY <1>1
      <3>2. <<Do("ensureKb")>> \in Seq(FitOps)
        BY <1>1
      <3> QED BY <3>1, <3>2, ConcatProperties
    <2> QED BY <1>3, <2>1, AdmitTyped, SameStore DEF Update
  <1> QED BY <1>2, <1>3

LEMMA UploadTyped ==
  ASSUME Typed, NEW t \in Threads, NEW d \in Docs, Upload(t, d) \/ Delete(t, d)
  PROVE  Typed'
  <1>1. /\ DoDoc("bindDoc", d) \in FitOps /\ DoDoc("cancel", d) \in FitOps
        /\ DoSubmit("ADD", d, None) \in FitOps /\ DoSubmit("DELETE", d, None) \in FitOps
    BY DoDocFits, DoSubmitFits DEF Kinds
  <1>2. CASE Upload(t, d)
    <2>1. <<DoDoc("bindDoc", d), DoSubmit("ADD", d, None)>> \in Seq(FitOps)
      BY <1>1
    <2> QED BY <1>2, <2>1, AdmitTyped, SameStore DEF Upload
  <1>3. CASE Delete(t, d)
    <2>1. (IF WaitsToBeAdded(d) THEN <<DoDoc("cancel", d)>> ELSE <<DoSubmit("DELETE", d, None)>>)
            \in Seq(FitOps)
      BY <1>1
    <2> QED BY <1>3, <2>1, AdmitTyped, SameStore DEF Delete, Polite
  <1> QED BY <1>2, <1>3

\* The sets of transactions that a handler goes through are finite.
LEMMA FinitePairs ==
  ASSUME NEW D \in SUBSET Docs, NEW A \in SUBSET Algos
  PROVE  IsFiniteSet({DoSubmit("PURGE", p[1], p[2]) : p \in D \X A})
  <1> DEFINE S == {DoSubmit("PURGE", p[1], p[2]) : p \in D \X A}
             f == [p \in D \X A |-> DoSubmit("PURGE", p[1], p[2])]
  <1>1. IsFiniteSet(D \X A)
    BY KbAssumption, FS_Subset, FS_Product
  <1>2. f \in Surjection(D \X A, S)
    BY DEF Surjection
  <1> QED BY <1>1, <1>2, FS_Surjection

LEMMA FinitePurges ==
  ASSUME NEW D \in SUBSET Docs
  PROVE  IsFiniteSet({DoDoc("purge", d) : d \in D})
  <1> DEFINE S == {DoDoc("purge", d) : d \in D}
             f == [d \in D |-> DoDoc("purge", d)]
  <1>1. IsFiniteSet(D)
    BY KbAssumption, FS_Subset
  <1>2. f \in Surjection(D, S)
    BY DEF Surjection
  <1> QED BY <1>1, <1>2, FS_Surjection

LEMMA FiniteUnbinds ==
  ASSUME NEW D \in SUBSET Docs, NEW a
  PROVE  IsFiniteSet({UnbindOp(d, a) : d \in D})
  <1> DEFINE S == {UnbindOp(d, a) : d \in D}
             f == [d \in D |-> UnbindOp(d, a)]
  <1>1. IsFiniteSet(D)
    BY KbAssumption, FS_Subset
  <1>2. f \in Surjection(D, S)
    BY DEF Surjection
  <1> QED BY <1>1, <1>2, FS_Surjection

LEMMA ItemsFit ==
  ASSUME NEW D \in SUBSET Docs, NEW E \in SUBSET Docs, NEW A \in SUBSET Algos, NEW items,
         items = {DoDoc("purge", d) : d \in D} \cup {DoSubmit("PURGE", p[1], p[2]) : p \in E \X A}
  PROVE  IsFiniteSet(items) /\ items \subseteq FitOps
  <1> DEFINE S == {DoDoc("purge", d) : d \in D}
             T == {DoSubmit("PURGE", p[1], p[2]) : p \in E \X A}
  <1>1. "PURGE" \in Kinds
    BY DEF Kinds
  <1>2. IsFiniteSet(S) /\ IsFiniteSet(T)
    <2>1. IsFiniteSet(S)
      BY FinitePurges
    <2>2. IsFiniteSet(T)
      BY FinitePairs
    <2> QED BY <2>1, <2>2
  <1>3. S \subseteq FitOps
    BY DoDocFits
  <1>4. T \subseteq FitOps
    <2> SUFFICES ASSUME NEW p \in E \X A PROVE DoSubmit("PURGE", p[1], p[2]) \in FitOps
      OBVIOUS
    <2>1. p[1] \in Docs /\ p[2] \in Algos
      OBVIOUS
    <2> QED BY <1>1, <2>1, DoSubmitFits
  <1>5. items = S \cup T
    OBVIOUS
  <1> HIDE DEF S, T
  <1>6. IsFiniteSet(S \cup T)
    BY <1>2, FS_Union
  <1> QED BY <1>3, <1>4, <1>5, <1>6

LEMMA DeleteKbTyped ==
  ASSUME Typed, NEW t \in Threads, DeleteKb(t)
  PROVE  Typed'
  <1> DEFINE Items(clean, rest) ==
        {DoDoc("purge", d) : d \in clean}
        \cup {DoSubmit("PURGE", p[1], p[2]) : p \in rest \X bindings}
  <1>1. PICK clean \in SUBSET Docs, rest \in SUBSET Docs :
          \E q \in Orders(Items(clean, rest)) :
            Admit(t, Append(q, DeleteKbTail(Items(clean, rest))))
    <2> DEFINE C == {d \in rel : snap[d].status \in {None, "DELETED"}}
    <2>1. C \in SUBSET Docs /\ rel \ C \in SUBSET Docs
      BY SameStore
    <2> QED BY <2>1 DEF DeleteKb
  <1> DEFINE items == Items(clean, rest)
  <1>2. PICK q \in Orders(items) : Admit(t, Append(q, DeleteKbTail(items)))
    BY <1>1
  <1>3. mishap' \in BOOLEAN
    BY SameStore DEF DeleteKb
  <1>4. IsFiniteSet(items) /\ items \subseteq FitOps
    <2>1. bindings \in SUBSET Algos
      BY SameStore
    <2> QED BY <1>1, <2>1, ItemsFit
  <1>5. DeleteKbTail(items) \in FitOps
    BY DoFits DEF DeleteKbTail
  <1>6. q \in Seq(FitOps)
    BY <1>2, <1>4, OrderFits
  <1>7. Append(q, DeleteKbTail(items)) \in Seq(FitOps)
    BY <1>5, <1>6
  <1> QED BY <1>2, <1>3, <1>7, AdmitTyped

LEMMA UnbindTyped ==
  ASSUME Typed, NEW t \in Threads, NEW a \in Algos, Unbind(t, a)
  PROVE  Typed'
  <1> DEFINE affected == {d \in rel : snap[d].status \notin {None, "DELETED", "DELETING"}}
             ops == {UnbindOp(d, a) : d \in affected}
  <1>1. affected \subseteq Docs /\ mishap' \in BOOLEAN
    BY SameStore DEF Unbind, Polite
  <1>2. CASE Admit(t, <<DoAlgo("removeBinding", a)>>)
    <2>1. <<DoAlgo("removeBinding", a)>> \in Seq(FitOps)
      BY DoAlgoFits
    <2> QED BY <1>1, <1>2, <2>1, AdmitTyped
  <1>3. ASSUME NEW q \in Orders(ops), Admit(t, q) PROVE Typed'
    <2>1. \A d \in Docs : UnbindOp(d, a) \in FitOps
      BY DoFits, DoSubmitFits DEF UnbindOp, Kinds
    <2>2. ops \subseteq FitOps
      BY <1>1, <2>1
    <2>3. IsFiniteSet(ops)
      BY <1>1, FiniteUnbinds
    <2> HIDE DEF ops
    <2> QED BY <1>1, <1>3, <2>2, <2>3, OrderFits, AdmitTyped
  <1> QED BY <1>2, <1>3 DEF Unbind

LEMMA RequestTyped ==
  ASSUME Typed, NEW t \in Threads, Request(t)
  PROVE  Typed'
  <1>1. ASSUME NEW a \in Algos, Create(t, a) \/ Unbind(t, a) PROVE Typed'
    BY <1>1, CreateTyped, UnbindTyped, KbAssumption
  <1>2. ASSUME NEW a \in Algos \cup {None}, Update(t, a) PROVE Typed'
    BY <1>2, CreateTyped
  <1>3. ASSUME NEW d \in Docs, Upload(t, d) \/ Delete(t, d) PROVE Typed'
    BY <1>3, UploadTyped
  <1> QED BY <1>1, <1>2, <1>3, DeleteKbTyped DEF Request

-----------------------------------------------------------------------------
(* Transactions.                                                           *)

LEMMA HeadFits ==
  ASSUME Typed, NEW t \in Threads, ~Free(t)
  PROVE  /\ Op1(t) \in FitOps /\ Tail(todo[t]) \in Seq(FitOps)
         /\ After(Op1(t)) \o Tail(todo[t]) \in Seq(FitOps)
  <1>1. todo[t] \in Seq(FitOps) /\ todo[t] # << >>
    BY Shape DEF Free
  <1>2. Op1(t) \in FitOps /\ Tail(todo[t]) \in Seq(FitOps)
    BY <1>1 DEF Op1
  <1>3. After(Op1(t)) \in Seq(FitOps)
    <2>1. PICK op \in FitOps : op = Op1(t)
      BY <1>2
    <2>2. CASE op.do = "purge"
      <3>1. DoDoc("dropSnap", op.doc) \in FitOps
        BY <2>2, DoDocFits DEF FitOps
      <3>2. After(op) = <<DoDoc("dropSnap", op.doc)>>
        BY <2>2 DEF After
      <3> QED BY <2>1, <3>1, <3>2
    <2>3. CASE op.do = "cancel" /\ op.kind = None
      <3>1. DoDoc("purge", op.doc) \in FitOps
        BY <2>3, DoDocFits DEF FitOps
      <3>2. After(op) = <<DoDoc("purge", op.doc)>>
        BY <2>3 DEF After
      <3> QED BY <2>1, <3>1, <3>2
    <2>4. CASE op.do = "cancel" /\ op.kind # None
      <3>1. [op EXCEPT !.do = "submit"] \in FitOps
        BY <2>4 DEF FitOps, Op, Steps
      <3>2. After(op) = <<[op EXCEPT !.do = "submit"]>>
        BY <2>4 DEF After
      <3> QED BY <2>1, <3>1, <3>2
    <2>5. CASE op.do \notin {"purge", "cancel"}
      <3>1. After(op) = << >>
        BY <2>5 DEF After
      <3> QED BY <2>1, <3>1
    <2> QED BY <2>2, <2>3, <2>4, <2>5
  <1> QED BY <1>2, <1>3, ConcatProperties

LEMMA ContinueTyped ==
  ASSUME Typed, NEW t \in Threads, NEW ops \in Seq(FitOps), Continue(t, ops)
  PROVE  /\ todo' \in [Threads -> Seq(FitOps)] /\ serving' \in [Threads -> 0..MaxTasks]
         /\ \A u \in Threads : serving'[u] <= Len(tasks)
         /\ \A u \in Threads \ {t} : todo'[u] = todo[u] /\ serving'[u] = serving[u]
         /\ todo'[t] = ops /\ serving'[t] = IF ops = << >> THEN 0 ELSE serving[t]
  BY Shape, SameStore DEF Continue

\* A transaction that submits nothing.
LEMMA TransactionTyped ==
  ASSUME Typed, NEW t \in Threads, NEW ops \in Seq(FitOps), Continue(t, ops),
         kb' \in {None, "ACTIVE", "DELETING", "DELETED"}, count' \in 0..Cardinality(Docs),
         bindings' \subseteq Algos, rel' \subseteq Docs, snap' \in [Docs -> SnapRec],
         \A d \in Docs : snap'[d].task <= Len(tasks),
         tasks' \in Seq(TaskRec), Len(tasks') = Len(tasks),
         mishap' \in BOOLEAN, stray' \in BOOLEAN, UNCHANGED <<raced, requests>>,
         faults' \in 0..MaxFaults
  PROVE  Typed'
  <1>1. Len(tasks') <= MaxTasks /\ Len(tasks) <= Len(tasks')
    BY Shape
  <1> QED BY <1>1, ContinueTyped, SameStore, StoreTyped

LEMMA DoneTyped ==
  ASSUME Typed, NEW t \in Threads, ~Free(t), Done(t) \/ Drop(t)
  PROVE  \E ops \in Seq(FitOps) : Continue(t, ops)
  <1>1. After(Op1(t)) \o Tail(todo[t]) \in Seq(FitOps) /\ << >> \in Seq(FitOps)
    BY HeadFits
  <1> QED BY <1>1 DEF Done, Drop

\* The number of documents is one that the row can hold.
LEMMA CountTyped ==
  ASSUME NEW D \in SUBSET Docs
  PROVE  Cardinality(D) \in 0..Cardinality(Docs)
  BY KbAssumption, FS_Subset, FS_CardinalityType

LEMMA OpShape ==
  ASSUME Typed, NEW t \in Threads, ~Free(t)
  PROVE  /\ Op1(t).do \in {"bindDoc", "submit", "cancel", "removeDoc", "purge", "dropSnap"} =>
              Op1(t).doc \in Docs
         /\ Op1(t).do = "bindAlgo" => Op1(t).algo \in Algos
         /\ Op1(t).do = "submit" => Op1(t).kind \in Kinds
         /\ Op1(t).algo \in Algos \cup {None} /\ Op1(t).kind \in Kinds \cup {None}
  <1>1. PICK op \in FitOps : op = Op1(t)
    BY HeadFits
  <1> QED BY <1>1 DEF FitOps, Op

\* A transaction that leaves the tasks and the bounds alone.
LEMMA PlainTyped ==
  ASSUME Typed, NEW t \in Threads, ~Free(t), Done(t) \/ Drop(t),
         kb' \in {None, "ACTIVE", "DELETING", "DELETED"}, count' \in 0..Cardinality(Docs),
         bindings' \subseteq Algos, rel' \subseteq Docs,
         UNCHANGED <<snap, tasks, raced, requests, faults>>,
         mishap' \in BOOLEAN, stray' \in BOOLEAN
  PROVE  Typed'
  <1>1. PICK ops \in Seq(FitOps) : Continue(t, ops)
    BY DoneTyped
  <1> QED BY <1>1, Shape, SameStore, TransactionTyped

LEMMA RowsTyped ==
  ASSUME Typed, NEW t \in Threads,
         \/ EnsureKb(t) \/ BindAlgo(t) \/ BindDoc(t) \/ RemoveDoc(t) \/ Refuse(t)
         \/ SetDeleting(t) \/ Finalize(t) \/ RemoveBinding(t)
  PROVE  Typed'
  <1>1. ~Free(t) /\ (Done(t) \/ Drop(t)) /\ UNCHANGED <<snap, tasks, raced, requests, faults>>
    BY DEF EnsureKb, BindAlgo, BindDoc, RemoveDoc, Refuse, SetDeleting, Finalize, RemoveBinding, Does,
           store
  <1>2. /\ kb' \in {None, "ACTIVE", "DELETING", "DELETED"}
        /\ mishap' \in BOOLEAN /\ stray' \in BOOLEAN
    BY SameStore DEF EnsureKb, BindAlgo, BindDoc, RemoveDoc, Refuse, SetDeleting, Finalize,
                     RemoveBinding, Refresh, store
  <1>3. bindings' \subseteq Algos
    BY <1>1, SameStore, OpShape DEF EnsureKb, BindAlgo, BindDoc, RemoveDoc, Refuse, SetDeleting,
                                    Finalize, RemoveBinding, Does, store
  <1>4. rel' \subseteq Docs
    BY <1>1, SameStore, OpShape DEF EnsureKb, BindAlgo, BindDoc, RemoveDoc, Refuse, SetDeleting,
                                    Finalize, RemoveBinding, Does, store
  <1>5. count' \in 0..Cardinality(Docs)
    <2>1. Cardinality(rel') \in 0..Cardinality(Docs) /\ Cardinality(Docs) \in Nat
      BY <1>4, CountTyped, KbAssumption, FS_CardinalityType
    <2>2. CASE BindDoc(t) \/ RemoveDoc(t)
      BY <2>1, <2>2, SameStore DEF BindDoc, RemoveDoc, Refresh
    <2>3. CASE EnsureKb(t) \/ Finalize(t)
      BY <2>1, <2>3, SameStore DEF EnsureKb, Finalize
    <2>4. CASE BindAlgo(t) \/ Refuse(t) \/ SetDeleting(t) \/ RemoveBinding(t)
      BY <2>4, SameStore DEF BindAlgo, Refuse, SetDeleting, RemoveBinding, store
    <2> QED BY <2>2, <2>3, <2>4
  <1> QED BY <1>1, <1>2, <1>3, <1>4, <1>5, PlainTyped

LEMMA CountLeftTyped ==
  ASSUME Typed, NEW t \in Threads, CountLeft(t)
  PROVE  Typed'
  <1>1. ~Free(t) /\ Op1(t).do = "countLeft"
          /\ UNCHANGED <<store, snap, tasks, mishap, stray, raced, requests, faults>>
    BY DEF CountLeft, Does
  <1>2. DoAlgo("removeBinding", Op1(t).algo) \in FitOps
    BY <1>1, OpShape, DoAlgoFits
  <1>3. PICK ops \in Seq(FitOps) : Continue(t, ops)
    <2>1. <<DoAlgo("removeBinding", Op1(t).algo)>> \in Seq(FitOps) /\ << >> \in Seq(FitOps)
      BY <1>2
    <2> QED BY <2>1 DEF CountLeft
  <1> QED BY <1>1, <1>3, Shape, SameStore, TransactionTyped DEF store

LEMMA DropSnapTyped ==
  ASSUME Typed, NEW t \in Threads, DropSnap(t)
  PROVE  Typed'
  <1>1. PICK ops \in Seq(FitOps) : Continue(t, ops)
    BY DoneTyped DEF DropSnap, Does
  <1>2. NoSnap \in SnapRec /\ NoSnap.task = 0
    BY SameStore DEF NoSnap, SnapRec, SnapStatuses
  <1>3. /\ UNCHANGED <<store, tasks, stray, raced, requests, faults>> /\ mishap' \in BOOLEAN
        /\ snap' = [snap EXCEPT ![Op1(t).doc] = NoSnap]
    BY SameStore DEF DropSnap
  <1>4. snap' \in [Docs -> SnapRec]
    BY <1>2, <1>3, Shape
  <1>5. \A d \in Docs : snap'[d].task <= Len(tasks)
    <2>1. \A d \in Docs : snap'[d] = snap[d] \/ snap'[d] = NoSnap
      BY <1>3, Shape
    <2> SUFFICES ASSUME NEW d \in Docs PROVE snap'[d].task <= Len(tasks)
      OBVIOUS
    <2>2. snap[d].task <= Len(tasks) /\ 0 <= Len(tasks)
      BY Shape, SameStore
    <2>3. CASE snap'[d] = snap[d]
      BY <2>2, <2>3
    <2>4. CASE snap'[d] = NoSnap
      BY <1>2, <2>2, <2>4
    <2> QED BY <2>1, <2>3, <2>4
  <1> QED BY <1>1, <1>3, <1>4, <1>5, Shape, SameStore, TransactionTyped DEF store

LEMMA SubmitTyped ==
  ASSUME Typed, NEW t \in Threads, Submit(t)
  PROVE  Typed'
  <1>1. PICK d \in Docs, kind \in Kinds, a \in Algos \cup {None}, status \in SnapStatuses,
             phase \in Phases, id \in 1..MaxTasks :
          /\ id = Len(tasks) + 1
          /\ tasks' = Append(tasks, [doc |-> d, kind |-> kind, algo |-> a, phase |-> phase])
          /\ snap' = [snap EXCEPT ![d] = [status |-> status, task |-> id]]
    <2>1. /\ Op1(t).doc \in Docs /\ Op1(t).kind \in Kinds /\ Op1(t).algo \in Algos \cup {None}
          /\ Len(tasks) + 1 \in 1..MaxTasks
      BY Shape, SameStore, OpShape DEF Submit, Does
    <2>2. "queued" \in Phases /\ "gone" \in Phases
            /\ {"WAITING", "DELETING", "FAILED"} \subseteq SnapStatuses
      BY DEF Phases, SnapStatuses
    <2> QED BY <2>1, <2>2 DEF Submit
  <1>2. /\ ~Free(t) /\ (Done(t) \/ Drop(t))
        /\ UNCHANGED <<kb, count, bindings, rel, stray, raced, requests>>
        /\ mishap' \in BOOLEAN /\ faults' \in 0..MaxFaults
    <2>1. /\ ~Free(t) /\ (Done(t) \/ Drop(t))
          /\ UNCHANGED <<kb, count, bindings, rel, stray, raced, requests>>
          /\ Calm \/ Mishap
      BY DEF Submit, Does, store
    <2> QED BY <2>1, TroubleTyped
  <1>3. PICK ops \in Seq(FitOps) : Continue(t, ops)
    BY <1>2, DoneTyped
  <1>4. /\ todo' \in [Threads -> Seq(FitOps)] /\ serving' \in [Threads -> 0..MaxTasks]
        /\ \A u \in Threads : serving'[u] <= Len(tasks)
    BY <1>3, ContinueTyped
  <1>5. tasks' \in Seq(TaskRec) /\ Len(tasks') = id /\ Len(tasks) <= Len(tasks')
          /\ Len(tasks') <= MaxTasks
    <2>1. [doc |-> d, kind |-> kind, algo |-> a, phase |-> phase] \in TaskRec
      BY DEF TaskRec
    <2> QED BY <1>1, <2>1, Shape
  <1>6. snap' \in [Docs -> SnapRec]
    BY <1>1, Shape DEF SnapRec
  <1>7. \A e \in Docs : snap'[e].task <= Len(tasks) \/ snap'[e].task <= Len(tasks')
    <2> SUFFICES ASSUME NEW e \in Docs
                 PROVE  snap'[e].task <= Len(tasks) \/ snap'[e].task <= Len(tasks')
      OBVIOUS
    <2>1. CASE e = d
      BY <1>1, <1>5, <2>1, Shape
    <2>2. CASE e # d
      BY <1>1, <2>2, Shape, SameStore
    <2> QED BY <2>1, <2>2
  <1> QED BY <1>2, <1>4, <1>5, <1>6, <1>7, SameStore, StoreTyped

\* A task enters another phase.
LEMMA PhaseTyped ==
  ASSUME Typed, NEW id \in 1..Len(tasks), NEW phase \in Phases,
         tasks' = [tasks EXCEPT ![id].phase = phase]
  PROVE  /\ tasks' \in Seq(TaskRec) /\ Len(tasks') = Len(tasks) /\ tasks'[id].phase = phase
         /\ \A i \in 1..Len(tasks) : /\ i # id => tasks'[i] = tasks[i]
                                     /\ tasks'[i].doc = tasks[i].doc
                                     /\ tasks'[i].kind = tasks[i].kind
                                     /\ tasks'[i].algo = tasks[i].algo
  <1> DEFINE r == [tasks[id] EXCEPT !.phase = phase]
  <1>1. tasks[id] \in TaskRec
    BY Shape
  <1>2. r \in TaskRec /\ r.phase = phase /\ r.doc = tasks[id].doc /\ r.kind = tasks[id].kind
    BY <1>1 DEF TaskRec
  <1>3. tasks' = [tasks EXCEPT ![id] = r]
    OBVIOUS
  <1> HIDE DEF r
  <1>4. /\ tasks' \in Seq(TaskRec) /\ Len(tasks') = Len(tasks) /\ tasks'[id] = r
        /\ \A i \in 1..Len(tasks) : i # id => tasks'[i] = tasks[i]
    <2>1. tasks \in Seq(TaskRec) /\ r \in TaskRec
      BY <1>2, Shape
    <2> QED BY <1>3, <2>1, ExceptSeq
  <1> QED BY <1>2, <1>4

LEMMA CancelTyped ==
  ASSUME Typed, NEW t \in Threads, Cancel(t)
  PROVE  Typed'
  <1>1. /\ ~Free(t) /\ (Done(t) \/ Drop(t)) /\ Op1(t).doc \in Docs
        /\ UNCHANGED <<kb, count, bindings, rel, mishap, stray, raced, requests, faults>>
    BY OpShape DEF Cancel, Does, store
  <1>2. PICK ops \in Seq(FitOps) : Continue(t, ops)
    BY <1>1, DoneTyped
  <1>3. PICK d \in Docs, id \in 0..MaxTasks : d = Op1(t).doc /\ id = snap[d].task
    BY <1>1, Shape DEF SnapRec
  <1>4. CASE UNCHANGED <<tasks, snap>>
    BY <1>1, <1>2, <1>4, Shape, SameStore, TransactionTyped
  <1>5. CASE /\ id # 0 /\ tasks' = [tasks EXCEPT ![id].phase = "canceled"]
             /\ snap' = [snap EXCEPT ![d].status = "CANCELED"]
    <2>1. id \in 1..Len(tasks)
      BY <1>3, <1>5, SameStore, Shape
    <2>2. tasks' \in Seq(TaskRec) /\ Len(tasks') = Len(tasks)
      BY <1>5, <2>1, PhaseTyped DEF Phases
    <2>3. snap' \in [Docs -> SnapRec] /\ \A e \in Docs : snap'[e].task = snap[e].task
      BY <1>5, Shape DEF SnapRec, SnapStatuses
    <2> QED BY <1>1, <1>2, <2>2, <2>3, SameStore, TransactionTyped
  <1> QED BY <1>3, <1>4, <1>5 DEF Cancel

LEMMA StepTyped ==
  ASSUME Typed, NEW t \in Threads, Transaction(t)
  PROVE  Typed'
  BY RowsTyped, CountLeftTyped, DropSnapTyped, SubmitTyped, CancelTyped DEF Transaction

-----------------------------------------------------------------------------
(* Callbacks and troubles.                                                 *)

LEMMA SetSnapTyped ==
  ASSUME Typed, NEW id \in 1..Len(tasks), NEW status \in SnapStatuses,
         UNCHANGED snap \/ SetSnap(id, status)
  PROVE  snap' \in [Docs -> SnapRec] /\ \A d \in Docs : snap'[d].task <= Len(tasks)
  <1>1. tasks[id] \in TaskRec /\ id \in 0..MaxTasks /\ id <= Len(tasks)
    BY Shape, SameStore
  <1>2. CASE UNCHANGED snap
    BY <1>2, Shape, SameStore
  <1>3. CASE SetSnap(id, status)
    <2>1. PICK d \in Docs : d = tasks[id].doc
      BY <1>1 DEF TaskRec
    <2>2. [status |-> status, task |-> id] \in SnapRec
      BY <1>1 DEF SnapRec
    <2>3. snap' = [snap EXCEPT ![d] = [status |-> status, task |-> id]]
      BY <1>3, <2>1 DEF SetSnap
    <2> QED BY <1>1, <2>2, <2>3, Shape, SameStore
  <1> QED BY <1>2, <1>3

LEMMA CleanupFits ==
  ASSUME Typed, NEW id \in 1..Len(tasks)
  PROVE  Cleanup(id) \in Seq(FitOps)
  <1>1. tasks[id] \in TaskRec
    BY Shape
  <1>2. PICK d \in Docs, k \in Kinds, a \in Algos \cup {None} :
          d = tasks[id].doc /\ k = tasks[id].kind /\ a = tasks[id].algo
    BY <1>1 DEF TaskRec
  <1>3. /\ DoDoc("removeDoc", d) \in FitOps /\ DoDoc("purge", d) \in FitOps
        /\ DoDoc("dropSnap", d) \in FitOps /\ Do("finalize") \in FitOps
        /\ DoAlgo("countLeft", a) \in FitOps
    BY DoFits, DoDocFits, DoAlgoFits
  <1>4. Cleanup(id) \in {<< >>, <<DoDoc("removeDoc", d)>>, <<DoDoc("purge", d), Do("finalize")>>,
                         <<DoDoc("dropSnap", d), DoAlgo("countLeft", a)>>}
    BY <1>2 DEF Cleanup, Kinds
  <1>5. << >> \in Seq(FitOps) /\ <<DoDoc("removeDoc", d)>> \in Seq(FitOps)
    BY <1>3
  <1>6. <<DoDoc("purge", d), Do("finalize")>> \in Seq(FitOps)
    BY <1>3
  <1>7. <<DoDoc("dropSnap", d), DoAlgo("countLeft", a)>> \in Seq(FitOps)
    BY <1>3
  <1> QED BY <1>4, <1>5, <1>6, <1>7

LEMMA StartedTyped ==
  ASSUME Typed, NEW id \in 1..Len(tasks), Started(id)
  PROVE  Typed'
  <1>1. tasks' \in Seq(TaskRec) /\ Len(tasks') = Len(tasks)
    BY PhaseTyped DEF Started, Phases
  <1>2. \E status \in SnapStatuses : UNCHANGED snap \/ SetSnap(id, status)
    BY DEF Started, SnapStatuses
  <1>3. snap' \in [Docs -> SnapRec] /\ \A d \in Docs : snap'[d].task <= Len(tasks)
    BY <1>2, SetSnapTyped
  <1>4. UNCHANGED <<kb, count, bindings, rel, todo, serving, mishap, stray, raced, requests, faults>>
    BY DEF Started, store
  <1>5. Len(tasks') <= MaxTasks /\ Len(tasks) <= Len(tasks')
    BY <1>1, Shape
  <1> QED BY <1>1, <1>3, <1>4, <1>5, Shape, SameStore, StoreTyped

LEMMA FinishedTyped ==
  ASSUME Typed, NEW t \in Threads, NEW id \in 1..Len(tasks), Finished(t, id)
  PROVE  Typed'
  <1>1. tasks' \in Seq(TaskRec) /\ Len(tasks') = Len(tasks)
    BY PhaseTyped DEF Finished, Phases
  <1>2. \E status \in SnapStatuses : UNCHANGED snap \/ SetSnap(id, status)
    BY DEF Finished, SnapStatuses
  <1>3. snap' \in [Docs -> SnapRec] /\ \A d \in Docs : snap'[d].task <= Len(tasks)
    BY <1>2, SetSnapTyped
  <1>4. UNCHANGED <<kb, count, bindings, rel, stray, raced, requests>> /\ (Calm \/ Mishap)
    BY DEF Finished, store
  <1>5. mishap' \in BOOLEAN /\ faults' \in 0..MaxFaults
    BY <1>4, TroubleTyped
  <1>6. /\ todo' = todo \/ todo' = [todo EXCEPT ![t] = Cleanup(id)]
        /\ serving' = serving \/ \E i \in {0, id} : serving' = [serving EXCEPT ![t] = i]
    BY DEF Finished
  <1>7. todo' \in [Threads -> Seq(FitOps)]
    BY <1>6, CleanupFits, Shape
  <1>8. serving' \in [Threads -> 0..MaxTasks] /\ \A u \in Threads : serving'[u] <= Len(tasks)
    <2>1. \A i \in {0, id} : i \in 0..MaxTasks /\ i <= Len(tasks)
      BY Shape, SameStore
    <2> QED BY <1>6, <2>1, Shape, SameStore
  <1>9. Len(tasks') <= MaxTasks /\ Len(tasks) <= Len(tasks')
    BY <1>1, Shape
  <1> QED BY <1>1, <1>3, <1>4, <1>5, <1>7, <1>8, <1>9, SameStore, StoreTyped

LEMMA InterruptedTyped ==
  ASSUME Typed, NEW t \in Threads, Interrupted(t)
  PROVE  Typed'
  <1>1. ~Free(t) /\ Drop(t) /\ UNCHANGED <<kb, count, bindings, rel, snap, stray, raced, requests>>
    BY DEF Interrupted, store
  <1>2. PICK ops \in Seq(FitOps) : Continue(t, ops)
    BY <1>1, DoneTyped
  <1>3. mishap' \in BOOLEAN /\ faults' \in 0..MaxFaults
    <2>1. Fault
      BY DEF Interrupted, Mishap
    <2>2. mishap' \in BOOLEAN
      BY SameStore DEF Interrupted, Mishap
    <2> QED BY <2>1, <2>2, FaultTyped
  <1>4. tasks' \in Seq(TaskRec) /\ Len(tasks') = Len(tasks)
    <2>1. CASE UNCHANGED tasks
      BY <2>1, Shape
    <2>2. CASE serving[t] # 0 /\ tasks' = [tasks EXCEPT ![serving[t]].phase = "again"]
      <3>1. PICK id \in 1..Len(tasks) : id = serving[t]
        BY <2>2, Shape, SameStore
      <3> QED BY <2>2, <3>1, PhaseTyped DEF Phases
    <2> QED BY <2>1, <2>2 DEF Interrupted
  <1> QED BY <1>1, <1>2, <1>3, <1>4, Shape, SameStore, TransactionTyped

LEMMA CrashTyped ==
  ASSUME Typed, Crash
  PROVE  Typed'
  <1>1. /\ UNCHANGED <<kb, count, bindings, rel, snap, tasks, stray, raced, requests>>
        /\ mishap' = TRUE /\ faults' \in 0..MaxFaults
        /\ todo' = [t \in Threads |-> << >>] /\ serving' = [t \in Threads |-> 0]
    BY SameStore DEF Crash, Mishap, Fault, store
  <1>2. /\ todo' \in [Threads -> Seq(FitOps)] /\ serving' \in [Threads -> 0..MaxTasks]
        /\ \A u \in Threads : serving'[u] <= Len(tasks)
    BY <1>1, Shape, SameStore
  <1>3. Len(tasks) <= Len(tasks) /\ Len(tasks) <= MaxTasks
    BY Shape
  <1> QED BY <1>1, <1>2, <1>3, Shape, SameStore, StoreTyped

LEMMA InitTyped == ASSUME Init PROVE Typed
  <1>1. rel \subseteq Docs /\ bindings \subseteq Algos
    BY KbAssumption DEF Init
  <1>2. count \in 0..Cardinality(Docs)
    BY <1>1, CountTyped DEF Init
  <1>3. << >> \in Seq(FitOps) /\ << >> \in Seq(TaskRec) /\ Len(<< >>) = 0 /\ << >> \in Seq(Op)
    OBVIOUS
  <1>4. /\ todo \in [Threads -> Seq(FitOps)] /\ todo \in [Threads -> Seq(Op)]
        /\ tasks \in Seq(TaskRec) /\ Len(tasks) = 0
    BY <1>3 DEF Init
  <1>5. MaxTasks \in Nat /\ MaxRequests \in Nat /\ MaxFaults \in Nat
    BY KbAssumption
  <1>6. snap \in [Docs -> SnapRec] /\ \A d \in Docs : snap[d].task = 0
    BY <1>5 DEF Init, SnapRec, SnapStatuses
  <1>7. serving \in [Threads -> 0..MaxTasks] /\ \A t \in Threads : serving[t] = 0
    BY <1>5 DEF Init
  <1>8. /\ kb = "ACTIVE" /\ mishap \in BOOLEAN /\ stray \in BOOLEAN /\ raced \in BOOLEAN
        /\ requests \in 0..MaxRequests /\ faults \in 0..MaxFaults
    <2>1. requests = 0 /\ faults = 0
      BY DEF Init
    <2>2. requests \in 0..MaxRequests /\ faults \in 0..MaxFaults
      BY <1>5, <2>1
    <2>3. kb = "ACTIVE" /\ mishap = FALSE /\ stray = FALSE /\ raced = FALSE
      BY DEF Init
    <2> QED BY <2>2, <2>3
  <1>9. TypeOK
    BY <1>1, <1>2, <1>4, <1>6, <1>7, <1>8 DEF TypeOK, TaskRec, Phases, SnapRec, SnapStatuses
  <1>10. Named
    BY <1>4, <1>5, <1>6, <1>7 DEF Named
  <1> QED BY <1>4, <1>9, <1>10 DEF Typed

LEMMA NextTyped ==
  ASSUME Typed, [Next]_vars
  PROVE  Typed'
  <1>1. ASSUME NEW t \in Threads, Request(t) \/ Transaction(t) \/ Interrupted(t) PROVE Typed'
    BY <1>1, RequestTyped, StepTyped, InterruptedTyped
  <1>2. ASSUME NEW t \in Threads, NEW id \in 1..Len(tasks), Callback(t, id) PROVE Typed'
    BY <1>2, StartedTyped, FinishedTyped DEF Callback
  <1>3. CASE UNCHANGED vars
    BY <1>3 DEF vars, store, Typed, TypeOK, Named
  <1> QED BY <1>1, <1>2, <1>3, CrashTyped DEF Next

\* The row, documents, snapshots and handlers of a knowledge base keep their types
\* (doc_manager.py): no handler names a document, task or algorithm that is not there.
THEOREM TypeCorrect == Spec => []TypeOK
  <1>1. Typed => TypeOK
    BY DEF Typed
  <1> QED BY <1>1, InitTyped, NextTyped, PTL DEF Spec

-----------------------------------------------------------------------------
(* The number of documents.                                                *)

\* Without a row there are no documents, or one was added then.
Counted ==
  ~stray => IF kb = None THEN rel = {} ELSE count = Cardinality(rel)

LEMMA TransactionCounts ==
  ASSUME Typed, Counted, NEW t \in Threads, Transaction(t)
  PROVE  Counted'
  <1>1. CASE EnsureKb(t)
    BY <1>1, FS_EmptySet DEF EnsureKb, Counted, None
  <1>2. CASE BindDoc(t) \/ RemoveDoc(t)
    <2>1. /\ IF rel' # rel THEN Refresh(rel') ELSE UNCHANGED <<kb, count>>
          /\ stray' = (stray \/ kb = None) \/ (stray' = stray /\ rel' \subseteq rel)
      BY <1>2 DEF BindDoc, RemoveDoc
    <2>2. stray' \/ kb # None \/ rel' \subseteq rel
      BY <2>1
    <2>3. ~stray' => ~stray
      BY <2>1
    <2>4. CASE rel' = rel
      BY <2>1, <2>3, <2>4 DEF Counted
    <2>5. CASE rel' # rel
      <3>1. /\ count' = IF kb = None THEN count ELSE Cardinality(rel')
            /\ kb' = None <=> kb = None
        BY <2>1, <2>5 DEF Refresh, None
      <3>2. CASE kb # None
        BY <3>1, <3>2 DEF Counted
      <3>3. CASE kb = None
        BY <2>2, <2>3, <2>5, <3>1, <3>3 DEF Counted
      <3> QED BY <3>2, <3>3
    <2> QED BY <2>4, <2>5
  <1>3. CASE SetDeleting(t)
    BY <1>3 DEF SetDeleting, Counted, None
  <1>4. CASE Finalize(t)
    BY <1>4 DEF Finalize, Counted
  <1>5. CASE \/ BindAlgo(t) \/ DropSnap(t) \/ Submit(t) \/ Cancel(t) \/ Refuse(t)
             \/ CountLeft(t) \/ RemoveBinding(t)
    <2>1. UNCHANGED <<kb, count, rel, stray>>
      BY <1>5 DEF BindAlgo, DropSnap, Submit, Cancel, Refuse, CountLeft, RemoveBinding, store
    <2> QED BY <2>1 DEF Counted
  <1> QED BY <1>1, <1>2, <1>3, <1>4, <1>5 DEF Transaction

LEMMA NextCounts ==
  ASSUME Typed, Counted, [Next]_vars
  PROVE  Counted'
  <1>1. ASSUME NEW t \in Threads, Transaction(t) PROVE Counted'
    BY <1>1, TransactionCounts
  <1>2. ASSUME UNCHANGED <<kb, count, rel, stray>> PROVE Counted'
    BY <1>2 DEF Counted
  <1>3. ASSUME NEW t \in Threads, Request(t) \/ Interrupted(t) PROVE Counted'
    <2>1. UNCHANGED <<kb, count, rel, stray>>
      BY <1>3 DEF Request, Interrupted, Create, Update, Upload, Delete, DeleteKb, Unbind, Admit, store
    <2> QED BY <1>2, <2>1
  <1>4. ASSUME NEW t \in Threads, NEW id \in 1..Len(tasks), Callback(t, id) PROVE Counted'
    <2>1. UNCHANGED <<kb, count, rel, stray>>
      BY <1>4 DEF Callback, Started, Finished, store
    <2> QED BY <1>2, <2>1
  <1>5. CASE Crash \/ UNCHANGED vars
    <2>1. UNCHANGED <<kb, count, rel, stray>>
      BY <1>5 DEF Crash, vars, store
    <2> QED BY <1>2, <2>1
  <1> QED BY <1>1, <1>3, <1>4, <1>5 DEF Next

\* doc_count is the number of documents of the knowledge base (_refresh_kb_doc_count),
\* unless a document was added when there was no row (CountTrue).
THEOREM CountIsTrue == Spec => []CountTrue
  <1>1. Init => Counted
    BY DEF Init, Counted, None
  <1>2. Typed /\ Counted /\ [Next]_vars => Counted'
    BY NextCounts
  <1>3. Counted => CountTrue
    BY DEF Counted, CountTrue
  <1> QED BY <1>1, <1>2, <1>3, InitTyped, NextTyped, PTL DEF Spec

-----------------------------------------------------------------------------
(* The algorithms that are left.                                           *)

Makes == {"ensureKb", "bindAlgo"}
Leaves == {"countLeft", "removeBinding"}
Ahead(t, step) == \E i \in DOMAIN todo[t] : todo[t][i].do = step

\* Only the requests that make a knowledge base create it and bind to it, and they do
\* nothing else.  A callback submits nothing; that of a purge ends with the removal of
\* the knowledge base, that of an unbinding with the removal of its own binding.
Serves(q, task) ==
  /\ \A i \in DOMAIN q : q[i].do \notin Makes /\ q[i].kind = None
  /\ \A i \in DOMAIN q : q[i].do \in Leaves => task.kind = "UNBIND" /\ q[i].algo = task.algo
  /\ task.kind = "PURGE" => q[Len(q)].do = "finalize"
  /\ task.kind = "UNBIND" => q[Len(q)].do \in Leaves
Handled ==
  \A t \in Threads :
    /\ \/ \A i \in DOMAIN todo[t] : todo[t][i].do \in Makes
       \/ \A i \in DOMAIN todo[t] : todo[t][i].do \notin Makes
    /\ serving[t] # 0 /\ ~Free(t) => Serves(todo[t], tasks[serving[t]])

OneRequest == ~mishap => \A t, u \in Threads : Requesting(t) /\ Requesting(u) => t = u

\* Who makes the row binds an algorithm after it, and no deletion removes it meanwhile.
Founds(q) ==
  \A i \in DOMAIN q : q[i].do = "ensureKb" =>
    kb # None \/ \E j \in DOMAIN q : i < j /\ q[j].do = "bindAlgo"
Founding ==
  ~mishap => \A t \in Threads : Ahead(t, "ensureKb") => ~Doomed /\ Founds(todo[t])

\* An unbinding of a is on its way.
Loses(a) ==
  \/ \E i \in DOMAIN tasks :
       tasks[i].kind = "UNBIND" /\ tasks[i].phase \notin {"canceled", "gone"} /\ tasks[i].algo = a
  \/ \E t \in Threads : \E i \in DOMAIN todo[t] : Unbinds(todo[t][i]) /\ todo[t][i].algo = a
Binding == \E t \in Threads : Ahead(t, "bindAlgo")

\* One algorithm is unbound at a time, none is bound meanwhile, and another stays.
Spared ==
  ~mishap /\ ~raced =>
    /\ Binding => ~Unbinding
    /\ \E a \in Algos \cup {None} :
         /\ \A b \in Algos \cup {None} : Loses(b) => b = a
         /\ kb = None \/ Binding \/ bindings \ {a} # {}

Kept == Handled /\ OneRequest /\ Founding /\ Spared

\* What a handler has ahead after a transaction comes from what it had.
Follows(q, r) ==
  /\ \A j \in DOMAIN r : \E i \in DOMAIN q :
       /\ r[j].do \in Makes \cup {"finalize"} => q[i].do = r[j].do
       /\ r[j].kind # None => q[i].kind # None
       /\ Unbinds(r[j]) => Unbinds(q[i]) /\ q[i].algo = r[j].algo
       /\ r[j].do \in Leaves => q[i].do \in Leaves /\ q[i].algo = r[j].algo
  /\ q[1].do \in Makes => r = Tail(q)
  /\ (\A i \in DOMAIN q : q[i].do \notin Leaves) /\ q[Len(q)].do = "finalize" /\ r # << >> =>
       r[Len(r)].do = "finalize"
  /\ q[Len(q)].do \in Leaves /\ r # << >> => r[Len(r)].do \in Leaves

LEMMA AfterShape ==
  ASSUME NEW op \in Op
  PROVE  \/ After(op) = << >>
         \/ /\ op.do \in {"purge", "cancel"}
            /\ \E p : /\ After(op) = <<p>> /\ p.do \in {"dropSnap", "purge", "submit"}
                      /\ p.kind # None => op.kind # None
                      /\ Unbinds(p) => Unbinds(op) /\ op.algo = p.algo
  <1>1. CASE op.do = "purge" \/ (op.do = "cancel" /\ op.kind = None)
    <2>1. PICK s \in {"dropSnap", "purge"} : After(op) = <<DoDoc(s, op.doc)>>
      BY <1>1 DEF After
    <2>2. DoDoc(s, op.doc).do = s /\ DoDoc(s, op.doc).kind = None
      BY DEF DoDoc, Do
    <2>3. ~Unbinds(DoDoc(s, op.doc))
      BY <2>2 DEF Unbinds, None
    <2> QED BY <1>1, <2>1, <2>2, <2>3
  <1>2. CASE op.do = "cancel" /\ op.kind # None
    <2> DEFINE p == [op EXCEPT !.do = "submit"]
    <2>1. After(op) = <<p>>
      BY <1>2 DEF After
    <2>2. p.do = "submit" /\ p.kind = op.kind /\ p.algo = op.algo
      BY DEF Op
    <2>3. Unbinds(p) => Unbinds(op)
      BY <2>2 DEF Unbinds
    <2> QED BY <1>2, <2>1, <2>2, <2>3
  <1>3. CASE op.do \notin {"purge", "cancel"}
    BY <1>3 DEF After
  <1> QED BY <1>1, <1>2, <1>3

LEMMA Advance ==
  ASSUME Typed, NEW t \in Threads, ~Free(t),
         Done(t) \/ (Drop(t) /\ Op1(t).do \notin Makes) \/ CountLeft(t)
  PROVE  \E r \in Seq(FitOps) : Continue(t, r) /\ Follows(todo[t], r)
  <1> DEFINE q == todo[t]
             len == Len(todo[t])
  <1>1. q \in Seq(FitOps) /\ q # << >> /\ len \in Nat /\ len >= 1 /\ DOMAIN q = 1..len /\ Op1(t) = q[1]
    BY Shape DEF Free, Op1
  <1>2. /\ Tail(q) \in Seq(FitOps) /\ Len(Tail(q)) = len - 1
        /\ \A j \in 1..(len - 1) : Tail(q)[j] = q[j + 1]
    BY <1>1
  <1>3. q[1] \in Op
    BY <1>1 DEF FitOps
  <1> HIDE DEF q
  <1>4. CASE Drop(t) /\ Op1(t).do \notin Makes
    <2>1. Follows(q, << >>) /\ << >> \in Seq(FitOps)
      BY <1>1, <1>4 DEF Follows
    <2>2. Continue(t, << >>)
      BY <1>4 DEF Drop
    <2> QED BY <2>1, <2>2 DEF q
  <1>5. CASE CountLeft(t)
    <2>1. PICK r : /\ Continue(t, r) /\ Op1(t).do = "countLeft"
                   /\ r = << >> \/ r = <<DoAlgo("removeBinding", Op1(t).algo)>>
      BY <1>5 DEF CountLeft, Does
    <2> DEFINE p == DoAlgo("removeBinding", q[1].algo)
    <2>2. p \in FitOps /\ p.do = "removeBinding" /\ p.kind = None /\ p.algo = q[1].algo
      <3>1. q[1].algo \in Algos \cup {None}
        BY <1>3 DEF Op
      <3>2. p \in FitOps
        BY <3>1, DoAlgoFits
      <3> QED BY <3>2 DEF DoAlgo, Do
    <2>3. q[1].do = "countLeft" /\ Unbinds(q[1]) /\ (r = << >> \/ r = <<p>>)
      BY <1>1, <2>1 DEF Unbinds
    <2> HIDE DEF p
    <2>4. << >> \in Seq(FitOps) /\ <<p>> \in Seq(FitOps)
      BY <2>2
    <2>5. Follows(q, << >>)
      BY <1>1, <2>3 DEF Follows, Makes
    <2>6. Follows(q, <<p>>)
      <3>1. Len(<<p>>) = 1 /\ DOMAIN <<p>> = 1..1 /\ <<p>>[1] = p /\ 1 \in DOMAIN q
        BY <1>1
      <3>2. /\ q[1].do \notin Makes /\ q[1].do \in Leaves
            /\ p.do \notin Makes \cup {"finalize"} /\ p.do \in Leaves
        BY <2>2, <2>3 DEF Makes, Leaves
      <3>3. \A j \in DOMAIN <<p>> : <<p>>[j] = p
        BY <3>1
      <3>4. \A i \in DOMAIN q : q[i].do \notin Leaves => i # 1
        BY <3>2
      <3> QED BY <2>2, <2>3, <3>1, <3>2, <3>3, <3>4 DEF Follows
    <2> QED BY <2>1, <2>3, <2>4, <2>5, <2>6 DEF q
  <1>6. CASE Done(t)
    <2>1. Continue(t, After(q[1]) \o Tail(q)) /\ After(q[1]) \o Tail(q) \in Seq(FitOps)
      BY <1>1, <1>6, HeadFits DEF Done, q
    <2>2. CASE After(q[1]) = << >>
      <3>1. After(q[1]) \o Tail(q) = Tail(q)
        BY <1>2, <2>2
      <3> DEFINE r == Tail(q)
      <3>2. DOMAIN r = 1..(len - 1) /\ (r # << >> => len - 1 >= 1)
        BY <1>1, <1>2
      <3>3. \A j \in DOMAIN r : j + 1 \in DOMAIN q /\ r[j] = q[j + 1]
        BY <1>1, <1>2, <3>2
      <3>4. r # << >> => r[Len(r)] = q[len]
        BY <1>1, <1>2, <3>2
      <3>5. Follows(q, r)
        BY <1>1, <3>3, <3>4 DEF Follows, q
      <3> QED BY <2>1, <3>1, <3>5 DEF q
    <2>3. ASSUME NEW p, After(q[1]) = <<p>>, q[1].do \in {"purge", "cancel"},
                 p.do \in {"dropSnap", "purge", "submit"}, p.kind # None => q[1].kind # None,
                 Unbinds(p) => Unbinds(q[1]) /\ q[1].algo = p.algo
          PROVE  \E r \in Seq(FitOps) : Continue(t, r) /\ Follows(q, r)
      <3> DEFINE r == <<p>> \o Tail(q)
      <3>1. r \in Seq(FitOps) /\ Continue(t, r)
        BY <2>1, <2>3
      <3>2. Len(r) = len /\ r[1] = p /\ \A j \in 2..len : r[j] = Tail(q)[j - 1]
        BY <1>1, <1>2
      <3>3. \A j \in 2..len : r[j] = q[j]
        BY <1>1, <1>2, <3>2
      <3>4. DOMAIN r = 1..len
        BY <3>1, <3>2
      <3> HIDE DEF r
      <3>5. /\ p.do \notin Makes \cup {"finalize"} /\ p.do \notin Leaves
            /\ q[1].do \notin Makes /\ q[1].do \notin Leaves /\ q[1].do # "finalize"
        BY <2>3 DEF Makes, Leaves
      <3>6. \A j \in DOMAIN r : \E i \in DOMAIN q :
              /\ r[j].do \in Makes \cup {"finalize"} => q[i].do = r[j].do
              /\ r[j].kind # None => q[i].kind # None
              /\ Unbinds(r[j]) => Unbinds(q[i]) /\ q[i].algo = r[j].algo
              /\ r[j].do \in Leaves => q[i].do \in Leaves /\ q[i].algo = r[j].algo
        <4> SUFFICES ASSUME NEW j \in 1..len
                     PROVE  /\ r[j].do \in Makes \cup {"finalize"} => q[j].do = r[j].do
                            /\ r[j].kind # None => q[j].kind # None
                            /\ Unbinds(r[j]) => Unbinds(q[j]) /\ q[j].algo = r[j].algo
                            /\ r[j].do \in Leaves => q[j].do \in Leaves /\ q[j].algo = r[j].algo
          BY <1>1, <3>4
        <4>1. CASE j = 1
          BY <2>3, <3>2, <3>5, <4>1
        <4>2. CASE j # 1
          <5>1. r[j] = q[j]
            BY <1>1, <3>3, <4>2
          <5> QED BY <5>1
        <4> QED BY <4>1, <4>2
      <3>7. len = 1 \/ r[Len(r)] = q[len]
        <4>1. \A n \in Nat : n >= 1 /\ n # 1 => n \in 2..n
          OBVIOUS
        <4>2. len # 1 => len \in 2..len
          BY <1>1, <4>1
        <4> QED BY <3>2, <3>3, <4>2
      <3>8. Follows(q, r)
        BY <1>1, <3>5, <3>6, <3>7 DEF Follows, q
      <3> QED BY <3>1, <3>8
    <2>4. \E r \in Seq(FitOps) : Continue(t, r) /\ Follows(q, r)
      <3>1. CASE q[1].do \in {"purge", "cancel"} /\ After(q[1]) # << >>
        <4>1. PICK p : /\ After(q[1]) = <<p>> /\ p.do \in {"dropSnap", "purge", "submit"}
                       /\ p.kind # None => q[1].kind # None
                       /\ Unbinds(p) => Unbinds(q[1]) /\ q[1].algo = p.algo
          BY <1>3, <3>1, AfterShape
        <4> QED BY <2>3, <3>1, <4>1
      <3> QED BY <1>3, <2>2, <3>1, AfterShape DEF q
    <2> QED BY <2>4 DEF q
  <1> QED BY <1>4, <1>5, <1>6

-----------------------------------------------------------------------------
(* What a transaction leaves.                                              *)

Over == {"canceled", "gone"}
\* No task that is over comes back, and none changes its kind.
GoesOn(i) ==
  /\ tasks'[i].kind = tasks[i].kind /\ tasks'[i].algo = tasks[i].algo
  /\ tasks[i].phase \in Over => tasks'[i].phase \in Over
  /\ tasks[i].phase = "gone" => tasks'[i].phase = "gone"

\* A transaction of t, in as much as it concerns row and bindings.
Moves(t, r) ==
  /\ ~Free(t) /\ Continue(t, r) /\ Follows(todo[t], r)
  /\ Len(tasks) <= Len(tasks') /\ \A i \in 1..Len(tasks) : GoesOn(i)
  /\ \A i \in 1..Len(tasks') : i > Len(tasks) =>
       Op1(t).do = "submit" /\ tasks'[i].kind = Op1(t).kind /\ tasks'[i].algo = Op1(t).algo
  /\ (mishap => mishap') /\ raced' = raced
  /\ kb # None /\ kb' = None => Op1(t).do = "finalize"
  /\ kb = None /\ kb' # None => Op1(t).do = "ensureKb"
  /\ Op1(t).do = "ensureKb" => kb' # None
  /\ IF Op1(t).do = "bindAlgo" THEN bindings' = bindings \cup {Op1(t).algo}
     ELSE IF Op1(t).do = "removeBinding" THEN bindings' = bindings \ {Op1(t).algo}
     ELSE bindings' = bindings \/ kb' = None

LEMMA SameGoOn ==
  ASSUME Typed, tasks' = tasks
  PROVE  Len(tasks) <= Len(tasks') /\ (\A i \in 1..Len(tasks) : GoesOn(i))
         /\ \A i \in 1..Len(tasks') : ~(i > Len(tasks))
  BY Shape DEF GoesOn

LEMMA TransactionMoves ==
  ASSUME Typed, NEW t \in Threads, Transaction(t)
  PROVE  \E r \in Seq(FitOps) : Moves(t, r)
  <1>1. ~Free(t)
    BY DEF Transaction, EnsureKb, BindAlgo, BindDoc, RemoveDoc, DropSnap, Submit, Cancel, Refuse,
           SetDeleting, Finalize, CountLeft, RemoveBinding, Does
  <1>2. CASE EnsureKb(t)
    <2>1. PICK r \in Seq(FitOps) : Continue(t, r) /\ Follows(todo[t], r)
      BY <1>1, <1>2, Advance DEF EnsureKb
    <2> QED BY <1>1, <1>2, <2>1, SameGoOn DEF EnsureKb, Moves, Does, None
  <1>3. CASE BindAlgo(t)
    <2>1. PICK r \in Seq(FitOps) : Continue(t, r) /\ Follows(todo[t], r)
      BY <1>1, <1>3, Advance DEF BindAlgo
    <2> QED BY <1>1, <1>3, <2>1, SameGoOn DEF BindAlgo, Moves, Does
  <1>4. CASE BindDoc(t) \/ RemoveDoc(t)
    <2>1. PICK r \in Seq(FitOps) : Continue(t, r) /\ Follows(todo[t], r)
      BY <1>1, <1>4, Advance DEF BindDoc, RemoveDoc
    <2>2. kb' = None <=> kb = None
      BY <1>4 DEF BindDoc, RemoveDoc, Refresh, None
    <2>3. /\ UNCHANGED <<bindings, tasks, mishap, raced>>
          /\ Op1(t).do \in {"bindDoc", "removeDoc", "purge"}
      BY <1>4 DEF BindDoc, RemoveDoc, Does
    <2> QED BY <1>1, <2>1, <2>2, <2>3, SameGoOn DEF Moves
  <1>5. CASE DropSnap(t)
    <2>1. PICK r \in Seq(FitOps) : Continue(t, r) /\ Follows(todo[t], r)
      BY <1>1, <1>5, Advance DEF DropSnap
    <2>2. UNCHANGED <<kb, bindings, tasks, raced>> /\ (mishap => mishap') /\ Op1(t).do = "dropSnap"
      BY <1>5 DEF DropSnap, Does, store
    <2> QED BY <1>1, <2>1, <2>2, SameGoOn DEF Moves
  <1>6. CASE Submit(t)
    <2>1. Done(t) \/ Drop(t)
      BY <1>6 DEF Submit
    <2>2. /\ UNCHANGED <<kb, bindings, raced>> /\ (mishap => mishap') /\ Op1(t).do = "submit"
      BY <1>6 DEF Submit, Does, store, Calm, Mishap
    <2>3. PICK r \in Seq(FitOps) : Continue(t, r) /\ Follows(todo[t], r)
      BY <1>1, <2>1, <2>2, Advance DEF Makes
    <2>4. PICK phase : tasks' = Append(tasks, [doc |-> Op1(t).doc, kind |-> Op1(t).kind,
                                              algo |-> Op1(t).algo, phase |-> phase])
      BY <1>6 DEF Submit
    <2>5. /\ Len(tasks') = Len(tasks) + 1 /\ Len(tasks) \in Nat
          /\ \A i \in 1..Len(tasks) : tasks'[i] = tasks[i]
          /\ tasks'[Len(tasks) + 1].kind = Op1(t).kind /\ tasks'[Len(tasks) + 1].algo = Op1(t).algo
      BY <2>4, Shape
    <2>6. /\ Len(tasks) <= Len(tasks') /\ \A i \in 1..Len(tasks) : GoesOn(i)
          /\ \A i \in 1..Len(tasks') : i > Len(tasks) => i = Len(tasks) + 1
      BY <2>5 DEF GoesOn
    <2> QED BY <1>1, <2>2, <2>3, <2>5, <2>6 DEF Moves
  <1>7. CASE Cancel(t)
    <2>1. Done(t) \/ Drop(t)
      BY <1>7 DEF Cancel
    <2>2. UNCHANGED <<kb, bindings, mishap, raced>> /\ Op1(t).do = "cancel"
      BY <1>7 DEF Cancel, Does, store
    <2>3. PICK r \in Seq(FitOps) : Continue(t, r) /\ Follows(todo[t], r)
      BY <1>1, <2>1, <2>2, Advance DEF Makes
    <2>4. CASE tasks' = tasks
      BY <1>1, <2>2, <2>3, <2>4, SameGoOn DEF Moves
    <2>5. CASE tasks' # tasks
      <3>1. PICK id : id = snap[Op1(t).doc].task /\ id # 0 /\ tasks[id].phase = "queued"
                      /\ tasks' = [tasks EXCEPT ![id].phase = "canceled"]
        BY <1>7, <2>5 DEF Cancel
      <3>2. id \in 1..Len(tasks)
        <4>1. Op1(t).doc \in Docs
          BY <1>1, <2>2, OpShape
        <4>2. snap[Op1(t).doc].task \in Nat /\ snap[Op1(t).doc].task <= Len(tasks) /\ Len(tasks) \in Nat
          <5>1. snap[Op1(t).doc] \in SnapRec /\ Len(tasks) \in Nat
            BY <4>1, Shape
          <5>2. snap[Op1(t).doc].task <= Len(tasks) /\ MaxTasks \in Nat
            BY <4>1, SameStore
          <5> QED BY <5>1, <5>2 DEF SnapRec
        <4> QED BY <3>1, <4>2
      <3>3. /\ Len(tasks') = Len(tasks) /\ tasks'[id].phase = "canceled" /\ Len(tasks) \in Nat
            /\ \A i \in 1..Len(tasks) : /\ i # id => tasks'[i] = tasks[i]
                                        /\ tasks'[i].kind = tasks[i].kind
                                        /\ tasks'[i].algo = tasks[i].algo
        <4>1. PICK j \in 1..Len(tasks) : j = id
          BY <3>2
        <4>2. tasks' = [tasks EXCEPT ![j].phase = "canceled"] /\ "canceled" \in Phases
          BY <3>1, <4>1 DEF Phases
        <4>3. /\ Len(tasks') = Len(tasks) /\ tasks'[j].phase = "canceled"
              /\ \A i \in 1..Len(tasks) : /\ i # j => tasks'[i] = tasks[i]
                                          /\ tasks'[i].kind = tasks[i].kind
                                          /\ tasks'[i].algo = tasks[i].algo
          BY <4>2, PhaseTyped
        <4>4. Len(tasks) \in Nat
          BY Shape
        <4> QED BY <4>1, <4>3, <4>4
      <3>4. \A i \in 1..Len(tasks) : GoesOn(i)
        BY <3>1, <3>3 DEF GoesOn, Over
      <3>5. Len(tasks) <= Len(tasks') /\ \A i \in 1..Len(tasks') : ~(i > Len(tasks))
        BY <3>3
      <3> QED BY <1>1, <2>2, <2>3, <3>4, <3>5 DEF Moves
    <2> QED BY <2>4, <2>5
  <1>8. CASE Refuse(t)
    <2>1. /\ Drop(t) /\ UNCHANGED <<kb, bindings, tasks, mishap, raced>> /\ Op1(t).do = "refuse"
      BY <1>8 DEF Refuse, Does, store
    <2>2. PICK r \in Seq(FitOps) : Continue(t, r) /\ Follows(todo[t], r)
      BY <1>1, <2>1, Advance DEF Makes
    <2> QED BY <1>1, <2>1, <2>2, SameGoOn DEF Moves
  <1>9. CASE SetDeleting(t)
    <2>1. PICK r \in Seq(FitOps) : Continue(t, r) /\ Follows(todo[t], r)
      BY <1>1, <1>9, Advance DEF SetDeleting
    <2>2. kb' = None <=> kb = None
      BY <1>9 DEF SetDeleting, None
    <2>3. UNCHANGED <<bindings, tasks, mishap, raced>> /\ Op1(t).do = "setDeleting"
      BY <1>9 DEF SetDeleting, Does
    <2> QED BY <1>1, <2>1, <2>2, <2>3, SameGoOn DEF Moves
  <1>10. CASE Finalize(t)
    <2>1. PICK r \in Seq(FitOps) : Continue(t, r) /\ Follows(todo[t], r)
      BY <1>1, <1>10, Advance DEF Finalize
    <2>2. /\ UNCHANGED <<tasks, mishap, raced>> /\ Op1(t).do = "finalize"
          /\ kb' = None \/ UNCHANGED <<kb, bindings>>
      BY <1>10 DEF Finalize, Does
    <2> QED BY <1>1, <2>1, <2>2, SameGoOn DEF Moves
  <1>11. CASE CountLeft(t)
    <2>1. PICK r \in Seq(FitOps) : Continue(t, r) /\ Follows(todo[t], r)
      BY <1>1, <1>11, Advance
    <2>2. UNCHANGED <<kb, bindings, tasks, mishap, raced>> /\ Op1(t).do = "countLeft"
      BY <1>11 DEF CountLeft, Does, store
    <2> QED BY <1>1, <2>1, <2>2, SameGoOn DEF Moves
  <1>12. CASE RemoveBinding(t)
    <2>1. PICK r \in Seq(FitOps) : Continue(t, r) /\ Follows(todo[t], r)
      BY <1>1, <1>12, Advance DEF RemoveBinding
    <2>2. /\ UNCHANGED <<kb, tasks, mishap, raced>> /\ Op1(t).do = "removeBinding"
          /\ bindings' = bindings \ {Op1(t).algo}
      BY <1>12 DEF RemoveBinding, Does
    <2> QED BY <1>1, <2>1, <2>2, SameGoOn DEF Moves
  <1> QED BY <1>2, <1>3, <1>4, <1>5, <1>6, <1>7, <1>8, <1>9, <1>10, <1>11, <1>12 DEF Transaction

\* The handler of t goes on with r; the others stay where they are.
LEMMA MovesShape ==
  ASSUME Typed, NEW t \in Threads, NEW r \in Seq(FitOps), Moves(t, r)
  PROVE  /\ \A u \in Threads \ {t} : todo'[u] = todo[u] /\ serving'[u] = serving[u]
         /\ todo'[t] = r /\ serving'[t] = IF r = << >> THEN 0 ELSE serving[t]
         /\ todo[t] \in Seq(FitOps) /\ Len(todo[t]) \in Nat /\ Len(todo[t]) >= 1
         /\ DOMAIN todo[t] = 1..Len(todo[t]) /\ Op1(t) = todo[t][1] /\ todo[t] # << >>
         /\ Len(r) \in Nat /\ DOMAIN r = 1..Len(r) /\ (r # << >> => Len(r) >= 1)
  <1>1. todo[t] \in Seq(FitOps) /\ todo[t] # << >>
    BY Shape DEF Moves, Free
  <1> QED BY <1>1, ContinueTyped DEF Moves, Op1

\* What a handler unbinds, or makes, it had ahead before.
LEMMA FollowsFrom ==
  ASSUME Typed, NEW t \in Threads, NEW r \in Seq(FitOps), Moves(t, r), NEW j \in DOMAIN r
  PROVE  \E i \in DOMAIN todo[t] :
           /\ r[j].do \in Makes \cup {"finalize"} => todo[t][i].do = r[j].do
           /\ r[j].kind # None => todo[t][i].kind # None
           /\ Unbinds(r[j]) => Unbinds(todo[t][i]) /\ todo[t][i].algo = r[j].algo
           /\ r[j].do \in Leaves => todo[t][i].do \in Leaves /\ todo[t][i].algo = r[j].algo
  BY DEF Moves, Follows

LEMMA MovesHandled ==
  ASSUME Typed, Handled, NEW t \in Threads, NEW r \in Seq(FitOps), Moves(t, r)
  PROVE  Handled'
  <1>1. \A u \in Threads : serving[u] # 0 =>
          serving[u] \in 1..Len(tasks) /\ GoesOn(serving[u])
    BY Shape, SameStore DEF Moves
  <1>2. ASSUME NEW u \in Threads, u # t
        PROVE  /\ \/ \A i \in DOMAIN todo'[u] : todo'[u][i].do \in Makes
                  \/ \A i \in DOMAIN todo'[u] : todo'[u][i].do \notin Makes
               /\ serving'[u] # 0 /\ ~Free(u)' => Serves(todo'[u], tasks'[serving'[u]])
    <2>1. todo'[u] = todo[u] /\ serving'[u] = serving[u]
      BY <1>2, MovesShape
    <2> QED BY <1>1, <1>2, <2>1 DEF Handled, Serves, GoesOn, Free
  <1>3. \/ \A i \in DOMAIN r : r[i].do \in Makes
        \/ \A i \in DOMAIN r : r[i].do \notin Makes
    <2>1. CASE \A i \in DOMAIN todo[t] : todo[t][i].do \in Makes
      <3>1. r = Tail(todo[t])
        BY <2>1, MovesShape DEF Moves, Follows
      <3>2. \A i \in DOMAIN r : i + 1 \in DOMAIN todo[t] /\ r[i] = todo[t][i + 1]
        BY <3>1, MovesShape
      <3> QED BY <2>1, <3>2
    <2>2. CASE \A i \in DOMAIN todo[t] : todo[t][i].do \notin Makes
      BY <2>2, FollowsFrom
    <2> QED BY <2>1, <2>2 DEF Handled
  <1>4. ASSUME serving[t] # 0, r # << >> PROVE Serves(r, tasks'[serving[t]])
    <2> DEFINE task == tasks[serving[t]]
    <2>1. Serves(todo[t], task)
      BY <1>4, MovesShape DEF Handled, Free
    <2>2. tasks'[serving[t]].kind = task.kind /\ tasks'[serving[t]].algo = task.algo
      BY <1>1, <1>4 DEF GoesOn
    <2>3. \A i \in DOMAIN r : r[i].do \notin Makes /\ r[i].kind = None
      BY <2>1, FollowsFrom DEF Serves
    <2>4. \A i \in DOMAIN r : r[i].do \in Leaves => task.kind = "UNBIND" /\ r[i].algo = task.algo
      BY <2>1, FollowsFrom DEF Serves
    <2>5. task.kind = "PURGE" => r[Len(r)].do = "finalize"
      BY <1>4, <2>1 DEF Serves, Moves, Follows
    <2>6. task.kind = "UNBIND" => r[Len(r)].do \in Leaves
      BY <1>4, <2>1 DEF Serves, Moves, Follows
    <2> QED BY <2>2, <2>3, <2>4, <2>5, <2>6 DEF Serves
  <1>5. /\ \/ \A i \in DOMAIN todo'[t] : todo'[t][i].do \in Makes
           \/ \A i \in DOMAIN todo'[t] : todo'[t][i].do \notin Makes
        /\ serving'[t] # 0 /\ ~Free(t)' => Serves(todo'[t], tasks'[serving'[t]])
    BY <1>3, <1>4, MovesShape DEF Free
  <1> QED BY <1>2, <1>5 DEF Handled

LEMMA MovesRequests ==
  ASSUME Typed, OneRequest, NEW t \in Threads, NEW r \in Seq(FitOps), Moves(t, r)
  PROVE  OneRequest'
  <1>1. \A u \in Threads : Requesting(u)' => Requesting(u)
    BY MovesShape DEF Requesting, Free
  <1> QED BY <1>1 DEF OneRequest, Moves

\* Who makes a knowledge base is a request, the only one.
LEMMA MakerRequests ==
  ASSUME Handled, NEW t \in Threads, Ahead(t, "ensureKb") \/ Ahead(t, "bindAlgo"), Typed
  PROVE  Requesting(t) /\ \A i \in DOMAIN todo[t] : todo[t][i].do \in Makes
  <1>1. PICK i \in DOMAIN todo[t] : todo[t][i].do \in Makes
    BY DEF Ahead, Makes
  <1>2. todo[t] # << >>
    BY <1>1
  <1> QED BY <1>1, <1>2 DEF Handled, Serves, Requesting, Free

\* A knowledge base that is deleted is so by a task or handler that was there.
LEMMA MovesDoom ==
  ASSUME Typed, Typed', NEW t \in Threads, NEW r \in Seq(FitOps), Moves(t, r), Doomed',
         ~(Op1(t).do = "submit")
  PROVE  Doomed
  <1>1. CASE \E u \in Threads : \E i \in DOMAIN todo'[u] : todo'[u][i].do = "finalize"
    <2>1. PICK u \in Threads : \E i \in DOMAIN todo'[u] : todo'[u][i].do = "finalize"
      BY <1>1
    <2>2. \E j \in DOMAIN todo[u] : todo[u][j].do = "finalize"
      <3>1. CASE u = t
        <4>1. PICK k \in DOMAIN r : r[k].do = "finalize"
          BY <2>1, <3>1, MovesShape
        <4> QED BY <3>1, <4>1, FollowsFrom
      <3>2. CASE u # t
        BY <2>1, <3>2, MovesShape
      <3> QED BY <3>1, <3>2
    <2> QED BY <2>2 DEF Doomed
  <1>2. CASE \E i \in DOMAIN tasks' : tasks'[i].kind = "PURGE" /\ tasks'[i].phase # "gone"
    <2>1. DOMAIN tasks = 1..Len(tasks) /\ Len(tasks) \in Nat
      BY Shape
    <2>2. DOMAIN tasks' = 1..Len(tasks')
      BY DEF Typed, TypeOK
    <2>3. PICK i \in 1..Len(tasks') : tasks'[i].kind = "PURGE" /\ tasks'[i].phase # "gone"
      BY <1>2, <2>2
    <2>4. i \in 1..Len(tasks)
      BY <2>1, <2>3 DEF Moves
    <2> QED BY <2>1, <2>3, <2>4 DEF Doomed, Moves, GoesOn
  <1> QED BY <1>1, <1>2 DEF Doomed

LEMMA MovesFound ==
  ASSUME Typed, Typed', Handled, OneRequest, Founding, NEW t \in Threads, NEW r \in Seq(FitOps),
         Moves(t, r)
  PROVE  Founding'
  <1> SUFFICES ASSUME ~mishap', NEW u \in Threads, Ahead(u, "ensureKb")'
               PROVE  ~Doomed' /\ Founds(todo[u])'
    BY DEF Founding
  <1>1. ~mishap
    BY DEF Moves
  <1>2. Ahead(u, "ensureKb")
    <2>1. PICK i \in DOMAIN todo'[u] : todo'[u][i].do = "ensureKb"
      BY DEF Ahead
    <2>2. CASE u = t
      <3>1. i \in DOMAIN r /\ r[i].do \in Makes
        BY <2>1, <2>2, MovesShape DEF Makes
      <3>2. \E k \in DOMAIN todo[t] : todo[t][k].do = r[i].do
        BY <3>1, FollowsFrom
      <3>3. r[i].do = "ensureKb"
        BY <2>1, <2>2, MovesShape
      <3> QED BY <2>2, <3>2, <3>3 DEF Ahead
    <2>3. CASE u # t
      BY <2>1, <2>3, MovesShape DEF Ahead
    <2> QED BY <2>2, <2>3
  <1>3. /\ Requesting(u) /\ ~Doomed /\ Founds(todo[u])
        /\ \A i \in DOMAIN todo[u] : todo[u][i].do \in Makes
    BY <1>1, <1>2, MakerRequests DEF Founding
  <1>4. Op1(t).do # "submit"
    <2> SUFFICES ASSUME Op1(t).do = "submit" PROVE FALSE
      OBVIOUS
    <2>1. Op1(t).kind # None /\ 1 \in DOMAIN todo[t] /\ Op1(t) = todo[t][1] /\ ~Free(t)
      BY MovesShape, OpShape DEF Moves, Kinds, None
    <2>2. Requesting(t)
      BY <2>1 DEF Handled, Serves, Requesting
    <2>3. t = u
      BY <1>1, <1>3, <2>2 DEF OneRequest
    <2> QED BY <1>3, <2>1, <2>3 DEF Makes
  <1>5. ~Doomed'
    BY <1>3, <1>4, MovesDoom
  <1>6. Op1(t).do # "finalize"
    <2>1. 1 \in DOMAIN todo[t] /\ Op1(t) = todo[t][1]
      BY MovesShape
    <2> QED BY <1>3, <2>1 DEF Doomed
  <1>7. kb # None => kb' # None
    BY <1>6 DEF Moves
  <1>8. CASE u # t
    <2>1. todo'[u] = todo[u]
      BY <1>8, MovesShape
    <2> QED BY <1>3, <1>5, <1>7, <2>1 DEF Founds
  <1>9. CASE u = t
    <2>1. 1 \in DOMAIN todo[t] /\ Op1(t) = todo[t][1] /\ Op1(t).do \in Makes /\ r = Tail(todo[t])
      BY <1>3, <1>9, MovesShape DEF Moves, Follows
    <2>a. todo'[u] = r
      BY <1>9, MovesShape
    <2> SUFFICES ASSUME kb' = None, NEW i \in DOMAIN r, r[i].do = "ensureKb"
                 PROVE  \E j \in DOMAIN r : i < j /\ r[j].do = "bindAlgo"
      BY <1>5, <2>a DEF Founds
    <2>2. \A j \in 1..Len(r) : j + 1 \in DOMAIN todo[t] /\ r[j] = todo[t][j + 1] /\ j \in Nat
      BY <2>1, MovesShape
    <2>3. PICK j \in DOMAIN todo[t] : i + 1 < j /\ todo[t][j].do = "bindAlgo"
      BY <1>3, <1>7, <1>9, <2>2, MovesShape DEF Founds
    <2>4. j - 1 \in DOMAIN r /\ i < j - 1 /\ r[j - 1] = todo[t][j]
      BY <2>1, <2>3, MovesShape
    <2> QED BY <2>3, <2>4
  <1> QED BY <1>5, <1>8, <1>9

LEMMA UnbindingLoses ==
  ASSUME Typed
  PROVE  Unbinding <=> \E a \in Algos \cup {None} : Loses(a)
  <1>1. \A i \in DOMAIN tasks : tasks[i].algo \in Algos \cup {None}
    <2>1. \A i \in DOMAIN tasks : tasks[i] \in TaskRec
      BY Shape
    <2> QED BY <2>1 DEF TaskRec
  <1>2. \A t \in Threads : \A i \in DOMAIN todo[t] : todo[t][i].algo \in Algos \cup {None}
    <2>1. \A t \in Threads : \A i \in DOMAIN todo[t] : todo[t][i] \in FitOps
      BY Shape
    <2> QED BY <2>1 DEF FitOps, Op
  <1> QED BY <1>1, <1>2 DEF Unbinding, Loses

LEMMA LosesUnbinding ==
  ASSUME \A b : Loses(b)' => Loses(b)
  PROVE  Unbinding' => Unbinding
  <1>1. Unbinding' => \E b : Loses(b)'
    BY DEF Unbinding, Loses
  <1>2. ASSUME NEW b, Loses(b) PROVE Unbinding
    BY <1>2 DEF Unbinding, Loses
  <1> QED BY <1>1, <1>2

LEMMA MovesLose ==
  ASSUME Typed, Typed', NEW t \in Threads, NEW r \in Seq(FitOps), Moves(t, r), NEW a, Loses(a)'
  PROVE  Loses(a)
  <1>1. CASE \E u \in Threads : \E i \in DOMAIN todo'[u] :
               Unbinds(todo'[u][i]) /\ todo'[u][i].algo = a
    <2>1. PICK u \in Threads : \E i \in DOMAIN todo'[u] :
               Unbinds(todo'[u][i]) /\ todo'[u][i].algo = a
      BY <1>1
    <2>2. \E j \in DOMAIN todo[u] : Unbinds(todo[u][j]) /\ todo[u][j].algo = a
      <3>1. CASE u = t
        <4>1. PICK k \in DOMAIN r : Unbinds(r[k]) /\ r[k].algo = a
          BY <2>1, <3>1, MovesShape
        <4> QED BY <3>1, <4>1, FollowsFrom
      <3>2. CASE u # t
        BY <2>1, <3>2, MovesShape
      <3> QED BY <3>1, <3>2
    <2> QED BY <2>2 DEF Loses
  <1>2. CASE \E i \in DOMAIN tasks' : tasks'[i].kind = "UNBIND" /\ tasks'[i].phase \notin Over
                                      /\ tasks'[i].algo = a
    <2>1. DOMAIN tasks = 1..Len(tasks) /\ Len(tasks) \in Nat
      BY Shape
    <2>2. DOMAIN tasks' = 1..Len(tasks')
      BY DEF Typed, TypeOK
    <2>3. PICK i \in 1..Len(tasks') : tasks'[i].kind = "UNBIND" /\ tasks'[i].phase \notin Over
                                      /\ tasks'[i].algo = a
      BY <1>2, <2>2
    <2>4. CASE i \in 1..Len(tasks)
      BY <2>1, <2>3, <2>4 DEF Loses, Moves, GoesOn, Over
    <2>5. CASE i \notin 1..Len(tasks)
      <3>1. i > Len(tasks)
        BY <2>1, <2>5
      <3>2. Op1(t).kind = "UNBIND" /\ Op1(t).algo = a
        BY <2>3, <3>1 DEF Moves
      <3>3. 1 \in DOMAIN todo[t] /\ Unbinds(todo[t][1]) /\ todo[t][1].algo = a
        BY <3>2, MovesShape DEF Unbinds
      <3> QED BY <3>3 DEF Loses
    <2> QED BY <2>4, <2>5
  <1> QED BY <1>1, <1>2 DEF Loses, Over

LEMMA MovesSpare ==
  ASSUME Typed, Typed', Kept, NEW t \in Threads, NEW r \in Seq(FitOps), Moves(t, r)
  PROVE  Spared'
  <1> SUFFICES ASSUME ~mishap', ~raced'
               PROVE  /\ Binding' => ~Unbinding'
                      /\ \E a \in Algos \cup {None} :
                           /\ \A b \in Algos \cup {None} : Loses(b)' => b = a
                           /\ kb' = None \/ Binding' \/ bindings' \ {a} # {}
    BY DEF Spared
  <1>1. ~mishap /\ ~raced
    BY DEF Moves
  <1>2. PICK a \in Algos \cup {None} :
          /\ \A b \in Algos \cup {None} : Loses(b) => b = a
          /\ kb = None \/ Binding \/ bindings \ {a} # {}
    BY <1>1 DEF Kept, Spared
  <1>3. \A b : Loses(b)' => Loses(b)
    BY MovesLose
  <1>4. Unbinding' => Unbinding
    BY <1>3, LosesUnbinding
  <1>5. Binding' => Binding
    <2> SUFFICES ASSUME NEW u \in Threads, NEW i \in DOMAIN todo'[u], todo'[u][i].do = "bindAlgo"
                 PROVE  Ahead(u, "bindAlgo")
      BY DEF Binding, Ahead
    <2>1. CASE u # t
      BY <2>1, MovesShape DEF Ahead
    <2>2. CASE u = t
      <3>1. i \in DOMAIN r /\ r[i].do = "bindAlgo"
        BY <2>2, MovesShape
      <3>2. PICK j \in DOMAIN todo[t] : r[i].do \in Makes \cup {"finalize"} => todo[t][j].do = r[i].do
        BY <3>1, FollowsFrom
      <3> QED BY <2>2, <3>1, <3>2 DEF Ahead, Makes
    <2> QED BY <2>1, <2>2
  <1>6. Binding' => ~Unbinding'
    BY <1>1, <1>4, <1>5 DEF Kept, Spared
  <1>7. 1 \in DOMAIN todo[t] /\ Op1(t) = todo[t][1] /\ todo[t][1] \in FitOps
    BY MovesShape
  <1>8. CASE Op1(t).do = "bindAlgo"
    <2>1. Binding
      BY <1>7, <1>8 DEF Binding, Ahead
    <2>2. ~Unbinding
      BY <1>1, <2>1 DEF Kept, Spared
    <2>3. \A b \in Algos \cup {None} : ~Loses(b)'
      BY <1>3, <2>2, UnbindingLoses
    <2>4. Op1(t).algo \in bindings' /\ Op1(t).algo # None
      BY <1>7, <1>8, KbAssumption DEF Moves, FitOps
    <2> QED BY <1>6, <2>3, <2>4
  <1>9. CASE Op1(t).do = "removeBinding"
    <2>1. Unbinds(todo[t][1])
      BY <1>7, <1>9 DEF Unbinds
    <2>2. Op1(t).algo \in Algos \cup {None} /\ Loses(Op1(t).algo)
      BY <1>7, <2>1 DEF FitOps, Op, Loses
    <2>3. Op1(t).algo = a /\ Unbinding
      BY <1>2, <2>2, UnbindingLoses
    <2>4. ~Binding
      BY <1>1, <2>3 DEF Kept, Spared
    <2>5. bindings' = bindings \ {a} /\ (kb = None => kb' = None)
      BY <1>9, <2>3 DEF Moves
    <2> QED BY <1>2, <1>3, <1>6, <2>4, <2>5
  <1>10. CASE Op1(t).do \notin {"bindAlgo", "removeBinding"}
    <2>1. bindings' = bindings \/ kb' = None
      BY <1>10 DEF Moves
    <2>2. Binding => Binding'
      <3> SUFFICES ASSUME NEW u \in Threads, NEW i \in DOMAIN todo[u], todo[u][i].do = "bindAlgo"
                   PROVE  \E j \in DOMAIN todo'[u] : todo'[u][j].do = "bindAlgo"
        BY DEF Binding, Ahead
      <3>1. CASE u # t
        BY <3>1, MovesShape
      <3>2. CASE u = t
        <4>1. \A j \in DOMAIN todo[t] : todo[t][j].do \in Makes
          BY <3>2 DEF Kept, Handled, Makes
        <4>2. r = Tail(todo[t])
          BY <1>7, <4>1 DEF Moves, Follows
        <4>3. i # 1 /\ i \in 1..Len(todo[t])
          BY <1>7, <1>10, <3>2, MovesShape
        <4>4. i - 1 \in DOMAIN r /\ r[i - 1] = todo[t][i]
          BY <4>2, <4>3, MovesShape
        <4> QED BY <3>2, <4>4, MovesShape
      <3> QED BY <3>1, <3>2
    <2>3. kb = None => kb' = None \/ Binding'
      <3> SUFFICES ASSUME kb = None, kb' # None PROVE Binding'
        OBVIOUS
      <3>1. Op1(t).do = "ensureKb" /\ Ahead(t, "ensureKb")
        BY <1>7 DEF Moves, Ahead
      <3>2. \E j \in DOMAIN todo[t] : todo[t][j].do = "bindAlgo"
        BY <1>1, <1>7, <3>1 DEF Kept, Founding, Founds
      <3>3. Binding
        BY <3>2 DEF Binding, Ahead
      <3> QED BY <2>2, <3>3
    <2> QED BY <1>2, <1>3, <1>6, <2>1, <2>2, <2>3
  <1> QED BY <1>8, <1>9, <1>10

LEMMA MovesKeep ==
  ASSUME Typed, Typed', Kept, NEW t \in Threads, Transaction(t)
  PROVE  Kept'
  <1>1. PICK r \in Seq(FitOps) : Moves(t, r)
    BY TransactionMoves
  <1> QED BY <1>1, MovesHandled, MovesRequests, MovesFound, MovesSpare DEF Kept

-----------------------------------------------------------------------------
(* What a request begins with.                                             *)

\* The transactions of a request: they make a knowledge base, or they do not and
\* unbind at most one algorithm of several.
Sound(ops) ==
  \/ /\ \A i \in DOMAIN ops : ops[i].do \in Makes /\ ops[i].kind = None
     /\ Founds(ops) /\ (Doomed => mishap')
  \/ \A i \in DOMAIN ops : ops[i].do \notin Makes /\ ~Unbinds(ops[i])
  \/ \E a \in Algos :
       /\ \A i \in DOMAIN ops : ops[i].do \notin Makes /\ (Unbinds(ops[i]) => ops[i].algo = a)
       /\ \E b \in bindings : b # a

LEMMA DoShape ==
  /\ \A step : Do(step).do = step /\ Do(step).kind = None
  /\ \A step, d : DoDoc(step, d).do = step /\ DoDoc(step, d).kind = None
  /\ \A step, a : DoAlgo(step, a).do = step /\ DoAlgo(step, a).kind = None /\ DoAlgo(step, a).algo = a
  /\ \A kind, d, a : /\ DoSubmit(kind, d, a).do = "submit" /\ DoSubmit(kind, d, a).kind = kind
                     /\ DoSubmit(kind, d, a).algo = a
  BY DEF Do, DoDoc, DoAlgo, DoSubmit

\* The elements of a request that goes through a set.
LEMMA OrderRange ==
  ASSUME NEW ops, IsFiniteSet(ops), NEW q \in Orders(ops)
  PROVE  /\ \A i \in DOMAIN q : q[i] \in ops
         /\ Len(q) \in Nat /\ DOMAIN q = 1..Len(q) /\ q \in Seq(ops)
  <1>1. Cardinality(ops) \in Nat
    BY FS_CardinalityType
  <1>2. q \in [1..Cardinality(ops) -> ops]
    BY DEF Orders
  <1>3. q \in Seq(ops)
    BY <1>1, <1>2
  <1> QED BY <1>2, <1>3

LEMMA RequestSound ==
  ASSUME Typed, NEW t \in Threads, Request(t)
  PROVE  \E ops \in Seq(FitOps) : /\ Admit(t, ops) /\ Sound(ops) /\ mishap' \in BOOLEAN
                                  /\ mishap \/ Meanwhile => mishap'
  <1>0. mishap \in BOOLEAN /\ bindings \subseteq Algos /\ rel \subseteq Docs
    BY SameStore
  <1>1. ASSUME NEW a \in Algos, Create(t, a)
        PROVE  \E ops \in Seq(FitOps) : /\ Admit(t, ops) /\ Sound(ops) /\ mishap' \in BOOLEAN
                                        /\ mishap \/ Meanwhile => mishap'
    <2> DEFINE o == Do("ensureKb")
               p == DoAlgo("bindAlgo", a)
    <2>1. /\ o \in FitOps /\ o.do = "ensureKb" /\ o.kind = None
          /\ p \in FitOps /\ p.do = "bindAlgo" /\ p.kind = None
      BY DoFits, DoAlgoFits, DoShape
    <2>2. Admit(t, <<o, p>>) /\ mishap' = (mishap \/ Meanwhile \/ Doomed)
      BY <1>1 DEF Create
    <2> HIDE DEF o, p
    <2>3. /\ <<o, p>> \in Seq(FitOps) /\ DOMAIN <<o, p>> = {1, 2}
          /\ <<o, p>>[1] = o /\ <<o, p>>[2] = p
      BY <2>1
    <2>4. Founds(<<o, p>>)
      BY <2>1, <2>3 DEF Founds
    <2>5. Sound(<<o, p>>)
      BY <2>1, <2>2, <2>3, <2>4 DEF Sound, Makes
    <2> QED BY <1>0, <2>2, <2>3, <2>5
  <1>2. ASSUME NEW a \in Algos \cup {None}, Update(t, a)
        PROVE  \E ops \in Seq(FitOps) : /\ Admit(t, ops) /\ Sound(ops) /\ mishap' \in BOOLEAN
                                        /\ mishap \/ Meanwhile => mishap'
    <2> DEFINE o == Do("ensureKb")
               p == DoAlgo("bindAlgo", a)
    <2>1. /\ o \in FitOps /\ o.do = "ensureKb" /\ o.kind = None
          /\ p.do = "bindAlgo" /\ p.kind = None
      BY DoFits, DoShape
    <2>2. a # None => p \in FitOps
      BY DoAlgoFits
    <2>3. /\ kb # None /\ mishap' = (mishap \/ Meanwhile \/ Doomed)
          /\ Admit(t, (IF a = None THEN << >> ELSE <<p>>) \o <<o>>)
      BY <1>2 DEF Update
    <2> HIDE DEF o, p
    <2>4. \A ops : Founds(ops)
      BY <2>3 DEF Founds
    <2>5. CASE a = None
      <3>1. << >> \o <<o>> = <<o>> /\ <<o>> \in Seq(FitOps) /\ DOMAIN <<o>> = {1} /\ <<o>>[1] = o
        BY <2>1
      <3>2. Sound(<<o>>)
        BY <2>1, <2>3, <2>4, <3>1 DEF Sound, Makes
      <3> QED BY <1>0, <2>3, <2>5, <3>1, <3>2
    <2>6. CASE a # None
      <3> DEFINE w == <<p>> \o <<o>>
      <3>1. p \in FitOps /\ o \in FitOps
        BY <2>1, <2>2, <2>6
      <3>2. w \in Seq(FitOps) /\ DOMAIN w = 1..2 /\ w[1] = p /\ w[2] = o
        BY <3>1
      <3> HIDE DEF w
      <3>3. \A i \in DOMAIN w : w[i] = p \/ w[i] = o
        BY <3>2
      <3>4. Sound(w)
        BY <2>1, <2>3, <2>4, <3>3 DEF Sound, Makes
      <3> QED BY <1>0, <2>3, <2>6, <3>2, <3>4 DEF w
    <2> QED BY <2>5, <2>6
  <1>3. ASSUME NEW d \in Docs, Upload(t, d)
        PROVE  \E ops \in Seq(FitOps) : /\ Admit(t, ops) /\ Sound(ops) /\ mishap' \in BOOLEAN
                                        /\ mishap \/ Meanwhile => mishap'
    <2> DEFINE o == DoDoc("bindDoc", d)
               p == DoSubmit("ADD", d, None)
    <2>1. o \in FitOps /\ p \in FitOps
      BY DoDocFits, DoSubmitFits DEF Kinds
    <2>2. /\ o.do = "bindDoc" /\ p.do = "submit" /\ ~Unbinds(o) /\ ~Unbinds(p)
      BY DoShape DEF Unbinds, None
    <2>3. Admit(t, <<o, p>>) /\ mishap' = (mishap \/ Meanwhile \/ Doomed \/ Touched(d))
      BY <1>3 DEF Upload
    <2> HIDE DEF o, p
    <2>4. /\ <<o, p>> \in Seq(FitOps) /\ DOMAIN <<o, p>> = {1, 2}
          /\ <<o, p>>[1] = o /\ <<o, p>>[2] = p
      BY <2>1
    <2>5. Sound(<<o, p>>)
      BY <2>2, <2>4 DEF Sound, Makes
    <2> QED BY <1>0, <2>3, <2>4, <2>5
  <1>4. ASSUME NEW d \in Docs, Delete(t, d)
        PROVE  \E ops \in Seq(FitOps) : /\ Admit(t, ops) /\ Sound(ops) /\ mishap' \in BOOLEAN
                                        /\ mishap \/ Meanwhile => mishap'
    <2>1. PICK o : /\ Admit(t, <<o>>) /\ mishap' = (mishap \/ Meanwhile)
                   /\ o \in {DoDoc("cancel", d), DoSubmit("DELETE", d, None)}
      BY <1>4 DEF Delete, Polite
    <2>2. o \in FitOps
      BY <2>1, DoDocFits, DoSubmitFits DEF Kinds
    <2>3. o.do \in {"cancel", "submit"} /\ ~Unbinds(o)
      BY <2>1, DoShape DEF Unbinds, None
    <2>4. <<o>> \in Seq(FitOps) /\ DOMAIN <<o>> = {1} /\ <<o>>[1] = o
      BY <2>2
    <2>5. Sound(<<o>>)
      BY <2>3, <2>4 DEF Sound, Makes
    <2> QED BY <1>0, <2>1, <2>4, <2>5
  <1>5. CASE DeleteKb(t)
    <2> DEFINE Items(clean, rest) ==
          {DoDoc("purge", d) : d \in clean}
          \cup {DoSubmit("PURGE", p[1], p[2]) : p \in rest \X bindings}
    <2>1. PICK clean \in SUBSET Docs, rest \in SUBSET Docs :
            /\ \E q \in Orders(Items(clean, rest)) :
                 Admit(t, Append(q, DeleteKbTail(Items(clean, rest))))
            /\ mishap' \in BOOLEAN /\ (mishap \/ Meanwhile => mishap')
      <3> DEFINE C == {d \in rel : snap[d].status \in {None, "DELETED"}}
      <3>1. C \in SUBSET Docs /\ rel \ C \in SUBSET Docs
        BY <1>0
      <3>2. \E q \in Orders(Items(C, rel \ C)) : Admit(t, Append(q, DeleteKbTail(Items(C, rel \ C))))
        BY <1>5 DEF DeleteKb
      <3>3. mishap' \in BOOLEAN /\ (mishap \/ Meanwhile => mishap')
        BY <1>0, <1>5 DEF DeleteKb
      <3> QED BY <3>1, <3>2, <3>3
    <2> DEFINE items == Items(clean, rest)
               end == DeleteKbTail(items)
    <2>2. PICK q \in Orders(items) : Admit(t, Append(q, end))
      BY <2>1
    <2>3. IsFiniteSet(items) /\ items \subseteq FitOps
      <3>1. bindings \in SUBSET Algos
        BY <1>0
      <3> QED BY <3>1, ItemsFit
    <2>4. \A o \in items : o.do \in {"purge", "submit"} /\ ~Unbinds(o)
      BY DoShape DEF Unbinds, None
    <2>5. end \in FitOps /\ end.do \in {"setDeleting", "finalize"} /\ ~Unbinds(end)
      BY DoFits, DoShape DEF DeleteKbTail, Unbinds, None
    <2> HIDE DEF items, end
    <2>6. q \in Seq(FitOps) /\ Len(q) \in Nat /\ DOMAIN q = 1..Len(q) /\ \A i \in DOMAIN q : q[i] \in items
      BY <2>3, OrderRange, OrderFits
    <2>7. /\ Append(q, end) \in Seq(FitOps) /\ DOMAIN Append(q, end) = 1..(Len(q) + 1)
          /\ Append(q, end)[Len(q) + 1] = end
          /\ \A i \in 1..Len(q) : Append(q, end)[i] = q[i]
      BY <2>5, <2>6
    <2>8. \A i \in DOMAIN Append(q, end) : Append(q, end)[i] \in items \cup {end}
      BY <2>6, <2>7
    <2>9. Sound(Append(q, end))
      BY <2>4, <2>5, <2>8 DEF Sound, Makes
    <2> QED BY <2>1, <2>2, <2>7, <2>9
  <1>6. ASSUME NEW a \in Algos, Unbind(t, a)
        PROVE  \E ops \in Seq(FitOps) : /\ Admit(t, ops) /\ Sound(ops) /\ mishap' \in BOOLEAN
                                        /\ mishap \/ Meanwhile => mishap'
    <2> DEFINE affected == {d \in rel : snap[d].status \notin {None, "DELETED", "DELETING"}}
               items == {UnbindOp(d, a) : d \in affected}
    <2>1. \E b \in bindings : b # a
      <3> SUFFICES ASSUME bindings \subseteq {a} PROVE FALSE
        OBVIOUS
      <3>1. IsFiniteSet({a}) /\ Cardinality({a}) = 1
        BY FS_Singleton
      <3>2. Cardinality(bindings) <= 1 /\ Cardinality(bindings) \in Nat
        BY <3>1, FS_Subset, FS_CardinalityType
      <3> QED BY <1>6, <3>2 DEF Unbind
    <2>2. mishap' = (mishap \/ Meanwhile)
      BY <1>6 DEF Unbind, Polite
    <2>3. CASE Admit(t, <<DoAlgo("removeBinding", a)>>)
      <3> DEFINE o == DoAlgo("removeBinding", a)
      <3>1. o \in FitOps /\ o.do = "removeBinding" /\ o.algo = a
        BY DoAlgoFits, DoShape
      <3> HIDE DEF o
      <3>2. <<o>> \in Seq(FitOps) /\ DOMAIN <<o>> = {1} /\ <<o>>[1] = o
        BY <3>1
      <3>3. Sound(<<o>>)
        BY <2>1, <3>1, <3>2 DEF Sound, Makes
      <3> QED BY <1>0, <2>2, <2>3, <3>2, <3>3 DEF o
    <2>4. ASSUME NEW q \in Orders(items), Admit(t, q)
          PROVE  \E ops \in Seq(FitOps) : /\ Admit(t, ops) /\ Sound(ops) /\ mishap' \in BOOLEAN
                                          /\ mishap \/ Meanwhile => mishap'
      <3>1. affected \in SUBSET Docs
        BY <1>0
      <3>2. \A d \in Docs : UnbindOp(d, a) \in FitOps
        BY DoFits, DoSubmitFits DEF UnbindOp, Kinds
      <3>3. \A d \in Docs : /\ UnbindOp(d, a).do \in {"refuse", "cancel", "submit"}
                            /\ Unbinds(UnbindOp(d, a)) => UnbindOp(d, a).algo = a
        <4>1. Do("refuse").do = "refuse" /\ ~Unbinds(Do("refuse"))
          BY DoShape DEF Unbinds, None
        <4>2. \A d : LET o == [DoSubmit("UNBIND", d, a) EXCEPT !.do = "cancel"]
                     IN  o.do = "cancel" /\ o.algo = a
          BY DEF DoSubmit
        <4> QED BY <4>1, <4>2, DoShape DEF UnbindOp
      <3>4. IsFiniteSet(items) /\ items \subseteq FitOps
        BY <3>1, <3>2, FiniteUnbinds
      <3>5. \A o \in items : o.do \in {"refuse", "cancel", "submit"} /\ (Unbinds(o) => o.algo = a)
        BY <3>1, <3>3
      <3> HIDE DEF items
      <3>6. q \in Seq(FitOps) /\ \A i \in DOMAIN q : q[i] \in items
        BY <2>4, <3>4, OrderRange, OrderFits
      <3>7. Sound(q)
        BY <2>1, <3>5, <3>6 DEF Sound, Makes
      <3> QED BY <1>0, <2>2, <2>4, <3>6, <3>7
    <2> QED BY <1>6, <2>3, <2>4 DEF Unbind
  <1> QED BY <1>1, <1>2, <1>3, <1>4, <1>5, <1>6 DEF Request

LEMMA AdmitShape ==
  ASSUME Typed, NEW t \in Threads, NEW ops \in Seq(FitOps), Admit(t, ops)
  PROVE  /\ Free(t) /\ todo'[t] = ops /\ serving'[t] = 0
         /\ \A u \in Threads \ {t} : todo'[u] = todo[u] /\ serving'[u] = serving[u]
         /\ UNCHANGED <<kb, bindings, tasks>>
         /\ ~raced' => ~raced
         /\ ~raced' /\ Unbinding =>
              \A i \in DOMAIN ops : ~Unbinds(ops[i]) /\ ops[i].do # "bindAlgo"
  BY Shape DEF Admit, store

LEMMA RequestKeeps ==
  ASSUME Typed, Typed', Kept, NEW t \in Threads, Request(t)
  PROVE  Kept'
  <1>1. PICK ops \in Seq(FitOps) : /\ Admit(t, ops) /\ Sound(ops) /\ mishap' \in BOOLEAN
                                   /\ mishap \/ Meanwhile => mishap'
    BY RequestSound
  <1>2. /\ todo[t] = << >> /\ todo'[t] = ops /\ serving'[t] = 0
        /\ \A u \in Threads \ {t} : todo'[u] = todo[u] /\ serving'[u] = serving[u]
        /\ UNCHANGED <<kb, bindings, tasks>>
    BY <1>1, AdmitShape DEF Free
  <1>3. ~mishap' => ~mishap /\ \A u \in Threads : ~Requesting(u)
    BY <1>1 DEF Meanwhile
  <1>4. ~mishap' => \A u \in Threads : ~Ahead(u, "ensureKb") /\ ~Ahead(u, "bindAlgo")
    BY <1>3, MakerRequests DEF Kept
  <1>5. Handled'
    <2>1. \/ \A i \in DOMAIN ops : ops[i].do \in Makes
          \/ \A i \in DOMAIN ops : ops[i].do \notin Makes
      BY <1>1 DEF Sound
    <2>2. ASSUME NEW u \in Threads
          PROVE  /\ \/ \A i \in DOMAIN todo'[u] : todo'[u][i].do \in Makes
                    \/ \A i \in DOMAIN todo'[u] : todo'[u][i].do \notin Makes
                 /\ serving'[u] # 0 /\ ~Free(u)' => Serves(todo'[u], tasks'[serving'[u]])
      <3>1. CASE u = t
        BY <1>2, <2>1, <3>1
      <3>2. CASE u # t
        BY <1>2, <3>2 DEF Kept, Handled, Serves, Free
      <3> QED BY <3>1, <3>2
    <2> QED BY <2>2 DEF Handled
  <1>6. OneRequest'
    <2>1. \A u \in Threads \ {t} : Requesting(u)' => Requesting(u)
      BY <1>2 DEF Requesting, Free
    <2> QED BY <1>3, <2>1 DEF OneRequest
  <1>7. Founding'
    <2> SUFFICES ASSUME ~mishap', NEW u \in Threads, Ahead(u, "ensureKb")'
                 PROVE  ~Doomed' /\ Founds(todo[u])'
      BY DEF Founding
    <2>1. u = t
      BY <1>2, <1>4 DEF Ahead
    <2>2. \E i \in DOMAIN ops : ops[i].do = "ensureKb"
      BY <1>2, <2>1 DEF Ahead
    <2>3. Founds(ops) /\ ~Doomed /\ \A i \in DOMAIN ops : ops[i].do \in Makes
      BY <1>1, <2>2 DEF Sound, Makes
    <2>4. \A i \in DOMAIN ops : ops[i].do # "finalize"
      BY <2>3 DEF Makes
    <2>5. ~Doomed'
      <3>1. \A v \in Threads : \A i \in DOMAIN todo'[v] : todo'[v][i].do # "finalize"
        BY <1>2, <2>3, <2>4 DEF Doomed
      <3> QED BY <1>2, <2>3, <3>1 DEF Doomed
    <2>6. Founds(todo[u])'
      <3>1. todo'[u] = ops
        BY <1>2, <2>1
      <3> QED BY <1>2, <2>3, <3>1 DEF Founds
    <2> QED BY <2>5, <2>6
  <1>8. Spared'
    <2> SUFFICES ASSUME ~mishap', ~raced'
                 PROVE  /\ Binding' => ~Unbinding'
                        /\ \E a \in Algos \cup {None} :
                             /\ \A b \in Algos \cup {None} : Loses(b)' => b = a
                             /\ kb' = None \/ Binding' \/ bindings' \ {a} # {}
      BY DEF Spared
    <2>1. ~mishap /\ ~raced /\ ~Binding
      BY <1>1, <1>3, <1>4, AdmitShape DEF Binding
    <2>2. PICK a \in Algos \cup {None} :
            /\ \A b \in Algos \cup {None} : Loses(b) => b = a
            /\ kb = None \/ bindings \ {a} # {}
      BY <2>1 DEF Kept, Spared
    <2>3. ASSUME NEW b, Loses(b)'
          PROVE  Loses(b) \/ \E i \in DOMAIN ops : Unbinds(ops[i]) /\ ops[i].algo = b
      <3>1. CASE \E u \in Threads : \E i \in DOMAIN todo'[u] :
                   Unbinds(todo'[u][i]) /\ todo'[u][i].algo = b
        BY <1>2, <3>1 DEF Loses
      <3>2. CASE \E i \in DOMAIN tasks' : tasks'[i].kind = "UNBIND" /\ tasks'[i].phase \notin Over
                                          /\ tasks'[i].algo = b
        BY <1>2, <3>2 DEF Loses, Over
      <3> QED BY <2>3, <3>1, <3>2 DEF Loses, Over
    <2>4. CASE \A i \in DOMAIN ops : ~Unbinds(ops[i])
      <3>1. \A b : Loses(b)' => Loses(b)
        BY <2>3, <2>4
      <3>2. Unbinding' => Unbinding
        BY <3>1, LosesUnbinding
      <3>3. Binding' => \E i \in DOMAIN ops : ops[i].do = "bindAlgo"
        BY <1>2, <2>1 DEF Binding, Ahead
      <3>4. Binding' => ~Unbinding'
        BY <1>1, <3>2, <3>3, AdmitShape
      <3> QED BY <1>2, <2>2, <3>1, <3>4
    <2>5. CASE \E i \in DOMAIN ops : Unbinds(ops[i])
      <3>1. ~Unbinding
        BY <1>1, <2>5, AdmitShape
      <3>2. PICK e \in Algos :
              /\ \A i \in DOMAIN ops : ops[i].do \notin Makes /\ (Unbinds(ops[i]) => ops[i].algo = e)
              /\ \E b \in bindings : b # e
        <4>1. \A i \in DOMAIN ops : Unbinds(ops[i]) => ~(ops[i].do \in Makes /\ ops[i].kind = None)
          BY DEF Unbinds, Makes, None
        <4> QED BY <1>1, <2>5, <4>1 DEF Sound
      <3>3. ~Binding'
        <4>1. \A i \in DOMAIN ops : ops[i].do # "bindAlgo"
          BY <3>2 DEF Makes
        <4> QED BY <1>2, <2>1, <4>1 DEF Binding, Ahead
      <3>4. \A b \in Algos \cup {None} : Loses(b)' => b = e
        BY <2>3, <3>1, <3>2, UnbindingLoses
      <3>5. bindings' \ {e} # {}
        BY <1>2, <3>2
      <3> QED BY <3>3, <3>4, <3>5
    <2> QED BY <2>4, <2>5
  <1> QED BY <1>5, <1>6, <1>7, <1>8 DEF Kept

-----------------------------------------------------------------------------
(* Callbacks and troubles.                                                 *)

\* Steps of which nothing new is bound, unbound or deleted.
LEMMA QuietKeeps ==
  ASSUME Typed, Kept, Handled', mishap => mishap', raced' = raced, UNCHANGED <<kb, bindings>>,
         ~mishap' => \A u \in Threads : Requesting(u) \/ Requesting(u)' => todo'[u] = todo[u],
         ~mishap' => \A u \in Threads : Requesting(u)' <=> Requesting(u),
         Typed', ~mishap' /\ Doomed' => Doomed, \A b : ~mishap' /\ Loses(b)' => Loses(b)
  PROVE  Kept'
  <1>1. OneRequest'
    BY DEF Kept, OneRequest
  <1>2. CASE mishap'
    BY <1>1, <1>2 DEF Kept, Founding, Spared
  <1>3. CASE ~mishap'
    <2>1. ASSUME NEW u \in Threads, NEW i \in DOMAIN todo'[u], todo'[u][i].do \in Makes
          PROVE  todo'[u] = todo[u]
      <3>1. todo'[u] # << >>
        BY <2>1
      <3>2. Requesting(u)'
        BY <2>1, <3>1 DEF Handled, Serves, Requesting, Free
      <3> QED BY <1>3, <3>2
    <2>2. ASSUME NEW u \in Threads, NEW i \in DOMAIN todo[u], todo[u][i].do \in Makes
          PROVE  todo'[u] = todo[u]
      <3>1. todo[u] # << >>
        BY <2>2
      <3>2. Requesting(u)
        BY <2>2, <3>1 DEF Kept, Handled, Serves, Requesting, Free
      <3> QED BY <1>3, <3>2
    <2>3. Binding' <=> Binding
      BY <2>1, <2>2 DEF Binding, Ahead, Makes
    <2>4. Unbinding' => Unbinding
      BY <1>3, LosesUnbinding
    <2>5. Spared'
      BY <1>3, <2>3, <2>4 DEF Kept, Spared
    <2>6. Founding'
      <3> SUFFICES ASSUME NEW u \in Threads, Ahead(u, "ensureKb")'
                   PROVE  ~Doomed' /\ Founds(todo[u])'
        BY DEF Founding
      <3>1. todo'[u] = todo[u] /\ Ahead(u, "ensureKb")
        BY <2>1 DEF Ahead, Makes
      <3>2. ~Doomed /\ Founds(todo[u])
        BY <1>3, <3>1 DEF Kept, Founding
      <3> QED BY <1>3, <3>1, <3>2 DEF Founds
    <2> QED BY <1>1, <2>5, <2>6 DEF Kept
  <1> QED BY <1>2, <1>3

LEMMA StartedKeeps ==
  ASSUME Typed, Typed', Kept, NEW id \in 1..Len(tasks), Started(id)
  PROVE  Kept'
  <1>1. /\ tasks[id].phase = "queued" /\ tasks' = [tasks EXCEPT ![id].phase = "working"]
        /\ UNCHANGED <<kb, bindings, todo, serving, mishap, raced>>
    BY DEF Started, store
  <1>2. /\ Len(tasks') = Len(tasks) /\ DOMAIN tasks' = 1..Len(tasks) /\ DOMAIN tasks = 1..Len(tasks)
        /\ \A i \in 1..Len(tasks) : GoesOn(i)
    <2>1. /\ Len(tasks') = Len(tasks) /\ tasks'[id].phase = "working"
          /\ \A i \in 1..Len(tasks) : /\ i # id => tasks'[i] = tasks[i]
                                      /\ tasks'[i].kind = tasks[i].kind
                                      /\ tasks'[i].algo = tasks[i].algo
      BY <1>1, PhaseTyped DEF Phases
    <2>2. DOMAIN tasks = 1..Len(tasks) /\ Len(tasks) \in Nat
      BY Shape
    <2>3. DOMAIN tasks' = DOMAIN tasks
      BY <1>1
    <2>4. \A i \in 1..Len(tasks) : GoesOn(i)
      BY <1>1, <2>1 DEF GoesOn, Over
    <2> QED BY <2>1, <2>2, <2>3, <2>4
  <1>3. Doomed' => Doomed
    BY <1>1, <1>2 DEF Doomed, GoesOn
  <1>4. \A b : Loses(b)' => Loses(b)
    BY <1>1, <1>2 DEF Loses, GoesOn, Over
  <1>5. Handled'
    <2>1. \A u \in Threads : serving[u] # 0 => serving[u] \in 1..Len(tasks) /\ GoesOn(serving[u])
      BY <1>2, Shape, SameStore
    <2> QED BY <1>1, <2>1 DEF Kept, Handled, Serves, GoesOn, Free
  <1> QED BY <1>1, <1>3, <1>4, <1>5, QuietKeeps DEF Requesting, Free

LEMMA CleanupServes ==
  ASSUME Typed, NEW id \in 1..Len(tasks), Cleanup(id) # << >>
  PROVE  Serves(Cleanup(id), tasks[id]) /\ tasks[id].kind # "ADD"
  <1> DEFINE d == tasks[id].doc
             a == tasks[id].algo
             o == DoDoc("removeDoc", d)
             p == DoDoc("purge", d)
             f == Do("finalize")
             s == DoDoc("dropSnap", d)
             c == DoAlgo("countLeft", a)
  <1>1. tasks[id].kind \in Kinds
    <2>1. tasks[id] \in TaskRec
      BY Shape
    <2> QED BY <2>1 DEF TaskRec
  <1>2. CASE tasks[id].kind = "ADD"
    BY <1>2 DEF Cleanup
  <1>3. CASE tasks[id].kind = "DELETE"
    <2>1. Cleanup(id) = <<o>> /\ o.do = "removeDoc" /\ o.kind = None
      BY <1>3, DoShape DEF Cleanup
    <2> HIDE DEF o
    <2> QED BY <1>3, <2>1 DEF Serves, Makes, Leaves
  <1>4. CASE tasks[id].kind = "PURGE"
    <2>1. /\ Cleanup(id) = <<p, f>> /\ p.do = "purge" /\ p.kind = None
          /\ f.do = "finalize" /\ f.kind = None
      BY <1>4, DoShape DEF Cleanup
    <2> HIDE DEF p, f
    <2>2. DOMAIN <<p, f>> = {1, 2} /\ Len(<<p, f>>) = 2 /\ <<p, f>>[1] = p /\ <<p, f>>[2] = f
      OBVIOUS
    <2> QED BY <1>4, <2>1, <2>2 DEF Serves, Makes, Leaves
  <1>5. CASE tasks[id].kind = "UNBIND"
    <2>1. /\ Cleanup(id) = <<s, c>> /\ s.do = "dropSnap" /\ s.kind = None
          /\ c.do = "countLeft" /\ c.kind = None /\ c.algo = tasks[id].algo
      BY <1>5, DoShape DEF Cleanup
    <2> HIDE DEF s, c
    <2>2. DOMAIN <<s, c>> = {1, 2} /\ Len(<<s, c>>) = 2 /\ <<s, c>>[1] = s /\ <<s, c>>[2] = c
      OBVIOUS
    <2> QED BY <1>5, <2>1, <2>2 DEF Serves, Makes, Leaves
  <1> QED BY <1>1, <1>2, <1>3, <1>4, <1>5 DEF Kinds

LEMMA FinishedKeeps ==
  ASSUME Typed, Typed', Kept, NEW t \in Threads, NEW id \in 1..Len(tasks), Finished(t, id)
  PROVE  Kept'
  <1>1. /\ Free(t) /\ tasks[id].phase \in {"working", "again"}
        /\ tasks' = [tasks EXCEPT ![id].phase = "gone"]
        /\ UNCHANGED <<kb, bindings, raced>> /\ (mishap => mishap')
        /\ \/ UNCHANGED <<todo, serving>>
           \/ /\ todo' = [todo EXCEPT ![t] = Cleanup(id)]
              /\ serving' = [serving EXCEPT ![t] = IF tasks[id].kind = "ADD" THEN 0 ELSE id]
    BY DEF Finished, store, Calm, Mishap
  <1>2. /\ Len(tasks') = Len(tasks) /\ DOMAIN tasks' = 1..Len(tasks) /\ DOMAIN tasks = 1..Len(tasks)
        /\ tasks'[id].phase = "gone"
        /\ \A i \in 1..Len(tasks) : GoesOn(i)
    <2>1. /\ Len(tasks') = Len(tasks) /\ tasks'[id].phase = "gone"
          /\ \A i \in 1..Len(tasks) : /\ i # id => tasks'[i] = tasks[i]
                                      /\ tasks'[i].kind = tasks[i].kind
                                      /\ tasks'[i].algo = tasks[i].algo
      BY <1>1, PhaseTyped DEF Phases
    <2> QED BY <1>1, <2>1, Shape DEF GoesOn, Over, Typed, TypeOK
  <1>3. \A u \in Threads : serving[u] # 0 => serving[u] \in 1..Len(tasks) /\ GoesOn(serving[u])
    BY <1>2, Shape, SameStore
  <1>4. CASE UNCHANGED <<todo, serving>>
    <2>1. Doomed' => Doomed
      BY <1>2, <1>4 DEF Doomed, GoesOn
    <2>2. \A b : Loses(b)' => Loses(b)
      BY <1>2, <1>4 DEF Loses, GoesOn, Over
    <2>3. Handled'
      BY <1>3, <1>4 DEF Kept, Handled, Serves, GoesOn, Free
    <2> QED BY <1>1, <1>4, <2>1, <2>2, <2>3, QuietKeeps DEF Requesting, Free
  <1>5. CASE /\ todo' = [todo EXCEPT ![t] = Cleanup(id)]
             /\ serving' = [serving EXCEPT ![t] = IF tasks[id].kind = "ADD" THEN 0 ELSE id]
    <2> DEFINE q == Cleanup(id)
    <2>1. /\ todo'[t] = q /\ serving'[t] = (IF tasks[id].kind = "ADD" THEN 0 ELSE id)
          /\ \A u \in Threads \ {t} : todo'[u] = todo[u] /\ serving'[u] = serving[u]
      BY <1>5, Shape
    <2>2. q \in Seq(FitOps) /\ (q # << >> => Serves(q, tasks[id]) /\ serving'[t] = id /\ id # 0)
      BY <2>1, CleanupFits, CleanupServes
    <2> HIDE DEF q
    <2>3. Handled'
      <3>1. ASSUME NEW u \in Threads
            PROVE  /\ \/ \A i \in DOMAIN todo'[u] : todo'[u][i].do \in Makes
                      \/ \A i \in DOMAIN todo'[u] : todo'[u][i].do \notin Makes
                   /\ serving'[u] # 0 /\ ~Free(u)' => Serves(todo'[u], tasks'[serving'[u]])
        <4>1. CASE u # t
          BY <1>3, <2>1, <4>1 DEF Kept, Handled, Serves, GoesOn, Free
        <4>2. CASE u = t /\ q = << >>
          BY <2>1, <4>2 DEF Free
        <4>3. CASE u = t /\ q # << >>
          <5>1. Serves(q, tasks'[id])
            BY <1>2, <2>2, <4>3 DEF Serves, GoesOn
          <5> QED BY <2>1, <2>2, <4>3, <5>1 DEF Serves
        <4> QED BY <4>1, <4>2, <4>3
      <3> QED BY <3>1 DEF Handled
    <2>4. \A i \in DOMAIN q : i \in 1..Len(q) /\ q # << >>
      BY <2>2
    <2>5. Doomed' => Doomed
      <3>1. ASSUME NEW i \in DOMAIN q, q[i].do = "finalize"
            PROVE  tasks[id].kind = "PURGE"
        <4>1. tasks[id].kind \in Kinds
          <5>1. tasks[id] \in TaskRec
            BY Shape
          <5> QED BY <5>1 DEF TaskRec
        <4> QED BY <3>1, <4>1, DoShape DEF q, Cleanup, Kinds
      <3>2. tasks[id].kind = "PURGE" => Doomed
        BY <1>1, <1>2 DEF Doomed
      <3>3. \A u \in Threads \ {t} : todo'[u] = todo[u]
        BY <2>1
      <3> QED BY <1>2, <2>1, <3>1, <3>2, <3>3 DEF Doomed, GoesOn
    <2>6. ASSUME NEW b, Loses(b)' PROVE Loses(b)
      <3>1. CASE \E u \in Threads : \E i \in DOMAIN todo'[u] :
                   Unbinds(todo'[u][i]) /\ todo'[u][i].algo = b
        <4>1. PICK u \in Threads : \E i \in DOMAIN todo'[u] :
                     Unbinds(todo'[u][i]) /\ todo'[u][i].algo = b
          BY <3>1
        <4>2. CASE u # t
          BY <2>1, <4>1, <4>2 DEF Loses
        <4>3. CASE u = t
          <5>1. PICK i \in DOMAIN q : Unbinds(q[i]) /\ q[i].algo = b
            BY <2>1, <4>1, <4>3
          <5>2. q[i].do \in Leaves /\ Serves(q, tasks[id])
            BY <2>2, <2>4, <5>1 DEF Serves, Unbinds, Leaves, None
          <5>3. tasks[id].kind = "UNBIND" /\ tasks[id].algo = b
            BY <5>1, <5>2 DEF Serves
          <5> QED BY <1>1, <1>2, <5>3 DEF Loses
        <4> QED BY <4>2, <4>3
      <3>2. CASE \E i \in DOMAIN tasks' : tasks'[i].kind = "UNBIND" /\ tasks'[i].phase \notin Over
                                          /\ tasks'[i].algo = b
        BY <1>2, <3>2 DEF Loses, GoesOn, Over
      <3> QED BY <2>6, <3>1, <3>2 DEF Loses, Over
    <2>7. ~Requesting(t) /\ ~Requesting(t)'
      BY <1>1, <2>1, <2>2 DEF Requesting, Free
    <2>8. \A u \in Threads : /\ Requesting(u)' <=> Requesting(u)
                             /\ Requesting(u) \/ Requesting(u)' => todo'[u] = todo[u]
      BY <2>1, <2>7 DEF Requesting, Free
    <2> QED BY <1>1, <2>3, <2>5, <2>6, <2>8, QuietKeeps
  <1> QED BY <1>1, <1>4, <1>5

LEMMA InterruptedKeeps ==
  ASSUME Typed, Typed', Kept, NEW t \in Threads, Interrupted(t)
  PROVE  Kept'
  <1> DEFINE id == serving[t]
  <1>1. /\ ~Free(t) /\ Drop(t) /\ UNCHANGED <<kb, bindings, raced>>
        /\ \/ id = 0 /\ mishap' /\ tasks' = tasks
           \/ id # 0 /\ (mishap => mishap') /\ tasks' = [tasks EXCEPT ![id].phase = "again"]
    BY DEF Interrupted, Mishap, store
  <1>2. /\ todo'[t] = << >> /\ serving'[t] = 0
        /\ \A u \in Threads \ {t} : todo'[u] = todo[u] /\ serving'[u] = serving[u]
    <2>1. << >> \in Seq(FitOps)
      OBVIOUS
    <2> QED BY <1>1, <2>1, ContinueTyped DEF Drop
  <1>3. /\ Len(tasks') = Len(tasks) /\ DOMAIN tasks' = 1..Len(tasks) /\ DOMAIN tasks = 1..Len(tasks)
        /\ \A i \in 1..Len(tasks) : /\ i # id => tasks'[i] = tasks[i]
                                    /\ tasks'[i].kind = tasks[i].kind
                                    /\ tasks'[i].algo = tasks[i].algo
    <2>1. CASE id = 0
      BY <1>1, <2>1, Shape
    <2>2. CASE id # 0
      <3>1. id \in 1..Len(tasks)
        BY <2>2, Shape, SameStore
      <3>2. tasks' = [tasks EXCEPT ![id].phase = "again"] /\ "again" \in Phases
        BY <1>1, <2>2 DEF Phases
      <3> HIDE DEF id
      <3>3. PICK i \in 1..Len(tasks) : i = id
        BY <3>1
      <3>4. tasks' = [tasks EXCEPT ![i].phase = "again"]
        BY <3>2, <3>3
      <3>5. /\ Len(tasks') = Len(tasks) /\ tasks' \in Seq(TaskRec)
            /\ \A j \in 1..Len(tasks) : /\ j # i => tasks'[j] = tasks[j]
                                        /\ tasks'[j].kind = tasks[j].kind
                                        /\ tasks'[j].algo = tasks[j].algo
        BY <3>2, <3>4, PhaseTyped
      <3>6. DOMAIN tasks' = 1..Len(tasks) /\ DOMAIN tasks = 1..Len(tasks)
        BY <3>5, Shape
      <3> QED BY <3>3, <3>5, <3>6
    <2> QED BY <2>1, <2>2
  <1>4. \A u \in Threads : serving[u] # 0 => serving[u] \in 1..Len(tasks)
    BY Shape, SameStore
  <1>5. Handled'
    <2>1. ASSUME NEW u \in Threads
          PROVE  /\ \/ \A i \in DOMAIN todo'[u] : todo'[u][i].do \in Makes
                    \/ \A i \in DOMAIN todo'[u] : todo'[u][i].do \notin Makes
                 /\ serving'[u] # 0 /\ ~Free(u)' => Serves(todo'[u], tasks'[serving'[u]])
      <3>1. CASE u = t
        BY <1>2, <3>1
      <3>2. CASE u # t
        BY <1>2, <1>3, <1>4, <3>2 DEF Kept, Handled, Serves, Free
      <3> QED BY <3>1, <3>2
    <2> QED BY <2>1 DEF Handled
  <1>6. CASE id = 0
    <2>1. \A u \in Threads : Requesting(u)' => Requesting(u)
      BY <1>2 DEF Requesting, Free
    <2> QED BY <1>1, <1>5, <1>6, <2>1 DEF Kept, OneRequest, Founding, Spared
  <1>7. CASE id # 0
    <2> DEFINE q == todo[t]
    <2>1. Serves(q, tasks[id]) /\ Len(q) \in DOMAIN q /\ id \in 1..Len(tasks)
      <3>1. q \in Seq(FitOps) /\ q # << >>
        BY <1>1, Shape DEF Free
      <3> QED BY <1>1, <1>4, <1>7, <3>1 DEF Kept, Handled
    <2>2. Doomed' => Doomed
      <3>1. tasks[id].kind = "PURGE" => Doomed
        BY <2>1 DEF Serves, Doomed
      <3>2. CASE \E u \in Threads : \E i \in DOMAIN todo'[u] : todo'[u][i].do = "finalize"
        BY <1>2, <3>2 DEF Doomed
      <3>3. CASE \E i \in DOMAIN tasks' : tasks'[i].kind = "PURGE" /\ tasks'[i].phase # "gone"
        BY <1>3, <3>1, <3>3 DEF Doomed
      <3> QED BY <3>2, <3>3 DEF Doomed
    <2>3. ASSUME NEW b, Loses(b)' PROVE Loses(b)
      <3>1. tasks[id].kind = "UNBIND" => Loses(tasks[id].algo)
        BY <2>1 DEF Serves, Loses, Unbinds, Leaves
      <3>2. CASE \E u \in Threads : \E i \in DOMAIN todo'[u] :
                   Unbinds(todo'[u][i]) /\ todo'[u][i].algo = b
        BY <1>2, <3>2 DEF Loses
      <3>3. CASE \E i \in DOMAIN tasks' : tasks'[i].kind = "UNBIND" /\ tasks'[i].phase \notin Over
                                          /\ tasks'[i].algo = b
        BY <1>3, <3>1, <3>3 DEF Loses, Over
      <3> QED BY <2>3, <3>2, <3>3 DEF Loses, Over
    <2>4. \A u \in Threads : /\ Requesting(u)' <=> Requesting(u)
                             /\ Requesting(u) \/ Requesting(u)' => todo'[u] = todo[u]
      BY <1>2, <1>7 DEF Requesting, Free
    <2> QED BY <1>1, <1>5, <1>7, <2>2, <2>3, <2>4, QuietKeeps
  <1> QED BY <1>6, <1>7

LEMMA NextKeeps ==
  ASSUME Typed, Kept, [Next]_vars
  PROVE  Kept'
  <1>0. Typed'
    BY NextTyped
  <1>1. ASSUME NEW t \in Threads, Request(t) \/ Transaction(t) \/ Interrupted(t) PROVE Kept'
    BY <1>0, <1>1, RequestKeeps, MovesKeep, InterruptedKeeps
  <1>2. ASSUME NEW t \in Threads, NEW id \in 1..Len(tasks), Callback(t, id) PROVE Kept'
    BY <1>0, <1>2, StartedKeeps, FinishedKeeps DEF Callback
  <1>3. CASE Crash
    <2>1. mishap' /\ \A u \in Threads : todo'[u] = << >> /\ serving'[u] = 0
      BY <1>3 DEF Crash, Mishap
    <2> QED BY <2>1 DEF Kept, Handled, OneRequest, Founding, Spared, Free
  <1>4. CASE UNCHANGED vars
    <2>1. UNCHANGED <<kb, bindings, tasks, todo, serving, mishap, raced>>
      BY <1>4 DEF vars, store
    <2>2. /\ Handled' /\ (Doomed' => Doomed) /\ \A b : Loses(b)' => Loses(b)
      BY <2>1 DEF Kept, Handled, Serves, Free, Doomed, Loses
    <2> QED BY <1>0, <2>1, <2>2, QuietKeeps DEF Requesting, Free
  <1> QED BY <1>1, <1>2, <1>3, <1>4 DEF Next

LEMMA InitKeeps == ASSUME Init PROVE Kept
  <1>1. \A t \in Threads : todo[t] = << >> /\ serving[t] = 0
    BY DEF Init
  <1>2. tasks = << >> /\ DOMAIN tasks = {}
    BY DEF Init
  <1>3. \A a : ~Loses(a)
    BY <1>1, <1>2 DEF Loses
  <1>4. bindings \ {None} # {}
    <2>1. PICK first \in First : bindings = first.algos
      BY DEF Init
    <2>2. first.algos \in SUBSET Algos /\ first.algos # {}
      BY KbAssumption
    <2>3. None \notin Algos
      BY KbAssumption
    <2> QED BY <2>1, <2>2, <2>3
  <1>5. ~Binding
    BY <1>1 DEF Binding, Ahead
  <1> QED BY <1>1, <1>3, <1>4, <1>5
          DEF Kept, Handled, OneRequest, Founding, Spared, Free, Requesting, Ahead

\* A knowledge base that is at rest and active has an algorithm (unbind_algo, create_kb,
\* update_kb), unless one was bound or unbound while an unbinding was on its way, or a
\* request broke off or overlapped another (Bound).
THEOREM AlgorithmStays == Spec => []Bound
  <1>1. Kept => Bound
    <2> SUFFICES ASSUME Kept, Quiet, kb = "ACTIVE", ~mishap, ~raced PROVE bindings # {}
      BY DEF Bound
    <2>1. ~Binding
      BY DEF Quiet, Free, Binding, Ahead
    <2> QED BY <2>1 DEF Kept, Spared, None
  <1> QED BY <1>1, InitKeeps, NextKeeps, InitTyped, NextTyped, PTL DEF Spec

-----------------------------------------------------------------------------
(* The lists of transactions, for AtRest.                                  *)

Ends == {"setDeleting", "finalize"}
Last(q) == q[Len(q)].do

\* What the callback of a task has ahead.
Finishes(q, task) ==
  \/ task.kind = "DELETE" /\ q = <<DoDoc("removeDoc", task.doc)>>
  \/ /\ task.kind = "PURGE"
     /\ \/ \E step \in {"purge", "dropSnap"} : q = <<DoDoc(step, task.doc), Do("finalize")>>
        \/ q = <<Do("finalize")>>
  \/ /\ task.kind = "UNBIND"
     /\ \/ q = <<DoDoc("dropSnap", task.doc), DoAlgo("countLeft", task.algo)>>
        \/ \E step \in {"countLeft", "removeBinding"} : q = <<DoAlgo(step, task.algo)>>

\* An upload has nothing else ahead.
Uploads(q, d) ==
  \/ q = <<DoDoc("bindDoc", d), DoSubmit("ADD", d, None)>>
  \/ q = <<DoSubmit("ADD", d, None)>>

\* What a request has ahead: the deletion of a knowledge base ends in "setDeleting" or
\* "finalize", and only there tasks are submitted that purge.
Plan(q) ==
  \A i \in 1..Len(q) :
    /\ q[i].do \notin {"removeDoc", "countLeft"}
    /\ q[i].do \in Ends => i = Len(q)
    /\ q[i].kind = "PURGE" => Last(q) = "setDeleting" /\ q[i].do = "submit"
    /\ \/ q[i].do \in {"ensureKb", "bindAlgo", "bindDoc", "cancel", "refuse"}
       \/ q[i].do = "submit" /\ q[i].kind # "PURGE"
       => Last(q) \notin Ends
    /\ q[i].do = "bindDoc" \/ q[i].kind = "ADD" => Uploads(q, q[i].doc)
    /\ q[i].do = "cancel" =>
         q[i].kind \in {None, "UNBIND"} /\ \A j \in 1..Len(q) : q[j].doc = q[i].doc => j = i

\* What an operation may be replaced by.
Succ(o, p) ==
  \/ o.do = "purge" /\ p = DoDoc("dropSnap", o.doc)
  \/ o.do = "cancel" /\ o.kind = None /\ p = DoDoc("purge", o.doc)
  \/ o.do = "cancel" /\ o.kind # None /\ p = [o EXCEPT !.do = "submit"]
  \/ o.do = "countLeft" /\ p = DoAlgo("removeBinding", o.algo)

\* How a list goes on: it ends, loses its first operation, or has it replaced.
Ended(q, r) == r = << >> /\ q[1].do \in {"cancel", "submit", "refuse", "countLeft"}
Shorter(q, r) ==
  /\ q[1].do \notin {"cancel", "purge", "refuse", "countLeft"}
  /\ Len(r) = Len(q) - 1 /\ \A j \in 1..Len(r) : r[j] = q[j + 1]
Replaced(q, r) ==
  /\ q[1].do \in {"cancel", "purge"} /\ Succ(q[1], r[1])
  /\ Len(r) = Len(q) /\ \A j \in 2..Len(q) : r[j] = q[j]
Form(q, r) ==
  \/ Ended(q, r) \/ Shorter(q, r) \/ Replaced(q, r)
  \/ q[1].do = "countLeft" /\ Len(r) = 1 /\ Succ(q[1], r[1])

\* The thread of a transaction: the others stay where they are.
Goes(t) ==
  /\ ~Free(t) /\ todo[t] \in Seq(FitOps) /\ Len(todo[t]) \in Nat /\ Len(todo[t]) >= 1
  /\ Op1(t) = todo[t][1] /\ Op1(t) \in FitOps
  /\ todo'[t] \in Seq(FitOps) /\ Form(todo[t], todo'[t])
  /\ serving'[t] = (IF todo'[t] = << >> THEN 0 ELSE serving[t])
  /\ \A u \in Threads \ {t} : todo'[u] = todo[u] /\ serving'[u] = serving[u]

LEMMA AfterSucc ==
  ASSUME NEW o \in FitOps, After(o) # << >>
  PROVE  \E p \in FitOps : After(o) = <<p>> /\ Succ(o, p) /\ o.do \in {"cancel", "purge"}
  <1>1. o.do \in {"purge", "cancel"} /\ o.doc \in Docs
    BY DEF After, FitOps
  <1>2. CASE o.do = "purge"
    <2>1. DoDoc("dropSnap", o.doc) \in FitOps
      BY <1>1, DoDocFits
    <2> QED BY <1>2, <2>1 DEF After, Succ
  <1>3. CASE o.do = "cancel" /\ o.kind = None
    <2>1. DoDoc("purge", o.doc) \in FitOps
      BY <1>1, DoDocFits
    <2> QED BY <1>3, <2>1 DEF After, Succ
  <1>4. CASE o.do = "cancel" /\ o.kind # None
    <2>1. [o EXCEPT !.do = "submit"] \in FitOps
      BY <1>4 DEF FitOps, Op, Steps
    <2> QED BY <1>4, <2>1 DEF After, Succ
  <1> QED BY <1>1, <1>2, <1>3, <1>4

LEMMA AfterForm ==
  ASSUME NEW q \in Seq(FitOps), q # << >>, q[1].do \notin {"refuse", "countLeft"}
  PROVE  Form(q, After(q[1]) \o Tail(q)) /\ After(q[1]) \o Tail(q) \in Seq(FitOps)
  <1>1. /\ Len(q) \in Nat /\ Len(q) >= 1 /\ q[1] \in FitOps
        /\ Tail(q) \in Seq(FitOps) /\ Len(Tail(q)) = Len(q) - 1
        /\ \A j \in 1..(Len(q) - 1) : Tail(q)[j] = q[j + 1]
    OBVIOUS
  <1>2. CASE After(q[1]) = << >>
    <2>1. << >> \o Tail(q) = Tail(q)
      BY <1>1
    <2>2. q[1].do \notin {"cancel", "purge"}
      <3> SUFFICES ASSUME q[1].do \in {"cancel", "purge"} PROVE FALSE
        OBVIOUS
      <3>1. \A p : <<p>> # << >>
        OBVIOUS
      <3> QED BY <1>2, <3>1 DEF After
    <2>3. Shorter(q, Tail(q))
      BY <1>1, <2>2 DEF Shorter
    <2> QED BY <1>1, <1>2, <2>1, <2>3 DEF Form
  <1>3. CASE After(q[1]) # << >>
    <2>1. PICK p \in FitOps : After(q[1]) = <<p>> /\ Succ(q[1], p) /\ q[1].do \in {"cancel", "purge"}
      BY <1>1, <1>3, AfterSucc
    <2> DEFINE r == <<p>> \o Tail(q)
    <2>2. r \in Seq(FitOps) /\ Len(r) = Len(q) /\ r[1] = p
      BY <1>1
    <2>3. \A j \in 2..Len(q) : r[j] = q[j]
      <3> TAKE j \in 2..Len(q)
      <3>1. j - 1 \in 1..(Len(q) - 1) /\ r[j] = Tail(q)[j - 1]
        BY <1>1
      <3>2. Tail(q)[j - 1] = q[j]
        BY <1>1, <3>1
      <3> QED BY <3>1, <3>2
    <2>4. Replaced(q, r)
      BY <2>1, <2>2, <2>3 DEF Replaced
    <2> QED BY <2>1, <2>2, <2>4 DEF Form
  <1> QED BY <1>2, <1>3

LEMMA TransactionGoes ==
  ASSUME Typed, NEW t \in Threads, Transaction(t)
  PROVE  Goes(t)
  <1>1. /\ ~Free(t)
        /\ \/ Done(t) /\ Op1(t).do \notin {"refuse", "countLeft"}
           \/ Drop(t) /\ Op1(t).do \in {"cancel", "submit", "refuse"}
           \/ CountLeft(t) /\ Op1(t).do = "countLeft"
    BY DEF Transaction, EnsureKb, BindAlgo, BindDoc, RemoveDoc, DropSnap, Submit, Cancel, Refuse,
           SetDeleting, Finalize, CountLeft, RemoveBinding, Does
  <1> DEFINE q == todo[t]
             o == q[1]
  <1>2. /\ q \in Seq(FitOps) /\ q # << >> /\ Len(q) \in Nat /\ Len(q) >= 1
        /\ Op1(t) = o /\ o \in FitOps
    <2>1. q \in Seq(FitOps) /\ q # << >>
      BY <1>1, Shape DEF Free
    <2> QED BY <2>1 DEF Op1
  <1>3. \E r \in Seq(FitOps) : Continue(t, r) /\ Form(q, r)
    <2>1. CASE Done(t) /\ o.do \notin {"refuse", "countLeft"}
      <3>1. Continue(t, After(o) \o Tail(q))
        BY <1>2, <2>1 DEF Done
      <3> QED BY <1>2, <2>1, <3>1, AfterForm
    <2>2. CASE Drop(t) /\ o.do \in {"cancel", "submit", "refuse"}
      <3>1. << >> \in Seq(FitOps) /\ Continue(t, << >>) /\ Form(q, << >>)
        BY <2>2 DEF Drop, Form, Ended
      <3> QED BY <3>1
    <2>3. CASE CountLeft(t) /\ o.do = "countLeft"
      <3> DEFINE p == DoAlgo("removeBinding", o.algo)
      <3>1. Continue(t, << >>) \/ Continue(t, <<p>>)
        BY <1>2, <2>3 DEF CountLeft
      <3>2. p \in FitOps /\ Succ(o, p)
        <4>1. o.algo \in Algos \cup {None}
          BY <1>2 DEF FitOps, Op
        <4>2. p \in FitOps
          BY <4>1, DoAlgoFits
        <4> QED BY <2>3, <4>2 DEF Succ
      <3> HIDE DEF p
      <3>3. /\ << >> \in Seq(FitOps) /\ <<p>> \in Seq(FitOps) /\ Len(<<p>>) = 1 /\ <<p>>[1] = p
        BY <3>2
      <3>4. Form(q, << >>) /\ Form(q, <<p>>)
        BY <2>3, <3>2, <3>3 DEF Form, Ended
      <3> QED BY <3>1, <3>3, <3>4
    <2> QED BY <1>1, <1>2, <2>1, <2>2, <2>3
  <1>4. PICK r \in Seq(FitOps) : Continue(t, r) /\ Form(q, r)
    BY <1>3
  <1>5. /\ todo'[t] = r /\ serving'[t] = (IF r = << >> THEN 0 ELSE serving[t])
        /\ \A u \in Threads \ {t} : todo'[u] = todo[u] /\ serving'[u] = serving[u]
    BY <1>4, ContinueTyped
  <1> QED BY <1>1, <1>2, <1>4, <1>5 DEF Goes

LEMMA DocShape ==
  /\ \A step, d : DoDoc(step, d).doc = d
  /\ \A step : Do(step).doc = None
  /\ \A step, a : DoAlgo(step, a).doc = None
  /\ \A kind, d, a : DoSubmit(kind, d, a).doc = d
  BY DEF Do, DoDoc, DoAlgo, DoSubmit

\* An upload begins with its document.
LEMMA UploadHead ==
  ASSUME NEW q, NEW d, Uploads(q, d)
  PROVE  /\ q[1].doc = d /\ q[1].do \in {"bindDoc", "submit"}
         /\ Len(q) \in {1, 2} /\ q # << >>
         /\ \/ Len(q) = 2 /\ q[1].do = "bindDoc" /\ q[1].kind = None
               /\ q[2].do = "submit" /\ q[2].kind = "ADD" /\ q[2].doc = d
            \/ Len(q) = 1 /\ q[1].do = "submit" /\ q[1].kind = "ADD"
  <1> DEFINE b == DoDoc("bindDoc", d)
             s == DoSubmit("ADD", d, None)
  <1>1. /\ b.do = "bindDoc" /\ b.kind = None /\ b.doc = d
        /\ s.do = "submit" /\ s.kind = "ADD" /\ s.doc = d
    BY DoShape, DocShape
  <1>2. q = <<b, s>> \/ q = <<s>>
    BY DEF Uploads
  <1> HIDE DEF b, s
  <1> QED BY <1>1, <1>2

LEMMA SuccShape ==
  ASSUME NEW o \in FitOps, NEW p, Succ(o, p)
  PROVE  /\ p.do \in {"dropSnap", "purge", "submit", "removeBinding"}
         /\ o.do = "purge" => p.do = "dropSnap" /\ p.kind = None /\ p.doc = o.doc
         /\ o.do = "cancel" /\ o.kind = None => p.do = "purge" /\ p.kind = None /\ p.doc = o.doc
         /\ o.do = "cancel" /\ o.kind # None => p.do = "submit" /\ p.kind = o.kind /\ p.doc = o.doc
         /\ o.do = "countLeft" => p.do = "removeBinding" /\ p.kind = None /\ p.doc = None
  <1>1. CASE o.do = "cancel" /\ o.kind # None
    <2>1. p = [o EXCEPT !.do = "submit"]
      BY <1>1 DEF Succ
    <2>2. p.do = "submit" /\ p.kind = o.kind /\ p.doc = o.doc
      BY <2>1 DEF FitOps, Op
    <2> QED BY <1>1, <2>2
  <1>2. CASE ~(o.do = "cancel" /\ o.kind # None)
    BY <1>2, DoShape, DocShape DEF Succ
  <1> QED BY <1>1, <1>2

\* The end of a list.
LEMMA FormLast ==
  ASSUME NEW q \in Seq(FitOps), q # << >>, NEW r \in Seq(FitOps), Form(q, r), r # << >>
  PROVE  /\ Len(r) \in Nat /\ Len(r) >= 1 /\ Len(q) \in Nat /\ Len(q) >= 1
         /\ Last(r) \in Ends \/ (Last(q) \in Ends /\ q[1].do # "countLeft") => Last(r) = Last(q)
         /\ Shorter(q, r) \/ (Replaced(q, r) /\ Len(q) >= 2) => Last(r) = Last(q) /\ Len(q) >= 2
  <1>1. Len(r) \in Nat /\ Len(r) >= 1 /\ Len(q) \in Nat /\ Len(q) >= 1 /\ q[1] \in FitOps
    OBVIOUS
  <1>2. CASE Shorter(q, r)
    <2>1. Len(r) \in 1..Len(r) /\ Len(r) + 1 = Len(q)
      BY <1>1, <1>2 DEF Shorter
    <2> QED BY <1>1, <1>2, <2>1 DEF Shorter, Last, Replaced
  <1>3. CASE Replaced(q, r) /\ Len(q) >= 2
    <2>1. Len(q) \in 2..Len(q)
      BY <1>1, <1>3
    <2> QED BY <1>1, <1>3, <2>1 DEF Replaced, Last
  <1>4. CASE Replaced(q, r) /\ Len(q) = 1
    <2>1. /\ Last(q) = q[1].do /\ Last(r) = r[1].do /\ r[1].do \notin Ends /\ q[1].do \notin Ends
      BY <1>1, <1>4, SuccShape DEF Replaced, Last, Ends
    <2> QED BY <1>1, <1>4, <2>1 DEF Shorter, Replaced
  <1>5. CASE q[1].do = "countLeft" /\ Len(r) = 1 /\ Succ(q[1], r[1]) /\ ~Shorter(q, r) /\ ~Replaced(q, r)
    <2>1. Last(r) = r[1].do /\ r[1].do \notin Ends
      BY <1>1, <1>5, SuccShape DEF Last, Ends
    <2> QED BY <1>1, <1>5, <2>1
  <1>6. Len(q) = 1 \/ Len(q) >= 2
    <2>1. \A n \in Nat : n >= 1 => n = 1 \/ n >= 2
      OBVIOUS
    <2> QED BY <1>1, <2>1
  <1> QED BY <1>2, <1>3, <1>4, <1>5, <1>6 DEF Form, Ended

LEMMA PlanGoes ==
  ASSUME NEW q \in Seq(FitOps), q # << >>, Plan(q), NEW r \in Seq(FitOps), Form(q, r)
  PROVE  Plan(r)
  <1>1. Len(q) \in Nat /\ Len(q) >= 1 /\ 1 \in 1..Len(q) /\ q[1] \in FitOps /\ Len(r) \in Nat
    OBVIOUS
  <1>2. CASE r = << >>
    BY <1>2 DEF Plan
  <1>3. CASE r # << >> /\ Shorter(q, r)
    <2>1. Last(r) = Last(q) /\ Len(r) = Len(q) - 1
      BY <1>3, FormLast DEF Shorter
    <2> SUFFICES ASSUME NEW i \in 1..Len(r)
                 PROVE  /\ r[i].do \notin {"removeDoc", "countLeft"}
                        /\ r[i].do \in Ends => i = Len(r)
                        /\ r[i].kind = "PURGE" => Last(r) = "setDeleting" /\ r[i].do = "submit"
                        /\ \/ r[i].do \in {"ensureKb", "bindAlgo", "bindDoc", "cancel", "refuse"}
                           \/ r[i].do = "submit" /\ r[i].kind # "PURGE"
                           => Last(r) \notin Ends
                        /\ r[i].do = "bindDoc" \/ r[i].kind = "ADD" => Uploads(r, r[i].doc)
                        /\ r[i].do = "cancel" =>
                             /\ r[i].kind \in {None, "UNBIND"}
                             /\ \A j \in 1..Len(r) : r[j].doc = r[i].doc => j = i
      BY DEF Plan
    <2>2. i + 1 \in 1..Len(q) /\ r[i] = q[i + 1]
      BY <1>1, <1>3, <2>1 DEF Shorter
    <2>3. \A j \in 1..Len(r) : j + 1 \in 1..Len(q) /\ r[j] = q[j + 1]
      BY <1>1, <1>3, <2>1 DEF Shorter
    <2>4. /\ r[i].do \notin {"removeDoc", "countLeft"}
          /\ r[i].do \in Ends => i = Len(r)
          /\ r[i].kind = "PURGE" => Last(r) = "setDeleting" /\ r[i].do = "submit"
          /\ \/ r[i].do \in {"ensureKb", "bindAlgo", "bindDoc", "cancel", "refuse"}
             \/ r[i].do = "submit" /\ r[i].kind # "PURGE"
             => Last(r) \notin Ends
      BY <1>1, <2>1, <2>2 DEF Plan
    <2>5. ASSUME r[i].do = "bindDoc" \/ r[i].kind = "ADD" PROVE Uploads(r, r[i].doc)
      <3>1. Uploads(q, r[i].doc)
        BY <2>2, <2>5 DEF Plan
      <3> DEFINE s == DoSubmit("ADD", r[i].doc, None)
                 b == DoDoc("bindDoc", r[i].doc)
      <3>2. q = <<b, s>> \/ q = <<s>>
        BY <3>1 DEF Uploads
      <3>3. r = <<s>>
        <4> HIDE DEF s, b
        <4>1. Len(r) = 1 /\ r[1] = s
          BY <1>1, <2>1, <2>3, <3>2
        <4> QED BY <4>1
      <3> QED BY <3>3 DEF Uploads
    <2>6. ASSUME r[i].do = "cancel"
          PROVE  /\ r[i].kind \in {None, "UNBIND"}
                 /\ \A j \in 1..Len(r) : r[j].doc = r[i].doc => j = i
      <3>1. /\ q[i + 1].kind \in {None, "UNBIND"}
            /\ \A j \in 1..Len(q) : q[j].doc = q[i + 1].doc => j = i + 1
        BY <2>2, <2>6 DEF Plan
      <3>2. ASSUME NEW j \in 1..Len(r), r[j].doc = r[i].doc PROVE j = i
        <4>1. j + 1 \in 1..Len(q) /\ q[j + 1].doc = q[i + 1].doc
          BY <2>2, <2>3, <3>2
        <4>2. j + 1 = i + 1
          BY <3>1, <4>1
        <4> QED BY <1>1, <4>2
      <3> QED BY <2>2, <3>1, <3>2
    <2> QED BY <2>4, <2>5, <2>6
  <1>4. CASE r # << >> /\ Replaced(q, r)
    <2>1. Len(r) = Len(q) /\ (\A j \in 2..Len(q) : r[j] = q[j]) /\ q[1].do \in {"cancel", "purge"}
      BY <1>4 DEF Replaced
    <2>2. /\ r[1].do \in {"dropSnap", "purge", "submit"} /\ r[1].doc = q[1].doc
          /\ r[1].kind \in {None, "UNBIND"} /\ (r[1].do = "submit" => q[1].do = "cancel")
          /\ r[1].kind = None => r[1].do # "submit"
      <3>1. q[1].do = "cancel" => q[1].kind \in {None, "UNBIND"}
        BY <1>1 DEF Plan
      <3> QED BY <1>1, <1>4, <2>1, <3>1, SuccShape DEF Replaced
    <2>3. Len(q) >= 2 => Last(r) = Last(q)
      BY <1>4, FormLast
    <2>4. Len(q) = 1 => Last(r) \notin Ends
      BY <2>1, <2>2 DEF Last, Ends
    <2>5. q[1].do = "cancel" => Last(q) \notin Ends /\ \A j \in 1..Len(q) : q[j].doc = q[1].doc => j = 1
      BY <1>1 DEF Plan
    <2>6. \A d : ~Uploads(q, d)
      BY <2>1, UploadHead
    <2>7. ASSUME NEW i \in 1..Len(r), i = 1
          PROVE  /\ r[i].do \notin {"removeDoc", "countLeft"}
                 /\ r[i].do \notin Ends /\ r[i].kind # "PURGE"
                 /\ r[i].do \notin {"ensureKb", "bindAlgo", "bindDoc", "cancel", "refuse"}
                 /\ r[i].do = "submit" => Last(r) \notin Ends
                 /\ r[i].kind # "ADD"
      <3>1. "PURGE" # None /\ "ADD" # None
        BY DEF None
      <3>2. r[i].do = "submit" => Last(r) \notin Ends
        <4>1. \A n \in Nat : n >= 1 => n = 1 \/ n >= 2
          OBVIOUS
        <4>2. Len(q) = 1 \/ Len(q) >= 2
          BY <1>1, <4>1
        <4> QED BY <2>2, <2>3, <2>4, <2>5, <2>7, <4>2
      <3> QED BY <2>2, <2>7, <3>1, <3>2 DEF Ends
    <2>8. ASSUME NEW i \in 1..Len(r), i # 1
          PROVE  /\ i \in 1..Len(q) /\ r[i] = q[i] /\ Last(r) = Last(q) /\ q[i].do # "bindDoc"
                 /\ q[i].kind # "ADD"
                 /\ r[i].do = "cancel" => \A j \in 1..Len(r) : r[j].doc = r[i].doc => j = i
      <3>1. i \in 2..Len(q) /\ i \in 1..Len(q) /\ Len(q) >= 2
        BY <1>1, <2>1, <2>8
      <3>2. r[i] = q[i] /\ Last(r) = Last(q)
        BY <2>1, <2>3, <3>1
      <3>3. q[i].do # "bindDoc" /\ q[i].kind # "ADD"
        BY <2>6, <3>1 DEF Plan
      <3>4. ASSUME r[i].do = "cancel", NEW j \in 1..Len(r), r[j].doc = r[i].doc PROVE j = i
        <4>1. q[j].doc = r[j].doc /\ j \in 1..Len(q)
          BY <1>1, <2>1, <2>2
        <4> QED BY <3>1, <3>2, <3>4, <4>1 DEF Plan
      <3> QED BY <3>1, <3>2, <3>3, <3>4
    <2> SUFFICES ASSUME NEW i \in 1..Len(r)
                 PROVE  /\ r[i].do \notin {"removeDoc", "countLeft"}
                        /\ r[i].do \in Ends => i = Len(r)
                        /\ r[i].kind = "PURGE" => Last(r) = "setDeleting" /\ r[i].do = "submit"
                        /\ \/ r[i].do \in {"ensureKb", "bindAlgo", "bindDoc", "cancel", "refuse"}
                           \/ r[i].do = "submit" /\ r[i].kind # "PURGE"
                           => Last(r) \notin Ends
                        /\ r[i].do = "bindDoc" \/ r[i].kind = "ADD" => Uploads(r, r[i].doc)
                        /\ r[i].do = "cancel" =>
                             /\ r[i].kind \in {None, "UNBIND"}
                             /\ \A j \in 1..Len(r) : r[j].doc = r[i].doc => j = i
      BY DEF Plan
    <2>9. CASE i = 1
      BY <2>7, <2>9
    <2>10. CASE i # 1
      <3>1. /\ q[i].do \notin {"removeDoc", "countLeft"}
            /\ q[i].do \in Ends => i = Len(q)
            /\ q[i].kind = "PURGE" => Last(q) = "setDeleting" /\ q[i].do = "submit"
            /\ \/ q[i].do \in {"ensureKb", "bindAlgo", "bindDoc", "cancel", "refuse"}
               \/ q[i].do = "submit" /\ q[i].kind # "PURGE"
               => Last(q) \notin Ends
            /\ q[i].do = "cancel" => q[i].kind \in {None, "UNBIND"}
        BY <2>8, <2>10 DEF Plan
      <3> QED BY <2>1, <2>8, <2>10, <3>1
    <2> QED BY <2>9, <2>10
  <1>5. q[1].do # "countLeft"
    BY <1>1 DEF Plan
  <1> QED BY <1>2, <1>3, <1>4, <1>5 DEF Form, Ended

\* What is left of a callback is still that of its task.
LEMMA FinishesGoes ==
  ASSUME NEW task \in TaskRec, NEW q \in Seq(FitOps), Finishes(q, task),
         NEW r \in Seq(FitOps), r # << >>, Form(q, r)
  PROVE  Finishes(r, task)
  <1> DEFINE rem == DoDoc("removeDoc", task.doc)
             pur == DoDoc("purge", task.doc)
             drp == DoDoc("dropSnap", task.doc)
             fin == Do("finalize")
             cnt == DoAlgo("countLeft", task.algo)
             rmb == DoAlgo("removeBinding", task.algo)
  <1>1. /\ rem.do = "removeDoc" /\ pur.do = "purge" /\ drp.do = "dropSnap" /\ fin.do = "finalize"
        /\ cnt.do = "countLeft" /\ rmb.do = "removeBinding" /\ pur.doc = task.doc /\ cnt.algo = task.algo
    BY DoShape, DocShape
  <1>2. \A p : /\ Succ(pur, p) => p = drp
               /\ Succ(cnt, p) => p = rmb
    BY <1>1 DEF Succ
  <1>3. \/ task.kind = "DELETE" /\ q = <<rem>>
        \/ task.kind = "PURGE" /\ (q = <<pur, fin>> \/ q = <<drp, fin>> \/ q = <<fin>>)
        \/ task.kind = "UNBIND" /\ (q = <<drp, cnt>> \/ q = <<cnt>> \/ q = <<rmb>>)
    BY DEF Finishes
  <1>4. /\ task.kind = "PURGE" => (r = <<drp, fin>> \/ r = <<fin>> => Finishes(r, task))
        /\ task.kind = "UNBIND" => (r = <<cnt>> \/ r = <<rmb>> => Finishes(r, task))
    BY DEF Finishes
  <1> HIDE DEF rem, pur, drp, fin, cnt, rmb
  <1>5. CASE q = <<rem>> \/ q = <<fin>> \/ q = <<rmb>>
    <2>1. Len(r) = 0
      BY <1>1, <1>5 DEF Form, Ended, Shorter, Replaced
    <2> QED BY <2>1
  <1>6. CASE q = <<pur, fin>>
    <2>1. Len(r) = 2 /\ r[1] = drp /\ r[2] = fin
      BY <1>1, <1>2, <1>6 DEF Form, Ended, Shorter, Replaced
    <2>2. r = <<drp, fin>>
      BY <2>1
    <2> QED BY <1>1, <1>3, <1>4, <1>6, <2>2
  <1>7. CASE q = <<drp, fin>> \/ q = <<drp, cnt>>
    <2>0. Len(q) = 2 /\ q[1] = drp
      BY <1>7
    <2>1. Len(r) = 1 /\ r[1] = q[2]
      BY <1>1, <2>0 DEF Form, Ended, Shorter, Replaced
    <2>2. r = <<q[2]>>
      BY <2>1
    <2> QED BY <1>1, <1>3, <1>4, <1>7, <2>2
  <1>8. CASE q = <<cnt>>
    <2>1. Len(r) = 1 /\ r[1] = rmb
      BY <1>1, <1>2, <1>8 DEF Form, Ended, Shorter, Replaced
    <2>2. r = <<rmb>>
      BY <2>1
    <2> QED BY <1>1, <1>3, <1>4, <1>8, <2>2
  <1> QED BY <1>3, <1>5, <1>6, <1>7, <1>8

-----------------------------------------------------------------------------
(* What the steps do to tasks and snapshots.                               *)

Same(i) ==
  /\ tasks'[i].doc = tasks[i].doc /\ tasks'[i].kind = tasks[i].kind /\ tasks'[i].algo = tasks[i].algo

\* Task id enters another phase.
Enters(id, phase) ==
  /\ id \in 1..Len(tasks) /\ Len(tasks') = Len(tasks) /\ tasks'[id].phase = phase
  /\ \A i \in 1..Len(tasks) : Same(i) /\ (i # id => tasks'[i] = tasks[i])

LEMMA PhaseEnters ==
  ASSUME Typed, NEW id \in 1..Len(tasks), NEW phase \in Phases,
         tasks' = [tasks EXCEPT ![id].phase = phase]
  PROVE  Enters(id, phase)
  BY PhaseTyped DEF Enters, Same

\* The snapshot of d becomes one of the task id.
Sets(d, status, id) ==
  /\ snap'[d] = [status |-> status, task |-> id]
  /\ \A e \in Docs : e # d => snap'[e] = snap[e]

LEMMA SetSnapSets ==
  ASSUME Typed, NEW id \in 1..Len(tasks), NEW status, SetSnap(id, status)
  PROVE  Sets(tasks[id].doc, status, id) /\ tasks[id].doc \in Docs
  <1>1. tasks[id].doc \in Docs
    <2>1. tasks[id] \in TaskRec
      BY Shape
    <2> QED BY <2>1 DEF TaskRec
  <1> QED BY <1>1, Shape DEF SetSnap, Sets

Submits(t, d, kind, id) ==
  /\ id = Len(tasks) + 1 /\ Len(tasks') = id
  /\ \A i \in 1..Len(tasks) : tasks'[i] = tasks[i]
  /\ tasks'[id].doc = d /\ tasks'[id].kind = kind /\ tasks'[id].phase = "queued"
  /\ Sets(d, IF kind = "ADD" THEN "WAITING" ELSE "DELETING", id)
  /\ Done(t) /\ mishap' = mishap

LEMMA SubmitSubmits ==
  ASSUME Typed, NEW t \in Threads, Submit(t)
  PROVE  /\ Op1(t).doc \in Docs /\ Op1(t).kind \in Kinds /\ Op1(t).do = "submit"
         /\ mishap' \/ Submits(t, Op1(t).doc, Op1(t).kind, Len(tasks) + 1)
         /\ Len(tasks') = Len(tasks) + 1 /\ \A i \in 1..Len(tasks) : tasks'[i] = tasks[i]
         /\ UNCHANGED <<kb, bindings, rel>>
  <1>1. Op1(t).doc \in Docs /\ Op1(t).kind \in Kinds /\ Op1(t).do = "submit"
    BY OpShape DEF Submit, Does
  <1> DEFINE task(p) == [doc |-> Op1(t).doc, kind |-> Op1(t).kind, algo |-> Op1(t).algo, phase |-> p]
  <1>2. \/ /\ mishap' /\ \E p : tasks' = Append(tasks, task(p))
        \/ /\ tasks' = Append(tasks, task("queued")) /\ mishap' = mishap /\ Done(t)
           /\ snap' = [snap EXCEPT ![Op1(t).doc] =
                         [status |-> IF Op1(t).kind = "ADD" THEN "WAITING" ELSE "DELETING",
                          task |-> Len(tasks) + 1]]
    BY DEF Submit, Mishap, Calm
  <1>3. \A p : tasks' = Append(tasks, task(p)) =>
          /\ Len(tasks') = Len(tasks) + 1 /\ \A i \in 1..Len(tasks) : tasks'[i] = tasks[i]
          /\ tasks'[Len(tasks) + 1] = task(p)
    BY Shape
  <1>4. UNCHANGED <<kb, bindings, rel>>
    BY DEF Submit, store
  <1>5. ASSUME tasks' = Append(tasks, task("queued")), mishap' = mishap, Done(t),
               snap' = [snap EXCEPT ![Op1(t).doc] =
                         [status |-> IF Op1(t).kind = "ADD" THEN "WAITING" ELSE "DELETING",
                          task |-> Len(tasks) + 1]]
        PROVE  Submits(t, Op1(t).doc, Op1(t).kind, Len(tasks) + 1)
    <2>1. Sets(Op1(t).doc, IF Op1(t).kind = "ADD" THEN "WAITING" ELSE "DELETING", Len(tasks) + 1)
      BY <1>1, <1>5, Shape DEF Sets
    <2> QED BY <1>3, <1>5, <2>1 DEF Submits
  <1> QED BY <1>1, <1>2, <1>3, <1>4, <1>5

Cancels(t, d, id) ==
  /\ id = snap[d].task /\ id # 0 /\ tasks[id].phase = "queued" /\ Enters(id, "canceled")
  /\ snap'[d].status = "CANCELED" /\ snap'[d].task = id
  /\ \A e \in Docs : e # d => snap'[e] = snap[e]
  /\ Done(t)

LEMMA CancelCancels ==
  ASSUME Typed, NEW t \in Threads, Cancel(t)
  PROVE  /\ Op1(t).doc \in Docs /\ Op1(t).do = "cancel"
         /\ \/ Drop(t) /\ UNCHANGED <<snap, tasks>>
            \/ Cancels(t, Op1(t).doc, snap[Op1(t).doc].task)
         /\ UNCHANGED <<kb, bindings, rel, mishap>>
  <1>1. Op1(t).doc \in Docs /\ Op1(t).do = "cancel" /\ UNCHANGED <<kb, bindings, rel, mishap>>
    BY OpShape DEF Cancel, Does, store
  <1>2. PICK d \in Docs : d = Op1(t).doc
    BY <1>1
  <1>3. PICK id \in 0..Len(tasks) : id = snap[d].task
    BY Shape, SameStore DEF SnapRec
  <1>4. ASSUME id # 0, tasks[id].phase = "queued", tasks' = [tasks EXCEPT ![id].phase = "canceled"],
               snap' = [snap EXCEPT ![d].status = "CANCELED"], Done(t)
        PROVE  Cancels(t, d, id)
    <2>1. id \in 1..Len(tasks)
      BY <1>4, Shape
    <2>2. Enters(id, "canceled")
      BY <1>4, <2>1, PhaseEnters DEF Phases
    <2>3. /\ snap'[d].status = "CANCELED" /\ snap'[d].task = id
          /\ \A e \in Docs : e # d => snap'[e] = snap[e]
      BY <1>3, <1>4, Shape DEF SnapRec
    <2> QED BY <1>3, <1>4, <2>2, <2>3 DEF Cancels
  <1> QED BY <1>1, <1>2, <1>3, <1>4 DEF Cancel

LEMMA StartedEnters ==
  ASSUME Typed, NEW id \in 1..Len(tasks), Started(id)
  PROVE  /\ tasks[id].phase = "queued" /\ Enters(id, "working") /\ tasks[id].doc \in Docs
         /\ IF snap[tasks[id].doc].task \notin {0, id} THEN snap' = snap
            ELSE Sets(tasks[id].doc, IF tasks[id].kind = "ADD" THEN "WORKING" ELSE "DELETING", id)
         /\ UNCHANGED <<kb, bindings, rel, todo, serving, mishap>>
  <1>1. tasks[id] \in TaskRec
    BY Shape
  <1> QED BY <1>1, PhaseEnters, SetSnapSets DEF Started, Stale, Phases, TaskRec, store

LEMMA FinishedEnters ==
  ASSUME Typed, NEW t \in Threads, NEW id \in 1..Len(tasks), Finished(t, id)
  PROVE  /\ Free(t) /\ tasks[id].phase \in {"working", "again"} /\ Enters(id, "gone")
         /\ tasks[id].doc \in Docs /\ UNCHANGED <<kb, bindings, rel>>
         /\ \/ mishap' /\ UNCHANGED <<todo, serving>>
            \/ /\ mishap' = mishap
               /\ IF snap[tasks[id].doc].task \notin {0, id} THEN UNCHANGED <<snap, todo, serving>>
                  ELSE /\ Sets(tasks[id].doc, IF tasks[id].kind = "ADD" THEN "SUCCESS" ELSE "DELETED", id)
                       /\ todo'[t] = Cleanup(id)
                       /\ serving'[t] = (IF tasks[id].kind = "ADD" THEN 0 ELSE id)
                       /\ \A u \in Threads \ {t} : todo'[u] = todo[u] /\ serving'[u] = serving[u]
  <1>1. tasks[id] \in TaskRec
    BY Shape
  <1>2. Free(t) /\ tasks[id].phase \in {"working", "again"} /\ Enters(id, "gone")
    BY PhaseEnters DEF Finished, Phases
  <1>3. tasks[id].doc \in Docs /\ UNCHANGED <<kb, bindings, rel>>
    BY <1>1 DEF Finished, TaskRec, store
  <1>4. CASE mishap' /\ UNCHANGED <<todo, serving>>
    BY <1>2, <1>3, <1>4
  <1>5. CASE Calm /\ Stale(id)
    BY <1>2, <1>3, <1>5 DEF Finished, Stale, Calm, Mishap
  <1>6. CASE /\ Calm /\ ~Stale(id)
             /\ SetSnap(id, IF tasks[id].kind = "ADD" THEN "SUCCESS" ELSE "DELETED")
             /\ todo' = [todo EXCEPT ![t] = Cleanup(id)]
             /\ serving' = [serving EXCEPT ![t] = IF tasks[id].kind = "ADD" THEN 0 ELSE id]
    <2>1. Sets(tasks[id].doc, IF tasks[id].kind = "ADD" THEN "SUCCESS" ELSE "DELETED", id)
      BY <1>6, SetSnapSets
    <2>2. /\ todo'[t] = Cleanup(id)
          /\ serving'[t] = (IF tasks[id].kind = "ADD" THEN 0 ELSE id)
          /\ \A u \in Threads \ {t} : todo'[u] = todo[u] /\ serving'[u] = serving[u]
      BY <1>6, Shape
    <2> QED BY <1>2, <1>3, <1>6, <2>1, <2>2 DEF Stale, Calm
  <1> QED BY <1>4, <1>5, <1>6 DEF Finished, Mishap

LEMMA InterruptedEnters ==
  ASSUME Typed, NEW t \in Threads, Interrupted(t)
  PROVE  /\ ~Free(t) /\ todo'[t] = << >> /\ serving'[t] = 0
         /\ \A u \in Threads \ {t} : todo'[u] = todo[u] /\ serving'[u] = serving[u]
         /\ UNCHANGED <<kb, bindings, rel, snap>>
         /\ \/ serving[t] = 0 /\ mishap' /\ tasks' = tasks
            \/ /\ serving[t] # 0 /\ Enters(serving[t], "again")
               /\ ~mishap' => /\ ~mishap
                              /\ \A i \in 1..Len(tasks) :
                                   tasks[i].doc = tasks[serving[t]].doc /\ tasks[i].kind # "ADD" =>
                                     i = serving[t]
  <1>1. /\ todo'[t] = << >> /\ serving'[t] = 0
        /\ \A u \in Threads \ {t} : todo'[u] = todo[u] /\ serving'[u] = serving[u]
    <2>1. << >> \in Seq(FitOps) /\ Continue(t, << >>)
      BY DEF Interrupted, Drop
    <2> QED BY <2>1, ContinueTyped
  <1>2. ~Free(t) /\ UNCHANGED <<kb, bindings, rel, snap>>
    BY DEF Interrupted, store
  <1>3. CASE serving[t] = 0
    BY <1>1, <1>2, <1>3 DEF Interrupted, Mishap
  <1>4. CASE serving[t] # 0
    <2>1. PICK id \in 1..Len(tasks) : id = serving[t]
      BY <1>4, Shape, SameStore
    <2>2. Enters(id, "again")
      BY <1>4, <2>1, PhaseEnters DEF Interrupted, Phases
    <2>3. ~mishap' => ~mishap /\ {i \in DOMAIN tasks \ {id} : tasks[i].doc = tasks[id].doc
                                                              /\ tasks[i].kind # "ADD"} = {}
      BY <1>4, <2>1 DEF Interrupted
    <2>4. DOMAIN tasks = 1..Len(tasks)
      BY Shape
    <2> QED BY <1>1, <1>2, <1>4, <2>1, <2>2, <2>3, <2>4
  <1> QED BY <1>3, <1>4

\* Transactions that leave the tasks alone.
LEMMA OthersTasks ==
  ASSUME NEW t \in Threads, Transaction(t)
  PROVE  Submit(t) \/ Cancel(t) \/ tasks' = tasks
  BY DEF Transaction, EnsureKb, BindAlgo, BindDoc, RemoveDoc, DropSnap, Refuse,
         SetDeleting, Finalize, CountLeft, RemoveBinding

LEMMA TransactionSame ==
  ASSUME Typed, NEW t \in Threads, Transaction(t)
  PROVE  /\ Len(tasks) <= Len(tasks')
         /\ \A i \in 1..Len(tasks) : Same(i) /\ (tasks[i].phase = "gone" => tasks'[i].phase = "gone")
  <1>1. Len(tasks) \in Nat
    BY Shape
  <1>2. CASE Submit(t)
    BY <1>1, <1>2, SubmitSubmits DEF Same
  <1>3. CASE Cancel(t)
    BY <1>1, <1>3, CancelCancels DEF Cancels, Enters, Same
  <1>4. CASE tasks' = tasks
    BY <1>1, <1>4 DEF Same
  <1> QED BY <1>2, <1>3, <1>4, OthersTasks

-----------------------------------------------------------------------------
(* What a request has ahead when it is admitted.                           *)

Awaits == {"WAITING", "WORKING"}

\* What the handler has found out before.
Checked(ops) ==
  \A i \in 1..Len(ops) :
    /\ ops[i].do = "cancel" => snap[ops[i].doc].status = "WAITING"
    /\ ops[i].do = "submit" /\ ops[i].kind # "ADD" => snap[ops[i].doc].status \notin Awaits
    /\ ops[i].do = "purge" => snap[ops[i].doc].status \in {None, "DELETED"}
    /\ ops[i].do # "dropSnap"
    /\ ops[i].do = "bindAlgo" => kb # None \/ ops[1].do = "ensureKb"
    /\ ops[i].do = "bindDoc" \/ ops[i].kind = "ADD" =>
         /\ bindings # {} /\ ops[1].do = "bindDoc"
         /\ ops[i].doc \in rel => snap[ops[i].doc].status \in {"FAILED", "CANCELED", "DELETED"}
         /\ ~mishap' => ~Doomed /\ ~Touched(ops[i].doc)

\* Only the deletion of the knowledge base is admitted during another one, and it
\* leaves out no document.
Whole(ops) ==
  ops # << >> /\ ~mishap' =>
    /\ Last(ops) \notin Ends =>
         ~Doomed \/ kb = "ACTIVE" \/ \E d \in rel : snap[d].status \notin {"DELETING", "DELETED"}
    /\ Last(ops) = "finalize" =>
         \A d \in rel : \E i \in 1..Len(ops) : ops[i].do = "purge" /\ ops[i].doc = d
    /\ Last(ops) = "setDeleting" =>
         /\ \A i \in 1..Len(ops) : ops[i].do # "purge"
         /\ \E i \in 1..Len(ops) : ops[i].do = "submit" /\ ops[i].kind = "PURGE"
         /\ \A d \in rel : \E i \in 1..Len(ops) :
              ops[i].do = "submit" /\ ops[i].kind = "PURGE" /\ ops[i].doc = d

Asks(t, ops) ==
  /\ Admit(t, ops) /\ Plan(ops) /\ Checked(ops) /\ Whole(ops)
  /\ ~mishap' => ~mishap /\ ~Meanwhile

LEMMA MakeAsks ==
  ASSUME Typed, NEW t \in Threads, NEW a \in Algos \cup {None},
         (a # None /\ Create(t, a)) \/ Update(t, a)
  PROVE  \E ops \in Seq(FitOps) : Asks(t, ops)
  <1> DEFINE o == Do("ensureKb")
             p == DoAlgo("bindAlgo", a)
  <1>1. /\ o \in FitOps /\ o.do = "ensureKb" /\ o.kind = None
        /\ p.do = "bindAlgo" /\ p.kind = None /\ (a # None => p \in FitOps)
    BY DoFits, DoAlgoFits, DoShape
  <1>2. /\ mishap' = (mishap \/ Meanwhile \/ Doomed)
        /\ \/ a # None /\ kb = None /\ Admit(t, <<o, p>>)
           \/ kb # None /\ a # None /\ Admit(t, <<p>> \o <<o>>)
           \/ kb # None /\ a = None /\ Admit(t, << >> \o <<o>>)
    BY DEF Create, Update
  <1> HIDE DEF o, p
  <1>3. ASSUME NEW ops \in Seq(FitOps), Admit(t, ops), Len(ops) \in {1, 2},
               \A i \in 1..Len(ops) : ops[i] \in {o, p},
               kb # None \/ ops[1] = o
        PROVE  Asks(t, ops)
    <2>1. \A i \in 1..Len(ops) : ops[i].do \in {"ensureKb", "bindAlgo"} /\ ops[i].kind = None
      BY <1>1, <1>3
    <2>2. Last(ops) \in {"ensureKb", "bindAlgo"}
      BY <1>3, <2>1 DEF Last
    <2>3. Plan(ops)
      BY <2>1, <2>2 DEF Plan, Ends, None
    <2>4. Checked(ops)
      BY <1>1, <1>3, <2>1 DEF Checked, None
    <2>5. Whole(ops)
      BY <1>2, <2>2 DEF Whole, Ends
    <2> QED BY <1>2, <1>3, <2>3, <2>4, <2>5 DEF Asks
  <1>4. CASE a # None /\ kb = None /\ Admit(t, <<o, p>>)
    <2>1. /\ <<o, p>> \in Seq(FitOps) /\ Len(<<o, p>>) = 2 /\ <<o, p>>[1] = o
          /\ \A i \in 1..2 : <<o, p>>[i] \in {o, p}
      BY <1>1, <1>4
    <2> QED BY <1>3, <1>4, <2>1
  <1>5. CASE kb # None /\ a # None /\ Admit(t, <<p>> \o <<o>>)
    <2> DEFINE w == <<p>> \o <<o>>
    <2>1. p \in FitOps /\ o \in FitOps
      BY <1>1, <1>5
    <2>2. w \in Seq(FitOps) /\ Len(w) = 2 /\ w[1] = p /\ w[2] = o
      BY <2>1
    <2> HIDE DEF w
    <2>3. \A i \in 1..Len(w) : w[i] \in {o, p}
      BY <2>2
    <2>4. Admit(t, w)
      BY <1>5 DEF w
    <2> QED BY <1>3, <1>5, <2>2, <2>3, <2>4
  <1>6. CASE kb # None /\ a = None /\ Admit(t, << >> \o <<o>>)
    <2>1. /\ << >> \o <<o>> = <<o>> /\ <<o>> \in Seq(FitOps) /\ Len(<<o>>) = 1
          /\ \A i \in 1..1 : <<o>>[i] \in {o, p}
      BY <1>1, <1>6
    <2> QED BY <1>3, <1>6, <2>1
  <1> QED BY <1>2, <1>4, <1>5, <1>6

LEMMA UploadAsks ==
  ASSUME Typed, NEW t \in Threads, NEW d \in Docs, Upload(t, d)
  PROVE  \E ops \in Seq(FitOps) : Asks(t, ops)
  <1> DEFINE o == DoDoc("bindDoc", d)
             p == DoSubmit("ADD", d, None)
             q == <<o, p>>
  <1>1. /\ o \in FitOps /\ o.do = "bindDoc" /\ o.kind = None /\ o.doc = d
        /\ p \in FitOps /\ p.do = "submit" /\ p.kind = "ADD" /\ p.doc = d
    <2>1. o \in FitOps /\ p \in FitOps
      BY DoDocFits, DoSubmitFits DEF Kinds
    <2> QED BY <2>1, DoShape, DocShape
  <1>2. Uploads(q, d)
    BY DEF Uploads
  <1>3. /\ Admit(t, q) /\ bindings # {} /\ mishap' = (mishap \/ Meanwhile \/ Doomed \/ Touched(d))
        /\ d \in rel => snap[d].status \in {"FAILED", "CANCELED", "DELETED"}
    BY DEF Upload
  <1> HIDE DEF o, p
  <1>4. /\ q \in Seq(FitOps) /\ Len(q) = 2 /\ q[1] = o /\ q[2] = p /\ 1..Len(q) = {1, 2}
    BY <1>1
  <1> HIDE DEF q
  <1>5. Last(q) = "submit" /\ \A i \in 1..Len(q) : q[i] \in {o, p}
    BY <1>1, <1>4 DEF Last
  <1>6. Plan(q)
    BY <1>1, <1>2, <1>4, <1>5 DEF Plan, Ends, None
  <1>7. Checked(q)
    BY <1>1, <1>3, <1>4, <1>5 DEF Checked, None
  <1>8. Whole(q)
    BY <1>3, <1>5 DEF Whole, Ends
  <1> QED BY <1>3, <1>4, <1>6, <1>7, <1>8 DEF Asks

LEMMA DeleteAsks ==
  ASSUME Typed, NEW t \in Threads, NEW d \in Docs, Delete(t, d)
  PROVE  \E ops \in Seq(FitOps) : Asks(t, ops)
  <1>1. PICK o : /\ Admit(t, <<o>>)
                 /\ o = IF WaitsToBeAdded(d) THEN DoDoc("cancel", d) ELSE DoSubmit("DELETE", d, None)
    BY DEF Delete
  <1>2. /\ o \in FitOps /\ o.doc = d
        /\ \/ o.do = "cancel" /\ o.kind = None /\ snap[d].status = "WAITING"
           \/ o.do = "submit" /\ o.kind = "DELETE" /\ snap[d].status # "WAITING"
    <2>1. DoDoc("cancel", d) \in FitOps /\ DoSubmit("DELETE", d, None) \in FitOps
      BY DoDocFits, DoSubmitFits DEF Kinds
    <2>2. CASE WaitsToBeAdded(d)
      <3>1. o = DoDoc("cancel", d) /\ snap[d].status = "WAITING"
        BY <1>1, <2>2 DEF WaitsToBeAdded
      <3>2. o \in FitOps /\ o.doc = d
        BY <2>1, <3>1, DocShape
      <3>3. o.do = "cancel" /\ o.kind = None
        BY <3>1, DoShape
      <3> QED BY <3>1, <3>2, <3>3
    <2>3. CASE ~WaitsToBeAdded(d)
      BY <1>1, <2>1, <2>3, DoShape, DocShape DEF WaitsToBeAdded
    <2> QED BY <2>2, <2>3
  <1>3. /\ d \in rel /\ snap[d].status \notin {"DELETING", "DELETED", "WORKING"}
        /\ mishap' = (mishap \/ Meanwhile)
    BY DEF Delete, Polite
  <1> DEFINE q == <<o>>
  <1>4. q \in Seq(FitOps) /\ Len(q) = 1 /\ q[1] = o /\ \A i \in 1..Len(q) : i = 1
    BY <1>2
  <1>5. Admit(t, q)
    BY <1>1
  <1> HIDE DEF q
  <1>6. Last(q) = o.do
    BY <1>4 DEF Last
  <1>7. Plan(q)
    BY <1>2, <1>4, <1>6 DEF Plan, Ends, None
  <1>8. Checked(q)
    BY <1>2, <1>3, <1>4 DEF Checked, None, Awaits
  <1>9. Whole(q)
    BY <1>2, <1>3, <1>6 DEF Whole, Ends
  <1> QED BY <1>3, <1>4, <1>5, <1>7, <1>8, <1>9 DEF Asks

LEMMA OrderHits ==
  ASSUME NEW ops, IsFiniteSet(ops), NEW q \in Orders(ops), NEW o \in ops
  PROVE  \E i \in 1..Len(q) : q[i] = o
  <1> DEFINE n == Cardinality(ops)
  <1>1. n \in Nat
    BY FS_CardinalityType
  <1>2. q \in [1..n -> ops] /\ \A i, j \in 1..n : q[i] = q[j] => i = j
    BY DEF Orders
  <1>3. Cardinality(1..n) = n
    BY <1>1, FS_Interval
  <1> HIDE DEF n
  <1>4. q \in Injection(1..n, ops)
    BY <1>2 DEF Injection, IsInjective
  <1>5. q \in Surjection(1..n, ops)
    BY <1>3, <1>4, FS_Injection DEF n
  <1>6. PICK i \in 1..n : q[i] = o
    BY <1>5 DEF Surjection
  <1>7. Len(q) = n
    BY <1>1, <1>2
  <1> QED BY <1>6, <1>7

LEMMA DeleteKbAsks ==
  ASSUME Typed, NEW t \in Threads, DeleteKb(t)
  PROVE  \E ops \in Seq(FitOps) : Asks(t, ops)
  <1> DEFINE clean == {d \in rel : snap[d].status \in {None, "DELETED"}}
             purges == {DoDoc("purge", d) : d \in clean}
             sends == {DoSubmit("PURGE", p[1], p[2]) : p \in (rel \ clean) \X bindings}
             items == purges \cup sends
             end == DeleteKbTail(items)
  <1>1. /\ kb # None /\ bindings # {} /\ \A d \in rel : snap[d].status \notin Awaits
        /\ mishap' = (mishap \/ Meanwhile \/ clean \notin {{}, rel})
        /\ \E q \in Orders(items) : Admit(t, Append(q, end))
    BY DEF DeleteKb, Awaits
  <1>2. PICK q \in Orders(items) : Admit(t, Append(q, end))
    BY <1>1
  <1>3. IsFiniteSet(items) /\ items \subseteq FitOps
    <2>1. clean \in SUBSET Docs /\ rel \ clean \in SUBSET Docs /\ bindings \in SUBSET Algos
      BY SameStore
    <2> QED BY <2>1, ItemsFit
  <1>4. /\ \A o \in purges : /\ o.do = "purge" /\ o.kind = None
                            /\ snap[o.doc].status \in {None, "DELETED"}
        /\ \A o \in sends : /\ o.do = "submit" /\ o.kind = "PURGE" /\ o.doc \in rel \ clean
    BY DoShape, DocShape
  <1>5. \A d \in clean : \E o \in items : o.do = "purge" /\ o.doc = d
    BY DoShape, DocShape
  <1>6. \A d \in rel \ clean : \E o \in items : o.do = "submit" /\ o.kind = "PURGE" /\ o.doc = d
    <2> SUFFICES ASSUME NEW d \in rel \ clean
                 PROVE  \E o \in items : o.do = "submit" /\ o.kind = "PURGE" /\ o.doc = d
      OBVIOUS
    <2>1. PICK a \in bindings : TRUE
      BY <1>1
    <2> DEFINE o == DoSubmit("PURGE", d, a)
    <2>2. o \in items
      <3>1. <<d, a>> \in (rel \ clean) \X bindings /\ <<d, a>>[1] = d /\ <<d, a>>[2] = a
        BY <2>1
      <3> QED BY <3>1
    <2>3. o.do = "submit" /\ o.kind = "PURGE" /\ o.doc = d
      BY DoShape, DocShape
    <2> QED BY <2>2, <2>3
  <1>7. /\ end \in FitOps /\ end.kind = None
        /\ IF \E o \in items : o.do = "submit" THEN end.do = "setDeleting" ELSE end.do = "finalize"
    BY DoFits, DoShape DEF DeleteKbTail
  <1> DEFINE r == Append(q, end)
             n == Len(q)
  <1> HIDE DEF end
  <1>8. q \in Seq(FitOps) /\ n \in Nat /\ (\A i \in 1..n : q[i] \in items)
        /\ \A o \in items : \E i \in 1..n : q[i] = o
    <2> HIDE DEF items
    <2>1. q \in Seq(FitOps) /\ n \in Nat /\ \A i \in 1..n : q[i] \in items
      BY <1>3, OrderRange, OrderFits
    <2> QED BY <1>3, <2>1, OrderHits
  <1>9. /\ r \in Seq(FitOps) /\ Len(r) = n + 1 /\ r[n + 1] = end
        /\ \A i \in 1..n : r[i] = q[i]
    BY <1>7, <1>8
  <1> HIDE DEF r, n, purges, sends, clean
  <1>10. /\ Last(r) = end.do /\ r # << >>
         /\ \A i \in 1..Len(r) : \/ i = Len(r) /\ r[i] = end
                                 \/ i \in 1..n /\ r[i] \in purges
                                 \/ i \in 1..n /\ r[i] \in sends
         /\ \A o \in items : \E i \in 1..Len(r) : r[i] = o
    <2>1. Last(r) = end.do /\ r # << >>
      BY <1>8, <1>9 DEF Last
    <2>2. ASSUME NEW i \in 1..Len(r)
          PROVE  \/ i = Len(r) /\ r[i] = end
                 \/ i \in 1..n /\ r[i] \in purges
                 \/ i \in 1..n /\ r[i] \in sends
      <3>1. i = n + 1 \/ i \in 1..n
        BY <1>8, <1>9
      <3> QED BY <1>8, <1>9, <3>1
    <2>3. ASSUME NEW o \in items PROVE \E i \in 1..Len(r) : r[i] = o
      <3>1. PICK i \in 1..n : q[i] = o
        BY <1>8
      <3>2. i \in 1..Len(r) /\ r[i] = o
        BY <1>8, <1>9, <3>1
      <3> QED BY <3>2
    <2> QED BY <2>1, <2>2, <2>3
  <1>11. \A i \in 1..Len(r) :
           \/ r[i].do \in Ends /\ i = Len(r) /\ r[i].kind = None
           \/ r[i].do = "purge" /\ r[i].kind = None /\ snap[r[i].doc].status \in {None, "DELETED"}
           \/ r[i].do = "submit" /\ r[i].kind = "PURGE" /\ r[i].doc \in rel /\ Last(r) = "setDeleting"
    BY <1>4, <1>7, <1>10 DEF Ends, clean
  <1>12. Plan(r)
    BY <1>11 DEF Plan, Ends, None
  <1>13. Checked(r)
    BY <1>1, <1>11 DEF Checked, Ends, None
  <1>14. Whole(r)
    <2> SUFFICES ASSUME ~mishap' PROVE
           /\ Last(r) \in Ends
           /\ Last(r) = "finalize" =>
                \A d \in rel : \E i \in 1..Len(r) : r[i].do = "purge" /\ r[i].doc = d
           /\ Last(r) = "setDeleting" =>
                /\ \A i \in 1..Len(r) : r[i].do # "purge"
                /\ \E i \in 1..Len(r) : r[i].do = "submit" /\ r[i].kind = "PURGE"
                /\ \A d \in rel : \E i \in 1..Len(r) :
                     r[i].do = "submit" /\ r[i].kind = "PURGE" /\ r[i].doc = d
      BY DEF Whole
    <2>1. clean = {} \/ clean = rel
      BY <1>1
    <2>2. CASE \E o \in items : o.do = "submit"
      <3>1. Last(r) = "setDeleting" /\ clean = {}
        BY <1>4, <1>7, <1>10, <2>1, <2>2
      <3>2. purges = {}
        BY <3>1 DEF purges
      <3>3. \A i \in 1..Len(r) : r[i].do # "purge"
        BY <1>4, <1>10, <3>1, <3>2, <2>2, <1>7
      <3>4. \A d \in rel : \E i \in 1..Len(r) :
              r[i].do = "submit" /\ r[i].kind = "PURGE" /\ r[i].doc = d
        BY <1>6, <1>10, <3>1
      <3>5. \E i \in 1..Len(r) : r[i].do = "submit" /\ r[i].kind = "PURGE"
        <4>1. PICK o \in items : o.do = "submit"
          BY <2>2
        <4>2. o.kind = "PURGE"
          BY <1>4, <4>1
        <4> QED BY <1>10, <4>1, <4>2
      <3> QED BY <3>1, <3>3, <3>4, <3>5 DEF Ends
    <2>3. CASE ~\E o \in items : o.do = "submit"
      <3>1. Last(r) = "finalize" /\ rel \ clean = {}
        BY <1>6, <1>7, <1>10, <2>3
      <3>2. \A d \in rel : \E i \in 1..Len(r) : r[i].do = "purge" /\ r[i].doc = d
        BY <1>5, <1>10, <3>1
      <3> QED BY <3>1, <3>2 DEF Ends
    <2> QED BY <2>2, <2>3
  <1>15. Admit(t, r)
    BY <1>2 DEF r
  <1> QED BY <1>1, <1>9, <1>12, <1>13, <1>14, <1>15 DEF Asks

LEMMA UnbindAsks ==
  ASSUME Typed, NEW t \in Threads, NEW a \in Algos, Unbind(t, a)
  PROVE  \E ops \in Seq(FitOps) : Asks(t, ops)
  <1> DEFINE affected == {d \in rel : snap[d].status \notin {None, "DELETED", "DELETING"}}
             items == {UnbindOp(d, a) : d \in affected}
  <1>1. kb = "ACTIVE" /\ mishap' = (mishap \/ Meanwhile)
    BY DEF Unbind, Polite
  <1>2. CASE Admit(t, <<DoAlgo("removeBinding", a)>>)
    <2> DEFINE o == DoAlgo("removeBinding", a)
               r == <<o>>
    <2>1. o \in FitOps /\ o.do = "removeBinding" /\ o.kind = None
      BY DoAlgoFits, DoShape
    <2> HIDE DEF o
    <2>2. r \in Seq(FitOps) /\ Len(r) = 1 /\ r[1] = o /\ \A i \in 1..Len(r) : i = 1
      BY <2>1
    <2>3. Admit(t, r)
      BY <1>2 DEF o
    <2> HIDE DEF r
    <2>4. Last(r) = "removeBinding"
      BY <2>1, <2>2 DEF Last
    <2>5. Plan(r) /\ Checked(r) /\ Whole(r)
      BY <1>1, <2>1, <2>2, <2>4 DEF Plan, Checked, Whole, Ends, None
    <2> QED BY <1>1, <2>2, <2>3, <2>5 DEF Asks
  <1>3. ASSUME NEW q \in Orders(items), Admit(t, q), affected # {}
        PROVE  \E ops \in Seq(FitOps) : Asks(t, ops)
    <2>1. affected \in SUBSET Docs
      BY SameStore
    <2>2. \A d \in Docs : /\ UnbindOp(d, a) \in FitOps
                          /\ UnbindOp(d, a).do = "refuse" =>
                               UnbindOp(d, a).doc = None /\ UnbindOp(d, a).kind = None
                          /\ UnbindOp(d, a).do # "refuse" =>
                               /\ UnbindOp(d, a).doc = d /\ UnbindOp(d, a).kind = "UNBIND"
                               /\ \/ UnbindOp(d, a).do = "cancel" /\ snap[d].status = "WAITING"
                                  \/ UnbindOp(d, a).do = "submit" /\ snap[d].status \notin Awaits
      <3> SUFFICES ASSUME NEW d \in Docs, NEW o, o = UnbindOp(d, a)
                   PROVE  /\ o \in FitOps
                          /\ o.do = "refuse" => o.doc = None /\ o.kind = None
                          /\ o.do # "refuse" =>
                               /\ o.doc = d /\ o.kind = "UNBIND"
                               /\ \/ o.do = "cancel" /\ snap[d].status = "WAITING"
                                  \/ o.do = "submit" /\ snap[d].status \notin Awaits
        OBVIOUS
      <3>1. CASE snap[d].status = "WORKING"
        <4>1. o = Do("refuse")
          BY <3>1 DEF UnbindOp, WaitsToBeAdded
        <4> QED BY <4>1, DoFits, DoShape, DocShape
      <3>2. CASE snap[d].status = "WAITING"
        <4>1. o = [DoSubmit("UNBIND", d, a) EXCEPT !.do = "cancel"]
          BY <3>2 DEF UnbindOp, WaitsToBeAdded
        <4>2. o \in FitOps
          BY <4>1, DoSubmitFits DEF Kinds
        <4>3. o.do = "cancel" /\ o.doc = d /\ o.kind = "UNBIND"
          BY <4>1 DEF DoSubmit
        <4> QED BY <3>2, <4>2, <4>3
      <3>3. CASE snap[d].status \notin Awaits
        <4>1. o = DoSubmit("UNBIND", d, a)
          BY <3>3 DEF UnbindOp, WaitsToBeAdded, Awaits
        <4>2. o \in FitOps
          BY <4>1, DoSubmitFits DEF Kinds
        <4> QED BY <3>3, <4>1, <4>2, DoShape, DocShape
      <3> QED BY <3>1, <3>2, <3>3 DEF Awaits
    <2>3. IsFiniteSet(items) /\ items \subseteq FitOps
      BY <2>1, <2>2, FiniteUnbinds
    <2>4. /\ \A o \in items :
               \/ o.do = "refuse" /\ o.doc = None /\ o.kind = None
               \/ /\ o.do \in {"cancel", "submit"} /\ o.doc \in Docs /\ o.kind = "UNBIND"
                  /\ o = UnbindOp(o.doc, a)
                  /\ o.do = "cancel" => snap[o.doc].status = "WAITING"
                  /\ o.do = "submit" => snap[o.doc].status \notin Awaits
      <3> SUFFICES ASSUME NEW d \in affected, NEW o, o = UnbindOp(d, a)
                   PROVE  \/ o.do = "refuse" /\ o.doc = None /\ o.kind = None
                          \/ /\ o.do \in {"cancel", "submit"} /\ o.doc \in Docs /\ o.kind = "UNBIND"
                             /\ o = UnbindOp(o.doc, a)
                             /\ o.do = "cancel" => snap[o.doc].status = "WAITING"
                             /\ o.do = "submit" => snap[o.doc].status \notin Awaits
        OBVIOUS
      <3> QED BY <2>1, <2>2
    <2>5. /\ Len(q) \in Nat /\ q \in Seq(FitOps) /\ DOMAIN q = 1..Len(q)
          /\ \A i \in 1..Len(q) : q[i] \in items
          /\ \A i, j \in 1..Len(q) : q[i] = q[j] => i = j
          /\ q # << >>
      <3>1. PICK d \in affected : TRUE
        BY <1>3
      <3>2. UnbindOp(d, a) \in items
        OBVIOUS
      <3> HIDE DEF items
      <3>3. /\ Len(q) \in Nat /\ q \in Seq(FitOps) /\ DOMAIN q = 1..Len(q)
            /\ \A i \in 1..Len(q) : q[i] \in items
        BY <2>3, OrderRange, OrderFits
      <3>4. \A i, j \in 1..Len(q) : q[i] = q[j] => i = j
        BY <3>3 DEF Orders
      <3>5. \E i \in 1..Len(q) : q[i] = UnbindOp(d, a)
        BY <2>3, <3>2, OrderHits
      <3> QED BY <3>3, <3>4, <3>5
    <2> HIDE DEF items
    <2>6. Last(q) \in {"refuse", "cancel", "submit"}
      <3>1. Len(q) \in 1..Len(q)
        BY <2>5
      <3> QED BY <2>4, <2>5, <3>1 DEF Last
    <2>7. Plan(q)
      <3> SUFFICES ASSUME NEW i \in 1..Len(q)
                   PROVE  /\ q[i].do \in {"refuse", "cancel", "submit"}
                          /\ q[i].kind \in {None, "UNBIND"}
                          /\ q[i].do = "cancel" => \A j \in 1..Len(q) : q[j].doc = q[i].doc => j = i
        BY <2>6 DEF Plan, Ends, None
      <3>1. q[i].do \in {"refuse", "cancel", "submit"} /\ q[i].kind \in {None, "UNBIND"}
        BY <2>4, <2>5
      <3>2. ASSUME q[i].do = "cancel", NEW j \in 1..Len(q), q[j].doc = q[i].doc PROVE j = i
        <4>1. q[i].doc \in Docs /\ q[i] = UnbindOp(q[i].doc, a)
          BY <2>4, <2>5, <3>2
        <4>2. q[j].doc # None
          BY <3>2, <4>1, KbAssumption
        <4>3. q[j] = UnbindOp(q[j].doc, a)
          BY <2>4, <2>5, <4>2
        <4> QED BY <2>5, <3>2, <4>1, <4>3
      <3> QED BY <3>1, <3>2
    <2>8. Checked(q)
      BY <2>4, <2>5 DEF Checked, None
    <2>9. Whole(q)
      BY <1>1, <2>6 DEF Whole, Ends
    <2> QED BY <1>1, <1>3, <2>5, <2>7, <2>8, <2>9 DEF Asks
  <1> QED BY <1>2, <1>3 DEF Unbind

LEMMA RequestAsks ==
  ASSUME Typed, NEW t \in Threads, Request(t)
  PROVE  \E ops \in Seq(FitOps) : Asks(t, ops)
  <1>1. ASSUME NEW a \in Algos, Create(t, a) \/ Unbind(t, a)
        PROVE  \E ops \in Seq(FitOps) : Asks(t, ops)
    BY <1>1, MakeAsks, UnbindAsks, KbAssumption
  <1>2. ASSUME NEW a \in Algos \cup {None}, Update(t, a)
        PROVE  \E ops \in Seq(FitOps) : Asks(t, ops)
    BY <1>2, MakeAsks
  <1>3. ASSUME NEW d \in Docs, Upload(t, d) \/ Delete(t, d)
        PROVE  \E ops \in Seq(FitOps) : Asks(t, ops)
    BY <1>3, UploadAsks, DeleteAsks
  <1> QED BY <1>1, <1>2, <1>3, DeleteKbAsks DEF Request

-----------------------------------------------------------------------------
(* The lists stay what they are.                                           *)

ListOf(t) ==
  /\ Free(t) => serving[t] = 0
  /\ serving[t] # 0 => Finishes(todo[t], tasks[serving[t]]) /\ tasks[serving[t]].phase = "gone"
  /\ Requesting(t) => Plan(todo[t])
OneCallback == \A t, u \in Threads : serving[t] # 0 /\ serving[t] = serving[u] => t = u
Sorted == (\A t \in Threads : ListOf(t)) /\ OneCallback

LEMMA ServingTask ==
  ASSUME Typed, NEW t \in Threads, serving[t] # 0
  PROVE  serving[t] \in 1..Len(tasks) /\ tasks[serving[t]] \in TaskRec
  <1>1. serving[t] \in 1..Len(tasks)
    BY Shape, SameStore
  <1> QED BY <1>1, Shape

LEMMA StaysList ==
  ASSUME Typed, NEW t \in Threads, ListOf(t), todo'[t] = todo[t], serving'[t] = serving[t],
         \A i \in 1..Len(tasks) : Same(i),
         serving[t] # 0 => tasks'[serving[t]].phase = "gone"
  PROVE  ListOf(t)'
  <1>1. (Free(t)' <=> Free(t)) /\ (Requesting(t)' <=> Requesting(t))
    BY DEF Free, Requesting
  <1>2. CASE serving[t] = 0
    BY <1>1, <1>2 DEF ListOf
  <1>3. CASE serving[t] # 0
    <2>1. serving[t] \in 1..Len(tasks) /\ Same(serving[t])
      BY <1>3, ServingTask
    <2>2. Finishes(todo'[t], tasks'[serving'[t]])
      BY <1>3, <2>1 DEF ListOf, Finishes, Same
    <2> QED BY <1>1, <1>3, <2>2 DEF ListOf, Requesting
  <1> QED BY <1>2, <1>3

LEMMA TransactionSorted ==
  ASSUME Typed, Sorted, NEW t \in Threads, Transaction(t)
  PROVE  Sorted'
  <1>1. Goes(t)
    BY TransactionGoes
  <1>2. \A i \in 1..Len(tasks) : Same(i) /\ (tasks[i].phase = "gone" => tasks'[i].phase = "gone")
    BY TransactionSame
  <1>3. \A u \in Threads : serving[u] # 0 =>
          serving[u] \in 1..Len(tasks) /\ tasks[serving[u]].phase = "gone"
    BY ServingTask DEF Sorted, ListOf
  <1>4. ASSUME NEW u \in Threads, u # t PROVE ListOf(u)'
    <2>1. todo'[u] = todo[u] /\ serving'[u] = serving[u] /\ ListOf(u)
      BY <1>1, <1>4 DEF Goes, Sorted
    <2> QED BY <1>2, <1>3, <2>1, StaysList
  <1>5. ListOf(t)'
    <2> DEFINE q == todo[t]
               r == todo'[t]
    <2>1. /\ q \in Seq(FitOps) /\ q # << >> /\ r \in Seq(FitOps) /\ Form(q, r)
          /\ serving'[t] = (IF r = << >> THEN 0 ELSE serving[t])
      BY <1>1 DEF Goes, Free
    <2>2. CASE r = << >>
      BY <2>1, <2>2 DEF ListOf, Requesting, Free
    <2>3. CASE r # << >> /\ serving[t] = 0
      <3>1. Plan(q)
        BY <2>1, <2>3 DEF Sorted, ListOf, Requesting, Free
      <3>2. Plan(r)
        BY <2>1, <3>1, PlanGoes
      <3> QED BY <2>1, <2>3, <3>2 DEF ListOf, Requesting, Free
    <2>4. CASE r # << >> /\ serving[t] # 0
      <3>1. serving[t] \in 1..Len(tasks) /\ tasks[serving[t]] \in TaskRec /\ serving'[t] = serving[t]
        BY <2>1, <2>4, ServingTask
      <3>2. Finishes(q, tasks[serving[t]])
        BY <2>4 DEF Sorted, ListOf
      <3>3. Finishes(r, tasks[serving[t]])
        BY <2>1, <2>4, <3>1, <3>2, FinishesGoes
      <3>4. Finishes(r, tasks'[serving[t]]) /\ tasks'[serving[t]].phase = "gone"
        BY <1>2, <1>3, <2>4, <3>1, <3>3 DEF Finishes, Same
      <3> QED BY <2>4, <3>1, <3>4 DEF ListOf, Requesting, Free
    <2> QED BY <2>2, <2>3, <2>4
  <1>6. OneCallback'
    <2>1. \A u \in Threads : serving'[u] # 0 => serving'[u] = serving[u]
      BY <1>1 DEF Goes
    <2> QED BY <2>1 DEF OneCallback, Sorted
  <1> QED BY <1>4, <1>5, <1>6 DEF Sorted

LEMMA RequestSorted ==
  ASSUME Typed, Sorted, NEW t \in Threads, NEW ops \in Seq(FitOps), Asks(t, ops)
  PROVE  Sorted'
  <1>1. /\ todo'[t] = ops /\ serving'[t] = 0 /\ tasks' = tasks
        /\ \A u \in Threads \ {t} : todo'[u] = todo[u] /\ serving'[u] = serving[u]
    BY AdmitShape DEF Asks
  <1>2. \A u \in Threads \ {t} : ListOf(u)'
    BY <1>1, StaysList DEF Sorted, Same, ListOf
  <1>3. ListOf(t)'
    BY <1>1 DEF ListOf, Asks
  <1>4. OneCallback'
    <2>1. \A u \in Threads : serving'[u] # 0 => serving'[u] = serving[u]
      BY <1>1
    <2> QED BY <2>1 DEF OneCallback, Sorted
  <1> QED BY <1>2, <1>3, <1>4 DEF Sorted

\* What a callback has ahead.
LEMMA CleanupFinishes ==
  ASSUME Typed, NEW id \in 1..Len(tasks)
  PROVE  /\ tasks[id].kind = "ADD" => Cleanup(id) = << >>
         /\ tasks[id].kind # "ADD" => Finishes(Cleanup(id), tasks[id]) /\ Cleanup(id) # << >>
  <1>1. tasks[id].kind \in Kinds
    <2>1. tasks[id] \in TaskRec
      BY Shape
    <2> QED BY <2>1 DEF TaskRec
  <1>2. CASE tasks[id].kind = "ADD"
    BY <1>2 DEF Cleanup
  <1>3. CASE tasks[id].kind = "DELETE"
    <2>1. Cleanup(id) = <<DoDoc("removeDoc", tasks[id].doc)>>
      BY <1>3 DEF Cleanup
    <2> QED BY <1>3, <2>1 DEF Finishes
  <1>4. CASE tasks[id].kind = "PURGE"
    <2>1. Cleanup(id) = <<DoDoc("purge", tasks[id].doc), Do("finalize")>>
      BY <1>4 DEF Cleanup
    <2> QED BY <1>4, <2>1 DEF Finishes
  <1>5. CASE tasks[id].kind = "UNBIND"
    <2>1. Cleanup(id) = <<DoDoc("dropSnap", tasks[id].doc), DoAlgo("countLeft", tasks[id].algo)>>
      BY <1>5 DEF Cleanup
    <2> QED BY <1>5, <2>1 DEF Finishes
  <1> QED BY <1>1, <1>2, <1>3, <1>4, <1>5 DEF Kinds

LEMMA CallbackSorted ==
  ASSUME Typed, Sorted, NEW t \in Threads, NEW id \in 1..Len(tasks), Started(id) \/ Finished(t, id)
  PROVE  Sorted'
  <1>1. \A u \in Threads : serving[u] # 0 =>
          serving[u] \in 1..Len(tasks) /\ tasks[serving[u]].phase = "gone"
    BY ServingTask DEF Sorted, ListOf
  <1>2. /\ tasks[id].phase # "gone" /\ \E phase : Enters(id, phase)
        /\ \/ UNCHANGED <<todo, serving>>
           \/ /\ Free(t) /\ todo'[t] = Cleanup(id) /\ Enters(id, "gone")
              /\ serving'[t] = (IF tasks[id].kind = "ADD" THEN 0 ELSE id)
              /\ \A u \in Threads \ {t} : todo'[u] = todo[u] /\ serving'[u] = serving[u]
    <2>1. CASE Started(id)
      BY <2>1, StartedEnters
    <2>2. CASE Finished(t, id)
      BY <2>2, FinishedEnters
    <2> QED BY <2>1, <2>2
  <1>3. /\ \A i \in 1..Len(tasks) : Same(i)
        /\ \A u \in Threads : serving[u] # 0 => serving[u] # id /\ tasks'[serving[u]].phase = "gone"
    BY <1>1, <1>2 DEF Enters
  <1>4. \A u \in Threads : todo'[u] = todo[u] /\ serving'[u] = serving[u] => ListOf(u)'
    BY <1>3, StaysList DEF Sorted
  <1>5. CASE UNCHANGED <<todo, serving>>
    BY <1>4, <1>5 DEF Sorted, OneCallback
  <1>6. CASE /\ Free(t) /\ todo'[t] = Cleanup(id) /\ Enters(id, "gone")
             /\ serving'[t] = (IF tasks[id].kind = "ADD" THEN 0 ELSE id)
             /\ \A u \in Threads \ {t} : todo'[u] = todo[u] /\ serving'[u] = serving[u]
    <2>1. ListOf(t)'
      <3>1. CASE tasks[id].kind = "ADD"
        BY <1>6, <3>1, CleanupFinishes DEF ListOf, Requesting, Free
      <3>2. CASE tasks[id].kind # "ADD"
        <4>1. Finishes(Cleanup(id), tasks'[id])
          BY <1>3, <3>2, CleanupFinishes DEF Finishes, Same
        <4> QED BY <1>6, <3>2, <4>1, CleanupFinishes DEF ListOf, Requesting, Free, Enters
      <3> QED BY <3>1, <3>2
    <2>2. OneCallback'
      <3>1. \A u \in Threads : /\ u # t => serving'[u] = serving[u]
                               /\ serving'[t] # 0 => serving'[t] = id /\ serving[u] # id
        BY <1>3, <1>6
      <3> QED BY <3>1 DEF OneCallback, Sorted
    <2> QED BY <1>4, <1>6, <2>1, <2>2 DEF Sorted
  <1> QED BY <1>2, <1>5, <1>6

LEMMA InterruptedSorted ==
  ASSUME Typed, Sorted, NEW t \in Threads, Interrupted(t)
  PROVE  Sorted'
  <1>1. /\ todo'[t] = << >> /\ serving'[t] = 0
        /\ \A u \in Threads \ {t} : todo'[u] = todo[u] /\ serving'[u] = serving[u]
        /\ tasks' = tasks \/ (serving[t] # 0 /\ Enters(serving[t], "again"))
    BY InterruptedEnters
  <1>2. ListOf(t)'
    BY <1>1 DEF ListOf, Requesting, Free
  <1>3. ASSUME NEW u \in Threads, u # t PROVE ListOf(u)'
    <2>1. serving[u] # 0 => /\ serving[u] \in 1..Len(tasks) /\ tasks[serving[u]].phase = "gone"
                            /\ serving[u] # serving[t]
      BY <1>3, ServingTask DEF Sorted, ListOf, OneCallback
    <2>2. \A i \in 1..Len(tasks) : Same(i)
      BY <1>1 DEF Enters, Same
    <2>3. serving[u] # 0 => tasks'[serving[u]].phase = "gone"
      BY <1>1, <2>1 DEF Enters
    <2> QED BY <1>1, <1>3, <2>2, <2>3, StaysList DEF Sorted
  <1>4. OneCallback'
    BY <1>1 DEF OneCallback, Sorted
  <1> QED BY <1>2, <1>3, <1>4 DEF Sorted

LEMMA NextSorted ==
  ASSUME Typed, Sorted, [Next]_vars
  PROVE  Sorted'
  <1>1. ASSUME NEW t \in Threads, Request(t) PROVE Sorted'
    BY <1>1, RequestAsks, RequestSorted
  <1>2. ASSUME NEW t \in Threads, Transaction(t) \/ Interrupted(t) PROVE Sorted'
    BY <1>2, TransactionSorted, InterruptedSorted
  <1>3. ASSUME NEW t \in Threads, NEW id \in 1..Len(tasks), Callback(t, id) PROVE Sorted'
    BY <1>3, CallbackSorted DEF Callback
  <1>4. CASE Crash
    <2>1. \A t \in Threads : todo'[t] = << >> /\ serving'[t] = 0
      BY <1>4 DEF Crash
    <2> QED BY <2>1 DEF Sorted, ListOf, OneCallback, Requesting, Free
  <1>5. CASE UNCHANGED vars
    BY <1>5 DEF vars, Sorted, ListOf, OneCallback, Requesting, Free
  <1> QED BY <1>1, <1>2, <1>3, <1>4, <1>5 DEF Next

LEMMA InitSorted == ASSUME Init PROVE Sorted
  BY DEF Init, Sorted, ListOf, OneCallback, Requesting, Free

-----------------------------------------------------------------------------
(* What a handler has ahead of a document.                                 *)

Has(t, step, d) == \E i \in 1..Len(todo[t]) : todo[t][i].do = step /\ todo[t][i].doc = d
Sends(t, kind, d) ==
  \E i \in 1..Len(todo[t]) : todo[t][i].do = "submit" /\ todo[t][i].kind = kind /\ todo[t][i].doc = d
DocSteps == {"bindDoc", "cancel", "purge", "dropSnap"}

\* After a transaction: what comes in its place, what is left, and who goes on.
LEMMA Remains ==
  ASSUME Typed, NEW t \in Threads, Transaction(t)
  PROVE  /\ \A step \in DocSteps : \A d : Has(t, step, d)' =>
              \/ Has(t, step, d)
              \/ d = Op1(t).doc /\ Op1(t).do = "purge" /\ step = "dropSnap"
              \/ d = Op1(t).doc /\ Op1(t).do = "cancel" /\ Op1(t).kind = None /\ step = "purge"
         /\ \A kind, d : Sends(t, kind, d)' =>
              \/ Sends(t, kind, d)
              \/ d = Op1(t).doc /\ Op1(t).do = "cancel" /\ Op1(t).kind = kind
  <1> DEFINE q == todo[t]
             r == todo'[t]
             o == q[1]
  <1>1. /\ q \in Seq(FitOps) /\ r \in Seq(FitOps) /\ Form(q, r) /\ o \in FitOps /\ Op1(t) = o
        /\ Len(q) \in Nat /\ Len(q) >= 1 /\ Len(r) \in Nat
    BY TransactionGoes DEF Goes
  <1>2. ASSUME NEW j \in 1..Len(r)
        PROVE  \/ \E i \in 1..Len(q) : r[j] = q[i]
               \/ j = 1 /\ Succ(o, r[1])
    <2>1. CASE Shorter(q, r)
      <3>1. j + 1 \in 1..Len(q) /\ r[j] = q[j + 1]
        BY <1>1, <2>1 DEF Shorter
      <3> QED BY <3>1
    <2>2. CASE Replaced(q, r)
      <3>1. j = 1 \/ j \in 2..Len(q)
        BY <1>1, <2>2 DEF Replaced
      <3>2. j \in 2..Len(q) => j \in 1..Len(q) /\ r[j] = q[j]
        BY <1>1, <2>2 DEF Replaced
      <3> QED BY <2>2, <3>1, <3>2 DEF Replaced
    <2>3. CASE o.do = "countLeft" /\ Len(r) = 1 /\ Succ(o, r[1])
      BY <2>3
    <2>4. CASE Ended(q, r)
      BY <2>4 DEF Ended
    <2> QED BY <1>1, <2>1, <2>2, <2>3, <2>4 DEF Form
  <1>3. Succ(o, r[1]) =>
          /\ r[1].do \in {"dropSnap", "purge", "submit", "removeBinding"}
          /\ r[1].do = "dropSnap" => o.do = "purge" /\ r[1].doc = o.doc
          /\ r[1].do = "purge" => o.do = "cancel" /\ o.kind = None /\ r[1].doc = o.doc
          /\ r[1].do = "submit" => o.do = "cancel" /\ r[1].kind = o.kind /\ r[1].doc = o.doc
    <2>1. Succ(o, r[1]) => o.do \in {"purge", "cancel", "countLeft"}
      BY DEF Succ
    <2> QED BY <1>1, <2>1, SuccShape
  <1>4. ASSUME NEW step \in DocSteps, NEW d, Has(t, step, d)'
        PROVE  \/ Has(t, step, d)
               \/ d = o.doc /\ o.do = "purge" /\ step = "dropSnap"
               \/ d = o.doc /\ o.do = "cancel" /\ o.kind = None /\ step = "purge"
    <2>1. PICK j \in 1..Len(r) : r[j].do = step /\ r[j].doc = d
      BY <1>4 DEF Has
    <2>2. CASE \E i \in 1..Len(q) : r[j] = q[i]
      BY <2>1, <2>2 DEF Has
    <2>3. CASE j = 1 /\ Succ(o, r[1])
      BY <1>3, <2>1, <2>3 DEF DocSteps
    <2> QED BY <1>2, <2>2, <2>3
  <1>5. ASSUME NEW kind, NEW d, Sends(t, kind, d)'
        PROVE  Sends(t, kind, d) \/ (d = o.doc /\ o.do = "cancel" /\ o.kind = kind)
    <2>1. PICK j \in 1..Len(r) : r[j].do = "submit" /\ r[j].kind = kind /\ r[j].doc = d
      BY <1>5 DEF Sends
    <2>2. CASE \E i \in 1..Len(q) : r[j] = q[i]
      BY <2>1, <2>2 DEF Sends
    <2>3. CASE j = 1 /\ Succ(o, r[1])
      BY <1>3, <2>1, <2>3
    <2> QED BY <1>2, <2>2, <2>3
  <1> QED BY <1>1, <1>4, <1>5

LEMMA Keeps ==
  ASSUME Typed, NEW t \in Threads, Transaction(t), todo'[t] # << >>, Op1(t).do # "countLeft"
  PROVE  /\ \A step, d : Has(t, step, d) /\ (Op1(t).do # step \/ Op1(t).doc # d) => Has(t, step, d)'
         /\ \A kind, d : /\ Sends(t, kind, d)
                         /\ Op1(t).do # "submit" \/ Op1(t).doc # d
                         => Sends(t, kind, d)'
  <1> DEFINE q == todo[t]
             r == todo'[t]
             o == q[1]
  <1>1. /\ q \in Seq(FitOps) /\ r \in Seq(FitOps) /\ Form(q, r) /\ o \in FitOps /\ Op1(t) = o
        /\ Len(q) \in Nat /\ Len(q) >= 1 /\ Len(r) \in Nat
    BY TransactionGoes DEF Goes
  <1>2. ASSUME NEW i \in 1..Len(q), i # 1 PROVE \E j \in 1..Len(r) : r[j] = q[i]
    <2>1. i \in 2..Len(q)
      BY <1>1, <1>2
    <2>2. CASE Shorter(q, r)
      <3>1. i - 1 \in 1..Len(r) /\ r[i - 1] = q[(i - 1) + 1]
        BY <1>1, <2>1, <2>2 DEF Shorter
      <3> QED BY <3>1
    <2>3. CASE Replaced(q, r)
      BY <1>1, <2>1, <2>3 DEF Replaced
    <2> QED BY <1>1, <2>2, <2>3 DEF Form, Ended
  <1>3. ASSUME NEW step, NEW d, Has(t, step, d), o.do # step \/ o.doc # d PROVE Has(t, step, d)'
    <2>1. PICK i \in 1..Len(q) : q[i].do = step /\ q[i].doc = d
      BY <1>3 DEF Has
    <2>2. PICK j \in 1..Len(r) : r[j] = q[i]
      BY <1>2, <1>3, <2>1
    <2> QED BY <2>1, <2>2 DEF Has
  <1>4. ASSUME NEW kind, NEW d, Sends(t, kind, d), o.do # "submit" \/ o.doc # d
        PROVE  Sends(t, kind, d)'
    <2>1. PICK i \in 1..Len(q) : q[i].do = "submit" /\ q[i].kind = kind /\ q[i].doc = d
      BY <1>4 DEF Sends
    <2>2. PICK j \in 1..Len(r) : r[j] = q[i]
      BY <1>2, <1>4, <2>1
    <2> QED BY <2>1, <2>2 DEF Sends
  <1> QED BY <1>1, <1>3, <1>4

LEMMA LastGoes ==
  ASSUME Typed, NEW t \in Threads, Transaction(t), todo'[t] # << >>
  PROVE  /\ Last(todo[t])' \in Ends => Last(todo[t])' = Last(todo[t])
         /\ Last(todo[t]) \in Ends /\ Op1(t).do # "countLeft" => Last(todo[t])' = Last(todo[t])
  <1>1. /\ todo[t] \in Seq(FitOps) /\ todo'[t] \in Seq(FitOps) /\ Form(todo[t], todo'[t])
        /\ Op1(t) = todo[t][1] /\ todo[t] # << >>
    BY TransactionGoes DEF Goes, Free
  <1>2. Last(todo[t])' = Last(todo'[t])
    BY DEF Last
  <1> QED BY <1>1, <1>2, FormLast

\* The first operation of a request.
LEMMA RequestHead ==
  ASSUME Typed, Sorted, NEW t \in Threads, Requesting(t)
  PROVE  /\ Op1(t).do \notin {"removeDoc", "countLeft"}
         /\ Op1(t).do \in Ends => Len(todo[t]) = 1 /\ Last(todo[t]) = Op1(t).do
         /\ Op1(t).kind = "PURGE" => Last(todo[t]) = "setDeleting" /\ Len(todo[t]) >= 2
         /\ \/ Op1(t).do \in {"ensureKb", "bindAlgo", "bindDoc", "cancel", "refuse"}
            \/ Op1(t).do = "submit" /\ Op1(t).kind # "PURGE"
            => Last(todo[t]) \notin Ends
         /\ Op1(t).do = "bindDoc" \/ Op1(t).kind = "ADD" => Uploads(todo[t], Op1(t).doc)
         /\ Op1(t).do = "cancel" =>
              /\ Op1(t).kind \in {None, "UNBIND"}
              /\ \A j \in 1..Len(todo[t]) : todo[t][j].doc = Op1(t).doc => j = 1
         /\ todo[t] \in Seq(FitOps) /\ Len(todo[t]) \in Nat /\ Len(todo[t]) >= 1
         /\ Op1(t) = todo[t][1] /\ Op1(t) \in FitOps
         /\ Plan(todo[t])
  <1>1. /\ todo[t] \in Seq(FitOps) /\ todo[t] # << >> /\ Plan(todo[t])
    BY Shape DEF Sorted, ListOf, Requesting, Free
  <1>2. /\ Len(todo[t]) \in Nat /\ Len(todo[t]) >= 1 /\ 1 \in 1..Len(todo[t])
        /\ Op1(t) = todo[t][1] /\ Op1(t) \in FitOps
    BY <1>1 DEF Op1
  <1>3. Len(todo[t]) = 1 => Last(todo[t]) = Op1(t).do
    BY <1>2 DEF Last
  <1>4. Op1(t).kind = "PURGE" => Last(todo[t]) = "setDeleting" /\ Op1(t).do = "submit"
    BY <1>1, <1>2 DEF Plan
  <1>5. Op1(t).kind = "PURGE" => Len(todo[t]) # 1
    BY <1>3, <1>4
  <1>6. /\ Op1(t).do \notin {"removeDoc", "countLeft"}
        /\ Op1(t).do \in Ends => 1 = Len(todo[t])
        /\ \/ Op1(t).do \in {"ensureKb", "bindAlgo", "bindDoc", "cancel", "refuse"}
           \/ Op1(t).do = "submit" /\ Op1(t).kind # "PURGE"
           => Last(todo[t]) \notin Ends
        /\ Op1(t).do = "bindDoc" \/ Op1(t).kind = "ADD" => Uploads(todo[t], Op1(t).doc)
        /\ Op1(t).do = "cancel" =>
             /\ Op1(t).kind \in {None, "UNBIND"}
             /\ \A j \in 1..Len(todo[t]) : todo[t][j].doc = Op1(t).doc => j = 1
    BY <1>1, <1>2 DEF Plan
  <1>7. Len(todo[t]) # 1 => Len(todo[t]) >= 2
    <2>1. \A n \in Nat : n >= 1 /\ n # 1 => n >= 2
      OBVIOUS
    <2> QED BY <1>2, <2>1
  <1> QED BY <1>1, <1>2, <1>3, <1>4, <1>5, <1>6, <1>7

\* The uploads that a request has ahead are all.
LEMMA UploadAhead ==
  ASSUME Typed, Sorted, NEW t \in Threads, NEW d,
         Has(t, "bindDoc", d) \/ Sends(t, "ADD", d)
  PROVE  Requesting(t) /\ Uploads(todo[t], d)
  <1>1. PICK i \in 1..Len(todo[t]) : /\ todo[t][i].do = "bindDoc" \/ todo[t][i].kind = "ADD"
                                     /\ todo[t][i].doc = d
    BY DEF Has, Sends
  <1>2. todo[t] \in Seq(FitOps) /\ todo[t] # << >>
    <2>1. todo[t] \in Seq(FitOps)
      BY Shape
    <2> QED BY <1>1, <2>1
  <1>3. serving[t] = 0
    <2> SUFFICES ASSUME serving[t] # 0 PROVE FALSE
      OBVIOUS
    <2>1. Finishes(todo[t], tasks[serving[t]])
      BY DEF Sorted, ListOf
    <2>2. \A j \in 1..Len(todo[t]) : todo[t][j].do # "bindDoc" /\ todo[t][j].kind = None
      <3> DEFINE task == tasks[serving[t]]
                 rem == DoDoc("removeDoc", task.doc)
                 pur == DoDoc("purge", task.doc)
                 drp == DoDoc("dropSnap", task.doc)
                 fin == Do("finalize")
                 cnt == DoAlgo("countLeft", task.algo)
                 rmb == DoAlgo("removeBinding", task.algo)
      <3>1. \A o \in {rem, pur, drp, fin, cnt, rmb} : o.do # "bindDoc" /\ o.kind = None
        BY DoShape
      <3>2. todo[t] \in {<<rem>>, <<pur, fin>>, <<drp, fin>>, <<fin>>, <<drp, cnt>>, <<cnt>>, <<rmb>>}
        BY <2>1 DEF Finishes
      <3> HIDE DEF rem, pur, drp, fin, cnt, rmb
      <3>3. \A j \in 1..Len(todo[t]) : todo[t][j] \in {rem, pur, drp, fin, cnt, rmb}
        BY <3>2
      <3> QED BY <3>1, <3>3
    <2> QED BY <1>1, <2>2 DEF None
  <1>4. Requesting(t)
    BY <1>2, <1>3 DEF Requesting, Free
  <1>5. Plan(todo[t])
    BY <1>4 DEF Sorted, ListOf
  <1> QED BY <1>1, <1>4, <1>5 DEF Plan

\* What a callback has ahead, and of which document.
LEMMA CallbackAhead ==
  ASSUME Typed, Sorted, NEW t \in Threads, serving[t] # 0
  PROVE  /\ serving[t] \in 1..Len(tasks) /\ tasks[serving[t]] \in TaskRec
         /\ tasks[serving[t]].kind \in {"DELETE", "PURGE", "UNBIND"} /\ tasks[serving[t]].phase = "gone"
         /\ ~Free(t) /\ todo[t] \in Seq(FitOps) /\ Len(todo[t]) \in {1, 2}
         /\ Op1(t) = todo[t][1]
         /\ Op1(t).do \in {"removeDoc", "purge", "dropSnap", "finalize", "countLeft", "removeBinding"}
         /\ Op1(t).do = "removeDoc" => tasks[serving[t]].kind = "DELETE"
         /\ Op1(t).do \in {"purge", "finalize"} => tasks[serving[t]].kind = "PURGE"
         /\ Op1(t).do = "dropSnap" => tasks[serving[t]].kind \in {"PURGE", "UNBIND"}
         /\ Op1(t).do \in {"removeDoc", "purge", "dropSnap"} => Op1(t).doc = tasks[serving[t]].doc
         /\ Op1(t).do = "finalize" => Len(todo[t]) = 1
         /\ Last(todo[t]) \notin Ends \/ Last(todo[t]) = "finalize"
         /\ Last(todo[t]) = "finalize" <=> tasks[serving[t]].kind = "PURGE"
         /\ \A d : ~Has(t, "bindDoc", d) /\ ~Has(t, "cancel", d) /\ \A kind : ~Sends(t, kind, d)
         /\ \A d : Has(t, "purge", d) => d = tasks[serving[t]].doc /\ tasks[serving[t]].kind = "PURGE"
                                         /\ Op1(t).do = "purge"
         /\ \A d : Has(t, "dropSnap", d) =>
              d = tasks[serving[t]].doc /\ tasks[serving[t]].kind \in {"PURGE", "UNBIND"}
         /\ tasks[serving[t]].kind = "PURGE" => Op1(t).do \in {"purge", "dropSnap", "finalize"}
  <1> DEFINE task == tasks[serving[t]]
             q == todo[t]
             rem == DoDoc("removeDoc", task.doc)
             pur == DoDoc("purge", task.doc)
             drp == DoDoc("dropSnap", task.doc)
             fin == Do("finalize")
             cnt == DoAlgo("countLeft", task.algo)
             rmb == DoAlgo("removeBinding", task.algo)
  <1>1. serving[t] \in 1..Len(tasks) /\ task \in TaskRec
    BY ServingTask
  <1>2. Finishes(q, task) /\ task.phase = "gone"
    BY DEF Sorted, ListOf
  <1>3. /\ rem.do = "removeDoc" /\ pur.do = "purge" /\ drp.do = "dropSnap" /\ fin.do = "finalize"
        /\ cnt.do = "countLeft" /\ rmb.do = "removeBinding"
        /\ rem.doc = task.doc /\ pur.doc = task.doc /\ drp.doc = task.doc
        /\ \A o \in {rem, pur, drp, fin, cnt, rmb} : o.kind = None
    BY DoShape, DocShape
  <1>4. \/ task.kind = "DELETE" /\ q = <<rem>>
        \/ task.kind = "PURGE" /\ (q = <<pur, fin>> \/ q = <<drp, fin>> \/ q = <<fin>>)
        \/ task.kind = "UNBIND" /\ (q = <<drp, cnt>> \/ q = <<cnt>> \/ q = <<rmb>>)
    BY <1>2 DEF Finishes
  <1>5. q \in Seq(FitOps)
    BY Shape
  <1> HIDE DEF rem, pur, drp, fin, cnt, rmb
  <1>61. \/ task.kind = "DELETE" /\ Len(q) = 1 /\ q[1] = rem /\ q # << >>
         \/ /\ task.kind = "PURGE" /\ q # << >>
            /\ \/ Len(q) = 2 /\ q[1] \in {pur, drp} /\ q[2] = fin
               \/ Len(q) = 1 /\ q[1] = fin
         \/ /\ task.kind = "UNBIND" /\ q # << >>
            /\ \/ Len(q) = 2 /\ q[1] = drp /\ q[2] = cnt
               \/ Len(q) = 1 /\ q[1] \in {cnt, rmb}
    <2>1. q = <<rem>> => Len(q) = 1 /\ q[1] = rem /\ q # << >>
      OBVIOUS
    <2>2. q = <<pur, fin>> => Len(q) = 2 /\ q[1] = pur /\ q[2] = fin /\ q # << >>
      OBVIOUS
    <2>3. q = <<drp, fin>> => Len(q) = 2 /\ q[1] = drp /\ q[2] = fin /\ q # << >>
      OBVIOUS
    <2>4. q = <<fin>> => Len(q) = 1 /\ q[1] = fin /\ q # << >>
      OBVIOUS
    <2>5. q = <<drp, cnt>> => Len(q) = 2 /\ q[1] = drp /\ q[2] = cnt /\ q # << >>
      OBVIOUS
    <2>6. q = <<cnt>> => Len(q) = 1 /\ q[1] = cnt /\ q # << >>
      OBVIOUS
    <2>7. q = <<rmb>> => Len(q) = 1 /\ q[1] = rmb /\ q # << >>
      OBVIOUS
    <2> QED BY <1>4, <2>1, <2>2, <2>3, <2>4, <2>5, <2>6, <2>7
  <1>6. Len(q) \in {1, 2} /\ q # << >>
    BY <1>61
  <1>7. Op1(t) = q[1]
    BY <1>5, <1>6 DEF Op1
  <1>8. /\ \A i \in 1..Len(q) : q[i] \in {rem, pur, drp, fin, cnt, rmb}
        /\ \A i \in 1..Len(q) : q[i] = pur => task.kind = "PURGE" /\ q[1] = pur
        /\ \A i \in 1..Len(q) : q[i] = drp => task.kind \in {"PURGE", "UNBIND"}
    BY <1>3, <1>4
  <1>9. /\ q[1].do \in {"removeDoc", "purge", "dropSnap", "finalize", "countLeft", "removeBinding"}
        /\ q[1].do = "removeDoc" => task.kind = "DELETE"
        /\ q[1].do \in {"purge", "finalize"} => task.kind = "PURGE"
        /\ q[1].do = "dropSnap" => task.kind \in {"PURGE", "UNBIND"}
        /\ q[1].do \in {"removeDoc", "purge", "dropSnap"} => q[1].doc = task.doc
        /\ q[1].do = "finalize" => Len(q) = 1
        /\ task.kind = "PURGE" => q[1].do \in {"purge", "dropSnap", "finalize"}
    BY <1>3, <1>4
  <1>10. /\ Last(q) \notin Ends \/ Last(q) = "finalize"
         /\ Last(q) = "finalize" <=> task.kind = "PURGE"
    BY <1>3, <1>61 DEF Last, Ends
  <1>11. \A d : ~Has(t, "bindDoc", d) /\ ~Has(t, "cancel", d) /\ \A kind : ~Sends(t, kind, d)
    BY <1>3, <1>8 DEF Has, Sends
  <1>12. \A d : Has(t, "purge", d) => d = task.doc /\ task.kind = "PURGE" /\ q[1].do = "purge"
    <2> SUFFICES ASSUME NEW i \in 1..Len(q), q[i].do = "purge"
                 PROVE  q[i].doc = task.doc /\ task.kind = "PURGE" /\ q[1].do = "purge"
      BY DEF Has
    <2>1. q[i] = pur
      BY <1>3, <1>8
    <2> QED BY <1>3, <1>8, <2>1
  <1>13. \A d : Has(t, "dropSnap", d) => d = task.doc /\ task.kind \in {"PURGE", "UNBIND"}
    <2> SUFFICES ASSUME NEW i \in 1..Len(q), q[i].do = "dropSnap"
                 PROVE  q[i].doc = task.doc /\ task.kind \in {"PURGE", "UNBIND"}
      BY DEF Has
    <2>1. q[i] = drp
      BY <1>3, <1>8
    <2> QED BY <1>3, <1>8, <2>1
  <1>14. task.kind \in {"DELETE", "PURGE", "UNBIND"}
    BY <1>4
  <1>15. ~Free(t)
    BY <1>6 DEF Free
  <1> HIDE DEF q, task
  <1> QED BY <1>1, <1>2, <1>5, <1>6, <1>7, <1>9, <1>10, <1>11, <1>12, <1>13, <1>14, <1>15 DEF q, task

-----------------------------------------------------------------------------
(* Each document, its snapshot, its tasks and what is ahead of it.         *)

Alive == {"WAITING", "WORKING", "SUCCESS", "CANCELED"}

\* A task, or its callback, is on its way.
Running(i) == tasks[i].phase \notin Over \/ \E t \in Threads : serving[t] = i

SnapFits(d) ==
  /\ snap[d].status # "FAILED"
  /\ snap[d].status = None => snap[d].task = 0
  /\ snap[d].task # 0 => tasks[snap[d].task].doc = d
  /\ snap[d].status \in {"DELETED", "DELETING"} =>
       snap[d].task # 0 /\ tasks[snap[d].task].kind # "ADD"
  /\ snap[d].status = "DELETING" => tasks[snap[d].task].phase \in {"queued", "working"}

\* No deletion is on its way, and every unbinding is older than the snapshot.
Fresh(d) ==
  \A i \in 1..Len(tasks) : tasks[i].doc = d /\ tasks[i].kind \in {"DELETE", "PURGE"} => ~Running(i)
Newest(d) ==
  \A i \in 1..Len(tasks) : tasks[i].doc = d /\ tasks[i].kind = "UNBIND" /\ Running(i) => snap[d].task > i

\* A request has removed the document and drops its snapshot next.
Dropping(d) == \E t \in Threads : Requesting(t) /\ Op1(t).do = "dropSnap" /\ Op1(t).doc = d

Lives(d) ==
  snap[d].status \in Alive =>
    Fresh(d) /\ Newest(d) /\ (d \in rel \/ (snap[d].status = "CANCELED" /\ Dropping(d)))

Adds(d) ==
  \A i \in 1..Len(tasks) : tasks[i].doc = d /\ tasks[i].kind = "ADD" /\ tasks[i].phase \notin Over =>
    snap[d].task = i /\ snap[d].status \in Awaits
Added(d) ==
  \A i \in 1..Len(tasks) : tasks[i].doc = d /\ tasks[i].kind = "ADD" => tasks[i].phase \in Over

\* An upload finds no other task of its document.
Comes(d) ==
  \A t \in Threads : Has(t, "bindDoc", d) \/ Sends(t, "ADD", d) =>
    Fresh(d) /\ Added(d) /\ (Has(t, "bindDoc", d) \/ d \in rel)

UploadsAlone ==
  \A t \in Threads, d \in Docs : Has(t, "bindDoc", d) \/ Sends(t, "ADD", d) =>
    Requesting(t) /\ Uploads(todo[t], d)

\* What a request has found out still holds.
Agrees(d) ==
  \A t \in Threads : Requesting(t) =>
    /\ Has(t, "cancel", d) => snap[d].status \in Awaits \cup {"SUCCESS"}
    /\ \A kind \in Kinds \ {"ADD"} : Sends(t, kind, d) => snap[d].status \notin Awaits
    /\ Has(t, "purge", d) \/ Has(t, "dropSnap", d) => snap[d].status \notin Awaits \cup {"SUCCESS"}

Settled(d) == SnapFits(d) /\ Lives(d) /\ Adds(d) /\ Comes(d) /\ Agrees(d)

\* A step that is not about d.
TasksRest(d) ==
  /\ Len(tasks) <= Len(tasks')
  /\ \A i \in 1..Len(tasks') : tasks'[i].doc = d => i \in 1..Len(tasks)
  /\ \A i \in 1..Len(tasks) :
       /\ Same(i)
       /\ tasks[i].doc = d =>
            /\ Running(i)' => Running(i)
            /\ tasks[i].kind = "ADD" /\ tasks[i].phase \in Over => tasks'[i].phase \in Over
SnapRests(d) ==
  /\ snap'[d] = snap[d]
  /\ snap[d].status = "DELETING" => tasks'[snap[d].task].phase \in {"queued", "working"}
HandlersRest(d) ==
  /\ \A t \in Threads : Requesting(t)' =>
       /\ Requesting(t)
       /\ \A step \in {"cancel", "bindDoc"} : Has(t, step, d)' => Has(t, step, d)
       /\ \A kind \in Kinds : Sends(t, kind, d)' => Sends(t, kind, d)
       /\ Has(t, "purge", d)' \/ Has(t, "dropSnap", d)' => Has(t, "purge", d) \/ Has(t, "dropSnap", d)
       /\ Has(t, "bindDoc", d) => Has(t, "bindDoc", d)' \/ d \in rel'
  /\ Dropping(d) => Dropping(d)'

LEMMA TasksStay ==
  ASSUME Typed, Typed', NEW d \in Docs, TasksRest(d)
  PROVE  /\ Fresh(d) => Fresh(d)'
         /\ Newest(d) /\ (snap'[d].task >= snap[d].task) => Newest(d)'
         /\ Added(d) => Added(d)'
         /\ Adds(d) /\ snap'[d] = snap[d] => Adds(d)'
  <1>1. Len(tasks) \in Nat /\ Len(tasks') \in Nat /\ snap[d].task \in Nat /\ snap'[d].task \in Nat
    BY DEF Typed, TypeOK
  <1>2. ASSUME NEW i \in 1..Len(tasks'), tasks'[i].doc = d
        PROVE  /\ i \in 1..Len(tasks) /\ tasks[i].doc = d /\ tasks[i].kind = tasks'[i].kind
               /\ Running(i)' => Running(i)
               /\ tasks[i].kind = "ADD" /\ tasks[i].phase \in Over => tasks'[i].phase \in Over
    BY <1>2 DEF TasksRest, Same
  <1>3. Fresh(d) => Fresh(d)'
    BY <1>2 DEF Fresh
  <1>4. Newest(d) /\ (snap'[d].task >= snap[d].task) => Newest(d)'
    BY <1>1, <1>2 DEF Newest
  <1>5. Added(d) => Added(d)'
    BY <1>2 DEF Added
  <1>6. Adds(d) /\ snap'[d] = snap[d] => Adds(d)'
    BY <1>2 DEF Adds
  <1> QED BY <1>3, <1>4, <1>5, <1>6

LEMMA SnapStays ==
  ASSUME Typed, Typed', NEW d \in Docs, \A i \in 1..Len(tasks) : Same(i), SnapRests(d), SnapFits(d)
  PROVE  SnapFits(d)'
  <1>1. snap[d].task \in 0..Len(tasks)
    BY Shape, SameStore DEF SnapRec
  <1>2. snap[d].task # 0 => Same(snap[d].task)
    BY <1>1, Shape
  <1> QED BY <1>2 DEF SnapRests, SnapFits, Same

LEMMA AgreesStays ==
  ASSUME NEW d \in Docs, HandlersRest(d), snap'[d] = snap[d], Agrees(d)
  PROVE  Agrees(d)'
  BY DEF HandlersRest, Agrees, Kinds

LEMMA UploadAlone == Typed /\ Sorted => UploadsAlone
  BY UploadAhead DEF UploadsAlone

LEMMA ComesStays ==
  ASSUME Typed', Sorted', NEW d \in Docs, HandlersRest(d), d \in rel => d \in rel',
         Fresh(d) => Fresh(d)', Added(d) => Added(d)', Comes(d)
  PROVE  Comes(d)'
  <1> SUFFICES ASSUME NEW t \in Threads, Has(t, "bindDoc", d)' \/ Sends(t, "ADD", d)'
               PROVE  Fresh(d)' /\ Added(d)' /\ (Has(t, "bindDoc", d)' \/ d \in rel')
    BY DEF Comes
  <1>1. Requesting(t)'
    <2>1. (Typed /\ Sorted => UploadsAlone)'
      BY UploadAlone, PTL
    <2> QED BY <2>1 DEF UploadsAlone
  <1>2. Has(t, "bindDoc", d) \/ Sends(t, "ADD", d)
    BY <1>1 DEF HandlersRest, Kinds
  <1> QED BY <1>1, <1>2 DEF Comes, HandlersRest

\* A step that is not about d leaves it settled.
LEMMA SettledStays ==
  ASSUME Typed, Typed', Sorted', NEW d \in Docs, Settled(d), TasksRest(d), SnapRests(d),
         HandlersRest(d), d \in rel => d \in rel'
  PROVE  Settled(d)'
  <1>1. snap'[d] = snap[d] /\ snap'[d].task >= snap[d].task
    BY Shape DEF SnapRests, SnapRec
  <1>2. Lives(d)'
    BY <1>1, TasksStay DEF Settled, Lives, HandlersRest
  <1>3. \A i \in 1..Len(tasks) : Same(i)
    BY DEF TasksRest
  <1> QED BY <1>1, <1>2, <1>3, TasksStay, SnapStays, AgreesStays, ComesStays DEF Settled

LEMMA OtherSame ==
  ASSUME NEW u \in Threads, todo'[u] = todo[u], serving'[u] = serving[u]
  PROVE  /\ Requesting(u)' <=> Requesting(u)
         /\ Free(u)' <=> Free(u)
         /\ Op1(u)' = Op1(u)
         /\ Last(todo[u])' = Last(todo[u])
         /\ \A step, d : Has(u, step, d)' <=> Has(u, step, d)
         /\ \A kind, d : Sends(u, kind, d)' <=> Sends(u, kind, d)
  BY DEF Requesting, Free, Op1, Last, Has, Sends

\* The handlers around a document that a transaction is not about.
LEMMA HandlersStay ==
  ASSUME Typed, Sorted, NEW t \in Threads, Transaction(t), NEW d \in Docs,
         Op1(t).do = "dropSnap" => Op1(t).doc # d,
         Op1(t).do = "cancel" /\ Op1(t).doc = d => todo'[t] = << >>,
         Op1(t).do = "bindDoc" /\ Op1(t).doc = d => d \in rel'
  PROVE  HandlersRest(d)
  <1>1. /\ ~Free(t) /\ todo[t] \in Seq(FitOps) /\ Len(todo[t]) >= 1 /\ Op1(t) = todo[t][1]
        /\ serving'[t] = (IF todo'[t] = << >> THEN 0 ELSE serving[t])
        /\ \A u \in Threads \ {t} : todo'[u] = todo[u] /\ serving'[u] = serving[u]
    BY TransactionGoes DEF Goes
  <1>2. ASSUME Requesting(t)' PROVE todo'[t] # << >> /\ Requesting(t) /\ Op1(t).do # "countLeft"
    <2>1. todo'[t] # << >> /\ serving[t] = 0
      BY <1>1, <1>2 DEF Requesting, Free
    <2> QED BY <1>1, <2>1, RequestHead DEF Requesting
  <1>3. Op1(t).do = "purge" /\ Op1(t).doc = d => Has(t, "purge", d)
    <2>1. 1 \in 1..Len(todo[t])
      BY <1>1
    <2> QED BY <1>1, <2>1 DEF Has
  <1>4. ASSUME Requesting(t)'
        PROVE  /\ Requesting(t)
               /\ \A step \in {"cancel", "bindDoc"} : Has(t, step, d)' => Has(t, step, d)
               /\ \A kind \in Kinds : Sends(t, kind, d)' => Sends(t, kind, d)
               /\ Has(t, "purge", d)' \/ Has(t, "dropSnap", d)' => Has(t, "purge", d) \/ Has(t, "dropSnap", d)
               /\ Has(t, "bindDoc", d) => Has(t, "bindDoc", d)' \/ d \in rel'
    <2>1. \A step \in {"cancel", "bindDoc"} : Has(t, step, d)' => Has(t, step, d)
      BY <1>2, <1>4, Remains DEF DocSteps
    <2>2. \A kind \in Kinds : Sends(t, kind, d)' => Sends(t, kind, d)
      BY <1>2, <1>4, Remains
    <2>3. Has(t, "purge", d)' => Has(t, "purge", d)
      BY <1>2, <1>4, Remains DEF DocSteps
    <2>4. Has(t, "dropSnap", d)' => Has(t, "purge", d) \/ Has(t, "dropSnap", d)
      BY <1>2, <1>3, <1>4, Remains DEF DocSteps
    <2>5. Has(t, "bindDoc", d) => Has(t, "bindDoc", d)' \/ d \in rel'
      BY <1>2, <1>4, Keeps
    <2> QED BY <1>2, <1>4, <2>1, <2>2, <2>3, <2>4, <2>5
  <1>5. ASSUME NEW u \in Threads, u # t PROVE todo'[u] = todo[u] /\ serving'[u] = serving[u]
    BY <1>1, <1>5
  <1>6. Dropping(d) => Dropping(d)'
    <2> SUFFICES ASSUME NEW u \in Threads, Requesting(u), Op1(u).do = "dropSnap", Op1(u).doc = d
                 PROVE  Dropping(d)'
      BY DEF Dropping
    <2>1. u # t
      OBVIOUS
    <2> QED BY <1>5, <2>1, OtherSame DEF Dropping
  <1>7. ASSUME NEW u \in Threads, u # t, Requesting(u)'
        PROVE  /\ Requesting(u)
               /\ \A step \in {"cancel", "bindDoc"} : Has(u, step, d)' => Has(u, step, d)
               /\ \A kind \in Kinds : Sends(u, kind, d)' => Sends(u, kind, d)
               /\ Has(u, "purge", d)' \/ Has(u, "dropSnap", d)' => Has(u, "purge", d) \/ Has(u, "dropSnap", d)
               /\ Has(u, "bindDoc", d) => Has(u, "bindDoc", d)' \/ d \in rel'
    BY <1>5, <1>7, OtherSame
  <1> QED BY <1>4, <1>6, <1>7 DEF HandlersRest

\* Of what a step leaves alone.
LEMMA SameRest ==
  ASSUME Typed, NEW d \in Docs, tasks' = tasks, \A t \in Threads : serving'[t] \in {0, serving[t]}
  PROVE  TasksRest(d) /\ (snap'[d] = snap[d] /\ SnapFits(d) => SnapRests(d))
  <1>1. Len(tasks) \in Nat /\ \A i \in 1..Len(tasks) : Same(i)
    BY Shape DEF Same
  <1>2. \A i \in 1..Len(tasks) : Running(i)' => Running(i)
    BY DEF Running
  <1> QED BY <1>1, <1>2 DEF TasksRest, SnapRests, SnapFits

\* The transactions that leave tasks and snapshots alone and take no document away.
LEMMA PlainSettled ==
  ASSUME Typed, Typed', Sorted, Sorted', NEW t \in Threads, Transaction(t), NEW d \in Docs, Settled(d),
         tasks' = tasks, snap'[d] = snap[d], d \in rel => d \in rel',
         Op1(t).do = "dropSnap" => Op1(t).doc # d,
         Op1(t).do = "cancel" /\ Op1(t).doc = d => todo'[t] = << >>,
         Op1(t).do = "bindDoc" /\ Op1(t).doc = d => d \in rel'
  PROVE  Settled(d)'
  <1>1. \A u \in Threads : serving'[u] \in {0, serving[u]}
    BY TransactionGoes DEF Goes
  <1> QED BY <1>1, HandlersStay, SameRest, SettledStays DEF Settled

\* A document is taken out.
LEMMA RemoveDocSettled ==
  ASSUME Typed, Typed', Sorted, Sorted', OneRequest, ~mishap', NEW t \in Threads, RemoveDoc(t),
         NEW d \in Docs, Settled(d)
  PROVE  Settled(d)'
  <1>1. /\ Op1(t).do \in {"removeDoc", "purge"} /\ Transaction(t) /\ ~Free(t) /\ ~mishap
        /\ tasks' = tasks /\ snap' = snap /\ rel' = rel \ {Op1(t).doc}
    BY DEF RemoveDoc, Does, Transaction
  <1>2. CASE Op1(t).doc # d
    BY <1>1, <1>2, PlainSettled
  <1>3. CASE Op1(t).doc = d
    <2>1. HandlersRest(d)
      BY <1>1, HandlersStay
    <2>2. TasksRest(d) /\ SnapRests(d) /\ snap'[d] = snap[d] /\ snap'[d].task >= snap[d].task
      <3>1. \A u \in Threads : serving'[u] \in {0, serving[u]}
        BY <1>1, TransactionGoes DEF Goes
      <3> QED BY <1>1, <3>1, SameRest, Shape DEF Settled, SnapRec
    <2>3. \A i \in 1..Len(tasks) : Same(i)
      BY <2>2 DEF TasksRest
    <2>4. SnapFits(d)' /\ Adds(d)' /\ Agrees(d)' /\ (Fresh(d) => Fresh(d)') /\ (Newest(d) => Newest(d)')
          /\ (Added(d) => Added(d)')
      BY <2>1, <2>2, <2>3, TasksStay, SnapStays, AgreesStays DEF Settled
    <2>5. CASE serving[t] # 0
      <3>1. /\ serving[t] \in 1..Len(tasks) /\ tasks[serving[t]].doc = d
            /\ tasks[serving[t]].kind \in {"DELETE", "PURGE"}
        BY <1>1, <1>3, <2>5, CallbackAhead
      <3>2. ~Fresh(d)
        BY <3>1 DEF Fresh, Running
      <3>3. Lives(d)'
        BY <2>2, <3>2 DEF Settled, Lives
      <3>4. ASSUME NEW u \in Threads, Has(u, "bindDoc", d)' \/ Sends(u, "ADD", d)' PROVE FALSE
        <4>1. Requesting(u)'
          <5>1. (Typed /\ Sorted => UploadsAlone)'
            BY UploadAlone, PTL
          <5> QED BY <3>4, <5>1 DEF UploadsAlone
        <4>2. Has(u, "bindDoc", d) \/ Sends(u, "ADD", d)
          BY <2>1, <3>4, <4>1 DEF HandlersRest, Kinds
        <4> QED BY <3>2, <4>2 DEF Settled, Comes
      <3>5. Comes(d)'
        BY <3>4 DEF Comes
      <3> QED BY <2>4, <3>3, <3>5 DEF Settled
    <2>6. CASE serving[t] = 0
      <3>1. Requesting(t)
        BY <1>1, <2>6 DEF Requesting
      <3>2. /\ Op1(t).do = "purge" /\ todo[t] \in Seq(FitOps) /\ Len(todo[t]) >= 1
            /\ Op1(t) = todo[t][1] /\ 1 \in 1..Len(todo[t]) /\ todo[t] # << >>
        <4>1. /\ Op1(t).do # "removeDoc" /\ todo[t] \in Seq(FitOps) /\ Len(todo[t]) >= 1
              /\ Op1(t) = todo[t][1]
          BY <3>1, RequestHead
        <4> QED BY <1>1, <4>1
      <3>3. snap[d].status \notin Awaits \cup {"SUCCESS"}
        <4>1. Has(t, "purge", d)
          BY <1>3, <3>2 DEF Has
        <4> QED BY <3>1, <4>1 DEF Settled, Agrees
      <3>4. todo'[t] # << >> /\ Op1(t)'.do = "dropSnap" /\ Op1(t)'.doc = d /\ serving'[t] = 0
        <4>1. todo'[t] \in Seq(FitOps) /\ Form(todo[t], todo'[t]) /\ Op1(t) \in FitOps /\ serving'[t] = 0
          BY <1>1, <2>6, TransactionGoes DEF Goes
        <4>2. Replaced(todo[t], todo'[t])
          BY <3>2, <4>1 DEF Form, Ended, Shorter
        <4>3. todo'[t][1].do = "dropSnap" /\ todo'[t][1].doc = d
          BY <1>3, <3>2, <4>1, <4>2, SuccShape DEF Replaced
        <4>4. Len(todo'[t]) = Len(todo[t]) /\ todo'[t] # << >>
          BY <3>2, <4>1, <4>2 DEF Replaced
        <4> QED BY <4>1, <4>3, <4>4 DEF Op1
      <3>5. Dropping(d)'
        BY <3>4 DEF Dropping, Requesting, Free
      <3>6. Lives(d)'
        BY <2>2, <2>4, <3>3, <3>5 DEF Settled, Lives, Alive, Awaits
      <3>7. ASSUME NEW u \in Threads, Has(u, "bindDoc", d)' \/ Sends(u, "ADD", d)' PROVE FALSE
        <4>1. Requesting(u)'
          <5>1. (Typed /\ Sorted => UploadsAlone)'
            BY UploadAlone, PTL
          <5> QED BY <3>7, <5>1 DEF UploadsAlone
        <4>2. Requesting(u) /\ (Has(u, "bindDoc", d) \/ Sends(u, "ADD", d))
          BY <2>1, <3>7, <4>1 DEF HandlersRest, Kinds
        <4>3. u = t
          BY <1>1, <3>1, <4>2 DEF OneRequest
        <4>4. Uploads(todo[t], d)
          BY <4>2, <4>3, UploadAhead
        <4> QED BY <3>2, <4>4, UploadHead
      <3>8. Comes(d)'
        BY <3>7 DEF Comes
      <3> QED BY <2>4, <3>6, <3>8 DEF Settled
    <2> QED BY <2>5, <2>6
  <1> QED BY <1>2, <1>3

\* A snapshot is dropped.
LEMMA DropSnapSettled ==
  ASSUME Typed, Typed', Sorted, Sorted', OneRequest, ~mishap', NEW t \in Threads, DropSnap(t),
         NEW d \in Docs, Settled(d)
  PROVE  Settled(d)'
  <1>1. /\ Op1(t).do = "dropSnap" /\ Transaction(t) /\ ~Free(t) /\ ~mishap
        /\ tasks' = tasks /\ rel' = rel /\ Op1(t).doc \in Docs
        /\ snap' = [snap EXCEPT ![Op1(t).doc] = NoSnap]
        /\ serving[t] # 0 /\ tasks[serving[t]].kind = "UNBIND" => ~(snap[Op1(t).doc].task > serving[t])
    BY OpShape DEF DropSnap, Does, Transaction, store
  <1>2. CASE Op1(t).doc # d
    <2>1. snap'[d] = snap[d]
      BY <1>1, <1>2, Shape
    <2> QED BY <1>1, <1>2, <2>1, PlainSettled
  <1>3. CASE Op1(t).doc = d
    <2>1. snap'[d].status = None /\ snap'[d].task = 0
      BY <1>1, <1>3, Shape DEF NoSnap
    <2>2. /\ \A u \in Threads : serving'[u] \in {0, serving[u]}
          /\ \A u \in Threads \ {t} : todo'[u] = todo[u] /\ serving'[u] = serving[u]
          /\ serving'[t] = (IF todo'[t] = << >> THEN 0 ELSE serving[t])
      BY <1>1, TransactionGoes DEF Goes
    <2>3. TasksRest(d)
      BY <1>1, <2>2, SameRest
    <2>4. (Fresh(d) => Fresh(d)') /\ (Added(d) => Added(d)')
      BY <2>3, TasksStay
    <2>5. snap[d].status \notin Awaits \cup {"SUCCESS"}
      <3>1. CASE serving[t] # 0
        <4>1. /\ serving[t] \in 1..Len(tasks) /\ tasks[serving[t]].doc = d
              /\ tasks[serving[t]].kind \in {"UNBIND", "PURGE"}
          BY <1>1, <1>3, <3>1, CallbackAhead
        <4>2. ~(Fresh(d) /\ Newest(d))
          BY <1>1, <1>3, <3>1, <4>1 DEF Fresh, Newest, Running
        <4> QED BY <4>2 DEF Settled, Lives, Alive, Awaits
      <3>2. CASE serving[t] = 0
        <4>1. Requesting(t)
          BY <1>1, <3>2 DEF Requesting
        <4>2. Op1(t) = todo[t][1] /\ 1 \in 1..Len(todo[t])
          BY <4>1, RequestHead
        <4>3. Has(t, "dropSnap", d)
          BY <1>1, <1>3, <4>2 DEF Has
        <4> QED BY <4>1, <4>3 DEF Settled, Agrees
      <3> QED BY <3>1, <3>2
    <2>6. Added(d)
      BY <2>5 DEF Settled, Adds, Added
    <2>7. SnapFits(d)' /\ Lives(d)'
      BY <2>1 DEF SnapFits, Lives, Alive, None
    <2>8. Adds(d)'
      BY <2>4, <2>6 DEF Adds, Added
    <2>9. ASSUME NEW u \in Threads, Requesting(u)'
          PROVE  /\ Requesting(u)
                 /\ \A step \in {"cancel", "bindDoc"} : Has(u, step, d)' => Has(u, step, d)
                 /\ \A kind \in Kinds : Sends(u, kind, d)' => Sends(u, kind, d)
      <3>1. CASE u # t
        BY <2>2, <2>9, <3>1, OtherSame
      <3>2. CASE u = t
        <4>1. Requesting(t)
          BY <1>1, <2>2, <2>9, <3>2 DEF Requesting, Free
        <4> QED BY <1>1, <3>2, <4>1, Remains DEF DocSteps
      <3> QED BY <3>1, <3>2
    <2>10. Agrees(d)'
      <3>1. \A u \in Threads : Requesting(u)' => ~Has(u, "cancel", d)'
        BY <2>5, <2>9 DEF Settled, Agrees
      <3> QED BY <2>1, <3>1 DEF Agrees, Awaits, None
    <2>11. Comes(d)'
      <3> SUFFICES ASSUME NEW u \in Threads, Has(u, "bindDoc", d)' \/ Sends(u, "ADD", d)'
                   PROVE  Fresh(d)' /\ Added(d)' /\ (Has(u, "bindDoc", d)' \/ d \in rel')
        BY DEF Comes
      <3>1. Requesting(u)'
        <4>1. (Typed /\ Sorted => UploadsAlone)'
          BY UploadAlone, PTL
        <4> QED BY <4>1 DEF UploadsAlone
      <3>2. Requesting(u) /\ (Has(u, "bindDoc", d) \/ Sends(u, "ADD", d))
        BY <2>9, <3>1 DEF Kinds
      <3>3. u # t
        <4> SUFFICES ASSUME u = t PROVE FALSE
          OBVIOUS
        <4>1. Uploads(todo[t], d) /\ Op1(t) = todo[t][1]
          BY <3>2, UploadAhead, RequestHead
        <4> QED BY <1>1, <4>1, UploadHead
      <3>4. Fresh(d) /\ Added(d) /\ (Has(u, "bindDoc", d) \/ d \in rel)
        BY <3>2 DEF Settled, Comes
      <3> QED BY <1>1, <2>2, <2>4, <3>3, <3>4, OtherSame
    <2> QED BY <2>7, <2>8, <2>10, <2>11 DEF Settled
  <1> QED BY <1>2, <1>3

\* After a step, an upload is a request, as before.
LEMMA UploadStill ==
  ASSUME Typed', Sorted', NEW d \in Docs, NEW u \in Threads, Has(u, "bindDoc", d)' \/ Sends(u, "ADD", d)'
  PROVE  Requesting(u)'
  <1>1. (Typed /\ Sorted => UploadsAlone)'
    BY UploadAlone, PTL
  <1> QED BY <1>1 DEF UploadsAlone

\* Who has not something to do with uploads is not one.
LEMMA NoUpload ==
  ASSUME Typed, Sorted, OneRequest, ~mishap, NEW t \in Threads, Requesting(t),
         Op1(t).do # "bindDoc", Op1(t).do # "submit" \/ Op1(t).kind # "ADD",
         NEW d \in Docs, NEW u \in Threads
  PROVE  ~Has(u, "bindDoc", d) /\ ~Sends(u, "ADD", d)
  <1> SUFFICES ASSUME Has(u, "bindDoc", d) \/ Sends(u, "ADD", d) PROVE FALSE
    OBVIOUS
  <1>1. Requesting(u) /\ Uploads(todo[u], d)
    BY UploadAhead
  <1>2. u = t /\ Op1(t) = todo[t][1]
    BY <1>1, RequestHead DEF OneRequest
  <1> QED BY <1>1, <1>2, UploadHead

\* A task is submitted.
LEMMA SubmitSettled ==
  ASSUME Typed, Typed', Sorted, Sorted', OneRequest, ~mishap', NEW t \in Threads, Submit(t),
         NEW d \in Docs, Settled(d)
  PROVE  Settled(d)'
  <1> DEFINE id == Len(tasks) + 1
             kind == Op1(t).kind
  <1>1. /\ Op1(t).do = "submit" /\ Op1(t).doc \in Docs /\ kind \in Kinds /\ Transaction(t) /\ ~Free(t)
        /\ Submits(t, Op1(t).doc, kind, id) /\ rel' = rel /\ Len(tasks) \in Nat /\ id \in Nat
    BY SubmitSubmits, Shape DEF Submit, Does, Transaction
  <1>2. ~mishap
    BY <1>1 DEF Submits
  <1>3. Requesting(t)
    <2>1. serving[t] = 0
      BY <1>1, CallbackAhead
    <2> QED BY <1>1, <2>1 DEF Requesting
  <1>4. /\ todo[t] \in Seq(FitOps) /\ Len(todo[t]) \in Nat /\ Len(todo[t]) >= 1 /\ Op1(t) = todo[t][1]
        /\ Plan(todo[t]) /\ 1 \in 1..Len(todo[t])
    BY <1>3, RequestHead
  <1>5. /\ \A u \in Threads : serving'[u] \in {0, serving[u]}
        /\ \A u \in Threads \ {t} : todo'[u] = todo[u] /\ serving'[u] = serving[u]
        /\ serving'[t] = (IF todo'[t] = << >> THEN 0 ELSE serving[t])
    BY <1>1, TransactionGoes DEF Goes
  <1>6. /\ Len(tasks') = id /\ \A i \in 1..Len(tasks) : tasks'[i] = tasks[i]
        /\ \A i \in 1..Len(tasks) : Same(i) /\ (Running(i)' => Running(i)) /\ i # id /\ i \in 1..Len(tasks')
        /\ \A i \in 1..Len(tasks') : i \in 1..Len(tasks) \/ i = id
        /\ id \in 1..Len(tasks')
        /\ tasks'[id].doc = Op1(t).doc /\ tasks'[id].kind = kind /\ tasks'[id].phase = "queued"
    BY <1>1, <1>5 DEF Submits, Same, Running
  <1>7. CASE Op1(t).doc # d
    <2>1. snap'[d] = snap[d]
      BY <1>1, <1>7 DEF Submits, Sets
    <2>2. TasksRest(d)
      BY <1>1, <1>6, <1>7 DEF TasksRest
    <2>3. SnapRests(d)
      <3>1. snap[d].task \in 0..Len(tasks)
        BY Shape, SameStore DEF SnapRec
      <3> QED BY <1>1, <1>6, <2>1, <3>1 DEF SnapRests, Settled, SnapFits
    <2>4. HandlersRest(d)
      BY <1>1, HandlersStay
    <2> QED BY <1>1, <2>2, <2>3, <2>4, SettledStays
  <1>8. CASE Op1(t).doc = d
    <2>1. snap'[d] = [status |-> IF kind = "ADD" THEN "WAITING" ELSE "DELETING", task |-> id]
      BY <1>1, <1>8 DEF Submits, Sets
    <2>2. snap'[d].status = (IF kind = "ADD" THEN "WAITING" ELSE "DELETING") /\ snap'[d].task = id
      BY <2>1
    <2>3. Sends(t, kind, d)
      BY <1>1, <1>4, <1>8 DEF Sends
    <2>4. SnapFits(d)'
      BY <1>1, <1>6, <1>8, <2>2 DEF SnapFits, None
    <2>5. ASSUME Requesting(t)'
          PROVE  /\ \A step \in {"cancel", "bindDoc"} : Has(t, step, d)' => Has(t, step, d)
                 /\ \A k \in Kinds : Sends(t, k, d)' => Sends(t, k, d)
      BY <1>1, Remains DEF DocSteps
    <2>6. \A u \in Threads : Requesting(u)' => u = t
      BY <1>2, <1>3, <1>5, OtherSame DEF OneRequest
    <2>7. CASE kind = "ADD"
      <3>1. Uploads(todo[t], d) /\ todo[t] = <<DoSubmit("ADD", d, None)>>
        <4>1. Uploads(todo[t], d)
          BY <2>3, <2>7, UploadAhead
        <4>2. Len(todo[t]) = 1
          BY <1>1, <1>4, <4>1, UploadHead
        <4>3. \A o, p : Len(<<o, p>>) # 1
          OBVIOUS
        <4> QED BY <4>1, <4>2, <4>3 DEF Uploads
      <3>2. todo'[t] = << >>
        <4>1. Form(todo[t], todo'[t]) /\ todo'[t] \in Seq(FitOps) /\ Len(todo[t]) = 1
          BY <1>1, <3>1, TransactionGoes DEF Goes
        <4>2. Shorter(todo[t], todo'[t]) => Len(todo'[t]) = 0
          BY <4>1 DEF Shorter
        <4> QED BY <1>1, <1>4, <4>1, <4>2 DEF Form, Ended, Replaced
      <3>3. \A u \in Threads : ~Requesting(u)'
        BY <2>6, <3>2 DEF Requesting, Free
      <3>4. Fresh(d) /\ Added(d) /\ d \in rel
        <4>1. ~Has(t, "bindDoc", d)
          <5>1. \A i \in 1..Len(todo[t]) : i = 1
            BY <3>1
          <5> QED BY <1>1, <1>4, <5>1 DEF Has
        <4> QED BY <2>3, <2>7, <4>1 DEF Settled, Comes
      <3>5. Agrees(d)'
        BY <3>3 DEF Agrees
      <3>6. Comes(d)'
        BY <3>3, UploadStill DEF Comes
      <3>7. Fresh(d)'
        BY <1>6, <2>7, <3>4 DEF Fresh, Same
      <3>8. Newest(d)'
        <4> SUFFICES ASSUME NEW i \in 1..Len(tasks'), tasks'[i].kind = "UNBIND" PROVE id > i
          BY <2>2 DEF Newest
        <4>1. i \in 1..Len(tasks)
          BY <1>6, <2>7
        <4> QED BY <1>1, <4>1
      <3>9. Lives(d)'
        BY <1>1, <3>4, <3>7, <3>8 DEF Lives
      <3>10. Adds(d)'
        BY <1>6, <2>2, <2>7, <3>4 DEF Adds, Added, Awaits
      <3> QED BY <2>4, <3>5, <3>6, <3>9, <3>10 DEF Settled
    <2>8. CASE kind # "ADD"
      <3>1. snap[d].status \notin Awaits
        BY <1>1, <1>3, <2>3, <2>8 DEF Settled, Agrees
      <3>2. Added(d)
        BY <3>1 DEF Settled, Adds, Added
      <3>3. Added(d)'
        BY <1>6, <2>8, <3>2 DEF Added
      <3>4. Adds(d)' /\ Lives(d)'
        BY <2>2, <2>8, <3>3 DEF Adds, Added, Lives, Alive
      <3>5. ~Has(t, "cancel", d)
        <4> SUFFICES ASSUME NEW j \in 1..Len(todo[t]), todo[t][j].do = "cancel", todo[t][j].doc = d
                     PROVE  FALSE
          BY DEF Has
        <4>1. 1 = j
          BY <1>4, <1>8 DEF Plan
        <4> QED BY <1>1, <1>4, <4>1
      <3>6. Agrees(d)'
        BY <2>2, <2>5, <2>6, <2>8, <3>5 DEF Agrees, Awaits
      <3>7. Comes(d)'
        <4> SUFFICES ASSUME NEW u \in Threads, Has(u, "bindDoc", d)' \/ Sends(u, "ADD", d)' PROVE FALSE
          BY DEF Comes
        <4>1. u = t /\ Requesting(t)'
          BY <2>6, UploadStill
        <4>2. Has(t, "bindDoc", d) \/ Sends(t, "ADD", d)
          BY <2>5, <4>1 DEF Kinds
        <4> QED BY <1>1, <1>2, <1>3, <2>8, <4>2, NoUpload
      <3> QED BY <2>4, <3>4, <3>6, <3>7 DEF Settled
    <2> QED BY <2>7, <2>8
  <1> QED BY <1>7, <1>8

\* A task is canceled, or the request ends.
LEMMA CancelSettled ==
  ASSUME Typed, Typed', Sorted, Sorted', OneRequest, ~mishap', NEW t \in Threads, Cancel(t),
         NEW d \in Docs, \A e \in Docs : Settled(e)
  PROVE  Settled(d)'
  <1>1. /\ Op1(t).do = "cancel" /\ Op1(t).doc \in Docs /\ Transaction(t) /\ ~Free(t)
        /\ \/ Drop(t) /\ UNCHANGED <<snap, tasks>>
           \/ Cancels(t, Op1(t).doc, snap[Op1(t).doc].task)
        /\ rel' = rel /\ ~mishap
    BY CancelCancels DEF Cancel, Does, Transaction
  <1>2. Requesting(t)
    <2>1. serving[t] = 0
      BY <1>1, CallbackAhead
    <2> QED BY <1>1, <2>1 DEF Requesting
  <1>3. /\ todo[t] \in Seq(FitOps) /\ Len(todo[t]) \in Nat /\ Len(todo[t]) >= 1 /\ Op1(t) = todo[t][1]
        /\ \A j \in 1..Len(todo[t]) : todo[t][j].doc = Op1(t).doc => j = 1
        /\ 1 \in 1..Len(todo[t])
    BY <1>1, <1>2, RequestHead
  <1>4. /\ \A u \in Threads : serving'[u] \in {0, serving[u]}
        /\ \A u \in Threads \ {t} : todo'[u] = todo[u] /\ serving'[u] = serving[u]
        /\ serving'[t] = (IF todo'[t] = << >> THEN 0 ELSE serving[t])
        /\ todo'[t] \in Seq(FitOps) /\ Form(todo[t], todo'[t]) /\ Op1(t) \in FitOps
    BY <1>1, TransactionGoes DEF Goes
  <1>5. CASE Drop(t) /\ UNCHANGED <<snap, tasks>>
    <2>1. todo'[t] = << >>
      BY <1>5, Shape DEF Drop, Continue
    <2> QED BY <1>1, <1>5, <2>1, PlainSettled
  <1>6. CASE Cancels(t, Op1(t).doc, snap[Op1(t).doc].task)
    <2>1. PICK e \in Docs : e = Op1(t).doc
      BY <1>1
    <2>2. PICK id \in 1..Len(tasks) : id = snap[e].task
      BY <1>6, <2>1, Shape, SameStore DEF Cancels, SnapRec
    <2>3. /\ Enters(id, "canceled") /\ snap'[e].status = "CANCELED" /\ snap'[e].task = id
          /\ \A f \in Docs : f # e => snap'[f] = snap[f]
          /\ tasks[id].phase = "queued"
      BY <1>6, <2>1, <2>2 DEF Cancels
    <2>4. /\ Len(tasks') = Len(tasks) /\ tasks'[id].phase \in Over
          /\ \A i \in 1..Len(tasks) : Same(i) /\ (i # id => tasks'[i] = tasks[i])
      BY <2>3 DEF Enters, Over
    <2>5. ASSUME NEW j \in 1..Len(tasks), Running(j)' PROVE Running(j)
      <3>1. (\E u \in Threads : serving'[u] = j) => Running(j)
        BY <1>4, Shape DEF Running
      <3>2. tasks'[j].phase \notin Over => Running(j)
        BY <2>4 DEF Running
      <3> QED BY <2>5, <3>1, <3>2 DEF Running
    <2>6. tasks[id].doc = e /\ Running(id) /\ tasks[id].kind \in Kinds
      <3>1. tasks[id] \in TaskRec
        BY Shape
      <3> QED BY <2>2, <2>3, <3>1 DEF Settled, SnapFits, Running, Over, TaskRec
    <2>7. TasksRest(d)
      <3>1. Len(tasks) <= Len(tasks')
        BY <2>4, Shape
      <3> QED BY <2>4, <2>5, <3>1 DEF TasksRest
    <2>8. (Fresh(d) => Fresh(d)') /\ (Added(d) => Added(d)')
      BY <2>7, TasksStay
    <2>9. CASE e # d
      <3>1. snap'[d] = snap[d] /\ snap[d].task \in 0..Len(tasks)
        BY <2>3, <2>9, Shape, SameStore DEF SnapRec
      <3>2. SnapRests(d)
        BY <2>4, <2>6, <2>9, <3>1 DEF SnapRests, Settled, SnapFits
      <3>3. HandlersRest(d)
        BY <1>1, <2>1, <2>9, HandlersStay
      <3> QED BY <1>1, <2>7, <3>2, <3>3, SettledStays
    <2>10. CASE e = d
      <3>1. Has(t, "cancel", d)
        BY <1>1, <1>3, <2>1, <2>10 DEF Has
      <3>2. snap[d].status \in Awaits \cup {"SUCCESS"}
        BY <1>2, <3>1 DEF Settled, Agrees
      <3>3. Fresh(d) /\ Newest(d) /\ d \in rel
        BY <3>2 DEF Settled, Lives, Alive, Awaits
      <3>4. tasks[id].kind = "ADD"
        <4>1. ~(snap[d].task > id)
          BY <2>2, <2>10
        <4> QED BY <2>6, <2>10, <3>3, <4>1 DEF Fresh, Newest, Kinds
      <3>5. Newest(d)'
        <4>1. snap'[d].task >= snap[d].task
          BY <2>2, <2>3, <2>10
        <4> QED BY <2>7, <3>3, <4>1, TasksStay
      <3>6. Lives(d)'
        BY <1>1, <2>8, <3>3, <3>5 DEF Lives
      <3>7. SnapFits(d)'
        BY <2>3, <2>4, <2>6, <2>10 DEF SnapFits, Same, None
      <3>8. Adds(d)'
        <4> SUFFICES ASSUME NEW j \in 1..Len(tasks'), tasks'[j].doc = d, tasks'[j].kind = "ADD",
                            tasks'[j].phase \notin Over
                     PROVE  FALSE
          BY DEF Adds
        <4>1. j # id /\ tasks[j].doc = d /\ tasks[j].kind = "ADD" /\ tasks[j].phase \notin Over
          BY <2>4 DEF Same
        <4> QED BY <2>2, <2>4, <2>10, <4>1 DEF Settled, Adds
      <3>9. Comes(d)'
        <4> SUFFICES ASSUME NEW u \in Threads, Has(u, "bindDoc", d)' \/ Sends(u, "ADD", d)' PROVE FALSE
          BY DEF Comes
        <4>1. Requesting(u)'
          BY UploadStill
        <4>2. CASE u # t
          BY <1>1, <1>2, <1>4, <4>2, OtherSame, NoUpload
        <4>3. CASE u = t
          <5>1. Has(t, "bindDoc", d)' => Has(t, "bindDoc", d)
            BY <1>1, Remains DEF DocSteps
          <5>2. Sends(t, "ADD", d)' => Sends(t, "ADD", d) \/ Op1(t).kind = "ADD"
            BY <1>1, Remains
          <5>3. Op1(t).kind # "ADD"
            BY <1>1, <1>2, RequestHead DEF None
          <5> QED BY <1>1, <1>2, <4>3, <5>1, <5>2, <5>3, NoUpload
        <4> QED BY <4>2, <4>3
      <3>10. ~Has(t, "cancel", d)'
        <4> SUFFICES ASSUME NEW j \in 1..Len(todo'[t]), todo'[t][j].do = "cancel", todo'[t][j].doc = d
                     PROVE  FALSE
          BY DEF Has
        <4>1. Replaced(todo[t], todo'[t])
          BY <1>1, <1>3, <1>4 DEF Form, Ended, Shorter
        <4>2. j # 1
          BY <1>4, <1>3, <4>1, SuccShape DEF Replaced
        <4>3. j \in 2..Len(todo[t]) /\ j \in 1..Len(todo[t])
          BY <1>3, <4>1, <4>2 DEF Replaced
        <4>4. todo[t][j] = todo'[t][j]
          BY <4>1, <4>3 DEF Replaced
        <4> QED BY <1>3, <2>1, <2>10, <4>2, <4>3, <4>4
      <3>11. Agrees(d)'
        <4>1. \A u \in Threads : Requesting(u)' => u = t
          BY <1>1, <1>2, <1>4, OtherSame DEF OneRequest
        <4> QED BY <2>3, <2>10, <3>10, <4>1 DEF Agrees, Awaits
      <3> QED BY <3>6, <3>7, <3>8, <3>9, <3>11 DEF Settled
    <2> QED BY <2>9, <2>10
  <1> QED BY <1>1, <1>5, <1>6

\* The callback of task id, for the documents it says nothing of.
LEMMA CallbackRests ==
  ASSUME Typed, Typed', Sorted, Sorted', NEW t \in Threads, NEW id \in 1..Len(tasks), NEW phase,
         tasks[id].phase \notin Over, Enters(id, phase), phase \in {"working", "gone"}, rel' = rel,
         \/ UNCHANGED <<todo, serving>>
         \/ /\ Free(t) /\ todo'[t] = Cleanup(id) /\ serving'[t] = (IF tasks[id].kind = "ADD" THEN 0 ELSE id)
            /\ \A u \in Threads \ {t} : todo'[u] = todo[u] /\ serving'[u] = serving[u],
         NEW d \in Docs
  PROVE  /\ TasksRest(d) /\ HandlersRest(d)
         /\ Settled(d) /\ snap'[d] = snap[d] /\ (snap[d].task # id \/ phase = "working") => Settled(d)'
         /\ (Fresh(d) => Fresh(d)') /\ (Added(d) => Added(d)')
         /\ Newest(d) /\ snap'[d].task >= snap[d].task => Newest(d)'
  <1>1. /\ Len(tasks') = Len(tasks) /\ Len(tasks) \in Nat
        /\ \A i \in 1..Len(tasks) : Same(i) /\ (i # id => tasks'[i] = tasks[i])
    BY Shape DEF Enters
  <1>2. \A u \in Threads : serving'[u] \in {0, serving[u], id}
    OBVIOUS
  <1>3. ASSUME NEW j \in 1..Len(tasks), Running(j)' PROVE Running(j)
    <2>1. j = id => Running(j)
      BY DEF Running
    <2>2. j # id /\ (\E u \in Threads : serving'[u] = j) => Running(j)
      BY <1>1, <1>2 DEF Running
    <2>3. j # id /\ tasks'[j].phase \notin Over => Running(j)
      BY <1>1 DEF Running
    <2> QED BY <1>3, <2>1, <2>2, <2>3 DEF Running
  <1>4. TasksRest(d)
    BY <1>1, <1>3 DEF TasksRest
  <1>5. HandlersRest(d)
    <2>1. CASE UNCHANGED <<todo, serving>>
      BY <2>1, OtherSame DEF HandlersRest, Dropping
    <2>2. CASE /\ Free(t) /\ todo'[t] = Cleanup(id) /\ serving'[t] = (IF tasks[id].kind = "ADD" THEN 0 ELSE id)
               /\ \A u \in Threads \ {t} : todo'[u] = todo[u] /\ serving'[u] = serving[u]
      <3>1. ~Requesting(t)' /\ ~Requesting(t)
        BY <2>2, CleanupFinishes DEF Requesting, Free
      <3> QED BY <2>2, <3>1, OtherSame DEF HandlersRest, Dropping
    <2> QED BY <2>1, <2>2
  <1>6. ASSUME Settled(d), snap'[d] = snap[d], snap[d].task # id \/ phase = "working" PROVE Settled(d)'
    <2>1. snap[d].task \in 0..Len(tasks)
      BY Shape, SameStore DEF SnapRec
    <2>2. SnapRests(d)
      BY <1>1, <1>6, <2>1 DEF SnapRests, Settled, SnapFits, Enters
    <2> QED BY <1>4, <1>5, <1>6, <2>2, SettledStays
  <1> QED BY <1>4, <1>5, <1>6, TasksStay

\* What a task that is not stale says of its document.
LEMMA NotStale ==
  ASSUME Typed, NEW id \in 1..Len(tasks), tasks[id].phase \notin Over, NEW d \in Docs, tasks[id].doc = d,
         Settled(d), snap[d].task \in {0, id}
  PROVE  /\ tasks[id].kind = "ADD" => /\ snap[d].task = id /\ snap[d].status \in Awaits
                                      /\ Fresh(d) /\ Newest(d) /\ d \in rel /\ ~Added(d)
         /\ tasks[id].kind # "ADD" => snap[d].status \notin Alive /\ Added(d)
  <1>1. tasks[id].kind = "ADD" => snap[d].task = id /\ snap[d].status \in Awaits /\ ~Added(d)
    BY DEF Settled, Adds, Added
  <1>2. tasks[id].kind = "ADD" => Fresh(d) /\ Newest(d) /\ d \in rel
    BY <1>1 DEF Settled, Lives, Alive, Awaits
  <1>3. tasks[id].kind \in Kinds
    <2>1. tasks[id] \in TaskRec
      BY Shape
    <2> QED BY <2>1 DEF TaskRec
  <1>4. tasks[id].kind # "ADD" => ~(Fresh(d) /\ Newest(d))
    <2>1. ~(snap[d].task > id)
      OBVIOUS
    <2> QED BY <1>3, <2>1 DEF Fresh, Newest, Running, Kinds
  <1>5. tasks[id].kind # "ADD" => snap[d].status \notin Alive
    BY <1>4 DEF Settled, Lives
  <1>6. snap[d].status \notin Alive => Added(d)
    BY DEF Settled, Adds, Added, Alive, Awaits
  <1> QED BY <1>1, <1>2, <1>5, <1>6

\* A callback sets the snapshot of its document.
LEMMA SetSettled ==
  ASSUME Typed, Typed', Sorted, Sorted', NEW t \in Threads, NEW id \in 1..Len(tasks), NEW phase,
         tasks[id].phase \notin Over, Enters(id, phase), rel' = rel,
         \/ UNCHANGED <<todo, serving>>
         \/ /\ Free(t) /\ todo'[t] = Cleanup(id) /\ serving'[t] = (IF tasks[id].kind = "ADD" THEN 0 ELSE id)
            /\ \A u \in Threads \ {t} : todo'[u] = todo[u] /\ serving'[u] = serving[u],
         NEW d \in Docs, tasks[id].doc = d, Settled(d), snap[d].task \in {0, id},
         NEW status, Sets(d, status, id),
         \/ phase = "working" /\ status = (IF tasks[id].kind = "ADD" THEN "WORKING" ELSE "DELETING")
         \/ phase = "gone" /\ status = (IF tasks[id].kind = "ADD" THEN "SUCCESS" ELSE "DELETED")
  PROVE  Settled(d)'
  <1>1. snap'[d].status = status /\ snap'[d].task = id
    BY DEF Sets
  <1>2. /\ TasksRest(d) /\ HandlersRest(d)
        /\ (Fresh(d) => Fresh(d)') /\ (Added(d) => Added(d)')
        /\ (Newest(d) /\ snap'[d].task >= snap[d].task => Newest(d)')
    BY CallbackRests
  <1>3. /\ Len(tasks') = Len(tasks) /\ Len(tasks) \in Nat /\ tasks'[id].phase = phase
        /\ \A i \in 1..Len(tasks) : Same(i) /\ (i # id => tasks'[i] = tasks[i])
    BY Shape DEF Enters
  <1>4. SnapFits(d)'
    BY <1>1, <1>3 DEF SnapFits, Same, None
  <1>5. Comes(d)'
    BY <1>2, ComesStays DEF Settled
  <1>6. CASE tasks[id].kind = "ADD"
    <2>1. /\ snap[d].task = id /\ snap[d].status \in Awaits
          /\ Fresh(d) /\ Newest(d) /\ d \in rel
      BY <1>6, NotStale
    <2>2. snap'[d].task >= snap[d].task
      BY <1>1, <2>1
    <2>3. Lives(d)'
      BY <1>2, <2>1, <2>2 DEF Lives
    <2>4. Adds(d)'
      <3> SUFFICES ASSUME NEW j \in 1..Len(tasks'), tasks'[j].doc = d, tasks'[j].kind = "ADD",
                          tasks'[j].phase \notin Over
                   PROVE  id = j /\ status \in Awaits
        BY <1>1 DEF Adds
      <3>1. j \in 1..Len(tasks) /\ tasks[j].doc = d /\ tasks[j].kind = "ADD"
        BY <1>3 DEF Same
      <3>2. j # id => FALSE
        BY <1>3, <2>1, <3>1 DEF Settled, Adds
      <3>3. phase = "working"
        BY <1>3, <3>2 DEF Over
      <3> QED BY <1>6, <3>2, <3>3 DEF Awaits
    <2>5. Agrees(d)'
      <3> SUFFICES ASSUME NEW u \in Threads, Requesting(u)'
                   PROVE  /\ \A kind \in Kinds \ {"ADD"} : ~Sends(u, kind, d)'
                          /\ ~Has(u, "purge", d)' /\ ~Has(u, "dropSnap", d)'
                          /\ status \in Awaits \cup {"SUCCESS"}
        BY <1>1 DEF Agrees
      <3>1. Requesting(u)
        BY <1>2 DEF HandlersRest
      <3>2. /\ \A kind \in Kinds \ {"ADD"} : ~Sends(u, kind, d)
            /\ ~(Has(u, "purge", d) \/ Has(u, "dropSnap", d))
        BY <2>1, <3>1 DEF Settled, Agrees
      <3> QED BY <1>2, <1>6, <3>2 DEF HandlersRest, Awaits
    <2> QED BY <1>4, <1>5, <2>3, <2>4, <2>5 DEF Settled
  <1>7. CASE tasks[id].kind # "ADD"
    <2>1. snap[d].status \notin Alive /\ Added(d)
      BY <1>7, NotStale
    <2>2. Lives(d)' /\ Adds(d)'
      BY <1>1, <1>2, <1>7, <2>1 DEF Lives, Adds, Added, Alive
    <2>3. Agrees(d)'
      <3> SUFFICES ASSUME NEW u \in Threads, Requesting(u)'
                   PROVE  ~Has(u, "cancel", d)'
        BY <1>1, <1>7 DEF Agrees, Awaits
      <3>1. Requesting(u)
        BY <1>2 DEF HandlersRest
      <3>2. ~Has(u, "cancel", d)
        BY <2>1, <3>1 DEF Settled, Agrees, Alive, Awaits
      <3> QED BY <1>2, <3>2 DEF HandlersRest
    <2> QED BY <1>4, <1>5, <2>2, <2>3 DEF Settled
  <1> QED BY <1>6, <1>7

LEMMA CallbackSettled ==
  ASSUME Typed, Typed', Sorted, Sorted', ~mishap', NEW t \in Threads, NEW id \in 1..Len(tasks),
         Started(id) \/ Finished(t, id), NEW d \in Docs, Settled(d)
  PROVE  Settled(d)'
  <1> DEFINE e == tasks[id].doc
             Unmoved == UNCHANGED <<todo, serving>>
             Comes2 == /\ Free(t) /\ todo'[t] = Cleanup(id)
                       /\ serving'[t] = (IF tasks[id].kind = "ADD" THEN 0 ELSE id)
                       /\ \A u \in Threads \ {t} : todo'[u] = todo[u] /\ serving'[u] = serving[u]
  <1>1. PICK phase \in {"working", "gone"} :
          /\ tasks[id].phase \notin Over /\ Enters(id, phase) /\ e \in Docs /\ rel' = rel
          /\ Unmoved \/ Comes2
          /\ IF snap[e].task \notin {0, id} THEN snap' = snap
             ELSE \E status :
                    /\ Sets(e, status, id)
                    /\ \/ phase = "working"
                          /\ status = (IF tasks[id].kind = "ADD" THEN "WORKING" ELSE "DELETING")
                       \/ phase = "gone"
                          /\ status = (IF tasks[id].kind = "ADD" THEN "SUCCESS" ELSE "DELETED")
    <2>1. CASE Started(id)
      BY <2>1, StartedEnters DEF Over
    <2>2. CASE Finished(t, id)
      BY <2>2, FinishedEnters DEF Over
    <2> QED BY <2>1, <2>2
  <1>2. CASE e = d /\ snap[e].task \in {0, id}
    BY <1>1, <1>2, SetSettled
  <1>3. CASE e = d /\ snap[e].task \notin {0, id}
    BY <1>1, <1>3, CallbackRests
  <1>4. CASE e # d
    <2>1. snap'[d] = snap[d]
      BY <1>1, <1>4 DEF Sets
    <2>2. snap[d].task # id
      <3>1. snap[d].task = id => tasks[id].doc = d
        BY DEF Settled, SnapFits
      <3> QED BY <1>4, <3>1
    <2> QED BY <1>1, <2>1, <2>2, CallbackRests
  <1> QED BY <1>2, <1>3, <1>4

\* A handler that breaks off.
LEMMA InterruptedSettled ==
  ASSUME Typed, Typed', Sorted, Sorted', ~mishap', NEW t \in Threads, Interrupted(t),
         NEW d \in Docs, Settled(d)
  PROVE  Settled(d)'
  <1> DEFINE id == serving[t]
  <1>1. /\ ~Free(t) /\ todo'[t] = << >> /\ serving'[t] = 0
        /\ \A u \in Threads \ {t} : todo'[u] = todo[u] /\ serving'[u] = serving[u]
        /\ rel' = rel /\ snap' = snap /\ id # 0 /\ Enters(id, "again")
    BY InterruptedEnters
  <1>2. id \in 1..Len(tasks) /\ tasks[id].kind # "ADD" /\ tasks[id].phase = "gone"
    BY <1>1, CallbackAhead
  <1> HIDE DEF id
  <1>3. /\ Len(tasks') = Len(tasks) /\ Len(tasks) \in Nat
        /\ \A i \in 1..Len(tasks) : Same(i) /\ (i # id => tasks'[i] = tasks[i])
    BY <1>1, Shape DEF Enters
  <1>4. ASSUME NEW j \in 1..Len(tasks), Running(j)' PROVE Running(j)
    <2>1. Running(id)
      BY DEF Running, id
    <2>2. (\E u \in Threads : serving'[u] = j) => Running(j)
      <3>1. \A u \in Threads : serving'[u] \in {0, serving[u]}
        BY <1>1
      <3> QED BY <3>1 DEF Running
    <2>3. j # id /\ tasks'[j].phase \notin Over => Running(j)
      BY <1>3 DEF Running
    <2> QED BY <1>4, <2>1, <2>2, <2>3 DEF Running
  <1>5. TasksRest(d)
    BY <1>2, <1>3, <1>4 DEF TasksRest
  <1>6. HandlersRest(d)
    <2>1. ~Requesting(t) /\ ~Requesting(t)'
      BY <1>1 DEF Requesting, Free, id
    <2> QED BY <1>1, <2>1, OtherSame DEF HandlersRest, Dropping
  <1>7. SnapRests(d)
    <2>1. snap[d].task \in 0..Len(tasks)
      BY Shape, SameStore DEF SnapRec
    <2> QED BY <1>1, <1>2, <1>3, <2>1 DEF SnapRests, Settled, SnapFits
  <1> QED BY <1>1, <1>5, <1>6, <1>7, SettledStays

LEMMA AsksShape ==
  ASSUME Typed, Sorted, ~mishap', NEW t \in Threads, NEW ops \in Seq(FitOps), Asks(t, ops)
  PROVE  /\ todo'[t] = ops /\ serving'[t] = 0 /\ tasks' = tasks
         /\ \A u \in Threads \ {t} : todo'[u] = todo[u] /\ serving'[u] = serving[u]
         /\ \A u \in Threads : serving'[u] = serving[u]
         /\ UNCHANGED <<kb, bindings, rel, snap>>
         /\ Free(t) /\ ~mishap /\ (\A u \in Threads : ~Requesting(u))
         /\ \A u \in Threads : Requesting(u)' => u = t
         /\ Requesting(t)' <=> ops # << >>
  <1>1. /\ todo'[t] = ops /\ serving'[t] = 0 /\ tasks' = tasks
        /\ \A u \in Threads \ {t} : todo'[u] = todo[u] /\ serving'[u] = serving[u]
    BY AdmitShape DEF Asks
  <1>2. UNCHANGED <<kb, bindings, rel, snap>> /\ Free(t)
    BY DEF Asks, Admit, store
  <1>3. ~mishap /\ \A u \in Threads : ~Requesting(u)
    BY DEF Asks, Meanwhile
  <1>4. \A u \in Threads : Requesting(u)' => u = t
    BY <1>1, <1>3, OtherSame
  <1>5. serving[t] = 0
    BY <1>2 DEF Sorted, ListOf
  <1> QED BY <1>1, <1>2, <1>3, <1>4, <1>5 DEF Requesting, Free

\* Nothing is on its way that would remove the row.
LEMMA NotDoomed ==
  ASSUME Typed, Sorted, ~Doomed
  PROVE  /\ \A i \in 1..Len(tasks) : tasks[i].kind = "PURGE" => tasks[i].phase = "gone" /\ ~Running(i)
         /\ \A u \in Threads : ~Free(u) => Last(todo[u]) # "finalize"
  <1>1. /\ \A u \in Threads : \A i \in DOMAIN todo[u] : todo[u][i].do # "finalize"
        /\ \A i \in DOMAIN tasks : tasks[i].kind = "PURGE" => tasks[i].phase = "gone"
    BY DEF Doomed
  <1>2. ASSUME NEW u \in Threads, ~Free(u) PROVE Last(todo[u]) # "finalize"
    <2>1. todo[u] \in Seq(FitOps) /\ todo[u] # << >>
      BY <1>2, Shape DEF Free
    <2>2. Len(todo[u]) \in DOMAIN todo[u]
      BY <2>1
    <2> QED BY <1>1, <2>2 DEF Last
  <1>3. ASSUME NEW i \in 1..Len(tasks), tasks[i].kind = "PURGE"
        PROVE  tasks[i].phase = "gone" /\ ~Running(i)
    <2>1. tasks[i].phase = "gone"
      BY <1>1, <1>3, Shape
    <2>2. ASSUME NEW u \in Threads, serving[u] = i PROVE FALSE
      <3>1. ~Free(u) /\ Last(todo[u]) = "finalize"
        BY <1>3, <2>2, CallbackAhead
      <3> QED BY <1>2, <3>1
    <2> QED BY <2>1, <2>2 DEF Running, Over
  <1> QED BY <1>2, <1>3

LEMMA RequestSettled ==
  ASSUME Typed, Typed', Sorted, Sorted', ~mishap', NEW t \in Threads, NEW ops \in Seq(FitOps),
         Asks(t, ops), NEW d \in Docs, Settled(d)
  PROVE  Settled(d)'
  <1>1. /\ todo'[t] = ops /\ tasks' = tasks /\ snap' = snap /\ rel' = rel
        /\ \A u \in Threads : serving'[u] = serving[u]
        /\ \A u \in Threads : ~Requesting(u)
        /\ \A u \in Threads : Requesting(u)' => u = t
    BY AsksShape
  <1>2. TasksRest(d) /\ SnapRests(d)
    BY <1>1, SameRest DEF Settled
  <1>3. /\ SnapFits(d)' /\ Adds(d)' /\ (Fresh(d) => Fresh(d)') /\ (Newest(d) => Newest(d)')
        /\ (Added(d) => Added(d)')
    <2>1. snap'[d].task >= snap[d].task
      BY <1>1, Shape DEF SnapRec
    <2>2. \A i \in 1..Len(tasks) : Same(i)
      BY <1>2 DEF TasksRest
    <2> QED BY <1>1, <1>2, <2>1, <2>2, TasksStay, SnapStays DEF Settled
  <1>4. Lives(d)'
    BY <1>1, <1>3 DEF Settled, Lives, Dropping
  <1>5. Agrees(d)'
    <2> SUFFICES ASSUME Requesting(t)'
                 PROVE  /\ Has(t, "cancel", d)' => snap[d].status \in Awaits \cup {"SUCCESS"}
                        /\ \A kind \in Kinds \ {"ADD"} : Sends(t, kind, d)' => snap[d].status \notin Awaits
                        /\ Has(t, "purge", d)' \/ Has(t, "dropSnap", d)' =>
                             snap[d].status \notin Awaits \cup {"SUCCESS"}
      BY <1>1 DEF Agrees
    <2>1. \A i \in 1..Len(ops) :
            /\ ops[i].do = "cancel" => snap[ops[i].doc].status = "WAITING"
            /\ ops[i].do = "submit" /\ ops[i].kind # "ADD" => snap[ops[i].doc].status \notin Awaits
            /\ ops[i].do = "purge" => snap[ops[i].doc].status \in {None, "DELETED"}
            /\ ops[i].do # "dropSnap"
      BY DEF Asks, Checked
    <2> QED BY <1>1, <2>1 DEF Has, Sends, Awaits, None
  <1>6. Comes(d)'
    <2> SUFFICES ASSUME NEW u \in Threads, Has(u, "bindDoc", d)' \/ Sends(u, "ADD", d)'
                 PROVE  Fresh(d) /\ Added(d) /\ Has(u, "bindDoc", d)'
      BY <1>3 DEF Comes
    <2>1. u = t
      BY <1>1, UploadStill
    <2>2. PICK i \in 1..Len(ops) : ops[i].do = "bindDoc" \/ ops[i].kind = "ADD"
      BY <1>1, <2>1 DEF Has, Sends
    <2>3. PICK j \in 1..Len(ops) : (ops[j].do = "bindDoc" \/ ops[j].kind = "ADD") /\ ops[j].doc = d
      BY <1>1, <2>1 DEF Has, Sends
    <2>4. /\ ops[1].do = "bindDoc" /\ ~Doomed /\ ~Touched(d)
          /\ d \in rel => snap[d].status \in {"FAILED", "CANCELED", "DELETED"}
      BY <2>3 DEF Asks, Checked
    <2>5. Uploads(ops, d)
      BY <2>3 DEF Asks, Plan
    <2>6. ops[1].doc = d /\ 1 \in 1..Len(ops)
      <3>1. ops[1].doc = d /\ Len(ops) \in {1, 2}
        BY <2>5, UploadHead
      <3> QED BY <3>1
    <2>7. Has(t, "bindDoc", d)'
      BY <1>1, <2>4, <2>6 DEF Has
    <2>8. Fresh(d)
      <3> SUFFICES ASSUME NEW k \in 1..Len(tasks), tasks[k].doc = d, tasks[k].kind \in {"DELETE", "PURGE"}
                   PROVE  ~Running(k)
        BY DEF Fresh
      <3>1. tasks[k].kind = "PURGE" => ~Running(k)
        BY <2>4, NotDoomed
      <3>2. tasks[k].kind = "DELETE" => ~Running(k)
        <4>1. k \in DOMAIN tasks
          BY Shape
        <4> QED BY <2>4, <4>1 DEF Touched, Running, Over
      <3> QED BY <3>1, <3>2
    <2>9. Added(d)
      BY <2>4 DEF Settled, Adds, Added, Lives, Alive, Awaits
    <2> QED BY <2>1, <2>7, <2>8, <2>9
  <1> QED BY <1>3, <1>4, <1>5, <1>6 DEF Settled

AllSettled == mishap \/ \A d \in Docs : Settled(d)

LEMMA NextSettled ==
  ASSUME Typed, Sorted, OneRequest, AllSettled, [Next]_vars
  PROVE  AllSettled'
  <1>1. Typed' /\ Sorted'
    BY NextTyped, NextSorted
  <1> SUFFICES ASSUME ~mishap' PROVE \A d \in Docs : Settled(d)'
    BY DEF AllSettled
  <1>2. ASSUME NEW t \in Threads, Request(t) PROVE \A d \in Docs : Settled(d)'
    <2>1. PICK ops \in Seq(FitOps) : Asks(t, ops)
      BY <1>2, RequestAsks
    <2>2. ~mishap
      BY <2>1 DEF Asks
    <2> QED BY <1>1, <2>1, <2>2, RequestSettled DEF AllSettled
  <1>3. ASSUME NEW t \in Threads, Transaction(t) PROVE \A d \in Docs : Settled(d)'
    <2>0. ~mishap
      <3>1. mishap \in BOOLEAN
        BY SameStore
      <3> QED BY <1>3, <3>1 DEF Transaction, EnsureKb, BindAlgo, BindDoc, RemoveDoc, DropSnap, Submit,
                 Cancel, Refuse, SetDeleting, Finalize, CountLeft, RemoveBinding, Calm, Mishap
    <2>1. \A d \in Docs : Settled(d)
      BY <2>0 DEF AllSettled
    <2>2. CASE RemoveDoc(t)
      BY <1>1, <2>1, <2>2, RemoveDocSettled
    <2>3. CASE DropSnap(t)
      BY <1>1, <2>1, <2>3, DropSnapSettled
    <2>4. CASE Submit(t)
      BY <1>1, <2>1, <2>4, SubmitSettled
    <2>5. CASE Cancel(t)
      BY <1>1, <2>1, <2>5, CancelSettled
    <2>6. CASE BindDoc(t)
      <3>1. Op1(t).do = "bindDoc" /\ tasks' = tasks /\ snap' = snap /\ rel' = rel \cup {Op1(t).doc}
        BY <2>6 DEF BindDoc, Does
      <3> QED BY <1>1, <1>3, <2>1, <3>1, PlainSettled
    <2>7. CASE \/ EnsureKb(t) \/ BindAlgo(t) \/ Refuse(t) \/ SetDeleting(t) \/ Finalize(t)
               \/ CountLeft(t) \/ RemoveBinding(t)
      <3>1. /\ Op1(t).do \notin {"bindDoc", "cancel", "dropSnap"}
            /\ tasks' = tasks /\ snap' = snap /\ rel' = rel
        BY <2>7 DEF EnsureKb, BindAlgo, Refuse, SetDeleting, Finalize, CountLeft, RemoveBinding, Does, store
      <3> QED BY <1>1, <1>3, <2>1, <3>1, PlainSettled
    <2> QED BY <1>3, <2>2, <2>3, <2>4, <2>5, <2>6, <2>7 DEF Transaction
  <1>4. ASSUME NEW t \in Threads, Interrupted(t) PROVE \A d \in Docs : Settled(d)'
    <2>1. ~mishap
      BY <1>4, InterruptedEnters
    <2> QED BY <1>1, <1>4, <2>1, InterruptedSettled DEF AllSettled
  <1>5. ASSUME NEW t \in Threads, NEW id \in 1..Len(tasks), Callback(t, id)
        PROVE  \A d \in Docs : Settled(d)'
    <2>1. ~mishap
      BY <1>5 DEF Callback, Started, Finished, Calm, Mishap
    <2> QED BY <1>1, <1>5, <2>1, CallbackSettled DEF AllSettled, Callback
  <1>6. Crash => mishap'
    BY DEF Crash, Mishap
  <1>7. CASE UNCHANGED vars
    BY <1>7 DEF vars, store, AllSettled, Settled, SnapFits, Lives, Fresh, Newest, Running, Dropping, Requesting,
          Free, Op1, Adds, Added, Comes, Has, Sends, Agrees
  <1> QED BY <1>2, <1>3, <1>4, <1>5, <1>6, <1>7 DEF Next

LEMMA InitSettled == ASSUME Init PROVE AllSettled
  <1>1. /\ \A t \in Threads : todo[t] = << >> /\ serving[t] = 0
        /\ tasks = << >> /\ Len(tasks) = 0
        /\ \A d \in Docs : snap[d].task = 0 /\ snap[d].status = (IF d \in rel THEN "SUCCESS" ELSE None)
    BY DEF Init
  <1>2. ASSUME NEW d \in Docs PROVE Settled(d)
    <2>1. Fresh(d) /\ Newest(d) /\ Adds(d) /\ Added(d)
      BY <1>1 DEF Fresh, Newest, Adds, Added
    <2>2. SnapFits(d) /\ Lives(d)
      BY <1>1, <2>1 DEF SnapFits, Lives, Alive, None
    <2>3. Comes(d) /\ Agrees(d)
      BY <1>1 DEF Comes, Agrees, Has, Sends, Requesting, Free
    <2> QED BY <2>1, <2>2, <2>3 DEF Settled
  <1> QED BY <1>2 DEF AllSettled

-----------------------------------------------------------------------------
(* The deletion of the knowledge base.                                     *)

\* A request that makes or fills the knowledge base is not overtaken by its deletion.
NoDoom == \A t \in Threads : Requesting(t) /\ Last(todo[t]) \notin Ends => ~Doomed

\* Without a row there is nothing else, and nothing comes but after the row.
Void == kb = None => rel = {} /\ bindings = {}
There ==
  kb = None => \A t \in Threads : Requesting(t) => \A i \in 1..Len(todo[t]) :
    /\ todo[t][i].do # "bindDoc" /\ todo[t][i].kind # "ADD"
    /\ todo[t][i].do = "bindAlgo" => todo[t][1].do = "ensureKb"

\* A document is purged after it was unbound.
Order ==
  \A i, j \in 1..Len(tasks) :
    /\ tasks[i].kind = "UNBIND" /\ tasks[j].kind = "PURGE" /\ tasks[i].doc = tasks[j].doc
    /\ Running(j)
    => i < j

\* A callback finds the snapshot of its task, or of a newer deletion.
Purging ==
  \A t \in Threads, d \in Docs : serving[t] # 0 /\ Has(t, "purge", d) /\ d \in rel =>
    snap[d].status \in {"DELETED", "DELETING"} /\ snap[d].task >= serving[t]

\* A purge takes the document before the snapshot.
Dropped ==
  \A t \in Threads, d \in Docs :
    Has(t, "dropSnap", d) /\ (serving[t] # 0 => tasks[serving[t]].kind # "UNBIND") => d \notin rel

\* A request that removes the row has all documents ahead; one that leaves it to the
\* callbacks purges none itself.
PurgesAll ==
  \A t \in Threads : Requesting(t) =>
    /\ Last(todo[t]) = "finalize" => \A d \in rel : Has(t, "purge", d)
    /\ Last(todo[t]) = "setDeleting" => \A d \in Docs : ~Has(t, "purge", d) /\ ~Has(t, "dropSnap", d)

\* Task i will purge d: it is the one in the snapshot, or it is delivered again and no
\* other task of the document can come between.
Effects(i, d) ==
  /\ tasks[i].doc = d /\ tasks[i].kind = "PURGE"
  /\ \/ tasks[i].phase \in {"queued", "working"} /\ snap[d].status = "DELETING" /\ snap[d].task = i
     \/ /\ tasks[i].phase = "again"
        /\ \/ snap[d].status = "DELETED" /\ snap[d].task = i
           \/ snap[d].status = None /\ d \notin rel
        /\ \A j \in 1..Len(tasks) : tasks[j].doc = d /\ tasks[j].kind # "ADD" /\ j # i =>
             tasks[j].phase \in Over
Effective(d) == \E i \in 1..Len(tasks) : Effects(i, d)
Finishing(t) == ~Free(t) /\ Last(todo[t]) = "finalize"

\* A deletion of the knowledge base has begun: something will come to an end with it,
\* and will take each document with it.
Era ==
  \/ kb \in {"DELETING", "DELETED"}
  \/ \E t \in Threads : Requesting(t) /\ Last(todo[t]) \in Ends
Underway ==
  \/ \E t \in Threads : Finishing(t)
  \/ \E d \in Docs : Effective(d)
  \/ \E t \in Threads, d \in Docs : Sends(t, "PURGE", d)
Covered(d) ==
  \/ Effective(d)
  \/ \E t \in Threads : Sends(t, "PURGE", d)
  \/ \E t \in Threads : Finishing(t) /\ Has(t, "purge", d)
Deleting == Era /\ kb # None => Underway /\ \A d \in rel : Covered(d)

\* Who may remove the row belongs to a deletion that has begun.
DoomedEra == Doomed /\ kb # None => Era

Rests ==
  /\ Typed /\ Sorted /\ OneRequest /\ ~mishap /\ \A d \in Docs : Settled(d)
  /\ NoDoom /\ Void /\ There /\ Order /\ Purging /\ Dropped /\ PurgesAll /\ Deleting /\ DoomedEra

LEMMA SendsRequest ==
  ASSUME Typed, Sorted, NEW t \in Threads, NEW kind, NEW d, Sends(t, kind, d)
  PROVE  /\ Requesting(t) /\ Plan(todo[t]) /\ ~Free(t)
         /\ kind = "PURGE" => Last(todo[t]) = "setDeleting" /\ d \in Docs
  <1>1. PICK i \in 1..Len(todo[t]) :
          todo[t][i].do = "submit" /\ todo[t][i].kind = kind /\ todo[t][i].doc = d
    BY DEF Sends
  <1>2. todo[t] \in Seq(FitOps) /\ todo[t] # << >>
    <2>1. todo[t] \in Seq(FitOps)
      BY Shape
    <2> QED BY <1>1, <2>1
  <1>3. serving[t] = 0
    BY CallbackAhead
  <1>4. Requesting(t) /\ ~Free(t)
    BY <1>2, <1>3 DEF Requesting, Free
  <1>5. Plan(todo[t])
    BY <1>4 DEF Sorted, ListOf
  <1>6. d \in Docs
    <2>1. todo[t][i] \in FitOps
      BY <1>2
    <2> QED BY <1>1, <2>1 DEF FitOps
  <1> QED BY <1>1, <1>4, <1>5, <1>6 DEF Plan

LEMMA DoomedIs ==
  ASSUME Typed
  PROVE  Doomed <=> \/ \E u \in Threads : \E i \in 1..Len(todo[u]) : todo[u][i].do = "finalize"
                    \/ \E i \in 1..Len(tasks) : tasks[i].kind = "PURGE" /\ tasks[i].phase # "gone"
  <1>1. \A u \in Threads : DOMAIN todo[u] = 1..Len(todo[u])
    BY Shape
  <1>2. DOMAIN tasks = 1..Len(tasks)
    BY Shape
  <1> QED BY <1>1, <1>2 DEF Doomed

LEMMA DoomedIsNext ==
  ASSUME Typed'
  PROVE  Doomed' <=> \/ \E u \in Threads : \E i \in 1..Len(todo'[u]) : todo'[u][i].do = "finalize"
                     \/ \E i \in 1..Len(tasks') : tasks'[i].kind = "PURGE" /\ tasks'[i].phase # "gone"
  <1>1. \A u \in Threads : DOMAIN todo'[u] = 1..Len(todo'[u])
    BY DEF Typed, TypeOK
  <1>2. DOMAIN tasks' = 1..Len(tasks')
    BY DEF Typed, TypeOK
  <1> QED BY <1>1, <1>2 DEF Doomed

\* While a request is on its way that is not one that deletes, no deletion is.
LEMMA NoEra ==
  ASSUME Rests, NEW t \in Threads, Requesting(t), Last(todo[t]) \notin Ends
  PROVE  ~Doomed /\ ~(Era /\ kb # None)
  <1>1. ~Doomed
    BY DEF Rests, NoDoom
  <1>2. ASSUME NEW u \in Threads, Finishing(u) PROVE FALSE
    BY <1>1, <1>2, NotDoomed DEF Finishing, Rests
  <1>3. ASSUME NEW d \in Docs, Effective(d) PROVE FALSE
    <2>1. PICK i \in 1..Len(tasks) : tasks[i].kind = "PURGE" /\ tasks[i].phase # "gone"
      BY <1>3 DEF Effective, Effects
    <2> QED BY <1>1, <2>1, NotDoomed DEF Rests
  <1>4. ASSUME NEW u \in Threads, NEW d \in Docs, Sends(u, "PURGE", d) PROVE FALSE
    <2>1. Requesting(u) /\ Last(todo[u]) = "setDeleting"
      BY <1>4, SendsRequest DEF Rests
    <2>2. u = t
      BY <2>1 DEF Rests, OneRequest
    <2> QED BY <2>1, <2>2 DEF Ends
  <1> QED BY <1>1, <1>2, <1>3, <1>4 DEF Rests, Deleting, Underway

-----------------------------------------------------------------------------
(* What a step leaves of the tasks and the handlers.                       *)

\* No task comes back, except for who was served.
LEMMA StepRunning ==
  ASSUME Typed, Typed', Sorted, NEW t \in Threads,
         \/ Transaction(t) \/ Interrupted(t)
         \/ \E id \in 1..Len(tasks) : Callback(t, id)
         \/ \E ops \in Seq(FitOps) : Asks(t, ops)
  PROVE  /\ Len(tasks) \in Nat /\ Len(tasks') \in Nat /\ Len(tasks) <= Len(tasks')
         /\ \A i \in 1..Len(tasks) : Same(i) /\ (Running(i)' => Running(i)) /\ i \in 1..Len(tasks')
         /\ ~Submit(t) => Len(tasks') = Len(tasks)
  <1>1. Len(tasks) \in Nat
    BY Shape
  <1>2. CASE Transaction(t)
    <2>1. \A u \in Threads : serving'[u] \in {0, serving[u]}
      BY <1>2, TransactionGoes DEF Goes
    <2>2. /\ Len(tasks) <= Len(tasks') /\ \A i \in 1..Len(tasks) : Same(i)
      BY <1>2, TransactionSame
    <2>3. ~Submit(t) => Len(tasks') = Len(tasks)
      BY <1>2, OthersTasks, CancelCancels DEF Cancels, Enters
    <2>4. Len(tasks') \in Nat
      BY DEF Typed, TypeOK
    <2>5. ASSUME NEW i \in 1..Len(tasks), tasks'[i].phase \notin Over PROVE tasks[i].phase \notin Over
      <3>1. CASE Submit(t)
        BY <1>2, <2>5, <3>1, SubmitSubmits
      <3>2. CASE Cancel(t)
        BY <1>2, <2>5, <3>2, CancelCancels DEF Cancels, Enters, Over
      <3>3. CASE tasks' = tasks
        BY <2>5, <3>3
      <3> QED BY <1>2, <3>1, <3>2, <3>3, OthersTasks
    <2>6. \A i \in 1..Len(tasks) : (Running(i)' => Running(i)) /\ i \in 1..Len(tasks')
      BY <1>1, <2>1, <2>2, <2>4, <2>5 DEF Running
    <2> QED BY <1>1, <2>2, <2>3, <2>4, <2>6
  <1>3. CASE Interrupted(t)
    <2>1. /\ \A u \in Threads : serving'[u] \in {0, serving[u]}
          /\ tasks' = tasks \/ (serving[t] # 0 /\ Enters(serving[t], "again"))
      BY <1>3, InterruptedEnters
    <2>2. /\ Len(tasks') = Len(tasks)
          /\ \A i \in 1..Len(tasks) : Same(i) /\ (i # serving[t] => tasks'[i] = tasks[i])
      BY <2>1 DEF Enters, Same
    <2>3. \A i \in 1..Len(tasks) : Running(i)' => Running(i)
      BY <2>1, <2>2 DEF Running
    <2> QED BY <1>1, <2>2, <2>3
  <1>4. CASE \E id \in 1..Len(tasks) : Callback(t, id)
    <2>1. PICK id \in 1..Len(tasks) : Started(id) \/ Finished(t, id)
      BY <1>4 DEF Callback
    <2>2. PICK phase : /\ tasks[id].phase \notin Over /\ Enters(id, phase)
                       /\ \A u \in Threads : serving'[u] \in {0, serving[u], id}
      <3>1. CASE Started(id)
        BY <3>1, StartedEnters DEF Over
      <3>2. CASE Finished(t, id)
        BY <3>2, FinishedEnters DEF Over
      <3> QED BY <2>1, <3>1, <3>2
    <2>3. /\ Len(tasks') = Len(tasks)
          /\ \A i \in 1..Len(tasks) : Same(i) /\ (i # id => tasks'[i] = tasks[i])
      BY <2>2 DEF Enters, Same
    <2>4. \A i \in 1..Len(tasks) : Running(i)' => Running(i)
      BY <2>2, <2>3 DEF Running
    <2> QED BY <1>1, <2>3, <2>4
  <1>5. CASE \E ops \in Seq(FitOps) : Asks(t, ops)
    <2>1. tasks' = tasks /\ \A u \in Threads : serving'[u] \in {0, serving[u]}
      BY <1>5, AdmitShape DEF Asks
    <2> QED BY <1>1, <2>1 DEF Same, Running
  <1> QED BY <1>2, <1>3, <1>4, <1>5

\* A handler that goes on keeps what it is not about.
LEMMA StillAhead ==
  ASSUME Typed, NEW t \in Threads, Transaction(t), Op1(t).do \notin {"cancel", "refuse", "countLeft"},
         Op1(t).do = "submit" => Done(t)
  PROVE  /\ \A step, d : Has(t, step, d) /\ (Op1(t).do # step \/ Op1(t).doc # d) => Has(t, step, d)'
         /\ \A kind, d : /\ Sends(t, kind, d)
                         /\ Op1(t).do # "submit" \/ Op1(t).doc # d
                         => Sends(t, kind, d)'
         /\ Len(todo[t]) >= 2 => ~Free(t)' /\ Last(todo[t])' = Last(todo[t]) /\ serving'[t] = serving[t]
  <1> DEFINE q == todo[t]
             r == todo'[t]
             o == q[1]
  <1>1. /\ q \in Seq(FitOps) /\ r \in Seq(FitOps) /\ Form(q, r) /\ o \in FitOps /\ Op1(t) = o /\ q # << >>
        /\ Len(q) \in Nat /\ Len(q) >= 1 /\ Len(r) \in Nat
        /\ serving'[t] = (IF r = << >> THEN 0 ELSE serving[t])
    BY TransactionGoes DEF Goes, Free
  <1>2. Shorter(q, r) \/ Replaced(q, r)
    <2>1. CASE Op1(t).do # "submit"
      BY <1>1, <2>1 DEF Form, Ended
    <2>2. CASE Op1(t).do = "submit"
      <3>1. r = After(o) \o Tail(q) /\ After(o) = << >>
        BY <1>1, <2>2, Shape DEF Done, Continue, After
      <3>2. Tail(q) \in Seq(FitOps) /\ Len(Tail(q)) = Len(q) - 1
            /\ \A j \in 1..(Len(q) - 1) : Tail(q)[j] = q[j + 1]
        BY <1>1
      <3>3. r = Tail(q)
        BY <3>1, <3>2
      <3> QED BY <1>1, <2>2, <3>2, <3>3 DEF Shorter
    <2> QED BY <2>1, <2>2
  <1>3. ASSUME NEW i \in 1..Len(q), i # 1 PROVE \E j \in 1..Len(r) : r[j] = q[i]
    <2>1. i \in 2..Len(q)
      BY <1>1, <1>3
    <2>2. CASE Shorter(q, r)
      <3>1. i - 1 \in 1..Len(r) /\ r[i - 1] = q[(i - 1) + 1]
        BY <1>1, <2>1, <2>2 DEF Shorter
      <3> QED BY <3>1
    <2>3. CASE Replaced(q, r)
      BY <1>1, <2>1, <2>3 DEF Replaced
    <2> QED BY <1>2, <2>2, <2>3
  <1>4. ASSUME NEW step, NEW d, Has(t, step, d), o.do # step \/ o.doc # d PROVE Has(t, step, d)'
    <2>1. PICK i \in 1..Len(q) : q[i].do = step /\ q[i].doc = d
      BY <1>4 DEF Has
    <2>2. PICK j \in 1..Len(r) : r[j] = q[i]
      BY <1>3, <1>4, <2>1
    <2> QED BY <2>1, <2>2 DEF Has
  <1>5. ASSUME NEW kind, NEW d, Sends(t, kind, d), o.do # "submit" \/ o.doc # d
        PROVE  Sends(t, kind, d)'
    <2>1. PICK i \in 1..Len(q) : q[i].do = "submit" /\ q[i].kind = kind /\ q[i].doc = d
      BY <1>5 DEF Sends
    <2>2. PICK j \in 1..Len(r) : r[j] = q[i]
      BY <1>3, <1>5, <2>1
    <2> QED BY <2>1, <2>2 DEF Sends
  <1>6. ASSUME Len(q) >= 2
        PROVE  ~Free(t)' /\ Last(todo[t])' = Last(todo[t]) /\ serving'[t] = serving[t]
    <2>1. r # << >>
      BY <1>1, <1>2, <1>6 DEF Shorter, Replaced
    <2>2. Last(r) = Last(q)
      BY <1>1, <1>2, <1>6, <2>1, FormLast
    <2>3. Last(todo[t])' = Last(r)
      BY DEF Last
    <2> QED BY <1>1, <2>1, <2>2, <2>3 DEF Free
  <1> QED BY <1>1, <1>4, <1>5, <1>6

\* No handler gets the removal of the row ahead but a new one.
LEMMA FinalizeBack ==
  ASSUME Typed, NEW t \in Threads, Transaction(t), NEW u \in Threads,
         NEW j \in 1..Len(todo'[u]), todo'[u][j].do \in {"finalize", "bindAlgo"}
  PROVE  \E i \in 1..Len(todo[u]) : todo[u][i].do = todo'[u][j].do
  <1> DEFINE q == todo[t]
             r == todo'[t]
  <1>1. /\ q \in Seq(FitOps) /\ r \in Seq(FitOps) /\ Form(q, r) /\ q[1] \in FitOps
        /\ Len(q) \in Nat /\ Len(q) >= 1 /\ Len(r) \in Nat
        /\ \A v \in Threads \ {t} : todo'[v] = todo[v]
    BY TransactionGoes DEF Goes
  <1>2. CASE u # t
    BY <1>1, <1>2
  <1>3. CASE u = t
    <2>1. Succ(q[1], r[1]) => r[1].do \notin {"finalize", "bindAlgo"}
      BY <1>1, SuccShape
    <2>2. CASE Shorter(q, r)
      <3>1. j + 1 \in 1..Len(q) /\ r[j] = q[j + 1]
        BY <1>1, <1>3, <2>2 DEF Shorter
      <3> QED BY <1>3, <3>1
    <2>3. CASE Replaced(q, r)
      <3>1. j = 1 \/ j \in 2..Len(q)
        BY <1>1, <1>3, <2>3 DEF Replaced
      <3>2. j \in 2..Len(q) => j \in 1..Len(q) /\ r[j] = q[j]
        BY <1>1, <2>3 DEF Replaced
      <3> QED BY <1>3, <2>1, <2>3, <3>1, <3>2 DEF Replaced
    <2>4. CASE Len(r) = 1 /\ Succ(q[1], r[1])
      BY <1>3, <2>1, <2>4
    <2>5. CASE Ended(q, r)
      BY <1>3, <2>5 DEF Ended
    <2> QED BY <1>1, <2>2, <2>3, <2>4, <2>5 DEF Form
  <1> QED BY <1>2, <1>3

\* The callbacks, in as much as they concern the handlers.
LEMMA CallbackHandlers ==
  ASSUME Typed, Sorted, ~mishap', NEW t \in Threads, NEW id \in 1..Len(tasks), Callback(t, id)
  PROVE  /\ UNCHANGED <<kb, bindings, rel>> /\ tasks[id].phase \notin Over /\ ~mishap
         /\ \E phase \in {"working", "gone"} : Enters(id, phase)
         /\ \A u \in Threads : u # t \/ Requesting(u)' \/ Requesting(u) =>
              todo'[u] = todo[u] /\ serving'[u] = serving[u]
         /\ \/ UNCHANGED <<todo, serving>>
            \/ /\ Free(t) /\ serving[t] = 0 /\ todo'[t] = Cleanup(id) /\ Enters(id, "gone")
               /\ tasks[id].kind # "ADD" => serving'[t] = id /\ Finishes(todo'[t], tasks[id])
                                            /\ todo'[t] # << >>
               /\ tasks[id].kind = "ADD" => serving'[t] = 0 /\ todo'[t] = << >>
         /\ \A u \in Threads \ {t} : todo'[u] = todo[u] /\ serving'[u] = serving[u]
  <1>1. CASE Started(id)
    BY <1>1, StartedEnters DEF Over
  <1>2. CASE Finished(t, id)
    <2>1. /\ Free(t) /\ tasks[id].phase \notin Over /\ Enters(id, "gone") /\ UNCHANGED <<kb, bindings, rel>>
          /\ ~mishap
          /\ \/ UNCHANGED <<todo, serving>>
             \/ /\ todo'[t] = Cleanup(id) /\ serving'[t] = (IF tasks[id].kind = "ADD" THEN 0 ELSE id)
                /\ \A u \in Threads \ {t} : todo'[u] = todo[u] /\ serving'[u] = serving[u]
      BY <1>2, FinishedEnters DEF Over
    <2>2. CASE UNCHANGED <<todo, serving>>
      BY <2>1, <2>2
    <2>3. CASE /\ todo'[t] = Cleanup(id) /\ serving'[t] = (IF tasks[id].kind = "ADD" THEN 0 ELSE id)
               /\ \A u \in Threads \ {t} : todo'[u] = todo[u] /\ serving'[u] = serving[u]
      <3>1. /\ tasks[id].kind # "ADD" => Finishes(todo'[t], tasks[id]) /\ todo'[t] # << >> /\ serving'[t] = id
            /\ tasks[id].kind = "ADD" => todo'[t] = << >> /\ serving'[t] = 0
        BY <2>3, CleanupFinishes
      <3>2. serving[t] = 0
        BY <2>1 DEF Sorted, ListOf
      <3>3. ~Requesting(t) /\ ~Requesting(t)'
        BY <2>1, <2>3, <3>1 DEF Requesting, Free
      <3> QED BY <2>1, <2>3, <3>1, <3>2, <3>3
    <2> QED BY <2>1, <2>2, <2>3
  <1> QED BY <1>1, <1>2 DEF Callback

\* A request that goes on was one before, of the same sort.
LEMMA RequestBack ==
  ASSUME Typed, Sorted, ~mishap', NEW t \in Threads,
         \/ Transaction(t) \/ Interrupted(t)
         \/ \E id \in 1..Len(tasks) : Callback(t, id),
         NEW u \in Threads, Requesting(u)'
  PROVE  /\ Requesting(u)
         /\ Last(todo[u]) \in Ends \/ Last(todo[u])' \in Ends => Last(todo[u])' = Last(todo[u])
  <1>1. CASE Transaction(t)
    <2>1. /\ \A v \in Threads \ {t} : todo'[v] = todo[v] /\ serving'[v] = serving[v]
          /\ serving'[t] = (IF todo'[t] = << >> THEN 0 ELSE serving[t]) /\ ~Free(t)
      BY <1>1, TransactionGoes DEF Goes
    <2>2. CASE u # t
      BY <2>1, <2>2, OtherSame
    <2>3. CASE u = t
      <3>1. todo'[t] # << >> /\ Requesting(t)
        BY <2>1, <2>3 DEF Requesting, Free
      <3>2. Op1(t).do # "countLeft"
        BY <3>1, RequestHead
      <3> QED BY <1>1, <2>3, <3>1, <3>2, LastGoes
    <2> QED BY <2>2, <2>3
  <1>2. CASE Interrupted(t)
    <2>1. /\ \A v \in Threads \ {t} : todo'[v] = todo[v] /\ serving'[v] = serving[v]
          /\ todo'[t] = << >>
      BY <1>2, InterruptedEnters
    <2>2. u # t
      BY <2>1 DEF Requesting, Free
    <2> QED BY <2>1, <2>2, OtherSame
  <1>3. CASE \E id \in 1..Len(tasks) : Callback(t, id)
    <2>1. todo'[u] = todo[u] /\ serving'[u] = serving[u]
      BY <1>3, CallbackHandlers
    <2> QED BY <2>1, OtherSame
  <1> QED BY <1>1, <1>2, <1>3

\* Nothing begins a deletion of the knowledge base but a request and its tasks.
LEMMA DoomedBack ==
  ASSUME Typed, Typed', Sorted, ~mishap', NEW t \in Threads,
         \/ Transaction(t) /\ (Op1(t).do = "submit" => Op1(t).kind # "PURGE")
         \/ Interrupted(t)
         \/ \E id \in 1..Len(tasks) : Callback(t, id),
         Doomed'
  PROVE  Doomed
  <1>1. CASE Transaction(t) /\ (Op1(t).do = "submit" => Op1(t).kind # "PURGE")
    <2>1. CASE \E u \in Threads : \E i \in 1..Len(todo'[u]) : todo'[u][i].do = "finalize"
      <3>0. PICK u \in Threads : \E i \in 1..Len(todo'[u]) : todo'[u][i].do = "finalize"
        BY <2>1
      <3>1. PICK i \in 1..Len(todo'[u]) : todo'[u][i].do = "finalize"
        BY <3>0
      <3>2. \E j \in 1..Len(todo[u]) : todo[u][j].do = "finalize"
        <4>1. todo'[u][i].do \in {"finalize", "bindAlgo"}
          BY <3>1
        <4>2. \E j \in 1..Len(todo[u]) : todo[u][j].do = todo'[u][i].do
          BY <1>1, <4>1, FinalizeBack
        <4> QED BY <3>1, <4>2
      <3> QED BY <3>2, DoomedIs
    <2>2. CASE \E i \in 1..Len(tasks') : tasks'[i].kind = "PURGE" /\ tasks'[i].phase # "gone"
      <3>1. PICK i \in 1..Len(tasks') : tasks'[i].kind = "PURGE" /\ tasks'[i].phase # "gone"
        BY <2>2
      <3>2. i \in 1..Len(tasks)
        <4>1. CASE Submit(t)
          <5>1. /\ Submits(t, Op1(t).doc, Op1(t).kind, Len(tasks) + 1) /\ Op1(t).do = "submit"
                /\ Len(tasks) \in Nat
            BY <4>1, SubmitSubmits, Shape
          <5>2. i \in 1..Len(tasks) \/ i = Len(tasks) + 1
            BY <3>1, <5>1 DEF Submits
          <5> QED BY <1>1, <3>1, <5>1, <5>2 DEF Submits
        <4>2. CASE ~Submit(t)
          BY <1>1, <3>1, <4>2, OthersTasks, CancelCancels DEF Cancels, Enters
        <4> QED BY <4>1, <4>2
      <3>3. tasks[i].kind = "PURGE" /\ tasks[i].phase # "gone"
        BY <1>1, <3>1, <3>2, TransactionSame DEF Same
      <3> QED BY <3>2, <3>3, DoomedIs
    <2> QED BY <2>1, <2>2, DoomedIsNext
  <1>2. CASE Interrupted(t)
    <2> DEFINE id == serving[t]
    <2>1. /\ todo'[t] = << >> /\ \A u \in Threads \ {t} : todo'[u] = todo[u]
          /\ id # 0 /\ Enters(id, "again")
      BY <1>2, InterruptedEnters
    <2>2. CASE \E u \in Threads : \E i \in 1..Len(todo'[u]) : todo'[u][i].do = "finalize"
      <3>0. PICK u \in Threads : \E i \in 1..Len(todo'[u]) : todo'[u][i].do = "finalize"
        BY <2>2
      <3>1. PICK i \in 1..Len(todo'[u]) : todo'[u][i].do = "finalize"
        BY <3>0
      <3>2. u # t
        BY <2>1, <3>1
      <3> QED BY <2>1, <3>1, <3>2, DoomedIs
    <2>3. CASE \E i \in 1..Len(tasks') : tasks'[i].kind = "PURGE" /\ tasks'[i].phase # "gone"
      <3>1. PICK i \in 1..Len(tasks') : tasks'[i].kind = "PURGE" /\ tasks'[i].phase # "gone"
        BY <2>3
      <3>2. i \in 1..Len(tasks) /\ tasks[i].kind = "PURGE" /\ (i # id => tasks[i].phase # "gone")
        BY <2>1, <3>1 DEF Enters, Same
      <3>3. CASE i = id
        <4>1. Last(todo[t]) = "finalize" /\ todo[t] \in Seq(FitOps) /\ Len(todo[t]) \in {1, 2}
          BY <2>1, <3>2, <3>3, CallbackAhead
        <4>2. Len(todo[t]) \in 1..Len(todo[t]) /\ todo[t][Len(todo[t])].do = "finalize"
          <5>1. \A n \in {1, 2} : n \in 1..n
            OBVIOUS
          <5> QED BY <4>1, <5>1 DEF Last
        <4> QED BY <4>2, DoomedIs
      <3> QED BY <3>2, <3>3, DoomedIs
    <2> QED BY <2>2, <2>3, DoomedIsNext
  <1>3. CASE \E id \in 1..Len(tasks) : Callback(t, id)
    <2>1. PICK id \in 1..Len(tasks) : Callback(t, id)
      BY <1>3
    <2>2. /\ tasks[id].phase \notin Over /\ \E phase : Enters(id, phase)
          /\ \/ UNCHANGED <<todo, serving>>
             \/ /\ tasks[id].kind # "ADD" => Finishes(todo'[t], tasks[id])
                /\ tasks[id].kind = "ADD" => todo'[t] = << >>
          /\ \A u \in Threads \ {t} : todo'[u] = todo[u]
      BY <2>1, CallbackHandlers
    <2>3. CASE \E u \in Threads : \E i \in 1..Len(todo'[u]) : todo'[u][i].do = "finalize"
      <3>0. PICK u \in Threads : \E i \in 1..Len(todo'[u]) : todo'[u][i].do = "finalize"
        BY <2>3
      <3>1. PICK i \in 1..Len(todo'[u]) : todo'[u][i].do = "finalize"
        BY <3>0
      <3>2. CASE todo'[u] = todo[u]
        BY <3>1, <3>2, DoomedIs
      <3>3. CASE todo'[u] # todo[u]
        <4>1. u = t /\ Finishes(todo'[t], tasks[id])
          BY <2>2, <3>1, <3>3
        <4>2. tasks[id].kind = "PURGE"
          <5> DEFINE task == tasks[id]
                     rem == DoDoc("removeDoc", task.doc)
                     drp == DoDoc("dropSnap", task.doc)
                     cnt == DoAlgo("countLeft", task.algo)
                     rmb == DoAlgo("removeBinding", task.algo)
          <5>1. \A o \in {rem, drp, cnt, rmb} : o.do # "finalize"
            BY DoShape
          <5>2. task.kind = "PURGE" \/ todo'[t] \in {<<rem>>, <<drp, cnt>>, <<cnt>>, <<rmb>>}
            BY <4>1 DEF Finishes
          <5> HIDE DEF rem, drp, cnt, rmb
          <5>3. task.kind = "PURGE" \/ \A k \in 1..Len(todo'[t]) : todo'[t][k] \in {rem, drp, cnt, rmb}
            BY <5>2
          <5> QED BY <3>1, <4>1, <5>1, <5>3
        <4> QED BY <2>2, <4>2, DoomedIs DEF Over
      <3> QED BY <3>2, <3>3
    <2>4. CASE \E i \in 1..Len(tasks') : tasks'[i].kind = "PURGE" /\ tasks'[i].phase # "gone"
      <3>1. PICK i \in 1..Len(tasks') : tasks'[i].kind = "PURGE" /\ tasks'[i].phase # "gone"
        BY <2>4
      <3>2. i \in 1..Len(tasks) /\ tasks[i].kind = "PURGE" /\ tasks[i].phase # "gone"
        BY <2>2, <3>1 DEF Enters, Same, Over
      <3> QED BY <3>2, DoomedIs
    <2> QED BY <2>3, <2>4, DoomedIsNext
  <1> QED BY <1>1, <1>2, <1>3

\* What a thread does but for a new request.
Acts(t) ==
  \/ Transaction(t) \/ Interrupted(t)
  \/ \E id \in 1..Len(tasks) : Callback(t, id)

LEMMA NoDoomStays ==
  ASSUME Rests, Typed', ~mishap', NEW t \in Threads, Acts(t)
  PROVE  NoDoom'
  <1> SUFFICES ASSUME NEW u \in Threads, Requesting(u)', Last(todo[u])' \notin Ends, Doomed' PROVE FALSE
    BY DEF NoDoom
  <1>1. Requesting(u) /\ Last(todo[u]) \notin Ends
    BY RequestBack DEF Rests, Acts
  <1>2. ~Doomed
    BY <1>1 DEF Rests, NoDoom
  <1>3. Transaction(t) /\ Op1(t).do = "submit" /\ Op1(t).kind = "PURGE"
    BY <1>2, DoomedBack DEF Rests, Acts
  <1>4. Requesting(t)
    <2>1. ~Free(t)
      BY <1>3, TransactionGoes DEF Goes, Rests
    <2>2. serving[t] = 0
      BY <1>3, CallbackAhead DEF Rests
    <2> QED BY <2>1, <2>2 DEF Requesting
  <1>5. Last(todo[t]) = "setDeleting"
    BY <1>3, <1>4, RequestHead DEF Rests
  <1>6. u = t
    BY <1>1, <1>4 DEF Rests, OneRequest
  <1> QED BY <1>1, <1>5, <1>6 DEF Ends

LEMMA NoDoomAsks ==
  ASSUME Rests, Typed', ~mishap', NEW t \in Threads, NEW ops \in Seq(FitOps), Asks(t, ops)
  PROVE  NoDoom'
  <1>1. /\ todo'[t] = ops /\ tasks' = tasks /\ UNCHANGED <<kb, bindings, rel, snap>>
        /\ \A u \in Threads \ {t} : todo'[u] = todo[u]
        /\ \A u \in Threads : ~Requesting(u)
        /\ \A u \in Threads : Requesting(u)' => u = t
        /\ Requesting(t)' <=> ops # << >>
    BY AsksShape DEF Rests
  <1> SUFFICES ASSUME Requesting(t)', Last(todo[t])' \notin Ends PROVE ~Doomed'
    BY <1>1 DEF NoDoom
  <1>2. ops # << >> /\ Last(ops) \notin Ends
    BY <1>1 DEF Last
  <1>3. kb = "ACTIVE" => ~Doomed
    BY <1>1 DEF Rests, DoomedEra, Era, None
  <1>4. ASSUME NEW d \in rel, snap[d].status \notin {"DELETING", "DELETED"} PROVE ~Doomed
    <2>1. kb # None /\ d \in Docs
      BY SameStore DEF Rests, Void
    <2>2. ASSUME Doomed PROVE FALSE
      <3>1. Covered(d)
        BY <2>1, <2>2 DEF Rests, DoomedEra, Deleting
      <3>2. ~Effective(d)
        BY <1>4 DEF Effective, Effects
      <3>3. \A u \in Threads : ~Sends(u, "PURGE", d)
        BY <1>1, SendsRequest DEF Rests
      <3>4. PICK u \in Threads : Finishing(u) /\ Has(u, "purge", d)
        BY <3>1, <3>2, <3>3 DEF Covered
      <3>5. serving[u] # 0
        BY <1>1, <3>4 DEF Requesting, Finishing
      <3> QED BY <1>4, <2>1, <3>4, <3>5 DEF Rests, Purging
    <2> QED BY <2>2
  <1>5. ~Doomed
    BY <1>2, <1>3, <1>4 DEF Asks, Whole
  <1>6. \A i \in 1..Len(ops) : ops[i].do # "finalize"
    BY <1>2 DEF Asks, Plan, Ends, Last
  <1>7. ~ \E u \in Threads : \E i \in 1..Len(todo'[u]) : todo'[u][i].do = "finalize"
    BY <1>1, <1>5, <1>6, DoomedIs DEF Rests
  <1> QED BY <1>1, <1>5, <1>7, DoomedIs, DoomedIsNext DEF Rests

\* The row, its bindings and its documents, in a transaction.
LEMMA RowMoves ==
  ASSUME Typed, NEW t \in Threads, Transaction(t)
  PROVE  /\ kb # None /\ kb' = None => Finalize(t) /\ Op1(t).do = "finalize" /\ rel = {}
         /\ kb = None /\ kb' # None => EnsureKb(t) /\ Op1(t).do = "ensureKb" /\ kb' = "ACTIVE"
         /\ Op1(t).do = "ensureKb" => kb' # None
         /\ kb' # kb => \/ Op1(t).do \in {"ensureKb", "finalize"}
                        \/ Op1(t).do = "setDeleting" /\ kb' \in {None, "DELETING"}
                        \/ kb = "DELETING" /\ kb' = "DELETED"
         /\ Op1(t).do = "setDeleting" => kb' \in {None, "DELETING"}
         /\ Op1(t).do = "ensureKb" => kb' \in {"ACTIVE", kb}
         /\ Op1(t).do \in {"purge", "removeDoc"} => rel' = rel \ {Op1(t).doc}
         /\ Op1(t).do # "bindDoc" => rel' \subseteq rel
         /\ rel' \subseteq rel \cup {Op1(t).doc}
         /\ Op1(t).do \notin {"bindDoc", "removeDoc", "purge"} => rel' = rel
         /\ Op1(t).do \notin {"bindAlgo", "removeBinding", "finalize"} => bindings' = bindings
         /\ Op1(t).do # "bindAlgo" => bindings' \subseteq bindings
         /\ Op1(t).do = "finalize" =>
              /\ rel' = rel
              /\ rel = {} => kb' = None /\ bindings' = {}
              /\ rel # {} => kb' = kb /\ bindings' = bindings
  <1>1. CASE EnsureKb(t)
    BY <1>1, SameStore DEF EnsureKb, Does, None
  <1>2. CASE BindAlgo(t)
    BY <1>2 DEF BindAlgo, Does
  <1>3. CASE BindDoc(t)
    BY <1>3, SameStore DEF BindDoc, Does, Refresh, None
  <1>4. CASE RemoveDoc(t)
    BY <1>4, SameStore DEF RemoveDoc, Does, Refresh, None
  <1>5. CASE DropSnap(t) \/ Submit(t) \/ CountLeft(t)
    BY <1>5 DEF DropSnap, Submit, CountLeft, Does, store
  <1>6. CASE Cancel(t) \/ Refuse(t)
    BY <1>6 DEF Cancel, Refuse, Does, store
  <1>7. CASE SetDeleting(t)
    BY <1>7 DEF SetDeleting, Does, None
  <1>8. CASE Finalize(t)
    BY <1>8 DEF Finalize, Does
  <1>9. CASE RemoveBinding(t)
    BY <1>9 DEF RemoveBinding, Does
  <1> QED BY <1>1, <1>2, <1>3, <1>4, <1>5, <1>6, <1>7, <1>8, <1>9 DEF Transaction

\* Who asks for something that only a request does.
LEMMA OnlyRequests ==
  ASSUME Typed, Sorted, NEW t \in Threads, ~Free(t),
         Op1(t).do \in {"ensureKb", "bindAlgo", "bindDoc", "cancel", "submit", "refuse", "setDeleting"}
  PROVE  Requesting(t)
  <1>1. serving[t] = 0
    BY CallbackAhead
  <1> QED BY <1>1 DEF Requesting

LEMMA NotFree ==
  ASSUME Typed, NEW t \in Threads, Transaction(t)
  PROVE  /\ ~Free(t) /\ \A u \in Threads \ {t} : todo'[u] = todo[u] /\ serving'[u] = serving[u]
         /\ serving'[t] = (IF todo'[t] = << >> THEN 0 ELSE serving[t])
  BY TransactionGoes DEF Goes

LEMMA VoidStays ==
  ASSUME Rests, NEW t \in Threads, Acts(t) \/ \E ops \in Seq(FitOps) : Asks(t, ops)
  PROVE  Void'
  <1>1. CASE Transaction(t)
    <2> SUFFICES ASSUME kb' = None PROVE rel' = {} /\ bindings' = {}
      BY DEF Void
    <2>1. CASE kb # None
      BY <1>1, <2>1, RowMoves DEF Rests
    <2>2. CASE kb = None
      <3>1. rel = {} /\ bindings = {}
        BY <2>2 DEF Rests, Void
      <3>2. ASSUME Op1(t).do \in {"ensureKb", "bindAlgo", "bindDoc"}
            PROVE  Op1(t).do = "ensureKb"
        <4>1. ~Free(t)
          BY <1>1, NotFree DEF Rests
        <4>2. Requesting(t)
          BY <3>2, <4>1, OnlyRequests DEF Rests
        <4>3. Op1(t) = todo[t][1] /\ 1 \in 1..Len(todo[t])
          BY <4>2, RequestHead DEF Rests
        <4> QED BY <2>2, <3>2, <4>2, <4>3 DEF Rests, There
      <3>3. Op1(t).do # "ensureKb"
        BY <1>1, RowMoves DEF Rests
      <3> QED BY <1>1, <3>1, <3>2, <3>3, RowMoves DEF Rests
    <2> QED BY <2>1, <2>2
  <1>2. CASE Interrupted(t) \/ \E id \in 1..Len(tasks) : Callback(t, id)
    BY <1>2 DEF Interrupted, Callback, Started, Finished, store, Rests, Void
  <1>3. CASE \E ops \in Seq(FitOps) : Asks(t, ops)
    BY <1>3 DEF Asks, Admit, store, Rests, Void
  <1> QED BY <1>1, <1>2, <1>3 DEF Acts

\* The handlers that a callback leaves alone.
LEMMA QuietSteps ==
  ASSUME Rests, ~mishap', NEW t \in Threads,
         Interrupted(t) \/ \E id \in 1..Len(tasks) : Callback(t, id)
  PROVE  /\ UNCHANGED <<kb, bindings, rel>>
         /\ \A u \in Threads : Requesting(u)' \/ Requesting(u) =>
              /\ todo'[u] = todo[u] /\ serving'[u] = serving[u]
              /\ Requesting(u) /\ Requesting(u)' /\ Last(todo[u])' = Last(todo[u])
  <1>1. CASE Interrupted(t)
    <2>1. /\ UNCHANGED <<kb, bindings, rel>>
          /\ \A u \in Threads \ {t} : todo'[u] = todo[u] /\ serving'[u] = serving[u]
          /\ todo'[t] = << >> /\ serving[t] # 0
      BY <1>1, InterruptedEnters DEF Rests
    <2>2. ~Requesting(t) /\ ~Requesting(t)'
      BY <2>1 DEF Requesting, Free
    <2> QED BY <2>1, <2>2, OtherSame
  <1>2. CASE \E id \in 1..Len(tasks) : Callback(t, id)
    <2>1. /\ UNCHANGED <<kb, bindings, rel>>
          /\ \A u \in Threads : Requesting(u)' \/ Requesting(u) =>
               todo'[u] = todo[u] /\ serving'[u] = serving[u]
      BY <1>2, CallbackHandlers DEF Rests
    <2> QED BY <2>1, OtherSame
  <1> QED BY <1>1, <1>2

LEMMA ThereStays ==
  ASSUME Rests, ~mishap', NEW t \in Threads, Acts(t)
  PROVE  There'
  <1> SUFFICES ASSUME kb' = None, NEW u \in Threads, Requesting(u)', NEW j \in 1..Len(todo'[u])
               PROVE  /\ todo'[u][j].do # "bindDoc" /\ todo'[u][j].kind # "ADD"
                      /\ todo'[u][j].do = "bindAlgo" => todo'[u][1].do = "ensureKb"
    BY DEF There
  <1>1. Requesting(u) /\ (Last(todo[u]) \in Ends => Last(todo[u])' = Last(todo[u]))
    BY RequestBack DEF Rests, Acts
  <1>2. /\ todo[u] \in Seq(FitOps) /\ (todo'[u] \in Seq(Op) \/ ~Transaction(t))
        /\ Len(todo[u]) \in Nat /\ Plan(todo[u])
    BY <1>1, RequestHead, TransactionGoes, NotFree, FitSeq DEF Rests, Goes
  <1>3. CASE ~Transaction(t)
    BY <1>1, <1>3, QuietSteps DEF Acts, Rests, There
  <1>4. CASE Transaction(t) /\ u # t
    <2>1. todo'[u] = todo[u]
      BY <1>4, NotFree DEF Rests
    <2>2. CASE kb = None
      BY <1>1, <2>1, <2>2 DEF Rests, There
    <2>3. CASE kb # None
      <3>1. Finalize(t) /\ Op1(t).do = "finalize" /\ ~Free(t)
        BY <1>4, <2>3, RowMoves, NotFree DEF Rests
      <3>2. serving[t] # 0
        BY <1>1, <1>4, <3>1 DEF Rests, OneRequest, Requesting
      <3>3. Last(todo[t]) = "finalize"
        BY <3>1, <3>2, CallbackAhead DEF Rests
      <3>4. Doomed
        BY <3>1, <3>3, NotDoomed DEF Rests
      <3>5. Last(todo[u]) \in Ends
        BY <1>1, <3>4 DEF Rests, NoDoom
      <3>6. /\ todo[u][j].do \notin {"bindDoc", "bindAlgo"}
            /\ todo[u][j].kind = "ADD" => Uploads(todo[u], todo[u][j].doc)
        BY <1>2, <2>1, <3>5 DEF Plan
      <3>7. \A d : Uploads(todo[u], d) => Last(todo[u]) \notin Ends
        BY UploadHead DEF Last, Ends
      <3> QED BY <2>1, <3>5, <3>6, <3>7
    <2> QED BY <2>2, <2>3
  <1>5. CASE Transaction(t) /\ u = t
    <2>1. /\ Form(todo[t], todo'[t]) /\ todo[t] \in Seq(FitOps) /\ todo'[t] \in Seq(FitOps)
          /\ Op1(t) = todo[t][1] /\ todo[t] # << >> /\ 1 \in 1..Len(todo[t]) /\ Len(todo'[t]) \in Nat
      BY <1>1, <1>5, TransactionGoes, RequestHead DEF Rests, Goes, Requesting, Free
    <2>2. kb = None
      <3> SUFFICES ASSUME kb # None PROVE FALSE
        OBVIOUS
      <3>1. Op1(t).do = "finalize"
        BY <1>5, RowMoves DEF Rests
      <3>2. Len(todo[t]) = 1
        BY <1>1, <1>5, <3>1, RequestHead DEF Rests, Ends
      <3>3. ~Replaced(todo[t], todo'[t]) /\ ~Ended(todo[t], todo'[t]) /\ Op1(t).do # "countLeft"
        BY <2>1, <3>1 DEF Replaced, Ended
      <3>4. Len(todo'[t]) = 0
        BY <2>1, <3>2, <3>3 DEF Form, Shorter
      <3> QED BY <1>5, <3>4
    <2>3. \A i \in 1..Len(todo[t]) : todo[t][i].do \notin {"bindDoc", "bindAlgo"} /\ todo[t][i].kind # "ADD"
      <3>1. Op1(t).do # "ensureKb"
        BY <1>5, RowMoves DEF Rests
      <3> QED BY <1>1, <1>5, <2>1, <2>2, <3>1 DEF Rests, There
    <2>4. Plan(todo'[t])
      BY <1>2, <1>5, <2>1, PlanGoes
    <2>5. ASSUME todo'[t][j].do = "bindDoc" \/ todo'[t][j].kind = "ADD" PROVE FALSE
      <3>1. Uploads(todo'[t], todo'[t][j].doc)
        BY <1>5, <2>4, <2>5 DEF Plan
      <3>2. PICK d : d = todo'[t][j].doc
        OBVIOUS
      <3>3. Has(t, "bindDoc", d)' \/ Sends(t, "ADD", d)'
        BY <1>5, <2>1, <3>1, <3>2, UploadHead DEF Has, Sends
      <3>4. Has(t, "bindDoc", d) \/ Sends(t, "ADD", d) \/ (Op1(t).do = "cancel" /\ Op1(t).kind = "ADD")
        BY <1>5, <3>3, Remains DEF DocSteps, Rests
      <3> QED BY <2>1, <2>3, <3>4 DEF Has, Sends
    <2>6. todo'[t][j].do # "bindAlgo"
      <3> SUFFICES ASSUME todo'[t][j].do = "bindAlgo" PROVE FALSE
        OBVIOUS
      <3>1. todo'[t][j].do \in {"finalize", "bindAlgo"}
        OBVIOUS
      <3>2. \E i \in 1..Len(todo[t]) : todo[t][i].do = todo'[t][j].do
        BY <1>5, <3>1, FinalizeBack DEF Rests
      <3> QED BY <2>3, <3>2
    <2> QED BY <1>5, <2>5, <2>6
  <1> QED BY <1>3, <1>4, <1>5

LEMMA ThereAsks ==
  ASSUME Rests, ~mishap', NEW t \in Threads, NEW ops \in Seq(FitOps), Asks(t, ops)
  PROVE  There'
  <1>1. /\ todo'[t] = ops /\ kb' = kb
        /\ \A u \in Threads : Requesting(u)' => u = t
    BY AsksShape DEF Rests
  <1> SUFFICES ASSUME kb = None, NEW i \in 1..Len(ops)
               PROVE  /\ ops[i].do # "bindDoc" /\ ops[i].kind # "ADD"
                      /\ ops[i].do = "bindAlgo" => ops[1].do = "ensureKb"
    BY <1>1 DEF There
  <1>2. bindings = {}
    BY DEF Rests, Void
  <1> QED BY <1>2 DEF Asks, Checked

\* A request that ends a deletion of the knowledge base goes on.
LEMMA EndGoes ==
  ASSUME Rests, ~mishap', NEW t \in Threads, Transaction(t), Requesting(t), Last(todo[t]) \in Ends
  PROVE  /\ Op1(t).do \notin {"ensureKb", "bindAlgo", "bindDoc", "cancel", "refuse", "removeDoc", "countLeft"}
         /\ Op1(t).do = "submit" => Op1(t).kind = "PURGE" /\ Done(t)
         /\ Len(todo[t]) \in Nat /\ Len(todo[t]) >= 1 /\ Op1(t) = todo[t][1]
         /\ Len(todo[t]) >= 2 => Requesting(t)' /\ Last(todo[t])' = Last(todo[t])
         /\ Len(todo[t]) = 1 => Op1(t).do = Last(todo[t]) /\ (Op1(t).do = "finalize" => rel = {})
  <1>1. /\ Op1(t).do \notin {"ensureKb", "bindAlgo", "bindDoc", "cancel", "refuse", "removeDoc", "countLeft"}
        /\ Op1(t).do = "submit" => Op1(t).kind = "PURGE"
        /\ Len(todo[t]) \in Nat /\ Len(todo[t]) >= 1 /\ Op1(t) = todo[t][1]
    BY RequestHead DEF Rests
  <1>2. Op1(t).do = "submit" => Done(t)
    <2>1. Op1(t).do = "submit" => Submit(t)
      BY DEF Transaction, EnsureKb, BindAlgo, BindDoc, RemoveDoc, DropSnap, Submit, Cancel, Refuse,
             SetDeleting, Finalize, CountLeft, RemoveBinding, Does
    <2> QED BY <2>1, SubmitSubmits DEF Submits, Rests
  <1>3. ASSUME Len(todo[t]) >= 2 PROVE Requesting(t)' /\ Last(todo[t])' = Last(todo[t])
    <2>1. ~Free(t)' /\ Last(todo[t])' = Last(todo[t]) /\ serving'[t] = serving[t]
      BY <1>1, <1>2, <1>3, StillAhead DEF Rests
    <2> QED BY <2>1 DEF Requesting
  <1>4. ASSUME Len(todo[t]) = 1
        PROVE  Op1(t).do = Last(todo[t]) /\ (Op1(t).do = "finalize" => rel = {})
    <2>1. Op1(t).do = Last(todo[t])
      BY <1>1, <1>4 DEF Last
    <2>2. ASSUME Op1(t).do = "finalize", NEW d \in rel PROVE FALSE
      <3>1. Has(t, "purge", d)
        BY <2>1, <2>2 DEF Rests, PurgesAll
      <3>2. PICK i \in 1..Len(todo[t]) : todo[t][i].do = "purge"
        BY <3>1 DEF Has
      <3>3. i = 1
        BY <1>4, <3>2
      <3> QED BY <1>1, <2>2, <3>2, <3>3
    <2> QED BY <2>1, <2>2
  <1> QED BY <1>1, <1>2, <1>3, <1>4

\* A deletion of the knowledge base that is on its way was so before, and nobody but
\* who deletes goes on.
LEMMA EraBack ==
  ASSUME Rests, ~mishap', NEW t \in Threads, Acts(t), Era', kb' # None
  PROVE  /\ Era /\ kb # None
         /\ Requesting(t) => Last(todo[t]) \in Ends
  <1> SUFFICES Era /\ kb # None
    BY NoEra
  <1>1. CASE Transaction(t)
    <2>1. CASE kb' \in {"DELETING", "DELETED"}
      <3>1. CASE kb' = kb
        BY <2>1, <3>1 DEF Era, None
      <3>2. CASE Op1(t).do = "setDeleting"
        <4>1. Requesting(t)
          BY <1>1, <3>2, NotFree, OnlyRequests DEF Rests
        <4>2. Last(todo[t]) \in Ends
          BY <3>2, <4>1, RequestHead DEF Rests, Ends
        <4>3. kb # None
          BY <1>1, <3>2, RowMoves DEF Rests
        <4> QED BY <4>1, <4>2, <4>3 DEF Era
      <3>3. CASE kb = "DELETING"
        BY <3>3 DEF Era, None
      <3>4. kb' # kb => Op1(t).do \notin {"ensureKb", "finalize"}
        BY <1>1, <2>1, RowMoves DEF Rests, None
      <3> QED BY <1>1, <3>1, <3>2, <3>3, <3>4, RowMoves DEF Rests
    <2>2. CASE \E u \in Threads : Requesting(u)' /\ Last(todo[u])' \in Ends
      <3>1. PICK u \in Threads : Requesting(u)' /\ Last(todo[u])' \in Ends
        BY <2>2
      <3>2. Requesting(u) /\ Last(todo[u]) \in Ends
        BY <1>1, <3>1, RequestBack DEF Rests
      <3>3. kb # None
        <4> SUFFICES ASSUME kb = None PROVE FALSE
          OBVIOUS
        <4>1. Op1(t).do = "ensureKb"
          BY <1>1, RowMoves DEF Rests
        <4>2. Requesting(t)
          BY <1>1, <4>1, NotFree, OnlyRequests DEF Rests
        <4>3. u = t
          BY <3>2, <4>2 DEF Rests, OneRequest
        <4> QED BY <3>2, <4>1, <4>2, <4>3, RequestHead DEF Rests
      <3> QED BY <3>2, <3>3 DEF Era
    <2> QED BY <2>1, <2>2 DEF Era
  <1>2. CASE ~Transaction(t)
    BY <1>2, QuietSteps DEF Acts, Era
  <1> QED BY <1>1, <1>2

\* It lasts as long as the row.
LEMMA EraStays ==
  ASSUME Rests, ~mishap', NEW t \in Threads, Acts(t), Era, kb # None, kb' # None,
         Requesting(t) => Last(todo[t]) \in Ends
  PROVE  Era'
  <1>1. CASE Transaction(t)
    <2>0. ~Free(t)
      BY <1>1, NotFree DEF Rests
    <2>1. CASE kb \in {"DELETING", "DELETED"}
      <3>1. Op1(t).do # "ensureKb"
        BY <1>1, <2>0, OnlyRequests, EndGoes DEF Rests
      <3>2. kb' \in {"DELETING", "DELETED"}
        BY <1>1, <2>1, <3>1, RowMoves DEF Rests
      <3> QED BY <3>2 DEF Era
    <2>2. CASE \E u \in Threads : Requesting(u) /\ Last(todo[u]) \in Ends
      <3>1. PICK u \in Threads : Requesting(u) /\ Last(todo[u]) \in Ends
        BY <2>2
      <3>2. CASE u # t
        <4>1. todo'[u] = todo[u] /\ serving'[u] = serving[u]
          BY <1>1, <3>2, NotFree DEF Rests
        <4>2. Requesting(u)' /\ Last(todo[u])' = Last(todo[u])
          BY <3>1, <4>1, OtherSame
        <4> QED BY <3>1, <4>2 DEF Era
      <3>3. CASE u = t
        <4>1. CASE Len(todo[t]) >= 2
          BY <1>1, <3>1, <3>3, <4>1, EndGoes DEF Era
        <4>2. CASE Len(todo[t]) = 1
          <5>1. Op1(t).do = Last(todo[t]) /\ (Op1(t).do = "finalize" => rel = {})
            BY <1>1, <3>1, <3>3, <4>2, EndGoes
          <5>2. Op1(t).do = "setDeleting"
            BY <1>1, <3>1, <3>3, <5>1, RowMoves DEF Ends, Rests
          <5>3. kb' = "DELETING"
            BY <1>1, <5>2, RowMoves DEF Rests
          <5> QED BY <5>3 DEF Era
        <4>3. Len(todo[t]) \in Nat /\ Len(todo[t]) >= 1
          BY <1>1, <3>1, <3>3, EndGoes
        <4>4. Len(todo[t]) = 1 \/ Len(todo[t]) >= 2
          <5>1. \A n \in Nat : n >= 1 => n = 1 \/ n >= 2
            OBVIOUS
          <5> QED BY <4>3, <5>1
        <4> QED BY <4>1, <4>2, <4>4
      <3> QED BY <3>2, <3>3
    <2> QED BY <2>1, <2>2 DEF Era
  <1>2. CASE ~Transaction(t)
    BY <1>2, QuietSteps DEF Acts, Era
  <1> QED BY <1>1, <1>2

LEMMA DoomedEraStays ==
  ASSUME Rests, Typed', ~mishap', NEW t \in Threads, Acts(t)
  PROVE  DoomedEra'
  <1> SUFFICES ASSUME Doomed', kb' # None PROVE Era'
    BY DEF DoomedEra
  <1>1. CASE Transaction(t) /\ Op1(t).do = "submit" /\ Op1(t).kind = "PURGE"
    <2>1. Requesting(t)
      BY <1>1, NotFree, OnlyRequests DEF Rests
    <2>2. Last(todo[t]) = "setDeleting" /\ Len(todo[t]) >= 2
      BY <1>1, <2>1, RequestHead DEF Rests
    <2>3. Last(todo[t]) \in Ends
      BY <2>2 DEF Ends
    <2>4. Requesting(t)' /\ Last(todo[t])' = Last(todo[t])
      BY <1>1, <2>1, <2>2, <2>3, EndGoes
    <2> QED BY <2>3, <2>4 DEF Era
  <1>2. CASE ~(Transaction(t) /\ Op1(t).do = "submit" /\ Op1(t).kind = "PURGE")
    <2>1. Doomed
      BY <1>2, DoomedBack DEF Rests, Acts
    <2>2. Requesting(t) => Last(todo[t]) \in Ends
      BY <2>1 DEF Rests, NoDoom
    <2>3. kb # None
      <3> SUFFICES ASSUME kb = None PROVE FALSE
        OBVIOUS
      <3>1. Transaction(t)
        BY QuietSteps DEF Acts
      <3>2. Op1(t).do = "ensureKb"
        BY <3>1, RowMoves DEF Rests
      <3>3. Requesting(t)
        BY <3>1, <3>2, NotFree, OnlyRequests DEF Rests
      <3> QED BY <2>2, <3>1, <3>2, <3>3, EndGoes
    <2>4. Era
      BY <2>1, <2>3 DEF Rests, DoomedEra
    <2> QED BY <2>2, <2>3, <2>4, EraStays
  <1> QED BY <1>1, <1>2

LEMMA DoomedEraAsks ==
  ASSUME Rests, Typed', ~mishap', NEW t \in Threads, NEW ops \in Seq(FitOps), Asks(t, ops)
  PROVE  DoomedEra'
  <1>1. /\ todo'[t] = ops /\ tasks' = tasks /\ UNCHANGED <<kb, bindings, rel, snap>>
        /\ \A u \in Threads \ {t} : todo'[u] = todo[u]
        /\ \A u \in Threads : ~Requesting(u)
        /\ Requesting(t)' <=> ops # << >>
    BY AsksShape DEF Rests
  <1> SUFFICES ASSUME Doomed', kb' # None PROVE Era'
    BY DEF DoomedEra
  <1>2. CASE Doomed
    BY <1>1, <1>2 DEF Rests, DoomedEra, Era
  <1>3. CASE ~Doomed
    <2>1. \E i \in 1..Len(ops) : ops[i].do = "finalize"
      <3>1. CASE \E u \in Threads : \E i \in 1..Len(todo'[u]) : todo'[u][i].do = "finalize"
        <4>1. PICK u \in Threads : \E i \in 1..Len(todo'[u]) : todo'[u][i].do = "finalize"
          BY <3>1
        <4>2. u = t
          BY <1>1, <1>3, <4>1, DoomedIs DEF Rests
        <4> QED BY <1>1, <4>1, <4>2
      <3>2. CASE \E i \in 1..Len(tasks') : tasks'[i].kind = "PURGE" /\ tasks'[i].phase # "gone"
        BY <1>1, <1>3, <3>2, DoomedIs DEF Rests
      <3> QED BY <3>1, <3>2, DoomedIsNext
    <2>2. PICK i \in 1..Len(ops) : ops[i].do = "finalize"
      BY <2>1
    <2>3. Last(ops) = "finalize"
      BY <2>2 DEF Asks, Plan, Ends, Last
    <2>4. ops # << >>
      BY <2>2
    <2>5. Requesting(t)' /\ Last(todo[t])' = "finalize"
      BY <1>1, <2>3, <2>4 DEF Last
    <2> QED BY <2>5 DEF Era, Ends
  <1> QED BY <1>2, <1>3

LEMMA OrderStays ==
  ASSUME Rests, Typed', ~mishap', NEW t \in Threads,
         Acts(t) \/ \E ops \in Seq(FitOps) : Asks(t, ops)
  PROVE  Order'
  <1> SUFFICES ASSUME NEW i \in 1..Len(tasks'), NEW j \in 1..Len(tasks'),
                      tasks'[i].kind = "UNBIND", tasks'[j].kind = "PURGE", tasks'[i].doc = tasks'[j].doc,
                      Running(j)'
               PROVE  i < j
    BY DEF Order
  <1>1. /\ Len(tasks) \in Nat /\ Len(tasks') \in Nat /\ Len(tasks) <= Len(tasks')
        /\ \A k \in 1..Len(tasks) : Same(k) /\ (Running(k)' => Running(k)) /\ k \in 1..Len(tasks')
        /\ ~Submit(t) => Len(tasks') = Len(tasks)
    BY StepRunning DEF Rests, Acts
  <1>2. CASE i \in 1..Len(tasks) /\ j \in 1..Len(tasks)
    BY <1>1, <1>2 DEF Rests, Order, Same
  <1>3. CASE ~(i \in 1..Len(tasks) /\ j \in 1..Len(tasks))
    <2>1. Submit(t) /\ Transaction(t)
      BY <1>1, <1>3 DEF Transaction
    <2>2. /\ Len(tasks') = Len(tasks) + 1 /\ \A k \in 1..Len(tasks) : tasks'[k] = tasks[k]
          /\ Op1(t).do = "submit" /\ tasks'[Len(tasks) + 1].kind = Op1(t).kind
      BY <2>1, SubmitSubmits DEF Submits, Rests
    <2>3. CASE i \in 1..Len(tasks)
      BY <1>1, <1>3, <2>2, <2>3
    <2>4. CASE i \notin 1..Len(tasks)
      <3>1. i = Len(tasks) + 1 /\ Op1(t).kind = "UNBIND"
        BY <1>1, <2>2, <2>4
      <3>2. j # i
        OBVIOUS
      <3>3. j \in 1..Len(tasks)
        BY <1>1, <2>2, <3>1, <3>2
      <3>4. tasks[j].kind = "PURGE" /\ Running(j)
        BY <1>1, <3>3 DEF Same
      <3>5. Requesting(t)
        BY <2>1, <2>2, NotFree, OnlyRequests DEF Rests
      <3>6. Last(todo[t]) \notin Ends
        BY <2>2, <3>1, <3>5, RequestHead DEF Rests
      <3>7. ~Doomed
        BY <3>5, <3>6 DEF Rests, NoDoom
      <3> QED BY <3>3, <3>4, <3>7, NotDoomed DEF Rests
    <2> QED BY <2>3, <2>4
  <1> QED BY <1>2, <1>3

\* A document is not uploaded while a task deletes it.
LEMMA NotUploaded ==
  ASSUME Rests, NEW i \in 1..Len(tasks), tasks[i].kind \in {"DELETE", "PURGE"}, Running(i),
         NEW d \in Docs, tasks[i].doc = d
  PROVE  /\ \A u \in Threads : ~Has(u, "bindDoc", d) /\ ~Sends(u, "ADD", d)
         /\ snap[d].status \notin Alive
  <1>1. ~Fresh(d)
    BY DEF Fresh
  <1>2. Comes(d) /\ Lives(d)
    BY DEF Rests, Settled
  <1> QED BY <1>1, <1>2 DEF Comes, Lives

CallbacksOwn ==
  \A t \in Threads : serving[t] # 0 =>
    /\ serving[t] \in 1..Len(tasks) /\ tasks[serving[t]].doc \in Docs
    /\ \A d : Has(t, "purge", d) => d = tasks[serving[t]].doc /\ tasks[serving[t]].kind = "PURGE"
    /\ \A d : Has(t, "dropSnap", d) =>
         d = tasks[serving[t]].doc /\ tasks[serving[t]].kind \in {"PURGE", "UNBIND"}

LEMMA CallbackPurges == Typed /\ Sorted => CallbacksOwn
  <1> SUFFICES ASSUME Typed, Sorted, NEW t \in Threads, serving[t] # 0
               PROVE  /\ serving[t] \in 1..Len(tasks) /\ tasks[serving[t]].doc \in Docs
                      /\ \A d : Has(t, "purge", d) =>
                           d = tasks[serving[t]].doc /\ tasks[serving[t]].kind = "PURGE"
                      /\ \A d : Has(t, "dropSnap", d) =>
                           d = tasks[serving[t]].doc /\ tasks[serving[t]].kind \in {"PURGE", "UNBIND"}
    BY DEF CallbacksOwn
  <1>1. tasks[serving[t]] \in TaskRec
    BY CallbackAhead
  <1> QED BY <1>1, CallbackAhead DEF TaskRec

LEMMA OpAhead ==
  ASSUME Typed, NEW t \in Threads, ~Free(t)
  PROVE  /\ Has(t, Op1(t).do, Op1(t).doc)
         /\ Op1(t).do = "submit" => Sends(t, Op1(t).kind, Op1(t).doc)
  <1>1. Op1(t) = todo[t][1] /\ 1 \in 1..Len(todo[t])
    BY Shape DEF Op1, Free
  <1> QED BY <1>1 DEF Has, Sends

\* A transaction leaves the snapshots alone but for these.
LEMMA SnapMoves ==
  ASSUME Typed, ~mishap', NEW t \in Threads, Transaction(t), NEW d \in Docs
  PROVE  \/ snap'[d] = snap[d]
         \/ DropSnap(t) /\ Op1(t).do = "dropSnap" /\ Op1(t).doc = d /\ snap'[d] = NoSnap
         \/ Submit(t) /\ Op1(t).doc = d /\ Submits(t, d, Op1(t).kind, Len(tasks) + 1)
         \/ Cancel(t) /\ Op1(t).doc = d /\ Cancels(t, d, snap[d].task)
  <1>1. CASE DropSnap(t)
    BY <1>1, Shape DEF DropSnap, Does
  <1>2. CASE Submit(t)
    BY <1>2, SubmitSubmits DEF Submits, Sets
  <1>3. CASE Cancel(t)
    BY <1>3, CancelCancels DEF Cancels
  <1>4. CASE snap' = snap
    BY <1>4
  <1> QED BY <1>1, <1>2, <1>3, <1>4 DEF Transaction, EnsureKb, BindAlgo, BindDoc, RemoveDoc, Refuse,
                                        SetDeleting, Finalize, CountLeft, RemoveBinding

LEMMA PurgingMoves ==
  ASSUME Rests, Typed', ~mishap', NEW t \in Threads, Transaction(t)
  PROVE  Purging'
  <1> SUFFICES ASSUME NEW u \in Threads, NEW d \in Docs, serving'[u] # 0, Has(u, "purge", d)', d \in rel'
               PROVE  snap'[d].status \in {"DELETED", "DELETING"} /\ snap'[d].task >= serving'[u]
    BY DEF Purging
  <1>1. serving'[u] = serving[u] /\ serving[u] # 0 /\ (u # t => todo'[u] = todo[u])
    BY NotFree DEF Rests
  <1>2. Has(u, "purge", d)
    <2>1. CASE u # t
      BY <1>1, <2>1, OtherSame
    <2>2. CASE u = t
      <3>1. Op1(t).do # "cancel"
        BY <1>1, <2>2, CallbackAhead DEF Rests
      <3> QED BY <2>2, <3>1, Remains DEF DocSteps, Rests
    <2> QED BY <2>1, <2>2
  <1>3. /\ serving[u] \in 1..Len(tasks) /\ tasks[serving[u]].doc = d /\ tasks[serving[u]].kind = "PURGE"
        /\ Running(serving[u])
    BY <1>1, <1>2, CallbackPurges DEF Rests, Running, CallbacksOwn
  <1>4. /\ \A v \in Threads : ~Has(v, "bindDoc", d) /\ ~Sends(v, "ADD", d)
        /\ snap[d].status \notin Alive
    BY <1>3, NotUploaded
  <1>5. ~Free(t) /\ Has(t, Op1(t).do, Op1(t).doc) /\ (Op1(t).do = "submit" => Sends(t, Op1(t).kind, Op1(t).doc))
    BY NotFree, OpAhead DEF Rests
  <1>6. d \in rel
    BY <1>4, <1>5, RowMoves DEF Rests
  <1>7. snap[d].status \in {"DELETED", "DELETING"} /\ snap[d].task >= serving[u]
    BY <1>1, <1>2, <1>6 DEF Rests, Purging
  <1>8. CASE snap'[d] = snap[d]
    BY <1>1, <1>7, <1>8
  <1>9. CASE DropSnap(t) /\ Op1(t).do = "dropSnap" /\ Op1(t).doc = d
    <2>1. serving[t] # 0 /\ tasks[serving[t]].kind = "UNBIND"
      BY <1>5, <1>6, <1>9 DEF Rests, Dropped
    <2>2. serving[t] \in 1..Len(tasks) /\ tasks[serving[t]].doc = d
      BY <1>5, <1>9, <2>1, CallbackPurges DEF Rests, CallbacksOwn
    <2>3. serving[t] < serving[u]
      BY <1>3, <2>1, <2>2 DEF Rests, Order
    <2>4. snap[d].task <= serving[t]
      <3>1. ~(snap[d].task > serving[t])
        BY <1>9, <2>1 DEF DropSnap
      <3>2. snap[d].task \in Nat
        BY Shape DEF Rests, SnapRec
      <3> QED BY <2>2, <3>1, <3>2
    <2>5. snap[d].task \in Nat
      BY Shape DEF Rests, SnapRec
    <2> QED BY <1>3, <1>7, <2>2, <2>3, <2>4, <2>5
  <1>10. CASE Submit(t) /\ Op1(t).doc = d /\ Submits(t, d, Op1(t).kind, Len(tasks) + 1)
    <2>1. Op1(t).kind # "ADD"
      BY <1>4, <1>5, <1>10, SubmitSubmits DEF Rests
    <2>2. snap'[d] = [status |-> "DELETING", task |-> Len(tasks) + 1]
      BY <1>10, <2>1 DEF Submits, Sets
    <2>3. Len(tasks) \in Nat
      BY Shape DEF Rests
    <2> QED BY <1>1, <1>3, <2>2, <2>3
  <1>11. CASE Cancel(t) /\ Op1(t).doc = d
    <2>1. Op1(t).do = "cancel" /\ Requesting(t)
      BY <1>5, <1>11, CancelCancels, OnlyRequests DEF Rests
    <2>2. snap[d].status \in Awaits \cup {"SUCCESS"}
      BY <1>5, <1>11, <2>1 DEF Rests, Settled, Agrees
    <2> QED BY <1>7, <2>2 DEF Awaits
  <1> QED BY <1>8, <1>9, <1>10, <1>11, SnapMoves DEF Rests

\* The snapshot that a callback sets is one of the task.
LEMMA CallbackSnap ==
  ASSUME Typed, ~mishap', NEW t \in Threads, NEW id \in 1..Len(tasks), Callback(t, id), NEW d \in Docs
  PROVE  \/ snap'[d] = snap[d]
         \/ /\ tasks[id].doc = d /\ snap[d].task \in {0, id} /\ snap'[d].task = id
            /\ tasks[id].kind # "ADD" => snap'[d].status \in {"DELETED", "DELETING"}
  <1>1. ASSUME NEW status, Sets(tasks[id].doc, status, id), snap[tasks[id].doc].task \in {0, id},
               tasks[id].kind # "ADD" => status \in {"DELETED", "DELETING"}
        PROVE  \/ snap'[d] = snap[d]
               \/ /\ tasks[id].doc = d /\ snap[d].task \in {0, id} /\ snap'[d].task = id
                  /\ tasks[id].kind # "ADD" => snap'[d].status \in {"DELETED", "DELETING"}
    <2>1. CASE d = tasks[id].doc
      BY <1>1, <2>1 DEF Sets
    <2>2. CASE d # tasks[id].doc
      BY <1>1, <2>2 DEF Sets
    <2> QED BY <2>1, <2>2
  <1>2. CASE Started(id)
    BY <1>1, <1>2, StartedEnters
  <1>3. CASE Finished(t, id)
    BY <1>1, <1>3, FinishedEnters
  <1> QED BY <1>2, <1>3 DEF Callback

LEMMA PurgingStays ==
  ASSUME Rests, Typed', Sorted', ~mishap', NEW t \in Threads,
         Acts(t) \/ \E ops \in Seq(FitOps) : Asks(t, ops)
  PROVE  Purging'
  <1>1. ASSUME NEW u \in Threads, NEW d \in Docs, serving[u] # 0, Has(u, "purge", d), d \in rel
        PROVE  /\ snap[d].status \in {"DELETED", "DELETING"} /\ snap[d].task >= serving[u]
               /\ snap[d].task # 0 /\ tasks[snap[d].task].kind # "ADD"
    BY <1>1 DEF Rests, Purging, Settled, SnapFits
  <1>2. CASE Interrupted(t) \/ \E ops \in Seq(FitOps) : Asks(t, ops)
    <2>1. /\ UNCHANGED <<rel, snap>> /\ serving'[t] = 0
          /\ \A u \in Threads \ {t} : todo'[u] = todo[u] /\ serving'[u] = serving[u]
      BY <1>2, InterruptedEnters, AsksShape DEF Rests
    <2> QED BY <1>1, <2>1, OtherSame DEF Purging
  <1>3. CASE \E id \in 1..Len(tasks) : Callback(t, id)
    <2>1. PICK id \in 1..Len(tasks) : Callback(t, id)
      BY <1>3
    <2> SUFFICES ASSUME NEW u \in Threads, NEW d \in Docs, serving'[u] # 0, Has(u, "purge", d)', d \in rel'
                 PROVE  snap'[d].status \in {"DELETED", "DELETING"} /\ snap'[d].task >= serving'[u]
      BY DEF Purging
    <2>2. CASE todo'[u] = todo[u] /\ serving'[u] = serving[u]
      <3>1. /\ snap[d].status \in {"DELETED", "DELETING"} /\ snap[d].task >= serving[u]
            /\ snap[d].task # 0 /\ tasks[snap[d].task].kind # "ADD"
        BY <1>1, <2>1, <2>2, OtherSame, CallbackHandlers DEF Rests
      <3>2. CASE snap'[d] = snap[d]
        BY <2>2, <3>1, <3>2
      <3>3. CASE /\ snap[d].task \in {0, id} /\ snap'[d].task = id
                 /\ tasks[id].kind # "ADD" => snap'[d].status \in {"DELETED", "DELETING"}
        BY <2>2, <3>1, <3>3
      <3> QED BY <2>1, <3>2, <3>3, CallbackSnap DEF Rests
    <2>3. CASE ~(todo'[u] = todo[u] /\ serving'[u] = serving[u])
      <3>1. u = t /\ Finished(t, id)
        BY <2>1, <2>3, CallbackHandlers, StartedEnters DEF Rests, Callback
      <3>2. /\ Sets(tasks[id].doc, IF tasks[id].kind = "ADD" THEN "SUCCESS" ELSE "DELETED", id)
            /\ serving'[t] = (IF tasks[id].kind = "ADD" THEN 0 ELSE id) /\ Enters(id, "gone")
        BY <2>3, <3>1, FinishedEnters DEF Rests
      <3>3. serving'[t] = id /\ tasks[id].kind # "ADD"
        BY <3>1, <3>2
      <3>4. tasks'[id].doc = d
        <4>1. CallbacksOwn'
          BY CallbackPurges, PTL DEF Rests
        <4> QED BY <3>1, <3>3, <4>1 DEF CallbacksOwn
      <3>5. tasks[id].doc = d
        BY <3>2, <3>4 DEF Enters, Same
      <3>6. id \in Nat
        OBVIOUS
      <3> QED BY <3>1, <3>2, <3>3, <3>5, <3>6 DEF Sets
    <2> QED BY <2>2, <2>3
  <1> QED BY <1>2, <1>3, PurgingMoves DEF Acts

LEMMA DroppedMoves ==
  ASSUME Rests, Typed', ~mishap', NEW t \in Threads, Transaction(t)
  PROVE  Dropped'
  <1> SUFFICES ASSUME NEW u \in Threads, NEW d \in Docs, Has(u, "dropSnap", d)',
                      serving'[u] # 0 => tasks'[serving'[u]].kind # "UNBIND", d \in rel'
               PROVE  FALSE
    BY DEF Dropped
  <1>1. /\ ~Free(t) /\ \A v \in Threads \ {t} : todo'[v] = todo[v] /\ serving'[v] = serving[v]
        /\ serving'[t] = (IF todo'[t] = << >> THEN 0 ELSE serving[t])
    BY NotFree DEF Rests
  <1>2. CASE Has(u, "dropSnap", d)
    <2>1. todo'[u] # << >>
      BY DEF Has
    <2>2. serving'[u] = serving[u]
      BY <1>1, <2>1
    <2>3. serving[u] # 0 => tasks[serving[u]].kind # "UNBIND" /\ serving[u] \in 1..Len(tasks)
      BY <2>2, StepRunning, CallbackPurges DEF Rests, CallbacksOwn, Same
    <2>4. d \notin rel
      BY <1>2, <2>3 DEF Rests, Dropped
    <2>5. Op1(t).do = "bindDoc" /\ Op1(t).doc = d
      BY <2>4, RowMoves DEF Rests
    <2>6. Has(t, "bindDoc", d) /\ Requesting(t)
      BY <1>1, <2>5, OpAhead, OnlyRequests DEF Rests
    <2>7. CASE serving[u] # 0
      <3>1. tasks[serving[u]].doc = d /\ tasks[serving[u]].kind = "PURGE" /\ Running(serving[u])
        BY <1>2, <2>3, <2>7, CallbackPurges DEF Rests, CallbacksOwn, Running
      <3> QED BY <2>3, <2>6, <2>7, <3>1, NotUploaded
    <2>8. CASE serving[u] = 0
      <3>1. Requesting(u)
        BY <1>2, <2>8 DEF Requesting, Free, Has
      <3>2. u = t
        BY <2>6, <3>1 DEF Rests, OneRequest
      <3>3. Uploads(todo[t], d)
        BY <2>6, UploadAhead DEF Rests
      <3>4. \A i \in 1..Len(todo[t]) : todo[t][i].do \in {"bindDoc", "submit"}
        BY <3>3, UploadHead
      <3> QED BY <1>2, <3>2, <3>4 DEF Has
    <2> QED BY <2>7, <2>8
  <1>3. CASE ~Has(u, "dropSnap", d)
    <2>1. u = t
      BY <1>1, <1>3, OtherSame
    <2>2. Op1(t).do = "purge" /\ Op1(t).doc = d
      BY <1>3, <2>1, Remains DEF DocSteps, Rests
    <2> QED BY <2>2, RowMoves DEF Rests
  <1> QED BY <1>2, <1>3

LEMMA DroppedStays ==
  ASSUME Rests, Typed', Sorted', ~mishap', NEW t \in Threads,
         Acts(t) \/ \E ops \in Seq(FitOps) : Asks(t, ops)
  PROVE  Dropped'
  <1>1. CASE Interrupted(t) \/ \E id \in 1..Len(tasks) : Callback(t, id)
    <2> SUFFICES ASSUME NEW u \in Threads, NEW d \in Docs, Has(u, "dropSnap", d)',
                        serving'[u] # 0 => tasks'[serving'[u]].kind # "UNBIND"
                 PROVE  d \notin rel'
      BY DEF Dropped
    <2>1. rel' = rel
      BY <1>1, QuietSteps
    <2>2. CASE todo'[u] = todo[u] /\ serving'[u] = serving[u]
      <3>1. Has(u, "dropSnap", d)
        BY <2>2, OtherSame
      <3>2. serving[u] # 0 => tasks[serving[u]].kind # "UNBIND"
        BY <1>1, <2>2, StepRunning, CallbackPurges DEF Rests, CallbacksOwn, Same
      <3> QED BY <2>1, <3>1, <3>2 DEF Rests, Dropped
    <2>3. CASE ~(todo'[u] = todo[u] /\ serving'[u] = serving[u])
      <3>1. CASE Interrupted(t)
        BY <2>3, <3>1, InterruptedEnters DEF Rests, Has
      <3>2. CASE \E id \in 1..Len(tasks) : Callback(t, id)
        <4>1. PICK id \in 1..Len(tasks) : Callback(t, id)
          BY <3>2
        <4>2. /\ u = t /\ todo'[t] = Cleanup(id) /\ Enters(id, "gone")
              /\ tasks[id].kind # "ADD" => serving'[t] = id
              /\ tasks[id].kind = "ADD" => todo'[t] = << >>
          BY <2>3, <4>1, CallbackHandlers DEF Rests
        <4>3. tasks[id].kind # "ADD" /\ serving'[t] = id
          BY <4>2 DEF Has
        <4>4. id # 0
          OBVIOUS
        <4>5. tasks'[id].kind \in {"PURGE", "UNBIND"} /\ tasks'[id].kind = tasks[id].kind
          <5>1. CallbacksOwn'
            BY CallbackPurges, PTL DEF Rests
          <5> QED BY <4>2, <4>3, <4>4, <5>1 DEF CallbacksOwn, Enters, Same
        <4>6. tasks[id].kind = "PURGE"
          BY <4>2, <4>3, <4>4, <4>5
        <4>7. Cleanup(id) = <<DoDoc("purge", tasks[id].doc), Do("finalize")>>
          BY <4>6 DEF Cleanup
        <4>8. ~ \E i \in 1..Len(Cleanup(id)) : Cleanup(id)[i].do = "dropSnap"
          <5> DEFINE p == DoDoc("purge", tasks[id].doc)
                     f == Do("finalize")
          <5>1. p.do = "purge" /\ f.do = "finalize"
            BY DoShape
          <5>2. Cleanup(id) = <<p, f>>
            BY <4>7
          <5> HIDE DEF p, f
          <5> QED BY <5>1, <5>2
        <4> QED BY <4>2, <4>8 DEF Has
      <3> QED BY <1>1, <3>1, <3>2
    <2> QED BY <2>2, <2>3
  <1>2. CASE \E ops \in Seq(FitOps) : Asks(t, ops)
    <2>1. PICK ops \in Seq(FitOps) : Asks(t, ops)
      BY <1>2
    <2>2. /\ todo'[t] = ops /\ rel' = rel /\ tasks' = tasks
          /\ \A u \in Threads \ {t} : todo'[u] = todo[u] /\ serving'[u] = serving[u]
      BY <2>1, AsksShape DEF Rests
    <2>3. \A d : ~Has(t, "dropSnap", d)'
      BY <2>1, <2>2 DEF Has, Asks, Checked
    <2> QED BY <2>2, <2>3, OtherSame DEF Rests, Dropped
  <1> QED BY <1>1, <1>2, DroppedMoves DEF Acts

LEMMA PurgesAllStays ==
  ASSUME Rests, Typed', ~mishap', NEW t \in Threads, Acts(t)
  PROVE  PurgesAll'
  <1>1. CASE Transaction(t)
    <2> SUFFICES ASSUME NEW u \in Threads, Requesting(u)', Last(todo[u])' \in Ends
                 PROVE  /\ Last(todo[u])' = "finalize" => \A d \in rel' : Has(u, "purge", d)'
                        /\ Last(todo[u])' = "setDeleting" =>
                             \A d \in Docs : ~Has(u, "purge", d)' /\ ~Has(u, "dropSnap", d)'
      BY DEF PurgesAll, Ends
    <2>1. Requesting(u) /\ Last(todo[u])' = Last(todo[u]) /\ Last(todo[u]) \in Ends
      BY <1>1, RequestBack DEF Rests
    <2>2. ~Free(t) /\ \A v \in Threads \ {t} : todo'[v] = todo[v] /\ serving'[v] = serving[v]
      BY <1>1, NotFree DEF Rests
    <2>3. /\ Last(todo[u]) = "finalize" => \A d \in rel : Has(u, "purge", d)
          /\ Last(todo[u]) = "setDeleting" => \A d \in Docs : ~Has(u, "purge", d) /\ ~Has(u, "dropSnap", d)
      BY <2>1 DEF Rests, PurgesAll
    <2>4. rel' \subseteq rel
      <3>1. Op1(t).do # "bindDoc"
        <4> SUFFICES ASSUME Op1(t).do = "bindDoc" PROVE FALSE
          OBVIOUS
        <4>1. Requesting(t)
          BY <2>2, OnlyRequests DEF Rests
        <4>2. u = t
          BY <2>1, <4>1 DEF Rests, OneRequest
        <4> QED BY <1>1, <2>1, <4>1, <4>2, EndGoes
      <3> QED BY <1>1, <3>1, RowMoves DEF Rests
    <2>5. CASE u # t
      BY <2>1, <2>2, <2>3, <2>4, <2>5, OtherSame
    <2>6. CASE u = t
      <3>1. /\ Op1(t).do \notin {"cancel", "refuse", "countLeft"} /\ (Op1(t).do = "submit" => Done(t))
        BY <1>1, <2>1, <2>6, EndGoes
      <3>2. ASSUME Last(todo[t]) = "finalize", NEW d \in rel' PROVE Has(t, "purge", d)'
        <4>1. Has(t, "purge", d)
          BY <2>3, <2>4, <2>6, <3>2
        <4>2. ~(Op1(t).do = "purge" /\ Op1(t).doc = d)
          BY <1>1, RowMoves DEF Rests
        <4> QED BY <1>1, <3>1, <4>1, <4>2, StillAhead DEF Rests
      <3>3. ASSUME Last(todo[t]) = "setDeleting", NEW d \in Docs
            PROVE  ~Has(t, "purge", d)' /\ ~Has(t, "dropSnap", d)'
        <4>1. ~Has(t, "purge", d) /\ ~Has(t, "dropSnap", d)
          BY <2>3, <2>6, <3>3
        <4>2. ~(Op1(t).do = "purge" /\ Op1(t).doc = d)
          BY <2>2, <4>1, OpAhead DEF Rests
        <4> QED BY <1>1, <3>1, <4>1, <4>2, Remains DEF DocSteps, Rests
      <3> QED BY <2>1, <2>6, <3>2, <3>3
    <2> QED BY <2>5, <2>6
  <1>2. CASE ~Transaction(t)
    <2>1. /\ rel' = rel
          /\ \A u \in Threads : Requesting(u)' => /\ todo'[u] = todo[u] /\ serving'[u] = serving[u]
                                                  /\ Requesting(u)
      BY <1>2, QuietSteps DEF Acts
    <2> QED BY <2>1, OtherSame DEF Rests, PurgesAll
  <1> QED BY <1>1, <1>2

LEMMA PurgesAllAsks ==
  ASSUME Rests, Typed', ~mishap', NEW t \in Threads, NEW ops \in Seq(FitOps), Asks(t, ops)
  PROVE  PurgesAll'
  <1>1. /\ todo'[t] = ops /\ UNCHANGED <<kb, bindings, rel, snap>>
        /\ \A u \in Threads : Requesting(u)' => u = t
        /\ Requesting(t)' <=> ops # << >>
    BY AsksShape DEF Rests
  <1> SUFFICES ASSUME ops # << >>
               PROVE  /\ Last(ops) = "finalize" => \A d \in rel : Has(t, "purge", d)'
                      /\ Last(ops) = "setDeleting" =>
                           \A d \in Docs : ~Has(t, "purge", d)' /\ ~Has(t, "dropSnap", d)'
    BY <1>1 DEF PurgesAll, Last
  <1> QED BY <1>1 DEF Asks, Whole, Checked, Has

\* The purges that a transaction leaves ahead.
LEMMA SendsStay ==
  ASSUME Rests, Typed', ~mishap', NEW t \in Threads, Transaction(t),
         Requesting(t) => Last(todo[t]) \in Ends,
         NEW u \in Threads, NEW e, Sends(u, "PURGE", e), Op1(t).do # "submit" \/ Op1(t).doc # e
  PROVE  Sends(u, "PURGE", e)'
  <1>1. CASE u # t
    BY <1>1, NotFree, OtherSame DEF Rests
  <1>2. CASE u = t
    <2>1. Requesting(t)
      BY <1>2, SendsRequest DEF Rests
    <2>2. Op1(t).do \notin {"cancel", "refuse", "countLeft"} /\ (Op1(t).do = "submit" => Done(t))
      BY <2>1, EndGoes
    <2> QED BY <1>2, <2>2, StillAhead DEF Rests
  <1> QED BY <1>1, <1>2

LEMMA FinishingStays ==
  ASSUME Rests, Typed', ~mishap', NEW t \in Threads, Transaction(t), Op1(t).do # "finalize",
         Requesting(t) => Last(todo[t]) \in Ends,
         NEW u \in Threads, Finishing(u)
  PROVE  Finishing(u)' /\ \A e \in rel' : Has(u, "purge", e) => Has(u, "purge", e)'
  <1>1. CASE u # t
    BY <1>1, NotFree, OtherSame DEF Rests, Finishing
  <1>2. CASE u = t
    <2>1. /\ Op1(t).do \notin {"cancel", "refuse", "countLeft"} /\ (Op1(t).do = "submit" => Done(t))
          /\ Len(todo[t]) \in Nat /\ Len(todo[t]) >= 1 /\ Op1(t) = todo[t][1]
      <3>1. CASE Requesting(t)
        BY <3>1, EndGoes
      <3>2. CASE serving[t] # 0
        <4>1. /\ Len(todo[t]) \in {1, 2} /\ Op1(t) = todo[t][1]
              /\ Op1(t).do \in {"purge", "dropSnap", "finalize"}
          BY <1>2, <3>2, CallbackAhead DEF Finishing, Rests
        <4> QED BY <4>1
      <3> QED BY <1>2, <3>1, <3>2 DEF Finishing, Requesting
    <2>2. Len(todo[t]) # 1
      BY <1>2, <2>1 DEF Finishing, Last
    <2>3. Len(todo[t]) >= 2
      <3>1. \A n \in Nat : n >= 1 /\ n # 1 => n >= 2
        OBVIOUS
      <3> QED BY <2>1, <2>2, <3>1
    <2>4. Finishing(t)'
      BY <1>2, <2>1, <2>3, StillAhead DEF Finishing, Rests
    <2>5. ASSUME NEW e \in rel', Has(t, "purge", e) PROVE Has(t, "purge", e)'
      <3>1. ~(Op1(t).do = "purge" /\ Op1(t).doc = e)
        BY RowMoves DEF Rests
      <3> QED BY <2>1, <2>5, <3>1, StillAhead DEF Rests
    <2> QED BY <1>2, <2>4, <2>5
  <1> QED BY <1>1, <1>2

LEMMA EffectiveStays ==
  ASSUME Typed, NEW d \in Docs, snap'[d] = snap[d], d \in rel' => d \in rel, Effective(d),
         /\ Len(tasks) <= Len(tasks') /\ Len(tasks') \in Nat
         /\ \A i \in 1..Len(tasks) : Same(i) /\ (tasks[i].doc = d => tasks'[i].phase = tasks[i].phase)
         /\ \A i \in 1..Len(tasks') : tasks'[i].doc = d => i \in 1..Len(tasks)
  PROVE  Effective(d)'
  <1>1. PICK i \in 1..Len(tasks) : Effects(i, d)
    BY DEF Effective
  <1>2. i \in 1..Len(tasks') /\ tasks'[i].phase = tasks[i].phase
    <2>1. Len(tasks) \in Nat
      BY Shape
    <2> QED BY <1>1, <2>1 DEF Effects
  <1>3. Effects(i, d)'
    BY <1>1, <1>2 DEF Effects, Same
  <1> QED BY <1>2, <1>3 DEF Effective

\* The deletion goes on if each part of it is left or followed by another.
LEMMA DeletingFrame ==
  ASSUME Rests, Era, kb # None, rel' \subseteq rel, rel \subseteq Docs,
         \A e \in Docs : Effective(e) => Underway' /\ (e \in rel' => Covered(e)'),
         \A u \in Threads, e \in Docs : Sends(u, "PURGE", e) => Underway' /\ Covered(e)',
         \A u \in Threads : Finishing(u) =>
           Underway' /\ \A e \in rel' : Has(u, "purge", e) => Covered(e)'
  PROVE  Underway' /\ \A e \in rel' : Covered(e)'
  <1>1. Underway /\ \A e \in rel : Covered(e)
    BY DEF Rests, Deleting
  <1>2. Underway'
    BY <1>1 DEF Underway
  <1>3. ASSUME NEW e \in rel' PROVE Covered(e)'
    <2>1. Covered(e) /\ e \in Docs
      BY <1>1, <1>3
    <2>2. CASE Effective(e)
      BY <1>3, <2>1, <2>2
    <2>3. CASE \E u \in Threads : Sends(u, "PURGE", e)
      BY <2>1, <2>3
    <2>4. CASE \E u \in Threads : Finishing(u) /\ Has(u, "purge", e)
      BY <1>3, <2>4
    <2> QED BY <2>1, <2>2, <2>3, <2>4 DEF Covered
  <1> QED BY <1>2, <1>3

LEMMA RelDocs ==
  ASSUME Typed
  PROVE  rel \subseteq Docs
  BY DEF Typed, TypeOK

LEMMA PlainDeletes ==
  ASSUME Rests, Typed', ~mishap', NEW t \in Threads, Transaction(t), Era, kb # None,
         Requesting(t) => Last(todo[t]) \in Ends,
         UNCHANGED <<tasks, snap>>, Op1(t).do \notin {"finalize", "submit", "bindDoc"}
  PROVE  Underway' /\ \A e \in rel' : Covered(e)'
  <1>1. rel' \subseteq rel /\ rel \subseteq Docs
    BY RowMoves, RelDocs DEF Rests
  <1>2. ASSUME NEW e \in Docs, Effective(e) PROVE Underway' /\ (e \in rel' => Covered(e)')
    <2>1. Effective(e)'
      <3>1. Len(tasks) \in Nat /\ Len(tasks) <= Len(tasks)
        BY Shape DEF Rests
      <3> QED BY <1>1, <1>2, <3>1, EffectiveStays DEF Rests, Same
    <2> QED BY <2>1 DEF Underway, Covered
  <1>3. ASSUME NEW u \in Threads, NEW e \in Docs, Sends(u, "PURGE", e) PROVE Underway' /\ Covered(e)'
    <2>1. Sends(u, "PURGE", e)'
      BY <1>3, SendsStay
    <2> QED BY <2>1 DEF Underway, Covered
  <1>4. ASSUME NEW u \in Threads, Finishing(u)
        PROVE  Underway' /\ \A e \in rel' : Has(u, "purge", e) => Covered(e)'
    <2>1. Finishing(u)' /\ \A e \in rel' : Has(u, "purge", e) => Has(u, "purge", e)'
      BY <1>4, FinishingStays
    <2> QED BY <2>1 DEF Underway, Covered
  <1> QED BY <1>1, <1>2, <1>3, <1>4, DeletingFrame

LEMMA DropDeletes ==
  ASSUME Rests, Typed', ~mishap', NEW t \in Threads, DropSnap(t), Era, kb # None,
         Requesting(t) => Last(todo[t]) \in Ends
  PROVE  Underway' /\ \A e \in rel' : Covered(e)'
  <1> DEFINE d == Op1(t).doc
  <1>0. /\ Transaction(t) /\ ~Free(t) /\ Op1(t).do = "dropSnap"
        /\ tasks' = tasks /\ rel' = rel /\ snap' = [snap EXCEPT ![d] = NoSnap]
    BY DEF Transaction, DropSnap, Does, store
  <1>1. rel' \subseteq rel /\ rel \subseteq Docs /\ Has(t, "dropSnap", d)
    BY <1>0, RelDocs, OpAhead DEF Rests
  <1>2. ASSUME NEW u \in Threads, Finishing(u)
        PROVE  Underway' /\ \A e \in rel' : Has(u, "purge", e) => Covered(e)'
    <2>1. Finishing(u)' /\ \A e \in rel' : Has(u, "purge", e) => Has(u, "purge", e)'
      BY <1>0, <1>2, FinishingStays
    <2> QED BY <2>1 DEF Underway, Covered
  <1>3. ASSUME NEW e \in Docs, Effective(e) PROVE Underway' /\ (e \in rel' => Covered(e)')
    <2>1. CASE snap'[e] = snap[e]
      <3>1. Effective(e)'
        <4>1. Len(tasks) \in Nat /\ Len(tasks) <= Len(tasks)
          BY Shape DEF Rests
        <4> QED BY <1>0, <1>3, <2>1, <4>1, EffectiveStays DEF Rests, Same
      <3> QED BY <3>1 DEF Underway, Covered
    <2>2. CASE snap'[e] # snap[e]
      <3>1. e = d
        BY <1>0, <2>2, Shape DEF Rests
      <3>2. CASE serving[t] # 0 /\ tasks[serving[t]].kind = "UNBIND"
        <4>1. PICK i \in 1..Len(tasks) : Effects(i, e)
          BY <1>3 DEF Effective
        <4>2. tasks[i].doc = e /\ tasks[i].kind = "PURGE" /\ Running(i)
          BY <4>1 DEF Effects, Running, Over
        <4>3. snap[e].status # None
          <5> SUFFICES ASSUME snap[e].status = None PROVE FALSE
            OBVIOUS
          <5>1. snap[e].task = 0
            BY <1>3 DEF Rests, Settled, SnapFits
          <5>2. snap[e] = NoSnap
            <6>1. snap[e] \in SnapRec
              BY <1>3, Shape DEF Rests
            <6> QED BY <5>1, <6>1 DEF SnapRec, NoSnap
          <5>3. snap'[e] = NoSnap
            BY <1>0, <1>3, <3>1, Shape DEF Rests
          <5> QED BY <2>2, <5>2, <5>3
        <4>4. snap[e].task = i
          BY <4>1, <4>3 DEF Effects
        <4>5. serving[t] \in 1..Len(tasks) /\ tasks[serving[t]].doc = e
          BY <1>1, <3>1, <3>2, CallbackPurges DEF Rests, CallbacksOwn
        <4>6. serving[t] < i
          BY <3>2, <4>2, <4>5 DEF Rests, Order
        <4>7. ~(snap[e].task > serving[t])
          BY <3>1, <3>2 DEF DropSnap
        <4> QED BY <4>4, <4>5, <4>6, <4>7
      <3>3. CASE ~(serving[t] # 0 /\ tasks[serving[t]].kind = "UNBIND")
        <4>1. e \notin rel
          BY <1>1, <1>3, <3>1, <3>3 DEF Rests, Dropped
        <4>2. Finishing(t)
          <5>1. CASE serving[t] # 0
            <6>1. tasks[serving[t]].kind = "PURGE"
              BY <1>1, <3>3, <5>1, CallbackPurges DEF Rests, CallbacksOwn
            <6>2. Last(todo[t]) = "finalize" /\ ~Free(t)
              BY <5>1, <6>1, CallbackAhead DEF Rests
            <6> QED BY <6>2 DEF Finishing
          <5>2. CASE serving[t] = 0
            <6>1. Requesting(t)
              BY <1>0, <5>2 DEF Requesting
            <6>2. Last(todo[t]) # "setDeleting"
              BY <1>1, <1>3, <3>1, <6>1 DEF Rests, PurgesAll
            <6> QED BY <6>1, <6>2 DEF Ends, Finishing, Requesting
          <5> QED BY <5>1, <5>2
        <4> QED BY <1>0, <1>2, <4>1, <4>2
      <3> QED BY <3>2, <3>3
    <2> QED BY <2>1, <2>2
  <1>4. ASSUME NEW u \in Threads, NEW e \in Docs, Sends(u, "PURGE", e) PROVE Underway' /\ Covered(e)'
    <2>1. Sends(u, "PURGE", e)'
      BY <1>0, <1>4, SendsStay
    <2> QED BY <2>1 DEF Underway, Covered
  <1> QED BY <1>1, <1>2, <1>3, <1>4, DeletingFrame

LEMMA SubmitDeletes ==
  ASSUME Rests, Typed', ~mishap', NEW t \in Threads, Submit(t), Era, kb # None,
         Requesting(t) => Last(todo[t]) \in Ends
  PROVE  Underway' /\ \A e \in rel' : Covered(e)'
  <1>a. PICK d : d = Op1(t).doc
    OBVIOUS
  <1>b. PICK id : id = Len(tasks) + 1
    OBVIOUS
  <1>0. Transaction(t) /\ ~Free(t) /\ Op1(t).do = "submit"
    BY DEF Transaction, Submit, Does
  <1>1. d \in Docs /\ Submits(t, d, Op1(t).kind, id) /\ rel' = rel /\ rel \subseteq Docs /\ Len(tasks) \in Nat
    BY <1>a, <1>b, SubmitSubmits, RelDocs, Shape DEF Rests
  <1>2. Op1(t).kind = "PURGE"
    <2>1. Requesting(t)
      BY <1>0, OnlyRequests DEF Rests
    <2> QED BY <1>0, <2>1, EndGoes
  <1>3. /\ Len(tasks') = id /\ (\A i \in 1..Len(tasks) : tasks'[i] = tasks[i])
        /\ tasks'[id].doc = d /\ tasks'[id].kind = "PURGE" /\ tasks'[id].phase = "queued"
        /\ snap'[d] = [status |-> "DELETING", task |-> id]
        /\ \A e \in Docs : e # d => snap'[e] = snap[e]
    BY <1>1, <1>2 DEF Submits, Sets
  <1>4. Underway' /\ Covered(d)'
    <2>1. id \in 1..Len(tasks')
      BY <1>b, <1>1, <1>3
    <2>2. Effects(id, d)'
      BY <1>3 DEF Effects
    <2> QED BY <1>1, <2>1, <2>2 DEF Underway, Covered, Effective
  <1>5. ASSUME NEW e \in Docs, Effective(e), e # d PROVE Covered(e)'
    <2>1. /\ Len(tasks) <= Len(tasks') /\ Len(tasks') \in Nat
          /\ \A i \in 1..Len(tasks') : tasks'[i].doc = e => i \in 1..Len(tasks)
      BY <1>b, <1>1, <1>3, <1>5
    <2>2. Effective(e)'
      BY <1>1, <1>3, <1>5, <2>1, EffectiveStays DEF Rests, Same
    <2> QED BY <2>2 DEF Covered
  <1>6. ASSUME NEW u \in Threads, NEW e \in Docs, Sends(u, "PURGE", e), e # d PROVE Covered(e)'
    <2>1. Sends(u, "PURGE", e)'
      BY <1>a, <1>0, <1>6, SendsStay
    <2> QED BY <2>1 DEF Covered
  <1>7. ASSUME NEW u \in Threads, Finishing(u)
        PROVE  Underway' /\ \A e \in rel' : Has(u, "purge", e) => Covered(e)'
    <2>1. Finishing(u)' /\ \A e \in rel' : Has(u, "purge", e) => Has(u, "purge", e)'
      BY <1>0, <1>7, FinishingStays
    <2> QED BY <2>1 DEF Underway, Covered
  <1>8. /\ \A e \in Docs : Effective(e) => Underway' /\ (e \in rel' => Covered(e)')
        /\ \A u \in Threads, e \in Docs : Sends(u, "PURGE", e) => Underway' /\ Covered(e)'
    BY <1>4, <1>5, <1>6
  <1>9. rel' \subseteq rel
    BY <1>1
  <1> QED BY <1>1, <1>7, <1>8, <1>9, DeletingFrame

LEMMA FinalizeDeletes ==
  ASSUME Rests, Typed', ~mishap', NEW t \in Threads, Finalize(t), Era, kb # None, kb' # None
  PROVE  Underway' /\ \A e \in rel' : Covered(e)'
  <1>0. /\ Transaction(t) /\ ~Free(t) /\ Op1(t).do = "finalize" /\ UNCHANGED <<tasks, snap>>
    BY DEF Transaction, Finalize, Does
  <1>1. rel' = rel /\ rel # {} /\ rel \subseteq Docs
    BY <1>0, RowMoves, RelDocs DEF Rests
  <1>2. serving[t] # 0
    <2> SUFFICES ASSUME serving[t] = 0 PROVE FALSE
      OBVIOUS
    <2>1. Requesting(t)
      BY <1>0 DEF Requesting
    <2>2. Len(todo[t]) = 1 /\ Last(todo[t]) \in Ends
      BY <1>0, <2>1, RequestHead DEF Rests, Ends
    <2> QED BY <1>0, <1>1, <2>1, <2>2, EndGoes
  <1>3. ASSUME NEW e \in rel PROVE Covered(e)'
    <2>1. Covered(e) /\ e \in Docs
      BY <1>1, <1>3 DEF Rests, Deleting
    <2>2. CASE Effective(e)
      <3>1. Effective(e)'
        <4>1. Len(tasks) \in Nat /\ Len(tasks) <= Len(tasks)
          BY Shape DEF Rests
        <4> QED BY <1>0, <1>1, <2>1, <2>2, <4>1, EffectiveStays DEF Rests, Same
      <3> QED BY <3>1 DEF Covered
    <2>3. CASE \E u \in Threads : Sends(u, "PURGE", e)
      <3>1. PICK u \in Threads : Sends(u, "PURGE", e)
        BY <2>3
      <3>2. ~Requesting(t)
        BY <1>2 DEF Requesting
      <3>3. Sends(u, "PURGE", e)'
        BY <1>0, <3>1, <3>2, SendsStay
      <3> QED BY <3>3 DEF Covered
    <2>4. CASE \E u \in Threads : Finishing(u) /\ Has(u, "purge", e)
      <3>1. PICK u \in Threads : Finishing(u) /\ Has(u, "purge", e)
        BY <2>4
      <3>2. u # t
        BY <1>0, <1>2, <3>1, CallbackAhead DEF Rests
      <3>3. Finishing(u)' /\ Has(u, "purge", e)'
        BY <1>0, <3>1, <3>2, NotFree, OtherSame DEF Rests, Finishing
      <3> QED BY <3>3 DEF Covered
    <2> QED BY <2>1, <2>2, <2>3, <2>4 DEF Covered
  <1>4. Underway'
    <2>1. PICK e \in rel : TRUE
      BY <1>1
    <2>2. Covered(e)' /\ e \in Docs
      BY <1>1, <1>3
    <2> QED BY <2>2 DEF Covered, Underway
  <1> QED BY <1>1, <1>3, <1>4

LEMMA TransactionDeletes ==
  ASSUME Rests, Typed', ~mishap', NEW t \in Threads, Transaction(t)
  PROVE  Deleting'
  <1> SUFFICES ASSUME Era', kb' # None PROVE Underway' /\ \A e \in rel' : Covered(e)'
    BY DEF Deleting
  <1>1. Era /\ kb # None /\ (Requesting(t) => Last(todo[t]) \in Ends)
    BY EraBack DEF Acts
  <1>2. ~Free(t)
    BY NotFree DEF Rests
  <1>3. Op1(t).do \notin {"ensureKb", "bindAlgo", "bindDoc", "cancel", "refuse"}
    BY <1>1, <1>2, OnlyRequests, EndGoes DEF Rests
  <1>4. CASE DropSnap(t)
    BY <1>1, <1>4, DropDeletes
  <1>5. CASE Submit(t)
    BY <1>1, <1>5, SubmitDeletes
  <1>6. CASE Finalize(t)
    BY <1>1, <1>6, FinalizeDeletes
  <1>7. CASE RemoveDoc(t) \/ SetDeleting(t) \/ CountLeft(t) \/ RemoveBinding(t)
    <2>1. UNCHANGED <<tasks, snap>> /\ Op1(t).do \notin {"finalize", "submit", "bindDoc"}
      BY <1>7 DEF RemoveDoc, SetDeleting, CountLeft, RemoveBinding, Does
    <2> QED BY <1>1, <2>1, PlainDeletes
  <1> QED BY <1>3, <1>4, <1>5, <1>6, <1>7 DEF Transaction, EnsureKb, BindAlgo, BindDoc, Cancel, Refuse, Does

\* A purge that has its effect leaves no other task of its document in the way.
LEMMA EffectAlone ==
  ASSUME Rests, NEW d \in Docs, NEW i \in 1..Len(tasks), Effects(i, d),
         NEW id \in 1..Len(tasks), tasks[id].doc = d, tasks[id].phase \notin Over, i # id
  PROVE  snap[d].task = i /\ i # 0 /\ tasks[i].phase \in {"queued", "working"}
         /\ snap[d].status = "DELETING"
  <1>1. ASSUME tasks[id].kind = "ADD" PROVE snap[d].status \in Awaits /\ snap[d].task = id
    BY <1>1 DEF Rests, Settled, Adds
  <1>2. snap[d].status \in {"DELETING", "DELETED", None}
    BY DEF Effects
  <1>3. tasks[id].kind # "ADD"
    BY <1>1, <1>2 DEF Awaits, None
  <1> QED BY <1>3 DEF Effects

LEMMA CallbackEffects ==
  ASSUME Rests, Typed', ~mishap', NEW t \in Threads, NEW id \in 1..Len(tasks), Callback(t, id),
         NEW d \in Docs, Effective(d)
  PROVE  Underway' /\ Covered(d)'
  <1> SUFFICES Effective(d)' \/ (Finishing(t)' /\ Has(t, "purge", d)')
    BY DEF Underway, Covered
  <1>1. PICK i \in 1..Len(tasks) : Effects(i, d)
    BY DEF Effective
  <1>2. PICK phase \in {"working", "gone"} : Enters(id, phase)
    BY CallbackHandlers DEF Rests
  <1>3. /\ tasks[id].phase \notin Over /\ rel' = rel /\ Len(tasks) \in Nat
        /\ Len(tasks') = Len(tasks) /\ \A j \in 1..Len(tasks) : Same(j) /\ (j # id => tasks'[j] = tasks[j])
    BY <1>2, CallbackHandlers, Shape DEF Rests, Enters
  <1>4. CASE tasks[id].doc # d
    <2>1. snap'[d] = snap[d]
      BY <1>4, CallbackSnap DEF Rests
    <2> QED BY <1>3, <1>4, <2>1, EffectiveStays DEF Rests
  <1>5. CASE tasks[id].doc = d /\ i # id
    <2>1. snap[d].task = i /\ i # 0 /\ tasks[i].phase \in {"queued", "working"} /\ snap[d].status = "DELETING"
      BY <1>1, <1>3, <1>5, EffectAlone
    <2>2. snap'[d] = snap[d]
      BY <1>5, <2>1, CallbackSnap DEF Rests
    <2>3. Effects(i, d)'
      BY <1>1, <1>3, <1>5, <2>1, <2>2 DEF Effects, Same
    <2> QED BY <1>3, <2>3 DEF Effective
  <1>6. CASE tasks[id].doc = d /\ i = id
    <2>1. tasks[id].kind = "PURGE"
      BY <1>1, <1>6 DEF Effects
    <2>2. snap[d].task \in {0, id}
      BY <1>1, <1>6 DEF Effects, Rests, Settled, SnapFits
    <2>3. CASE Started(id)
      <3>1. Sets(d, "DELETING", id) /\ Enters(id, "working")
        BY <1>6, <2>1, <2>2, <2>3, StartedEnters DEF Rests
      <3>2. Effects(id, d)'
        BY <1>3, <1>6, <2>1, <3>1 DEF Effects, Sets, Enters, Same
      <3> QED BY <1>3, <3>2 DEF Effective
    <2>4. CASE Finished(t, id)
      <3>1. todo'[t] = Cleanup(id)
        BY <1>6, <2>2, <2>4, FinishedEnters DEF Rests
      <3>2. Cleanup(id) = <<DoDoc("purge", d), Do("finalize")>>
        BY <1>6, <2>1 DEF Cleanup
      <3>3. Finishing(t)' /\ Has(t, "purge", d)'
        <4>0. DoDoc("purge", d).do = "purge" /\ DoDoc("purge", d).doc = d /\ Do("finalize").do = "finalize"
          BY DEF DoDoc, Do
        <4>1. PICK p, f : p = DoDoc("purge", d) /\ f = Do("finalize")
          OBVIOUS
        <4>2. todo'[t] = <<p, f>> /\ p.do = "purge" /\ p.doc = d /\ f.do = "finalize"
          BY <3>1, <3>2, <4>0, <4>1
        <4>3. Len(todo'[t]) = 2 /\ todo'[t][1] = p /\ todo'[t][2] = f /\ todo'[t] # << >>
          BY <4>2
        <4> QED BY <4>2, <4>3 DEF Finishing, Free, Has, Last
      <3> QED BY <3>3
    <2> QED BY <2>3, <2>4 DEF Callback
  <1> QED BY <1>4, <1>5, <1>6

LEMMA CallbackDeletes ==
  ASSUME Rests, Typed', ~mishap', NEW t \in Threads, NEW id \in 1..Len(tasks), Callback(t, id),
         Era, kb # None
  PROVE  Underway' /\ \A e \in rel' : Covered(e)'
  <1>1. rel' \subseteq rel /\ rel \subseteq Docs
    BY CallbackHandlers, RelDocs DEF Rests
  <1>2. ASSUME NEW u \in Threads, ~Free(u) PROVE todo'[u] = todo[u] /\ serving'[u] = serving[u]
    <2>1. CASE u # t
      BY <2>1, CallbackHandlers DEF Rests
    <2>2. CASE u = t
      BY <1>2, <2>2, CallbackHandlers DEF Rests
    <2> QED BY <2>1, <2>2
  <1>3. \A e \in Docs : Effective(e) => Underway' /\ (e \in rel' => Covered(e)')
    BY CallbackEffects
  <1>4. ASSUME NEW u \in Threads, NEW e \in Docs, Sends(u, "PURGE", e) PROVE Underway' /\ Covered(e)'
    <2>1. Sends(u, "PURGE", e)'
      BY <1>2, <1>4, SendsRequest, OtherSame DEF Rests
    <2> QED BY <2>1 DEF Underway, Covered
  <1>5. ASSUME NEW u \in Threads, Finishing(u)
        PROVE  Underway' /\ \A e \in rel' : Has(u, "purge", e) => Covered(e)'
    <2>1. Finishing(u)' /\ \A e : Has(u, "purge", e) => Has(u, "purge", e)'
      BY <1>2, <1>5, OtherSame DEF Finishing
    <2> QED BY <2>1 DEF Underway, Covered
  <1> QED BY <1>1, <1>3, <1>4, <1>5, DeletingFrame

\* A callback of a purge that is broken off is delivered again and has its effect then.
LEMMA AgainEffects ==
  ASSUME Rests, Typed', ~mishap', NEW t \in Threads, Interrupted(t), Era, kb # None,
         serving[t] # 0, tasks[serving[t]].kind = "PURGE"
  PROVE  Underway' /\ \A e \in rel' : Has(t, "purge", e) => Covered(e)'
  <1>a. PICK id : id = serving[t]
    OBVIOUS
  <1>b. PICK d : d = tasks[id].doc
    OBVIOUS
  <1>1. /\ UNCHANGED <<kb, bindings, rel, snap>> /\ Enters(id, "again")
        /\ \A i \in 1..Len(tasks) : tasks[i].doc = d /\ tasks[i].kind # "ADD" => i = id
        /\ \A u \in Threads \ {t} : todo'[u] = todo[u] /\ serving'[u] = serving[u]
    BY <1>a, <1>b, InterruptedEnters DEF Rests
  <1>2. /\ id \in 1..Len(tasks) /\ d \in Docs /\ tasks[id].phase = "gone" /\ Running(id)
        /\ \A e : Has(t, "purge", e) => e = d
        /\ Len(tasks') = Len(tasks) /\ Same(id) /\ tasks'[id].phase = "again"
        /\ \A i \in 1..Len(tasks) : Same(i)
    BY <1>a, <1>b, <1>1, CallbackAhead DEF Rests, Running, TaskRec, Enters
  <1>3. snap[d].status \in {"DELETED", None} /\ (snap[d].status = "DELETED" => snap[d].task = id)
    <2>1. snap[d].status \notin Alive
      BY <1>a, <1>b, <1>2, NotUploaded
    <2>2. snap[d].status \in SnapStatuses /\ snap[d].task \in 0..Len(tasks)
      <3>1. snap[d] \in SnapRec /\ snap[d].task <= Len(tasks) /\ Len(tasks) \in Nat
        BY <1>2, Shape DEF Rests, Typed, Named
      <3>2. snap[d].task \in Nat
        BY <3>1 DEF SnapRec
      <3> QED BY <3>1, <3>2 DEF SnapRec
    <2>3. SnapFits(d)
      BY <1>2 DEF Rests, Settled
    <2>4. snap[d].status \in {"DELETED", "DELETING"} => snap[d].task = id
      <3>1. snap[d].task # 0 => snap[d].task \in 1..Len(tasks)
        BY <1>2, <2>2
      <3> QED BY <1>1, <2>3, <3>1 DEF SnapFits
    <2> QED BY <1>2, <2>1, <2>2, <2>3, <2>4 DEF SnapFits, SnapStatuses, Alive
  <1>4. CASE snap[d].status = "DELETED" \/ d \notin rel
    <2>1. Effects(id, d)'
      <3>1. \A j \in 1..Len(tasks') : tasks'[j].doc = d /\ tasks'[j].kind # "ADD" => j = id
        BY <1>1, <1>2 DEF Same
      <3>2. tasks'[id].doc = d /\ tasks'[id].kind = "PURGE" /\ tasks'[id].phase = "again"
        BY <1>a, <1>b, <1>2 DEF Same
      <3>3. \/ snap'[d].status = "DELETED" /\ snap'[d].task = id
            \/ snap'[d].status = None /\ d \notin rel'
        BY <1>1, <1>3, <1>4
      <3> QED BY <3>1, <3>2, <3>3 DEF Effects
    <2>2. Effective(d)'
      BY <1>2, <2>1 DEF Effective
    <2> QED BY <1>2, <2>2 DEF Underway, Covered
  <1>5. CASE snap[d].status = None /\ d \in rel
    <2>1. ~Has(t, "purge", d)
      BY <1>2, <1>5 DEF Rests, Purging, None
    <2>2. Covered(d)
      BY <1>5 DEF Rests, Deleting
    <2>3. ~Effective(d)
      <3> SUFFICES ASSUME NEW i \in 1..Len(tasks), Effects(i, d) PROVE FALSE
        BY DEF Effective
      <3>1. i = id
        BY <1>1 DEF Effects
      <3> QED BY <1>2, <3>1 DEF Effects
    <2>4. CASE \E u \in Threads : Sends(u, "PURGE", d)
      <3>1. PICK u \in Threads : Sends(u, "PURGE", d)
        BY <2>4
      <3>2. u # t
        BY <3>1, SendsRequest DEF Rests, Requesting
      <3>3. Sends(u, "PURGE", d)'
        BY <1>1, <3>1, <3>2, OtherSame
      <3> QED BY <1>2, <2>1, <3>3 DEF Underway
    <2>5. CASE \E u \in Threads : Finishing(u) /\ Has(u, "purge", d)
      <3>1. PICK u \in Threads : Finishing(u) /\ Has(u, "purge", d)
        BY <2>5
      <3>2. Finishing(u)'
        BY <1>1, <2>1, <3>1, OtherSame DEF Finishing
      <3> QED BY <1>2, <2>1, <3>2 DEF Underway
    <2> QED BY <2>2, <2>3, <2>4, <2>5 DEF Covered
  <1> QED BY <1>3, <1>4, <1>5

LEMMA InterruptedDeletes ==
  ASSUME Rests, Typed', ~mishap', NEW t \in Threads, Interrupted(t), Era, kb # None
  PROVE  Underway' /\ \A e \in rel' : Covered(e)'
  <1>1. /\ UNCHANGED <<kb, bindings, rel, snap>> /\ serving[t] # 0 /\ Enters(serving[t], "again")
        /\ \A i \in 1..Len(tasks) :
             tasks[i].doc = tasks[serving[t]].doc /\ tasks[i].kind # "ADD" => i = serving[t]
        /\ \A u \in Threads \ {t} : todo'[u] = todo[u] /\ serving'[u] = serving[u]
    BY InterruptedEnters DEF Rests
  <1>2. rel' \subseteq rel /\ rel \subseteq Docs /\ Len(tasks) \in Nat
    BY <1>1, RelDocs, Shape DEF Rests
  <1>3. ASSUME NEW e \in Docs, Effective(e) PROVE Underway' /\ (e \in rel' => Covered(e)')
    <2>1. PICK i \in 1..Len(tasks) : Effects(i, e)
      BY <1>3 DEF Effective
    <2>2. tasks[serving[t]].phase = "gone" /\ serving[t] \in 1..Len(tasks)
      BY <1>1, CallbackAhead DEF Rests
    <2>3. i # serving[t]
      BY <2>1, <2>2 DEF Effects
    <2>4. tasks[serving[t]].doc # e
      BY <1>1, <2>1, <2>3 DEF Effects
    <2>5. Effective(e)'
      BY <1>1, <1>2, <1>3, <2>4, EffectiveStays DEF Enters, Same, Rests
    <2> QED BY <2>5 DEF Underway, Covered
  <1>4. ASSUME NEW u \in Threads, NEW e \in Docs, Sends(u, "PURGE", e) PROVE Underway' /\ Covered(e)'
    <2>1. u # t
      BY <1>1, <1>4, SendsRequest DEF Rests, Requesting
    <2>2. Sends(u, "PURGE", e)'
      BY <1>1, <1>4, <2>1, OtherSame
    <2> QED BY <2>2 DEF Underway, Covered
  <1>5. ASSUME NEW u \in Threads, Finishing(u)
        PROVE  Underway' /\ \A e \in rel' : Has(u, "purge", e) => Covered(e)'
    <2>1. CASE u # t
      <3>1. Finishing(u)' /\ \A e : Has(u, "purge", e) => Has(u, "purge", e)'
        BY <1>1, <1>5, <2>1, OtherSame DEF Finishing
      <3> QED BY <3>1 DEF Underway, Covered
    <2>2. CASE u = t
      <3>1. tasks[serving[t]].kind = "PURGE"
        BY <1>1, <1>5, <2>2, CallbackAhead DEF Rests, Finishing
      <3> QED BY <1>1, <2>2, <3>1, AgainEffects
    <2> QED BY <2>1, <2>2
  <1> QED BY <1>2, <1>3, <1>4, <1>5, DeletingFrame

LEMMA DeletingStays ==
  ASSUME Rests, Typed', ~mishap', NEW t \in Threads, Acts(t)
  PROVE  Deleting'
  <1>1. CASE Transaction(t)
    BY <1>1, TransactionDeletes
  <1>2. CASE ~Transaction(t)
    <2> SUFFICES ASSUME Era', kb' # None PROVE Underway' /\ \A e \in rel' : Covered(e)'
      BY DEF Deleting
    <2>1. Era /\ kb # None
      BY EraBack
    <2> QED BY <1>2, <2>1, CallbackDeletes, InterruptedDeletes DEF Acts
  <1> QED BY <1>1, <1>2

LEMMA DeletingAsks ==
  ASSUME Rests, Typed', ~mishap', NEW t \in Threads, NEW ops \in Seq(FitOps), Asks(t, ops)
  PROVE  Deleting'
  <1>1. /\ todo'[t] = ops /\ tasks' = tasks /\ UNCHANGED <<kb, bindings, rel, snap>>
        /\ \A u \in Threads \ {t} : todo'[u] = todo[u] /\ serving'[u] = serving[u]
        /\ Free(t) /\ \A u \in Threads : ~Requesting(u)
        /\ \A u \in Threads : Requesting(u)' => u = t
        /\ (Requesting(t)' <=> ops # << >>) /\ ~mishap
    BY AsksShape DEF Rests
  <1> SUFFICES ASSUME Era', kb' # None PROVE Underway' /\ \A e \in rel' : Covered(e)'
    BY DEF Deleting
  <1>2. rel' \subseteq rel /\ rel \subseteq Docs /\ Len(tasks) \in Nat
    BY <1>1, RelDocs, Shape DEF Rests
  <1>3. CASE kb \in {"DELETING", "DELETED"}
    <2>1. Era /\ kb # None
      BY <1>3 DEF Era, None
    <2>2. ASSUME NEW e \in Docs, Effective(e) PROVE Underway' /\ (e \in rel' => Covered(e)')
      <3>1. Effective(e)'
        BY <1>1, <1>2, <2>2, EffectiveStays DEF Rests, Same
      <3> QED BY <3>1 DEF Underway, Covered
    <2>3. ASSUME NEW u \in Threads, NEW e \in Docs, Sends(u, "PURGE", e) PROVE Underway' /\ Covered(e)'
      BY <1>1, <2>3, SendsRequest DEF Rests
    <2>4. ASSUME NEW u \in Threads, Finishing(u)
          PROVE  Underway' /\ \A e \in rel' : Has(u, "purge", e) => Covered(e)'
      <3>1. u # t
        BY <1>1, <2>4 DEF Finishing
      <3>2. Finishing(u)' /\ \A e : Has(u, "purge", e) => Has(u, "purge", e)'
        BY <1>1, <2>4, <3>1, OtherSame DEF Finishing
      <3> QED BY <3>2 DEF Underway, Covered
    <2> QED BY <1>2, <2>1, <2>2, <2>3, <2>4, DeletingFrame
  <1>4. CASE kb \notin {"DELETING", "DELETED"}
    <2>1. ops # << >> /\ Last(ops) \in Ends
      BY <1>1, <1>4 DEF Era, Last
    <2>2. ~Free(t)' /\ Last(todo[t])' = Last(ops)
      BY <1>1, <2>1 DEF Free, Last
    <2>3. /\ Last(ops) = "finalize" =>
               \A d \in rel : \E i \in 1..Len(ops) : ops[i].do = "purge" /\ ops[i].doc = d
          /\ Last(ops) = "setDeleting" =>
               /\ \E i \in 1..Len(ops) : ops[i].do = "submit" /\ ops[i].kind = "PURGE"
               /\ \A d \in rel : \E i \in 1..Len(ops) :
                    ops[i].do = "submit" /\ ops[i].kind = "PURGE" /\ ops[i].doc = d
      BY <2>1 DEF Asks, Whole
    <2>4. CASE Last(ops) = "finalize"
      <3>1. Finishing(t)' /\ \A d \in rel : Has(t, "purge", d)'
        BY <1>1, <2>2, <2>3, <2>4 DEF Finishing, Has
      <3> QED BY <1>1, <3>1 DEF Underway, Covered
    <2>5. CASE Last(ops) = "setDeleting"
      <3>1. PICK i \in 1..Len(ops) : ops[i].do = "submit" /\ ops[i].kind = "PURGE"
        BY <2>3, <2>5
      <3>2. ops[i].doc \in Docs
        BY <3>1 DEF FitOps
      <3>3. Sends(t, "PURGE", ops[i].doc)'
        BY <1>1, <3>1 DEF Sends
      <3>4. Underway'
        <4>1. PICK d \in Docs : d = ops[i].doc
          BY <3>2
        <4>2. Sends(t, "PURGE", d)'
          BY <1>1, <3>1, <4>1 DEF Sends
        <4> QED BY <4>1, <4>2 DEF Underway
      <3>5. \A d \in rel : Sends(t, "PURGE", d)'
        BY <1>1, <2>3, <2>5 DEF Sends
      <3> QED BY <1>1, <3>4, <3>5 DEF Covered
    <2> QED BY <2>1, <2>4, <2>5 DEF Ends
  <1> QED BY <1>3, <1>4

\* The invariant, up to the first mishap.
Resting == mishap \/ Rests

LEMMA MishapLasts ==
  ASSUME Typed, [Next]_vars, ~mishap'
  PROVE  ~mishap
  <1>0. mishap \in BOOLEAN
    BY SameStore
  <1>1. ASSUME NEW t \in Threads, Request(t) PROVE ~mishap
    <2>1. PICK ops \in Seq(FitOps) : Asks(t, ops)
      BY <1>1, RequestAsks
    <2> QED BY <2>1 DEF Asks
  <1>2. ASSUME NEW t \in Threads, Transaction(t) PROVE ~mishap
    BY <1>0, <1>2 DEF Transaction, EnsureKb, BindAlgo, BindDoc, RemoveDoc, DropSnap, Submit,
       Cancel, Refuse, SetDeleting, Finalize, CountLeft, RemoveBinding, Calm, Mishap
  <1>3. ASSUME NEW t \in Threads, Interrupted(t) PROVE ~mishap
    BY <1>3, InterruptedEnters
  <1>4. ASSUME NEW t \in Threads, NEW id \in 1..Len(tasks), Callback(t, id) PROVE ~mishap
    BY <1>4 DEF Callback, Started, Finished, Calm, Mishap
  <1>5. CASE Crash
    BY <1>5 DEF Crash, Mishap
  <1>6. CASE UNCHANGED vars
    BY <1>6 DEF vars
  <1> QED BY <1>1, <1>2, <1>3, <1>4, <1>5, <1>6 DEF Next

LEMMA StutterRests ==
  ASSUME Rests, Typed', Sorted', OneRequest', ~mishap', \A d \in Docs : Settled(d)', UNCHANGED vars
  PROVE  Rests'
  <1>1. /\ UNCHANGED <<kb, bindings, rel, snap, tasks, todo, serving, mishap>>
        /\ \A u \in Threads : todo'[u] = todo[u] /\ serving'[u] = serving[u]
    BY DEF vars, store
  <1>2. Doomed' <=> Doomed
    BY <1>1 DEF Doomed
  <1>3. \A u \in Threads : /\ Requesting(u)' <=> Requesting(u)
                           /\ Free(u)' <=> Free(u)
                           /\ Last(todo[u])' = Last(todo[u])
                           /\ \A step, d : Has(u, step, d)' <=> Has(u, step, d)
                           /\ \A kind, d : Sends(u, kind, d)' <=> Sends(u, kind, d)
                           /\ Finishing(u)' <=> Finishing(u)
    BY <1>1, OtherSame DEF Finishing
  <1>4. \A d : Effective(d)' <=> Effective(d)
    BY <1>1 DEF Effective, Effects
  <1>5. \A i \in 1..Len(tasks) : Running(i)' <=> Running(i)
    BY <1>1 DEF Running
  <1>6. Era' <=> Era
    BY <1>1, <1>3 DEF Era
  <1>7. NoDoom' /\ DoomedEra'
    BY <1>1, <1>2, <1>3, <1>6 DEF Rests, NoDoom, DoomedEra
  <1>8. Void' /\ There' /\ Order'
    BY <1>1, <1>3, <1>5 DEF Rests, Void, There, Order
  <1>9. Purging' /\ Dropped' /\ PurgesAll'
    BY <1>1, <1>3 DEF Rests, Purging, Dropped, PurgesAll
  <1>10. Deleting'
    BY <1>1, <1>3, <1>4, <1>6 DEF Rests, Deleting, Underway, Covered
  <1> QED BY <1>7, <1>8, <1>9, <1>10 DEF Rests

LEMMA NextRests ==
  ASSUME Typed, Sorted, Kept, AllSettled, Resting, [Next]_vars
  PROVE  Resting'
  <1> SUFFICES ASSUME ~mishap' PROVE Rests'
    BY DEF Resting
  <1>1. Typed' /\ Sorted' /\ OneRequest'
    BY NextTyped, NextSorted, NextKeeps DEF Kept
  <1>2. ~mishap /\ Rests
    BY MishapLasts DEF Resting
  <1>3. \A d \in Docs : Settled(d)'
    <2>1. AllSettled'
      BY NextSettled DEF Kept
    <2> QED BY <2>1 DEF AllSettled
  <1>4. ASSUME NEW t \in Threads, Acts(t) PROVE Rests'
    <2>1. NoDoom' /\ Void' /\ There' /\ Order' /\ DoomedEra'
      BY <1>1, <1>2, <1>4, NoDoomStays, VoidStays, ThereStays, OrderStays, DoomedEraStays
    <2>2. Purging' /\ Dropped' /\ PurgesAll' /\ Deleting'
      BY <1>1, <1>2, <1>4, PurgingStays, DroppedStays, PurgesAllStays, DeletingStays
    <2> QED BY <1>1, <1>3, <2>1, <2>2 DEF Rests
  <1>5. ASSUME NEW t \in Threads, Request(t) PROVE Rests'
    <2>1. PICK ops \in Seq(FitOps) : Asks(t, ops)
      BY <1>5, RequestAsks
    <2>2. NoDoom' /\ Void' /\ There' /\ Order' /\ DoomedEra'
      BY <1>1, <1>2, <2>1, NoDoomAsks, VoidStays, ThereAsks, OrderStays, DoomedEraAsks
    <2>3. Purging' /\ Dropped' /\ PurgesAll' /\ Deleting'
      BY <1>1, <1>2, <2>1, PurgingStays, DroppedStays, PurgesAllAsks, DeletingAsks
    <2> QED BY <1>1, <1>3, <2>2, <2>3 DEF Rests
  <1>6. CASE Crash
    BY <1>6 DEF Crash, Mishap
  <1>7. CASE UNCHANGED vars
    BY <1>1, <1>2, <1>3, <1>7, StutterRests
  <1> QED BY <1>4, <1>5, <1>6, <1>7 DEF Next, Acts

LEMMA InitRests == ASSUME Init PROVE Resting
  <1>1. /\ \A t \in Threads : todo[t] = << >> /\ serving[t] = 0
        /\ tasks = << >> /\ Len(tasks) = 0 /\ kb = "ACTIVE" /\ ~mishap
    BY DEF Init
  <1>2. Typed /\ Sorted /\ OneRequest /\ \A d \in Docs : Settled(d)
    BY <1>1, InitTyped, InitSorted, InitKeeps, InitSettled DEF Kept, AllSettled
  <1>3. ~Doomed /\ \A t \in Threads : ~Requesting(t)
    BY <1>1, <1>2, DoomedIs DEF Requesting, Free
  <1>4. NoDoom /\ Void /\ There /\ Order /\ DoomedEra
    BY <1>1, <1>3 DEF NoDoom, Void, There, Order, DoomedEra, None
  <1>5. Purging /\ Dropped /\ PurgesAll
    BY <1>1, <1>3 DEF Purging, Dropped, PurgesAll, Has
  <1>6. Deleting
    BY <1>1, <1>3 DEF Deleting, Era
  <1> QED BY <1>1, <1>2, <1>4, <1>5, <1>6 DEF Resting, Rests

LEMMA RestsAtRest ==
  ASSUME Rests
  PROVE  AtRest
  <1> SUFFICES ASSUME Quiet PROVE /\ kb \in {None, "ACTIVE"}
                                  /\ kb = None => /\ rel = {} /\ bindings = {}
                                                  /\ \A d \in Docs : snap[d].status \in {None, "DELETED"}
                                  /\ \A d \in Docs : snap[d].status \notin {None, "DELETED"} => d \in rel
    BY DEF AtRest, NothingLeft, SnapHasRel
  <1>1. /\ \A t \in Threads : Free(t) /\ todo[t] = << >> /\ Len(todo[t]) = 0
        /\ \A i \in 1..Len(tasks) : tasks[i].phase \in Over
    BY Shape DEF Quiet, Over, Free, Rests
  <1>2. ~Underway
    <2>1. \A t \in Threads : ~Finishing(t) /\ \A d : ~Sends(t, "PURGE", d)
      BY <1>1 DEF Finishing, Sends
    <2>2. \A d \in Docs : ~Effective(d)
      BY <1>1 DEF Effective, Effects, Over
    <2> QED BY <2>1, <2>2 DEF Underway
  <1>3. kb \in {None, "ACTIVE"}
    <2>1. kb \in {None, "ACTIVE", "DELETING", "DELETED"}
      BY SameStore DEF Rests
    <2>2. ~(Era /\ kb # None)
      BY <1>2 DEF Rests, Deleting
    <2> QED BY <2>1, <2>2 DEF Era, None
  <1>4. ASSUME NEW d \in Docs, snap[d].status \notin {None, "DELETED"} PROVE d \in rel
    <2>1. snap[d].status \in SnapStatuses /\ snap[d].task \in 0..Len(tasks) /\ Len(tasks) \in Nat
      <3>1. snap[d] \in SnapRec /\ snap[d].task <= Len(tasks) /\ Len(tasks) \in Nat
        BY Shape DEF Rests, Typed, Named
      <3>2. snap[d].task \in Nat
        BY <3>1 DEF SnapRec
      <3> QED BY <3>1, <3>2 DEF SnapRec
    <2>2. SnapFits(d) /\ Lives(d)
      BY DEF Rests, Settled
    <2>3. snap[d].status # "DELETING"
      <3> SUFFICES ASSUME snap[d].status = "DELETING" PROVE FALSE
        OBVIOUS
      <3>1. snap[d].task \in 1..Len(tasks) /\ tasks[snap[d].task].phase \in {"queued", "working"}
        BY <2>1, <2>2 DEF SnapFits
      <3> QED BY <1>1, <3>1 DEF Over
    <2>4. snap[d].status \in Alive
      BY <1>4, <2>1, <2>2, <2>3 DEF SnapStatuses, SnapFits, Alive
    <2> QED BY <1>1, <2>2, <2>4 DEF Lives, Dropping, Requesting
  <1> QED BY <1>3, <1>4 DEF Rests, Void

\* AtRest: when no request and no task is on its way the knowledge base is there or
\* gone with its bindings and documents, and a document that was not deleted is in it
\* (delete_kb, unbind_algo, upload and on_task_callback in doc_manager.py).
THEOREM KnowledgeBaseAtRest == Spec => []AtRest
  <1>1. Resting => AtRest
    BY RestsAtRest DEF Resting, AtRest, NothingLeft, SnapHasRel
  <1>2. Init => Typed /\ Sorted /\ Kept /\ AllSettled /\ Resting
    BY InitTyped, InitSorted, InitKeeps, InitSettled, InitRests
  <1>3. Typed /\ Sorted /\ Kept /\ AllSettled /\ Resting /\ [Next]_vars =>
          Typed' /\ Sorted' /\ Kept' /\ AllSettled' /\ Resting'
    BY NextTyped, NextSorted, NextKeeps, NextSettled, NextRests DEF Kept
  <1> QED BY <1>1, <1>2, <1>3, PTL DEF Spec
=============================================================================

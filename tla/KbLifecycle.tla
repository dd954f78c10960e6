------------------------------ MODULE KbLifecycle ------------------------------
(***************************************************************************)
(* A knowledge base between its creation and its deletion                  *)
(* (lazyllm/tools/rag/doc_service/doc_manager.py): its row, its algorithm  *)
(* bindings, its documents and their snapshots.  delete_kb and unbind_algo *)
(* submit one delete task per document and leave the rest to the callbacks *)
(* of these tasks: the last one removes the row, or the binding.           *)
(*                                                                         *)
(* A request or callback is a sequence of transactions, one step each, that *)
(* others may come between.  The check of a callback and its writes to     *)
(* record and snapshot are one step here, a submission is one step: both   *)
(* are opened in DocLifecycle.  The parsing service is the phase of each   *)
(* task.  There is one knowledge base, that may be created anew.           *)
(***************************************************************************)
EXTENDS Integers, Sequences, FiniteSets

CONSTANTS
  Docs, Algos,
  First,        \* the documents and algorithms there at the beginning: create_kb binds one
  Threads,      \* request threads of the document server
  Overlap,      \* whether requests may come while another is on its way
  MaxRequests,  \* bound: requests
  MaxTasks,     \* bound: tasks
  MaxFaults     \* bound: tasks that fail, submissions refused, errors, crashes

None == "NONE"

ASSUME KbAssumption ==
  /\ None \notin Docs /\ None \notin Algos /\ IsFiniteSet(Docs) /\ IsFiniteSet(Algos)
  /\ First \subseteq [docs : SUBSET Docs, algos : (SUBSET Algos) \ {{}}]
  /\ Overlap \in BOOLEAN
  /\ MaxRequests \in Nat /\ MaxTasks \in Nat /\ MaxFaults \in Nat

VARIABLES
  kb,        \* status of the knowledge base's row, or None
  count,     \* doc_count of that row
  bindings,  \* its algorithms
  rel,       \* its documents
  snap,      \* per document: status and current task of its snapshot
  tasks,     \* the tasks: document, kind, algorithm, phase in the parsing service
  todo,      \* per thread: the transactions that its handler has still to make
  serving,   \* per thread: the task whose callback it handles, or 0
  mishap,    \* history: a request was admitted while another was on its way, a document
             \* uploaded while its deletion or that of the knowledge base was; the snapshot
             \* of a newer task dropped; a task failed or was refused, a request broke
             \* off, the process died
  stray,     \* history: a document was added when there was no row
  raced,     \* history: an algorithm was bound or unbound while an unbinding was on its way
  requests, faults

store == <<kb, count, bindings, rel>>
vars == <<store, snap, tasks, todo, serving, mishap, stray, raced, requests, faults>>

Kinds == {"ADD", "DELETE", "PURGE", "UNBIND"}  \* a delete task's cleanup policy is its kind
Steps == {"ensureKb", "bindAlgo", "bindDoc", "submit", "cancel", "refuse", "removeDoc", "purge",
          "dropSnap", "setDeleting", "finalize", "countLeft", "removeBinding"}
Op == [do : Steps, doc : Docs \cup {None}, algo : Algos \cup {None}, kind : Kinds \cup {None}]
Do(step) == [do |-> step, doc |-> None, algo |-> None, kind |-> None]
DoDoc(step, d) == [Do(step) EXCEPT !.doc = d]
DoAlgo(step, a) == [Do(step) EXCEPT !.algo = a]
DoSubmit(kind, d, a) == [do |-> "submit", doc |-> d, algo |-> a, kind |-> kind]

NoSnap == [status |-> None, task |-> 0]

TypeOK ==
  /\ kb \in {None, "ACTIVE", "DELETING", "DELETED"}
  /\ count \in 0..Cardinality(Docs)
  /\ bindings \subseteq Algos /\ rel \subseteq Docs
  /\ snap \in [Docs -> [status : {None, "WAITING", "WORKING", "DELETING", "SUCCESS", "FAILED",
                                  "CANCELED", "DELETED"}, task : 0..MaxTasks]]
  /\ tasks \in Seq([doc : Docs, kind : Kinds, algo : Algos \cup {None},
                    phase : {"queued", "working", "again", "canceled", "gone"}])
  /\ todo \in [Threads -> Seq(Op)]
  /\ serving \in [Threads -> 0..MaxTasks]
  /\ mishap \in BOOLEAN /\ stray \in BOOLEAN /\ raced \in BOOLEAN
  /\ requests \in 0..MaxRequests /\ faults \in 0..MaxFaults

\* The default knowledge base, or one created before; of its documents only those
\* that are parsed, by tasks that are forgotten here (0).
Init ==
  /\ kb = "ACTIVE"
  /\ \E first \in First : rel = first.docs /\ bindings = first.algos
  /\ count = Cardinality(rel)
  /\ snap = [d \in Docs |-> [status |-> IF d \in rel THEN "SUCCESS" ELSE None, task |-> 0]]
  /\ tasks = << >>
  /\ todo = [t \in Threads |-> << >>] /\ serving = [t \in Threads |-> 0]
  /\ mishap = FALSE /\ stray = FALSE /\ raced = FALSE /\ requests = 0 /\ faults = 0

Fault == faults < MaxFaults /\ faults' = faults + 1
Mishap == Fault /\ mishap' = TRUE
Calm == UNCHANGED <<mishap, faults>>

-----------------------------------------------------------------------------
(* Requests: what a handler checks first, and the transactions that follow. *)

Free(t) == todo[t] = << >>
Requesting(t) == ~Free(t) /\ serving[t] = 0

\* The tasks that handlers on their way may still submit (they count for the bound).
Planned ==
  {p \in Threads \X (1..MaxTasks + 1) : p[2] \in DOMAIN todo[p[1]] /\ todo[p[1]][p[2]].kind # None}

Meanwhile == \E t \in Threads : Requesting(t)

Unbinds(op) == op.kind = "UNBIND" \/ op.do \in {"countLeft", "removeBinding"}
Unbinding ==
  \/ \E i \in DOMAIN tasks : tasks[i].kind = "UNBIND" /\ tasks[i].phase \notin {"canceled", "gone"}
  \/ \E t \in Threads : \E i \in DOMAIN todo[t] : Unbinds(todo[t][i])

Admit(t, ops) ==
  /\ Free(t) /\ (Meanwhile => Overlap)
  /\ requests < MaxRequests /\ requests' = requests + 1
  /\ Len(tasks) + Cardinality(Planned)
       + Cardinality({i \in DOMAIN ops : ops[i].kind # None}) <= MaxTasks
  /\ todo' = [todo EXCEPT ![t] = ops]
  /\ serving' = [serving EXCEPT ![t] = 0]
  /\ raced' = (raced \/ (Unbinding /\ \E i \in DOMAIN ops : Unbinds(ops[i]) \/ ops[i].do = "bindAlgo"))
  /\ UNCHANGED <<store, snap, tasks, stray, faults>>
Polite == mishap' = (mishap \/ Meanwhile)

\* A deletion of the knowledge base, begun before, may still remove the row.
Doomed ==
  \/ \E t \in Threads : \E i \in DOMAIN todo[t] : todo[t][i].do = "finalize"
  \/ \E i \in DOMAIN tasks : tasks[i].kind = "PURGE" /\ tasks[i].phase # "gone"

\* The orders in which a handler may go through the documents that a query finds, and
\* for each of them through the algorithms.
Orders(ops) ==
  {q \in [1..Cardinality(ops) -> ops] :
     /\ \A i, j \in DOMAIN q : q[i] = q[j] => i = j
     /\ \A i, j, k \in DOMAIN q : i < j /\ j < k /\ q[i].doc = q[k].doc => q[j].doc = q[i].doc}

Create(t, a) ==
  /\ kb = None /\ mishap' = (mishap \/ Meanwhile \/ Doomed)
  /\ Admit(t, <<Do("ensureKb"), DoAlgo("bindAlgo", a)>>)

Update(t, a) ==
  /\ kb # None /\ mishap' = (mishap \/ Meanwhile \/ Doomed)
  /\ Admit(t, (IF a = None THEN << >> ELSE <<DoAlgo("bindAlgo", a)>>) \o <<Do("ensureKb")>>)

\* A deletion of the document is on its way, or its callback: with no snapshot to tell
\* that it is stale it would take out a document that is uploaded now.
Touched(d) ==
  \E i \in DOMAIN tasks : tasks[i].doc = d /\ tasks[i].kind = "DELETE" /\
    (tasks[i].phase \notin {"canceled", "gone"} \/ \E t \in Threads : serving[t] = i)

\* A bound document without a snapshot counts as uploaded.
Upload(t, d) ==
  /\ bindings # {}
  /\ d \in rel => snap[d].status \in {"FAILED", "CANCELED", "DELETED"}
  /\ mishap' = (mishap \/ Meanwhile \/ Doomed \/ Touched(d))
  /\ Admit(t, <<DoDoc("bindDoc", d), DoSubmit("ADD", d, None)>>)

WaitsToBeAdded(d) == snap[d].status = "WAITING"

\* _prepare_delete_items, _check_doc_for_delete: of a document that waits to be
\* added the task is canceled and the data are purged.
Delete(t, d) ==
  /\ bindings # {} /\ d \in rel /\ snap[d].status \notin {"DELETING", "DELETED", "WORKING"}
  /\ Polite
  /\ Admit(t, IF WaitsToBeAdded(d) THEN <<DoDoc("cancel", d)>> ELSE <<DoSubmit("DELETE", d, None)>>)

\* Seeded: the row goes at once when some document needs no task.
DeleteKbTail_Any(items) ==
  IF \E i \in items : i.do = "purge" THEN Do("finalize") ELSE Do("setDeleting")

DeleteKbTail(items) ==
  IF \E i \in items : i.do = "submit" THEN Do("setDeleting") ELSE Do("finalize")

\* One task per document and algorithm; a document with nothing parsed is purged
\* here and now.  No document may be on its way to be added.
DeleteKb(t) ==
  LET clean == {d \in rel : snap[d].status \in {None, "DELETED"}}
      items == {DoDoc("purge", d) : d \in clean}
               \cup {DoSubmit("PURGE", p[1], p[2]) : p \in (rel \ clean) \X bindings}
  IN
  /\ kb # None /\ bindings # {}
  /\ \A d \in rel : snap[d].status \notin {"WAITING", "WORKING"}
  \* a document purged here after the last callback is not followed by a "finalize"
  /\ mishap' = (mishap \/ Meanwhile \/ clean \notin {{}, rel})
  /\ \E q \in Orders(items) : Admit(t, Append(q, DeleteKbTail(items)))

\* The snapshots are read here.  A document that is worked on ends the request
\* when its turn comes.
UnbindOp(d, a) ==
  CASE snap[d].status = "WORKING" -> Do("refuse")
    [] WaitsToBeAdded(d) -> [DoSubmit("UNBIND", d, a) EXCEPT !.do = "cancel"]
    [] OTHER -> DoSubmit("UNBIND", d, a)

\* Seeded: the last algorithm may go.
Unbind_Last(t, a) ==
  LET affected == {d \in rel : snap[d].status \notin {None, "DELETED", "DELETING"}} IN
  /\ kb = "ACTIVE" /\ a \in bindings
  /\ Polite
  /\ \/ affected = {} /\ Admit(t, <<DoAlgo("removeBinding", a)>>)
     \/ affected # {} /\ \E q \in Orders({UnbindOp(d, a) : d \in affected}) : Admit(t, q)

Unbind(t, a) ==
  LET affected == {d \in rel : snap[d].status \notin {None, "DELETED", "DELETING"}} IN
  /\ kb = "ACTIVE" /\ a \in bindings /\ Cardinality(bindings) > 1
  /\ Polite
  /\ \/ affected = {} /\ Admit(t, <<DoAlgo("removeBinding", a)>>)
     \/ affected # {} /\ \E q \in Orders({UnbindOp(d, a) : d \in affected}) : Admit(t, q)

-----------------------------------------------------------------------------
(* The transactions.                                                       *)

Op1(t) == Head(todo[t])
Does(t, step) == ~Free(t) /\ Op1(t).do = step

\* What a transaction is followed by, before the rest of the handler.
After(op) ==
  CASE op.do = "purge" -> <<DoDoc("dropSnap", op.doc)>>
    [] op.do = "cancel" /\ op.kind = None -> <<DoDoc("purge", op.doc)>>
    [] op.do = "cancel" /\ op.kind # None -> <<[op EXCEPT !.do = "submit"]>>
    [] OTHER -> << >>

Continue(t, ops) ==
  /\ todo' = [todo EXCEPT ![t] = ops]
  /\ serving' = [serving EXCEPT ![t] = IF ops = << >> THEN 0 ELSE @]
Done(t) == Continue(t, After(Op1(t)) \o Tail(todo[t]))
Drop(t) == Continue(t, << >>)

\* _ensure_kb: a new row, or one that was deleted is active again.
EnsureKb(t) ==
  /\ Does(t, "ensureKb") /\ Done(t)
  /\ kb' = IF kb \in {None, "DELETED"} THEN "ACTIVE" ELSE kb
  /\ count' = IF kb = None THEN 0 ELSE count
  /\ UNCHANGED <<bindings, rel, snap, tasks, mishap, stray, raced, requests, faults>>

BindAlgo(t) ==
  /\ Does(t, "bindAlgo") /\ Done(t)
  /\ bindings' = bindings \cup {Op1(t).algo}
  /\ UNCHANGED <<kb, count, rel, snap, tasks, mishap, stray, raced, requests, faults>>

\* Seeded: the number is counted up instead of read.
Refresh_Adds(docs) ==
  /\ count' = IF kb = None THEN count ELSE count + 1
  /\ kb' = IF kb = "DELETING" /\ docs = {} THEN "DELETED" ELSE kb

\* Seeded: the documents are counted before the change.
Refresh_Before(docs) ==
  /\ count' = IF kb = None THEN count ELSE Cardinality(rel)
  /\ kb' = IF kb = "DELETING" /\ docs = {} THEN "DELETED" ELSE kb

\* _refresh_kb_doc_count, in the transaction that adds or removes a document.
Refresh(docs) ==
  /\ count' = IF kb = None THEN count ELSE Cardinality(docs)
  /\ kb' = IF kb = "DELETING" /\ docs = {} THEN "DELETED" ELSE kb

BindDoc(t) ==
  /\ Does(t, "bindDoc") /\ Done(t)
  /\ rel' = rel \cup {Op1(t).doc}
  /\ IF rel' # rel THEN Refresh(rel') ELSE UNCHANGED <<kb, count>>
  /\ stray' = (stray \/ kb = None)
  /\ UNCHANGED <<bindings, snap, tasks, mishap, raced, requests, faults>>

RemoveDoc(t) ==
  /\ Does(t, "removeDoc") \/ Does(t, "purge")
  /\ Done(t)
  /\ rel' = rel \ {Op1(t).doc}
  /\ IF rel' # rel THEN Refresh(rel') ELSE UNCHANGED <<kb, count>>
  /\ UNCHANGED <<bindings, snap, tasks, mishap, stray, raced, requests, faults>>

\* By document, whatever task is in it: an unbinding's callback may come after a newer one.
DropSnap(t) ==
  LET id == serving[t] IN
  /\ Does(t, "dropSnap") /\ Done(t)
  /\ mishap' = (mishap \/ (id # 0 /\ tasks[id].kind = "UNBIND" /\ snap[Op1(t).doc].task > id))
  /\ snap' = [snap EXCEPT ![Op1(t).doc] = NoSnap]
  /\ UNCHANGED <<store, tasks, stray, raced, requests, faults>>

\* _enqueue_task; when the parsing service refuses, the handler ends there.
Submit(t) ==
  LET op == Op1(t)
      id == Len(tasks) + 1
      Enter(status, phase) ==
        /\ tasks' = Append(tasks, [doc |-> op.doc, kind |-> op.kind, algo |-> op.algo, phase |-> phase])
        /\ snap' = [snap EXCEPT ![op.doc] = [status |-> status, task |-> id]]
  IN
  /\ Does(t, "submit") /\ id <= MaxTasks
  /\ \/ Enter(IF op.kind = "ADD" THEN "WAITING" ELSE "DELETING", "queued") /\ Done(t) /\ Calm
     \/ Enter("FAILED", "gone") /\ Drop(t) /\ Mishap
  /\ UNCHANGED <<store, stray, raced, requests>>

\* cancel_task and its callback, of the task in the snapshot; a task that a worker
\* has taken ends the request.
Cancel(t) ==
  LET d == Op1(t).doc
      id == snap[d].task IN
  /\ Does(t, "cancel")
  /\ IF id # 0 /\ tasks[id].phase = "queued"
     THEN /\ tasks' = [tasks EXCEPT ![id].phase = "canceled"]
          /\ snap' = [snap EXCEPT ![d].status = "CANCELED"]
          /\ Done(t)
     ELSE Drop(t) /\ UNCHANGED <<tasks, snap>>
  /\ UNCHANGED <<store, mishap, stray, raced, requests, faults>>

Refuse(t) ==
  /\ Does(t, "refuse") /\ Drop(t)
  /\ UNCHANGED <<store, snap, tasks, mishap, stray, raced, requests, faults>>

SetDeleting(t) ==
  /\ Does(t, "setDeleting") /\ Done(t)
  /\ kb' = IF kb = None THEN None ELSE "DELETING"
  /\ UNCHANGED <<count, bindings, rel, snap, tasks, mishap, stray, raced, requests, faults>>

\* _finalize_kb_deletion_if_empty.
Finalize(t) ==
  /\ Does(t, "finalize") /\ Done(t)
  /\ IF rel = {} THEN kb' = None /\ bindings' = {} /\ count' = 0
                 ELSE UNCHANGED <<kb, bindings, count>>
  /\ UNCHANGED <<rel, snap, tasks, mishap, stray, raced, requests, faults>>

\* The binding goes with the last snapshot.
CountLeft(t) ==
  /\ Does(t, "countLeft")
  /\ Continue(t, IF \A d \in Docs : snap[d].status \in {None, "DELETED"}
                 THEN <<DoAlgo("removeBinding", Op1(t).algo)>> ELSE << >>)
  /\ UNCHANGED <<store, snap, tasks, mishap, stray, raced, requests, faults>>

RemoveBinding(t) ==
  /\ Does(t, "removeBinding") /\ Done(t)
  /\ bindings' = bindings \ {Op1(t).algo}
  /\ UNCHANGED <<kb, count, rel, snap, tasks, mishap, stray, raced, requests, faults>>

Transaction(t) ==
  \/ EnsureKb(t) \/ BindAlgo(t) \/ BindDoc(t) \/ RemoveDoc(t) \/ DropSnap(t) \/ Submit(t)
  \/ Cancel(t) \/ Refuse(t) \/ SetDeleting(t) \/ Finalize(t) \/ CountLeft(t) \/ RemoveBinding(t)

-----------------------------------------------------------------------------
(* Callbacks.                                                              *)

\* The snapshot belongs to another task.
Stale(id) == snap[tasks[id].doc].task \notin {0, id}

SetSnap(id, status) == snap' = [snap EXCEPT ![tasks[id].doc] = [status |-> status, task |-> id]]

Started(id) ==
  /\ tasks[id].phase = "queued"
  /\ tasks' = [tasks EXCEPT ![id].phase = "working"]
  /\ IF Stale(id) THEN UNCHANGED snap
     ELSE SetSnap(id, IF tasks[id].kind = "ADD" THEN "WORKING" ELSE "DELETING")
  /\ UNCHANGED <<store, todo, serving, mishap, stray, raced, requests, faults>>

\* Seeded: the documents are counted before this one is removed.
Cleanup_CountFirst(id) ==
  LET d == tasks[id].doc IN
  CASE tasks[id].kind = "ADD" -> << >>
    [] tasks[id].kind = "DELETE" -> <<DoDoc("removeDoc", d)>>
    [] tasks[id].kind = "PURGE" -> <<Do("finalize"), DoDoc("purge", d)>>
    [] tasks[id].kind = "UNBIND" -> <<DoDoc("dropSnap", d), DoAlgo("countLeft", tasks[id].algo)>>

\* What the callback of a task that has succeeded does after record and snapshot.
Cleanup(id) ==
  LET d == tasks[id].doc IN
  CASE tasks[id].kind = "ADD" -> << >>
    [] tasks[id].kind = "DELETE" -> <<DoDoc("removeDoc", d)>>
    [] tasks[id].kind = "PURGE" -> <<DoDoc("purge", d), Do("finalize")>>
    [] tasks[id].kind = "UNBIND" -> <<DoDoc("dropSnap", d), DoAlgo("countLeft", tasks[id].algo)>>

Finished(t, id) ==
  /\ Free(t) /\ tasks[id].phase \in {"working", "again"}
  /\ tasks' = [tasks EXCEPT ![id].phase = "gone"]
  /\ \/ /\ Calm
        /\ IF Stale(id) THEN UNCHANGED <<snap, todo, serving>>
           ELSE /\ SetSnap(id, IF tasks[id].kind = "ADD" THEN "SUCCESS" ELSE "DELETED")
                /\ todo' = [todo EXCEPT ![t] = Cleanup(id)]
                /\ serving' = [serving EXCEPT ![t] = IF tasks[id].kind = "ADD" THEN 0 ELSE id]
     \/ /\ tasks[id].phase = "working" /\ Mishap
        /\ IF Stale(id) THEN UNCHANGED snap ELSE SetSnap(id, "FAILED")
        /\ UNCHANGED <<todo, serving>>
  /\ UNCHANGED <<store, stray, raced, requests>>

\* An error of the database ends a handler.  A callback is delivered again: as a stale
\* one if the callback of a task that it superseded has come in between.
Interrupted(t) ==
  LET id == serving[t]
      others == {i \in DOMAIN tasks \ {id} : tasks[i].doc = tasks[id].doc /\ tasks[i].kind # "ADD"} IN
  /\ ~Free(t) /\ Drop(t)
  /\ \/ id = 0 /\ Mishap /\ UNCHANGED tasks
     \/ /\ id # 0 /\ Fault
        /\ mishap' = (mishap \/ others # {})
        /\ tasks' = [tasks EXCEPT ![id].phase = "again"]
  /\ UNCHANGED <<store, snap, stray, raced, requests>>

\* The process dies.  A callback that was recorded is not handled again.
Crash ==
  /\ \E t \in Threads : ~Free(t)
  /\ Mishap /\ todo' = [t \in Threads |-> << >>] /\ serving' = [t \in Threads |-> 0]
  /\ UNCHANGED <<store, snap, tasks, stray, raced, requests>>

-----------------------------------------------------------------------------
Request(t) ==
  \/ \E a \in Algos : Create(t, a) \/ Unbind(t, a)
  \/ \E a \in Algos \cup {None} : Update(t, a)
  \/ \E d \in Docs : Upload(t, d) \/ Delete(t, d)
  \/ DeleteKb(t)

Callback(t, id) == Started(id) \/ Finished(t, id)

Next ==
  \/ \E t \in Threads : Request(t) \/ Transaction(t) \/ Interrupted(t)
  \/ \E t \in Threads, id \in 1..Len(tasks) : Callback(t, id)
  \/ Crash

Spec == Init /\ [][Next]_vars

\* Handlers run on, and every task is worked on and reported in the end.
FairSpec ==
  /\ Spec
  /\ \A t \in Threads : WF_vars(Transaction(t))
  /\ WF_vars(\E t \in Threads, id \in 1..Len(tasks) : Callback(t, id))

-----------------------------------------------------------------------------
Quiet ==
  /\ \A t \in Threads : Free(t)
  /\ \A i \in DOMAIN tasks : tasks[i].phase \in {"canceled", "gone"}

\* doc_count is the number of documents, unless one was added when there was no row.
CountTrue == kb # None /\ ~stray => count = Cardinality(rel)

\* When all is quiet the knowledge base is not half deleted, and of one that is gone
\* no binding, document or snapshot is left (delete_kb, _finalize_kb_deletion_if_empty).
NothingLeft ==
  Quiet /\ ~mishap =>
    /\ kb \in {None, "ACTIVE"}
    /\ kb = None => rel = {} /\ bindings = {} /\ \A d \in Docs : snap[d].status \in {None, "DELETED"}

\* A document that was not deleted is in the knowledge base: no late callback takes
\* it out, none brings it back.
SnapHasRel ==
  Quiet /\ ~mishap => \A d \in Docs : snap[d].status \notin {None, "DELETED"} => d \in rel

\* The knowledge base at rest (delete_kb, upload, on_task_callback): its row, bindings,
\* documents and snapshots agree, whatever came between the transactions.
AtRest == NothingLeft /\ SnapHasRel

\* A deletion that has begun comes to an end.
DeletionEnds == kb = "DELETING" ~> kb # "DELETING" \/ mishap

\* A knowledge base keeps an algorithm: unbind_algo counts the bindings, that may be
\* removed by a callback much later: it holds only if none is bound or unbound meanwhile.
Bound == Quiet /\ kb = "ACTIVE" /\ ~mishap /\ ~raced => bindings # {}
=============================================================================

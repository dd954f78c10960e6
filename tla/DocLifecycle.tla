----------------------------- MODULE DocLifecycle -----------------------------
(***************************************************************************)
(* The life of one document in the document service                        *)
(* (lazyllm/tools/rag/doc_service/doc_manager.py): its row, its relations  *)
(* to knowledge bases, its parse snapshot in each of them and the task     *)
(* records, as upload, reparse, delete, patch_metadata, cancel_task and    *)
(* on_task_callback write them.                                            *)
(*                                                                         *)
(* A request runs in a thread.  It reads first and then performs a list of *)
(* operations, each a database transaction or a call of the parsing        *)
(* service, between which other threads run.  The parsing service is       *)
(* reduced to what it promises: ParseTaskQueue says how a task ends,       *)
(* CallbackDelivery how its callbacks arrive.                              *)
(***************************************************************************)
EXTENDS Integers, Sequences, FiniteSets

CONSTANTS
  Kbs,         \* knowledge bases the document may be put into
  Threads,     \* request threads of the document service
  Algos,       \* number of algorithms bound to a knowledge base
  MaxTasks,    \* bound: task ids that requests may draw
  MaxTroubles  \* bound: calls that fail, late callbacks, crashes

None == "NONE"  \* no row

ASSUME LifecycleAssumption ==
  /\ None \notin Kbs
  /\ Algos \in Nat \ {0}
  /\ MaxTasks \in Nat /\ MaxTroubles \in Nat

Types == {"ADD", "REPARSE", "META", "DELETE"}
Settled == {"SUCCESS", "FAILED", "CANCELED", "DELETED"}
Statuses == Settled \cup {"WAITING", "WORKING", "DELETING"}
Ids == 1..MaxTasks

Callback == [task : Ids, status : {"WORKING", "SUCCESS", "FAILED", "CANCELED"}]
NoSnap == [status |-> None, task |-> 0, type |-> None]

VARIABLES
  upload,    \* documents.upload_status, or None
  bound,     \* the relation kb_documents
  snap,      \* the parse snapshot of the document in each knowledge base
  tasks,     \* the task records; the position is the task id
  stage,     \* what the parsing service did with each task
  nodes,     \* knowledge bases in whose store the document has nodes
  outbox,    \* callbacks that the parsing service has still to post
  job,       \* what each thread serves and the operations it has ahead
  asked,     \* task ids drawn or to be drawn by accepted requests
  hurt,      \* history: tasks that a trouble befell
  troubles

rows == <<upload, bound, snap, tasks>>
parser == <<stage, nodes, outbox>>
mishaps == <<hurt, troubles>>
vars == <<upload, bound, snap, tasks, stage, nodes, outbox, job, asked, hurt, troubles>>

\* The operations of the requests.
Ops == {"bind", "mark", "enqueue", "submit", "failTask", "failSnap", "failDoc",
        "parserCancel", "cancelRead", "purgeRel", "purgeSnap", "purgeSync",
        "startTask", "startSnap", "startDoc", "finTask", "finSnap", "finUnbind",
        "finDoc", "count", "markDeleting", "afterDelete"}

\* kb, type and task of a job; the status a callback reports; posted: the
\* callback came from the parsing service; n: the relations it has counted.
Idle == [kb |-> None, type |-> None, task |-> 0, status |-> None,
         posted |-> FALSE, n |-> 0, todo |-> << >>]
Request(k, type, ops) == [Idle EXCEPT !.kb = k, !.type = type, !.todo = ops]

TypeOK ==
  /\ upload \in Statuses \cup {None}
  /\ bound \subseteq Kbs
  /\ \A k \in Kbs : snap[k] = NoSnap \/
       snap[k] \in [status : Statuses, task : 1..Len(tasks), type : Types]
  /\ tasks \in Seq([type : Types, kb : Kbs, status : Statuses]) /\ Len(tasks) <= asked
  /\ stage \in [Ids -> {"none", "queued", "running", "done", "canceled"}]
  /\ \A id \in Ids : stage[id] # "none" => id <= Len(tasks)
  /\ nodes \subseteq Kbs
  /\ outbox \in Seq(Callback)
  /\ \A h \in Threads : job[h] = Idle \/
       /\ job[h].kb \in Kbs /\ job[h].type \in Types
       /\ job[h].task \in 0..Len(tasks)
       /\ job[h].todo \in Seq(Ops) \ {<< >>}
  /\ asked \in 0..MaxTasks
  /\ hurt \subseteq Ids /\ troubles \in 0..MaxTroubles

Init ==
  /\ upload = None /\ bound = {} /\ snap = [k \in Kbs |-> NoSnap]
  /\ tasks = << >>
  /\ stage = [id \in Ids |-> "none"] /\ nodes = {} /\ outbox = << >>
  /\ job = [h \in Threads |-> Idle]
  /\ asked = 0 /\ hurt = {} /\ troubles = 0

Trouble(S) ==
  /\ troubles < MaxTroubles /\ troubles' = troubles + 1
  /\ hurt' = hurt \cup S

-----------------------------------------------------------------------------
(* Requests: what they read, and the operations that follow from it.       *)

Begin(h, k, type, ops, n) ==
  /\ job[h] = Idle
  /\ asked + n <= MaxTasks /\ asked' = asked + n
  /\ job' = [job EXCEPT ![h] = Request(k, type, ops)]
  /\ UNCHANGED <<rows, parser, mishaps>>

Submission == <<"enqueue", "submit">>
Bound(k) == upload # None /\ k \in bound

\* upload, add_files: _assert_action_allowed only when the relation exists.
Upload(h, k) ==
  LET status == IF snap[k] = NoSnap THEN upload ELSE snap[k].status IN
  /\ k \in bound => status \notin {"WAITING", "WORKING", "DELETING", "SUCCESS"}
  /\ Begin(h, k, "ADD", <<"bind">> \o Submission, 1)

Reparse(h, k) ==
  /\ Bound(k) /\ snap[k].status \notin {"WORKING", "DELETING"}
  /\ Begin(h, k, "REPARSE", Submission, 1)

\* One task for every algorithm of the knowledge base.
PatchMetadata(h, k) ==
  /\ Bound(k) /\ snap[k].status \notin {"WORKING", "DELETING"}
  /\ Begin(h, k, "META", [i \in 1..2 * Algos |-> Submission[IF i % 2 = 1 THEN 1 ELSE 2]], Algos)

CancelOps == <<"parserCancel", "cancelRead">>

Delete(h, k) ==
  /\ Bound(k) /\ snap[k].status \notin {"DELETING", "DELETED", "WORKING"}
  /\ IF snap[k].status = "WAITING" /\ snap[k].type = "ADD"
     THEN /\ job[h] = Idle
          /\ tasks[snap[k].task].status = "WAITING"
          /\ job' = [job EXCEPT ![h] =
               [Request(k, "ADD", CancelOps \o <<"purgeRel", "purgeSnap", "purgeSync">>)
                  EXCEPT !.task = snap[k].task]]
          /\ UNCHANGED <<rows, parser, asked, mishaps>>
     ELSE Begin(h, k, "DELETE", <<"mark">> \o Submission, 1)

CancelTask(h, id) ==
  /\ job[h] = Idle
  /\ id <= Len(tasks) /\ tasks[id].status = "WAITING" /\ stage[id] # "none"
  /\ job' = [job EXCEPT ![h] =
       [Request(tasks[id].kb, tasks[id].type, CancelOps) EXCEPT !.task = id]]
  /\ UNCHANGED <<rows, parser, asked, mishaps>>

-----------------------------------------------------------------------------
(* Callbacks: what on_task_callback reads, and what follows from it.       *)

\* Seeded: a callback of a superseded task is not ignored.
Ignored_NoStale(id, status) == tasks[id].status = "CANCELED" /\ status # "CANCELED"

\* stale_task_callback and canceled_task_callback.
Ignored(id, status) ==
  LET s == snap[tasks[id].kb] IN
  \/ s # NoSnap /\ s.task # id
  \/ tasks[id].status = "CANCELED" /\ status # "CANCELED"

StartOps(type) ==
  <<"startTask", "startSnap">> \o
  (CASE type = "ADD" -> <<"startDoc">>
     [] type = "DELETE" -> <<"count", "markDeleting">>
     [] OTHER -> << >>)

\* Seeded: the relation of a deleted document stays.
FinishOps_KeepsRelation(type, status) ==
  <<"finTask", "finSnap">> \o
  (CASE type = "ADD" -> <<"finDoc">>
     [] type = "DELETE" -> <<"count", "afterDelete">>
     [] OTHER -> << >>)

\* Seeded: the record of the task is not finished.
FinishOps_NoRecord(type, status) ==
  <<"finSnap">> \o
  (CASE type = "ADD" -> <<"finDoc">>
     [] type = "DELETE" /\ status = "SUCCESS" -> <<"finUnbind", "count", "afterDelete">>
     [] type = "DELETE" /\ status # "SUCCESS" -> <<"count", "afterDelete">>
     [] OTHER -> << >>)

FinishOps(type, status) ==
  <<"finTask", "finSnap">> \o
  (CASE type = "ADD" -> <<"finDoc">>
     [] type = "DELETE" /\ status = "SUCCESS" -> <<"finUnbind", "count", "afterDelete">>
     [] type = "DELETE" /\ status # "SUCCESS" -> <<"count", "afterDelete">>
     [] OTHER -> << >>)

CallbackOps(type, status) ==
  IF status = "WORKING" THEN StartOps(type) ELSE FinishOps(type, status)

\* The head of the outbox is posted when the one before was answered, or was
\* given up while it runs on; the callback record and the two reads.
Receive(h) ==
  /\ job[h] = Idle /\ outbox # << >>
  /\ LET cb == Head(outbox)
         pending == {g \in Threads : job[g].posted}
         t == tasks[cb.task]
     IN
       /\ \/ pending = {} /\ UNCHANGED mishaps
          \/ pending # {} /\ Trouble({job[g].task : g \in pending} \cup {cb.task})
       /\ job' = [job EXCEPT ![h] =
            IF Ignored(cb.task, cb.status) THEN Idle
            ELSE [Request(t.kb, t.type, CallbackOps(t.type, cb.status)) EXCEPT
                    !.task = cb.task, !.status = cb.status, !.posted = TRUE]]
  /\ outbox' = Tail(outbox)
  /\ UNCHANGED <<rows, stage, nodes, asked>>

\* A callback that could not be delivered is postponed, or dropped.
Undelivered ==
  /\ outbox # << >> /\ Trouble({Head(outbox).task})
  /\ outbox' \in {Append(Tail(outbox), Head(outbox)), Tail(outbox)}
  /\ UNCHANGED <<rows, stage, nodes, job, asked>>

-----------------------------------------------------------------------------
(* The operations.                                                         *)

Does(h, op) == job[h].todo # << >> /\ Head(job[h].todo) = op

\* A thread whose list is empty is idle again.
GoOnWith(h, j, ops) ==
  job' = [job EXCEPT ![h] = IF ops = << >> THEN Idle ELSE [j EXCEPT !.todo = ops]]
GoOn(h) == GoOnWith(h, job[h], Tail(job[h].todo))

\* Seeded: the snapshot does not say which task is current.
SetSnap_NoTask(k, status, id, type) ==
  snap' = [snap EXCEPT ![k] = [status |-> status, task |-> 0, type |-> type]]

SetSnap(k, status, id, type) ==
  snap' = [snap EXCEPT ![k] = [status |-> status, task |-> id, type |-> type]]
SetTask(id, status) == tasks' = [tasks EXCEPT ![id].status = status]
\* _set_doc_upload_status does nothing without a row.
SetUpload(status) == upload' = IF upload = None THEN None ELSE status

\* _upsert_doc_and_bind.
Bind(h) ==
  /\ Does(h, "bind") /\ GoOn(h)
  /\ upload' = "SUCCESS" /\ bound' = bound \cup {job[h].kb}
  /\ UNCHANGED <<snap, tasks, parser, asked, mishaps>>

\* delete marks the row; without a row it raises.
Mark(h) ==
  /\ Does(h, "mark")
  /\ IF upload = None THEN GoOnWith(h, Idle, << >>) ELSE GoOn(h)
  /\ IF Cardinality(bound) <= 1 THEN SetUpload("DELETING") ELSE UNCHANGED upload
  /\ UNCHANGED <<bound, snap, tasks, parser, asked, mishaps>>

\* _enqueue_task: the record and the snapshot, which names it as current.
Enqueue(h) ==
  LET k == job[h].kb
      type == job[h].type
      status == IF type = "DELETE" THEN "DELETING" ELSE "WAITING"
      id == Len(tasks) + 1
  IN
  /\ Does(h, "enqueue")
  /\ GoOnWith(h, [job[h] EXCEPT !.task = id], Tail(job[h].todo))
  /\ tasks' = Append(tasks, [type |-> type, kb |-> k, status |-> status])
  /\ SetSnap(k, status, id, type)
  /\ UNCHANGED <<upload, bound, parser, asked, mishaps>>

\* Seeded: a failed submission leaves the snapshot as it is.
FailOps_NoSnap(type) == <<"failTask">>

FailOps(type) ==
  <<"failTask", "failSnap">> \o
  (CASE type = "ADD" -> <<"failDoc">>
     [] type = "DELETE" -> <<"count", "afterDelete">>
     [] OTHER -> << >>)

\* _create_parser_task: the task is queued, or the call raises, perhaps only
\* after the parsing service has taken the task.
Submit(h) ==
  LET id == job[h].task IN
  /\ Does(h, "submit")
  /\ \/ stage' = [stage EXCEPT ![id] = "queued"] /\ GoOn(h) /\ UNCHANGED mishaps
     \/ /\ \/ Trouble({}) /\ UNCHANGED stage
           \/ Trouble({id}) /\ stage' = [stage EXCEPT ![id] = "queued"]
        /\ GoOnWith(h, job[h], FailOps(job[h].type))
  /\ UNCHANGED <<rows, nodes, outbox, asked>>

\* Writes of the record of the task.
WriteTask(h) ==
  /\ \/ Does(h, "failTask") /\ SetTask(job[h].task, "FAILED")
     \/ Does(h, "startTask") /\ SetTask(job[h].task, "WORKING")
     \/ /\ Does(h, "finTask")
        /\ SetTask(job[h].task, IF job[h].type = "DELETE" /\ job[h].status = "SUCCESS"
                                THEN "DELETED" ELSE job[h].status)
  /\ GoOn(h)
  /\ UNCHANGED <<upload, bound, snap, parser, asked, mishaps>>

\* Writes of the snapshot: they name the task of the thread as current again.
WriteSnap(h) ==
  LET j == job[h] IN
  /\ \/ Does(h, "failSnap") /\ SetSnap(j.kb, "FAILED", j.task, j.type)
     \/ /\ Does(h, "startSnap")
        /\ SetSnap(j.kb, IF j.type = "DELETE" THEN "DELETING" ELSE "WORKING",
                   j.task, j.type)
     \/ /\ Does(h, "finSnap")
        /\ SetSnap(j.kb, IF j.type = "DELETE" /\ j.status = "SUCCESS" THEN "DELETED"
                         ELSE j.status, j.task, j.type)
  /\ GoOn(h)
  /\ UNCHANGED <<upload, bound, tasks, parser, asked, mishaps>>

\* _apply_doc_upload_status of a DOC_ADD task.
WriteDoc(h) ==
  /\ \/ Does(h, "failDoc") /\ SetUpload("FAILED")
     \/ Does(h, "startDoc") /\ SetUpload("WORKING")
     \/ Does(h, "finDoc") /\ SetUpload(job[h].status)
  /\ GoOn(h)
  /\ UNCHANGED <<bound, snap, tasks, parser, asked, mishaps>>

\* _doc_relation_count, a transaction of its own ...
Count(h) ==
  /\ Does(h, "count")
  /\ GoOnWith(h, [job[h] EXCEPT !.n = Cardinality(bound)], Tail(job[h].todo))
  /\ UNCHANGED <<rows, parser, asked, mishaps>>

\* Seeded: the row of a deleted document becomes SUCCESS.
AfterDelete_Always(n) == "SUCCESS"

AfterDelete(n) == IF n > 0 THEN "SUCCESS" ELSE "DELETED"

\* ... and _apply_doc_upload_status of a DOC_DELETE task that follows it.
WriteDeletedDoc(h) ==
  /\ \/ Does(h, "afterDelete") /\ SetUpload(AfterDelete(job[h].n))
     \/ /\ Does(h, "markDeleting")
        /\ IF job[h].n <= 1 THEN SetUpload("DELETING") ELSE UNCHANGED upload
  /\ GoOn(h)
  /\ UNCHANGED <<bound, snap, tasks, parser, asked, mishaps>>

\* _remove_kb_document after a DOC_DELETE task.
Unbind(h) ==
  /\ Does(h, "finUnbind") /\ GoOn(h)
  /\ bound' = bound \ {job[h].kb}
  /\ UNCHANGED <<upload, snap, tasks, parser, asked, mishaps>>

\* The call of the parsing service in cancel_task; a refusal ends the request.
ParserCancel(h) ==
  LET id == job[h].task IN
  /\ Does(h, "parserCancel")
  /\ IF stage[id] = "queued"
     THEN stage' = [stage EXCEPT ![id] = "canceled"] /\ GoOn(h)
     ELSE UNCHANGED stage /\ GoOnWith(h, Idle, << >>)
  /\ UNCHANGED <<rows, nodes, outbox, asked, mishaps>>

\* Seeded: cancel_task leaves its records alone.
CancelRead_Skipped(h) ==
  /\ Does(h, "cancelRead") /\ GoOn(h)
  /\ UNCHANGED <<rows, parser, asked, mishaps>>

\* on_task_callback(CANCELED), called by cancel_task itself.
CancelRead(h) ==
  LET j == job[h] IN
  /\ Does(h, "cancelRead")
  /\ GoOnWith(h, [j EXCEPT !.status = "CANCELED"],
              (IF Ignored(j.task, "CANCELED") THEN << >>
               ELSE FinishOps(j.type, "CANCELED")) \o Tail(j.todo))
  /\ UNCHANGED <<rows, parser, asked, mishaps>>

\* _purge_deleted_kb_doc_data: the relation, with the row when it was the last
\* one (then nothing is left to synchronise); the snapshot; the row's status.
PurgeRel(h) ==
  LET left == bound \ {job[h].kb}
      gone == left = {} /\ upload # None IN
  /\ Does(h, "purgeRel")
  /\ bound' = left /\ upload' = IF gone THEN None ELSE upload
  /\ GoOnWith(h, job[h], IF gone THEN <<"purgeSnap">> ELSE Tail(job[h].todo))
  /\ UNCHANGED <<snap, tasks, parser, asked, mishaps>>
PurgeSnap(h) ==
  /\ Does(h, "purgeSnap") /\ GoOn(h)
  /\ snap' = [snap EXCEPT ![job[h].kb] = NoSnap]
  /\ UNCHANGED <<upload, bound, tasks, parser, asked, mishaps>>
PurgeSync(h) ==
  /\ Does(h, "purgeSync") /\ GoOn(h)
  /\ SetUpload(AfterDelete(Cardinality(bound)))
  /\ UNCHANGED <<bound, snap, tasks, parser, asked, mishaps>>

\* The task that a thread leaves half done: its own, or the one it was going to
\* replace.
Victim(h) == {IF job[h].task # 0 THEN job[h].task ELSE snap[job[h].kb].task} \ {0}

\* An operation raises: a posted callback is forgotten and posted again, later;
\* a request ends where it is.
Raise(h) ==
  /\ job[h] # Idle /\ Head(job[h].todo) # "submit"
  /\ Trouble(Victim(h))
  /\ outbox' = IF job[h].posted
               THEN Append(outbox, [task |-> job[h].task, status |-> job[h].status])
               ELSE outbox
  /\ job' = [job EXCEPT ![h] = Idle]
  /\ UNCHANGED <<rows, stage, nodes, asked>>

\* The document service dies: requests end where they are, and the record of a
\* callback that was in work makes the next delivery a duplicate.
Crash ==
  /\ \E h \in Threads : job[h] # Idle
  /\ Trouble(UNION {Victim(h) : h \in {g \in Threads : job[g] # Idle}})
  /\ job' = [h \in Threads |-> Idle]
  /\ UNCHANGED <<rows, parser, asked>>

-----------------------------------------------------------------------------
(* The parsing service.                                                    *)

\* base.py _get_task_type_weight: deletes first, then metadata.
Weight == [ADD |-> 100, REPARSE |-> 100, META |-> 30, DELETE |-> 10]

\* A worker claims a task and reports WORKING.
Claim(id) ==
  /\ stage[id] = "queued"
  /\ \A other \in Ids : stage[other] = "queued" =>
       Weight[tasks[id].type] <= Weight[tasks[other].type]
  /\ stage' = [stage EXCEPT ![id] = "running"]
  /\ outbox' = Append(outbox, [task |-> id, status |-> "WORKING"])
  /\ UNCHANGED <<rows, nodes, job, asked, mishaps>>

\* The task ends; a failed one may have done part of its work.
Finish(id, status) ==
  LET k == tasks[id].kb
      effect == CASE tasks[id].type = "DELETE" -> nodes \ {k}
                  [] tasks[id].type = "META" -> nodes
                  [] OTHER -> nodes \cup {k}
  IN
  /\ stage[id] = "running"
  /\ stage' = [stage EXCEPT ![id] = "done"]
  /\ nodes' \in IF status = "SUCCESS" THEN {effect} ELSE {nodes, effect, nodes \ {k}}
  /\ outbox' = Append(outbox, [task |-> id, status |-> status])
  /\ UNCHANGED <<rows, job, asked, mishaps>>

-----------------------------------------------------------------------------
Work(h) ==
  \/ Bind(h) \/ Mark(h) \/ Enqueue(h) \/ Submit(h)
  \/ WriteTask(h) \/ WriteSnap(h) \/ WriteDoc(h) \/ WriteDeletedDoc(h)
  \/ Count(h) \/ Unbind(h) \/ ParserCancel(h) \/ CancelRead(h)
  \/ PurgeRel(h) \/ PurgeSnap(h) \/ PurgeSync(h)
Parse == \E id \in Ids : Claim(id) \/ \E s \in {"SUCCESS", "FAILED"} : Finish(id, s)

Next ==
  \/ \E h \in Threads, k \in Kbs :
       Upload(h, k) \/ Reparse(h, k) \/ Delete(h, k) \/ PatchMetadata(h, k)
  \/ \E h \in Threads, id \in Ids : CancelTask(h, id)
  \/ \E h \in Threads : Receive(h) \/ Work(h) \/ Raise(h)
  \/ Undelivered \/ Crash \/ Parse

Spec == Init /\ [][Next]_vars

\* A request thread runs to the end of its list, a callback that was posted is
\* served before long, and the workers of the parsing service go on.
Fairness ==
  /\ \A h \in Threads : WF_vars(Work(h)) /\ SF_vars(Receive(h))
  /\ WF_vars(Parse)
FairSpec == Spec /\ Fairness

-----------------------------------------------------------------------------
(* Properties.                                                             *)

Quiet ==
  /\ \A h \in Threads : job[h] = Idle
  /\ \A id \in Ids : stage[id] \notin {"queued", "running"}
  /\ outbox = << >>

\* A callback of a task that was superseded does not touch the snapshot
\* (on_task_callback, stale_task_callback): it never replaces the task that the
\* snapshot names by an earlier one.
StaleIgnored ==
  [][\A k \in Kbs : snap[k] # NoSnap /\ snap'[k] # NoSnap
       => snap'[k].task >= snap[k].task]_vars

\* No document is stuck (doc_manager.py _enqueue_task, on_task_callback): when
\* nothing is left to do, every snapshot has reached a final status, unless a
\* call or a callback of its task was lost, late or failed.
NothingStuck ==
  Quiet => \A k \in Kbs : snap[k] # NoSnap =>
    snap[k].status \in Settled \/ snap[k].task \in hurt

\* The snapshot and the record of its current task agree whenever no thread is
\* at work on them (WriteTask and WriteSnap are two transactions).
RecordsAgree ==
  \A k \in Kbs :
    /\ snap[k] # NoSnap /\ snap[k].task \notin hurt
    /\ \A h \in Threads : job[h].kb # k
    => \/ tasks[snap[k].task].status = snap[k].status
       \/ snap[k].status = "DELETING" /\ tasks[snap[k].task].status = "WORKING"

\* Whatever its task, a snapshot does not stay WAITING, WORKING or DELETING
\* (states in which uploads are refused), short of a trouble.
Settles ==
  \A k \in Kbs :
    snap[k] # NoSnap ~> snap[k] = NoSnap \/ snap[k].status \in Settled \/ troubles > 0

\* A snapshot that shows a document outside the knowledge base: on_task_callback
\* creates one when it finds that _purge_deleted_kb_doc_data has deleted it.
Ghost(k) == k \notin bound /\ snap[k].status \notin {None, "DELETED"}

\* The status of the row agrees with the relations (_apply_doc_upload_status,
\* _sync_doc_upload_status): the row of a document that is in no knowledge base
\* is DELETED or gone, unless the callback that left a ghost behind wrote it too;
\* that of any other is not.
RowAgrees ==
  Quiet /\ troubles = 0 =>
    IF bound # {} THEN upload \notin {None, "DELETED"}
    ELSE upload \in {None, "DELETED"} \/ \E k \in Kbs : Ghost(k)

\* What a delete promises (on_task_callback, parsing_service/worker.py
\* _exec_delete_task): a document whose deletion is the last thing that happened
\* to it has left the knowledge base and its store, unless a task that the delete
\* superseded ran after it: its record never reached a final status, or its
\* submission seemed to fail.
DeletedIsGone ==
  Quiet => \A k \in Kbs : snap[k].status = "DELETED" /\ snap[k].task \notin hurt =>
    /\ k \notin bound
    /\ \/ k \notin nodes
       \/ \E id \in 1..(snap[k].task - 1) :
            tasks[id].kb = k /\ (tasks[id].status \notin Settled \/ id \in hurt)

\* A snapshot of a document outside the knowledge base says DELETED, unless a
\* later request superseded its task.
NoGhost ==
  Quiet /\ troubles = 0 => \A k \in Kbs : Ghost(k) =>
    \E id \in (snap[k].task + 1)..Len(tasks) : tasks[id].kb = k

\* A delete leaves nothing behind (on_task_callback, _purge_deleted_kb_doc_data): no
\* relation, no nodes, and no snapshot of another status.
DeletedStaysGone == DeletedIsGone /\ NoGhost
=============================================================================

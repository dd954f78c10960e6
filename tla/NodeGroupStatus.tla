---------------------------- MODULE NodeGroupStatus ----------------------------
(***************************************************************************)
(* How the workers of the parsing service coordinate over the node groups  *)
(* of one document (lazyllm/tools/rag/parsing_service/worker.py): the rows *)
(* of lazyllm_doc_node_group_status say which groups are pending, built or *)
(* being built; an adding worker skips the groups that are built and waits *)
(* for those that another worker builds; a worker that starts resets what  *)
(* dead workers left behind.                                               *)
(*                                                                         *)
(* The document service is reduced to the snapshot of the document and one *)
(* atomic action per request and callback (DocLifecycle opens them), the   *)
(* queue to its rows and leases (ParseTaskQueue).  The node groups are     *)
(* children of the root, which every task builds anew.                     *)
(***************************************************************************)
EXTENDS Integers, Sequences, FiniteSets

CONSTANTS
  Groups,      \* number of node groups, in the order a worker goes through them
  Workers,
  MaxTasks,    \* bound: tasks
  MaxTroubles  \* bound: crashes, lapsed leases, long waits, lost writes

None == "NONE"

ASSUME GroupAssumption ==
  /\ Groups \in Nat \ {0} /\ MaxTasks \in Nat /\ MaxTroubles \in Nat
  /\ None \notin Workers

G == 1..Groups
Ids == 1..MaxTasks
Types == {"ADD", "TRANSFER", "REPARSE", "DELETE"}

VARIABLES
  ng,        \* the status row of each node group, or None
  chunks,    \* groups whose segments are in the store
  tasks,     \* the tasks submitted: type, record (the document service's status),
             \* ran (history: a worker has claimed it)
  row,       \* of each task in the queue; LAPSED: WORKING with an expired lease
  owner,     \* worker_id of that row
  outbox,    \* callbacks the document service has still to apply
  bound,     \* the document is in the knowledge base
  current,   \* the snapshot: its task ...
  status,    \* ... and its status
  job,       \* what each worker does
  mishap,    \* history: a status write was lost, a task canceled that a worker had
             \* begun, segments removed by a delete that failed, by a transfer in spite
             \* of a row SUCCESS or while another task was at work, or a worker died at
             \* a task that it had lost to another
  late,      \* history: a delete that was superseded removed segments (it runs a second
             \* time when its lease expires), or a document that was purged took the
             \* callback of an older task
  troubles

queue == <<tasks, row, owner>>
doc == <<bound, current, status>>
vars == <<ng, chunks, tasks, row, owner, outbox, bound, current, status, job, mishap, late, troubles>>

\* exec: the groups to build; n: the next group to look at, or to build.
Idle == [pc |-> "idle", task |-> 0, exec |-> {}, n |-> 1, ok |-> TRUE]
Down == [Idle EXCEPT !.pc = "down"]

TypeOK ==
  /\ ng \in [G -> {None, "PENDING", "WORKING", "SUCCESS", "FAILED"}]
  /\ chunks \subseteq G
  /\ tasks \in Seq([type : Types, record : {"WAITING", "DELETING", "WORKING", "DONE", "CANCELED"},
                  ran : BOOLEAN])
  /\ Len(tasks) <= MaxTasks
  /\ row \in [Ids -> {None, "WAITING", "WORKING", "LAPSED", "GONE"}]
  /\ \A id \in Ids : row[id] # None <=> id <= Len(tasks)
  /\ owner \in [Ids -> Workers \cup {None}]
  /\ outbox \in Seq([task : Ids, status : {"WORKING", "SUCCESS", "FAILED"}])
  /\ bound \in BOOLEAN /\ mishap \in BOOLEAN /\ late \in BOOLEAN
  /\ current \in 0..Len(tasks)
  /\ status \in {None, "WAITING", "WORKING", "DELETING", "SUCCESS", "FAILED", "CANCELED", "DELETED"}
  /\ job \in [Workers -> [pc : {"down", "spare", "reset", "idle", "decide", "mark", "clear",
                              "build", "settle", "end"},
                        task : 0..MaxTasks, exec : SUBSET G, n : 1..Groups + 1, ok : BOOLEAN]]
  /\ \A w \in Workers :
       job[w].task <= Len(tasks) /\ (job[w].pc \in {"mark", "build"} => job[w].exec # {})
  /\ troubles \in 0..MaxTroubles

Init ==
  /\ ng = [g \in G |-> None] /\ chunks = {}
  /\ tasks = << >> /\ row = [id \in Ids |-> None] /\ owner = [id \in Ids |-> None]
  /\ outbox = << >>
  /\ bound = FALSE /\ current = 0 /\ status = None
  /\ job = [w \in Workers |-> Down]
  /\ mishap = FALSE /\ late = FALSE /\ troubles = 0

Trouble == troubles < MaxTroubles /\ troubles' = troubles + 1
Calm == UNCHANGED troubles

-----------------------------------------------------------------------------
(* The document service.                                                   *)

\* _upsert_ng_status_pending: a group that is built stays so, unless forced.
Pending(force) ==
  [g \in G |-> IF ~force /\ ng[g] = "SUCCESS" THEN "SUCCESS" ELSE "PENDING"]

Submit(type) ==
  LET id == Len(tasks) + 1
      s == IF type = "DELETE" THEN "DELETING" ELSE "WAITING" IN
  /\ id <= MaxTasks
  /\ tasks' = Append(tasks, [type |-> type, record |-> s, ran |-> FALSE])
  /\ row' = [row EXCEPT ![id] = "WAITING"]
  /\ current' = id /\ status' = s
  /\ UNCHANGED <<chunks, owner, outbox, job, mishap, late, troubles>>

Upload ==
  /\ bound => status \notin {"WAITING", "WORKING", "DELETING", "SUCCESS"}
  /\ Submit("ADD") /\ ng' = Pending(FALSE) /\ bound' = TRUE

\* The document as the target of a transfer from another knowledge base.
Transfer ==
  /\ ~bound
  /\ Submit("TRANSFER") /\ ng' = Pending(TRUE) /\ bound' = TRUE

Reparse ==
  /\ bound /\ status \notin {"WORKING", "DELETING"}
  /\ Submit("REPARSE") /\ ng' = Pending(TRUE) /\ UNCHANGED bound

\* Of a document that waits to be added, the task is canceled instead.
Delete ==
  /\ bound /\ status \notin {"WORKING", "DELETING", "DELETED"}
  /\ ~(status = "WAITING" /\ tasks[current].type = "ADD")
  /\ Submit("DELETE") /\ UNCHANGED <<ng, bound>>

Cancelable(id) ==
  id <= Len(tasks) /\ tasks[id].record = "WAITING" /\ row[id] = "WAITING"

\* cancel_task, and its callback CANCELED.
Cancel(id) ==
  /\ Cancelable(id)
  /\ row' = [row EXCEPT ![id] = "GONE"]
  /\ tasks' = IF id = current THEN [tasks EXCEPT ![id].record = "CANCELED"] ELSE tasks
  /\ status' = IF id = current THEN "CANCELED" ELSE status
  /\ mishap' = (mishap \/ tasks[id].ran)
  /\ UNCHANGED <<ng, chunks, owner, outbox, bound, current, job, late, troubles>>

\* delete of a document that waits to be added: cancel, purge.
CancelAndPurge ==
  /\ bound /\ status = "WAITING" /\ tasks[current].type = "ADD" /\ Cancelable(current)
  /\ row' = [row EXCEPT ![current] = "GONE"]
  /\ tasks' = [tasks EXCEPT ![current].record = "CANCELED"]
  /\ bound' = FALSE /\ current' = 0 /\ status' = None
  /\ ng' = [g \in G |-> None]
  /\ mishap' = (mishap \/ tasks[current].ran)
  /\ UNCHANGED <<chunks, owner, outbox, job, late, troubles>>

\* Seeded: the rows of a deleted document stay.
AfterDelete_KeepsRows(id, s) ==
  /\ UNCHANGED ng
  /\ bound' = (bound /\ ~(tasks[id].type = "DELETE" /\ s = "SUCCESS"))

\* A finished delete takes the relation and the status rows away.
AfterDelete(id, s) ==
  IF tasks[id].type = "DELETE" /\ s = "SUCCESS"
  THEN bound' = FALSE /\ ng' = [g \in G |-> None]
  ELSE UNCHANGED <<bound, ng>>

Snapshot(type, s) ==
  CASE type = "DELETE" /\ s = "WORKING" -> "DELETING"
    [] type = "DELETE" /\ s = "SUCCESS" -> "DELETED"
    [] OTHER -> s

\* on_task_callback: a callback of a superseded or canceled task is ignored.
Callback ==
  LET id == Head(outbox).task
      s == Head(outbox).status
      ignored == \/ current # 0 /\ current # id
                 \/ tasks[id].record = "CANCELED"
  IN
  /\ outbox # << >> /\ outbox' = Tail(outbox)
  /\ \/ ignored /\ UNCHANGED <<ng, tasks, doc>>
     \/ /\ ~ignored
        /\ tasks' = [tasks EXCEPT ![id].record = IF s = "WORKING" THEN s ELSE "DONE"]
        /\ current' = id /\ status' = Snapshot(tasks[id].type, s)
        /\ AfterDelete(id, s)
  /\ late' = (late \/ (current = 0 /\ ~ignored))
  /\ UNCHANGED <<chunks, row, owner, job, mishap, troubles>>

-----------------------------------------------------------------------------
(* A worker at a task.                                                     *)

At(w, pc) == job[w].pc = pc
TypeOf(w) == tasks[job[w].task].type
Goto(w, pc) == job' = [job EXCEPT ![w].pc = pc, ![w].n = 1]

FirstStep(type) ==
  CASE type = "DELETE" -> "clear" [] type = "REPARSE" -> "mark" [] OTHER -> "decide"

\* Deletes are claimed first; a task is claimed anew when its lease has expired.
Claim(w, id) ==
  LET open == {i \in Ids : row[i] \in {"WAITING", "LAPSED"}} IN
  /\ At(w, "idle") /\ id \in open
  /\ tasks[id].type # "DELETE" => \A i \in open : tasks[i].type # "DELETE"
  /\ row' = [row EXCEPT ![id] = "WORKING"] /\ owner' = [owner EXCEPT ![id] = w]
  /\ tasks' = [tasks EXCEPT ![id].ran = TRUE]
  /\ outbox' = Append(outbox, [task |-> id, status |-> "WORKING"])
  /\ job' = [job EXCEPT ![w] =
       [Idle EXCEPT !.pc = FirstStep(tasks[id].type), !.task = id,
                    !.exec = IF tasks[id].type = "REPARSE" THEN G ELSE {}]]
  /\ UNCHANGED <<ng, chunks, doc, mishap, late, troubles>>

\* Seeded: every group but a failed one is skipped.
Skips_Pending(g) == ng[g] # "FAILED"

Skips(g) == ng[g] = "SUCCESS"

\* One turn of _wait_and_decide_ng: the next group, unless it is being built.
Decide(w) ==
  LET g == job[w].n IN
  /\ At(w, "decide") /\ g <= Groups
  /\ \/ ng[g] # "WORKING" /\ Calm
     \/ ng[g] = "WORKING" /\ Trouble  \* the wait has timed out
  /\ job' = [job EXCEPT ![w].n = g + 1,
                        ![w].exec = IF Skips(g) THEN @ ELSE @ \cup {g}]
  /\ UNCHANGED <<ng, chunks, queue, outbox, doc, mishap, late>>

\* Seeded: a task with nothing to build goes on.
Decided_Always(w) ==
  /\ At(w, "decide") /\ job[w].n > Groups
  /\ Goto(w, "mark")
  /\ UNCHANGED <<ng, chunks, queue, outbox, doc, mishap, late, troubles>>

Decided(w) ==
  /\ At(w, "decide") /\ job[w].n > Groups
  /\ Goto(w, IF job[w].exec = {} THEN "end" ELSE "mark")
  /\ UNCHANGED <<ng, chunks, queue, outbox, doc, mishap, late, troubles>>

\* _write_ng_status_batch; an error of the database is logged, and no more.
Write(w, s) ==
  \/ ng' = [g \in G |-> IF g \in job[w].exec THEN s ELSE ng[g]] /\ Calm /\ UNCHANGED mishap
  \/ UNCHANGED ng /\ Trouble /\ mishap' = TRUE

Mark(w) ==
  /\ At(w, "mark") /\ Write(w, "WORKING")
  /\ Goto(w, IF TypeOf(w) = "REPARSE" THEN "clear" ELSE "build")
  /\ UNCHANGED <<chunks, queue, outbox, doc, late>>

\* Removing all segments is a mishap when another task is at work on them or, for
\* a delete, when it still may be; and in a transfer that fails when a row says SUCCESS.
Open(id) == row[id] \notin {None, "GONE"}
Remove(w) ==
  /\ chunks' = {}
  /\ mishap' = (\/ mishap
                \/ \E u \in Workers \ {w} : job[u].task # 0
                \/ TypeOf(w) = "DELETE" /\ \E id \in Ids \ {job[w].task} : Open(id)
                \/ TypeOf(w) = "TRANSFER" /\ \E g \in G : ng[g] = "SUCCESS")
  /\ late' = (late \/ (TypeOf(w) = "DELETE" /\ current # job[w].task))

Fails(w, pc) == job' = [job EXCEPT ![w].ok = FALSE, ![w].pc = pc, ![w].n = 1]

\* A delete removes the segments, a reparse removes them before it builds anew.
Clear(w) ==
  LET type == TypeOf(w) IN
  /\ At(w, "clear")
  /\ \/ Remove(w) /\ Goto(w, IF type = "DELETE" THEN "end" ELSE "build")
     \/ /\ Fails(w, IF type = "DELETE" THEN "end" ELSE "settle")
        /\ \/ type = "REPARSE" /\ (Remove(w) \/ UNCHANGED <<chunks, mishap, late>>)
           \/ type = "DELETE" /\ chunks' \in {chunks, {}} /\ mishap' = TRUE /\ UNCHANGED late
  /\ UNCHANGED <<ng, queue, outbox, doc, troubles>>

\* The next group is built, or fails; the others are built all the same.  A
\* transfer copies every group, and removes what it has copied when it fails.
Build(w) ==
  LET g == job[w].n
      wanted == g \in job[w].exec \/ TypeOf(w) = "TRANSFER" IN
  /\ At(w, "build") /\ g <= Groups
  /\ \/ /\ chunks' = IF wanted THEN chunks \cup {g} ELSE chunks
        /\ job' = [job EXCEPT ![w].n = g + 1]
        /\ UNCHANGED <<mishap, late>>
     \/ /\ wanted /\ TypeOf(w) # "TRANSFER"
        /\ job' = [job EXCEPT ![w].n = g + 1, ![w].ok = FALSE]
        /\ UNCHANGED <<chunks, mishap, late>>
     \/ TypeOf(w) = "TRANSFER" /\ Fails(w, "settle") /\ Remove(w)
  /\ UNCHANGED <<ng, queue, outbox, doc, troubles>>

Built(w) ==
  /\ At(w, "build") /\ job[w].n > Groups
  /\ Goto(w, "settle")
  /\ UNCHANGED <<ng, chunks, queue, outbox, doc, mishap, late, troubles>>

\* Seeded: a failure leaves the rows as they are.
Settle_OnlySuccess(w) ==
  /\ At(w, "settle")
  /\ IF job[w].ok THEN Write(w, "SUCCESS") ELSE UNCHANGED <<ng, mishap, troubles>>
  /\ Goto(w, "end")
  /\ UNCHANGED <<chunks, queue, outbox, doc, late>>

Settle(w) ==
  /\ At(w, "settle")
  /\ Write(w, IF job[w].ok THEN "SUCCESS" ELSE "FAILED")
  /\ Goto(w, "end")
  /\ UNCHANGED <<chunks, queue, outbox, doc, late>>

\* The outcome is recorded; the row goes if it is still this worker's.
End(w) ==
  LET id == job[w].task IN
  /\ At(w, "end")
  /\ outbox' = Append(outbox, [task |-> id, status |-> IF job[w].ok THEN "SUCCESS" ELSE "FAILED"])
  /\ row' = IF owner[id] = w THEN [row EXCEPT ![id] = "GONE"] ELSE row
  /\ job' = [job EXCEPT ![w] = Idle]
  /\ UNCHANGED <<ng, chunks, tasks, owner, doc, mishap, late, troubles>>

-----------------------------------------------------------------------------
(* Workers die and start, leases lapse.                                    *)

Holds(w) == owner[job[w].task] = w /\ row[job[w].task] \in {"WORKING", "LAPSED"}

Crash(w) ==
  /\ ~At(w, "down") /\ Trouble
  /\ job' = [job EXCEPT ![w] = Down]
  /\ mishap' = (mishap \/ (job[w].task # 0 /\ ~Holds(w)))
  /\ UNCHANGED <<ng, chunks, queue, outbox, doc, late>>

\* The lease of a task that nobody is at any more runs out; that of a worker
\* which fails to renew it may.
Lapse(id) ==
  /\ row[id] = "WORKING" /\ row' = [row EXCEPT ![id] = "LAPSED"]
  /\ IF job[owner[id]].task = id THEN Trouble ELSE Calm
  /\ UNCHANGED <<ng, chunks, tasks, owner, outbox, doc, job, mishap, late>>

\* _cleanup_stale_tasks: expired rows of the queue are for everybody again;
Requeue(w) ==
  LET expired == {id \in Ids : row[id] = "LAPSED"} IN
  /\ At(w, "down") /\ Goto(w, "spare")
  /\ row' = [id \in Ids |-> IF id \in expired THEN "WAITING" ELSE row[id]]
  /\ owner' = [id \in Ids |-> IF id \in expired THEN None ELSE owner[id]]
  /\ UNCHANGED <<ng, chunks, tasks, outbox, doc, mishap, late, troubles>>

\* the documents in the file_infos of a task with a lease are spared: a delete
\* has none, those of a transfer are the source's;
Spared ==
  \E id \in Ids : row[id] = "WORKING" /\ tasks[id].type \in {"ADD", "REPARSE"}

Spare(w) ==
  /\ At(w, "spare") /\ Goto(w, IF Spared THEN "idle" ELSE "reset")
  /\ UNCHANGED <<ng, chunks, queue, outbox, doc, mishap, late, troubles>>

\* the WORKING status rows of the others fail, whatever their age.
Reset(w) ==
  /\ At(w, "reset") /\ Goto(w, "idle")
  /\ ng' = [g \in G |-> IF ng[g] = "WORKING" THEN "FAILED" ELSE ng[g]]
  /\ UNCHANGED <<chunks, queue, outbox, doc, mishap, late, troubles>>

-----------------------------------------------------------------------------
Step(w) ==
  \/ Requeue(w) \/ Spare(w) \/ Reset(w)
  \/ \E id \in Ids : Claim(w, id)
  \/ Decide(w) \/ Decided(w) \/ Mark(w) \/ Clear(w) \/ Build(w) \/ Built(w)
  \/ Settle(w) \/ End(w)

Next ==
  \/ Upload \/ Transfer \/ Reparse \/ Delete \/ CancelAndPurge \/ Callback
  \/ \E id \in Ids : Cancel(id) \/ Lapse(id)
  \/ \E w \in Workers : Step(w) \/ Crash(w)

Spec == Init /\ [][Next]_vars

\* Workers run on, but no wait has to time out; nothing is assumed of requests,
\* leases and callbacks.
FairSpec == Spec /\ \A w \in Workers : WF_vars(Calm /\ Step(w))

-----------------------------------------------------------------------------
(* Properties.                                                             *)

Quiet ==
  /\ outbox = << >>
  /\ \A id \in Ids : row[id] \in {None, "GONE"}
  /\ \A w \in Workers : job[w].task = 0

\* When no task is left, no status row says that a worker is building: the next
\* task would wait an hour for it (_wait_and_decide_ng).
NoRowLeftWorking == Quiet /\ ~mishap => \A g \in G : ng[g] # "WORKING"

\* A group whose row says SUCCESS has segments (_wait_and_decide_ng skips it).
SuccessHasChunks == Quiet /\ ~mishap /\ ~late => \A g \in G : ng[g] = "SUCCESS" => g \in chunks

\* A document reported as parsed has the segments of every node group, except
\* for those that a superseded task, run after the current one, failed to build:
\* their rows say so.
ParsedIsComplete ==
  Quiet /\ ~mishap /\ ~late /\ status = "SUCCESS" => \A g \in G : g \in chunks \/ ng[g] = "FAILED"

\* A deleted document has no status rows (on_task_callback, _delete_ng_status).
DeletedHasNoRows == Quiet /\ status = "DELETED" => \A g \in G : ng[g] = None

\* Workers never wait for each other in a circle: without a crash, a lapsed lease
\* or a lost write every task leaves the queue, and no wait has to time out.
EveryTaskEnds == \A id \in Ids : row[id] = "WAITING" ~> row[id] = "GONE" \/ troubles > 0
=============================================================================

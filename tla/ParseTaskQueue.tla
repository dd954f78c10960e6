---------------------------- MODULE ParseTaskQueue ----------------------------
(***************************************************************************)
(* The waiting-task queue of the parsing service and the workers that      *)
(* consume it (lazyllm/tools/rag/parsing_service: queue.py, worker.py and  *)
(* the task endpoints of server.py).                                       *)
(*                                                                         *)
(* A task is a row of lazyllm_waiting_task_queue.  A worker process claims *)
(* a row for the length of a lease, runs it, writes the outcome to the     *)
(* finished queue and only then deletes the row, filtered by its own       *)
(* worker_id.  A lease that runs out makes the row claimable again, whether *)
(* its holder is dead or only slow.                                        *)
(*                                                                         *)
(* Time is abstracted: a lease is NONE, LIVE or EXPIRED, and a live lease  *)
(* may expire at any moment (Expire).  A database operation that raises is *)
(* a "fault".  Finished records are kept as a set: a receiver identifies a *)
(* record by its task and status (uuid5 in server.py _default_post_func).  *)
(***************************************************************************)
EXTENDS Integers, Sequences

CONSTANTS
  Tasks,             \* task ids, each submitted at most once (uuid4)
  Workers,           \* worker_ids: one per worker process ever created
  NoTask, NoWorker,  \* the two nulls
  Score,             \* Score[t]: the task_score of t, lower goes first
  BadPayload,        \* tasks whose stored message fails validation
  CallbackStatuses,  \* statuses a worker reports (callback_task_statuses)
  RowLocks,          \* the database honours SELECT ... FOR UPDATE (SQLite,
                     \* the default of rag/utils.py, does not)
  MaxCrashes,        \* bound: worker processes killed
  MaxLapses,         \* bound: leases that run out under a living holder
  MaxFaults,         \* bound: database operations that raise
  MaxStops           \* bound: shutdown/prestop requests

Terminal == {"SUCCESS", "FAILED"}
Reportable == {"WORKING"} \cup Terminal

ASSUME ConstantsAssumption ==
  /\ NoTask \notin Tasks
  /\ NoWorker \notin Workers
  /\ Score \in [Tasks -> Int]
  /\ BadPayload \subseteq Tasks
  /\ CallbackStatuses \subseteq Reportable
  /\ RowLocks \in BOOLEAN
  /\ MaxCrashes \in Nat /\ MaxLapses \in Nat
  /\ MaxFaults \in Nat /\ MaxStops \in Nat

VARIABLES
  status,    \* the row of a task: NEW and GONE say that there is no row
  owner,     \* its worker_id column
  lease,     \* its lease_expires_at column, relative to now
  canceled,  \* tasks whose cancel request was answered with success
  finished,  \* records ever written to lazyllm_finished_task_queue
  mishap,    \* history: what went wrong while a task was being processed
  pc,        \* where the worker thread of a process is
  cur,       \* the task the worker thread holds
  seen,      \* the status of the row that an unlocked claim has read
  stop,      \* the _shutdown flag of a process
  spc, scur, \* the thread that serves shutdown/prestop, and its task
  crashes, lapses, faults, stops

rows == <<status, owner, lease>>
budget == <<crashes, lapses, faults, stops>>
vars == <<status, owner, lease, canceled, finished, mishap,
          pc, cur, seen, stop, spc, scur, crashes, lapses, faults, stops>>

MishapKinds == {"crash", "lapse", "fault", "timeout", "race"}

\* The thread states between a claim and the last statement on that task.
Held == {"claimed", "invalid", "begin", "exec", "ok", "okDelete", "bad",
         "badDelete"}
\* The part of them inside _run_task: in_progress is set, the lease renewed.
InRun == {"begin", "exec", "ok", "okDelete", "bad", "badDelete", "finally",
          "unwind"}
NoThread == {"new", "stopped", "died", "dead"}
Pcs == Held \cup InRun \cup NoThread \cup {"idle", "poll", "read"}

Runs(w, t) == pc[w] \in Held /\ cur[w] = t
Record(t, s) == [task |-> t, status |-> s]
Mishap(t, k) == [task |-> t, kind |-> k]

Types ==
  /\ status \in [Tasks -> {"NEW", "WAITING", "WORKING", "GONE"}]
  /\ owner \in [Tasks -> Workers \cup {NoWorker}]
  /\ lease \in [Tasks -> {"NONE", "LIVE", "EXPIRED"}]
  /\ canceled \subseteq Tasks
  /\ finished \subseteq [task : Tasks, status : Reportable]
  /\ mishap \subseteq [task : Tasks, kind : MishapKinds]
  /\ pc \in [Workers -> Pcs]
  /\ cur \in [Workers -> Tasks \cup {NoTask}]
  /\ seen \in [Workers -> {"NONE", "WAITING", "WORKING"}]
  /\ stop \in [Workers -> BOOLEAN]
  /\ spc \in [Workers -> {"none", "join", "record", "delete", "done"}]
  /\ scur \in [Workers -> Tasks \cup {NoTask}]
  /\ crashes \in Nat /\ lapses \in Nat /\ faults \in Nat /\ stops \in Nat

WorkingHasOwner == \A t \in Tasks : status[t] = "WORKING" => owner[t] \in Workers

\* Types, and a row is WORKING only in the name of a worker (queue.py claim).
TypeOK == Types /\ WorkingHasOwner

Init ==
  /\ status = [t \in Tasks |-> "NEW"]
  /\ owner = [t \in Tasks |-> NoWorker]
  /\ lease = [t \in Tasks |-> "NONE"]
  /\ canceled = {} /\ finished = {} /\ mishap = {}
  /\ pc = [w \in Workers |-> "new"]
  /\ cur = [w \in Workers |-> NoTask]
  /\ seen = [w \in Workers |-> "NONE"]
  /\ stop = [w \in Workers |-> FALSE]
  /\ spc = [w \in Workers |-> "none"]
  /\ scur = [w \in Workers |-> NoTask]
  /\ crashes = 0 /\ lapses = 0 /\ faults = 0 /\ stops = 0

-----------------------------------------------------------------------------
(* The rows of the waiting queue.                                          *)

SetRow(t, s, w, l) ==
  /\ status' = [status EXCEPT ![t] = s]
  /\ owner' = [owner EXCEPT ![t] = w]
  /\ lease' = [lease EXCEPT ![t] = l]

\* Seeded: rows that are WORKING are taken whatever their lease says.
Claimable_IgnoresLease(t) == status[t] \in {"WAITING", "WORKING"}
\* Seeded: only WAITING rows are taken, an abandoned row stays WORKING.
Claimable_OnlyWaiting(t) == status[t] = "WAITING"

Claimable(t) ==
  \/ status[t] = "WAITING"
  \/ status[t] = "WORKING" /\ lease[t] # "LIVE"

\* Seeded: the delete forgets the worker_id filter.
DeleteOwned_AnyOwner(t, w) ==
  IF status[t] \in {"WAITING", "WORKING"}
  THEN SetRow(t, "GONE", NoWorker, "NONE")
  ELSE UNCHANGED rows

\* delete(filter_by={task_id, worker_id}); deleting no row is not an error.
DeleteOwned(t, w) ==
  IF owner[t] = w
  THEN SetRow(t, "GONE", NoWorker, "NONE")
  ELSE UNCHANGED rows

\* A database operation on behalf of task t raises.
Fault(t) ==
  /\ faults < MaxFaults
  /\ faults' = faults + 1
  /\ mishap' = mishap \cup {Mishap(t, "fault")}
  /\ UNCHANGED <<crashes, lapses, stops>>

\* _enqueue_finished_task: a status outside the filter is skipped, and an
\* error of the enqueue is logged and swallowed.
EnqueueFinished(t, s) ==
  \/ /\ finished' = IF s \in CallbackStatuses
                    THEN finished \cup {Record(t, s)} ELSE finished
     /\ UNCHANGED <<mishap, budget>>
  \/ /\ s \in CallbackStatuses
     /\ Fault(t)
     /\ UNCHANGED finished

Goto(w, p) == pc' = [pc EXCEPT ![w] = p]
SpcGoto(w, p) == spc' = [spc EXCEPT ![w] = p]

-----------------------------------------------------------------------------
(* The clients of the service.                                             *)

\* POST /doc/add, /doc/meta/update, DELETE /doc/delete, the thread poller.
Enqueue(t) ==
  /\ status[t] = "NEW"
  /\ SetRow(t, "WAITING", NoWorker, "NONE")
  /\ UNCHANGED <<canceled, finished, mishap, pc, cur, seen, stop, spc, scur, budget>>

\* Seeded: cancel does not look at the status of the row.
CancelFilter_AnyStatus(t) == status[t] \in {"WAITING", "WORKING"}

\* The filter of the delete that POST /doc/cancel issues.
CancelFilter(t) == status[t] = "WAITING"

\* A cancel that finds no such row answers "failed" and changes nothing.
Cancel(t) ==
  /\ CancelFilter(t)
  /\ SetRow(t, "GONE", NoWorker, "NONE")
  /\ canceled' = canceled \cup {t}
  /\ UNCHANGED <<finished, mishap, pc, cur, seen, stop, spc, scur, budget>>

-----------------------------------------------------------------------------
(* The life of a worker process.                                           *)

Stale(t) == status[t] = "WORKING" /\ lease[t] # "LIVE"

\* start(): the queue part of _cleanup_stale_tasks (whose error is logged and
\* ignored), then a new worker thread.  A stopped process may start again.
Start(w) ==
  /\ pc[w] \in {"new", "stopped", "died"}
  /\ spc[w] \in {"none", "done"}
  /\ \/ /\ status' = [t \in Tasks |-> IF Stale(t) THEN "WAITING" ELSE status[t]]
        /\ owner' = [t \in Tasks |-> IF Stale(t) THEN NoWorker ELSE owner[t]]
        /\ lease' = [t \in Tasks |-> IF Stale(t) THEN "NONE" ELSE lease[t]]
        /\ UNCHANGED faults
     \/ /\ faults < MaxFaults /\ faults' = faults + 1
        /\ UNCHANGED rows
  /\ Goto(w, "idle")
  /\ stop' = [stop EXCEPT ![w] = FALSE]
  /\ SpcGoto(w, "none")
  /\ UNCHANGED <<canceled, finished, mishap, cur, seen, scur,
                 crashes, lapses, stops>>

\* The process is killed; after a completed shutdown it simply exits.
Crash(w) ==
  /\ pc[w] \notin {"new", "dead"}
  /\ IF spc[w] = "done" THEN UNCHANGED crashes
     ELSE crashes < MaxCrashes /\ crashes' = crashes + 1
  /\ mishap' = mishap \cup {Mishap(t, "crash") : t \in {u \in Tasks : Runs(w, u)}}
  /\ Goto(w, "dead")
  /\ cur' = [cur EXCEPT ![w] = NoTask]
  /\ SpcGoto(w, "none")
  /\ scur' = [scur EXCEPT ![w] = NoTask]
  /\ seen' = [seen EXCEPT ![w] = "NONE"]
  /\ UNCHANGED <<rows, canceled, finished, stop, lapses, faults, stops>>

\* Time passes: a live lease runs out.  It counts as a lapse when its holder
\* still works on the task (a stalled process, a renewal that fails).
Expire(t) ==
  /\ status[t] = "WORKING" /\ lease[t] = "LIVE"
  /\ lease' = [lease EXCEPT ![t] = "EXPIRED"]
  /\ IF \E w \in Workers : owner[t] = w /\ Runs(w, t)
     THEN /\ lapses < MaxLapses /\ lapses' = lapses + 1
          /\ mishap' = mishap \cup {Mishap(t, "lapse")}
     ELSE UNCHANGED <<lapses, mishap>>
  /\ UNCHANGED <<status, owner, canceled, finished, pc, cur, seen, stop,
                 spc, scur, crashes, faults, stops>>

\* The filter of extend_lease: task_id and worker_id, nothing about expiry.
RenewFilter(w, t) == owner[t] = w

\* One round of the lease renewal thread.
Renew(w) ==
  /\ pc[w] \in InRun
  /\ \E t \in Tasks : /\ t = cur[w] /\ RenewFilter(w, t)
                      /\ lease[t] # "LIVE"
                      /\ lease' = [lease EXCEPT ![t] = "LIVE"]
  /\ UNCHANGED <<status, owner, canceled, finished, mishap, pc, cur,
                 seen, stop, spc, scur, budget>>

-----------------------------------------------------------------------------
(* The worker thread: _worker_impl and _run_task.                          *)

\* The head of the loop: while not self._shutdown.
Loop(w) ==
  /\ pc[w] = "idle"
  /\ Goto(w, IF stop[w] THEN "stopped" ELSE "poll")
  /\ UNCHANGED <<rows, canceled, finished, mishap, cur, seen, stop, spc,
                 scur, budget>>

NextUp(t) == Claimable(t) /\ \A u \in Tasks : Claimable(u) => Score[t] <= Score[u]

\* Seeded: claim forgets to write its worker_id.
Claim_Anonymous(w, t) ==
  /\ pc[w] = "poll" /\ RowLocks
  /\ NextUp(t)
  /\ SetRow(t, "WORKING", NoWorker, "LIVE")
  /\ Goto(w, "claimed")
  /\ cur' = [cur EXCEPT ![w] = t]
  /\ UNCHANGED <<canceled, finished, mishap, seen, stop, spc, scur, budget>>

\* claim() of a database with row locks, in one transaction: the claimable row
\* with the lowest score; ties in any order.
Claim(w, t) ==
  /\ pc[w] = "poll" /\ RowLocks
  /\ NextUp(t)
  /\ SetRow(t, "WORKING", w, "LIVE")
  /\ Goto(w, "claimed")
  /\ cur' = [cur EXCEPT ![w] = t]
  /\ UNCHANGED <<canceled, finished, mishap, seen, stop, spc, scur, budget>>

\* claim() where FOR UPDATE is ignored: the SELECT ...
ClaimRead(w, t) ==
  /\ pc[w] = "poll" /\ ~RowLocks
  /\ NextUp(t)
  /\ Goto(w, "read")
  /\ cur' = [cur EXCEPT ![w] = t]
  /\ seen' = [seen EXCEPT ![w] = status[t]]
  /\ UNCHANGED <<rows, canceled, finished, mishap, stop, spc, scur, budget>>

RowExists(t) == status[t] \in {"WAITING", "WORKING"}

\* ... and the UPDATE, of whatever the row is by now.  The session writes only
\* columns that differ from what it read, so a status read as WORKING is not
\* written; an UPDATE that matches no row raises (StaleDataError).
ClaimWrite(w) ==
  /\ pc[w] = "read"
  /\ LET t == cur[w] IN
       \/ /\ RowExists(t)
          /\ SetRow(t, IF seen[w] = "WORKING" THEN status[t] ELSE "WORKING", w, "LIVE")
          /\ mishap' = IF Claimable(t) /\ status[t] = seen[w] THEN mishap
                       ELSE mishap \cup {Mishap(t, "race")}
          /\ Goto(w, "claimed")
          /\ UNCHANGED cur
       \/ /\ ~RowExists(t)
          /\ Goto(w, "idle")
          /\ cur' = [cur EXCEPT ![w] = NoTask]
          /\ UNCHANGED <<rows, mishap>>
  /\ seen' = [seen EXCEPT ![w] = "NONE"]
  /\ UNCHANGED <<canceled, finished, stop, spc, scur, budget>>

\* claim() finds nothing, or raises.
ClaimNothing(w) ==
  /\ pc[w] = "poll"
  /\ \/ (\A t \in Tasks : ~Claimable(t)) /\ UNCHANGED faults
     \/ faults < MaxFaults /\ faults' = faults + 1
  /\ Goto(w, "idle")
  /\ UNCHANGED <<rows, canceled, finished, mishap, cur, seen, stop, spc,
                 scur, crashes, lapses, stops>>

\* Seeded: the record of an invalid payload is not written.
Validate_NoRecord(w) ==
  /\ pc[w] = "claimed"
  /\ Goto(w, IF cur[w] \in BadPayload THEN "invalid" ELSE "begin")
  /\ UNCHANGED <<rows, canceled, finished, mishap, cur, seen, stop, spc,
                 scur, budget>>

\* The payload of the claimed row is parsed; a bad one is reported FAILED.
Validate(w) ==
  /\ pc[w] = "claimed"
  /\ \/ /\ cur[w] \notin BadPayload
        /\ Goto(w, "begin")
        /\ UNCHANGED <<finished, mishap, budget>>
     \/ /\ cur[w] \in BadPayload
        /\ Goto(w, "invalid")
        /\ EnqueueFinished(cur[w], "FAILED")
  /\ UNCHANGED <<rows, canceled, cur, seen, stop, spc, scur>>

\* The row of an invalid task is deleted; an error is logged and ignored.
DropInvalid(w) ==
  /\ pc[w] = "invalid"
  /\ \/ DeleteOwned(cur[w], w) /\ UNCHANGED <<mishap, budget>>
     \/ Fault(cur[w]) /\ UNCHANGED rows
  /\ Goto(w, "idle")
  /\ cur' = [cur EXCEPT ![w] = NoTask]
  /\ UNCHANGED <<canceled, finished, seen, stop, spc, scur>>

\* _run_task up to the WORKING record; injecting the configs may raise.
Begin(w) ==
  /\ pc[w] = "begin"
  /\ \/ Goto(w, "exec") /\ EnqueueFinished(cur[w], "WORKING")
     \/ Goto(w, "bad") /\ UNCHANGED <<finished, mishap, budget>>
  /\ UNCHANGED <<rows, canceled, cur, seen, stop, spc, scur>>

\* The task itself (_exec_*_task) returns or raises.
Exec(w) ==
  /\ pc[w] = "exec"
  /\ Goto(w, "ok") \/ Goto(w, "bad")
  /\ UNCHANGED <<rows, canceled, finished, mishap, cur, seen, stop, spc,
                 scur, budget>>

ReportSuccess(w) ==
  /\ pc[w] = "ok"
  /\ EnqueueFinished(cur[w], "SUCCESS")
  /\ Goto(w, "okDelete")
  /\ UNCHANGED <<rows, canceled, cur, seen, stop, spc, scur>>

\* The row is deleted inside the try block: an error goes to the except branch.
DeleteDone(w) ==
  /\ pc[w] = "okDelete"
  /\ \/ DeleteOwned(cur[w], w) /\ Goto(w, "finally") /\ UNCHANGED <<mishap, budget>>
     \/ Fault(cur[w]) /\ Goto(w, "bad") /\ UNCHANGED rows
  /\ UNCHANGED <<canceled, finished, cur, seen, stop, spc, scur>>

\* The except branch of _run_task.
ReportFailure(w) ==
  /\ pc[w] = "bad"
  /\ EnqueueFinished(cur[w], "FAILED")
  /\ Goto(w, "badDelete")
  /\ UNCHANGED <<rows, canceled, cur, seen, stop, spc, scur>>

\* An error of this delete leaves _run_task and ends the worker thread.
DeleteFailed(w) ==
  /\ pc[w] = "badDelete"
  /\ \/ DeleteOwned(cur[w], w) /\ Goto(w, "finally") /\ UNCHANGED <<mishap, budget>>
     \/ Fault(cur[w]) /\ Goto(w, "unwind") /\ UNCHANGED rows
  /\ UNCHANGED <<canceled, finished, cur, seen, stop, spc, scur>>

\* The finally block: the renewal stops and in_progress is cleared.
Finally(w) ==
  /\ pc[w] \in {"finally", "unwind"}
  /\ Goto(w, IF pc[w] = "finally" THEN "idle" ELSE "died")
  /\ cur' = [cur EXCEPT ![w] = NoTask]
  /\ UNCHANGED <<rows, canceled, finished, mishap, seen, stop, spc, scur,
                 budget>>

-----------------------------------------------------------------------------
(* shutdown() and GET /prestop, in a thread of their own.                  *)

RequestStop(w) ==
  /\ pc[w] \notin {"new", "dead"} /\ spc[w] = "none"
  /\ stops < MaxStops /\ stops' = stops + 1
  /\ stop' = [stop EXCEPT ![w] = TRUE]
  /\ SpcGoto(w, "join")
  /\ UNCHANGED <<rows, canceled, finished, mishap, pc, cur, seen, scur,
                 crashes, lapses, faults>>

\* join(timeout=5.0) returns: the thread has ended, or _fail_in_progress_task
\* reads _in_progress_task, which is None outside _run_task.
JoinReturns(w) ==
  /\ spc[w] = "join"
  /\ IF pc[w] \in InRun
     THEN SpcGoto(w, "record") /\ scur' = [scur EXCEPT ![w] = cur[w]]
     ELSE SpcGoto(w, "done") /\ UNCHANGED scur
  /\ UNCHANGED <<rows, canceled, finished, mishap, pc, cur, seen, stop, budget>>

\* _fail_in_progress_task, first half: FAILED is reported for the task.
FailInProgress(w) ==
  /\ spc[w] = "record"
  /\ LET t == scur[w] IN
       \/ /\ finished' = IF "FAILED" \in CallbackStatuses
                         THEN finished \cup {Record(t, "FAILED")} ELSE finished
          /\ mishap' = mishap \cup {Mishap(t, "timeout")}
          /\ UNCHANGED budget
       \/ /\ faults < MaxFaults /\ faults' = faults + 1
          /\ mishap' = mishap \cup {Mishap(t, "timeout"), Mishap(t, "fault")}
          /\ UNCHANGED <<finished, crashes, lapses, stops>>
  /\ SpcGoto(w, "delete")
  /\ UNCHANGED <<rows, canceled, pc, cur, seen, stop, scur>>

\* Its second half: the row is deleted while the worker thread runs on.
DropInProgress(w) ==
  /\ spc[w] = "delete"
  /\ \/ DeleteOwned(scur[w], w) /\ UNCHANGED <<mishap, budget>>
     \/ Fault(scur[w]) /\ UNCHANGED rows
  /\ SpcGoto(w, "done")
  /\ scur' = [scur EXCEPT ![w] = NoTask]
  /\ UNCHANGED <<canceled, finished, pc, cur, seen, stop>>

-----------------------------------------------------------------------------
WorkerThread(w) ==
  \/ Loop(w) \/ ClaimNothing(w) \/ Validate(w) \/ DropInvalid(w) \/ Begin(w)
  \/ Exec(w) \/ ReportSuccess(w) \/ DeleteDone(w) \/ ReportFailure(w)
  \/ DeleteFailed(w) \/ Finally(w)
  \/ ClaimWrite(w)
  \/ \E t \in Tasks : Claim(w, t) \/ ClaimRead(w, t)

ShutdownThread(w) == JoinReturns(w) \/ FailInProgress(w) \/ DropInProgress(w)

Next ==
  \/ \E t \in Tasks : Enqueue(t) \/ Cancel(t) \/ Expire(t)
  \/ \E w \in Workers : \/ WorkerThread(w) \/ ShutdownThread(w)
                        \/ Start(w) \/ Crash(w) \/ Renew(w) \/ RequestStop(w)

Spec == Init /\ [][Next]_vars

\* A started thread keeps running, a launched process is started, and time
\* passes.  Nothing is assumed of clients, crashes, shutdowns or renewals.
Fairness ==
  /\ \A w \in Workers : WF_vars(WorkerThread(w)) /\ WF_vars(ShutdownThread(w))
  /\ \A w \in Workers : WF_vars(pc[w] = "new" /\ Start(w))
  /\ \A t \in Tasks : WF_vars(Expire(t))

FairSpec == Spec /\ Fairness

-----------------------------------------------------------------------------
Had(t, k) == Mishap(t, k) \in mishap
Reported(t) == \E s \in Terminal : Record(t, s) \in finished

\* Mutual exclusion of leases (worker.py _start_lease_renewal, queue.py claim):
\* as long as no lease on a task ran out under its holder, two worker threads
\* never hold that task at the same time.
OneHolder ==
  \A t \in Tasks : \A v, w \in Workers :
    Runs(v, t) /\ Runs(w, t) /\ v # w
      => Had(t, "lapse") \/ (Had(t, "race") /\ ~RowLocks)

\* No task vanishes (worker.py _run_task, _worker_impl, _fail_in_progress_task):
\* a row is gone only after a cancel or after the outcome was recorded, whatever
\* crashed in between, unless the record itself was lost to a database error.
NothingLost ==
  \A t \in Tasks :
    status[t] = "GONE" /\ Terminal \subseteq CallbackStatuses
      => t \in canceled \/ Reported(t) \/ Had(t, "fault")

\* One outcome (worker.py _run_task and server.py cancel): a task of which
\* nothing went wrong ends in at most one of canceled, SUCCESS and FAILED.
OneOutcome ==
  \A t \in Tasks :
    \/ \E k \in MishapKinds : Had(t, k)
    \/ ~ \/ Record(t, "SUCCESS") \in finished /\ Record(t, "FAILED") \in finished
         \/ t \in canceled /\ Reported(t)

\* Cancel is final (server.py cancel, worker.py claim): a canceled task is in no
\* worker's hands unless its lease had run out under the holder or its holder was
\* told to give it up.
CanceledStaysOut ==
  \A t \in canceled : \A w \in Workers : Runs(w, t) => Had(t, "lapse") \/ Had(t, "race")

\* A worker that lost its lease does not take the row from the new owner
\* (the worker_id filter of queue.py delete and extend_lease): a row that is
\* WORKING under w is changed only by w itself, by the clock, or when it is stale.
OwnerKeepsRow ==
  [][\A t \in Tasks : \A w \in Workers :
       /\ status[t] = "WORKING" /\ owner[t] = w /\ lease[t] = "LIVE"
       /\ <<status[t], owner[t]>>' # <<status[t], owner[t]>>
       => pc[w]' # pc[w] \/ spc[w]' # spc[w] \/ Had(t, "race")']_vars

\* Every submitted task leaves the queue (worker.py _worker_impl, queue.py claim)
\* as long as one worker survives.
Drains == \A t \in Tasks : status[t] = "WAITING" ~> status[t] = "GONE"
=============================================================================

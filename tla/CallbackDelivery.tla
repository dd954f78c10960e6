--------------------------- MODULE CallbackDelivery ---------------------------
(***************************************************************************)
(* Delivery of task callbacks from the parsing service to the document     *)
(* service: the thread process_finished_task of parsing_service/server.py, *)
(* which posts the rows of lazyllm_finished_task_queue one by one, and the *)
(* request threads of the document service that run on_task_callback       *)
(* (doc_service/doc_manager.py) behind a table of callback records.        *)
(*                                                                         *)
(* A row is posted as one request per item of its task.  The queue is      *)
(* ordered by finished_at; a retry moves finished_at into the future.      *)
(* What on_task_callback does with the callback is one step, Apply.        *)
(***************************************************************************)
EXTENDS Integers, SequencesExt

CONSTANTS
  Tasks,
  Outcomes,        \* the final statuses that workers report
  Items,           \* Items[t]: the items of task t, one callback for each
  Handlers,        \* request threads of the document service
  NoHandler, NoCallback,
  MaxAttempts,     \* CALLBACK_RETRY_MAX_ATTEMPTS
  MaxRows,         \* bound: rows ever enqueued
  MaxTroubles      \* bound: restarts of the parsing service, crashes of the
                   \* document service and database operations that raise

Statuses == {"WORKING"} \cup Outcomes
Ids == 1..MaxRows
Callbacks == UNION {[task : {t}, status : Statuses, item : 1..Items[t]] : t \in Tasks}

ASSUME DeliveryAssumption ==
  /\ Outcomes \subseteq {"SUCCESS", "FAILED"}
  /\ Items \in [Tasks -> Nat \ {0}]
  /\ NoHandler \notin Handlers
  /\ NoCallback \notin Callbacks
  /\ MaxAttempts \in Nat \ {0}
  /\ MaxRows \in Nat /\ MaxTroubles \in Nat

VARIABLES
  log,        \* every row ever enqueued; its position is its id
  queue,      \* ids of the rows in the table, ordered by finished_at
  due,        \* rows whose finished_at has passed
  attempts,   \* _callback_retry_attempts, in memory
  spc,        \* the posting thread
  row, item,  \* the row and the item that it posts
  on,         \* the request thread whose answer it awaits
  hpc, hcb,   \* the request threads and the callback each one serves
  records,    \* the table of callback records
  applied,    \* history: callbacks in the order of their application
  retried,    \* history: rows whose delivery was postponed
  dropped,    \* history: rows given up
  abandoned,  \* history: callbacks whose request was given up unanswered
  cut,        \* history: callbacks whose handler died or could not clean up
  troubles    \* how many of MaxTroubles there were

table == <<log, queue, due>>
sender == <<spc, row, item, on>>
threads == <<hpc, hcb>>
history == <<retried, dropped, abandoned, cut>>
vars == <<log, queue, due, attempts, spc, row, item, on, hpc, hcb, records,
          applied, retried, dropped, abandoned, cut, troubles>>

\* callback_id: a uuid5 of task_id, status and the index of the item.
Callback(id, k) == [task |-> log[id].task, status |-> log[id].status, item |-> k]

InQueue(id) == id \in Range(queue)
WasApplied(c) == c \in Range(applied)
\* A request thread between the commit of the callback record and its outcome.
Executes(h) == hpc[h] \in {"apply", "forget"}

TypeOK ==
  /\ log \in Seq([task : Tasks, status : Statuses]) /\ Len(log) <= MaxRows
  /\ queue \in Seq(1..Len(log))
  /\ due \subseteq 1..Len(log)
  /\ attempts \in [Ids -> Nat]
  /\ spc \in {"peek", "post", "wait", "clear", "failed", "rejected"}
  /\ row \in 0..Len(log) /\ item \in Nat
  /\ on \in Handlers \cup {NoHandler}
  /\ hpc \in [Handlers -> {"idle", "record", "apply", "forget", "ok", "err"}]
  /\ hcb \in [Handlers -> Callbacks \cup {NoCallback}]
  /\ \A h \in Handlers : hpc[h] # "idle" => hcb[h] \in Callbacks
  /\ records \subseteq Callbacks
  /\ applied \in Seq(Callbacks)
  /\ retried \subseteq Ids /\ dropped \subseteq Ids
  /\ abandoned \subseteq Callbacks /\ cut \subseteq Callbacks
  /\ troubles \in Nat

Init ==
  /\ log = << >> /\ queue = << >> /\ due = {}
  /\ attempts = [id \in Ids |-> 0]
  /\ spc = "peek" /\ row = 0 /\ item = 1 /\ on = NoHandler
  /\ hpc = [h \in Handlers |-> "idle"]
  /\ hcb = [h \in Handlers |-> NoCallback]
  /\ records = {} /\ applied = << >>
  /\ retried = {} /\ dropped = {} /\ abandoned = {} /\ cut = {}
  /\ troubles = 0

\* Something goes wrong that is not the network: a database operation raises.
Trouble ==
  /\ troubles < MaxTroubles
  /\ troubles' = troubles + 1

-----------------------------------------------------------------------------
(* The table.  finished_at orders it: the due rows come before the others. *)

\* The finished_at of a new row is now: after the due rows, before the others.
Arrive(id) ==
  \E k \in 1..(Len(queue) + 1) :
    /\ \A i \in DOMAIN queue : i < k <=> queue[i] \in due
    /\ queue' = InsertAt(queue, k, id)

\* A worker reports on a task: WORKING, then an outcome; a task that is run
\* again is reported again.
Enqueue(t, s) ==
  /\ Len(log) < MaxRows
  /\ s \in Outcomes =>
       \E i \in DOMAIN log : log[i] = [task |-> t, status |-> "WORKING"]
  /\ log' = Append(log, [task |-> t, status |-> s])
  /\ Arrive(Len(log) + 1)
  /\ due' = due \cup {Len(log) + 1}
  /\ UNCHANGED <<attempts, sender, threads, records, applied, history, troubles>>

\* Time reaches the finished_at of the first postponed row.
Elapse ==
  /\ \E i \in DOMAIN queue :
       /\ queue[i] \notin due
       /\ \A j \in 1..(i - 1) : queue[j] \in due
       /\ due' = due \cup {queue[i]}
  /\ UNCHANGED <<log, queue, attempts, sender, threads, records, applied, history,
                 troubles>>

-----------------------------------------------------------------------------
(* The posting thread: process_finished_task, _default_post_func,          *)
(* _schedule_callback_retry.                                               *)

\* Seeded: any row that is due is taken.
Peek_AnyDue ==
  /\ spc = "peek"
  /\ \E id \in due : InQueue(id) /\ row' = id
  /\ spc' = "post" /\ item' = 1
  /\ UNCHANGED <<table, attempts, on, threads, records, applied, history, troubles>>

Peek ==
  /\ spc = "peek"
  /\ queue # << >> /\ queue[1] \in due
  /\ row' = queue[1]
  /\ spc' = "post" /\ item' = 1
  /\ UNCHANGED <<table, attempts, on, threads, records, applied, history, troubles>>

\* Seeded: items are counted from zero, the callback is that of the one before.
Post_ItemZero(h) ==
  /\ spc = "post" /\ hpc[h] = "idle"
  /\ hpc' = [hpc EXCEPT ![h] = "record"]
  /\ hcb' = [hcb EXCEPT ![h] = Callback(row, item - 1)]
  /\ on' = h
  /\ spc' = "wait"
  /\ UNCHANGED <<table, attempts, row, item, records, applied, history, troubles>>

\* The request for one item reaches a request thread.
Post(h) ==
  /\ spc = "post" /\ hpc[h] = "idle"
  /\ hpc' = [hpc EXCEPT ![h] = "record"]
  /\ hcb' = [hcb EXCEPT ![h] = Callback(row, item)]
  /\ on' = h
  /\ spc' = "wait"
  /\ UNCHANGED <<table, attempts, row, item, records, applied, history, troubles>>

\* No connection, or an answer that says try again; a missing callback_url or
\* context, or a 4xx answer of something that is not on_task_callback.
PostFails ==
  /\ spc = "post"
  /\ spc' \in {"failed", "rejected"}
  /\ UNCHANGED <<table, attempts, row, item, on, threads, records, applied, history,
                 troubles>>

\* The 8 seconds are over, or the answer is lost; the request runs on.
Timeout ==
  /\ spc = "wait"
  /\ abandoned' = abandoned \cup {Callback(row, item)}
  /\ spc' = "failed" /\ on' = NoHandler
  /\ UNCHANGED <<table, attempts, row, item, threads, records, applied, retried,
                 dropped, cut, troubles>>

RemoveRow ==
  /\ \E i \in DOMAIN queue : queue[i] = row /\ queue' = RemoveAt(queue, i)
  /\ due' = due \ {row}
  /\ attempts' = [attempts EXCEPT ![row] = 0]
  /\ UNCHANGED <<log, troubles>>

\* The next round of the loop reads the table again.
NextRound == spc' = "peek" /\ row' = 0 /\ item' = 1

\* Every item was acknowledged: the row is deleted.
Clear ==
  /\ spc = "clear"
  /\ \/ RemoveRow
     \/ Trouble /\ UNCHANGED <<table, attempts>>
  /\ NextRound
  /\ UNCHANGED <<on, threads, records, applied, history>>

\* Seeded: the count of a row never grows.
NextAttempt_Stuck(id) == 1

NextAttempt(id) == attempts[id] + 1

\* A failure that is worth a retry moves the row behind every row that is due,
\* by a random delay; the last one drops the row.
Postpone ==
  /\ spc = "failed"
  /\ NextRound
  /\ \/ /\ NextAttempt(row) < MaxAttempts
        /\ attempts' = [attempts EXCEPT ![row] = NextAttempt(row)]
        /\ \/ /\ due' = due \ {row}
              /\ retried' = retried \cup {row}
              /\ \E i, k \in DOMAIN queue :
                   LET rest == RemoveAt(queue, i) IN
                     /\ queue[i] = row
                     /\ \A j \in DOMAIN rest : rest[j] \in due => j < k
                     /\ queue' = InsertAt(rest, k, row)
              /\ UNCHANGED <<log, troubles>>
           \/ Trouble /\ UNCHANGED <<table, retried>>
        /\ UNCHANGED dropped
     \/ /\ NextAttempt(row) >= MaxAttempts
        /\ \/ RemoveRow /\ dropped' = dropped \cup {row}
           \/ /\ Trouble
              /\ attempts' = [attempts EXCEPT ![row] = NextAttempt(row)]
              /\ UNCHANGED <<table, dropped>>
        /\ UNCHANGED retried
  /\ UNCHANGED <<on, threads, records, applied, abandoned, cut>>

\* A failure that is not worth one drops it at once.
Reject ==
  /\ spc = "rejected"
  /\ NextRound
  /\ \/ RemoveRow /\ dropped' = dropped \cup {row}
     \/ /\ Trouble
        /\ attempts' = [attempts EXCEPT ![row] = NextAttempt(row)]
        /\ UNCHANGED <<table, dropped>>
  /\ UNCHANGED <<on, threads, records, applied, retried, abandoned, cut>>

\* The parsing service restarts: the attempts are forgotten, the rows are not.
Restart ==
  /\ Trouble
  /\ attempts' = [id \in Ids |-> 0]
  /\ abandoned' = IF spc = "wait" THEN abandoned \cup {Callback(row, item)}
                  ELSE abandoned
  /\ NextRound /\ on' = NoHandler
  /\ UNCHANGED <<table, threads, records, applied, retried, dropped, cut>>

-----------------------------------------------------------------------------
(* The request threads: on_task_callback.                                  *)

HGoto(h, p) == hpc' = [hpc EXCEPT ![h] = p]

\* Seeded: a callback that was seen before is applied again.
Record_NoDedupe(h) ==
  /\ hpc[h] = "record"
  /\ records' = records \cup {hcb[h]} /\ HGoto(h, "apply")
  /\ UNCHANGED <<table, attempts, sender, hcb, applied, history, troubles>>

\* _record_callback, in a transaction of its own; it may raise.
Record(h) ==
  /\ hpc[h] = "record"
  /\ \/ /\ hcb[h] \notin records
        /\ records' = records \cup {hcb[h]}
        /\ HGoto(h, "apply")
     \/ /\ hcb[h] \in records
        /\ HGoto(h, "ok")
        /\ UNCHANGED records
     \/ HGoto(h, "err") /\ UNCHANGED records
  /\ UNCHANGED <<table, attempts, sender, hcb, applied, history, troubles>>

\* The body of on_task_callback returns, or raises.
Apply(h) ==
  /\ hpc[h] = "apply"
  /\ \/ applied' = Append(applied, hcb[h]) /\ HGoto(h, "ok")
     \/ HGoto(h, "forget") /\ UNCHANGED applied
  /\ UNCHANGED <<table, attempts, sender, hcb, records, history, troubles>>

\* Seeded: the except branch does not take the record back.
Forget_Skipped(h) ==
  /\ hpc[h] = "forget"
  /\ HGoto(h, "err")
  /\ UNCHANGED <<table, attempts, sender, hcb, records, applied, history, troubles>>

\* _forget_callback_record in the except branch; it may raise itself.
Forget(h) ==
  /\ hpc[h] = "forget"
  /\ \/ records' = records \ {hcb[h]} /\ UNCHANGED <<cut, troubles>>
     \/ Trouble /\ cut' = cut \cup {hcb[h]} /\ UNCHANGED records
  /\ HGoto(h, "err")
  /\ UNCHANGED <<table, attempts, sender, hcb, applied, retried, dropped, abandoned>>

\* The answer; nobody may be waiting for it any more.
Answer(h) ==
  /\ hpc[h] \in {"ok", "err"}
  /\ HGoto(h, "idle")
  /\ hcb' = [hcb EXCEPT ![h] = NoCallback]
  /\ \/ on # h /\ UNCHANGED <<spc, item, on>>
     \/ /\ on = h /\ on' = NoHandler
        /\ \/ hpc[h] = "err" /\ spc' = "failed" /\ UNCHANGED item
           \/ /\ hpc[h] = "ok" /\ item < Items[log[row].task]
              /\ spc' = "post" /\ item' = item + 1
           \/ /\ hpc[h] = "ok" /\ item >= Items[log[row].task]
              /\ spc' = "clear" /\ UNCHANGED item
  /\ UNCHANGED <<table, attempts, row, records, applied, history, troubles>>

\* The document service dies and comes back; its tables survive.
Crash ==
  /\ Trouble
  /\ cut' = cut \cup {hcb[h] : h \in {g \in Handlers : Executes(g)}}
  /\ hpc' = [h \in Handlers |-> "idle"]
  /\ hcb' = [h \in Handlers |-> NoCallback]
  /\ on' = NoHandler
  /\ spc' = IF on # NoHandler THEN "failed" ELSE spc
  /\ UNCHANGED <<table, attempts, row, item, records, applied, retried, dropped,
                 abandoned>>

-----------------------------------------------------------------------------
Sender ==
  \/ Peek \/ PostFails \/ Timeout \/ Clear \/ Postpone \/ Reject
  \/ \E h \in Handlers : Post(h)
Handler(h) == Record(h) \/ Apply(h) \/ Forget(h) \/ Answer(h)

Next ==
  \/ \E t \in Tasks, s \in Statuses : Enqueue(t, s)
  \/ Elapse \/ Sender \/ Restart \/ Crash
  \/ \E h \in Handlers : Handler(h)

Spec == Init /\ [][Next]_vars

\* The posting thread and the request threads run, and time passes.
Fairness == WF_vars(Sender) /\ WF_vars(Elapse) /\ \A h \in Handlers : WF_vars(Handler(h))
FairSpec == Spec /\ Fairness

-----------------------------------------------------------------------------
(* Properties.                                                             *)

\* Idempotence of callbacks (doc_manager.py _record_callback and the except
\* branch of on_task_callback): no callback is in the hands of two threads at
\* once, nor executed after it was applied, nor applied twice, whatever is
\* posted again, times out, restarts or crashes.
AppliedOnce ==
  /\ \A g, h \in Handlers :
       Executes(g) /\ Executes(h) /\ hcb[g] = hcb[h] => g = h
  /\ \A h \in Handlers : Executes(h) => ~WasApplied(hcb[h])
  /\ IsInjective(applied)

\* A row leaves the queue only when its callbacks were applied or the code gave
\* it up (server.py process_finished_task, _drop_callback_task), unless the
\* document service died in the middle of one, or the posting thread stopped
\* waiting for one that failed later: then the callback record that was left
\* behind acknowledges a callback that nobody applied.
GoneIsExplained ==
  \A id \in 1..Len(log) : \A k \in 1..Items[log[id].task] :
    ~InQueue(id) =>
      \/ WasApplied(Callback(id, k)) \/ id \in dropped
      \/ Callback(id, k) \in abandoned \cup cut

\* Rows leave the queue in the order in which the workers reported, except
\* those whose delivery was postponed (server.py _schedule_callback_retry).
NoOvertaking ==
  \A i, j \in 1..Len(log) : i < j /\ InQueue(i) /\ ~InQueue(j) => i \in retried

\* START is applied after FINISH only when its row was postponed (server.py
\* _schedule_callback_retry), its request was given up while it ran on, or the
\* task was run again: on_task_callback has no guard of its own against it.
StartBeforeFinish ==
  \A i, j \in DOMAIN applied :
    /\ applied[i].task = applied[j].task /\ applied[i].item = applied[j].item
    /\ applied[i].status = "WORKING" /\ applied[j].status \in Outcomes
    /\ j < i
    => \/ applied[i] \in abandoned
       \/ \E id \in retried : log[id] = [task |-> applied[i].task, status |-> "WORKING"]
       \/ \E m, n \in 1..Len(log) :
            /\ m < n /\ log[m].task = applied[i].task /\ log[n].task = applied[i].task
            /\ log[m].status \in Outcomes /\ log[n].status = "WORKING"

\* What the delivery says of the order of callbacks, in the queue and at its end
\* (server.py process_finished_task, _schedule_callback_retry): only a postponement,
\* a request given up or a second run of the task changes it.
Ordered == NoOvertaking /\ StartBeforeFinish

\* Every row leaves the queue: five failures are the end of any row.
QueueDrains == \A id \in Ids : InQueue(id) ~> ~InQueue(id)

\* The delivery implements the channel: callbacks are pending while a row or a
\* request thread still holds them.
Pending ==
  {c \in Callbacks :
     /\ ~WasApplied(c)
     /\ \/ \E id \in 1..Len(log) : InQueue(id) /\ Callback(id, c.item) = c
        \/ \E h \in Handlers : hpc[h] \in {"record", "apply"} /\ hcb[h] = c}
Channel == INSTANCE CallbackChannel WITH pending <- Pending, applied <- applied
ImplementsChannel == Channel!ChanSpec
=============================================================================

# LazyLLM: a verification project

LazyLLM is a Python library for building LLM applications. Most of it composes
functions, prompts and calls to models. Its concurrent and persistent core is the
RAG back end: a **document service** (`lazyllm/tools/rag/doc_service`), a **parsing
service** (`lazyllm/tools/rag/parsing_service/server.py`) and **workers**
(`worker.py`), three kinds of processes that share SQL tables and call each other
over HTTP. Two parts of the library proper run threads against each other as well: the
**flow Graph** (`lazyllm/flow/flow.py`) and **streaming calls**
(`lazyllm/module/stream_helper.py` over the queues of `lazyllm/common/queue.py`). This
project models these parts in TLA+, checks them with TLC and proves much of it with
TLAPS. Paths below are relative to `src/lazyllm/tools/rag/` where nothing else is said.

## 1. Inventory

| component | state | operations | what is hard | correct means |
|---|---|---|---|---|
| waiting queue and workers (`parsing_service/queue.py`, `worker.py`, endpoints of `server.py`) | rows of `lazyllm_waiting_task_queue` (status, worker_id, lease), the thread and the in-progress task of each worker, `_shutdown` | enqueue, cancel, claim, renew, run, record the outcome, delete the row, shutdown/prestop, startup cleanup | leases that lapse under a live worker, crashes between record and delete, databases without row locks, swallowed errors | no task is lost, none runs twice short of a lapse, a canceled task does not run, every task ends |
| callback delivery (`server.py` `process_finished_task`, `doc_manager.py` callback records) | rows of `lazyllm_finished_task_queue`, retry counters in memory, the table of callback records, request threads | enqueue, peek, post, postpone, drop, record, apply, forget | at-least-once posting, timeouts with late answers, restarts on both sides, reordering by retries | each callback is applied at most once, nothing disappears unexplained, START before FINISH |
| document lifecycle (`doc_service/doc_manager.py`) | document row, relations to knowledge bases, parse snapshots, task records | upload, reparse, delete, patch_metadata, cancel_task, on_task_callback, transfer | one request is many transactions; threads interleave; the parser call may fail after it took effect | no document is stuck; row, relation, snapshot and task agree; deleted documents are gone |
| node group coordination (`worker.py`, `impl.py`, `doc_manager.py`) | rows of `lazyllm_doc_node_group_status`, segments in the store | pending, decide, mark, build, settle, reset at startup | workers that wait for each other, crashes while WORKING, a cleanup against live workers | SUCCESS means that segments exist; nobody waits for a dead worker |
| algorithm and node group registry (`server.py`) | tables of algorithms and node groups | register, drop, lazy modes | reference checks in other transactions than the drops | no dangling reference |
| knowledge bases (`doc_manager.py`) | kb row, algorithm bindings, relations, doc_count | create, update, upload, delete, delete_kb, unbind_algo, the callbacks of their tasks | a deletion is finished by the callback of its last task; counts are read and used later | a deleted knowledge base disappears with its last document, and nothing else does |
| flow Graph (`lazyllm/flow/flow.py`) | edges, the cached order, futures in a pool of threads | add_edge, topological_sort, `_run` | each future blocks its thread on the futures of others | no deadlock in any pool, the outcome is that of the graph |
| streaming calls (`lazyllm/module/stream_helper.py`, `lazyllm/common/queue.py`) | queue rows of each session, the helper's current future, a shared pool | call, poll, drain, quit, cancel, close | a producer, a consumer and others that close at any moment | no message is lost, a closed stream runs nothing, on_cancel is called once |
| idempotent requests (`doc_manager.py` `run_idempotent`) | idempotency records | claim, execute, finish, cleanup | crash after the claim | a key executes at most once |
| node processor (`impl.py`), stores, readers, transforms, retrievers | segments | add, reparse, delete | mostly data | numbering, order of groups |

Interactions: a request of the document service writes its tables, then posts the task
to the parsing service, which inserts a row in the waiting queue. A worker claims the
row, builds node groups, and inserts START and FINISH rows in the finished queue. A
thread of the parsing service posts these to the document service, whose
`on_task_callback` writes snapshot, task record and document row. There is no
transaction across two of these tables: every arrow is a place where a crash, a
timeout or another thread gets in between.

The flow Graph and the streaming calls share nothing with these tables; each is modelled
on its own.

The rest of the repository (other flows, modules, launchers, agents, model components,
the C++ text splitters, other tools) is listed in `PROJECT.json` with the reason why it
is not modelled: sequential composition, I/O, or behaviour decided by a model or by a
cluster. `lazyllm/common/globals.py`, the job tables of
`tools/train_service/serve.py`, `Parallel` and the Redis queue are candidates.

## 2. Modules

| module | what it models |
|---|---|
| `ParseTaskQueue` | queue and workers; a worker thread has one action per statement that touches shared state (`Claim`, `Begin`, `Exec`, `ReportSuccess`, `DeleteDone`, ...), a second thread serves shutdown |
| `ParseTaskQueueProofs` | theorems about it |
| `CallbackChannel` | what delivery promises: an unordered channel that applies a callback at most once and may lose it |
| `CallbackDelivery` | posting thread, finished queue, request threads; implements `CallbackChannel` |
| `CallbackDeliveryProofs` | theorems about it: records and effects; order, losses and the refinement |
| `DocLifecycle` | one document in one or two knowledge bases; a request is a list of transactions, each an action |
| `DocLifecycleProofs` | theorems about it |
| `DocSerialProofs` | theorems about it with one request thread: the row and the deletions |
| `NodeGroupStatus` | the status rows of one document between requests, workers, crashes and the startup cleanup |
| `NodeGroupStatusProofs` | theorems about it |
| `KbLifecycle` | a knowledge base between creation and deletion: row, bindings, documents, snapshots, and the callbacks that finish a deletion |
| `KbLifecycleProofs` | theorems about it |
| `FlowGraph` | a call of the flow Graph: the sort, the submission of the futures, the threads that wait for each other |
| `FlowGraphProofs` | theorems about it |
| `StreamCall` | streaming calls: queue, futures, consumers, threads that close |
| `StreamCallProofs` | theorems about it |
| `MC...` | the instances of each for TLC |

How they fit together: each of the later modules takes over the part of the earlier
ones that it needs as an assumption. `DocLifecycle` reduces the parsing service to
`stage` (a task is queued, runs, ends or is canceled, as `ParseTaskQueue` shows) and to
`outbox` (a callback is applied once, late or never, as `CallbackDelivery` shows);
`NodeGroupStatus` reduces the document service to one atomic action per request and
the queue to its rows and leases. `KbLifecycle` takes from `DocLifecycle` that the check
of a callback and its writes belong together (that they may come apart is opened there)
and looks at what many documents do to one knowledge base. `FlowGraph` and `StreamCall`
stand alone.

### ParseTaskQueue
`status`, `owner`, `lease` are the columns of a task's row; time is reduced to
NONE/LIVE/EXPIRED, and a live lease may expire at any moment. `pc[w]` is the statement
the worker thread is at, `spc[w]` that of the thread serving `shutdown`/`prestop`.
`RowLocks` chooses between databases that honour `SELECT ... FOR UPDATE` (`Claim` is one
step) and SQLite, the default, which does not (`ClaimRead`, `ClaimWrite`). `mishap`
records what went wrong with a task, so that a property can say "unless".

### CallbackDelivery
`log` holds every row ever enqueued, `queue` the rows still in the table, in the order
of `finished_at`; `due` says which of them may be posted. `on` is the request thread
whose answer the posting thread awaits; after a `Timeout` that thread runs on alone.
A callback is identified as in `_default_post_func` by task, status and item.
Refinement mapping: a callback is `pending` in the channel when a row that is still in
the table, or a request thread, may yet apply it.

### DocLifecycle
`job[h]` is the request a thread serves with the list of operations that it has ahead;
each operation is one transaction of `doc_manager.py` or one call of the parser, and
other threads run between them. What a request reads before its first write is one
step with it; so are the commit of a callback's record and the reads that follow.
`hurt` holds the tasks a trouble befell: a parser call that failed or seemed to fail, a
callback that was lost, or a crash.

### NodeGroupStatus
`ng` is the row of each node group, `chunks` the groups that have segments, `job[w]` what
a worker does. Groups are siblings; a task concerns all of them. A worker that
starts goes through `Requeue`, `Spare` and `Reset`, the three sessions of
`_cleanup_stale_tasks`. `mishap` is set by events which the code does not survive and
which the properties therefore exclude: a lost status write, a cancel of a task that
was requeued after a worker had begun it, a delete that fails midway, segments removed
under another task, a failing transfer over groups that are built, and the death of a
worker at a task that it had lost to another. Each is listed as a hazard. `late` is set
when a task that is no longer the current one of the document takes its data away: a
delete that runs after the upload which superseded it removes the segments of that
upload, and a document that was purged takes the callback of an older task for its own.
With three tasks `SuccessHasChunks` and `ParsedIsComplete` are false without it.

### KbLifecycle
`kb`, `count`, `bindings`, `rel` and `snap` are the rows. `todo[t]` is what the handler in
thread `t` has still to commit: a request is admitted with its list of transactions, a
callback appends those that `on_task_callback` makes after record and snapshot
(`Cleanup`), and some steps add others (`After`): the removal of a document is followed by
`finalize`. The parsing service is the `phase` of each task. Two documents are handled
in any order (`Orders`), since the queries have no ORDER BY. `mishap`, `stray` and `raced` are
history: a trouble, an overlap of requests, or an upload during a deletion of the document
or the knowledge base; a document added when there was no row; an algorithm bound or unbound
while an unbinding was on its way.

### FlowGraph
`inputs` and `outs` are the edges as `add_edge` leaves them, `cache` is `_sorted_nodes`. The
sort takes nodes one by one (`Pop`), any of those ready; `Submit` hands the futures to the
pool in the order of the sort; a thread takes the first that waits (`Take`), reads its inputs
one by one (`Read`, which blocks) and computes. `tainted` says that the graph was changed
after a sort had been cached or that an edge was refused (the refusal comes after one of
its two lists was changed): nothing promises anything of such a graph.

### StreamCall
`rows[g]` is the queue of a stream's session, `future[g]` its call; the pool is bounded.
A consumer polls, fetches, yields, and after the end of the call fetches once more; `quit`
is a generator closed early. `close` is three steps (`RequestCancel`, `Notify`, `Join`), since
`on_cancel` is called outside the lock; closers are other threads. `Overlap` says whether a
helper is called while another stream of it is open.

## 3. What is checked

| run | instance | shows |
|---|---|---|
| `queue_safety` | 2 workers, 2 tasks (one invalid), 1 crash, 1 lapse, 1 database error, 1 shutdown, row locks | `OneHolder` (mutual exclusion short of a lapsed lease), `NothingLost` (a row goes only after cancel or a record), `OneOutcome`, `CanceledStaysOut`, `OwnerKeepsRow` |
| `queue_sqlite` | the same without row locks, 1 crash, 1 lapse | `Drains`: every task leaves the queue although claims race |
| `callback_delivery` | 3 rows of one task, 2 threads, 2 attempts, 1 trouble | `AppliedOnce`, `Ordered` (rows leave in the order of the reports and START comes before FINISH, unless one was postponed), `GoneIsExplained`, and `ImplementsChannel`, the refinement |
| `callback_liveness` | 2 rows of a task with 2 items, 1 thread, 2 attempts, 1 trouble | `QueueDrains`: rows do not stay for ever, even when each delivery fails |
| `doc_serial` | 1 thread, 3 tasks, 2 knowledge bases, 2 algorithms, 1 trouble | all document properties when requests and callbacks do not overlap |
| `doc_concurrent` | 2 threads, 2 tasks, 1 trouble | `RecordsAgree`, `Settles` survive interleaving |
| `doc_stale` | violation | a stale callback overwrites a reparse |
| `groups` | 2 workers, 2 groups, 2 tasks, 1 trouble | `NoRowLeftWorking`, `SuccessHasChunks`, `ParsedIsComplete` through crashes and retries; `EveryTaskEnds`: no circular wait |
| `groups_deleted` | violation | status rows of a deleted document |
| `kb` | 2 documents, 2 algorithms, 2 threads, 3 requests, 3 tasks, 1 trouble | `CountTrue`, `AtRest` (nothing half deleted, no document lost), `Bound` (an algorithm is left), `DeletionEnds` |
| `graph` | 3 functions, every subset of 6 edges, 1 edge added, 2 calls, 1 function that raises, 2 threads | `OutcomeRight`, `NeverStuck`, `FiresInOrder` |
| `stream` | 3 streams, two of one helper, 1 pool thread, 1 closer, up to 2 messages | `Delivered`, `Joined`, `CalledOnce`, `StreamEnds` |

Bounds. Two of everything that can conflict: two workers or threads are enough for a
race on one row, and all races in this code are between two parties at one row or
document. Three rows let a START, its repetition and a FINISH pass each other; three
tasks of a document let an add, a reparse and a delete overtake one another; two groups
and two tasks let two workers wait for each other. A knowledge base of two documents has
a deletion that is finished by the second callback; three requests allow delete, create
anew and upload. Three functions in two threads are more than the pool holds, the six
edges hold a join, a fork and a cycle. One thread in the pool lets a stream be canceled
before it runs. One trouble per run finds the loss of each single step. Every bound is a
constant that occurs in a guard, and bounded quantities are troubles and requests, never
the reaction of the code to them. Deadlock is not checked: every system here may rest
when no request arrives; that a call of the graph does not get stuck is `NeverStuck`.

Symmetry. `queue_safety` permutes the workers, `callback_delivery` the handlers and
`doc_serial` the knowledge bases: none of these is told apart by the code or by a
property. These three runs check invariants and action properties only (the
specification of `CallbackChannel` has no fairness conjunct); every run with a liveness
property is without symmetry.

Fairness. A thread that can take a step takes it (`WF` of a worker thread, the posting
thread, request threads): they are ordinary threads in `while` loops that sleep for a
bounded time. A launched worker process starts. Time passes (`Expire`, `Elapse`). In
`DocLifecycle` a posted callback is served in the end although requests compete for the
thread (`SF` of `Receive`); HTTP servers queue requests. In `KbLifecycle` handlers run on and
tasks are worked on and reported, which is what the queue and delivery runs show. In
`StreamCall` a call gets its thread and returns, and a generator is consumed or closed by
whoever called it. `FlowGraph` states no fairness: a call makes finitely many steps, so
that one which is never stuck ends. Nothing is assumed of clients, crashes, shutdowns,
lease renewals or restarts.

Claims that need serial requests. `RowAgrees` and `DeletedStaysGone` fail with two threads
and are therefore claimed for one: `upload` binds a document and enqueues its task in
different transactions (doc_manager.py:987-994), so a delete that completes in between
marks the new upload as deleted; and a purge can follow a cancel callback that was ignored
as stale. `StaleIgnored` is claimed, and proved, for one thread. The run `kb` has callbacks that come between the transactions of a request but
no two requests at once, with which `AtRest` claims nothing (`mishap`). `Joined` and
`CalledOnce` need a helper whose streams follow one another (see 5); `TypeOK` and
`Delivered` do not, and are proved without.

## 4. What is proved

For every value of the constants, without the bounds of the runs:

* `ParseTaskQueueProofs`
  * `TypeCorrect`: `Spec => []TypeOK`. The inductive invariant adds that a thread that
    holds a task has one (`Holding`).
  * `HoldersExclude`: `Spec => []OneHolder`. Exclusion is not inductive by itself: a
    second claim is only impossible because the first holder's row is WORKING in its
    name with a live lease. `HoldInv` says so for every task nothing happened to
    (`HolderOwns`), with `Exclusive` and `CanceledGone`; `LocksPreventRaces` removes
    the read-then-write claim when the database locks rows.
  * `CancelIsFinal`: `Spec => []CanceledStaysOut`, from the same invariant.
  * `NoTaskVanishes`: `Spec => []NothingLost`. The strengthening says that a thread past
    its report has a record of the task (`RecordedFirst`), and that a row that is gone
    keeps its explanation.
  * `OutcomeIsUnique`: `Spec => []OneOutcome`. Of an untroubled task, what has been reported
    is gone or in the hands of the thread that reported it (`Settled`), and what a thread
    runs is not gone (`RowStays`), so that nobody else can report or cancel it.
  * `OwnersKeepRows`: `Spec => OwnerKeepsRow`, the action property, one action at a time.
* `CallbackDeliveryProofs`
  * `DeliveryTyped`: `Spec => []TypeOK`, with what the posting thread holds in each state.
  * `CallbacksAreIdempotent`: `Spec => []AppliedOnce`. The invariant `Once` says that a
    callback in execution has a record, that one thread executes it, and that an
    applied callback keeps its record: the record is what the two threads that were
    handed the same callback contend for, and it is only taken back by the thread that
    failed to apply it.
  * `DeliveryIsOrdered`: `Spec => []Ordered`. The row that is posted is the first, and only
    postponed rows are behind one that came later (`Lined`); a callback that is handled
    or applied is that of a row before which all others are gone or postponed
    (`AllPosted`). Hence a FINISH is not handled before the START of its task has left.
  * `NoRowVanishes`: `Spec => []GoneIsExplained`. A record stands for a callback that is applied,
    being executed or cut off, and a row is cleared only after each of its items was
    answered (`Answers`); a request that runs is the awaited one or was given up (`Hands`).
  * `DeliveryImplementsChannel`: `Spec => ImplementsChannel`. Under the mapping of
    `CallbackDelivery` each action is a step `Send`, `Lose` or `Deliver` of `CallbackChannel` or
    leaves its variables alone. `AppliedOnce` is what makes the effect of a callback
    a `Deliver`: the channel has no second one.
* `NodeGroupStatusProofs`, for any number of groups, workers, tasks and troubles
  * `TypeCorrect`: `Spec => []TypeOK`, with what the step of a worker says of its task.
  * `RowsEndSettled`: `Spec => []NoRowLeftWorking`. For every row WORKING there is a worker that
    has the group ahead, or a task that had begun and will be claimed anew
    (`WorkingExplained`).
  * `SuccessIsTrue`: `Spec => []SuccessHasChunks`. A delete that has removed segments is the only
    task left, and the document waits for it (`Deletion`); a worker that settles has
    built its groups (`BuiltThere`); a row SUCCESS is without segments only while a
    reparse builds them anew or a delete is current (`SuccessThere`).
  * `ParsedHasSegments`: `Spec => []ParsedIsComplete`. A document is reported as parsed by a
    task that is no delete (`SuccessIsParsing`), and then every row is past PENDING
    (`AllTouched`); what the row of a group says is true by `SuccessThere`.
* `KbLifecycleProofs`, for all documents, algorithms, threads and bounds
  * `TypeCorrect`: `Spec => []TypeOK`. The code never checks that a transaction has the document
    it writes; the lists of transactions are made so (`FitOps`), and neither snapshot nor handler
    names a task that does not exist (`Named`).
  * `CountIsTrue`: `Spec => []CountTrue`. A knowledge base without a row has no document
    (`Counted`), unless one was added without a row, so that a row may begin with 0.
  * `AlgorithmStays`: `Spec => []Bound`. `unbind_algo` counts the bindings when it is asked
    and a callback removes one much later. Without a mishap one algorithm at most is on its
    way out, and another is left or about to be bound (`Spared`). This needs that requests come one
    after the other (`OneRequest`), that who makes the row of a knowledge base binds an algorithm
    after it while no deletion is on its way (`Founding`), and that a callback has only the
    transactions of its own task ahead (`Handled`).
  * `KnowledgeBaseAtRest`: `Spec => []AtRest`. `AtRest` speaks of the moments when nothing is on
    its way, so the invariant has to say what is still to come. For each document
    (`Settled`): its snapshot belongs to one of its tasks (`SnapFits`); one that lives has no
    deletion on its way and no newer unbinding (`Lives`); who uploads it finds no other
    task of it (`Comes`); what a handler found out when the request was checked still holds
    when its turn comes (`Agrees`). For the knowledge base (`Rests`): while a deletion of it is
    on its way (`Era`), something will end in its removal (`Underway`), and each document is
    to be purged (`Covered`): by a task that is not stale, by one that the request has still to
    submit, or by a handler. A purge takes the relation before the snapshot (`Dropped`), finds
    the snapshot of its task or of a newer deletion (`Purging`), and comes after the unbindings
    of its document (`Order`); without a row nothing is left (`Void`), and nothing is made but
    by who makes the row first (`There`). The lists of transactions have one of a few shapes
    (`Sorted`). A callback that was broken off has its effect when it is delivered again: this
    needs that no other task of the document comes in between, else it is a mishap.
* `DocLifecycleProofs`, for all knowledge bases, algorithms and threads
  * `TypeCorrect`: `Spec => []TypeOK`. It rests on the shape of the lists of operations:
    which may follow which (`Ordered`), what a handler that reports an outcome has
    (`Told`), and how many task ids are still to be drawn (`Drawn`).
  * `RecordsStayTogether`: `Spec => []RecordsAgree`, for any number of threads. A task belongs to
    one knowledge base (`Owned`). The parsing service knows how far a task is
    (`Staged`), so no two threads write outcomes of one task that was
    spared (`Alone`); a thread between its two writes has written the record (`Written`), and a
    snapshot differs from its record only while such a thread exists (`Linked`).
  * `NoSnapshotIsStuck`: `Spec => []NothingStuck`. For each snapshot that is not settled the
    task is still queued or running, its outcome is in the outbox, or a thread will write it
    (`Expected`); the outcome follows the news that the task began (`Followed`), and a record is
    canceled only after the parsing service agreed (`Marked`).
  * `StaleIsIgnored`: with one thread, `Spec => StaleIgnored`. A thread that submits a task or has
    its snapshot still to write has the task that the snapshot names (`Current`): this is what
    the check of a callback reads, and what a second thread may change (`doc_stale`).
* `DocSerialProofs`, with one thread (`\A g, h \in Threads : g = h`), for all knowledge bases,
  algorithms and bounds. Both invariants are about the moments when no request is being
  served, and neither is inductive: a request is many transactions. `Paths` says which
  operation follows which in the list of a thread, so that what is not yet true between
  two transactions is still ahead in the list.
  * `RowAgreesWithRelations`: `Spec => []RowAgrees`. `Rowed` says at each place of a list what of
    row and relations may disagree and which operation ahead will settle it. A callback
    writes the row of a document that is in no knowledge base only after it wrote a snapshot
    of it: this is the ghost that `RowAgrees` excepts (see 5).
  * `DeletedDocumentsStayGone`: `Spec => []DeletedStaysGone`. The outcome of a task is its last
    callback (`Finals`), and a task that has not ended has no final record unless it was
    hurt (`Unsettled`). A snapshot that is DELETED has lost its relation, or who wrote it
    has the removal ahead (`Left`). Until a deletion has ended and reported it, the snapshot waits
    for it, and no later task of that knowledge base exists (`Deletions`); so once it has
    succeeded, only an older task could still write nodes, and only one without a final record
    (`Emptied`). A snapshot of a document outside its knowledge base is that of a task older
    than the last one (`Ghosts`).
* `FlowGraphProofs`, for every finite set of functions, every graph and every pool
  * `TypeCorrect`: `Spec => []TypeOK`.
  * `OrderKept`: `Spec => FiresInOrder`.
  * `NoDeadlock`: `Spec => []NeverStuck`. Of the nodes submitted whose future is not done
    take the first in the order of the sort (`LeastExists`). Its inputs come before it
    (`Sound`), so they are done or have raised. If a thread has it, that thread can go
    on; if it is queued, so is every later one (`CallState`: futures are begun in
    order), and then a thread is free.
  * `OutcomesRight`: `Spec => []OutcomeRight`. `Clean` relates the degrees of the sort to the
    nodes it has taken, so that the sort ends short of a node exactly in a graph with a
    cycle; `Blame` says that what raised did so itself or has an input that raised.
* `StreamCallProofs`, for all streams, helpers, closers and pools
  * `TypeCorrect`: `Spec => []TypeOK`, with the bound of the pool.
  * `MessagesDelivered`: `Spec => []Delivered`, with overlapping streams as well. The
    invariant `StreamInv` says what is left in queue and batch at each place of the
    consumer; that the last fetch comes after the end of the call is what makes it
    inductive.
  * `ClosedIsJoined`, `CancelCalledOnce`: under `~Overlap`, `[]Joined` and `[]CalledOnce`. `Owner`
    says that the helper has the future of its open stream, `CallInv` that one thread at
    most is between the mark `_cancel_notified` and the call of `on_cancel`, and that the
    mark stays for as long as the helper has that future.

Assumptions: the named `ASSUME` of each module (constants are naturals, sets that are
counted are finite, the nulls are not elements of their sets; a knowledge base that is
there at the beginning has an algorithm, as `create_kb` binds one), `~Overlap` where it
is named, and one thread for `StaleIsIgnored` and in `DocSerialProofs`; nothing else.

Every inductive invariant above was first checked by TLC on the instance of its
component.

Only model-checked:

* Liveness (`Drains`, `QueueDrains`, `Settles`, `EveryTaskEnds`, `DeletionEnds`, `StreamEnds`),
  since the provers have neither fairness nor ENABLED.

## 5. Findings

* `doc_stale`: `on_task_callback` checks for a stale callback once, then writes in later
  transactions. A reparse in between is undone in the snapshot, and its own callbacks
  are then ignored.
* `groups_deleted`: a delete overtakes a waiting reparse, which then recreates status rows
  and segments of the deleted document.

The properties' exceptions show more; each was met by relaxing a property or by reading:

* A callback whose handler died is acknowledged by its record and never applied
  (`GoneIsExplained`); a postponed START may follow the FINISH of its task (`Ordered`); a
  task reported SUCCESS may also be reported FAILED when the delete of its row raises
  (`OneOutcome`); rows that say SUCCESS may lack segments after a failed delete or
  transfer, or when a delete runs after the upload that superseded it
  (`SuccessHasChunks`).
* The comment at queue.py:91 promises FIFO within a priority; the sort needs a column
  `queued_at` that the queue tables do not have.
* The docstring of `_cleanup_stale_tasks` (worker.py:150-153) promises a check of
  `updated_at` that the code does not make; the cleanup may fail the rows of a live worker.
* `unbind_algo` counts the bindings when it is called and removes one in a later callback:
  two of them, one after the other, leave a knowledge base without an algorithm
  (`raced` in `Bound`; the test at test_doc_service_doc_manager.py:1720 says that the last
  one cannot go).
* `delete_kb` purges on the spot what needs no task. When that comes after the last
  callback, the knowledge base stays DELETING; and the end of an old deletion may remove a
  knowledge base that was created anew (`mishap` in `AtRest`).
* A callback may bring back the snapshot of a document that is gone. `on_task_callback` ignores
  a callback as stale when the snapshot names another task (`if snapshot and ...`,
  doc_manager.py:1288), so not when there is no snapshot. The delete of a document whose upload
  still waits cancels that upload and purges relation and snapshot; an older task of the document,
  which the upload had superseded, then reports or is canceled and writes a new snapshot, and
  with it the status of the row. When the document leaves its other knowledge base before
  that, it is in none, yet its row says WORKING or SUCCESS. It takes five tasks, one thread and no
  trouble, more tasks than the runs have: the attempt to prove `RowAgrees` as it first was
  (without `Ghost`) found it. `NoGhost` says that it has no other cause.
* For the same reason an old deletion may take out a document that was uploaded anew. A document
  is deleted, then its knowledge base, whose purge supersedes the delete task and drops the
  snapshot; the knowledge base is created and the document uploaded again, and before the new
  task is in the snapshot the callback of the old delete comes. No snapshot names another
  task, so it is applied and removes the document, while the new upload goes on. It takes
  four requests and three tasks, one request more than the run `kb` has; TLC found it at these
  bounds when the proof of `AtRest` failed. Such an upload is a mishap now (`Touched`).
* A `StreamCallHelper` that is called while a stream of it is open forgets that stream's
  future: closing the first one then cancels the second (`Overlap`).
* `Graph.add_edge` appends to one list before it refuses a duplicate, and an edge added after
  a call is not in the cached order (`tainted`).

## 6. Not modelled, and the plan

Left out of the modelled components: HTTP and validation, transfer, batches of documents
and `delete_kb` of several, nested node groups, reparse of selected groups, a user's
`task_poller` and `post_func`, two threads that read one worker's `_in_progress_task` while
it changes, asynchronous streams (one event loop; the threads are those of the model),
constant edges and formatters of the flow Graph. The other flows compose sequentially,
save `Parallel`, whose barrier (flow.py:543) waits for all items in a pool that may be
smaller. `RedisQueue` reads and trims in two commands (queue.py:255).

What is checked answers the most important questions of each component. In order of
importance, what could come next:

1. `Idempotency`: claim, execute, finish, cleanup; a key executes at most once within
   its time to live; an abstract "once" register as its specification.
2. Transfers between two knowledge bases.
3. `DocService`: queue, delivery and lifecycle composed, with the reductions above as
   refinements instead of assumptions.
4. `AlgoRegistry`, `Parallel`, the Redis queue.

New runs take the place of runs whose question a composed module answers as well.

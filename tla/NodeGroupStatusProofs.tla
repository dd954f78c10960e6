------------------------ MODULE NodeGroupStatusProofs ------------------------
(***************************************************************************)
(* Proofs about NodeGroupStatus, for any number of node groups, workers,   *)
(* tasks and troubles: its types (TypeCorrect), that no status row is left *)
(* WORKING (RowsEndSettled), that a row SUCCESS has segments               *)
(* (SuccessIsTrue) and that a document reported as parsed has them all     *)
(* (ParsedHasSegments).  Each is an invariant of the steps in between:     *)
(* who will still write a row WORKING (WorkingExplained), what a deletion  *)
(* has done so far (Deletion), what a worker that settles has built        *)
(* (BuiltThere), why a row SUCCESS may be without segments for a while     *)
(* (SuccessThere), and which rows the current task has gone through        *)
(* (Passed).                                                               *)
(***************************************************************************)
EXTENDS NodeGroupStatus, SequenceTheorems, TLAPS

-----------------------------------------------------------------------------
(* Types, and what a worker's step says of its task.                       *)

Marks == {None, "PENDING", "WORKING", "SUCCESS", "FAILED"}
Pcs == {"down", "spare", "reset", "idle", "decide", "mark", "clear", "build", "settle", "end"}
TaskRec == [type : Types, record : {"WAITING", "DELETING", "WORKING", "DONE", "CANCELED"},
            ran : BOOLEAN]
Message == [task : Ids, status : {"WORKING", "SUCCESS", "FAILED"}]
JobRec == [pc : Pcs, task : 0..MaxTasks, exec : SUBSET G, n : 1..Groups + 1, ok : BOOLEAN]

\* A worker is at a task from its claim to its end; a delete builds nothing, a
\* reparse everything; only a delete and a reparse remove what is there first.
JobFits(j) ==
  /\ j.task <= Len(tasks)
  /\ j.task = 0 <=> j.pc \in {"down", "spare", "reset", "idle"}
  /\ j.pc \in {"mark", "build"} => j.exec # {}
  /\ j.task # 0 =>
       /\ tasks[j.task].ran
       /\ tasks[j.task].type = "DELETE" => j.pc \in {"clear", "end"} /\ j.exec = {}
       /\ tasks[j.task].type = "REPARSE" => j.exec = G /\ j.pc # "decide"
       /\ j.pc = "clear" => tasks[j.task].type \in {"DELETE", "REPARSE"}
       /\ j.pc \in {"decide", "mark", "clear"} => j.ok

Jobs == \A w \in Workers : JobFits(job[w])
Sent == \A i \in DOMAIN outbox : outbox[i].task <= Len(tasks)
Snapped == current = 0 => status = None
Typed == TypeOK /\ Jobs /\ Sent /\ Snapped

\* What no step takes back of a task.
Later ==
  /\ Len(tasks) <= Len(tasks')
  /\ \A i \in 1..Len(tasks) :
       tasks'[i].type = tasks[i].type /\ (tasks[i].ran => tasks'[i].ran)

\* Only w's job changes.
Moves(w) ==
  /\ job' \in [Workers -> JobRec]
  /\ \A u \in Workers \ {w} : job'[u] = job[u]

LEMMA JobType == ASSUME TypeOK PROVE job \in [Workers -> JobRec]
  BY DEF TypeOK, JobRec, Pcs

LEMMA TaskType ==
  ASSUME TypeOK, NEW i \in 1..Len(tasks)
  PROVE  tasks[i] \in TaskRec /\ tasks[i].ran \in BOOLEAN /\ tasks[i].type \in Types
  <1>1. tasks \in Seq(TaskRec)
    BY DEF TypeOK, TaskRec
  <1>2. tasks[i] \in TaskRec
    BY <1>1
  <1> QED BY <1>2 DEF TaskRec

LEMMA MessageType ==
  ASSUME TypeOK, NEW i \in DOMAIN outbox
  PROVE  outbox[i] \in Message /\ outbox[i].task \in Nat
  <1>1. outbox \in Seq(Message)
    BY DEF TypeOK, Message
  <1>2. outbox[i] \in Message
    BY <1>1
  <1> QED BY <1>2, GroupAssumption DEF Message, Ids

LEMMA GotoMoves ==
  ASSUME TypeOK, NEW w \in Workers, NEW pc \in Pcs, Goto(w, pc)
  PROVE  /\ Moves(w) /\ job'[w].pc = pc /\ job'[w].n = 1 /\ job'[w].task = job[w].task
         /\ job'[w].exec = job[w].exec /\ job'[w].ok = job[w].ok
  <1> DEFINE j == [job[w] EXCEPT !.pc = pc, !.n = 1]
  <1>1. job \in [Workers -> JobRec] /\ job[w] \in JobRec /\ 1 \in 1..Groups + 1
    BY JobType, GroupAssumption
  <1>2. /\ j \in JobRec /\ j.pc = pc /\ j.n = 1 /\ j.task = job[w].task
        /\ j.exec = job[w].exec /\ j.ok = job[w].ok
    BY <1>1 DEF JobRec
  <1>3. job' = [job EXCEPT ![w] = j]
    BY DEF Goto
  <1> HIDE DEF j
  <1> QED BY <1>1, <1>2, <1>3 DEF Moves

LEMMA FailsMoves ==
  ASSUME TypeOK, NEW w \in Workers, NEW pc \in Pcs, Fails(w, pc)
  PROVE  /\ Moves(w) /\ job'[w].pc = pc /\ job'[w].n = 1 /\ job'[w].task = job[w].task
         /\ job'[w].exec = job[w].exec /\ job'[w].ok = FALSE
  <1> DEFINE j == [job[w] EXCEPT !.ok = FALSE, !.pc = pc, !.n = 1]
  <1>1. job \in [Workers -> JobRec] /\ job[w] \in JobRec /\ 1 \in 1..Groups + 1
    BY JobType, GroupAssumption
  <1>2. /\ j \in JobRec /\ j.pc = pc /\ j.n = 1 /\ j.task = job[w].task
        /\ j.exec = job[w].exec /\ j.ok = FALSE
    BY <1>1 DEF JobRec
  <1>3. job' = [job EXCEPT ![w] = j]
    BY DEF Fails
  <1> HIDE DEF j
  <1> QED BY <1>1, <1>2, <1>3 DEF Moves

\* The jobs that do not change fit as before.
LEMMA OthersFit ==
  ASSUME Typed, Later, NEW w \in Workers, Moves(w), JobFits(job[w])'
  PROVE  Jobs'
  <1> SUFFICES ASSUME NEW u \in Workers, u # w PROVE JobFits(job[u])'
    BY DEF Jobs
  <1>1. JobFits(job[u]) /\ job'[u] = job[u] /\ job[u] \in JobRec
    BY JobType DEF Typed, Jobs, Moves
  <1>2. Len(tasks) \in Nat /\ Len(tasks') \in Nat /\ job[u].task \in Nat
    BY <1>1, GroupAssumption DEF Typed, TypeOK, JobRec, Later, JobFits
  <1> QED BY <1>1, <1>2 DEF JobFits, Later

LEMMA AllFit ==
  ASSUME Typed, Later, job' = job
  PROVE  Jobs'
  <1> SUFFICES ASSUME NEW u \in Workers PROVE JobFits(job[u])'
    BY DEF Jobs
  <1>1. JobFits(job[u]) /\ job'[u] = job[u] /\ job[u] \in JobRec
    BY JobType DEF Typed, Jobs
  <1>2. Len(tasks) \in Nat /\ Len(tasks') \in Nat /\ job[u].task \in Nat
    BY <1>1, GroupAssumption DEF Typed, TypeOK, JobRec, Later, JobFits
  <1> QED BY <1>1, <1>2 DEF JobFits, Later

LEMMA SameTasks ==
  ASSUME TypeOK, tasks' = tasks
  PROVE  Later
  BY DEF Later, TypeOK

\* A step of a worker that changes its job, the status rows and the segments.
LEMMA WorkerTyped ==
  ASSUME Typed, NEW w \in Workers, Moves(w), JobFits(job[w])', UNCHANGED <<queue, outbox, doc>>,
         ng' \in [G -> Marks], chunks' \subseteq G, mishap' \in BOOLEAN, late' \in BOOLEAN,
         troubles' \in 0..MaxTroubles
  PROVE  Typed'
  <1>1. Later /\ tasks' = tasks /\ Len(tasks') = Len(tasks)
    BY SameTasks DEF Typed, queue
  <1>2. Jobs'
    BY <1>1, OthersFit
  <1>3. Sent'
    BY <1>1 DEF Typed, Sent
  <1>4. TypeOK'
    <2>1. \A u \in Workers : job'[u].task <= Len(tasks')
                             /\ (job'[u].pc \in {"mark", "build"} => job'[u].exec # {})
      BY <1>2 DEF Jobs, JobFits
    <2> QED BY <1>1, <2>1 DEF Typed, TypeOK, queue, doc, Moves, JobRec, Pcs, Marks
  <1>5. Snapped'
    BY DEF Typed, Snapped, doc
  <1> QED BY <1>2, <1>3, <1>4, <1>5 DEF Typed

LEMMA TroubleTyped ==
  ASSUME TypeOK, Trouble \/ Calm
  PROVE  troubles' \in 0..MaxTroubles
  BY GroupAssumption DEF TypeOK, Trouble, Calm

-----------------------------------------------------------------------------
(* The document service.                                                   *)

LEMMA SubmitLater ==
  ASSUME Typed, NEW type \in Types, Submit(type)
  PROVE  /\ Later /\ Len(tasks') = Len(tasks) + 1 /\ Len(tasks) + 1 \in Ids
         /\ tasks' \in Seq(TaskRec)
         /\ \A i \in 1..Len(tasks) : tasks'[i] = tasks[i]
         /\ tasks'[Len(tasks) + 1] =
              [type |-> type, record |-> IF type = "DELETE" THEN "DELETING" ELSE "WAITING",
               ran |-> FALSE]
  <1>1. tasks \in Seq(TaskRec) /\ Len(tasks) \in Nat
    BY DEF Typed, TypeOK, TaskRec
  <1> DEFINE t == [type |-> type, record |-> IF type = "DELETE" THEN "DELETING" ELSE "WAITING",
                   ran |-> FALSE]
  <1>2. t \in TaskRec /\ tasks' = Append(tasks, t) /\ Len(tasks) + 1 <= MaxTasks
    BY DEF Submit, TaskRec
  <1> HIDE DEF t
  <1>3. /\ Len(tasks') = Len(tasks) + 1 /\ tasks' \in Seq(TaskRec)
        /\ \A i \in 1..Len(tasks) : tasks'[i] = tasks[i]
        /\ tasks'[Len(tasks) + 1] = t
    BY <1>1, <1>2
  <1> QED BY <1>1, <1>2, <1>3, GroupAssumption DEF Later, t, Ids

LEMMA SubmitTyped ==
  ASSUME Typed, NEW type \in Types, Submit(type), ng' \in [G -> Marks], bound' \in BOOLEAN
  PROVE  Typed'
  <1>1. /\ Later /\ Len(tasks') = Len(tasks) + 1 /\ Len(tasks) + 1 \in Ids
        /\ tasks' \in Seq(TaskRec)
    BY SubmitLater
  <1>2. Len(tasks) \in Nat /\ Len(tasks') <= MaxTasks
    BY <1>1, GroupAssumption DEF Typed, TypeOK, Ids
  <1>3. Jobs'
    BY <1>1, AllFit DEF Submit
  <1>4. Sent'
    <2> SUFFICES ASSUME NEW i \in DOMAIN outbox PROVE outbox[i].task <= Len(tasks) + 1
      BY <1>1 DEF Submit, Sent
    <2>1. outbox[i].task <= Len(tasks) /\ outbox[i].task \in Nat
      BY MessageType DEF Typed, Sent
    <2> QED BY <1>2, <2>1
  <1>5. TypeOK'
    <2>1. row' \in [Ids -> {None, "WAITING", "WORKING", "LAPSED", "GONE"}]
      BY <1>1 DEF Typed, TypeOK, Submit
    <2>2. \A id \in Ids : row'[id] # None <=> id <= Len(tasks')
      <3> SUFFICES ASSUME NEW id \in Ids PROVE row'[id] # None <=> id <= Len(tasks) + 1
        BY <1>1
      <3>1. row[id] # None <=> id <= Len(tasks)
        BY DEF Typed, TypeOK
      <3>2. row'[id] = IF id = Len(tasks) + 1 THEN "WAITING" ELSE row[id]
        BY <1>1 DEF Typed, TypeOK, Submit
      <3> QED BY <1>2, <3>1, <3>2, GroupAssumption DEF Ids, None
    <2>3. current' \in 0..Len(tasks')
      BY <1>1, <1>2 DEF Submit
    <2>4. \A u \in Workers : job'[u].task <= Len(tasks')
                             /\ (job'[u].pc \in {"mark", "build"} => job'[u].exec # {})
      BY <1>3 DEF Jobs, JobFits
    <2>5. status' \in {"WAITING", "DELETING"}
            /\ UNCHANGED <<chunks, owner, outbox, job, mishap, late, troubles>>
      BY DEF Submit
    <2> QED BY <1>1, <1>2, <2>1, <2>2, <2>3, <2>4, <2>5 DEF Typed, TypeOK, TaskRec, Marks
  <1>6. Snapped'
    BY <1>2 DEF Snapped, Submit
  <1> QED BY <1>3, <1>4, <1>5, <1>6 DEF Typed

LEMMA PendingTyped ==
  ASSUME TypeOK, NEW force \in BOOLEAN
  PROVE  Pending(force) \in [G -> Marks]
  BY DEF Pending, Marks

LEMMA RequestTyped ==
  ASSUME Typed, Upload \/ Transfer \/ Reparse \/ Delete
  PROVE  Typed'
  <1>1. TypeOK /\ Types = {"ADD", "TRANSFER", "REPARSE", "DELETE"} /\ ng \in [G -> Marks]
        /\ bound \in BOOLEAN
    BY DEF Typed, TypeOK, Types, Marks
  <1>2. CASE Upload
    BY <1>1, <1>2, PendingTyped, SubmitTyped DEF Upload
  <1>3. CASE Transfer
    BY <1>1, <1>3, PendingTyped, SubmitTyped DEF Transfer
  <1>4. CASE Reparse
    BY <1>1, <1>4, PendingTyped, SubmitTyped DEF Reparse
  <1>5. CASE Delete
    BY <1>1, <1>5, SubmitTyped DEF Delete
  <1> QED BY <1>2, <1>3, <1>4, <1>5

\* A step that changes fields of a task's record and status, rows and the snapshot.
LEMMA ServiceTyped ==
  ASSUME Typed, NEW id \in Ids, id <= Len(tasks),
         tasks' = tasks \/ \E r \in {"WORKING", "DONE", "CANCELED"} :
                             tasks' = [tasks EXCEPT ![id].record = r],
         row' = row \/ row' = [row EXCEPT ![id] = "GONE"],
         outbox' = outbox \/ (outbox # << >> /\ outbox' = Tail(outbox)),
         \/ current' = 0 /\ status' = None
         \/ current' \in {current, id} /\ (current' = 0 => status' = status),
         ng' \in [G -> Marks], bound' \in BOOLEAN,
         status' \in {None, "WAITING", "WORKING", "DELETING", "SUCCESS", "FAILED",
                      "CANCELED", "DELETED"},
         mishap' \in BOOLEAN, late' \in BOOLEAN,
         UNCHANGED <<chunks, owner, job, troubles>>
  PROVE  Typed' /\ Later
  <1>1. tasks \in Seq(TaskRec) /\ Len(tasks) \in Nat /\ id \in Nat \ {0}
    BY GroupAssumption DEF Typed, TypeOK, TaskRec, Ids
  <1>2. /\ tasks' \in Seq(TaskRec) /\ Len(tasks') = Len(tasks)
        /\ \A i \in 1..Len(tasks) : tasks'[i].type = tasks[i].type /\ tasks'[i].ran = tasks[i].ran
    <2>1. CASE tasks' = tasks
      BY <1>1, <2>1
    <2>2. CASE tasks' # tasks
      <3>1. PICK r \in {"WORKING", "DONE", "CANCELED"} : tasks' = [tasks EXCEPT ![id].record = r]
        BY <2>2
      <3> DEFINE t == [tasks[id] EXCEPT !.record = r]
      <3>2. id \in 1..Len(tasks) /\ tasks[id] \in TaskRec
        BY <1>1
      <3>3. t \in TaskRec /\ t.type = tasks[id].type /\ t.ran = tasks[id].ran
        BY <3>2 DEF TaskRec
      <3>4. tasks' = [tasks EXCEPT ![id] = t]
        BY <3>1
      <3> HIDE DEF t
      <3> QED BY <1>1, <3>2, <3>3, <3>4, ExceptSeq
    <2> QED BY <2>1, <2>2
  <1>3. Later
    BY <1>1, <1>2 DEF Later
  <1>4. Jobs'
    BY <1>3, AllFit
  <1>5. outbox' \in Seq(Message) /\ Sent'
    <2>1. outbox \in Seq(Message)
      BY DEF Typed, TypeOK, Message
    <2>2. CASE outbox' = outbox
      BY <1>2, <2>1, <2>2 DEF Typed, Sent
    <2>3. CASE outbox # << >> /\ outbox' = Tail(outbox)
      <3>1. outbox' \in Seq(Message)
        BY <2>1, <2>3
      <3>2. ASSUME NEW i \in DOMAIN outbox' PROVE outbox'[i].task <= Len(tasks)
        <4>1. i + 1 \in DOMAIN outbox /\ outbox'[i] = outbox[i + 1]
          BY <2>1, <2>3, <3>1
        <4> QED BY <4>1 DEF Typed, Sent
      <3> QED BY <1>2, <3>1, <3>2 DEF Sent
    <2> QED BY <2>2, <2>3
  <1>6. TypeOK'
    <2>1. /\ row' \in [Ids -> {None, "WAITING", "WORKING", "LAPSED", "GONE"}]
          /\ \A i \in Ids : row'[i] # None <=> i <= Len(tasks')
      <3>1. row \in [Ids -> {None, "WAITING", "WORKING", "LAPSED", "GONE"}]
            /\ \A i \in Ids : row[i] # None <=> i <= Len(tasks)
        BY DEF Typed, TypeOK
      <3>2. CASE row' = row
        BY <1>2, <3>1, <3>2
      <3>3. CASE row' = [row EXCEPT ![id] = "GONE"]
        BY <1>2, <3>1, <3>3 DEF None
      <3> QED BY <3>2, <3>3
    <2>2. \A u \in Workers : job'[u].task <= Len(tasks')
                             /\ (job'[u].pc \in {"mark", "build"} => job'[u].exec # {})
      BY <1>4 DEF Jobs, JobFits
    <2>3. current' \in 0..Len(tasks')
      BY <1>1, <1>2 DEF Typed, TypeOK
    <2> QED BY <1>2, <1>5, <2>1, <2>2, <2>3 DEF Typed, TypeOK, Marks, TaskRec, Message
  <1>7. Snapped'
    BY <1>1 DEF Typed, Snapped
  <1> QED BY <1>3, <1>4, <1>5, <1>6, <1>7 DEF Typed

LEMMA CancelTyped ==
  ASSUME Typed, NEW id \in Ids, Cancel(id)
  PROVE  Typed' /\ Later
  <1>1. id <= Len(tasks) /\ tasks[id].ran \in BOOLEAN
    <2>1. id \in 1..Len(tasks)
      BY GroupAssumption DEF Cancel, Cancelable, Typed, TypeOK, Ids
    <2> QED BY <2>1, TaskType DEF Typed
  <1>2. /\ ng \in [G -> Marks] /\ bound \in BOOLEAN /\ mishap' \in BOOLEAN /\ late' \in BOOLEAN
        /\ status' \in {None, "WAITING", "WORKING", "DELETING", "SUCCESS", "FAILED",
                        "CANCELED", "DELETED"}
    BY <1>1 DEF Typed, TypeOK, Marks, Cancel
  <1>3. /\ tasks' = tasks \/ \E r \in {"WORKING", "DONE", "CANCELED"} :
                               tasks' = [tasks EXCEPT ![id].record = r]
        /\ row' = [row EXCEPT ![id] = "GONE"]
        /\ UNCHANGED <<ng, chunks, owner, outbox, bound, current, job, late, troubles>>
        /\ current = 0 => status' = status
    BY GroupAssumption DEF Cancel, Ids
  <1> QED BY <1>1, <1>2, <1>3, ServiceTyped

LEMMA PurgeTyped ==
  ASSUME Typed, CancelAndPurge
  PROVE  Typed' /\ Later /\ current \in Ids
  <1>1. current \in Ids /\ current <= Len(tasks) /\ tasks[current].ran \in BOOLEAN
    <2>1. current \in 0..Len(tasks) /\ Len(tasks) \in Nat /\ Len(tasks) <= MaxTasks
          /\ tasks \in Seq(TaskRec)
      BY DEF Typed, TypeOK, TaskRec
    <2>2. current # 0
      BY DEF CancelAndPurge, Typed, Snapped, None
    <2>3. current \in 1..Len(tasks)
      BY <2>1, <2>2
    <2>4. tasks[current].ran \in BOOLEAN
      BY <2>3, TaskType DEF Typed
    <2> QED BY <2>1, <2>3, <2>4, GroupAssumption DEF Ids
  <1>2. tasks' = [tasks EXCEPT ![current].record = "CANCELED"]
        /\ row' = [row EXCEPT ![current] = "GONE"]
        /\ current' = 0 /\ status' = None /\ bound' = FALSE /\ ng' = [g \in G |-> None]
        /\ mishap' = (mishap \/ tasks[current].ran)
        /\ UNCHANGED <<chunks, owner, outbox, job, late, troubles>>
    BY DEF CancelAndPurge
  <1>3. ng' \in [G -> Marks] /\ mishap' \in BOOLEAN /\ late' \in BOOLEAN /\ bound' \in BOOLEAN
    BY <1>1, <1>2 DEF Marks, Typed, TypeOK
  <1> QED BY <1>1, <1>2, <1>3, ServiceTyped

LEMMA CallbackTyped ==
  ASSUME Typed, Callback
  PROVE  Typed' /\ Later /\ Head(outbox).task \in Ids /\ Head(outbox).task <= Len(tasks)
  <1> DEFINE id == Head(outbox).task
             s == Head(outbox).status
  <1>1. outbox \in Seq(Message) /\ outbox # << >> /\ Len(tasks) \in Nat
        /\ ng \in [G -> Marks] /\ bound \in BOOLEAN /\ mishap \in BOOLEAN /\ late \in BOOLEAN
    BY DEF Typed, TypeOK, Message, Callback, Marks
  <1>2. 1 \in DOMAIN outbox /\ Head(outbox) = outbox[1] /\ outbox[1] \in Message
    BY <1>1
  <1>3. id \in Ids /\ id <= Len(tasks) /\ s \in {"WORKING", "SUCCESS", "FAILED"}
    BY <1>2 DEF Typed, Sent, Message
  <1>4. /\ outbox' = Tail(outbox) /\ UNCHANGED <<chunks, row, owner, job, mishap, troubles>>
        /\ late' \in BOOLEAN
    BY <1>1 DEF Callback
  <1>5. CASE UNCHANGED <<ng, tasks, doc>>
    <2>1. status' \in {None, "WAITING", "WORKING", "DELETING", "SUCCESS", "FAILED",
                        "CANCELED", "DELETED"}
      BY <1>5 DEF Typed, TypeOK, doc
    <2> HIDE DEF id, s
    <2> QED BY <1>1, <1>3, <1>4, <1>5, <2>1, ServiceTyped DEF doc, id
  <1>6. CASE /\ tasks' = [tasks EXCEPT ![id].record = IF s = "WORKING" THEN s ELSE "DONE"]
             /\ current' = id /\ status' = Snapshot(tasks[id].type, s)
             /\ AfterDelete(id, s)
    <2> HIDE DEF id, s
    <2>1. status' \in {None, "WAITING", "WORKING", "DELETING", "SUCCESS", "FAILED",
                        "CANCELED", "DELETED"}
      BY <1>3, <1>6 DEF Snapshot
    <2>2. ng' \in [G -> Marks] /\ bound' \in BOOLEAN
      BY <1>1, <1>6 DEF AfterDelete, Marks
    <2>3. \E r \in {"WORKING", "DONE", "CANCELED"} : tasks' = [tasks EXCEPT ![id].record = r]
      BY <1>6
    <2>4. id # 0
      BY <1>3, GroupAssumption DEF Ids
    <2> QED BY <1>1, <1>3, <1>4, <1>6, <2>1, <2>2, <2>3, <2>4, ServiceTyped DEF id
  <1> QED BY <1>3, <1>5, <1>6 DEF Callback

-----------------------------------------------------------------------------
(* A worker.                                                               *)

LEMMA JobShape ==
  ASSUME Typed, NEW w \in Workers
  PROVE  job[w] \in JobRec /\ JobFits(job[w]) /\ Len(tasks) \in Nat /\ job[w].task \in Nat
  BY JobType, GroupAssumption DEF Typed, Jobs, TypeOK, JobRec

LEMMA WriteTyped ==
  ASSUME Typed, NEW w \in Workers, NEW s \in Marks, Write(w, s)
  PROVE  ng' \in [G -> Marks] /\ mishap' \in BOOLEAN /\ troubles' \in 0..MaxTroubles
  <1>1. ng \in [G -> Marks] /\ mishap \in BOOLEAN /\ late \in BOOLEAN
    BY DEF Typed, TypeOK, Marks
  <1>2. troubles' \in 0..MaxTroubles
    BY TroubleTyped DEF Write, Typed
  <1> QED BY <1>1, <1>2 DEF Write

LEMMA RemoveTyped ==
  ASSUME Typed, NEW w \in Workers, Remove(w)
  PROVE  chunks' \subseteq G /\ mishap' \in BOOLEAN /\ late' \in BOOLEAN
  <1>1. mishap \in BOOLEAN /\ late \in BOOLEAN
    BY DEF Typed, TypeOK
  <1> QED BY <1>1 DEF Remove

\* The steps of a worker that leave the queue, the outbox and the document alone.
LEMMA DecideTyped ==
  ASSUME Typed, NEW w \in Workers, Decide(w)
  PROVE  Typed' /\ Moves(w) /\ job'[w].pc = "decide" /\ job'[w].task = job[w].task
         /\ job'[w].ok = job[w].ok /\ job'[w].n = job[w].n + 1 /\ job[w].n \in G
         /\ job'[w].exec = IF Skips(job[w].n) THEN job[w].exec ELSE job[w].exec \cup {job[w].n}
  <1> DEFINE g == job[w].n
             e == IF Skips(g) THEN job[w].exec ELSE job[w].exec \cup {g}
             j == [job[w] EXCEPT !.n = g + 1, !.exec = e]
  <1>1. job[w] \in JobRec /\ JobFits(job[w]) /\ job[w].pc = "decide" /\ g <= Groups
        /\ UNCHANGED <<ng, chunks, queue, outbox, doc, mishap, late>>
    BY JobShape DEF Decide, At
  <1>2. g \in G /\ g + 1 \in 1..Groups + 1
    BY <1>1, GroupAssumption DEF JobRec, G
  <1>3. e \in SUBSET G
    BY <1>1, <1>2 DEF JobRec
  <1>4. job' = [job EXCEPT ![w] = j]
    BY DEF Decide
  <1> HIDE DEF e
  <1>5. j \in JobRec /\ j.pc = "decide" /\ j.task = job[w].task /\ j.ok = job[w].ok
        /\ j.exec = e /\ j.n = g + 1
    BY <1>1, <1>2, <1>3 DEF JobRec
  <1> HIDE DEF j
  <1>6. Moves(w) /\ job'[w] = j
    BY <1>4, <1>5, JobType DEF Moves, Typed
  <1>7. JobFits(job[w])'
    BY <1>1, <1>5, <1>6, JobShape DEF JobFits, queue
  <1>8. troubles' \in 0..MaxTroubles
    BY TroubleTyped DEF Decide, Typed
  <1>9. ng' \in [G -> Marks] /\ chunks' \subseteq G /\ mishap' \in BOOLEAN /\ late' \in BOOLEAN
    BY <1>1 DEF Typed, TypeOK, Marks
  <1>10. Typed'
    BY <1>1, <1>6, <1>7, <1>8, <1>9, WorkerTyped
  <1> QED BY <1>2, <1>5, <1>6, <1>10 DEF e

LEMMA PlainTyped ==
  ASSUME Typed, NEW w \in Workers, UNCHANGED <<queue, outbox, doc>>,
         NEW pc \in Pcs, Goto(w, pc), job[w].task = 0 <=> pc \in {"down", "spare", "reset", "idle"},
         pc \in {"mark", "build"} => job[w].exec # {},
         job[w].task # 0 =>
           /\ TypeOf(w) = "DELETE" => pc \in {"clear", "end"}
           /\ pc # "decide" /\ (pc = "clear" => TypeOf(w) = "REPARSE")
           /\ (pc \in {"mark", "clear"} => job[w].pc \in {"decide", "mark"}),
         ng' \in [G -> Marks], chunks' \subseteq G, mishap' \in BOOLEAN, late' \in BOOLEAN,
         troubles' \in 0..MaxTroubles
  PROVE  Typed'
  <1>1. /\ Moves(w) /\ job'[w].pc = pc /\ job'[w].n = 1 /\ job'[w].task = job[w].task
        /\ job'[w].exec = job[w].exec /\ job'[w].ok = job[w].ok
    BY GotoMoves DEF Typed
  <1>2. JobFits(job[w])'
    BY <1>1, JobShape DEF JobFits, queue, TypeOf
  <1> QED BY <1>1, <1>2, WorkerTyped

LEMMA StartTyped ==
  ASSUME Typed, NEW w \in Workers, Spare(w) \/ Reset(w)
  PROVE  Typed'
  <1>1. ng \in [G -> Marks] /\ chunks \subseteq G /\ mishap \in BOOLEAN /\ late \in BOOLEAN
        /\ troubles \in 0..MaxTroubles
    BY DEF Typed, TypeOK, Marks
  <1>2. CASE Spare(w)
    <2>1. job[w].task = 0
      BY <1>2, JobShape DEF Spare, At, JobFits
    <2>2. Goto(w, "idle") \/ Goto(w, "reset")
      BY <1>2 DEF Spare
    <2>3. UNCHANGED <<ng, chunks, queue, outbox, doc, mishap, late, troubles>>
      BY <1>2 DEF Spare
    <2> QED BY <1>1, <2>1, <2>2, <2>3, PlainTyped DEF Pcs
  <1>3. CASE Reset(w)
    <2>1. job[w].task = 0
      BY <1>3, JobShape DEF Reset, At, JobFits
    <2>2. Goto(w, "idle") /\ UNCHANGED <<chunks, queue, outbox, doc, mishap, late, troubles>>
      BY <1>3 DEF Reset
    <2>3. ng' \in [G -> Marks]
      BY <1>1, <1>3 DEF Reset, Marks
    <2> QED BY <1>1, <2>1, <2>2, <2>3, PlainTyped DEF Pcs
  <1> QED BY <1>2, <1>3

LEMMA BuildersTyped ==
  ASSUME Typed, NEW w \in Workers, Decided(w) \/ Mark(w) \/ Built(w) \/ Settle(w)
  PROVE  Typed'
  <1>1. ng \in [G -> Marks] /\ chunks \subseteq G /\ mishap \in BOOLEAN /\ late \in BOOLEAN
        /\ troubles \in 0..MaxTroubles
    BY DEF Typed, TypeOK, Marks
  <1>2. CASE Decided(w)
    <2>1. job[w].pc = "decide" /\ job[w].task # 0 /\ TypeOf(w) # "DELETE"
      BY <1>2, JobShape DEF Decided, At, JobFits, TypeOf
    <2>2. Goto(w, IF job[w].exec = {} THEN "end" ELSE "mark")
          /\ UNCHANGED <<ng, chunks, queue, outbox, doc, mishap, late, troubles>>
      BY <1>2 DEF Decided
    <2>3. CASE job[w].exec = {}
      BY <1>1, <2>1, <2>2, <2>3, PlainTyped DEF Pcs
    <2>4. CASE job[w].exec # {}
      BY <1>1, <2>1, <2>2, <2>4, PlainTyped DEF Pcs
    <2> QED BY <2>3, <2>4
  <1>3. CASE Mark(w)
    <2>1. job[w].pc = "mark" /\ job[w].task # 0 /\ TypeOf(w) # "DELETE" /\ job[w].exec # {}
      BY <1>3, JobShape DEF Mark, At, JobFits, TypeOf
    <2>2. Goto(w, IF TypeOf(w) = "REPARSE" THEN "clear" ELSE "build")
          /\ UNCHANGED <<chunks, queue, outbox, doc, late>> /\ Write(w, "WORKING")
      BY <1>3 DEF Mark
    <2>3. ng' \in [G -> Marks] /\ mishap' \in BOOLEAN /\ late' \in BOOLEAN
          /\ troubles' \in 0..MaxTroubles
      BY <1>1, <2>2, WriteTyped DEF Marks
    <2>4. CASE TypeOf(w) = "REPARSE"
      BY <1>1, <2>1, <2>2, <2>3, <2>4, PlainTyped DEF Pcs
    <2>5. CASE TypeOf(w) # "REPARSE"
      BY <1>1, <2>1, <2>2, <2>3, <2>5, PlainTyped DEF Pcs
    <2> QED BY <2>4, <2>5
  <1>4. CASE Built(w)
    <2>1. job[w].pc = "build" /\ job[w].task # 0 /\ TypeOf(w) # "DELETE"
      BY <1>4, JobShape DEF Built, At, JobFits, TypeOf
    <2>2. Goto(w, "settle") /\ UNCHANGED <<ng, chunks, queue, outbox, doc, mishap, late, troubles>>
      BY <1>4 DEF Built
    <2> QED BY <1>1, <2>1, <2>2, PlainTyped DEF Pcs
  <1>5. CASE Settle(w)
    <2>1. job[w].pc = "settle" /\ job[w].task # 0 /\ TypeOf(w) # "DELETE"
      BY <1>5, JobShape DEF Settle, At, JobFits, TypeOf
    <2>2. Goto(w, "end") /\ UNCHANGED <<chunks, queue, outbox, doc, late>>
          /\ Write(w, IF job[w].ok THEN "SUCCESS" ELSE "FAILED")
      BY <1>5 DEF Settle
    <2>3. ng' \in [G -> Marks] /\ mishap' \in BOOLEAN /\ late' \in BOOLEAN
          /\ troubles' \in 0..MaxTroubles
      BY <1>1, <2>2, WriteTyped DEF Marks
    <2> QED BY <1>1, <2>1, <2>2, <2>3, PlainTyped DEF Pcs
  <1> QED BY <1>2, <1>3, <1>4, <1>5

LEMMA FailsTyped ==
  ASSUME Typed, NEW w \in Workers, UNCHANGED <<ng, queue, outbox, doc, troubles>>,
         NEW pc \in {"settle", "end"}, Fails(w, pc), job[w].task # 0,
         TypeOf(w) = "DELETE" => pc = "end", chunks' \subseteq G, mishap' \in BOOLEAN, late' \in BOOLEAN
  PROVE  Typed'
  <1>1. /\ Moves(w) /\ job'[w].pc = pc /\ job'[w].n = 1 /\ job'[w].task = job[w].task
        /\ job'[w].exec = job[w].exec /\ job'[w].ok = FALSE
    BY FailsMoves DEF Typed, Pcs
  <1>2. JobFits(job[w])'
    BY <1>1, JobShape DEF JobFits, queue, TypeOf
  <1>3. ng' \in [G -> Marks] /\ troubles' \in 0..MaxTroubles
    BY DEF Typed, TypeOK, Marks
  <1> QED BY <1>1, <1>2, <1>3, WorkerTyped

LEMMA ClearTyped ==
  ASSUME Typed, NEW w \in Workers, Clear(w)
  PROVE  Typed'
  <1>1. ng \in [G -> Marks] /\ chunks \subseteq G /\ mishap \in BOOLEAN /\ late \in BOOLEAN
        /\ troubles \in 0..MaxTroubles
    BY DEF Typed, TypeOK, Marks
  <1>2. /\ job[w].pc = "clear" /\ job[w].task # 0 /\ TypeOf(w) \in {"DELETE", "REPARSE"}
        /\ TypeOf(w) = "REPARSE" => job[w].exec = G
        /\ UNCHANGED <<ng, queue, outbox, doc, troubles>>
    BY JobShape DEF Clear, At, JobFits, TypeOf
  <1>3. G # {}
    BY GroupAssumption DEF G
  <1>4. CASE Remove(w) /\ Goto(w, IF TypeOf(w) = "DELETE" THEN "end" ELSE "build")
    <2>1. chunks' \subseteq G /\ mishap' \in BOOLEAN /\ late' \in BOOLEAN
      BY <1>4, RemoveTyped
    <2>2. CASE TypeOf(w) = "DELETE"
      BY <1>1, <1>2, <1>4, <2>1, <2>2, PlainTyped DEF Pcs
    <2>3. CASE TypeOf(w) = "REPARSE"
      BY <1>1, <1>2, <1>3, <1>4, <2>1, <2>3, PlainTyped DEF Pcs
    <2> QED BY <1>2, <2>2, <2>3
  <1>5. CASE /\ Fails(w, IF TypeOf(w) = "DELETE" THEN "end" ELSE "settle")
             /\ \/ TypeOf(w) = "REPARSE" /\ (Remove(w) \/ UNCHANGED <<chunks, mishap, late>>)
                \/ TypeOf(w) = "DELETE" /\ chunks' \in {chunks, {}} /\ mishap' = TRUE
                   /\ UNCHANGED late
    <2>1. chunks' \subseteq G /\ mishap' \in BOOLEAN /\ late' \in BOOLEAN
      BY <1>1, <1>5, RemoveTyped
    <2>2. CASE TypeOf(w) = "DELETE"
      BY <1>1, <1>2, <1>5, <2>1, <2>2, FailsTyped
    <2>3. CASE TypeOf(w) = "REPARSE"
      BY <1>1, <1>2, <1>5, <2>1, <2>3, FailsTyped
    <2> QED BY <1>2, <2>2, <2>3
  <1> QED BY <1>4, <1>5 DEF Clear

\* What a turn of Build that goes on makes of the job.
LEMMA BuildMoves ==
  ASSUME Typed, NEW w \in Workers, job[w].n <= Groups, NEW ok \in BOOLEAN,
         \/ ok = job[w].ok /\ job' = [job EXCEPT ![w].n = job[w].n + 1]
         \/ ok = FALSE /\ job' = [job EXCEPT ![w].n = job[w].n + 1, ![w].ok = FALSE]
  PROVE  /\ Moves(w) /\ job[w].n \in G /\ job'[w].n = job[w].n + 1
         /\ job'[w].pc = job[w].pc /\ job'[w].task = job[w].task
         /\ job'[w].exec = job[w].exec /\ job'[w].ok = ok
  <1> DEFINE j == [job[w] EXCEPT !.n = job[w].n + 1, !.ok = ok]
  <1>1. job \in [Workers -> JobRec] /\ job[w] \in JobRec
    BY JobType DEF Typed
  <1>2. job[w].n \in G /\ job[w].n + 1 \in 1..Groups + 1
    BY <1>1, GroupAssumption DEF JobRec, G
  <1>3. job' = [job EXCEPT ![w] = j]
    BY <1>1 DEF JobRec
  <1>4. j \in JobRec /\ j.pc = job[w].pc /\ j.task = job[w].task /\ j.ok = ok
        /\ j.exec = job[w].exec /\ j.n = job[w].n + 1
    BY <1>1, <1>2 DEF JobRec
  <1> HIDE DEF j
  <1> QED BY <1>1, <1>2, <1>3, <1>4 DEF Moves

LEMMA BuildTyped ==
  ASSUME Typed, NEW w \in Workers, Build(w)
  PROVE  Typed'
  <1>1. ng \in [G -> Marks] /\ chunks \subseteq G /\ mishap \in BOOLEAN /\ late \in BOOLEAN
        /\ troubles \in 0..MaxTroubles
    BY DEF Typed, TypeOK, Marks
  <1>2. /\ job[w].pc = "build" /\ job[w].task # 0 /\ TypeOf(w) # "DELETE" /\ job[w].n <= Groups
        /\ UNCHANGED <<ng, queue, outbox, doc, troubles>> /\ job[w].ok \in BOOLEAN
    BY JobShape DEF Build, At, JobFits, TypeOf, JobRec
  <1>3. CASE TypeOf(w) = "TRANSFER" /\ Fails(w, "settle") /\ Remove(w)
    BY <1>1, <1>2, <1>3, RemoveTyped, FailsTyped
  <1>4. CASE ~(TypeOf(w) = "TRANSFER" /\ Fails(w, "settle") /\ Remove(w))
    <2>1. PICK ok \in BOOLEAN :
            \/ ok = job[w].ok /\ job' = [job EXCEPT ![w].n = job[w].n + 1]
            \/ ok = FALSE /\ job' = [job EXCEPT ![w].n = job[w].n + 1, ![w].ok = FALSE]
      BY <1>2, <1>4 DEF Build
    <2>2. /\ Moves(w) /\ job[w].n \in G /\ job'[w].pc = job[w].pc /\ job'[w].task = job[w].task
          /\ job'[w].exec = job[w].exec
      BY <1>2, <2>1, BuildMoves
    <2>3. JobFits(job[w])'
      BY <1>2, <2>2, JobShape DEF JobFits, queue
    <2>4. chunks' \subseteq G /\ mishap' \in BOOLEAN /\ late' \in BOOLEAN
      BY <1>1, <1>4, <2>2 DEF Build
    <2> QED BY <1>1, <1>2, <2>2, <2>3, <2>4, WorkerTyped
  <1> QED BY <1>3, <1>4

\* A job that is given up, or ends.
LEMMA IdleFits ==
  ASSUME Typed, NEW w \in Workers, NEW j \in {Idle, Down}, job' = [job EXCEPT ![w] = j]
  PROVE  Moves(w) /\ job'[w] = j /\ JobFits(job[w])' /\ job'[w].task = 0
         /\ job'[w].pc \in {"idle", "down"}
  <1>1. j \in JobRec /\ j.task = 0 /\ j.pc \in {"idle", "down"}
    <2>1. 0 \in 0..MaxTasks /\ 1 \in 1..Groups + 1
      BY GroupAssumption
    <2>2. Idle \in JobRec /\ Idle.task = 0 /\ Idle.pc = "idle"
      BY <2>1 DEF JobRec, Idle, Pcs
    <2>3. Down \in JobRec /\ Down.task = 0 /\ Down.pc = "down"
      BY <2>2 DEF Down, JobRec, Pcs
    <2> QED BY <2>2, <2>3
  <1>2. Moves(w) /\ job'[w] = j
    BY <1>1, JobType DEF Moves, Typed
  <1>3. 0 <= Len(tasks')
    BY DEF Typed, TypeOK
  <1>4. JobFits(job[w])'
    BY <1>1, <1>2, <1>3 DEF JobFits
  <1> QED BY <1>1, <1>2, <1>4

LEMMA CrashTyped ==
  ASSUME Typed, NEW w \in Workers, Crash(w)
  PROVE  Typed'
  <1>1. /\ job' = [job EXCEPT ![w] = Down] /\ Trouble
        /\ UNCHANGED <<ng, chunks, queue, outbox, doc, late>>
    BY DEF Crash
  <1>2. Moves(w) /\ JobFits(job[w])'
    BY <1>1, IdleFits
  <1>3. ng' \in [G -> Marks] /\ chunks' \subseteq G /\ mishap' \in BOOLEAN /\ late' \in BOOLEAN
        /\ troubles' \in 0..MaxTroubles
    BY <1>1, TroubleTyped DEF Typed, TypeOK, Marks, Crash
  <1> QED BY <1>1, <1>2, <1>3, WorkerTyped

Rows == {None, "WAITING", "WORKING", "LAPSED", "GONE"}

\* A step that changes the queue, the outbox and the jobs.
LEMMA QueueTyped ==
  ASSUME Typed, Later, Len(tasks') = Len(tasks), tasks' \in Seq(TaskRec), Jobs',
         job' \in [Workers -> JobRec], row' \in [Ids -> Rows],
         \A id \in Ids : row'[id] = None <=> row[id] = None,
         owner' \in [Ids -> Workers \cup {None}],
         \/ outbox' = outbox
         \/ \E m \in Message : m.task <= Len(tasks) /\ outbox' = Append(outbox, m),
         UNCHANGED <<ng, chunks, doc, mishap, late>>, troubles' \in 0..MaxTroubles
  PROVE  Typed'
  <1>1. outbox' \in Seq(Message) /\ Sent'
    <2>1. outbox \in Seq(Message)
      BY DEF Typed, TypeOK, Message
    <2>2. CASE outbox' = outbox
      BY <2>1, <2>2 DEF Typed, Sent
    <2>3. CASE \E m \in Message : m.task <= Len(tasks) /\ outbox' = Append(outbox, m)
      <3>1. PICK m \in Message : m.task <= Len(tasks) /\ outbox' = Append(outbox, m)
        BY <2>3
      <3>2. outbox' \in Seq(Message)
        BY <2>1, <3>1
      <3>3. ASSUME NEW i \in DOMAIN outbox' PROVE outbox'[i].task <= Len(tasks)
        BY <2>1, <3>1 DEF Typed, Sent
      <3> QED BY <3>2, <3>3 DEF Sent
    <2> QED BY <2>2, <2>3
  <1>2. Snapped'
    BY DEF Typed, Snapped, doc
  <1>3. TypeOK'
    <2>1. \A u \in Workers : job'[u].task <= Len(tasks')
                             /\ (job'[u].pc \in {"mark", "build"} => job'[u].exec # {})
      BY DEF Jobs, JobFits
    <2>2. \A id \in Ids : row'[id] # None <=> id <= Len(tasks')
      BY DEF Typed, TypeOK
    <2> QED BY <1>1, <2>1, <2>2
        DEF Typed, TypeOK, doc, JobRec, Pcs, Marks, Rows, TaskRec, Message
  <1> QED BY <1>1, <1>2, <1>3 DEF Typed

LEMMA QueueShape ==
  ASSUME Typed
  PROVE  /\ tasks \in Seq(TaskRec) /\ row \in [Ids -> Rows]
         /\ owner \in [Ids -> Workers \cup {None}] /\ troubles \in 0..MaxTroubles
         /\ \A id \in Ids : row[id] # None <=> id <= Len(tasks)
  BY DEF Typed, TypeOK, TaskRec, Rows

LEMMA RequeueTyped ==
  ASSUME Typed, NEW w \in Workers, Requeue(w)
  PROVE  Typed' /\ Moves(w) /\ job[w].task = 0 /\ job'[w].task = 0
  <1>1. job[w].pc = "down" /\ job[w].task = 0
    BY JobShape DEF Requeue, At, JobFits
  <1>2. Goto(w, "spare") /\ UNCHANGED <<ng, chunks, tasks, outbox, doc, mishap, late, troubles>>
    BY DEF Requeue
  <1>3. /\ Moves(w) /\ job'[w].pc = "spare" /\ job'[w].task = 0
    BY <1>1, <1>2, GotoMoves DEF Typed, Pcs
  <1>4. Later /\ Len(tasks') = Len(tasks)
    BY <1>2, SameTasks DEF Typed
  <1>5. JobFits(job[w])'
    BY <1>2, <1>3, JobShape DEF JobFits
  <1>6. Jobs'
    BY <1>3, <1>4, <1>5, OthersFit
  <1>7. /\ row' = [id \in Ids |-> IF row[id] = "LAPSED" THEN "WAITING" ELSE row[id]]
        /\ owner' = [id \in Ids |-> IF row[id] = "LAPSED" THEN None ELSE owner[id]]
    BY DEF Requeue
  <1>8. /\ row' \in [Ids -> Rows] /\ owner' \in [Ids -> Workers \cup {None}]
        /\ \A id \in Ids : row'[id] = None <=> row[id] = None
    BY <1>7, QueueShape DEF Rows, None
  <1> QED BY <1>1, <1>2, <1>3, <1>4, <1>6, <1>8, QueueShape, QueueTyped DEF Moves

LEMMA LapseTyped ==
  ASSUME Typed, NEW id \in Ids, Lapse(id)
  PROVE  Typed'
  <1>1. row' = [row EXCEPT ![id] = "LAPSED"] /\ row[id] = "WORKING"
        /\ UNCHANGED <<ng, chunks, tasks, owner, outbox, doc, job, mishap, late>>
    BY DEF Lapse
  <1>2. Later /\ Len(tasks') = Len(tasks)
    BY <1>1, SameTasks DEF Typed
  <1>3. Jobs' /\ job' \in [Workers -> JobRec]
    BY <1>1, <1>2, AllFit, JobType DEF Typed
  <1>4. row' \in [Ids -> Rows] /\ \A i \in Ids : row'[i] = None <=> row[i] = None
    BY <1>1, QueueShape DEF Rows, None
  <1>5. troubles' \in 0..MaxTroubles
    BY TroubleTyped DEF Lapse, Typed
  <1> QED BY <1>1, <1>2, <1>3, <1>4, <1>5, QueueShape, QueueTyped

LEMMA EndTyped ==
  ASSUME Typed, NEW w \in Workers, End(w)
  PROVE  Typed' /\ Moves(w) /\ job'[w].task = 0 /\ job[w].task \in Ids
         /\ job'[w].pc = "idle"
  <1> DEFINE id == job[w].task
             m == [task |-> id, status |-> IF job[w].ok THEN "SUCCESS" ELSE "FAILED"]
  <1>1. id \in Ids /\ id <= Len(tasks)
    <2>1. id # 0 /\ job[w] \in JobRec /\ id <= Len(tasks)
      BY JobShape DEF End, At, JobFits
    <2> QED BY <2>1, GroupAssumption DEF JobRec, Ids
  <1>2. /\ job' = [job EXCEPT ![w] = Idle] /\ outbox' = Append(outbox, m)
        /\ row' = (IF owner[id] = w THEN [row EXCEPT ![id] = "GONE"] ELSE row)
        /\ UNCHANGED <<ng, chunks, tasks, owner, doc, mishap, late, troubles>>
    BY DEF End
  <1>3. m \in Message /\ m.task = id
    BY <1>1 DEF Message
  <1> HIDE DEF m
  <1>4. Moves(w) /\ JobFits(job[w])' /\ job'[w].task = 0 /\ job'[w] = Idle
    BY <1>2, IdleFits
  <1>5. Later /\ Len(tasks') = Len(tasks)
    BY <1>2, SameTasks DEF Typed
  <1>6. Jobs'
    BY <1>4, <1>5, OthersFit
  <1>7. row[id] # None
    BY <1>1, QueueShape
  <1>8. row' \in [Ids -> Rows] /\ \A i \in Ids : row'[i] = None <=> row[i] = None
    <2> HIDE DEF id
    <2> QED BY <1>1, <1>2, <1>7, QueueShape DEF Rows, None
  <1>9. Typed'
    <2> HIDE DEF id
    <2> QED BY <1>1, <1>2, <1>3, <1>4, <1>5, <1>6, <1>8, QueueShape, QueueTyped DEF Moves
  <1> QED BY <1>1, <1>4, <1>9 DEF Idle

LEMMA ClaimTyped ==
  ASSUME Typed, NEW w \in Workers, NEW id \in Ids, Claim(w, id)
  PROVE  /\ Typed' /\ Later /\ Moves(w) /\ id <= Len(tasks) /\ job[w].task = 0
         /\ \A i \in 1..Len(tasks) : tasks'[i].type = tasks[i].type
                                      /\ tasks'[i].record = tasks[i].record
                                      /\ (i # id => tasks'[i] = tasks[i])
         /\ tasks'[id].ran /\ job'[w].pc = FirstStep(tasks[id].type) /\ job'[w].task = id
         /\ job'[w].exec = (IF tasks[id].type = "REPARSE" THEN G ELSE {})
         /\ job'[w].n = 1 /\ job'[w].ok = TRUE
  <1> DEFINE m == [task |-> id, status |-> "WORKING"]
             type == tasks[id].type
             e == IF type = "REPARSE" THEN G ELSE {}
             j == [Idle EXCEPT !.pc = FirstStep(type), !.task = id, !.exec = e]
             t == [tasks[id] EXCEPT !.ran = TRUE]
  <1>1. /\ row[id] \in {"WAITING", "LAPSED"} /\ job[w].pc = "idle"
        /\ row' = [row EXCEPT ![id] = "WORKING"] /\ owner' = [owner EXCEPT ![id] = w]
        /\ tasks' = [tasks EXCEPT ![id] = t] /\ outbox' = Append(outbox, m)
        /\ job' = [job EXCEPT ![w] = j]
        /\ UNCHANGED <<ng, chunks, doc, mishap, late, troubles>>
    BY DEF Claim, At
  <1>2. id \in 1..Len(tasks) /\ id <= Len(tasks) /\ job[w].task = 0 /\ tasks \in Seq(TaskRec)
        /\ Len(tasks) \in Nat
    <2>1. row[id] # None
      BY <1>1 DEF None
    <2> QED BY <1>1, <2>1, QueueShape, JobShape, GroupAssumption DEF JobFits, Ids
  <1>3. m \in Message /\ m.task = id
    BY DEF Message
  <1>4. tasks[id] \in TaskRec /\ type \in Types
    BY <1>2, TaskType DEF Typed
  <1>5. t \in TaskRec /\ t.type = type /\ t.ran = TRUE /\ t.record = tasks[id].record
    BY <1>4 DEF TaskRec
  <1>6. j \in JobRec /\ j.pc = FirstStep(type) /\ j.task = id /\ j.exec = e /\ j.n = 1
        /\ j.ok = TRUE
    <2>1. FirstStep(type) \in Pcs /\ e \in SUBSET G /\ 1 \in 1..Groups + 1 /\ id \in 0..MaxTasks
      BY GroupAssumption DEF FirstStep, Pcs, Ids
    <2> HIDE DEF e
    <2> QED BY <2>1 DEF Idle, JobRec
  <1> HIDE DEF m, t, j
  <1>7. /\ tasks' \in Seq(TaskRec) /\ Len(tasks') = Len(tasks) /\ tasks'[id] = t
        /\ \A i \in 1..Len(tasks) : i # id => tasks'[i] = tasks[i]
    BY <1>1, <1>2, <1>5, ExceptSeq
  <1>8. Later
    BY <1>2, <1>5, <1>7 DEF Later
  <1>9. Moves(w) /\ job'[w] = j
    BY <1>1, <1>6, JobType DEF Moves, Typed
  <1>10. JobFits(job[w])'
    <2>1. G # {} /\ id # 0
      BY GroupAssumption DEF G, Ids
    <2>2. tasks'[id].type = type /\ tasks'[id].ran /\ id <= Len(tasks')
      BY <1>2, <1>5, <1>7
    <2> QED BY <1>4, <1>6, <1>9, <2>1, <2>2 DEF JobFits, FirstStep, Types
  <1>11. Jobs'
    BY <1>8, <1>9, <1>10, OthersFit
  <1>12. /\ row' \in [Ids -> Rows] /\ owner' \in [Ids -> Workers \cup {None}]
         /\ \A i \in Ids : row'[i] = None <=> row[i] = None
    BY <1>1, QueueShape DEF Rows, None
  <1>13. Typed'
    BY <1>1, <1>2, <1>3, <1>7, <1>8, <1>9, <1>11, <1>12, QueueShape, QueueTyped DEF Moves
  <1> QED BY <1>2, <1>5, <1>6, <1>7, <1>8, <1>9, <1>13

-----------------------------------------------------------------------------
(* Type correctness.                                                       *)

LEMMA InitTyped == ASSUME Init PROVE Typed
  <1>1. << >> \in Seq(TaskRec) /\ << >> \in Seq(Message) /\ Len(<< >>) = 0
    OBVIOUS
  <1>2. tasks \in Seq(TaskRec) /\ outbox \in Seq(Message) /\ Len(tasks) = 0 /\ outbox = << >>
    BY <1>1 DEF Init
  <1>3. Down \in JobRec /\ Down.task = 0 /\ Down.pc = "down"
    <2>1. 0 \in 0..MaxTasks /\ 1 \in 1..Groups + 1
      BY GroupAssumption
    <2>2. Idle \in JobRec /\ Idle.task = 0
      BY <2>1 DEF JobRec, Idle, Pcs
    <2> QED BY <2>2 DEF Down, JobRec, Pcs
  <1>4. Jobs /\ \A w \in Workers : job[w] = Down
    BY <1>2, <1>3 DEF Init, Jobs, JobFits
  <1>5. Sent /\ Snapped
    BY <1>2 DEF Init, Sent, Snapped
  <1>6. \A id \in Ids : row[id] = None /\ ~(id <= Len(tasks))
    BY <1>2, GroupAssumption DEF Init, Ids
  <1>7. job \in [Workers -> JobRec]
    BY <1>3 DEF Init
  <1>8. \A w \in Workers :
          job[w].task <= Len(tasks) /\ (job[w].pc \in {"mark", "build"} => job[w].exec # {})
    BY <1>2, <1>3, <1>4
  <1>9. /\ ng \in [G -> Marks] /\ chunks \subseteq G /\ row \in [Ids -> Rows]
        /\ owner \in [Ids -> Workers \cup {None}] /\ current \in 0..Len(tasks)
        /\ Len(tasks) <= MaxTasks /\ troubles \in 0..MaxTroubles
    BY <1>2, GroupAssumption DEF Init, Marks, Rows
  <1>10. bound \in BOOLEAN /\ mishap \in BOOLEAN /\ late \in BOOLEAN /\ status = None
    BY DEF Init
  <1>11. TypeOK
    BY <1>2, <1>6, <1>7, <1>8, <1>9, <1>10
       DEF TypeOK, JobRec, Pcs, TaskRec, Message, Marks, Rows
  <1> QED BY <1>4, <1>5, <1>11 DEF Typed

LEMMA StepTyped ==
  ASSUME Typed, NEW w \in Workers, Step(w)
  PROVE  Typed'
  <1>1. ASSUME NEW id \in Ids, Claim(w, id) PROVE Typed'
    BY <1>1, ClaimTyped
  <1> QED BY <1>1, RequeueTyped, StartTyped, DecideTyped, BuildersTyped, ClearTyped, BuildTyped,
             EndTyped DEF Step

LEMMA NextTyped ==
  ASSUME Typed, [Next]_vars
  PROVE  Typed'
  <1>1. CASE Upload \/ Transfer \/ Reparse \/ Delete
    BY <1>1, RequestTyped
  <1>2. CASE CancelAndPurge
    BY <1>2, PurgeTyped
  <1>3. CASE Callback
    BY <1>3, CallbackTyped
  <1>4. ASSUME NEW id \in Ids, Cancel(id) \/ Lapse(id) PROVE Typed'
    BY <1>4, CancelTyped, LapseTyped
  <1>5. ASSUME NEW w \in Workers, Step(w) \/ Crash(w) PROVE Typed'
    BY <1>5, StepTyped, CrashTyped
  <1>6. CASE UNCHANGED vars
    BY <1>6 DEF vars, Typed, TypeOK, Jobs, JobFits, Sent, Snapped
  <1> QED BY <1>1, <1>2, <1>3, <1>4, <1>5, <1>6 DEF Next

\* The rows, tasks and jobs of the workers of the parsing service keep their types.
THEOREM TypeCorrect == Spec => []TypeOK
  <1>1. Init => Typed
    BY InitTyped
  <1>2. Typed /\ [Next]_vars => Typed'
    BY NextTyped
  <1>3. Typed => TypeOK
    BY DEF Typed
  <1> QED BY <1>1, <1>2, <1>3, PTL DEF Spec

-----------------------------------------------------------------------------
(* No row is left WORKING.                                                 *)

\* A worker that will still write the row of a group it has marked, or passes it.
Carries(w, g) ==
  \/ job[w].pc = "decide" /\ (job[w].n <= g \/ g \in job[w].exec)
  \/ job[w].pc \in {"mark", "clear", "build", "settle"} /\ g \in job[w].exec

\* A task that a worker has begun and nobody is at: it will be claimed anew.
Orphan(id) ==
  /\ Open(id) /\ tasks[id].ran /\ tasks[id].type # "DELETE"
  /\ \A w \in Workers : ~(owner[id] = w /\ job[w].task = id)

Explained(g) == (\E w \in Workers : Carries(w, g)) \/ (\E id \in Ids : Orphan(id))

WorkingExplained == ~mishap => \A g \in G : ng[g] = "WORKING" => Explained(g)

LEMMA OrphanKept ==
  ASSUME Typed, Later, NEW id \in Ids, Orphan(id), Open(id)', owner'[id] \in {owner[id], None},
         \A u \in Workers : job'[u].task = id => job'[u].task = job[u].task
  PROVE  Orphan(id)'
  <1>1. id \in 1..Len(tasks)
    BY QueueShape, GroupAssumption DEF Orphan, Open, Ids, Typed, TypeOK
  <1> QED BY <1>1, GroupAssumption DEF Orphan, Later

LEMMA ServiceKeeps ==
  ASSUME Typed, Later, UNCHANGED <<job, owner>>, NEW g \in G, Explained(g),
         \A id \in Ids : Orphan(id) => Open(id)'
  PROVE  Explained(g)'
  <1>1. CASE \E w \in Workers : Carries(w, g)
    BY <1>1 DEF Explained, Carries
  <1>2. ASSUME NEW id \in Ids, Orphan(id) PROVE Explained(g)'
    BY <1>2, OrphanKept DEF Explained
  <1> QED BY <1>1, <1>2 DEF Explained

LEMMA WorkerKeeps ==
  ASSUME Typed, Later, NEW w \in Workers, Moves(w), NEW g \in G, Explained(g),
         Carries(w, g) => Carries(w, g)', job'[w].task \in {job[w].task, 0},
         \A id \in Ids : Orphan(id) => Open(id)' /\ owner'[id] \in {owner[id], None}
  PROVE  Explained(g)'
  <1>1. ASSUME NEW u \in Workers, Carries(u, g) PROVE Carries(u, g)'
    <2>1. CASE u = w
      BY <1>1, <2>1
    <2>2. CASE u # w
      BY <1>1, <2>2 DEF Moves, Carries
    <2> QED BY <2>1, <2>2
  <1>2. ASSUME NEW id \in Ids, Orphan(id) PROVE Orphan(id)'
    <2>1. id # 0
      BY GroupAssumption DEF Ids
    <2>2. \A u \in Workers : job'[u].task = id => job'[u].task = job[u].task
      BY <2>1 DEF Moves
    <2> QED BY <1>2, <2>2, OrphanKept
  <1> QED BY <1>1, <1>2 DEF Explained

\* The document service writes no row WORKING, and cancels no task that has begun.
LEMMA RequestExplained ==
  ASSUME Typed, WorkingExplained, Upload \/ Transfer \/ Reparse \/ Delete
  PROVE  WorkingExplained'
  <1>1. PICK type \in Types : Submit(type)
    BY DEF Upload, Transfer, Reparse, Delete, Types
  <1>2. Later /\ UNCHANGED <<owner, job, mishap, late>>
          /\ row' = [row EXCEPT ![Len(tasks) + 1] = "WAITING"]
    BY <1>1, SubmitLater DEF Submit
  <1>3. \A id \in Ids : Open(id) => Open(id)'
    BY <1>2, QueueShape DEF Open, None
  <1>4. \A g \in G : ng'[g] = "WORKING" => ng[g] = "WORKING"
    BY DEF Upload, Transfer, Reparse, Delete, Pending
  <1>5. \A id \in Ids : Orphan(id) => Open(id)'
    BY <1>3 DEF Orphan
  <1> QED BY <1>2, <1>4, <1>5, ServiceKeeps DEF WorkingExplained

LEMMA CancelExplained ==
  ASSUME Typed, WorkingExplained, NEW c \in Ids, Cancel(c)
  PROVE  WorkingExplained'
  <1>1. Later
    BY CancelTyped
  <1>2. /\ row' = [row EXCEPT ![c] = "GONE"] /\ mishap' = (mishap \/ tasks[c].ran)
        /\ UNCHANGED <<ng, owner, job>>
    BY DEF Cancel
  <1> SUFFICES ASSUME ~mishap' PROVE WorkingExplained'
    BY DEF WorkingExplained
  <1>3. ~mishap /\ ~tasks[c].ran
    BY <1>2
  <1>4. \A id \in Ids : Orphan(id) => Open(id)'
    BY <1>2, <1>3, QueueShape DEF Orphan, Open
  <1> QED BY <1>1, <1>2, <1>3, <1>4, ServiceKeeps DEF WorkingExplained

LEMMA CallbackExplained ==
  ASSUME Typed, WorkingExplained, CancelAndPurge \/ Callback
  PROVE  WorkingExplained'
  <1>1. CASE CancelAndPurge
    BY <1>1 DEF WorkingExplained, CancelAndPurge, None
  <1>2. CASE Callback
    <2>1. Later /\ UNCHANGED <<row, owner, job, mishap>>
      BY <1>2, CallbackTyped DEF Callback
    <2>2. \A g \in G : ng'[g] = "WORKING" => ng[g] = "WORKING"
      BY <1>2 DEF Callback, AfterDelete, None
    <2>3. \A id \in Ids : Orphan(id) => Open(id)'
      BY <2>1 DEF Orphan, Open
    <2> QED BY <2>1, <2>2, <2>3, ServiceKeeps DEF WorkingExplained
  <1> QED BY <1>1, <1>2

LEMMA LapseExplained ==
  ASSUME Typed, WorkingExplained, NEW c \in Ids, Lapse(c)
  PROVE  WorkingExplained'
  <1>1. /\ row' = [row EXCEPT ![c] = "LAPSED"]
        /\ UNCHANGED <<ng, tasks, owner, job, mishap, late>>
    BY DEF Lapse
  <1>2. Later
    BY <1>1, SameTasks DEF Typed
  <1>3. \A id \in Ids : Orphan(id) => Open(id)'
    BY <1>1, QueueShape DEF Orphan, Open, None
  <1> QED BY <1>1, <1>2, <1>3, ServiceKeeps DEF WorkingExplained

\* A worker that leaves the queue alone.
LEMMA QuietWorkerKeeps ==
  ASSUME Typed, UNCHANGED queue, NEW w \in Workers, Moves(w), job'[w].task = job[w].task,
         NEW g \in G, Explained(g), Carries(w, g) => Carries(w, g)'
  PROVE  Explained(g)'
  <1>1. Later /\ UNCHANGED <<row, owner>>
    BY SameTasks DEF queue, Typed
  <1>2. \A id \in Ids : Orphan(id) => Open(id)' /\ owner'[id] \in {owner[id], None}
    BY <1>1 DEF Orphan, Open
  <1> QED BY <1>1, <1>2, WorkerKeeps

\* Idle and starting workers carry nothing.
LEMMA StartExplained ==
  ASSUME Typed, WorkingExplained, NEW w \in Workers, Spare(w) \/ Reset(w)
  PROVE  WorkingExplained'
  <1>1. /\ job[w].pc \in {"spare", "reset"} /\ UNCHANGED <<queue, mishap, late>>
        /\ Goto(w, "idle") \/ Goto(w, "reset")
    BY DEF Spare, Reset, At
  <1>2. Moves(w) /\ job'[w].task = job[w].task
    BY <1>1, GotoMoves DEF Typed, Pcs
  <1>3. \A g \in G : ~Carries(w, g) /\ (ng'[g] = "WORKING" => ng[g] = "WORKING")
    BY <1>1 DEF Carries, Spare, Reset
  <1> QED BY <1>1, <1>2, <1>3, QuietWorkerKeeps DEF WorkingExplained

LEMMA RequeueExplained ==
  ASSUME Typed, WorkingExplained, NEW w \in Workers, Requeue(w)
  PROVE  WorkingExplained'
  <1>1. /\ row' = [id \in Ids |-> IF row[id] = "LAPSED" THEN "WAITING" ELSE row[id]]
        /\ owner' = [id \in Ids |-> IF row[id] = "LAPSED" THEN None ELSE owner[id]]
        /\ UNCHANGED <<ng, tasks, mishap, late>> /\ job[w].pc = "down"
    BY DEF Requeue, At
  <1>2. Moves(w) /\ job'[w].task = 0 /\ Later
    BY <1>1, RequeueTyped, SameTasks DEF Typed
  <1>3. \A id \in Ids : Orphan(id) => Open(id)' /\ owner'[id] \in {owner[id], None}
    BY <1>1 DEF Orphan, Open, None
  <1>4. \A g \in G : ~Carries(w, g)
    BY <1>1 DEF Carries
  <1> QED BY <1>1, <1>2, <1>3, <1>4, WorkerKeeps DEF WorkingExplained

LEMMA ClaimExplained ==
  ASSUME Typed, WorkingExplained, NEW w \in Workers, NEW c \in Ids, Claim(w, c)
  PROVE  WorkingExplained'
  <1>1. /\ row' = [row EXCEPT ![c] = "WORKING"] /\ owner' = [owner EXCEPT ![c] = w]
        /\ UNCHANGED <<ng, mishap, late>> /\ job[w].pc = "idle"
    BY DEF Claim, At
  <1>2. /\ Later /\ Moves(w) /\ job'[w].pc = FirstStep(tasks[c].type) /\ job'[w].task = c
        /\ job'[w].exec = (IF tasks[c].type = "REPARSE" THEN G ELSE {}) /\ job'[w].n = 1
        /\ c <= Len(tasks)
    BY ClaimTyped
  <1> SUFFICES ASSUME NEW g \in G, Explained(g) PROVE Explained(g)'
    BY <1>1 DEF WorkingExplained
  <1>3. ASSUME NEW u \in Workers, Carries(u, g) PROVE Carries(u, g)'
    <2>1. u # w
      BY <1>1, <1>3 DEF Carries
    <2> QED BY <1>2, <1>3, <2>1 DEF Moves, Carries
  <1>4. ASSUME NEW id \in Ids, Orphan(id), id # c PROVE Orphan(id)'
    <2>1. owner'[id] = owner[id] /\ row'[id] = row[id]
      BY <1>1, <1>4, QueueShape
    <2>2. \A u \in Workers : job'[u].task = id => job'[u].task = job[u].task
      BY <1>2, <1>4 DEF Moves
    <2>3. Open(id)'
      BY <1>4, <2>1 DEF Orphan, Open
    <2> QED BY <1>2, <1>4, <2>1, <2>2, <2>3, OrphanKept
  <1>5. CASE Orphan(c)
    <2>1. tasks[c].type \in {"ADD", "TRANSFER", "REPARSE"}
      <3>1. c \in 1..Len(tasks)
        BY <1>2, GroupAssumption DEF Typed, TypeOK, Ids
      <3> QED BY <1>5, <3>1, TaskType DEF Orphan, Types, Typed
    <2>2. 1 <= g
      BY GroupAssumption DEF G
    <2>3. Carries(w, g)'
      BY <1>2, <2>1, <2>2 DEF Carries, FirstStep
    <2> QED BY <2>3 DEF Explained
  <1> QED BY <1>3, <1>4, <1>5 DEF Explained

\* A worker that passes a group whose row says WORKING will build it, and marks it.
LEMMA DecideExplained ==
  ASSUME Typed, WorkingExplained, NEW w \in Workers, Decide(w)
  PROVE  WorkingExplained'
  <1>1. /\ Moves(w) /\ job'[w].pc = "decide" /\ job'[w].task = job[w].task
        /\ job'[w].n = job[w].n + 1 /\ job[w].n \in G
        /\ job'[w].exec = IF Skips(job[w].n) THEN job[w].exec ELSE job[w].exec \cup {job[w].n}
    BY DecideTyped
  <1>2. UNCHANGED <<ng, queue, mishap, late>>
    BY DEF Decide
  <1> SUFFICES ASSUME NEW g \in G, ng[g] = "WORKING", Explained(g) PROVE Explained(g)'
    BY <1>2 DEF WorkingExplained
  <1>3. Carries(w, g) => Carries(w, g)'
    <2>1. g \in Nat /\ job[w].n \in Nat
      BY <1>1, GroupAssumption DEF G
    <2>2. ~Skips(g)
      BY DEF Skips
    <2> QED BY <1>1, <2>1, <2>2 DEF Carries
  <1> QED BY <1>1, <1>2, <1>3, QuietWorkerKeeps

LEMMA BuildersExplained ==
  ASSUME Typed, WorkingExplained, NEW w \in Workers, Decided(w) \/ Built(w) \/ Mark(w) \/ Settle(w)
  PROVE  WorkingExplained'
  <1>1. CASE Decided(w)
    <2>1. /\ job[w].pc = "decide" /\ job[w].n > Groups /\ UNCHANGED <<ng, queue, mishap, late>>
          /\ Goto(w, IF job[w].exec = {} THEN "end" ELSE "mark")
      BY <1>1 DEF Decided, At
    <2>2. /\ Moves(w) /\ job'[w].task = job[w].task /\ job'[w].exec = job[w].exec
          /\ job'[w].pc = IF job[w].exec = {} THEN "end" ELSE "mark"
      BY <2>1, GotoMoves DEF Typed, Pcs
    <2>3. \A g \in G : Carries(w, g) => Carries(w, g)'
      <3>1. job[w].n \in Nat
        BY JobShape, GroupAssumption DEF JobRec
      <3> QED BY <2>1, <2>2, <3>1, GroupAssumption DEF Carries, G
    <2> QED BY <2>1, <2>2, <2>3, QuietWorkerKeeps DEF WorkingExplained
  <1>2. CASE Built(w)
    <2>1. job[w].pc = "build" /\ UNCHANGED <<ng, queue, mishap, late>> /\ Goto(w, "settle")
      BY <1>2 DEF Built, At
    <2>2. /\ Moves(w) /\ job'[w].task = job[w].task /\ job'[w].exec = job[w].exec
          /\ job'[w].pc = "settle"
      BY <2>1, GotoMoves DEF Typed, Pcs
    <2>3. \A g \in G : Carries(w, g) => Carries(w, g)'
      BY <2>1, <2>2 DEF Carries
    <2> QED BY <2>1, <2>2, <2>3, QuietWorkerKeeps DEF WorkingExplained
  <1>3. CASE Mark(w)
    <2>1. /\ job[w].pc = "mark" /\ UNCHANGED queue /\ Write(w, "WORKING")
          /\ Goto(w, IF TypeOf(w) = "REPARSE" THEN "clear" ELSE "build")
      BY <1>3 DEF Mark, At
    <2>2. /\ Moves(w) /\ job'[w].task = job[w].task /\ job'[w].exec = job[w].exec
          /\ job'[w].pc \in {"clear", "build"}
      BY <2>1, GotoMoves DEF Typed, Pcs
    <2>3. \A g \in job[w].exec : Carries(w, g)'
      BY <2>2 DEF Carries
    <2>4. \A g \in G : Carries(w, g) => Carries(w, g)'
      BY <2>1, <2>2 DEF Carries
    <2> SUFFICES ASSUME ~mishap', NEW g \in G, ng'[g] = "WORKING" PROVE Explained(g)'
      BY DEF WorkingExplained
    <2>5. ~mishap /\ ng' = [h \in G |-> IF h \in job[w].exec THEN "WORKING" ELSE ng[h]]
      BY <2>1 DEF Write
    <2>6. CASE g \in job[w].exec
      BY <2>3, <2>6 DEF Explained
    <2>7. CASE g \notin job[w].exec
      BY <2>1, <2>2, <2>4, <2>5, <2>7, QuietWorkerKeeps DEF WorkingExplained
    <2> QED BY <2>6, <2>7
  <1>4. CASE Settle(w)
    <2>1. /\ job[w].pc = "settle" /\ UNCHANGED queue /\ Goto(w, "end")
          /\ Write(w, IF job[w].ok THEN "SUCCESS" ELSE "FAILED")
      BY <1>4 DEF Settle, At
    <2>2. Moves(w) /\ job'[w].task = job[w].task
      BY <2>1, GotoMoves DEF Typed, Pcs
    <2> SUFFICES ASSUME ~mishap', NEW g \in G, ng'[g] = "WORKING" PROVE Explained(g)'
      BY DEF WorkingExplained
    <2>3. ~mishap /\ g \notin job[w].exec /\ ng[g] = "WORKING"
      BY <2>1 DEF Write
    <2>4. ~Carries(w, g)
      BY <2>1, <2>3 DEF Carries
    <2> QED BY <2>1, <2>2, <2>3, <2>4, QuietWorkerKeeps DEF WorkingExplained
  <1> QED BY <1>1, <1>2, <1>3, <1>4

LEMMA ClearExplained ==
  ASSUME Typed, WorkingExplained, NEW w \in Workers, Clear(w) \/ Build(w)
  PROVE  WorkingExplained'
  <1>1. UNCHANGED <<ng, queue>> /\ (mishap => mishap')
    <2>1. Remove(w) => (mishap => mishap')
      BY DEF Remove
    <2>2. mishap => mishap'
      BY <2>1 DEF Clear, Build
    <2> QED BY <2>2 DEF Clear, Build
  <1>2. Moves(w) /\ job'[w].task = job[w].task /\ \A g \in G : Carries(w, g) => Carries(w, g)'
    <2>1. CASE Clear(w)
      <3>1. job[w].pc = "clear" /\ JobFits(job[w]) /\ job[w].task # 0
        BY <2>1, JobShape DEF Clear, At, JobFits
      <3>2. PICK pc \in {"settle", "end", "build"} :
              (Goto(w, pc) \/ Fails(w, pc)) /\ (pc = "end" => TypeOf(w) = "DELETE")
        BY <2>1 DEF Clear
      <3>3. /\ Moves(w) /\ job'[w].task = job[w].task /\ job'[w].exec = job[w].exec
            /\ job'[w].pc = pc
        BY <3>2, GotoMoves, FailsMoves DEF Typed, Pcs
      <3> QED BY <3>1, <3>2, <3>3 DEF Carries, JobFits, TypeOf
    <2>2. CASE Build(w)
      <3>1. job[w].pc = "build" /\ job[w].n <= Groups /\ job[w].ok \in BOOLEAN
        BY <2>2, JobShape DEF Build, At, JobRec
      <3>2. /\ Moves(w) /\ job'[w].task = job[w].task /\ job'[w].exec = job[w].exec
            /\ job'[w].pc \in {"build", "settle"}
        BY <2>2, <3>1, BuildMoves, FailsMoves DEF Build, Typed, Pcs
      <3> QED BY <3>1, <3>2 DEF Carries
    <2> QED BY <2>1, <2>2
  <1> QED BY <1>1, <1>2, QuietWorkerKeeps DEF WorkingExplained

LEMMA EndExplained ==
  ASSUME Typed, WorkingExplained, NEW w \in Workers, End(w)
  PROVE  WorkingExplained'
  <1>1. Moves(w) /\ job'[w].task = 0 /\ job[w].task \in Ids
    BY EndTyped
  <1>2. /\ row' = (IF owner[job[w].task] = w THEN [row EXCEPT ![job[w].task] = "GONE"] ELSE row)
        /\ UNCHANGED <<ng, tasks, owner, mishap, late>> /\ job[w].pc = "end"
    BY DEF End, At
  <1>3. \A id \in Ids : Orphan(id) => Open(id)'
    BY <1>1, <1>2, QueueShape DEF Orphan, Open
  <1>4. \A g \in G : ~Carries(w, g)
    BY <1>2 DEF Carries
  <1>5. Later
    BY <1>2, SameTasks DEF Typed
  <1> QED BY <1>1, <1>2, <1>3, <1>4, <1>5, WorkerKeeps DEF WorkingExplained

\* The task of a worker that dies is left in the queue, or the worker had lost it.
LEMMA CrashExplained ==
  ASSUME Typed, WorkingExplained, NEW w \in Workers, Crash(w)
  PROVE  WorkingExplained'
  <1>1. /\ job' = [job EXCEPT ![w] = Down] /\ UNCHANGED <<ng, queue>>
        /\ mishap' = (mishap \/ (job[w].task # 0 /\ ~Holds(w)))
    BY DEF Crash
  <1>2. Moves(w) /\ job'[w].task = 0
    BY <1>1, IdleFits
  <1>3. Later /\ UNCHANGED <<tasks, row, owner>>
    BY <1>1, SameTasks DEF queue, Typed
  <1> SUFFICES ASSUME ~mishap', NEW g \in G, Explained(g) PROVE Explained(g)'
    BY <1>1 DEF WorkingExplained
  <1>4. CASE ~Carries(w, g)
    <2>1. \A id \in Ids : Orphan(id) => Open(id)' /\ owner'[id] \in {owner[id], None}
      BY <1>3 DEF Orphan, Open
    <2> QED BY <1>2, <1>3, <1>4, <2>1, WorkerKeeps
  <1>5. CASE Carries(w, g)
    <2>1. job[w].task # 0 /\ tasks[job[w].task].ran /\ tasks[job[w].task].type # "DELETE"
      BY <1>5, JobShape DEF JobFits, Carries
    <2>2. PICK id \in Ids : id = job[w].task
      BY <2>1, JobShape, GroupAssumption DEF JobRec, Ids
    <2>3. Holds(w)
      BY <1>1, <2>1
    <2>4. owner[id] = w /\ Open(id) /\ id # 0
      BY <2>1, <2>2, <2>3 DEF Holds, Open, None
    <2>5. Orphan(id)'
      <3>1. Open(id)' /\ tasks'[id] = tasks[id] /\ owner'[id] = w
        BY <1>3, <2>4 DEF Open
      <3>2. \A u \in Workers : ~(owner'[id] = u /\ job'[u].task = id)
        BY <1>2, <2>4, <3>1
      <3> QED BY <2>1, <2>2, <3>1, <3>2 DEF Orphan
    <2> QED BY <2>5 DEF Explained
  <1> QED BY <1>4, <1>5

LEMMA NextExplained ==
  ASSUME Typed, WorkingExplained, [Next]_vars
  PROVE  WorkingExplained'
  <1>1. CASE Upload \/ Transfer \/ Reparse \/ Delete
    BY <1>1, RequestExplained
  <1>2. CASE CancelAndPurge \/ Callback
    BY <1>2, CallbackExplained
  <1>3. ASSUME NEW id \in Ids, Cancel(id) \/ Lapse(id) PROVE WorkingExplained'
    BY <1>3, CancelExplained, LapseExplained
  <1>4. ASSUME NEW w \in Workers, Step(w) \/ Crash(w) PROVE WorkingExplained'
    <2>1. ASSUME NEW id \in Ids, Claim(w, id) PROVE WorkingExplained'
      BY <2>1, ClaimExplained
    <2> QED BY <1>4, <2>1, RequeueExplained, StartExplained, DecideExplained, BuildersExplained,
               ClearExplained, EndExplained, CrashExplained DEF Step
  <1>5. CASE UNCHANGED vars
    BY <1>5 DEF vars, WorkingExplained, Explained, Carries, Orphan, Open
  <1> QED BY <1>1, <1>2, <1>3, <1>4, <1>5 DEF Next

\* When no task is left, no status row says that a worker is building, unless a
\* write was lost or a task that had begun was taken away (NoRowLeftWorking).
THEOREM RowsEndSettled == Spec => []NoRowLeftWorking
  <1>1. Init => Typed /\ WorkingExplained
    BY InitTyped DEF Init, WorkingExplained, None
  <1>2. Typed /\ WorkingExplained /\ [Next]_vars => (Typed /\ WorkingExplained)'
    BY NextTyped, NextExplained
  <1>3. Typed /\ WorkingExplained => NoRowLeftWorking
    <2> SUFFICES ASSUME Typed, WorkingExplained, Quiet, ~mishap, NEW g \in G, ng[g] = "WORKING"
                 PROVE  FALSE
      BY DEF NoRowLeftWorking
    <2>1. \A w \in Workers : ~Carries(w, g)
      BY JobShape DEF Quiet, Carries, JobFits
    <2>2. \A id \in Ids : ~Orphan(id)
      BY DEF Quiet, Orphan, Open
    <2> QED BY <2>1, <2>2 DEF WorkingExplained, Explained
  <1> QED BY <1>1, <1>2, <1>3, PTL DEF Spec

-----------------------------------------------------------------------------
(* A deletion.                                                             *)

Fine == ~mishap /\ ~late
Is(id, type) == tasks[id].type = type
Has(id, s) == \E i \in DOMAIN outbox : outbox[i] = [task |-> id, status |-> s]

Deleting == current # 0 /\ Is(current, "DELETE")

\* The current delete may have removed the segments.
Cleared ==
  \/ ~bound \/ Has(current, "SUCCESS")
  \/ \E w \in Workers : job[w].task = current /\ job[w].pc = "end"

\* A delete is never canceled; without a mishap it does not fail; when it has removed
\* the segments it is the only task left, and as long as it is the current one the
\* document waits for it, or is gone with its rows.
DeleteRecords ==
  \A id \in 1..Len(tasks) : Is(id, "DELETE") => tasks[id].record \notin {"WAITING", "CANCELED"}
DeletesSucceed ==
  ~mishap =>
    /\ \A w \in Workers : job[w].task # 0 /\ TypeOf(w) = "DELETE" => job[w].ok
    /\ \A id \in 1..Len(tasks) : Is(id, "DELETE") => ~Has(id, "FAILED")
Alone(d) ==
  /\ \A id \in Ids \ {d} : ~Open(id)
  /\ \A w \in Workers : job[w].task \in {0, d}
DeleteAlone == Fine /\ Deleting /\ Cleared => Alone(current)
DeleteBound ==
  Fine /\ Deleting => IF bound THEN status = "DELETING" ELSE \A g \in G : ng[g] = None
DeletePends ==
  Fine /\ Deleting /\ bound =>
    Open(current) \/ Has(current, "SUCCESS") \/ \E w \in Workers : job[w].task = current
Deletion == DeleteRecords /\ DeletesSucceed /\ DeleteAlone /\ DeleteBound /\ DeletePends

LEMMA OutboxShape == ASSUME Typed PROVE outbox \in Seq(Message)
  BY DEF Typed, TypeOK, Message

LEMMA HasAppend ==
  ASSUME Typed, NEW m \in Message, outbox' = Append(outbox, m), NEW id, NEW s
  PROVE  Has(id, s)' <=> Has(id, s) \/ m = [task |-> id, status |-> s]
  <1>1. /\ Len(outbox) \in Nat /\ DOMAIN outbox = 1..Len(outbox)
        /\ DOMAIN outbox' = 1..(Len(outbox) + 1) /\ outbox'[Len(outbox) + 1] = m
        /\ \A i \in 1..Len(outbox) : outbox'[i] = outbox[i]
    BY OutboxShape
  <1>2. ASSUME Has(id, s)' PROVE Has(id, s) \/ m = [task |-> id, status |-> s]
    <2>1. PICK i \in DOMAIN outbox' : outbox'[i] = [task |-> id, status |-> s]
      BY <1>2 DEF Has
    <2>2. CASE i \in 1..Len(outbox)
      BY <1>1, <2>1, <2>2 DEF Has
    <2>3. CASE i = Len(outbox) + 1
      BY <1>1, <2>1, <2>3
    <2> QED BY <1>1, <2>2, <2>3
  <1>3. ASSUME Has(id, s) PROVE Has(id, s)'
    <2>1. PICK i \in DOMAIN outbox : outbox[i] = [task |-> id, status |-> s]
      BY <1>3 DEF Has
    <2>2. i \in DOMAIN outbox' /\ outbox'[i] = outbox[i]
      BY <1>1, <2>1
    <2> QED BY <2>1, <2>2 DEF Has
  <1>4. ASSUME m = [task |-> id, status |-> s] PROVE Has(id, s)'
    <2>1. Len(outbox) + 1 \in DOMAIN outbox'
      BY <1>1
    <2> QED BY <1>1, <1>4, <2>1 DEF Has
  <1> QED BY <1>2, <1>3, <1>4

LEMMA HasTail ==
  ASSUME Typed, outbox # << >>, outbox' = Tail(outbox), NEW id, NEW s
  PROVE  Has(id, s) <=> Has(id, s)' \/ Head(outbox) = [task |-> id, status |-> s]
  <1>1. /\ Len(outbox) \in Nat \ {0} /\ DOMAIN outbox = 1..Len(outbox)
        /\ DOMAIN outbox' = 1..(Len(outbox) - 1) /\ Head(outbox) = outbox[1]
        /\ \A i \in 1..(Len(outbox) - 1) : outbox'[i] = outbox[i + 1]
    BY OutboxShape
  <1>2. ASSUME Has(id, s) PROVE Has(id, s)' \/ Head(outbox) = [task |-> id, status |-> s]
    <2>1. PICK i \in DOMAIN outbox : outbox[i] = [task |-> id, status |-> s]
      BY <1>2 DEF Has
    <2>2. CASE i = 1
      BY <1>1, <2>1, <2>2
    <2>3. CASE i # 1
      <3>1. i - 1 \in 1..(Len(outbox) - 1) /\ (i - 1) + 1 = i
        BY <1>1, <2>3
      <3>2. outbox'[i - 1] = outbox[i]
        BY <1>1, <3>1
      <3> QED BY <1>1, <2>1, <3>1, <3>2 DEF Has
    <2> QED BY <2>2, <2>3
  <1>3. ASSUME Has(id, s)' PROVE Has(id, s)
    <2>1. PICK i \in DOMAIN outbox' : outbox'[i] = [task |-> id, status |-> s]
      BY <1>3 DEF Has
    <2>2. i + 1 \in DOMAIN outbox /\ outbox[i + 1] = outbox'[i]
      BY <1>1
    <2> QED BY <2>1, <2>2 DEF Has
  <1>4. ASSUME Head(outbox) = [task |-> id, status |-> s] PROVE Has(id, s)
    <2>1. 1 \in DOMAIN outbox
      BY <1>1
    <2> QED BY <1>1, <1>4, <2>1 DEF Has
  <1> QED BY <1>2, <1>3, <1>4

LEMMA HasSame ==
  ASSUME outbox' = outbox, NEW id, NEW s
  PROVE  Has(id, s)' <=> Has(id, s)
  BY DEF Has

LEMMA CurrentShape ==
  ASSUME Typed
  PROVE  /\ Len(tasks) \in Nat /\ current \in Nat /\ current <= Len(tasks)
         /\ current # 0 => current \in Ids /\ current \in 1..Len(tasks)
  BY GroupAssumption DEF Typed, TypeOK, Ids

\* A task that is not submitted yet is nobody's.
LEMMA NothingOfNew ==
  ASSUME Typed, NEW s
  PROVE  ~Has(Len(tasks) + 1, s) /\ \A w \in Workers : job[w].task # Len(tasks) + 1
  <1>1. ~Has(Len(tasks) + 1, s)
    <2> SUFFICES ASSUME NEW i \in DOMAIN outbox, outbox[i] = [task |-> Len(tasks) + 1, status |-> s]
                 PROVE  FALSE
      BY DEF Has
    <2>1. outbox[i].task <= Len(tasks) /\ outbox[i].task = Len(tasks) + 1
      BY DEF Typed, Sent
    <2> QED BY <2>1, CurrentShape
  <1>2. \A w \in Workers : job[w].task # Len(tasks) + 1
    BY JobShape DEF JobFits
  <1> QED BY <1>1, <1>2

LEMMA TypeOfKept ==
  ASSUME Typed, Later, NEW w \in Workers, job'[w].task = job[w].task, job[w].task # 0
  PROVE  TypeOf(w)' = TypeOf(w)
  <1>1. job[w].task \in 1..Len(tasks)
    BY JobShape DEF JobFits
  <1> QED BY <1>1 DEF TypeOf, Later

LEMMA RequestDeletion ==
  ASSUME Typed, Deletion, Upload \/ Transfer \/ Reparse \/ Delete
  PROVE  Deletion'
  <1>0. PICK new \in Nat : new = Len(tasks) + 1
    BY CurrentShape
  <1>1. PICK type \in Types : Submit(type) /\ (type = "DELETE" => bound' = TRUE)
    BY DEF Upload, Transfer, Reparse, Delete, Types, Typed, TypeOK
  <1>2. /\ Later /\ Len(tasks') = Len(tasks) + 1 /\ new \in Ids
        /\ \A i \in 1..Len(tasks) : tasks'[i] = tasks[i]
        /\ tasks'[new].type = type
        /\ tasks'[new].record = IF type = "DELETE" THEN "DELETING" ELSE "WAITING"
    <2>1. /\ Later /\ Len(tasks') = Len(tasks) + 1 /\ new \in Ids
          /\ \A i \in 1..Len(tasks) : tasks'[i] = tasks[i]
          /\ tasks'[new] =
               [type |-> type, record |-> IF type = "DELETE" THEN "DELETING" ELSE "WAITING",
                ran |-> FALSE]
      BY <1>0, <1>1, SubmitLater
    <2> QED BY <2>1
  <1>3. /\ current' = new /\ status' = (IF type = "DELETE" THEN "DELETING" ELSE "WAITING")
        /\ UNCHANGED <<outbox, job, mishap, late>> /\ row' = [row EXCEPT ![new] = "WAITING"]
    BY <1>0, <1>1 DEF Submit
  <1>4. ASSUME NEW s PROVE ~Has(new, s)'
    BY <1>0, <1>3, NothingOfNew, HasSame
  <1>5. \A w \in Workers : job'[w].task # new
    BY <1>0, <1>3, NothingOfNew
  <1>6. Len(tasks) \in Nat /\ \A i \in 1..Len(tasks') : i \in 1..Len(tasks) \/ i = new
    BY <1>0, <1>2, CurrentShape
  <1>7. DeleteRecords'
    BY <1>2, <1>6 DEF Deletion, DeleteRecords, Is
  <1>8. DeletesSucceed'
    <2> SUFFICES ASSUME ~mishap PROVE DeletesSucceed'
      BY <1>3 DEF DeletesSucceed
    <2>1. ASSUME NEW w \in Workers, job'[w].task # 0, TypeOf(w)' = "DELETE" PROVE job'[w].ok
      BY <1>2, <1>3, <2>1, TypeOfKept DEF Deletion, DeletesSucceed
    <2>2. ASSUME NEW id \in 1..Len(tasks'), Is(id, "DELETE")' PROVE ~Has(id, "FAILED")'
      BY <1>2, <1>3, <1>4, <1>6, <2>2, HasSame DEF Deletion, DeletesSucceed, Is
    <2> QED BY <2>1, <2>2 DEF DeletesSucceed
  <1>9. CASE type # "DELETE"
    BY <1>2, <1>3, <1>7, <1>8, <1>9
       DEF Deletion, DeleteAlone, DeleteBound, DeletePends, Deleting, Is
  <1>10. CASE type = "DELETE"
    <2>1. ~Cleared'
      BY <1>1, <1>3, <1>4, <1>5, <1>10 DEF Cleared
    <2>2. Open(current)'
      BY <1>2, <1>3, QueueShape DEF Open, None
    <2> QED BY <1>1, <1>3, <1>7, <1>8, <1>10, <2>1, <2>2
            DEF Deletion, DeleteAlone, DeleteBound, DeletePends
  <1> QED BY <1>9, <1>10

LEMMA CancelDeletion ==
  ASSUME Typed, Deletion, NEW c \in Ids, Cancel(c)
  PROVE  Deletion'
  <1>1. /\ Typed' /\ Later /\ c \in 1..Len(tasks) /\ ~Is(c, "DELETE")
    <2>1. c \in 1..Len(tasks) /\ tasks[c].record = "WAITING"
      BY CurrentShape, GroupAssumption DEF Cancel, Cancelable, Ids
    <2> QED BY <2>1, CancelTyped DEF Deletion, DeleteRecords
  <1>2. /\ row' = [row EXCEPT ![c] = "GONE"]
        /\ tasks' = IF c = current THEN [tasks EXCEPT ![c].record = "CANCELED"] ELSE tasks
        /\ status' = IF c = current THEN "CANCELED" ELSE status
        /\ (mishap => mishap') /\ UNCHANGED <<ng, outbox, bound, current, job, late>>
    BY DEF Cancel
  <1>3. /\ Len(tasks') = Len(tasks)
        /\ \A i \in 1..Len(tasks) : tasks'[i].type = tasks[i].type
        /\ \A i \in 1..Len(tasks) : Is(i, "DELETE") => tasks'[i] = tasks[i]
    <2>1. tasks \in Seq(TaskRec)
      BY QueueShape
    <2>2. \A i \in 1..Len(tasks) : tasks'[i].type = tasks[i].type
      BY <1>1 DEF Later
    <2>3. Len(tasks') = Len(tasks) /\ \A i \in 1..Len(tasks) : i # c => tasks'[i] = tasks[i]
      BY <1>1, <1>2, <2>1
    <2> QED BY <1>1, <2>2, <2>3
  <1>4. DeleteRecords'
    BY <1>3 DEF Deletion, DeleteRecords, Is
  <1>5. DeletesSucceed'
    <2> SUFFICES ASSUME ~mishap PROVE DeletesSucceed'
      BY <1>2 DEF DeletesSucceed
    <2>1. ASSUME NEW w \in Workers, job'[w].task # 0, TypeOf(w)' = "DELETE" PROVE job'[w].ok
      BY <1>1, <1>2, <2>1, TypeOfKept DEF Deletion, DeletesSucceed
    <2>2. ASSUME NEW id \in 1..Len(tasks'), Is(id, "DELETE")' PROVE ~Has(id, "FAILED")'
      BY <1>2, <1>3, <2>2, HasSame DEF Deletion, DeletesSucceed, Is
    <2> QED BY <2>1, <2>2 DEF DeletesSucceed
  <1> SUFFICES ASSUME Fine', Deleting' PROVE DeleteAlone' /\ DeleteBound' /\ DeletePends'
    BY <1>4, <1>5 DEF Deletion, DeleteAlone, DeleteBound, DeletePends
  <1>6. Fine /\ Deleting /\ c # current /\ status' = status /\ current \in Ids
    BY <1>1, <1>2, <1>3, CurrentShape DEF Fine, Deleting, Is
  <1>7. /\ Open(current)' <=> Open(current)
        /\ \A id \in Ids : Open(id)' => Open(id)
    BY <1>2, <1>6, QueueShape DEF Open
  <1>8. Cleared' <=> Cleared
    BY <1>2 DEF Cleared, Has
  <1>9. DeleteAlone'
    BY <1>2, <1>6, <1>7, <1>8 DEF Deletion, DeleteAlone, Alone
  <1>10. DeleteBound'
    BY <1>2, <1>6 DEF Deletion, DeleteBound
  <1>11. DeletePends'
    BY <1>2, <1>6, <1>7 DEF Deletion, DeletePends, Has
  <1> QED BY <1>9, <1>10, <1>11

LEMMA PurgeDeletion ==
  ASSUME Typed, Deletion, CancelAndPurge
  PROVE  Deletion'
  <1>1. /\ Typed' /\ Later /\ current \in 1..Len(tasks) /\ ~Is(current, "DELETE")
    <2>1. Typed' /\ Later /\ current \in Ids
      BY PurgeTyped
    <2>2. current # 0
      BY <2>1, GroupAssumption DEF Ids
    <2>3. tasks[current].type = "ADD"
      BY DEF CancelAndPurge
    <2> QED BY <2>1, <2>2, <2>3, CurrentShape DEF Is
  <1>2. /\ tasks' = [tasks EXCEPT ![current].record = "CANCELED"]
        /\ (mishap => mishap') /\ current' = 0 /\ UNCHANGED <<outbox, job>>
    BY DEF CancelAndPurge
  <1>3. /\ Len(tasks') = Len(tasks)
        /\ \A i \in 1..Len(tasks) : tasks'[i].type = tasks[i].type
        /\ \A i \in 1..Len(tasks) : Is(i, "DELETE") => tasks'[i] = tasks[i]
    <2>1. tasks \in Seq(TaskRec)
      BY QueueShape
    <2>2. \A i \in 1..Len(tasks) : tasks'[i].type = tasks[i].type
      BY <1>1 DEF Later
    <2>3. Len(tasks') = Len(tasks) /\ \A i \in 1..Len(tasks) : i # current => tasks'[i] = tasks[i]
      BY <1>1, <1>2, <2>1
    <2> QED BY <1>1, <2>2, <2>3
  <1>4. DeleteRecords'
    BY <1>3 DEF Deletion, DeleteRecords, Is
  <1>5. DeletesSucceed'
    <2> SUFFICES ASSUME ~mishap PROVE DeletesSucceed'
      BY <1>2 DEF DeletesSucceed
    <2>1. ASSUME NEW w \in Workers, job'[w].task # 0, TypeOf(w)' = "DELETE" PROVE job'[w].ok
      BY <1>1, <1>2, <2>1, TypeOfKept DEF Deletion, DeletesSucceed
    <2>2. ASSUME NEW id \in 1..Len(tasks'), Is(id, "DELETE")' PROVE ~Has(id, "FAILED")'
      BY <1>2, <1>3, <2>2, HasSame DEF Deletion, DeletesSucceed, Is
    <2> QED BY <2>1, <2>2 DEF DeletesSucceed
  <1> QED BY <1>2, <1>4, <1>5
          DEF Deletion, DeleteAlone, DeleteBound, DeletePends, Deleting

LEMMA CallbackDeletion ==
  ASSUME Typed, Deletion, Callback
  PROVE  Deletion'
  <1>0. PICK c \in Ids, s \in {"WORKING", "SUCCESS", "FAILED"} :
          c = Head(outbox).task /\ s = Head(outbox).status /\ Head(outbox) = [task |-> c, status |-> s]
          /\ c \in 1..Len(tasks)
    <2>1. outbox # << >> /\ Head(outbox) \in Message
      BY OutboxShape DEF Callback
    <2> QED BY <2>1, CallbackTyped, CurrentShape, GroupAssumption DEF Message, Ids
  <1> DEFINE ignored == (current # 0 /\ current # c) \/ tasks[c].record = "CANCELED"
  <1>1. /\ outbox # << >> /\ outbox' = Tail(outbox)
        /\ \/ ignored /\ UNCHANGED <<ng, tasks, doc>>
           \/ /\ ~ignored
              /\ tasks' = [tasks EXCEPT ![c].record = IF s = "WORKING" THEN s ELSE "DONE"]
              /\ current' = c /\ status' = Snapshot(tasks[c].type, s)
              /\ AfterDelete(c, s)
        /\ late' = (late \/ (current = 0 /\ ~ignored))
        /\ UNCHANGED <<row, job, mishap>>
    BY <1>0 DEF Callback
  <1> HIDE DEF ignored
  <1>2. Later
    BY CallbackTyped
  <1>3. /\ Len(tasks') = Len(tasks)
        /\ \A i \in 1..Len(tasks) : tasks'[i].type = tasks[i].type
        /\ \A i \in 1..Len(tasks) : tasks'[i].record \in {tasks[i].record, "WORKING", "DONE"}
    <2>1. tasks \in Seq(TaskRec) /\ tasks[c] \in TaskRec
      BY <1>0, QueueShape, TaskType DEF Typed
    <2>2. \A i \in 1..Len(tasks) : tasks'[i].type = tasks[i].type
      BY <1>2 DEF Later
    <2>3. CASE tasks' = tasks
      BY <2>3
    <2>4. CASE tasks' = [tasks EXCEPT ![c].record = IF s = "WORKING" THEN s ELSE "DONE"]
      BY <1>0, <2>1, <2>2, <2>4 DEF TaskRec
    <2> QED BY <1>1, <2>3, <2>4
  <1>4. DeleteRecords'
    BY <1>3 DEF Deletion, DeleteRecords, Is
  <1>5. \A id \in Ids : Open(id)' <=> Open(id)
    BY <1>1 DEF Open
  <1>6. ASSUME NEW id, NEW r PROVE Has(id, r)' => Has(id, r)
    BY <1>1, HasTail
  <1>7. DeletesSucceed'
    <2> SUFFICES ASSUME ~mishap PROVE DeletesSucceed'
      BY <1>1 DEF DeletesSucceed
    <2>1. ASSUME NEW w \in Workers, job'[w].task # 0, TypeOf(w)' = "DELETE" PROVE job'[w].ok
      BY <1>1, <1>2, <2>1, TypeOfKept DEF Deletion, DeletesSucceed
    <2>2. ASSUME NEW id \in 1..Len(tasks'), Is(id, "DELETE")' PROVE ~Has(id, "FAILED")'
      BY <1>3, <1>6, <2>2 DEF Deletion, DeletesSucceed, Is
    <2> QED BY <2>1, <2>2 DEF DeletesSucceed
  <1> SUFFICES ASSUME Fine', Deleting' PROVE DeleteAlone' /\ DeleteBound' /\ DeletePends'
    BY <1>4, <1>7 DEF Deletion, DeleteAlone, DeleteBound, DeletePends
  <1>8. /\ Fine /\ Deleting /\ current' = current /\ current \in Ids /\ current \in 1..Len(tasks)
        /\ ~ignored => current = c
    BY <1>0, <1>1, <1>3, CurrentShape DEF Fine, Deleting, Is, doc, ignored
  <1>9. CASE ignored
    <2>1. current # c /\ UNCHANGED <<ng, bound, status>>
      BY <1>1, <1>8, <1>9 DEF ignored, Deletion, DeleteRecords, Deleting, doc
    <2>2. Has(current, "SUCCESS")' <=> Has(current, "SUCCESS")
      <3>1. Head(outbox) # [task |-> current, status |-> "SUCCESS"]
        BY <1>0, <2>1
      <3> QED BY <1>1, <1>8, <3>1, HasTail DEF Has
    <2>3. Cleared' => Cleared
      BY <1>1, <1>8, <2>1, <2>2 DEF Cleared
    <2>4. DeleteAlone'
      BY <1>1, <1>5, <1>8, <2>3 DEF Deletion, DeleteAlone, Alone
    <2>5. DeleteBound'
      BY <1>8, <2>1 DEF Deletion, DeleteBound
    <2>6. DeletePends'
      BY <1>1, <1>5, <1>8, <2>1, <2>2 DEF Deletion, DeletePends
    <2> QED BY <2>4, <2>5, <2>6
  <1>10. CASE ~ignored
    <2>1. /\ c = current /\ tasks[c].type = "DELETE" /\ status' = Snapshot("DELETE", s)
          /\ AfterDelete(c, s)
      BY <1>1, <1>8, <1>10 DEF Deleting, Is
    <2>2. Has(current, s)
      BY <1>0, <1>1, <2>1, HasTail
    <2>3. s \in {"WORKING", "SUCCESS"}
      BY <1>8, <2>2 DEF Deletion, DeletesSucceed, Deleting, Fine
    <2>4. CASE s = "SUCCESS"
      <3>1. ~bound' /\ (\A g \in G : ng'[g] = None) /\ Cleared
        BY <2>1, <2>2, <2>4 DEF AfterDelete, Cleared
      <3>2. DeleteAlone'
        BY <1>1, <1>5, <1>8, <3>1 DEF Deletion, DeleteAlone, Alone
      <3> QED BY <3>1, <3>2 DEF DeleteBound, DeletePends
    <2>5. CASE s = "WORKING"
      <3>1. status' = "DELETING" /\ UNCHANGED <<bound, ng>>
        BY <2>1, <2>5 DEF AfterDelete, Snapshot
      <3>2. Has(current, "SUCCESS")' <=> Has(current, "SUCCESS")
        <4>1. Head(outbox) # [task |-> current, status |-> "SUCCESS"]
          BY <1>0, <2>5
        <4> QED BY <1>1, <1>8, <4>1, HasTail DEF Has
      <3>3. Cleared' => Cleared
        BY <1>1, <1>8, <3>1, <3>2 DEF Cleared
      <3>4. DeleteAlone'
        BY <1>1, <1>5, <1>8, <3>3 DEF Deletion, DeleteAlone, Alone
      <3>5. DeleteBound'
        BY <1>8, <3>1 DEF Deletion, DeleteBound
      <3>6. DeletePends'
        BY <1>1, <1>5, <1>8, <3>1, <3>2 DEF Deletion, DeletePends
      <3> QED BY <3>4, <3>5, <3>6
    <2> QED BY <2>3, <2>4, <2>5
  <1> QED BY <1>9, <1>10

\* What a step that leaves the tasks, the document and the outbox says of a deletion.
LEMMA WorkDeletion ==
  ASSUME Typed, Deletion, UNCHANGED <<tasks, outbox, doc>>, mishap => mishap', late => late',
         job' \in [Workers -> JobRec],
         \A w \in Workers : job'[w].task \in {0, job[w].task},
         ~mishap' => \A w \in Workers :
            job'[w].task # 0 /\ TypeOf(w) = "DELETE" => job'[w].ok,
         \A id \in Ids : Open(id)' <=> Open(id),
         Fine' /\ Deleting => \A w \in Workers :
            /\ job'[w].task = current /\ job'[w].pc = "end" => job[w].pc = "end" \/ Alone(current)
            /\ job[w].task = current /\ job'[w].task = 0 => Open(current),
         Fine' /\ Deleting /\ ~bound => \A g \in G : ng'[g] = ng[g] \/ ng'[g] = None
  PROVE  Deletion'
  <1>1. DeleteRecords'
    BY DEF Deletion, DeleteRecords, Is
  <1>2. DeletesSucceed'
    <2> SUFFICES ASSUME ~mishap' PROVE DeletesSucceed'
      BY DEF DeletesSucceed
    <2>1. ASSUME NEW w \in Workers, job'[w].task # 0, TypeOf(w)' = "DELETE" PROVE job'[w].ok
      <3>1. TypeOf(w) = "DELETE"
        BY <2>1 DEF TypeOf
      <3> QED BY <2>1, <3>1
    <2>2. ASSUME NEW id \in 1..Len(tasks'), Is(id, "DELETE")' PROVE ~Has(id, "FAILED")'
      BY <2>2, HasSame DEF Deletion, DeletesSucceed, Is
    <2> QED BY <2>1, <2>2 DEF DeletesSucceed
  <1> SUFFICES ASSUME Fine', Deleting' PROVE DeleteAlone' /\ DeleteBound' /\ DeletePends'
    BY <1>1, <1>2 DEF Deletion, DeleteAlone, DeleteBound, DeletePends
  <1>3. /\ Fine /\ Deleting /\ current' = current /\ current \in Ids /\ current # 0
        /\ UNCHANGED <<bound, status>>
    BY CurrentShape DEF Fine, Deleting, Is, doc
  <1>4. Has(current, "SUCCESS")' <=> Has(current, "SUCCESS")
    BY <1>3 DEF Has
  <1>5. DeleteAlone'
    <2> SUFFICES ASSUME Cleared' PROVE Alone(current)'
      BY DEF DeleteAlone
    <2>1. Cleared \/ Alone(current)
      <3>1. CASE ~bound' \/ Has(current, "SUCCESS")'
        BY <1>3, <1>4, <3>1 DEF Cleared
      <3>2. ASSUME NEW w \in Workers, job'[w].task = current, job'[w].pc = "end"
            PROVE  Cleared \/ Alone(current)
        <4>1. job[w].task = current
          BY <1>3, <3>2
        <4> QED BY <1>3, <3>2, <4>1 DEF Cleared
      <3> QED BY <1>3, <3>1, <3>2 DEF Cleared
    <2>2. Alone(current)
      BY <1>3, <2>1 DEF Deletion, DeleteAlone
    <2> QED BY <1>3, <2>2 DEF Alone
  <1>6. DeleteBound'
    BY <1>3 DEF Deletion, DeleteBound
  <1>7. DeletePends'
    <2> SUFFICES ASSUME bound
                 PROVE  \/ Open(current)' \/ Has(current, "SUCCESS")'
                        \/ \E w \in Workers : job'[w].task = current
      BY <1>3 DEF DeletePends
    <2>1. CASE Open(current) \/ Has(current, "SUCCESS")
      BY <1>3, <1>4, <2>1
    <2>2. ASSUME NEW w \in Workers, job[w].task = current
          PROVE  job'[w].task = current \/ Open(current)'
      BY <1>3, <2>2
    <2> QED BY <1>3, <2>1, <2>2 DEF Deletion, DeletePends
  <1> QED BY <1>5, <1>6, <1>7

\* A worker that leaves the queue, the outbox and the document alone, at something
\* that is not a delete.
LEMMA BuilderDeletion ==
  ASSUME Typed, Deletion, NEW w \in Workers, UNCHANGED <<queue, outbox, doc>>,
         mishap => mishap', late => late', Moves(w), job'[w].task = job[w].task,
         job[w].task = 0 \/ TypeOf(w) # "DELETE",
         Fine' /\ job[w].task = 0 => \A g \in G : ng'[g] = ng[g] \/ ng[g] # None
  PROVE  Deletion'
  <1>1. UNCHANGED <<tasks, outbox, doc>> /\ job' \in [Workers -> JobRec]
        /\ \A u \in Workers : job'[u].task = job[u].task /\ (u # w => job'[u] = job[u])
    BY DEF queue, Moves
  <1>2. ~mishap' => \A u \in Workers : job'[u].task # 0 /\ TypeOf(u) = "DELETE" => job'[u].ok
    BY <1>1 DEF Deletion, DeletesSucceed
  <1>3. \A id \in Ids : Open(id)' <=> Open(id)
    BY DEF queue, Open
  <1>4. Fine' /\ Deleting => job[w].task # current
    BY DEF Deleting, TypeOf, Is
  <1>5. Fine' /\ Deleting => \A u \in Workers :
          /\ job'[u].task = current /\ job'[u].pc = "end" => job[u].pc = "end" \/ Alone(current)
          /\ job[u].task = current /\ job'[u].task = 0 => Open(current)
    BY <1>1, <1>4 DEF Deleting
  <1>6. ASSUME Fine', Deleting, ~bound PROVE \A g \in G : ng'[g] = ng[g] \/ ng'[g] = None
    <2>1. Fine /\ \A g \in G : ng[g] = None
      BY <1>6 DEF Deletion, DeleteBound, Fine
    <2>2. Alone(current)
      BY <1>6, <2>1 DEF Deletion, DeleteAlone, Cleared
    <2>3. job[w].task = 0
      BY <1>4, <1>6, <2>2 DEF Alone
    <2> QED BY <1>6, <2>1, <2>3
  <1> QED BY <1>1, <1>2, <1>3, <1>5, <1>6, WorkDeletion

LEMMA BuildersDeletion ==
  ASSUME Typed, Deletion, NEW w \in Workers,
         Spare(w) \/ Reset(w) \/ Decide(w) \/ Decided(w) \/ Mark(w) \/ Build(w) \/ Built(w) \/ Settle(w)
  PROVE  Deletion'
  <1>1. CASE Spare(w) \/ Reset(w)
    <2>1. Goto(w, "idle") \/ Goto(w, "reset")
      BY <1>1 DEF Spare, Reset
    <2>2. Moves(w) /\ job'[w].task = job[w].task
      BY <2>1, GotoMoves DEF Typed, Pcs
    <2>3. UNCHANGED <<queue, outbox, doc, mishap, late>> /\ job[w].pc \in {"spare", "reset"}
          /\ \A g \in G : ng'[g] = ng[g] \/ ng[g] # None
      BY <1>1 DEF Spare, Reset, At, None
    <2>4. job[w].task = 0
      BY <2>3, JobShape DEF JobFits
    <2> QED BY <2>2, <2>3, <2>4, BuilderDeletion
  <1>2. CASE ~(Spare(w) \/ Reset(w))
    <2>1. /\ UNCHANGED <<queue, outbox, doc>>
          /\ job[w].pc \in {"decide", "mark", "build", "settle"}
      BY <1>2 DEF Decide, Decided, Mark, Build, Built, Settle, At
    <2>2. job[w].task # 0 /\ TypeOf(w) # "DELETE"
      BY <2>1, JobShape DEF JobFits, TypeOf
    <2>3. (mishap => mishap') /\ (late => late')
      <3>1. Remove(w) => (mishap => mishap') /\ (late => late')
        BY DEF Remove
      <3>2. ASSUME NEW s, Write(w, s) PROVE mishap => mishap'
        BY <3>2 DEF Write
      <3>3. CASE Build(w)
        BY <3>1, <3>3 DEF Build
      <3>4. CASE Mark(w) \/ Settle(w)
        BY <3>2, <3>4 DEF Mark, Settle
      <3>5. CASE Decide(w) \/ Decided(w) \/ Built(w)
        BY <3>5 DEF Decide, Decided, Built
      <3> QED BY <1>2, <3>3, <3>4, <3>5
    <2>4. Moves(w) /\ job'[w].task = job[w].task
      <3>1. CASE Decide(w)
        BY <3>1, DecideTyped
      <3>2. CASE Build(w)
        <4>1. job[w].n <= Groups /\ job[w].ok \in BOOLEAN
          BY <3>2, JobShape DEF Build, JobRec
        <4> QED BY <3>2, <4>1, BuildMoves, FailsMoves DEF Build, Typed, Pcs
      <3>3. CASE Decided(w) \/ Mark(w) \/ Built(w) \/ Settle(w)
        <4>1. \E pc \in Pcs : Goto(w, pc)
          BY <3>3 DEF Decided, Mark, Built, Settle, Pcs
        <4> QED BY <4>1, GotoMoves DEF Typed
      <3> QED BY <1>2, <3>1, <3>2, <3>3
    <2> QED BY <2>1, <2>2, <2>3, <2>4, BuilderDeletion
  <1> QED BY <1>1, <1>2

\* A delete that removes the segments is the only task, or that is a mishap.
LEMMA ClearDeletion ==
  ASSUME Typed, Deletion, NEW w \in Workers, Clear(w)
  PROVE  Deletion'
  <1>1. /\ job[w].pc = "clear" /\ job[w].task # 0 /\ job[w].ok
        /\ UNCHANGED <<ng, queue, outbox, doc>>
    BY JobShape DEF Clear, At, JobFits
  <1>2. PICK pc \in {"settle", "end", "build"} :
          /\ Goto(w, pc) \/ Fails(w, pc)
          /\ TypeOf(w) = "DELETE" => pc = "end" /\ (mishap' \/ (Goto(w, pc) /\ Remove(w)))
          /\ TypeOf(w) # "DELETE" => pc # "end"
    BY DEF Clear
  <1>3. Moves(w) /\ job'[w].task = job[w].task /\ job'[w].pc = pc
        /\ (Goto(w, pc) => job'[w].ok = job[w].ok)
    BY <1>2, GotoMoves, FailsMoves DEF Typed, Pcs
  <1>4. (mishap => mishap') /\ (late => late')
    <2>1. Remove(w) => (mishap => mishap') /\ (late => late')
      BY DEF Remove
    <2> QED BY <2>1 DEF Clear
  <1>5. UNCHANGED <<tasks, outbox, doc>> /\ job' \in [Workers -> JobRec]
        /\ \A u \in Workers : job'[u].task = job[u].task /\ (u # w => job'[u] = job[u])
    BY <1>1, <1>3 DEF queue, Moves
  <1>6. ~mishap' => \A u \in Workers : job'[u].task # 0 /\ TypeOf(u) = "DELETE" => job'[u].ok
    <2> SUFFICES ASSUME ~mishap', NEW u \in Workers, job'[u].task # 0, TypeOf(u) = "DELETE"
                 PROVE  job'[u].ok
      OBVIOUS
    <2>1. CASE u = w
      BY <1>1, <1>2, <1>3, <2>1
    <2>2. CASE u # w
      BY <1>4, <1>5, <2>2 DEF Deletion, DeletesSucceed
    <2> QED BY <2>1, <2>2
  <1>7. \A id \in Ids : Open(id)' <=> Open(id)
    BY <1>1 DEF queue, Open
  <1>8. ASSUME Fine', Deleting, NEW u \in Workers, job'[u].task = current, job'[u].pc = "end"
        PROVE  job[u].pc = "end" \/ Alone(current)
    <2>1. CASE u # w
      BY <1>5, <1>8, <2>1
    <2>2. CASE u = w
      <3>1. job[w].task = current /\ TypeOf(w) = "DELETE"
        BY <1>3, <1>8, <2>2 DEF Deleting, Is, TypeOf
      <3>2. Remove(w) /\ ~mishap'
        BY <1>2, <1>8, <3>1 DEF Fine
      <3>3. /\ \A v \in Workers \ {w} : job[v].task = 0
            /\ \A id \in Ids \ {job[w].task} : ~Open(id)
        BY <3>1, <3>2 DEF Remove
      <3> QED BY <3>1, <3>3 DEF Alone
    <2> QED BY <2>1, <2>2
  <1>9. Deleting => \A u \in Workers : job[u].task = current /\ job'[u].task = 0 => Open(current)
    BY <1>5 DEF Deleting
  <1> QED BY <1>1, <1>4, <1>5, <1>6, <1>7, <1>8, <1>9, WorkDeletion

LEMMA CrashDeletion ==
  ASSUME Typed, Deletion, NEW w \in Workers, Crash(w)
  PROVE  Deletion'
  <1>1. /\ job' = [job EXCEPT ![w] = Down] /\ UNCHANGED <<ng, queue, outbox, doc, late>>
        /\ mishap' = (mishap \/ (job[w].task # 0 /\ ~Holds(w)))
    BY DEF Crash
  <1>2. Moves(w) /\ job'[w].task = 0 /\ job'[w].pc # "end"
    BY <1>1, IdleFits
  <1>3. UNCHANGED <<tasks, outbox, doc>> /\ job' \in [Workers -> JobRec] /\ (mishap => mishap')
        /\ \A u \in Workers : job'[u].task \in {0, job[u].task} /\ (u # w => job'[u] = job[u])
    BY <1>1, <1>2 DEF queue, Moves
  <1>4. ~mishap' => \A u \in Workers : job'[u].task # 0 /\ TypeOf(u) = "DELETE" => job'[u].ok
    BY <1>2, <1>3 DEF Deletion, DeletesSucceed
  <1>5. \A id \in Ids : Open(id)' <=> Open(id)
    BY <1>1 DEF queue, Open
  <1>6. ASSUME Fine', Deleting, NEW u \in Workers
        PROVE  /\ job'[u].task = current /\ job'[u].pc = "end" => job[u].pc = "end" \/ Alone(current)
               /\ job[u].task = current /\ job'[u].task = 0 => Open(current)
    <2>1. CASE u # w
      BY <1>3, <1>6, <2>1 DEF Deleting
    <2>2. CASE u = w
      BY <1>1, <1>2, <1>6, <2>2 DEF Deleting, Fine, Holds, Open, None
    <2> QED BY <2>1, <2>2
  <1> QED BY <1>1, <1>3, <1>4, <1>5, <1>6, WorkDeletion

LEMMA LeaseDeletion ==
  ASSUME Typed, Deletion,
         (\E c \in Ids : Lapse(c)) \/ (\E w \in Workers : Requeue(w))
  PROVE  Deletion'
  <1>1. UNCHANGED <<ng, tasks, outbox, doc, mishap, late>>
    BY DEF Lapse, Requeue
  <1>2. /\ job' \in [Workers -> JobRec]
        /\ \A u \in Workers :
             job'[u].task = job[u].task /\ (job'[u].pc = "end" => job[u].pc = "end")
        /\ \A u \in Workers : job'[u].task # 0 => job'[u] = job[u]
    <2>1. ASSUME NEW c \in Ids, Lapse(c) PROVE job' = job
      BY <2>1 DEF Lapse
    <2>2. ASSUME NEW w \in Workers, Requeue(w)
          PROVE  Moves(w) /\ job[w].task = 0 /\ job'[w].task = 0 /\ job'[w].pc = "spare"
      <3>1. Goto(w, "spare")
        BY <2>2 DEF Requeue
      <3> QED BY <2>2, <3>1, RequeueTyped, GotoMoves DEF Pcs, Typed
    <2>3. CASE job' = job
      BY <2>3, JobType DEF Typed
    <2> QED BY <2>1, <2>2, <2>3 DEF Moves
  <1>3. \A id \in Ids : Open(id)' <=> Open(id)
    <2>1. ASSUME NEW c \in Ids, Lapse(c) PROVE \A id \in Ids : Open(id)' <=> Open(id)
      BY <2>1, QueueShape DEF Lapse, Open, None
    <2>2. ASSUME NEW w \in Workers, Requeue(w) PROVE \A id \in Ids : Open(id)' <=> Open(id)
      BY <2>2, QueueShape DEF Requeue, Open, None
    <2> QED BY <2>1, <2>2
  <1>4. ~mishap' => \A u \in Workers : job'[u].task # 0 /\ TypeOf(u) = "DELETE" => job'[u].ok
    BY <1>1, <1>2 DEF Deletion, DeletesSucceed
  <1>5. Deleting => \A u \in Workers :
          /\ job'[u].task = current /\ job'[u].pc = "end" => job[u].pc = "end" \/ Alone(current)
          /\ job[u].task = current /\ job'[u].task = 0 => Open(current)
    BY <1>2 DEF Deleting
  <1> QED BY <1>1, <1>2, <1>3, <1>4, <1>5, WorkDeletion

LEMMA ClaimDeletion ==
  ASSUME Typed, Deletion, NEW w \in Workers, NEW c \in Ids, Claim(w, c)
  PROVE  Deletion'
  <1>1. /\ row' = [row EXCEPT ![c] = "WORKING"] /\ Open(c)
        /\ outbox' = Append(outbox, [task |-> c, status |-> "WORKING"])
        /\ UNCHANGED <<ng, doc, mishap, late>>
    BY DEF Claim, Open, None
  <1>2. /\ Later /\ Moves(w) /\ c <= Len(tasks) /\ job[w].task = 0 /\ job'[w].task = c
        /\ \A i \in 1..Len(tasks) : tasks'[i].type = tasks[i].type /\ tasks'[i].record = tasks[i].record
        /\ job'[w].pc = FirstStep(tasks[c].type) /\ job'[w].ok = TRUE
    BY ClaimTyped
  <1>3. Len(tasks') = Len(tasks)
    BY QueueShape DEF Claim
  <1>4. \A id, s : Has(id, s)' <=> Has(id, s) \/ (id = c /\ s = "WORKING")
    <2>1. [task |-> c, status |-> "WORKING"] \in Message
      BY DEF Message
    <2>2. ASSUME NEW id, NEW s PROVE Has(id, s)' <=> Has(id, s) \/ (id = c /\ s = "WORKING")
      <3>1. Has(id, s)' <=>
              Has(id, s) \/ [task |-> c, status |-> "WORKING"] = [task |-> id, status |-> s]
        BY <1>1, <2>1, HasAppend
      <3> QED BY <3>1
    <2> QED BY <2>2
  <1>5. DeleteRecords'
    BY <1>2, <1>3 DEF Deletion, DeleteRecords, Is
  <1>6. DeletesSucceed'
    <2> SUFFICES ASSUME ~mishap PROVE DeletesSucceed'
      BY <1>1 DEF DeletesSucceed
    <2>1. ASSUME NEW u \in Workers, job'[u].task # 0, TypeOf(u)' = "DELETE" PROVE job'[u].ok
      <3>1. CASE u = w
        BY <1>2, <3>1
      <3>2. CASE u # w
        <4>1. job'[u] = job[u]
          BY <1>2, <3>2 DEF Moves
        <4>2. TypeOf(u) = "DELETE"
          BY <1>2, <2>1, <4>1, TypeOfKept
        <4> QED BY <2>1, <4>1, <4>2 DEF Deletion, DeletesSucceed
      <3> QED BY <3>1, <3>2
    <2>2. ASSUME NEW id \in 1..Len(tasks'), Is(id, "DELETE")' PROVE ~Has(id, "FAILED")'
      BY <1>2, <1>3, <1>4, <2>2 DEF Deletion, DeletesSucceed, Is
    <2> QED BY <2>1, <2>2 DEF DeletesSucceed
  <1> SUFFICES ASSUME Fine', Deleting' PROVE DeleteAlone' /\ DeleteBound' /\ DeletePends'
    BY <1>5, <1>6 DEF Deletion, DeleteAlone, DeleteBound, DeletePends
  <1>7. /\ Fine /\ Deleting /\ current' = current /\ current \in Ids /\ current # 0
        /\ UNCHANGED <<bound, status>>
    BY <1>1, <1>2, CurrentShape DEF Fine, Deleting, Is, doc
  <1>8. \A id \in Ids : Open(id)' <=> Open(id)
    BY <1>1, QueueShape DEF Open, None
  <1>9. Has(current, "SUCCESS")' <=> Has(current, "SUCCESS")
    <2>1. PICK d : d = current /\ d = current'
      BY <1>7
    <2>2. Has(d, "SUCCESS")' <=> Has(d, "SUCCESS")
      BY <1>4
    <2> QED BY <2>1, <2>2 DEF Has
  <1>10. DeleteAlone'
    <2> SUFFICES ASSUME Cleared' PROVE Alone(current)'
      BY DEF DeleteAlone
    <2>1. job'[w].pc # "end"
      BY <1>2 DEF FirstStep
    <2>2. Cleared
      BY <1>2, <1>7, <1>9, <2>1 DEF Cleared, Moves
    <2>3. Alone(current) /\ c = current
      BY <1>1, <1>7, <2>2 DEF Deletion, DeleteAlone, Alone
    <2> QED BY <1>2, <1>7, <1>8, <2>3 DEF Alone, Moves
  <1>11. DeleteBound'
    BY <1>1, <1>7 DEF Deletion, DeleteBound
  <1>12. DeletePends'
    BY <1>2, <1>7, <1>8, <1>9 DEF Deletion, DeletePends, Moves
  <1> QED BY <1>10, <1>11, <1>12

LEMMA EndDeletion ==
  ASSUME Typed, Deletion, NEW w \in Workers, End(w)
  PROVE  Deletion'
  <1>0. PICK c \in Ids, s \in {"SUCCESS", "FAILED"} :
          c = job[w].task /\ s = IF job[w].ok THEN "SUCCESS" ELSE "FAILED"
    BY EndTyped
  <1>1. /\ row' = (IF owner[c] = w THEN [row EXCEPT ![c] = "GONE"] ELSE row)
        /\ outbox' = Append(outbox, [task |-> c, status |-> s])
        /\ UNCHANGED <<ng, tasks, owner, doc, mishap, late>> /\ job[w].pc = "end"
    BY <1>0 DEF End, At
  <1>2. Moves(w) /\ job'[w].task = 0 /\ c # 0
    BY <1>0, EndTyped, GroupAssumption DEF Ids
  <1>3. \A id, r : Has(id, r)' <=> Has(id, r) \/ (id = c /\ r = s)
    <2>1. [task |-> c, status |-> s] \in Message
      BY DEF Message
    <2>2. ASSUME NEW id, NEW r PROVE Has(id, r)' <=> Has(id, r) \/ (id = c /\ r = s)
      <3>1. Has(id, r)' <=> Has(id, r) \/ [task |-> c, status |-> s] = [task |-> id, status |-> r]
        BY <1>1, <2>1, HasAppend
      <3> QED BY <3>1
    <2> QED BY <2>2
  <1>4. ~mishap /\ Is(c, "DELETE") => s = "SUCCESS"
    BY <1>0, <1>2 DEF Deletion, DeletesSucceed, TypeOf, Is
  <1>5. DeleteRecords'
    BY <1>1 DEF Deletion, DeleteRecords, Is
  <1>6. DeletesSucceed'
    <2> SUFFICES ASSUME ~mishap PROVE DeletesSucceed'
      BY <1>1 DEF DeletesSucceed
    <2>1. ASSUME NEW u \in Workers, job'[u].task # 0, TypeOf(u)' = "DELETE" PROVE job'[u].ok
      BY <1>1, <1>2, <2>1 DEF Deletion, DeletesSucceed, Moves, TypeOf
    <2>2. ASSUME NEW id \in 1..Len(tasks'), Is(id, "DELETE")' PROVE ~Has(id, "FAILED")'
      <3>1. Is(id, "DELETE") /\ id \in 1..Len(tasks)
        BY <1>1, <2>2 DEF Is
      <3> QED BY <1>3, <1>4, <3>1 DEF Deletion, DeletesSucceed
    <2> QED BY <2>1, <2>2 DEF DeletesSucceed
  <1> SUFFICES ASSUME Fine', Deleting' PROVE DeleteAlone' /\ DeleteBound' /\ DeletePends'
    BY <1>5, <1>6 DEF Deletion, DeleteAlone, DeleteBound, DeletePends
  <1>7. /\ Fine /\ Deleting /\ current' = current /\ current \in Ids /\ current # 0
        /\ UNCHANGED <<bound, status>>
    BY <1>1, CurrentShape DEF Fine, Deleting, Is, doc
  <1>8. /\ \A id \in Ids : Open(id)' => Open(id)
        /\ \A id \in Ids : Open(id) /\ id # c => Open(id)'
    BY <1>1, QueueShape DEF Open
  <1>9. Has(current, "SUCCESS")' <=> Has(current, "SUCCESS") \/ c = current
    <2>1. PICK d : d = current /\ d = current'
      BY <1>7
    <2>2. Has(d, "SUCCESS")' <=> Has(d, "SUCCESS") \/ d = c
      <3>1. d = c => s = "SUCCESS"
        BY <1>4, <1>7, <2>1 DEF Fine, Deleting
      <3> QED BY <1>3, <3>1
    <2> QED BY <2>1, <2>2 DEF Has
  <1>10. DeleteAlone'
    <2> SUFFICES ASSUME Cleared' PROVE Alone(current)'
      BY DEF DeleteAlone
    <2>1. Cleared
      <3>1. CASE c = current
        BY <1>0, <1>1, <3>1 DEF Cleared
      <3>2. CASE c # current
        BY <1>2, <1>7, <1>9, <3>2 DEF Cleared, Moves
      <3> QED BY <3>1, <3>2
    <2>2. Alone(current)
      BY <1>7, <2>1 DEF Deletion, DeleteAlone
    <2> QED BY <1>2, <1>7, <1>8, <2>2 DEF Alone, Moves
  <1>11. DeleteBound'
    BY <1>1, <1>7 DEF Deletion, DeleteBound
  <1>12. DeletePends'
    <2>1. CASE c = current
      BY <1>7, <1>9, <2>1 DEF DeletePends
    <2>2. CASE c # current
      BY <1>0, <1>2, <1>7, <1>8, <1>9, <2>2 DEF Deletion, DeletePends, Moves
    <2> QED BY <2>1, <2>2
  <1> QED BY <1>10, <1>11, <1>12

LEMMA NextDeletion ==
  ASSUME Typed, Deletion, [Next]_vars
  PROVE  Deletion'
  <1>1. CASE Upload \/ Transfer \/ Reparse \/ Delete
    BY <1>1, RequestDeletion
  <1>2. CASE CancelAndPurge \/ Callback
    BY <1>2, PurgeDeletion, CallbackDeletion
  <1>3. ASSUME NEW id \in Ids, Cancel(id) \/ Lapse(id) PROVE Deletion'
    BY <1>3, CancelDeletion, LeaseDeletion
  <1>4. ASSUME NEW w \in Workers, Step(w) \/ Crash(w) PROVE Deletion'
    <2>1. ASSUME NEW id \in Ids, Claim(w, id) PROVE Deletion'
      BY <2>1, ClaimDeletion
    <2>2. CASE Requeue(w)
      BY <2>2, LeaseDeletion
    <2>3. CASE Clear(w) \/ End(w) \/ Crash(w)
      BY <2>3, ClearDeletion, EndDeletion, CrashDeletion
    <2> QED BY <1>4, <2>1, <2>2, <2>3, BuildersDeletion DEF Step
  <1>5. CASE UNCHANGED vars
    BY <1>5 DEF vars, Deletion, DeleteRecords, DeletesSucceed, DeleteAlone, DeleteBound, DeletePends,
                Fine, Deleting, Cleared, Alone, Is, Has, Open, TypeOf
  <1> QED BY <1>1, <1>2, <1>3, <1>4, <1>5 DEF Next

LEMMA InitDeletion == ASSUME Init PROVE Deletion
  BY DEF Init, Deletion, DeleteRecords, DeletesSucceed, DeleteAlone, DeleteBound, DeletePends,
         Deleting, Idle, Down

-----------------------------------------------------------------------------
(* What a worker has built is there when it settles.                       *)

BuiltBy(w) ==
  job[w].ok =>
    /\ job[w].pc = "build" => \A g \in job[w].exec : g < job[w].n => g \in chunks
    /\ job[w].pc = "settle" => job[w].exec \subseteq chunks
BuiltThere == ~mishap => \A w \in Workers : BuiltBy(w)

\* Segments are removed while others are at work, or that is a mishap.
LEMMA BuiltKept ==
  ASSUME Typed, BuiltThere, NEW w \in Workers, Moves(w), mishap => mishap', ~mishap' => BuiltBy(w)',
         ~mishap' => chunks \subseteq chunks' \/ \A u \in Workers \ {w} : job[u].task = 0
  PROVE  BuiltThere'
  <1> SUFFICES ASSUME ~mishap', NEW u \in Workers, u # w PROVE BuiltBy(u)'
    BY DEF BuiltThere
  <1>1. BuiltBy(u) /\ job'[u] = job[u]
    BY DEF BuiltThere, Moves
  <1>2. CASE chunks \subseteq chunks'
    BY <1>1, <1>2 DEF BuiltBy
  <1>3. CASE job[u].task = 0
    BY <1>1, <1>3, JobShape DEF BuiltBy, JobFits
  <1> QED BY <1>2, <1>3

LEMMA RemoveAlone ==
  ASSUME NEW w \in Workers, Remove(w)
  PROVE  /\ chunks' = {} /\ (mishap => mishap') /\ (late => late')
         /\ ~mishap' => \A u \in Workers \ {w} : job[u].task = 0
         /\ ~mishap' /\ TypeOf(w) = "TRANSFER" => \A g \in G : ng[g] # "SUCCESS"
         /\ ~late' /\ TypeOf(w) = "DELETE" => current = job[w].task
  BY DEF Remove

\* The steps of a worker that neither build nor settle next.
LEMMA RestBuilt ==
  ASSUME Typed, BuiltThere, NEW w \in Workers, UNCHANGED chunks, mishap => mishap', Moves(w),
         job'[w].pc \notin {"build", "settle"}
  PROVE  BuiltThere'
  BY BuiltKept DEF BuiltBy

LEMMA StepBuilt ==
  ASSUME Typed, BuiltThere, NEW w \in Workers, Step(w) \/ Crash(w)
  PROVE  BuiltThere'
  <1>1. CASE Requeue(w) \/ Spare(w) \/ Reset(w)
    <2>1. \E pc \in {"spare", "reset", "idle"} : Goto(w, pc)
      BY <1>1 DEF Requeue, Spare, Reset
    <2>2. Moves(w) /\ job'[w].pc \in {"spare", "reset", "idle"}
      BY <2>1, GotoMoves DEF Typed, Pcs
    <2> QED BY <1>1, <2>2, RestBuilt DEF Requeue, Spare, Reset
  <1>2. ASSUME NEW c \in Ids, Claim(w, c) PROVE BuiltThere'
    <2>1. Moves(w) /\ job'[w].pc = FirstStep(tasks[c].type)
      BY <1>2, ClaimTyped
    <2>2. UNCHANGED <<chunks, mishap>>
      BY <1>2 DEF Claim
    <2> QED BY <2>1, <2>2, RestBuilt DEF FirstStep
  <1>3. CASE Decide(w)
    BY <1>3, DecideTyped, RestBuilt DEF Decide
  <1>4. CASE Decided(w)
    <2>1. Moves(w) /\ job'[w].pc \in {"end", "mark"}
      BY <1>4, GotoMoves DEF Decided, Typed, Pcs
    <2> QED BY <1>4, <2>1, RestBuilt DEF Decided
  <1>5. CASE Mark(w)
    <2>1. /\ Moves(w) /\ job'[w].pc \in {"clear", "build"} /\ job'[w].n = 1
          /\ job'[w].exec = job[w].exec /\ UNCHANGED chunks /\ (mishap => mishap')
      BY <1>5, GotoMoves DEF Mark, Write, Typed, Pcs
    <2>2. job[w].exec \subseteq G
      BY JobShape DEF JobRec
    <2>3. BuiltBy(w)'
      BY <2>1, <2>2, GroupAssumption DEF BuiltBy, G
    <2> QED BY <2>1, <2>3, BuiltKept
  <1>6. CASE Clear(w)
    <2>1. CASE Goto(w, IF TypeOf(w) = "DELETE" THEN "end" ELSE "build") /\ Remove(w)
      <3>1. /\ Moves(w) /\ job'[w].pc \in {"end", "build"} /\ job'[w].n = 1
            /\ job'[w].exec = job[w].exec
        BY <2>1, GotoMoves DEF Typed, Pcs
      <3>2. job[w].exec \subseteq G
        BY JobShape DEF JobRec
      <3>3. BuiltBy(w)'
        BY <3>1, <3>2, GroupAssumption DEF BuiltBy, G
      <3> QED BY <2>1, <3>1, <3>3, BuiltKept, RemoveAlone
    <2>2. CASE Fails(w, IF TypeOf(w) = "DELETE" THEN "end" ELSE "settle")
               /\ (Remove(w) \/ UNCHANGED <<chunks, mishap>> \/ mishap' = TRUE)
      <3>1. Moves(w) /\ job'[w].ok = FALSE
        BY <2>2, FailsMoves DEF Typed, Pcs
      <3> QED BY <2>2, <3>1, BuiltKept, RemoveAlone DEF BuiltBy
    <2> QED BY <1>6, <2>1, <2>2 DEF Clear
  <1>7. CASE Build(w)
    <2>1. job[w].pc = "build" /\ job[w].n <= Groups /\ job[w].ok \in BOOLEAN
      BY <1>7, JobShape DEF Build, At, JobRec
    <2>2. CASE /\ chunks' = IF job[w].n \in job[w].exec \/ TypeOf(w) = "TRANSFER"
                            THEN chunks \cup {job[w].n} ELSE chunks
               /\ job' = [job EXCEPT ![w].n = job[w].n + 1] /\ UNCHANGED mishap
      <3>1. /\ Moves(w) /\ job'[w].n = job[w].n + 1 /\ job'[w].pc = "build"
            /\ job'[w].exec = job[w].exec /\ job'[w].ok = job[w].ok
        BY <2>1, <2>2, BuildMoves
      <3>2. ~mishap => BuiltBy(w)'
        <4> SUFFICES ASSUME ~mishap, job[w].ok, NEW g \in job[w].exec, g < job[w].n + 1
                     PROVE  g \in chunks'
          BY <3>1 DEF BuiltBy
        <4>1. g \in Int /\ job[w].n \in Int
          BY JobShape, GroupAssumption DEF JobRec, G
        <4>2. CASE g = job[w].n
          BY <2>2, <4>2
        <4>3. CASE g < job[w].n
          BY <2>1, <2>2, <4>3 DEF BuiltThere, BuiltBy
        <4> QED BY <4>1, <4>2, <4>3
      <3> QED BY <2>2, <3>1, <3>2, BuiltKept
    <2>3. CASE /\ job' = [job EXCEPT ![w].n = job[w].n + 1, ![w].ok = FALSE]
               /\ UNCHANGED <<chunks, mishap>>
      <3>1. Moves(w) /\ job'[w].ok = FALSE
        BY <2>1, <2>3, BuildMoves
      <3> QED BY <2>3, <3>1, BuiltKept DEF BuiltBy
    <2>4. CASE Fails(w, "settle") /\ Remove(w)
      <3>1. Moves(w) /\ job'[w].ok = FALSE
        BY <2>4, FailsMoves DEF Typed, Pcs
      <3> QED BY <2>4, <3>1, BuiltKept, RemoveAlone DEF BuiltBy
    <2> QED BY <1>7, <2>2, <2>3, <2>4 DEF Build
  <1>8. CASE Built(w)
    <2>1. /\ job[w].pc = "build" /\ job[w].n > Groups /\ UNCHANGED <<chunks, mishap>>
          /\ Goto(w, "settle")
      BY <1>8 DEF Built, At
    <2>2. /\ Moves(w) /\ job'[w].pc = "settle" /\ job'[w].exec = job[w].exec
          /\ job'[w].ok = job[w].ok
      BY <2>1, GotoMoves DEF Typed, Pcs
    <2>3. \A g \in job[w].exec : g < job[w].n
      BY <2>1, JobShape, GroupAssumption DEF JobRec, G
    <2>4. ~mishap => BuiltBy(w)'
      BY <2>1, <2>2, <2>3 DEF BuiltThere, BuiltBy
    <2> QED BY <2>1, <2>2, <2>4, BuiltKept
  <1>9. CASE Settle(w)
    <2>1. Moves(w) /\ job'[w].pc = "end"
      BY <1>9, GotoMoves DEF Settle, Typed, Pcs
    <2> QED BY <1>9, <2>1, RestBuilt DEF Settle, Write
  <1>10. CASE End(w)
    BY <1>10, EndTyped, RestBuilt DEF End
  <1>11. CASE Crash(w)
    <2>1. Moves(w) /\ job'[w].pc \in {"idle", "down"}
      BY <1>11, IdleFits DEF Crash
    <2> QED BY <1>11, <2>1, RestBuilt DEF Crash
  <1> QED BY <1>1, <1>2, <1>3, <1>4, <1>5, <1>6, <1>7, <1>8, <1>9, <1>10, <1>11 DEF Step

LEMMA NextBuilt ==
  ASSUME Typed, BuiltThere, [Next]_vars
  PROVE  BuiltThere'
  <1>1. ASSUME NEW w \in Workers, Step(w) \/ Crash(w) PROVE BuiltThere'
    BY <1>1, StepBuilt
  <1>2. ASSUME UNCHANGED <<chunks, job>>, mishap => mishap' PROVE BuiltThere'
    BY <1>2 DEF BuiltThere, BuiltBy
  <1>3. CASE Upload \/ Transfer \/ Reparse \/ Delete
    BY <1>2, <1>3 DEF Upload, Transfer, Reparse, Delete, Submit
  <1>4. CASE CancelAndPurge \/ Callback
    BY <1>2, <1>4 DEF CancelAndPurge, Callback
  <1>5. ASSUME NEW id \in Ids, Cancel(id) \/ Lapse(id) PROVE BuiltThere'
    BY <1>2, <1>5 DEF Cancel, Lapse
  <1>6. CASE UNCHANGED vars
    BY <1>2, <1>6 DEF vars
  <1> QED BY <1>1, <1>3, <1>4, <1>5, <1>6 DEF Next

-----------------------------------------------------------------------------
(* A row SUCCESS has segments, or they are being made or deleted.          *)

\* Until a reparse writes its outcome the rows say nothing of the segments it removes.
Rebuilds(w) ==
  /\ job[w].task # 0 /\ TypeOf(w) = "REPARSE"
  /\ job[w].pc \in {"mark", "clear", "build"} \/ (job[w].pc = "settle" /\ ~job[w].ok)
Restarts(id) == Orphan(id) /\ Is(id, "REPARSE")
Excused ==
  \/ \E w \in Workers : Rebuilds(w)
  \/ \E id \in Ids : Restarts(id)
  \/ Deleting /\ bound
Intact == \A g \in G : ng[g] = "SUCCESS" => g \in chunks
SuccessThere == Fine => Excused \/ Intact

LEMMA RebuildsKept ==
  ASSUME Typed, Later, NEW w \in Workers, job'[w] = job[w], Rebuilds(w)
  PROVE  Rebuilds(w)'
  <1>1. TypeOf(w)' = TypeOf(w)
    BY TypeOfKept DEF Rebuilds
  <1> QED BY <1>1 DEF Rebuilds

LEMMA RestartsKept ==
  ASSUME Typed, Later, NEW id \in Ids, Restarts(id), Open(id)', owner'[id] \in {owner[id], None},
         \A u \in Workers : job'[u].task = id => job'[u].task = job[u].task
  PROVE  Restarts(id)'
  <1>1. id \in 1..Len(tasks)
    BY QueueShape, CurrentShape, GroupAssumption DEF Restarts, Orphan, Open, Ids
  <1> QED BY <1>1, OrphanKept DEF Restarts, Later, Is

LEMMA DeletingKept ==
  ASSUME Typed, Later, Deleting, current' = current, bound, bound' = bound
  PROVE  Deleting' /\ bound'
  BY CurrentShape DEF Deleting, Is, Later

\* The document service takes segments from no row SUCCESS, and ends a deletion
\* only when the rows are gone.
LEMMA ServiceSucceeds ==
  ASSUME Typed, SuccessThere, Later, UNCHANGED <<job, owner, chunks>>, Fine' => Fine,
         Fine' => \A id \in Ids : Orphan(id) => Open(id)',
         \/ \A g \in G : ng'[g] # "SUCCESS"
         \/ /\ \A g \in G : ng'[g] = "SUCCESS" => ng[g] = "SUCCESS"
            /\ Fine' => (Deleting /\ bound => current' = current /\ bound' = bound)
  PROVE  SuccessThere'
  <1> SUFFICES ASSUME Fine' PROVE Excused' \/ Intact'
    BY DEF SuccessThere
  <1>1. CASE \A g \in G : ng'[g] # "SUCCESS"
    BY <1>1 DEF Intact
  <1>2. CASE /\ \A g \in G : ng'[g] = "SUCCESS" => ng[g] = "SUCCESS"
             /\ Deleting /\ bound => current' = current /\ bound' = bound
    <2>1. CASE Intact
      BY <1>2, <2>1 DEF Intact
    <2>2. ASSUME NEW w \in Workers, Rebuilds(w) PROVE Excused'
      BY <2>2, RebuildsKept DEF Excused
    <2>3. ASSUME NEW id \in Ids, Restarts(id) PROVE Excused'
      BY <2>3, RestartsKept DEF Excused, Restarts
    <2>4. CASE Deleting /\ bound
      BY <1>2, <2>4, DeletingKept DEF Excused
    <2> QED BY <2>1, <2>2, <2>3, <2>4 DEF SuccessThere, Excused
  <1> QED BY <1>1, <1>2

LEMMA RequestSucceeds ==
  ASSUME Typed, Deletion, SuccessThere, Upload \/ Transfer \/ Reparse \/ Delete
  PROVE  SuccessThere'
  <1>1. PICK type \in Types : Submit(type)
    BY DEF Upload, Transfer, Reparse, Delete, Types
  <1>2. /\ Later /\ UNCHANGED <<owner, job, chunks, mishap, late>>
        /\ row' = [row EXCEPT ![Len(tasks) + 1] = "WAITING"]
    BY <1>1, SubmitLater DEF Submit
  <1>3. \A id \in Ids : Orphan(id) => Open(id)'
    BY <1>2, QueueShape DEF Open, Orphan, None
  <1>4. \A g \in G : ng'[g] = "SUCCESS" => ng[g] = "SUCCESS"
    BY DEF Upload, Transfer, Reparse, Delete, Pending
  <1>5. Fine /\ bound => ~Deleting
    BY DEF Upload, Transfer, Reparse, Delete, Deletion, DeleteBound
  <1> QED BY <1>2, <1>3, <1>4, <1>5, ServiceSucceeds DEF Fine

LEMMA CancelSucceeds ==
  ASSUME Typed, SuccessThere, NEW c \in Ids, Cancel(c)
  PROVE  SuccessThere'
  <1>1. /\ row' = [row EXCEPT ![c] = "GONE"] /\ mishap' = (mishap \/ tasks[c].ran)
        /\ UNCHANGED <<ng, chunks, owner, job, late, bound, current>>
    BY DEF Cancel
  <1>2. Fine' => Fine /\ ~tasks[c].ran
    BY <1>1 DEF Fine
  <1>3. Fine' => \A id \in Ids : Orphan(id) => Open(id)'
    BY <1>1, <1>2, QueueShape DEF Orphan, Open
  <1> QED BY <1>1, <1>2, <1>3, CancelTyped, ServiceSucceeds

LEMMA CallbackSucceeds ==
  ASSUME Typed, SuccessThere, CancelAndPurge \/ Callback
  PROVE  SuccessThere'
  <1>1. CASE CancelAndPurge
    BY <1>1 DEF SuccessThere, CancelAndPurge, Intact, None
  <1>2. CASE Callback
    <2>1. /\ Later /\ UNCHANGED <<row, owner, job, chunks, mishap>> /\ (late => late')
      BY <1>2, CallbackTyped DEF Callback
    <2>2. \A id \in Ids : Orphan(id) => Open(id)'
      BY <2>1 DEF Orphan, Open
    <2>3. current # 0 => current' = current
      BY <1>2 DEF Callback, doc
    <2>4. UNCHANGED <<ng, bound>> \/ \A g \in G : ng'[g] = None
      BY <1>2 DEF Callback, AfterDelete, doc
    <2>5. CASE UNCHANGED <<ng, bound>>
      BY <2>1, <2>2, <2>3, <2>5, ServiceSucceeds DEF Fine, Deleting
    <2>6. CASE \A g \in G : ng'[g] = None
      BY <2>6 DEF SuccessThere, Intact, None
    <2> QED BY <2>4, <2>5, <2>6
  <1> QED BY <1>1, <1>2

LEMMA LapseSucceeds ==
  ASSUME Typed, SuccessThere, NEW c \in Ids, Lapse(c)
  PROVE  SuccessThere'
  <1>1. /\ row' = [row EXCEPT ![c] = "LAPSED"]
        /\ UNCHANGED <<ng, chunks, tasks, owner, job, doc, mishap, late>>
    BY DEF Lapse
  <1>2. Later
    BY <1>1, SameTasks DEF Typed
  <1>3. \A id \in Ids : Orphan(id) => Open(id)'
    BY <1>1, QueueShape DEF Orphan, Open, None
  <1> QED BY <1>1, <1>2, <1>3, ServiceSucceeds DEF Fine, doc

\* A worker's step.
LEMMA WorkerSucceeds ==
  ASSUME Typed, SuccessThere, Later, NEW w \in Workers, Moves(w), UNCHANGED doc, Fine' => Fine,
         job'[w].task \in {job[w].task, 0},
         \A id \in Ids : Restarts(id) => Open(id)' /\ owner'[id] \in {owner[id], None},
         Fine' /\ Rebuilds(w) => Excused' \/ Intact',
         Fine' /\ Intact => Excused' \/ Intact'
  PROVE  SuccessThere'
  <1> SUFFICES ASSUME Fine' PROVE Excused' \/ Intact'
    BY DEF SuccessThere
  <1>1. CASE Intact
    BY <1>1
  <1>2. ASSUME NEW u \in Workers, Rebuilds(u) PROVE Excused' \/ Intact'
    <2>1. CASE u = w
      BY <1>2, <2>1
    <2>2. CASE u # w
      BY <1>2, <2>2, RebuildsKept DEF Excused, Moves
    <2> QED BY <2>1, <2>2
  <1>3. ASSUME NEW id \in Ids, Restarts(id) PROVE Excused'
    <2>1. \A u \in Workers : job'[u].task = id => job'[u].task = job[u].task
      BY GroupAssumption DEF Moves, Ids
    <2> QED BY <1>3, <2>1, RestartsKept DEF Excused
  <1>4. CASE Deleting /\ bound
    BY <1>4, DeletingKept DEF Excused, doc
  <1> QED BY <1>1, <1>2, <1>3, <1>4 DEF SuccessThere, Excused

\* ... that leaves the queue alone.
LEMMA BuilderSucceeds ==
  ASSUME Typed, SuccessThere, NEW w \in Workers, Moves(w), UNCHANGED <<queue, doc>>, Fine' => Fine,
         job'[w].task = job[w].task,
         Fine' /\ Rebuilds(w) => Excused' \/ Intact',
         Fine' /\ Intact => Excused' \/ Intact'
  PROVE  SuccessThere'
  <1>1. Later /\ UNCHANGED <<row, owner>>
    BY SameTasks DEF queue, Typed
  <1>2. \A id \in Ids : Restarts(id) => Open(id)' /\ owner'[id] \in {owner[id], None}
    BY <1>1 DEF Restarts, Orphan, Open
  <1> QED BY <1>1, <1>2, WorkerSucceeds

LEMMA StartSucceeds ==
  ASSUME Typed, SuccessThere, NEW w \in Workers, Requeue(w) \/ Spare(w) \/ Reset(w) \/ End(w)
  PROVE  SuccessThere'
  <1>1. job[w].pc \in {"down", "spare", "reset", "end"} /\ ~Rebuilds(w)
    BY DEF Requeue, Spare, Reset, End, At, Rebuilds
  <1>2. /\ UNCHANGED <<chunks, tasks, doc, mishap, late>>
        /\ \A g \in G : ng'[g] = "SUCCESS" => ng[g] = "SUCCESS"
    BY DEF Requeue, Spare, Reset, End, queue
  <1>3. Later
    BY <1>2, SameTasks DEF Typed
  <1>4. Moves(w) /\ job'[w].task \in {job[w].task, 0}
    <2>1. CASE Spare(w) \/ Reset(w)
      <3>1. \E pc \in {"reset", "idle"} : Goto(w, pc)
        BY <2>1 DEF Spare, Reset
      <3> QED BY <3>1, GotoMoves DEF Typed, Pcs
    <2> QED BY <2>1, RequeueTyped, EndTyped
  <1>5. \A id \in Ids : Restarts(id) => Open(id)' /\ owner'[id] \in {owner[id], None}
    <2> SUFFICES ASSUME NEW id \in Ids, Orphan(id)
                 PROVE  Open(id)' /\ owner'[id] \in {owner[id], None}
      BY DEF Restarts
    <2>1. CASE Requeue(w)
      BY <2>1 DEF Orphan, Open, None, Requeue
    <2>2. CASE Spare(w) \/ Reset(w)
      BY <2>2 DEF Orphan, Open, Spare, Reset, queue
    <2>3. CASE End(w)
      <3>1. /\ row' = (IF owner[job[w].task] = w THEN [row EXCEPT ![job[w].task] = "GONE"] ELSE row)
            /\ UNCHANGED owner
        BY <2>3 DEF End
      <3> QED BY <3>1, QueueShape DEF Orphan, Open
    <2> QED BY <2>1, <2>2, <2>3
  <1>6. Intact => Intact'
    BY <1>2 DEF Intact
  <1> QED BY <1>1, <1>2, <1>3, <1>4, <1>5, <1>6, WorkerSucceeds DEF Fine

\* A reparse that was left is taken up, and marks every group.
LEMMA ClaimSucceeds ==
  ASSUME Typed, SuccessThere, NEW w \in Workers, NEW c \in Ids, Claim(w, c)
  PROVE  SuccessThere'
  <1>1. /\ row' = [row EXCEPT ![c] = "WORKING"] /\ owner' = [owner EXCEPT ![c] = w]
        /\ UNCHANGED <<ng, chunks, doc, mishap, late>>
    BY DEF Claim
  <1>2. /\ Later /\ Moves(w) /\ c <= Len(tasks) /\ job[w].task = 0 /\ job'[w].task = c
        /\ \A i \in 1..Len(tasks) : tasks'[i].type = tasks[i].type
        /\ job'[w].pc = FirstStep(tasks[c].type)
    BY ClaimTyped
  <1> SUFFICES ASSUME Fine' PROVE Excused' \/ Intact'
    BY DEF SuccessThere
  <1>3. Fine
    BY <1>1 DEF Fine
  <1>4. CASE Intact
    BY <1>1, <1>4 DEF Intact
  <1>5. ASSUME NEW u \in Workers, Rebuilds(u) PROVE Excused'
    <2>1. u # w
      BY <1>2, <1>5 DEF Rebuilds
    <2> QED BY <1>2, <1>5, <2>1, RebuildsKept DEF Excused, Moves
  <1>6. ASSUME NEW id \in Ids, Restarts(id) PROVE Excused'
    <2>1. CASE id = c
      <3>1. c \in 1..Len(tasks) /\ c # 0
        BY <1>2, CurrentShape, GroupAssumption DEF Ids
      <3>2. tasks[c].type = "REPARSE" /\ tasks'[c].type = "REPARSE"
        BY <1>2, <1>6, <2>1, <3>1 DEF Restarts, Is
      <3>3. Rebuilds(w)'
        BY <1>2, <3>1, <3>2 DEF Rebuilds, TypeOf, FirstStep
      <3> QED BY <3>3 DEF Excused
    <2>2. CASE id # c
      <3>1. Open(id)' /\ owner'[id] = owner[id]
        BY <1>1, <1>6, <2>2, QueueShape DEF Restarts, Orphan, Open
      <3>2. \A u \in Workers : job'[u].task = id => job'[u].task = job[u].task
        BY <1>2, <2>2 DEF Moves
      <3> QED BY <1>2, <1>6, <3>1, <3>2, RestartsKept DEF Excused
    <2> QED BY <2>1, <2>2
  <1>7. CASE Deleting /\ bound
    BY <1>1, <1>2, <1>7, DeletingKept DEF Excused, doc
  <1> QED BY <1>3, <1>4, <1>5, <1>6, <1>7 DEF SuccessThere, Excused

LEMMA DecideSucceeds ==
  ASSUME Typed, SuccessThere, NEW w \in Workers, Decide(w) \/ Decided(w)
  PROVE  SuccessThere'
  <1>1. /\ UNCHANGED <<ng, chunks, queue, doc, mishap, late>> /\ job[w].pc = "decide"
    BY DEF Decide, Decided, At
  <1>2. Moves(w) /\ job'[w].task = job[w].task
    BY DecideTyped, GotoMoves DEF Decided, Typed, Pcs
  <1>3. ~Rebuilds(w) /\ (Intact => Intact')
    BY <1>1 DEF Rebuilds, Intact
  <1> QED BY <1>1, <1>2, <1>3, BuilderSucceeds DEF Fine

LEMMA MarkSucceeds ==
  ASSUME Typed, SuccessThere, NEW w \in Workers, Mark(w)
  PROVE  SuccessThere'
  <1>1. /\ Write(w, "WORKING") /\ UNCHANGED <<chunks, queue, doc, late>>
        /\ Goto(w, IF TypeOf(w) = "REPARSE" THEN "clear" ELSE "build")
    BY DEF Mark
  <1>2. /\ Moves(w) /\ job'[w].task = job[w].task
        /\ job'[w].pc = IF TypeOf(w) = "REPARSE" THEN "clear" ELSE "build"
    BY <1>1, GotoMoves DEF Typed, Pcs
  <1>3. Rebuilds(w) => Excused'
    <2>1. Rebuilds(w) => TypeOf(w)' = TypeOf(w)
      BY <1>1, <1>2 DEF Rebuilds, TypeOf, queue
    <2> QED BY <1>2, <2>1 DEF Rebuilds, Excused
  <1>4. Intact => Intact'
    BY <1>1 DEF Intact, Write
  <1>5. Fine' => Fine
    BY <1>1 DEF Fine, Write
  <1> QED BY <1>1, <1>2, <1>3, <1>4, <1>5, BuilderSucceeds

\* A delete removes the segments of rows that its callback will remove, or has.
LEMMA ClearSucceeds ==
  ASSUME Typed, Deletion, SuccessThere, NEW w \in Workers, Clear(w)
  PROVE  SuccessThere'
  <1>1. /\ job[w].pc = "clear" /\ job[w].task # 0 /\ JobFits(job[w])
        /\ UNCHANGED <<ng, queue, doc>>
    BY JobShape DEF Clear, At, JobFits
  <1>2. PICK pc \in {"settle", "end", "build"} :
          /\ Goto(w, pc) \/ Fails(w, pc)
          /\ pc = "settle" => Fails(w, pc)
          /\ TypeOf(w) # "DELETE" => pc # "end"
    BY DEF Clear
  <1>3. Moves(w) /\ job'[w].task = job[w].task /\ job'[w].pc = pc
        /\ (Fails(w, pc) => job'[w].ok = FALSE)
    BY <1>2, GotoMoves, FailsMoves DEF Typed, Pcs
  <1>4. Fine' => Fine
    BY RemoveAlone DEF Clear, Fine
  <1>5. CASE TypeOf(w) = "REPARSE"
    <2>1. TypeOf(w)' = "REPARSE"
      BY <1>1, <1>3, <1>5 DEF TypeOf, queue
    <2>2. Rebuilds(w)'
      BY <1>1, <1>2, <1>3, <1>5, <2>1 DEF Rebuilds
    <2> QED BY <2>2 DEF SuccessThere, Excused
  <1>6. CASE TypeOf(w) = "DELETE"
    <2> SUFFICES ASSUME Fine' PROVE Excused' \/ Intact'
      BY DEF SuccessThere
    <2>1. Remove(w) /\ ~late'
      BY <1>6 DEF Clear, Fine
    <2>2. current = job[w].task /\ Deleting
      BY <1>1, <1>6, <2>1, RemoveAlone DEF Deleting, Is, TypeOf
    <2>3. Deleting' /\ bound' = bound
      BY <1>1, <2>2 DEF Deleting, Is, queue, doc
    <2>4. CASE bound
      BY <2>3, <2>4 DEF Excused
    <2>5. CASE ~bound
      BY <1>1, <1>4, <2>2, <2>5 DEF Deletion, DeleteBound, Intact, None
    <2> QED BY <2>4, <2>5
  <1> QED BY <1>1, <1>5, <1>6 DEF JobFits, TypeOf

\* Of a transfer that fails no row says SUCCESS.
LEMMA BuildSucceeds ==
  ASSUME Typed, SuccessThere, NEW w \in Workers, Build(w)
  PROVE  SuccessThere'
  <1>1. /\ job[w].pc = "build" /\ job[w].n <= Groups /\ job[w].ok \in BOOLEAN
        /\ UNCHANGED <<ng, queue, doc>>
    BY JobShape DEF Build, At, JobRec
  <1>2. CASE chunks \subseteq chunks' /\ UNCHANGED <<mishap, late>>
             /\ \E ok \in BOOLEAN :
                  \/ ok = job[w].ok /\ job' = [job EXCEPT ![w].n = job[w].n + 1]
                  \/ ok = FALSE /\ job' = [job EXCEPT ![w].n = job[w].n + 1, ![w].ok = FALSE]
    <2>1. Moves(w) /\ job'[w].task = job[w].task /\ job'[w].pc = "build"
      BY <1>1, <1>2, BuildMoves
    <2>2. Rebuilds(w) => Excused'
      <3>1. Rebuilds(w) => TypeOf(w)' = TypeOf(w)
        BY <1>1, <2>1 DEF Rebuilds, TypeOf, queue
      <3> QED BY <2>1, <3>1 DEF Rebuilds, Excused
    <2>3. Intact => Intact'
      BY <1>1, <1>2 DEF Intact
    <2> QED BY <1>1, <1>2, <2>1, <2>2, <2>3, BuilderSucceeds DEF Fine
  <1>3. CASE TypeOf(w) = "TRANSFER" /\ Remove(w)
    BY <1>1, <1>3, RemoveAlone DEF SuccessThere, Fine, Intact
  <1>4. chunks \subseteq chunks \cup {job[w].n}
    OBVIOUS
  <1> QED BY <1>1, <1>2, <1>3, <1>4 DEF Build

LEMMA BuiltSucceeds ==
  ASSUME Typed, BuiltThere, SuccessThere, NEW w \in Workers, Built(w)
  PROVE  SuccessThere'
  <1>1. /\ job[w].pc = "build" /\ Goto(w, "settle")
        /\ UNCHANGED <<ng, chunks, queue, doc, mishap, late>>
    BY DEF Built, At
  <1>2. /\ Moves(w) /\ job'[w].task = job[w].task /\ job'[w].pc = "settle"
        /\ job'[w].exec = job[w].exec
    BY <1>1, GotoMoves DEF Typed, Pcs
  <1>3. Intact => Intact'
    BY <1>1 DEF Intact
  <1>4. ASSUME Fine', Rebuilds(w) PROVE Excused' \/ Intact'
    <2>1. TypeOf(w) = "REPARSE" /\ TypeOf(w)' = "REPARSE" /\ job[w].exec = G /\ job[w].task # 0
      BY <1>1, <1>2, <1>4, JobShape DEF Rebuilds, TypeOf, queue, JobFits
    <2>2. CASE job'[w].ok
      <3>1. BuiltThere'
        BY StepBuilt DEF Step
      <3>2. G \subseteq chunks'
        BY <1>2, <1>4, <2>1, <2>2, <3>1 DEF BuiltThere, BuiltBy, Fine
      <3> QED BY <3>2 DEF Intact
    <2>3. CASE ~job'[w].ok
      BY <1>2, <2>1, <2>3 DEF Rebuilds, Excused
    <2> QED BY <2>2, <2>3
  <1> QED BY <1>1, <1>2, <1>3, <1>4, BuilderSucceeds DEF Fine

LEMMA SettleSucceeds ==
  ASSUME Typed, BuiltThere, SuccessThere, NEW w \in Workers, Settle(w)
  PROVE  SuccessThere'
  <1>1. /\ job[w].pc = "settle" /\ Goto(w, "end") /\ UNCHANGED <<chunks, queue, doc, late>>
        /\ Write(w, IF job[w].ok THEN "SUCCESS" ELSE "FAILED")
    BY DEF Settle, At
  <1>2. Moves(w) /\ job'[w].task = job[w].task
    BY <1>1, GotoMoves DEF Typed, Pcs
  <1>3. Fine' => /\ Fine
                 /\ ng' = [g \in G |-> IF g \in job[w].exec
                                       THEN IF job[w].ok THEN "SUCCESS" ELSE "FAILED" ELSE ng[g]]
    BY <1>1 DEF Fine, Write
  <1>4. Fine' /\ Rebuilds(w) => Intact'
    <2>1. Rebuilds(w) => job[w].exec = G /\ ~job[w].ok
      BY <1>1, JobShape DEF Rebuilds, TypeOf, JobFits
    <2> QED BY <1>3, <2>1 DEF Intact
  <1>5. Fine' /\ Intact => Intact'
    <2>1. Fine /\ job[w].ok => job[w].exec \subseteq chunks
      BY <1>1 DEF BuiltThere, BuiltBy, Fine
    <2> QED BY <1>1, <1>3, <2>1 DEF Intact
  <1> QED BY <1>1, <1>2, <1>3, <1>4, <1>5, BuilderSucceeds

LEMMA CrashSucceeds ==
  ASSUME Typed, SuccessThere, NEW w \in Workers, Crash(w)
  PROVE  SuccessThere'
  <1>1. /\ job' = [job EXCEPT ![w] = Down] /\ UNCHANGED <<ng, chunks, queue, doc, late>>
        /\ mishap' = (mishap \/ (job[w].task # 0 /\ ~Holds(w)))
    BY DEF Crash
  <1>2. Moves(w) /\ job'[w].task = 0
    BY <1>1, IdleFits
  <1>3. Later /\ UNCHANGED <<tasks, row, owner>>
    BY <1>1, SameTasks DEF queue, Typed
  <1>4. \A id \in Ids : Restarts(id) => Open(id)' /\ owner'[id] \in {owner[id], None}
    BY <1>3 DEF Restarts, Orphan, Open
  <1>5. ASSUME Fine', Rebuilds(w) PROVE Excused'
    <2>1. job[w].task # 0 /\ TypeOf(w) = "REPARSE" /\ tasks[job[w].task].ran
      BY <1>5, JobShape DEF Rebuilds, JobFits
    <2>2. PICK id \in Ids : id = job[w].task
      BY <2>1, JobShape, GroupAssumption DEF JobRec, Ids
    <2>3. Holds(w)
      BY <1>1, <1>5, <2>1 DEF Fine
    <2>4. owner[id] = w /\ Open(id) /\ id # 0
      BY <2>1, <2>2, <2>3 DEF Holds, Open, None
    <2>5. Restarts(id)'
      <3>1. Open(id)' /\ tasks'[id] = tasks[id] /\ owner'[id] = w
        BY <1>3, <2>4 DEF Open
      <3>2. \A u \in Workers : ~(owner'[id] = u /\ job'[u].task = id)
        BY <1>2, <2>4, <3>1
      <3> QED BY <2>1, <2>2, <3>1, <3>2 DEF Orphan, Restarts, Is, TypeOf
    <2> QED BY <2>5 DEF Excused
  <1>6. Intact => Intact'
    BY <1>1 DEF Intact
  <1>7. Fine' => Fine
    BY <1>1 DEF Fine
  <1> QED BY <1>1, <1>2, <1>3, <1>4, <1>5, <1>6, <1>7, WorkerSucceeds

LEMMA NextSucceeds ==
  ASSUME Typed, Deletion, BuiltThere, SuccessThere, [Next]_vars
  PROVE  SuccessThere'
  <1>1. CASE Upload \/ Transfer \/ Reparse \/ Delete
    BY <1>1, RequestSucceeds
  <1>2. CASE CancelAndPurge \/ Callback
    BY <1>2, CallbackSucceeds
  <1>3. ASSUME NEW id \in Ids, Cancel(id) \/ Lapse(id) PROVE SuccessThere'
    BY <1>3, CancelSucceeds, LapseSucceeds
  <1>4. ASSUME NEW w \in Workers, Step(w) \/ Crash(w) PROVE SuccessThere'
    <2>1. ASSUME NEW id \in Ids, Claim(w, id) PROVE SuccessThere'
      BY <2>1, ClaimSucceeds
    <2> QED BY <1>4, <2>1, StartSucceeds, DecideSucceeds, MarkSucceeds, ClearSucceeds, BuildSucceeds,
               BuiltSucceeds, SettleSucceeds, CrashSucceeds DEF Step
  <1>5. CASE UNCHANGED vars
    BY <1>5 DEF vars, SuccessThere, Fine, Excused, Intact, Rebuilds, Restarts, Orphan, Open, Is,
                Deleting, TypeOf
  <1> QED BY <1>1, <1>2, <1>3, <1>4, <1>5 DEF Next

\* What holds together of the rows, the segments and the deletion.
Settled == Typed /\ WorkingExplained /\ Deletion /\ BuiltThere /\ SuccessThere

LEMMA SettledInvariant == Spec => []Settled
  <1>1. Init => Settled
    <2> SUFFICES ASSUME Init PROVE Settled
      OBVIOUS
    <2>1. WorkingExplained /\ SuccessThere
      BY DEF Init, WorkingExplained, SuccessThere, Intact, None
    <2>2. BuiltThere
      BY DEF Init, BuiltThere, BuiltBy, Idle, Down
    <2> QED BY <2>1, <2>2, InitTyped, InitDeletion DEF Settled
  <1>2. Settled /\ [Next]_vars => Settled'
    BY NextTyped, NextExplained, NextDeletion, NextBuilt, NextSucceeds DEF Settled
  <1> QED BY <1>1, <1>2, PTL DEF Spec

LEMMA QuietNotExcused ==
  ASSUME Typed, Deletion, Quiet, Fine
  PROVE  ~Excused
  <1>1. \A w \in Workers : ~Rebuilds(w)
    BY DEF Quiet, Rebuilds
  <1>2. \A id \in Ids : ~Restarts(id)
    BY DEF Quiet, Restarts, Orphan, Open
  <1>3. ~(Deleting /\ bound)
    BY CurrentShape DEF Quiet, Deletion, DeletePends, Deleting, Open, Has
  <1> QED BY <1>1, <1>2, <1>3 DEF Excused

\* When no task is left, a group whose row says SUCCESS has its segments, unless a
\* mishap or a late delete took them (SuccessHasChunks).
THEOREM SuccessIsTrue == Spec => []SuccessHasChunks
  <1>1. Settled => SuccessHasChunks
    BY QuietNotExcused DEF Settled, SuccessHasChunks, SuccessThere, Intact, Fine
  <1> QED BY <1>1, SettledInvariant, PTL

-----------------------------------------------------------------------------
(* The task a document was parsed by has gone through every group.         *)

\* The row of a group that some task has marked, skipped or settled.
Touched(g) == ng[g] \notin {None, "PENDING"}
Touches(w) ==
  \A g \in G :
    \/ Touched(g)
    \/ job[w].pc = "decide" /\ (job[w].n <= g \/ g \in job[w].exec)
    \/ job[w].pc = "mark" /\ g \in job[w].exec
Parsed == Has(current, "SUCCESS") \/ status = "SUCCESS"
Parsing == current # 0 /\ ~Is(current, "DELETE")
AllTouched ==
  Fine /\ Parsing =>
    /\ \A w \in Workers : job[w].task = current => Touches(w)
    /\ Parsed => \A g \in G : Touched(g)
SuccessIsParsing == status = "SUCCESS" => Parsing
Passed == AllTouched /\ SuccessIsParsing

LEMMA ParsingSame ==
  ASSUME Typed, Later, current' = current
  PROVE  Parsing' <=> Parsing
  BY CurrentShape DEF Parsing, Is, Later

LEMMA RequestPasses ==
  ASSUME Typed, Passed, Upload \/ Transfer \/ Reparse \/ Delete
  PROVE  Passed'
  <1>1. PICK type \in Types : Submit(type)
    BY DEF Upload, Transfer, Reparse, Delete, Types
  <1>2. PICK new \in Nat : new = Len(tasks) + 1
    BY CurrentShape
  <1>3. /\ current' = new /\ status' \in {"WAITING", "DELETING"}
        /\ UNCHANGED <<outbox, job>>
    BY <1>1, <1>2 DEF Submit
  <1>4. ~Has(new, "SUCCESS")'
    BY <1>2, <1>3, NothingOfNew, HasSame
  <1>5. \A w \in Workers : job'[w].task # new
    BY <1>2, <1>3, NothingOfNew
  <1>6. ~Parsed'
    <2>1. PICK d : d = new /\ d = current'
      BY <1>3
    <2> QED BY <1>3, <1>4, <2>1 DEF Parsed, Has
  <1> QED BY <1>3, <1>5, <1>6 DEF Passed, AllTouched, SuccessIsParsing

\* A step that keeps the rows, the snapshot's task and the jobs, and reports nothing new.
LEMMA SamePasses ==
  ASSUME Typed, Passed, Later, UNCHANGED <<ng, job, current>>, Fine' => Fine,
         Parsed' => Parsed, status' = "SUCCESS" => status = "SUCCESS" \/ Parsing
  PROVE  Passed'
  <1>1. Parsing' <=> Parsing
    BY ParsingSame
  <1>2. \A w \in Workers : Touches(w) => Touches(w)'
    BY DEF Touches, Touched
  <1> QED BY <1>1, <1>2 DEF Passed, AllTouched, SuccessIsParsing, Touched

LEMMA CancelPasses ==
  ASSUME Typed, Passed, NEW c \in Ids, Cancel(c) \/ Lapse(c)
  PROVE  Passed'
  <1>1. /\ UNCHANGED <<ng, job, current, outbox>> /\ (Fine' => Fine)
        /\ status' = "SUCCESS" => status = "SUCCESS"
    <2>1. CASE Cancel(c)
      BY <2>1 DEF Cancel, Fine
    <2>2. CASE Lapse(c)
      BY <2>2 DEF Lapse, doc, Fine
    <2> QED BY <2>1, <2>2
  <1>2. Later
    BY CancelTyped, SameTasks DEF Lapse, Typed
  <1>3. Parsed' => Parsed
    BY <1>1 DEF Parsed, Has
  <1> QED BY <1>1, <1>2, <1>3, SamePasses

LEMMA CallbackPasses ==
  ASSUME Typed, Passed, CancelAndPurge \/ Callback
  PROVE  Passed'
  <1>1. CASE CancelAndPurge
    BY <1>1 DEF CancelAndPurge, Passed, AllTouched, SuccessIsParsing, Parsing, None
  <1>2. CASE Callback
    <2>0. PICK c \in Ids, s \in {"WORKING", "SUCCESS", "FAILED"} :
            /\ c = Head(outbox).task /\ s = Head(outbox).status
            /\ Head(outbox) = [task |-> c, status |-> s]
      <3>1. outbox # << >> /\ Head(outbox) \in Message
        BY <1>2, OutboxShape DEF Callback
      <3> QED BY <3>1 DEF Message
    <2> DEFINE ignored == (current # 0 /\ current # c) \/ tasks[c].record = "CANCELED"
    <2>1. /\ outbox # << >> /\ outbox' = Tail(outbox) /\ UNCHANGED <<job, mishap>>
          /\ late' = (late \/ (current = 0 /\ ~ignored))
          /\ \/ UNCHANGED <<ng, doc>>
             \/ /\ ~ignored /\ current' = c /\ status' = Snapshot(tasks[c].type, s)
                /\ AfterDelete(c, s)
      BY <1>2, <2>0 DEF Callback
    <2>2. Later
      BY <1>2, CallbackTyped
    <2>3. ASSUME NEW d PROVE Has(d, "SUCCESS")' => Has(d, "SUCCESS")
      BY <2>1, HasTail
    <2>4. CASE UNCHANGED <<ng, doc>>
      <3>1. Parsed' => Parsed
        <4>1. PICK d : d = current /\ d = current'
          BY <2>4 DEF doc
        <4>2. Has(d, "SUCCESS")' => Has(d, "SUCCESS")
          BY <2>3
        <4> QED BY <2>4, <4>1, <4>2 DEF Parsed, Has, doc
      <3> QED BY <2>1, <2>2, <2>4, <3>1, SamePasses DEF Fine, doc
    <2>5. CASE ~ignored /\ current' = c /\ status' = Snapshot(tasks[c].type, s) /\ AfterDelete(c, s)
      <3>1. c \in 1..Len(tasks) /\ c # 0
        BY <1>2, <2>0, CallbackTyped, CurrentShape, GroupAssumption DEF Ids
      <3>2. status' = "SUCCESS" => tasks[c].type # "DELETE" /\ s = "SUCCESS"
        BY <2>0, <2>5 DEF Snapshot
      <3>3. SuccessIsParsing'
        BY <2>2, <2>5, <3>1, <3>2 DEF SuccessIsParsing, Parsing, Later, Is
      <3> SUFFICES ASSUME Fine', Parsing' PROVE AllTouched'
        BY <3>3 DEF Passed, AllTouched
      <3>4. current = c /\ Fine
        BY <2>1, <2>5 DEF Fine
      <3>5. tasks[c].type # "DELETE" /\ Parsing
        BY <2>2, <2>5, <3>1, <3>4 DEF Parsing, Later, Is
      <3>6. ng' = ng
        BY <2>5, <3>5 DEF AfterDelete
      <3>7. Parsed' => Parsed
        <4>1. s = "SUCCESS" => Has(c, "SUCCESS")
          BY <2>0, <2>1, HasTail
        <4>2. Has(c, "SUCCESS")' => Has(c, "SUCCESS")
          BY <2>3
        <4> QED BY <2>5, <3>2, <3>4, <4>1, <4>2 DEF Parsed, Has
      <3>8. \A w \in Workers : Touches(w) => Touches(w)'
        BY <2>1, <3>6 DEF Touches, Touched
      <3> QED BY <2>1, <2>5, <3>4, <3>5, <3>6, <3>7, <3>8 DEF Passed, AllTouched, Touched
    <2> QED BY <2>1, <2>4, <2>5
  <1> QED BY <1>1, <1>2

\* A worker's step unmarks no row and reports SUCCESS only when it has passed all.
LEMMA WorkerPasses ==
  ASSUME Typed, Passed, Later, NEW w \in Workers, Moves(w), UNCHANGED doc, Fine' => Fine,
         Fine' => \A g \in G : Touched(g) => Touched(g)',
         Fine' /\ Parsing /\ job'[w].task = current
         /\ (job[w].task = current => Touches(w)) => Touches(w)',
         Fine' /\ Parsing /\ Has(current, "SUCCESS")' =>
           Has(current, "SUCCESS") \/ (job[w].task = current /\ job[w].pc = "end")
  PROVE  Passed'
  <1>1. Parsing' <=> Parsing
    BY ParsingSame DEF doc
  <1>2. SuccessIsParsing'
    BY <1>1 DEF Passed, SuccessIsParsing, doc
  <1> SUFFICES ASSUME Fine', Parsing' PROVE AllTouched'
    BY <1>2 DEF Passed, AllTouched
  <1>3. Fine /\ Parsing /\ current' = current /\ status' = status
    BY <1>1 DEF doc
  <1>4. ASSUME NEW u \in Workers, job'[u].task = current PROVE Touches(u)'
    <2>1. CASE u = w
      BY <1>3, <1>4, <2>1 DEF Passed, AllTouched
    <2>2. CASE u # w
      <3>1. job'[u] = job[u] /\ Touches(u)
        BY <1>3, <1>4, <2>2 DEF Moves, Passed, AllTouched
      <3> QED BY <3>1 DEF Touches
    <2> QED BY <2>1, <2>2
  <1>5. ASSUME Parsed' PROVE \A g \in G : Touched(g)'
    <2>1. CASE Parsed
      BY <1>3, <2>1 DEF Passed, AllTouched
    <2>2. CASE job[w].task = current /\ job[w].pc = "end"
      <3>1. Touches(w)
        BY <1>3, <2>2 DEF Passed, AllTouched
      <3> QED BY <2>2, <3>1 DEF Touches
    <2>3. Parsed \/ (job[w].task = current /\ job[w].pc = "end")
      BY <1>3, <1>5 DEF Parsed, Has
    <2> QED BY <2>1, <2>2, <2>3
  <1> QED BY <1>3, <1>4, <1>5 DEF AllTouched

LEMMA ReportSame ==
  ASSUME UNCHANGED <<outbox, doc>>
  PROVE  Has(current, "SUCCESS")' => Has(current, "SUCCESS")
  BY DEF Has, doc

\* Past the decision and the mark, a worker has touched all.
LEMMA BuilderPasses ==
  ASSUME Typed, Passed, NEW w \in Workers, Moves(w), UNCHANGED <<queue, outbox, doc>>,
         Fine' => Fine, job'[w].task = job[w].task,
         Fine' => \A g \in G : Touched(g) => Touched(g)',
         Fine' /\ Parsing /\ job[w].task = current /\ Touches(w) => Touches(w)'
  PROVE  Passed'
  <1>1. Later
    BY SameTasks DEF queue, Typed
  <1> QED BY <1>1, ReportSame, WorkerPasses

LEMMA StartPasses ==
  ASSUME Typed, Passed, NEW w \in Workers, Requeue(w) \/ Spare(w) \/ Reset(w) \/ Crash(w)
  PROVE  Passed'
  <1>1. /\ UNCHANGED <<tasks, outbox, doc, late>> /\ (mishap => mishap')
        /\ \A g \in G : Touched(g) => Touched(g)'
    <2>1. UNCHANGED <<tasks, outbox, doc, late>> /\ (mishap => mishap')
      <3>1. CASE Crash(w)
        BY <3>1 DEF Crash, queue
      <3>2. CASE Requeue(w) \/ Spare(w) \/ Reset(w)
        BY <3>2 DEF Requeue, Spare, Reset, queue
      <3> QED BY <3>1, <3>2
    <2>2. CASE Reset(w)
      <3>1. ng' = [g \in G |-> IF ng[g] = "WORKING" THEN "FAILED" ELSE ng[g]]
        BY <2>2 DEF Reset
      <3> QED BY <2>1, <3>1 DEF Touched, None
    <2>3. CASE Requeue(w) \/ Spare(w) \/ Crash(w)
      BY <2>1, <2>3 DEF Requeue, Spare, Crash, Touched
    <2> QED BY <2>2, <2>3
  <1>2. Moves(w) /\ job'[w].task = 0
    <2>1. CASE Spare(w) \/ Reset(w)
      <3>1. job[w].task = 0 /\ \E pc \in {"reset", "idle"} : Goto(w, pc)
        BY <2>1, JobShape DEF Spare, Reset, At, JobFits
      <3> QED BY <3>1, GotoMoves DEF Typed, Pcs
    <2> QED BY <2>1, RequeueTyped, IdleFits DEF Crash
  <1>3. Later
    BY <1>1, SameTasks DEF Typed
  <1>4. Has(current, "SUCCESS")' => Has(current, "SUCCESS")
    BY <1>1, ReportSame
  <1> QED BY <1>1, <1>2, <1>3, <1>4, WorkerPasses DEF Fine, Parsing

LEMMA ClaimPasses ==
  ASSUME Typed, Passed, NEW w \in Workers, NEW c \in Ids, Claim(w, c)
  PROVE  Passed'
  <1>1. /\ outbox' = Append(outbox, [task |-> c, status |-> "WORKING"])
        /\ UNCHANGED <<ng, doc, mishap, late>>
    BY DEF Claim
  <1>2. /\ Later /\ Moves(w) /\ job'[w].task = c /\ job[w].task = 0
        /\ job'[w].pc = FirstStep(tasks[c].type) /\ job'[w].n = 1
        /\ job'[w].exec = (IF tasks[c].type = "REPARSE" THEN G ELSE {})
    BY ClaimTyped
  <1>3. Parsing /\ current = c => Touches(w)'
    <2>1. \A g \in G : 1 <= g
      BY GroupAssumption DEF G
    <2> QED BY <1>2, <2>1 DEF Parsing, Is, Touches, FirstStep
  <1>4. Has(current, "SUCCESS")' => Has(current, "SUCCESS")
    <2>1. [task |-> c, status |-> "WORKING"] \in Message
      BY DEF Message
    <2>2. PICK d : d = current /\ d = current'
      BY <1>1 DEF doc
    <2>3. [task |-> c, status |-> "WORKING"] # [task |-> d, status |-> "SUCCESS"]
      OBVIOUS
    <2>4. Has(d, "SUCCESS")' => Has(d, "SUCCESS")
      BY <1>1, <2>1, <2>3, HasAppend
    <2> QED BY <2>2, <2>4 DEF Has
  <1>5. \A g \in G : Touched(g) => Touched(g)'
    BY <1>1 DEF Touched
  <1> QED BY <1>1, <1>2, <1>3, <1>4, <1>5, WorkerPasses DEF Fine

\* A group that is not to be built is built already; the others are marked.
LEMMA DecidePasses ==
  ASSUME Typed, Passed, NEW w \in Workers, Decide(w) \/ Decided(w) \/ Mark(w)
  PROVE  Passed'
  <1>1. CASE Decide(w)
    <2>1. UNCHANGED <<ng, queue, outbox, doc, mishap, late>> /\ job[w].pc = "decide"
      BY <1>1 DEF Decide, At
    <2>2. /\ Moves(w) /\ job'[w].pc = "decide" /\ job'[w].task = job[w].task
          /\ job'[w].n = job[w].n + 1 /\ job[w].n \in G
          /\ job'[w].exec = IF Skips(job[w].n) THEN job[w].exec ELSE job[w].exec \cup {job[w].n}
      BY <1>1, DecideTyped
    <2>3. ASSUME Touches(w) PROVE Touches(w)'
      <3> SUFFICES ASSUME NEW g \in G, ~Touched(g)
                   PROVE  job[w].n + 1 <= g \/ g \in job'[w].exec
        BY <2>1, <2>2 DEF Touches, Touched
      <3>1. job[w].n <= g \/ g \in job[w].exec
        BY <2>1, <2>3 DEF Touches
      <3>2. g = job[w].n => ~Skips(g)
        BY DEF Skips, Touched, None
      <3> QED BY <2>2, <3>1, <3>2, GroupAssumption DEF G
    <2>4. \A g \in G : Touched(g) => Touched(g)'
      BY <2>1 DEF Touched
    <2> QED BY <2>1, <2>2, <2>3, <2>4, BuilderPasses DEF Fine
  <1>2. CASE Decided(w)
    <2>1. /\ job[w].pc = "decide" /\ job[w].n > Groups
          /\ UNCHANGED <<ng, queue, outbox, doc, mishap, late>>
          /\ Goto(w, IF job[w].exec = {} THEN "end" ELSE "mark")
      BY <1>2 DEF Decided, At
    <2>2. /\ Moves(w) /\ job'[w].task = job[w].task /\ job'[w].exec = job[w].exec
          /\ job'[w].pc = IF job[w].exec = {} THEN "end" ELSE "mark"
      BY <2>1, GotoMoves DEF Typed, Pcs
    <2>3. ASSUME Touches(w) PROVE Touches(w)'
      <3>1. \A g \in G : ~(job[w].n <= g)
        BY <2>1, JobShape, GroupAssumption DEF JobRec, G
      <3>2. \A g \in G : Touched(g) \/ g \in job[w].exec
        BY <2>1, <2>3, <3>1 DEF Touches
      <3> QED BY <2>1, <2>2, <3>2 DEF Touches, Touched
    <2>4. \A g \in G : Touched(g) => Touched(g)'
      BY <2>1 DEF Touched
    <2> QED BY <2>1, <2>2, <2>3, <2>4, BuilderPasses DEF Fine
  <1>3. CASE Mark(w)
    <2>1. /\ job[w].pc = "mark" /\ UNCHANGED <<queue, outbox, doc, late>> /\ Write(w, "WORKING")
          /\ \E pc \in {"clear", "build"} : Goto(w, pc)
      BY <1>3 DEF Mark, At
    <2>2. /\ Moves(w) /\ job'[w].task = job[w].task
      BY <2>1, GotoMoves DEF Typed, Pcs
    <2>3. Fine' => /\ Fine
                   /\ ng' = [g \in G |-> IF g \in job[w].exec THEN "WORKING" ELSE ng[g]]
      BY <2>1 DEF Fine, Write
    <2>4. Fine' => \A g \in G : Touched(g) \/ g \in job[w].exec => Touched(g)'
      BY <2>3 DEF Touched, None
    <2>5. Fine' /\ Touches(w) => Touches(w)'
      BY <2>1, <2>4 DEF Touches
    <2> QED BY <2>1, <2>2, <2>3, <2>4, <2>5, BuilderPasses
  <1> QED BY <1>1, <1>2, <1>3

LEMMA BuildPasses ==
  ASSUME Typed, Passed, NEW w \in Workers, Clear(w) \/ Build(w) \/ Built(w) \/ Settle(w)
  PROVE  Passed'
  <1>1. job[w].pc \in {"clear", "build", "settle"} /\ UNCHANGED <<queue, outbox, doc>>
    BY DEF Clear, Build, Built, Settle, At
  <1>2. Fine' => Fine
    BY RemoveAlone DEF Clear, Build, Built, Settle, Write, Fine
  <1>3. Moves(w) /\ job'[w].task = job[w].task
    <2>1. CASE Clear(w) \/ Built(w) \/ Settle(w)
      <3>1. \E pc \in Pcs : Goto(w, pc) \/ Fails(w, pc)
        BY <2>1 DEF Clear, Built, Settle, Pcs
      <3> QED BY <3>1, GotoMoves, FailsMoves DEF Typed
    <2>2. CASE Build(w)
      <3>1. job[w].n <= Groups /\ job[w].ok \in BOOLEAN
        BY <2>2, JobShape DEF Build, JobRec
      <3> QED BY <2>2, <3>1, BuildMoves, FailsMoves DEF Build, Typed, Pcs
    <2> QED BY <2>1, <2>2
  <1>4. Fine' => \A g \in G : Touched(g) => Touched(g)'
    BY DEF Clear, Build, Built, Settle, Write, Fine, Touched, None
  <1>5. Fine' /\ Touches(w) => Touches(w)'
    BY <1>1, <1>4 DEF Touches
  <1> QED BY <1>1, <1>2, <1>3, <1>4, <1>5, BuilderPasses

LEMMA EndPasses ==
  ASSUME Typed, Passed, NEW w \in Workers, End(w)
  PROVE  Passed'
  <1>1. Moves(w) /\ job'[w].task = 0 /\ job[w].task \in Ids
    BY EndTyped
  <1>2. PICK c \in Ids, s \in {"SUCCESS", "FAILED"} :
          c = job[w].task /\ outbox' = Append(outbox, [task |-> c, status |-> s])
    BY <1>1 DEF End
  <1>3. UNCHANGED <<ng, tasks, doc, mishap, late>> /\ job[w].pc = "end"
    BY DEF End, At
  <1>4. Later
    BY <1>3, SameTasks DEF Typed
  <1>5. Has(current, "SUCCESS")' =>
          Has(current, "SUCCESS") \/ (job[w].task = current /\ job[w].pc = "end")
    <2>1. [task |-> c, status |-> s] \in Message
      BY DEF Message
    <2>2. PICK d : d = current /\ d = current'
      BY <1>3 DEF doc
    <2>3. Has(d, "SUCCESS")' =>
            Has(d, "SUCCESS") \/ [task |-> c, status |-> s] = [task |-> d, status |-> "SUCCESS"]
      BY <1>2, <2>1, HasAppend
    <2>4. [task |-> c, status |-> s] = [task |-> d, status |-> "SUCCESS"] => c = d
      OBVIOUS
    <2> QED BY <1>2, <1>3, <2>2, <2>3, <2>4 DEF Has
  <1>6. \A g \in G : Touched(g) => Touched(g)'
    BY <1>3 DEF Touched
  <1> QED BY <1>1, <1>3, <1>4, <1>5, <1>6, WorkerPasses DEF Fine, Parsing

LEMMA NextPasses ==
  ASSUME Typed, Passed, [Next]_vars
  PROVE  Passed'
  <1>1. CASE Upload \/ Transfer \/ Reparse \/ Delete
    BY <1>1, RequestPasses
  <1>2. CASE CancelAndPurge \/ Callback
    BY <1>2, CallbackPasses
  <1>3. ASSUME NEW id \in Ids, Cancel(id) \/ Lapse(id) PROVE Passed'
    BY <1>3, CancelPasses
  <1>4. ASSUME NEW w \in Workers, Step(w) \/ Crash(w) PROVE Passed'
    <2>1. ASSUME NEW id \in Ids, Claim(w, id) PROVE Passed'
      BY <2>1, ClaimPasses
    <2> QED BY <1>4, <2>1, StartPasses, DecidePasses, BuildPasses, EndPasses DEF Step
  <1>5. CASE UNCHANGED vars
    BY <1>5 DEF vars, Passed, AllTouched, SuccessIsParsing, Parsing, Parsed, Touches, Touched, Fine,
                Is, Has
  <1> QED BY <1>1, <1>2, <1>3, <1>4, <1>5 DEF Next

\* A document reported as parsed has, when no task is left, the segments of every
\* group whose row does not say FAILED (ParsedIsComplete).
THEOREM ParsedHasSegments == Spec => []ParsedIsComplete
  <1>1. Init => Passed
    BY DEF Init, Passed, AllTouched, SuccessIsParsing, Parsing, None
  <1>2. Settled /\ Passed /\ [Next]_vars => Passed'
    BY NextPasses DEF Settled
  <1>3. Settled /\ Passed => ParsedIsComplete
    <2> SUFFICES ASSUME Settled, Passed, Quiet, Fine, status = "SUCCESS", NEW g \in G
                 PROVE  g \in chunks \/ ng[g] = "FAILED"
      BY DEF ParsedIsComplete, Fine
    <2>1. ng[g] \in Marks /\ ng[g] \notin {None, "PENDING"}
      BY DEF Settled, Typed, TypeOK, Marks, Passed, AllTouched, SuccessIsParsing, Parsed, Touched
    <2>2. ng[g] # "WORKING"
      <3>1. \A w \in Workers : ~Carries(w, g)
        BY JobShape DEF Quiet, Carries, JobFits, Settled
      <3>2. \A id \in Ids : ~Orphan(id)
        BY DEF Quiet, Orphan, Open
      <3> QED BY <3>1, <3>2 DEF Settled, WorkingExplained, Explained, Fine
    <2>3. ng[g] = "SUCCESS" => g \in chunks
      BY QuietNotExcused DEF Settled, SuccessThere, Intact
    <2> QED BY <2>1, <2>2, <2>3 DEF Marks
  <1> QED BY <1>1, <1>2, <1>3, SettledInvariant, PTL DEF Spec
=============================================================================

-------------------------- MODULE DocLifecycleProofs --------------------------
(***************************************************************************)
(* Proofs about DocLifecycle: its types, that the snapshot and the task    *)
(* records of a document stay together, and that no snapshot is stuck.     *)
(*                                                                         *)
(* Typed strengthens the types by the order in which a list holds its      *)
(* operations (Ordered), by what its thread reports (Told) and by the task *)
(* ids that lists still have to draw (Drawn).  Owned says that a task is   *)
(* the business of its own knowledge base.  Staged and Alone say what the  *)
(* threads that work on one task know of it and of each other, Written and *)
(* Linked that a snapshot differs from its record only while a thread is   *)
(* between the two writes.  Marked, Expected and Followed say that an      *)
(* outcome is on its way to every snapshot that is not settled.            *)
(***************************************************************************)
EXTENDS DocLifecycle, FiniteSetTheorems, SequenceTheorems, TLAPS

-----------------------------------------------------------------------------
(* Jobs: which operations a thread may have ahead, and what its job says.  *)

Asking == {"bind", "mark", "enqueue", "submit"}
Failing == {"failTask", "failSnap", "failDoc"}
Starting == {"startTask", "startSnap", "startDoc", "markDeleting"}
Ending == {"finTask", "finSnap", "finUnbind", "finDoc"}
Canceling == {"parserCancel", "cancelRead"}
Purging == {"purgeRel", "purgeSnap", "purgeSync"}

Outcomes == {"SUCCESS", "FAILED", "CANCELED"}
Counts == {0} \cup {Cardinality(S) : S \in SUBSET Kbs}
JobRec == [kb : Kbs \cup {None}, type : Types \cup {None}, task : Nat,
           status : {None, "WORKING"} \cup Outcomes, posted : BOOLEAN, n : Counts,
           todo : Seq(Ops)]

\* A record is written just before its snapshot.
Pair(q, first, second) ==
  /\ \A p \in 1..Len(q) : q[p] = first => p = 1 /\ Len(q) >= 2 /\ q[2] = second
  /\ \A p \in 1..Len(q) : q[p] = second => p = 1 \/ (p = 2 /\ q[1] = first)

\* A task is submitted when it was enqueued, and what is no request has a task.
Ordered(q, task) ==
  /\ \A p \in 1..Len(q) : q[p] = "submit" => IF p = 1 THEN task # 0 ELSE q[p - 1] = "enqueue"
  /\ \A p \in 1..Len(q) : q[p] = "enqueue" => p < Len(q) /\ q[p + 1] = "submit"
  /\ \A p \in 1..Len(q) : q[p] \notin Asking => task # 0
  /\ Pair(q, "failTask", "failSnap")
  /\ Pair(q, "startTask", "startSnap")
  /\ Pair(q, "finTask", "finSnap")
  /\ Pair(q, "parserCancel", "cancelRead")
  /\ \A p, r \in 1..Len(q) : q[p] \in Canceling => q[r] \in Canceling \cup Purging

\* Only a callback reports a status, and only cancel_task its own.
Told(j) ==
  /\ j.posted => j.status \in {"WORKING", "SUCCESS", "FAILED"}
  /\ \A p \in 1..Len(j.todo) :
       /\ j.todo[p] \in Asking \cup Failing \cup Canceling => j.status = None /\ ~j.posted
       /\ j.todo[p] \in Starting => j.status = "WORKING" /\ j.posted
       /\ j.todo[p] \in Ending => j.status \in Outcomes /\ (j.posted <=> j.status # "CANCELED")
       /\ j.todo[p] \in Purging => ~j.posted

JobFits(j, len) ==
  \/ j = Idle
  \/ /\ j.kb \in Kbs /\ j.type \in Types /\ j.task \in 0..len
     /\ Len(j.todo) >= 1 /\ Ordered(j.todo, j.task) /\ Told(j)

\* The places, counted from the end, at which a list enqueues a task.
Places(q) == {d \in Nat : d < Len(q) /\ q[Len(q) - d] = "enqueue"}
Ahead == {x \in Threads \X Nat : x[2] \in Places(job[x[1]].todo)}

TaskRec == [type : Types, kb : Kbs, status : Statuses]
SnapRec == {NoSnap} \cup [status : Statuses, task : Ids, type : Types]
Stages == {"none", "queued", "running", "done", "canceled"}
Posted == [task : Ids, status : {"WORKING", "SUCCESS", "FAILED"}]

RowsFit ==
  /\ upload \in Statuses \cup {None} /\ bound \subseteq Kbs
  /\ snap \in [Kbs -> SnapRec] /\ \A k \in Kbs : snap[k].task <= Len(tasks)
  /\ tasks \in Seq(TaskRec)

ParserFits ==
  /\ stage \in [Ids -> Stages] /\ \A id \in Ids : stage[id] # "none" => id <= Len(tasks)
  /\ nodes \subseteq Kbs
  /\ outbox \in Seq(Posted) /\ \A p \in 1..Len(outbox) : outbox[p].task <= Len(tasks)

JobsFit == job \in [Threads -> JobRec] /\ \A h \in Threads : JobFits(job[h], Len(tasks))

\* Every task id that a list will use is counted in asked.
Drawn ==
  /\ asked \in 0..MaxTasks
  /\ IsFiniteSet(Ahead) /\ Len(tasks) + Cardinality(Ahead) <= asked

HistoryFits == hurt \subseteq Ids /\ troubles \in 0..MaxTroubles

Typed == RowsFit /\ ParserFits /\ JobsFit /\ Drawn /\ HistoryFits

LEMMA TypedTypeOK == Typed => TypeOK
  <1> SUFFICES ASSUME Typed PROVE TypeOK
    OBVIOUS
  <1>1. Len(tasks) \in Nat /\ Cardinality(Ahead) \in Nat
    BY FS_CardinalityType DEF Typed, RowsFit, Drawn
  <1>2. Len(tasks) <= asked /\ asked \in 0..MaxTasks
    BY <1>1, LifecycleAssumption DEF Typed, Drawn
  <1>3. /\ upload \in Statuses \cup {None} /\ bound \subseteq Kbs
        /\ tasks \in Seq([type : Types, kb : Kbs, status : Statuses])
    BY DEF Typed, RowsFit, TaskRec
  <1>4. ASSUME NEW k \in Kbs
        PROVE  snap[k] = NoSnap \/ snap[k] \in [status : Statuses, task : 1..Len(tasks), type : Types]
    <2>1. snap[k] \in SnapRec /\ snap[k].task <= Len(tasks)
      BY DEF Typed, RowsFit
    <2> QED BY <1>1, <2>1, LifecycleAssumption DEF SnapRec, Ids
  <1>5. /\ stage \in [Ids -> {"none", "queued", "running", "done", "canceled"}]
        /\ \A id \in Ids : stage[id] # "none" => id <= Len(tasks)
        /\ nodes \subseteq Kbs
    BY DEF Typed, ParserFits, Stages
  <1>6. outbox \in Seq(Callback)
    <2>1. Posted \subseteq Callback
      BY DEF Posted, Callback
    <2>2. outbox \in Seq(Posted)
      BY DEF Typed, ParserFits
    <2> QED BY <2>1, <2>2
  <1>7. ASSUME NEW h \in Threads
        PROVE  job[h] = Idle \/ /\ job[h].kb \in Kbs /\ job[h].type \in Types
                                /\ job[h].task \in 0..Len(tasks)
                                /\ job[h].todo \in Seq(Ops) \ {<< >>}
    <2>1. job[h] \in JobRec /\ JobFits(job[h], Len(tasks))
      BY DEF Typed, JobsFit
    <2>2. job[h].todo \in Seq(Ops)
      BY <2>1 DEF JobRec
    <2> QED BY <2>1, <2>2 DEF JobFits
  <1> QED BY <1>2, <1>3, <1>4, <1>5, <1>6, <1>7 DEF TypeOK, Typed, HistoryFits

LEMMA Shape ==
  ASSUME Typed
  PROVE  /\ tasks \in Seq(TaskRec) /\ Len(tasks) \in Nat /\ Len(tasks) <= MaxTasks
         /\ snap \in [Kbs -> SnapRec] /\ stage \in [Ids -> Stages] /\ outbox \in Seq(Posted)
         /\ job \in [Threads -> JobRec] /\ MaxTasks \in Nat /\ Ids = 1..MaxTasks
         /\ Len(outbox) \in Nat /\ asked \in 0..MaxTasks
  <1>1. Len(tasks) \in Nat /\ Cardinality(Ahead) \in Nat
    BY FS_CardinalityType DEF Typed, RowsFit, Drawn
  <1>2. Len(tasks) <= MaxTasks
    BY <1>1, LifecycleAssumption DEF Typed, Drawn
  <1> QED BY <1>1, <1>2, LifecycleAssumption DEF Typed, RowsFit, ParserFits, JobsFit, Drawn, Ids

LEMMA IdleFits ==
  /\ Idle \in JobRec /\ \A len : JobFits(Idle, len)
  /\ Idle.todo = << >> /\ Idle.kb = None /\ Idle.task = 0 /\ Idle.status = None /\ ~Idle.posted
  /\ Places(Idle.todo) = {}
  <1>1. << >> \in Seq(Ops) /\ Len(<< >>) = 0
    OBVIOUS
  <1>2. Idle \in JobRec
    BY <1>1 DEF Idle, JobRec, Counts
  <1>3. Places(<< >>) = {}
    BY <1>1 DEF Places
  <1> QED BY <1>2, <1>3 DEF JobFits, Idle

\* A job that is not done names a knowledge base, and has something ahead.
LEMMA BusyFits ==
  ASSUME NEW len \in Nat, NEW j \in JobRec, JobFits(j, len), j.todo # << >>
  PROVE  /\ j.kb \in Kbs /\ j.type \in Types /\ j.task \in 0..len
         /\ j.todo \in Seq(Ops) /\ Len(j.todo) \in Nat /\ Len(j.todo) >= 1
         /\ j.todo[1] \in Ops /\ Head(j.todo) = j.todo[1]
         /\ Ordered(j.todo, j.task) /\ Told(j)
  <1>1. j.todo \in Seq(Ops)
    BY DEF JobRec
  <1>2. j # Idle
    BY IdleFits
  <1> QED BY <1>1, <1>2 DEF JobFits

-----------------------------------------------------------------------------
(* Lists of operations.                                                    *)

LEMMA TailShape ==
  ASSUME NEW q \in Seq(Ops), q # << >>
  PROVE  /\ Tail(q) \in Seq(Ops) /\ Len(Tail(q)) = Len(q) - 1 /\ Len(q) \in Nat /\ Len(q) >= 1
         /\ \A p \in 1..Len(Tail(q)) : Tail(q)[p] = q[p + 1] /\ p + 1 \in 1..Len(q)
  OBVIOUS

LEMMA PairTail ==
  ASSUME NEW q \in Seq(Ops), q # << >>, NEW a, NEW b, a # b, Pair(q, a, b)
  PROVE  Pair(Tail(q), a, b)
  <1> DEFINE r == Tail(q)
  <1>1. /\ Len(r) = Len(q) - 1 /\ Len(q) \in Nat /\ Len(q) >= 1
        /\ \A p \in 1..Len(r) : r[p] = q[p + 1] /\ p + 1 \in 1..Len(q)
    BY TailShape
  <1> HIDE DEF r
  <1>2. ASSUME NEW p \in 1..Len(r), r[p] = a PROVE FALSE
    BY <1>1, <1>2 DEF Pair
  <1>3. ASSUME NEW p \in 1..Len(r), r[p] = b PROVE p = 1
    BY <1>1, <1>3 DEF Pair
  <1>4. Pair(r, a, b)
    BY <1>2, <1>3 DEF Pair
  <1> QED BY <1>4 DEF r

LEMMA OrderedTail ==
  ASSUME NEW q \in Seq(Ops), q # << >>, NEW task, Ordered(q, task), task # 0 \/ q[1] # "enqueue"
  PROVE  Ordered(Tail(q), task)
  <1> DEFINE r == Tail(q)
  <1>1. /\ Len(r) = Len(q) - 1 /\ Len(q) \in Nat /\ Len(q) >= 1
        /\ \A p \in 1..Len(r) : r[p] = q[p + 1] /\ p + 1 \in 1..Len(q)
    BY TailShape
  <1>2. /\ Pair(r, "failTask", "failSnap") /\ Pair(r, "startTask", "startSnap")
        /\ Pair(r, "finTask", "finSnap") /\ Pair(r, "parserCancel", "cancelRead")
    BY PairTail DEF Ordered
  <1> HIDE DEF r
  <1>3. ASSUME NEW p \in 1..Len(r), r[p] = "submit"
        PROVE  IF p = 1 THEN task # 0 ELSE r[p - 1] = "enqueue"
    <2>1. q[p] = "enqueue"
      BY <1>1, <1>3 DEF Ordered
    <2>2. CASE p = 1
      BY <2>1, <2>2
    <2>3. CASE p # 1
      <3>1. p - 1 \in 1..Len(r)
        BY <1>1, <2>3
      <3> QED BY <1>1, <2>1, <2>3, <3>1
    <2> QED BY <2>2, <2>3
  <1>4. ASSUME NEW p \in 1..Len(r), r[p] = "enqueue" PROVE p < Len(r) /\ r[p + 1] = "submit"
    BY <1>1, <1>4 DEF Ordered
  <1>5. ASSUME NEW p \in 1..Len(r), r[p] \notin Asking PROVE task # 0
    BY <1>1, <1>5 DEF Ordered
  <1>6. ASSUME NEW p \in 1..Len(r), NEW s \in 1..Len(r), r[p] \in Canceling
        PROVE  r[s] \in Canceling \cup Purging
    BY <1>1, <1>6 DEF Ordered
  <1>7. Ordered(r, task)
    BY <1>2, <1>3, <1>4, <1>5, <1>6 DEF Ordered
  <1> QED BY <1>7 DEF r

LEMMA PlacesTail ==
  ASSUME NEW q \in Seq(Ops), q # << >>
  PROVE  /\ Places(Tail(q)) \subseteq Places(q)
         /\ q[1] = "enqueue" => Len(q) - 1 \in Places(q) /\ Len(q) - 1 \notin Places(Tail(q))
  <1> DEFINE r == Tail(q)
  <1>1. /\ Len(r) = Len(q) - 1 /\ Len(q) \in Nat /\ Len(q) >= 1
        /\ \A p \in 1..Len(r) : r[p] = q[p + 1] /\ p + 1 \in 1..Len(q)
    BY TailShape
  <1> HIDE DEF r
  <1>2. Places(r) \subseteq Places(q)
    <2> SUFFICES ASSUME NEW d \in Nat, d < Len(r), r[Len(r) - d] = "enqueue" PROVE d \in Places(q)
      BY DEF Places
    <2>3. Len(r) - d \in 1..Len(r) /\ (Len(r) - d) + 1 = Len(q) - d
      BY <1>1
    <2>1. PICK p \in 1..Len(r) : p = Len(r) - d /\ p + 1 = Len(q) - d
      BY <2>3
    <2>2. q[p + 1] = "enqueue" /\ d < Len(q)
      BY <1>1, <2>1
    <2> QED BY <2>1, <2>2 DEF Places
  <1>3. q[1] = "enqueue" => Len(q) - 1 \in Places(q) /\ Len(q) - 1 \notin Places(r)
    BY <1>1 DEF Places
  <1> QED BY <1>2, <1>3 DEF r

LEMMA NoPlaces ==
  ASSUME NEW q \in Seq(Ops), \A p \in 1..Len(q) : q[p] # "enqueue"
  PROVE  Places(q) = {}
  <1> SUFFICES ASSUME NEW d \in Nat, d < Len(q), q[Len(q) - d] = "enqueue" PROVE FALSE
    BY DEF Places
  <1>1. Len(q) - d \in 1..Len(q)
    OBVIOUS
  <1> QED BY <1>1

\* A job goes on with what is left of its list, or is done.
Follows(j2, j) ==
  /\ j2 = Idle \/ (/\ j2.kb = j.kb /\ j2.type = j.type /\ j2.task = j.task
                   /\ j2.status = j.status /\ j2.posted = j.posted)
  /\ j2.todo = Tail(j.todo)

LEMMA FollowsFits ==
  ASSUME NEW len \in Nat, NEW j \in JobRec, JobFits(j, len), j.todo # << >>,
         j.task # 0 \/ j.todo[1] # "enqueue", NEW n \in Counts, NEW j2,
         j2 = IF Tail(j.todo) = << >> THEN Idle ELSE [j EXCEPT !.n = n, !.todo = Tail(j.todo)]
  PROVE  /\ j2 \in JobRec /\ JobFits(j2, len) /\ Follows(j2, j)
         /\ Places(j2.todo) \subseteq Places(j.todo)
  <1>1. /\ j.todo \in Seq(Ops) /\ Ordered(j.todo, j.task) /\ Told(j)
        /\ j.kb \in Kbs /\ j.type \in Types /\ j.task \in 0..len
    BY BusyFits
  <1>2. PICK r : r = Tail(j.todo)
    OBVIOUS
  <1>3. /\ r \in Seq(Ops) /\ Len(r) = Len(j.todo) - 1 /\ Len(j.todo) \in Nat /\ Len(j.todo) >= 1
        /\ \A p \in 1..Len(r) : r[p] = j.todo[p + 1] /\ p + 1 \in 1..Len(j.todo)
    BY <1>1, <1>2, TailShape
  <1>4. Ordered(r, j.task) /\ Places(r) \subseteq Places(j.todo)
    BY <1>1, <1>2, OrderedTail, PlacesTail
  <1>5. CASE r = << >>
    <2>1. j2 = Idle
      BY <1>2, <1>5
    <2> QED BY <1>2, <1>5, <2>1, IdleFits DEF Follows
  <1>6. CASE r # << >>
    <2>1. j2 = [j EXCEPT !.n = n, !.todo = r]
      BY <1>2, <1>6
    <2>2. /\ j2 \in JobRec /\ j2.kb = j.kb /\ j2.type = j.type /\ j2.task = j.task
          /\ j2.status = j.status /\ j2.posted = j.posted /\ j2.todo = r
      BY <1>3, <2>1 DEF JobRec
    <2>3. Told(j2)
      <3>1. ASSUME NEW p \in 1..Len(r)
            PROVE  \E k \in 1..Len(j.todo) : r[p] = j.todo[k]
        BY <1>3
      <3>2. j2.posted => j2.status \in {"WORKING", "SUCCESS", "FAILED"}
        BY <1>1, <2>2 DEF Told
      <3>3. ASSUME NEW p \in 1..Len(r)
            PROVE  /\ r[p] \in Asking \cup Failing \cup Canceling => j.status = None /\ ~j.posted
                   /\ r[p] \in Starting => j.status = "WORKING" /\ j.posted
                   /\ r[p] \in Ending => j.status \in Outcomes /\ (j.posted <=> j.status # "CANCELED")
                   /\ r[p] \in Purging => ~j.posted
        <4>1. PICK k \in 1..Len(j.todo) : r[p] = j.todo[k]
          BY <3>1
        <4> QED BY <1>1, <4>1 DEF Told
      <3> QED BY <2>2, <3>2, <3>3 DEF Told
    <2>4. Len(r) >= 1
      BY <1>3, <1>6
    <2> QED BY <1>1, <1>2, <1>4, <2>2, <2>3, <2>4 DEF JobFits, Follows
  <1> QED BY <1>5, <1>6

LEMMA HeadIs ==
  ASSUME Typed, NEW h \in Threads, job[h].todo # << >>
  PROVE  /\ job[h] \in JobRec /\ JobFits(job[h], Len(tasks)) /\ Len(tasks) \in Nat
         /\ job[h].kb \in Kbs /\ job[h].type \in Types /\ job[h].task \in 0..Len(tasks)
         /\ job[h].todo \in Seq(Ops) /\ Head(job[h].todo) = job[h].todo[1] /\ job[h].todo[1] \in Ops
         /\ Len(job[h].todo) \in Nat /\ Len(job[h].todo) >= 1
         /\ Ordered(job[h].todo, job[h].task) /\ Told(job[h])
         /\ (job[h].todo[1] \notin {"bind", "mark", "enqueue"} => job[h].task # 0)
  <1>1. job[h] \in JobRec /\ JobFits(job[h], Len(tasks)) /\ Len(tasks) \in Nat
    BY Shape DEF Typed, JobsFit
  <1>2. PICK j \in JobRec : j = job[h]
    BY <1>1
  <1>3. /\ j.kb \in Kbs /\ j.type \in Types /\ j.task \in 0..Len(tasks)
        /\ j.todo \in Seq(Ops) /\ Head(j.todo) = j.todo[1] /\ j.todo[1] \in Ops
        /\ Len(j.todo) \in Nat /\ Len(j.todo) >= 1
        /\ Ordered(j.todo, j.task) /\ Told(j)
    BY <1>1, <1>2, BusyFits
  <1>4. j.todo[1] \notin {"bind", "mark", "enqueue"} => j.task # 0
    BY <1>3 DEF Ordered, Asking
  <1> QED BY <1>1, <1>2, <1>3, <1>4

LEMMA GoOnFits ==
  ASSUME Typed, NEW h \in Threads, job[h].todo # << >>,
         job[h].task # 0 \/ job[h].todo[1] # "enqueue", NEW n \in Counts,
         GoOn(h) \/ GoOnWith(h, [job[h] EXCEPT !.n = n], Tail(job[h].todo))
  PROVE  \E j2 \in JobRec :
           /\ JobFits(j2, Len(tasks)) /\ Follows(j2, job[h])
           /\ Places(j2.todo) \subseteq Places(job[h].todo)
           /\ job' = [job EXCEPT ![h] = j2]
  <1>1. PICK j \in JobRec : j = job[h] /\ JobFits(j, Len(tasks)) /\ Len(tasks) \in Nat
    BY HeadIs
  <1>2. ASSUME NEW m \in Counts
        PROVE  LET j2 == IF Tail(j.todo) = << >> THEN Idle ELSE [j EXCEPT !.n = m, !.todo = Tail(j.todo)]
               IN  /\ j2 \in JobRec /\ JobFits(j2, Len(tasks)) /\ Follows(j2, j)
                   /\ Places(j2.todo) \subseteq Places(j.todo)
    BY <1>1, FollowsFits
  <1>3. CASE GoOn(h)
    <2>1. /\ j.n \in Counts
          /\ [j EXCEPT !.n = j.n, !.todo = Tail(j.todo)] = [j EXCEPT !.todo = Tail(j.todo)]
      BY DEF JobRec
    <2>2. job' = [job EXCEPT ![h] = IF Tail(j.todo) = << >> THEN Idle
                                    ELSE [j EXCEPT !.n = j.n, !.todo = Tail(j.todo)]]
      BY <1>1, <1>3, <2>1 DEF GoOn, GoOnWith
    <2> QED BY <1>1, <1>2, <2>1, <2>2
  <1>4. CASE GoOnWith(h, [job[h] EXCEPT !.n = n], Tail(job[h].todo))
    <2>1. [[j EXCEPT !.n = n] EXCEPT !.todo = Tail(j.todo)] = [j EXCEPT !.n = n, !.todo = Tail(j.todo)]
      BY DEF JobRec
    <2>2. job' = [job EXCEPT ![h] = IF Tail(j.todo) = << >> THEN Idle
                                    ELSE [j EXCEPT !.n = n, !.todo = Tail(j.todo)]]
      BY <1>1, <1>4, <2>1 DEF GoOnWith
    <2> QED BY <1>1, <1>2, <2>2
  <1> QED BY <1>3, <1>4

\* Steps that draw no task.
LEMMA JobStep ==
  ASSUME Typed, NEW h \in Threads, NEW j2 \in JobRec, JobFits(j2, Len(tasks)),
         Places(j2.todo) \subseteq Places(job[h].todo), job' = [job EXCEPT ![h] = j2],
         Len(tasks') = Len(tasks), asked' = asked
  PROVE  JobsFit' /\ Drawn'
  <1>1. job \in [Threads -> JobRec] /\ \A g \in Threads : JobFits(job[g], Len(tasks))
    BY DEF Typed, JobsFit
  <1>2. job' \in [Threads -> JobRec] /\ job'[h] = j2 /\ \A g \in Threads : g # h => job'[g] = job[g]
    BY <1>1
  <1>3. JobsFit'
    <2> SUFFICES ASSUME NEW g \in Threads PROVE JobFits(job'[g], Len(tasks'))
      BY <1>2 DEF JobsFit
    <2>1. CASE g = h
      BY <1>2, <2>1
    <2>2. CASE g # h
      BY <1>1, <1>2, <2>2
    <2> QED BY <2>1, <2>2
  <1>4. Ahead' \subseteq Ahead
    <2> SUFFICES ASSUME NEW x \in Threads \X Nat, x[2] \in Places(job'[x[1]].todo) PROVE x \in Ahead
      BY DEF Ahead
    <2>1. CASE x[1] = h
      BY <1>2, <2>1 DEF Ahead
    <2>2. CASE x[1] # h
      BY <1>2, <2>2 DEF Ahead
    <2> QED BY <2>1, <2>2
  <1>5. IsFiniteSet(Ahead) /\ Len(tasks) + Cardinality(Ahead) <= asked /\ asked \in 0..MaxTasks
    BY DEF Typed, Drawn
  <1>6. PICK c, d, S, T : c = Cardinality(S) /\ d = Cardinality(T) /\ S = Ahead /\ T = Ahead'
    OBVIOUS
  <1>7. IsFiniteSet(T) /\ c \in Nat /\ d \in Nat /\ d <= c
    BY <1>4, <1>5, <1>6, FS_Subset, FS_CardinalityType
  <1>8. Drawn'
    BY <1>5, <1>6, <1>7, Shape DEF Drawn
  <1> QED BY <1>3, <1>8

-----------------------------------------------------------------------------
(* Requests.                                                               *)

LEMMA SnapShape ==
  ASSUME Typed, NEW k \in Kbs, snap[k] # NoSnap
  PROVE  /\ snap[k].task \in 1..Len(tasks) /\ snap[k].type \in Types /\ snap[k].status \in Statuses
         /\ tasks[snap[k].task] \in TaskRec /\ snap[k].task \in Ids
  <1>1. snap[k] \in [status : Statuses, task : Ids, type : Types] /\ snap[k].task <= Len(tasks)
    BY DEF Typed, RowsFit, SnapRec
  <1> QED BY <1>1, Shape DEF Ids

LEMMA RequestRec ==
  ASSUME NEW k \in Kbs, NEW type \in Types, NEW task \in Nat, NEW q \in Seq(Ops)
  PROVE  [kb |-> k, type |-> type, task |-> task, status |-> None, posted |-> FALSE,
          n |-> 0, todo |-> q] \in JobRec
  <1>1. 0 \in Counts
    BY DEF Counts
  <1> QED BY <1>1 DEF JobRec

\* The job of a request for a task that exists already, or for one to be drawn (0).
RequestFor(k, type, task, q) == [Request(k, type, q) EXCEPT !.task = task]

LEMMA RequestForRec ==
  ASSUME NEW k \in Kbs, NEW type \in Types, NEW task \in Nat, NEW q \in Seq(Ops)
  PROVE  /\ RequestFor(k, type, task, q) =
               [kb |-> k, type |-> type, task |-> task, status |-> None, posted |-> FALSE,
                n |-> 0, todo |-> q]
         /\ RequestFor(k, type, 0, q) = Request(k, type, q)
  <1>1. ASSUME NEW j, j = [[Idle EXCEPT !.kb = k, !.type = type, !.todo = q] EXCEPT !.task = task]
        PROVE  j = [kb |-> k, type |-> type, task |-> task, status |-> None, posted |-> FALSE,
                    n |-> 0, todo |-> q]
    BY <1>1 DEF Idle
  <1>2. ASSUME NEW j, j = [Idle EXCEPT !.kb = k, !.type = type, !.todo = q]
        PROVE  j = [kb |-> k, type |-> type, task |-> 0, status |-> None, posted |-> FALSE,
                    n |-> 0, todo |-> q]
    BY <1>2 DEF Idle
  <1>3. ASSUME NEW j, j = [[Idle EXCEPT !.kb = k, !.type = type, !.todo = q] EXCEPT !.task = 0]
        PROVE  j = [kb |-> k, type |-> type, task |-> 0, status |-> None, posted |-> FALSE,
                    n |-> 0, todo |-> q]
    BY <1>3 DEF Idle
  <1>4. RequestFor(k, type, task, q) = [kb |-> k, type |-> type, task |-> task, status |-> None,
                                        posted |-> FALSE, n |-> 0, todo |-> q]
    BY <1>1, Zenon DEF RequestFor, Request
  <1>5. RequestFor(k, type, 0, q) = [kb |-> k, type |-> type, task |-> 0, status |-> None,
                                     posted |-> FALSE, n |-> 0, todo |-> q]
    BY <1>3, Zenon DEF RequestFor, Request
  <1>6. Request(k, type, q) = [kb |-> k, type |-> type, task |-> 0, status |-> None,
                               posted |-> FALSE, n |-> 0, todo |-> q]
    BY <1>2, Zenon DEF Request
  <1> QED BY <1>4, <1>5, <1>6

LEMMA RequestFits ==
  ASSUME NEW len \in Nat, NEW k \in Kbs, NEW type \in Types, NEW task \in 0..len, NEW q \in Seq(Ops),
         Len(q) >= 1, Ordered(q, task),
         \A p \in 1..Len(q) : q[p] \in Asking \cup Canceling \cup Purging,
         NEW j, j = RequestFor(k, type, task, q)
  PROVE  /\ j \in JobRec /\ JobFits(j, len) /\ j.kb = k /\ j.type = type /\ j.task = task
         /\ j.status = None /\ ~j.posted /\ j.todo = q
  <1>1. /\ j \in JobRec /\ j.kb = k /\ j.type = type /\ j.task = task
        /\ j.status = None /\ ~j.posted /\ j.todo = q
    <2>1. j = [kb |-> k, type |-> type, task |-> task, status |-> None, posted |-> FALSE,
               n |-> 0, todo |-> q]
      BY RequestForRec
    <2>2. 0 \in Counts /\ task \in Nat
      BY DEF Counts
    <2>3. j \in JobRec
      <3>1. [kb |-> k, type |-> type, task |-> task, status |-> None, posted |-> FALSE,
             n |-> 0, todo |-> q] \in JobRec
        BY <2>2, RequestRec
      <3> QED BY <2>1, <3>1, Zenon
    <2>4. j.kb = k /\ j.type = type /\ j.task = task /\ j.status = None /\ j.todo = q
      BY <2>1
    <2>5. j.posted = FALSE
      BY <2>1
    <2> QED BY <2>3, <2>4, <2>5
  <1>2. Told(j)
    BY <1>1 DEF Told, Asking, Canceling, Purging, Starting, Ending, Failing
  <1> QED BY <1>1, <1>2 DEF JobFits

\* The list of a request that submits one task.
OneTask(q) ==
  /\ q \in Seq(Ops)
  /\ \/ Len(q) = 2 /\ q[1] = "enqueue" /\ q[2] = "submit"
     \/ Len(q) = 3 /\ q[1] \in {"bind", "mark"} /\ q[2] = "enqueue" /\ q[3] = "submit"

LEMMA AskFits ==
  ASSUME NEW q \in Seq(Ops), OneTask(q)
  PROVE  /\ q \in Seq(Ops) /\ Len(q) >= 1 /\ Ordered(q, 0) /\ \A p \in 1..Len(q) : q[p] \in Asking
         /\ q[1] \in {"bind", "mark", "enqueue"}
         /\ Places(q) = {1}
  <1>1. Len(q) = 2 \/ Len(q) = 3
    BY DEF OneTask
  <1>2. ASSUME NEW p \in 1..Len(q)
        PROVE  /\ q[p] \in Asking
               /\ q[p] = "enqueue" <=> p = Len(q) - 1
               /\ q[p] = "submit" <=> p = Len(q)
    <2>1. CASE Len(q) = 2
      <3>1. p = 1 \/ p = 2
        BY <2>1
      <3>2. q[1] = "enqueue" /\ q[2] = "submit"
        BY <2>1 DEF OneTask
      <3> QED BY <2>1, <3>1, <3>2 DEF Asking
    <2>2. CASE Len(q) = 3
      <3>1. p = 1 \/ p = 2 \/ p = 3
        BY <2>2
      <3>2. q[1] \in {"bind", "mark"} /\ q[2] = "enqueue" /\ q[3] = "submit"
        BY <2>2 DEF OneTask
      <3> QED BY <2>2, <3>1, <3>2 DEF Asking
    <2> QED BY <1>1, <2>1, <2>2
  <1>3. \A p \in 1..Len(q) : q[p] \in {"bind", "mark", "enqueue", "submit"} /\ q[p] \notin Canceling
    BY <1>2 DEF Asking, Canceling
  <1>4. /\ Pair(q, "failTask", "failSnap") /\ Pair(q, "startTask", "startSnap")
        /\ Pair(q, "finTask", "finSnap") /\ Pair(q, "parserCancel", "cancelRead")
    BY <1>3 DEF Pair
  <1>5. ASSUME NEW p \in 1..Len(q), q[p] = "submit" PROVE p # 1 /\ q[p - 1] = "enqueue"
    <2>1. p = Len(q)
      BY <1>2, <1>5
    <2>2. Len(q) - 1 \in 1..Len(q) /\ p # 1 /\ p - 1 = Len(q) - 1
      BY <1>1, <2>1
    <2>3. q[Len(q) - 1] = "enqueue"
      BY <1>2, <2>2
    <2> QED BY <2>2, <2>3
  <1>6. ASSUME NEW p \in 1..Len(q), q[p] = "enqueue" PROVE p < Len(q) /\ q[p + 1] = "submit"
    BY <1>1, <1>2, <1>6
  <1>7. Ordered(q, 0)
    BY <1>2, <1>3, <1>4, <1>5, <1>6 DEF Ordered
  <1>8. Places(q) = {1}
    <2>1. ASSUME NEW d \in Places(q) PROVE d = 1
      <3>1. d \in Nat /\ Len(q) - d \in 1..Len(q) /\ q[Len(q) - d] = "enqueue"
        BY <1>1, <2>1 DEF Places
      <3>2. PICK p \in 1..Len(q) : p = Len(q) - d
        BY <3>1
      <3> QED BY <1>1, <1>2, <3>1, <3>2
    <2>2. 1 \in Places(q)
      <3>1. PICK p \in 1..Len(q) : p = Len(q) - 1
        BY <1>1
      <3>2. q[p] = "enqueue" /\ 1 < Len(q)
        BY <1>1, <1>2, <3>1
      <3> QED BY <3>1, <3>2 DEF Places
    <2> QED BY <2>1, <2>2
  <1>9. Len(q) >= 1 /\ q[1] \in {"bind", "mark", "enqueue"}
    BY <1>1 DEF OneTask
  <1> QED BY <1>1, <1>2, <1>7, <1>8, <1>9

LEMMA TaskOps ==
  /\ OneTask(Submission)
  /\ \A a \in {"bind", "mark"} : OneTask(<<a>> \o Submission)
  /\ Submission \in Seq(Ops) /\ \A a \in {"bind", "mark"} : <<a>> \o Submission \in Seq(Ops)
  <1>1. /\ Submission \in Seq(Ops) /\ Len(Submission) = 2
        /\ Submission[1] = "enqueue" /\ Submission[2] = "submit"
    BY DEF Submission, Ops
  <1>2. ASSUME NEW a \in {"bind", "mark"} PROVE OneTask(<<a>> \o Submission)
    <2>1. PICK s \in Seq(Ops) : s = <<a>> /\ Len(s) = 1 /\ s[1] = a
      <3>1. a \in Ops
        BY DEF Ops
      <3>2. <<a>> \in Seq(Ops) /\ Len(<<a>>) = 1 /\ <<a>>[1] = a
        BY <3>1
      <3> QED BY <3>2
    <2>2. PICK q : q = s \o Submission
      OBVIOUS
    <2>3. /\ q \in Seq(Ops) /\ Len(q) = 3
          /\ \A i \in 1..3 : q[i] = IF i <= 1 THEN s[i] ELSE Submission[i - 1]
      BY <1>1, <2>1, <2>2, ConcatProperties
    <2>4. q[1] = a /\ q[2] = "enqueue" /\ q[3] = "submit"
      BY <1>1, <2>1, <2>3
    <2> QED BY <2>1, <2>2, <2>3, <2>4 DEF OneTask
  <1> QED BY <1>1, <1>2 DEF OneTask

LEMMA MetaFits ==
  ASSUME NEW q, q = [i \in 1..2 * Algos |-> Submission[IF i % 2 = 1 THEN 1 ELSE 2]]
  PROVE  /\ q \in Seq(Ops) /\ Len(q) >= 1 /\ Ordered(q, 0) /\ \A p \in 1..Len(q) : q[p] \in Asking
         /\ q[1] \in {"bind", "mark", "enqueue"}
         /\ IsFiniteSet(Places(q)) /\ Cardinality(Places(q)) <= Algos
  <1>1. Algos \in Nat /\ Algos >= 1 /\ 2 * Algos \in Nat
    BY LifecycleAssumption
  <1>2. \A i \in Int : i % 2 = 0 \/ i % 2 = 1
    OBVIOUS
  <1>3. /\ \A i \in 1..2 * Algos : q[i] = IF i % 2 = 1 THEN "enqueue" ELSE "submit"
        /\ q \in Seq(Ops) /\ Len(q) = 2 * Algos
    <2>1. Submission[1] = "enqueue" /\ Submission[2] = "submit"
      BY DEF Submission
    <2>2. \A i \in 1..2 * Algos : q[i] = IF i % 2 = 1 THEN "enqueue" ELSE "submit"
      BY <2>1
    <2>3. q \in [1..2 * Algos -> Ops]
      BY <2>1 DEF Ops
    <2> QED BY <1>1, <2>2, <2>3
  <1>4. \A i \in 1..2 * Algos : q[i] \in {"enqueue", "submit"}
    BY <1>3
  <1>5. ASSUME NEW i \in 1..2 * Algos
        PROVE  /\ q[i] = "submit" => i > 1 /\ q[i - 1] = "enqueue"
               /\ q[i] = "enqueue" => i < 2 * Algos /\ q[i + 1] = "submit"
    <2>1. CASE i % 2 = 1
      <3>1. q[i] = "enqueue" /\ i < 2 * Algos /\ (i + 1) % 2 = 0
        BY <1>1, <1>3, <2>1
      <3>2. q[i + 1] = "submit"
        BY <1>1, <1>3, <3>1
      <3> QED BY <3>1, <3>2
    <2>2. CASE i % 2 # 1
      <3>1. q[i] = "submit" /\ i > 1 /\ (i - 1) % 2 = 1
        BY <1>1, <1>3, <2>2
      <3>2. q[i - 1] = "enqueue"
        BY <1>1, <1>3, <3>1
      <3> QED BY <3>1, <3>2
    <2> QED BY <2>1, <2>2
  <1>6. Ordered(q, 0)
    <2>1. \A p \in 1..Len(q) : q[p] \in {"enqueue", "submit"}
      BY <1>3, <1>4
    <2>2. \A p \in 1..Len(q) : q[p] = "submit" => IF p = 1 THEN 0 # 0 ELSE q[p - 1] = "enqueue"
      <3> SUFFICES ASSUME NEW p \in 1..2 * Algos, q[p] = "submit" PROVE p # 1 /\ q[p - 1] = "enqueue"
        BY <1>3
      <3> QED BY <1>5
    <2>3. \A p \in 1..Len(q) : q[p] = "enqueue" => p < Len(q) /\ q[p + 1] = "submit"
      BY <1>3, <1>5
    <2>4. \A p \in 1..Len(q) : q[p] \in Asking /\ q[p] \notin Canceling
      BY <2>1 DEF Asking, Canceling
    <2>5. /\ Pair(q, "failTask", "failSnap") /\ Pair(q, "startTask", "startSnap")
          /\ Pair(q, "finTask", "finSnap") /\ Pair(q, "parserCancel", "cancelRead")
      BY <2>1 DEF Pair
    <2> QED BY <2>2, <2>3, <2>4, <2>5 DEF Ordered
  <1>7. IsFiniteSet(Places(q)) /\ Cardinality(Places(q)) <= Algos
    <2> DEFINE f == [m \in 1..Algos |-> 2 * m - 1]
    <2>1. ASSUME NEW d \in Places(q) PROVE \E m \in 1..Algos : d = 2 * m - 1
      <3>1. d \in Nat /\ d < 2 * Algos /\ q[2 * Algos - d] = "enqueue"
        BY <1>3, <2>1 DEF Places
      <3>2. PICK i \in 1..2 * Algos : i = 2 * Algos - d
        BY <1>1, <3>1
      <3>3. i % 2 = 1
        BY <1>3, <3>1, <3>2
      <3>4. PICK z \in Int : i = 2 * z + 1
        BY <3>3
      <3>5. d = 2 * (Algos - z) - 1 /\ Algos - z \in 1..Algos
        BY <1>1, <3>1, <3>2, <3>4
      <3> QED BY <3>5
    <2>2. ASSUME NEW m \in 1..Algos PROVE 2 * m - 1 \in Places(q)
      <3>1. PICK i \in 1..2 * Algos : i = 2 * Algos - (2 * m - 1)
        BY <1>1
      <3>2. i % 2 = 1
        BY <1>1, <3>1
      <3>3. 2 * m - 1 \in Nat /\ 2 * m - 1 < 2 * Algos
        BY <1>1
      <3> QED BY <1>3, <3>1, <3>2, <3>3 DEF Places
    <2>3. f \in Surjection(1..Algos, Places(q))
      BY <2>1, <2>2 DEF Surjection
    <2>4. IsFiniteSet(1..Algos) /\ Cardinality(1..Algos) = Algos
      BY <1>1, FS_Interval
    <2> QED BY <2>3, <2>4, FS_Surjection
  <1> QED BY <1>1, <1>3, <1>4, <1>6, <1>7 DEF Asking

LEMMA Frame ==
  ASSUME Typed
  PROVE  /\ UNCHANGED <<upload, bound, snap, tasks>> => RowsFit'
         /\ UNCHANGED <<stage, nodes, outbox>> /\ Len(tasks') = Len(tasks) => ParserFits'
         /\ UNCHANGED <<hurt, troubles>> => HistoryFits'
         /\ UNCHANGED <<job, asked>> /\ Len(tasks') = Len(tasks) => JobsFit' /\ Drawn'
  <1>1. ASSUME UNCHANGED <<upload, bound, snap, tasks>> PROVE RowsFit'
    BY <1>1 DEF Typed, RowsFit
  <1>2. ASSUME UNCHANGED <<stage, nodes, outbox>>, Len(tasks') = Len(tasks) PROVE ParserFits'
    BY <1>2 DEF Typed, ParserFits
  <1>3. ASSUME UNCHANGED <<hurt, troubles>> PROVE HistoryFits'
    BY <1>3 DEF Typed, HistoryFits
  <1>4. ASSUME UNCHANGED <<job, asked>>, Len(tasks') = Len(tasks) PROVE JobsFit' /\ Drawn'
    <2>1. Ahead' = Ahead
      BY <1>4 DEF Ahead
    <2> QED BY <1>4, <2>1 DEF Typed, JobsFit, Drawn
  <1> QED BY <1>1, <1>2, <1>3, <1>4

\* A trouble hurts tasks.
LEMMA TroubleFits ==
  ASSUME Typed, NEW S, S \subseteq Ids, UNCHANGED <<hurt, troubles>> \/ Trouble(S)
  PROVE  HistoryFits' /\ hurt \subseteq hurt'
  <1>1. CASE UNCHANGED <<hurt, troubles>>
    BY <1>1, Frame
  <1>2. CASE Trouble(S)
    <2>1. troubles \in 0..MaxTroubles /\ MaxTroubles \in Nat /\ hurt \subseteq Ids
      BY LifecycleAssumption DEF Typed, HistoryFits
    <2>2. troubles' \in 0..MaxTroubles
      BY <1>2, <2>1 DEF Trouble
    <2>3. hurt' = hurt \cup S
      BY <1>2 DEF Trouble
    <2> QED BY <2>1, <2>2, <2>3 DEF HistoryFits
  <1> QED BY <1>1, <1>2

LEMMA BeginTyped ==
  ASSUME Typed, NEW h \in Threads, NEW k \in Kbs, NEW type \in Types, NEW n \in Nat, NEW q \in Seq(Ops),
         Len(q) >= 1, Ordered(q, 0), \A p \in 1..Len(q) : q[p] \in Asking,
         IsFiniteSet(Places(q)), Cardinality(Places(q)) <= n, Begin(h, k, type, q, n)
  PROVE  /\ Typed'
         /\ \E j2 \in JobRec :
              /\ JobFits(j2, Len(tasks)) /\ job' = [job EXCEPT ![h] = j2]
              /\ j2.task = 0 /\ j2.status = None /\ ~j2.posted /\ j2.todo = q
  <1> DEFINE j2 == RequestFor(k, type, 0, q)
  <1>1. Len(tasks) \in Nat /\ asked \in Nat /\ MaxTasks \in Nat
    BY Shape
  <1>2. /\ j2 \in JobRec /\ JobFits(j2, Len(tasks)) /\ j2.task = 0 /\ j2.status = None /\ ~j2.posted
        /\ j2.todo = q
    <2>1. \A p \in 1..Len(q) : q[p] \in Asking \cup Canceling \cup Purging
      OBVIOUS
    <2>2. 0 \in 0..Len(tasks)
      BY <1>1
    <2> HIDE DEF j2
    <2>3. j2 = RequestFor(k, type, 0, q)
      BY DEF j2
    <2> QED BY <1>1, <2>1, <2>2, <2>3, RequestFits
  <1>3. Request(k, type, q) = j2
    BY RequestForRec
  <1> HIDE DEF j2
  <1>4. /\ job[h] = Idle /\ job' = [job EXCEPT ![h] = j2] /\ asked + n <= MaxTasks /\ asked' = asked + n
        /\ UNCHANGED <<upload, bound, snap, tasks, stage, nodes, outbox, hurt, troubles>>
    BY <1>3 DEF Begin, rows, parser, mishaps
  <1>5. job \in [Threads -> JobRec] /\ \A g \in Threads : JobFits(job[g], Len(tasks))
    BY DEF Typed, JobsFit
  <1>6. job' \in [Threads -> JobRec] /\ job'[h] = j2 /\ \A g \in Threads : g # h => job'[g] = job[g]
    BY <1>2, <1>4, <1>5
  <1>7. JobsFit'
    <2> SUFFICES ASSUME NEW g \in Threads PROVE JobFits(job'[g], Len(tasks))
      BY <1>4, <1>6 DEF JobsFit
    <2>1. CASE g = h
      BY <1>2, <1>6, <2>1
    <2>2. CASE g # h
      BY <1>5, <1>6, <2>2
    <2> QED BY <2>1, <2>2
  <1>8. Drawn'
    <2>1. PICK A, B, N : A = Ahead /\ B = Ahead' /\ N = {h} \X Places(q)
      OBVIOUS
    <2>2. B \subseteq A \cup N
      <3> SUFFICES ASSUME NEW x \in Threads \X Nat, x[2] \in Places(job'[x[1]].todo)
                   PROVE  x \in A \/ x \in N
        BY <2>1 DEF Ahead
      <3>1. CASE x[1] = h
        BY <1>2, <1>6, <2>1, <3>1
      <3>2. CASE x[1] # h
        BY <1>6, <2>1, <3>2 DEF Ahead
      <3> QED BY <3>1, <3>2
    <2>3. IsFiniteSet(A) /\ Len(tasks) + Cardinality(A) <= asked /\ Cardinality(A) \in Nat
      BY <2>1, FS_CardinalityType DEF Typed, Drawn
    <2>4. IsFiniteSet({h}) /\ Cardinality({h}) = 1 /\ Cardinality(Places(q)) \in Nat
      BY FS_Singleton, FS_CardinalityType
    <2>5. IsFiniteSet(N) /\ Cardinality(N) = 1 * Cardinality(Places(q))
      BY <2>1, <2>4, FS_Product
    <2>6. IsFiniteSet(A \cup N) /\ Cardinality(A \cup N) <= Cardinality(A) + Cardinality(N)
          /\ Cardinality(A \cup N) \in Nat
      <3>1. IsFiniteSet(A \cup N)
        BY <2>3, <2>5, FS_Union
      <3>2. Cardinality(A \cup N) = Cardinality(A) + Cardinality(N) - Cardinality(A \cap N)
        BY <2>3, <2>5, FS_Union
      <3>3. IsFiniteSet(A \cap N) /\ Cardinality(A \cap N) \in Nat /\ Cardinality(N) \in Nat
            /\ Cardinality(A \cup N) \in Nat
        BY <2>3, <2>5, <3>1, FS_Intersection, FS_CardinalityType
      <3> QED BY <2>3, <3>1, <3>2, <3>3
    <2>7. IsFiniteSet(B) /\ Cardinality(B) <= Cardinality(A \cup N) /\ Cardinality(B) \in Nat
      BY <2>2, <2>6, FS_Subset, FS_CardinalityType
    <2>8. Len(tasks) + Cardinality(B) <= asked + n
      BY <1>1, <2>3, <2>4, <2>5, <2>6, <2>7
    <2>9. asked + n \in 0..MaxTasks
      BY <1>1, <1>4
    <2>10. IsFiniteSet(Ahead') /\ Len(tasks') + Cardinality(Ahead') <= asked' /\ asked' \in 0..MaxTasks
      BY <1>4, <2>1, <2>7, <2>8, <2>9
    <2> QED BY <2>10 DEF Drawn
  <1>9. RowsFit' /\ ParserFits' /\ HistoryFits'
    BY <1>4, Frame
  <1> QED BY <1>2, <1>4, <1>7, <1>8, <1>9 DEF Typed

\* A request that begins.
Begins(h) ==
  \E j2 \in JobRec :
    /\ job[h] = Idle /\ job' = [job EXCEPT ![h] = j2] /\ JobFits(j2, Len(tasks))
    /\ j2.status = None /\ ~j2.posted /\ j2.todo # << >>
    /\ j2.todo[1] \in {"bind", "mark", "enqueue", "parserCancel"}
    /\ j2.todo[1] = "parserCancel" =>
         /\ \A p \in 1..Len(j2.todo) : j2.todo[p] \in Canceling \cup Purging
         /\ tasks[j2.task].kb = j2.kb /\ tasks[j2.task].type = j2.type
    /\ j2.todo[1] # "parserCancel" =>
         j2.task = 0 /\ \A p \in 1..Len(j2.todo) : j2.todo[p] \in Asking
    /\ UNCHANGED <<upload, bound, snap, tasks, stage, nodes, outbox, hurt, troubles>>

LEMMA AskingBegins ==
  ASSUME Typed, NEW h \in Threads, NEW k \in Kbs, NEW type \in Types, NEW n \in Nat, NEW q \in Seq(Ops),
         Len(q) >= 1, Ordered(q, 0), \A p \in 1..Len(q) : q[p] \in Asking,
         q[1] \in {"bind", "mark", "enqueue"},
         IsFiniteSet(Places(q)), Cardinality(Places(q)) <= n, Begin(h, k, type, q, n)
  PROVE  Typed' /\ Begins(h)
  <1>1. PICK j2 \in JobRec : /\ JobFits(j2, Len(tasks)) /\ job' = [job EXCEPT ![h] = j2]
                             /\ j2.task = 0 /\ j2.status = None /\ ~j2.posted /\ j2.todo = q
    BY BeginTyped
  <1>2. /\ Typed' /\ job[h] = Idle
        /\ UNCHANGED <<upload, bound, snap, tasks, stage, nodes, outbox, hurt, troubles>>
    BY BeginTyped DEF Begin, rows, parser, mishaps
  <1>3. q # << >> /\ q[1] # "parserCancel"
    OBVIOUS
  <1> QED BY <1>1, <1>2, <1>3 DEF Begins

LEMMA OneTaskBegins ==
  ASSUME Typed, NEW h \in Threads, NEW k \in Kbs, NEW type \in Types, NEW q \in Seq(Ops), OneTask(q),
         Begin(h, k, type, q, 1)
  PROVE  Typed' /\ Begins(h)
  <1>1. /\ q \in Seq(Ops) /\ Len(q) >= 1 /\ Ordered(q, 0) /\ \A p \in 1..Len(q) : q[p] \in Asking
        /\ q[1] \in {"bind", "mark", "enqueue"} /\ Places(q) = {1}
    BY AskFits
  <1>2. IsFiniteSet({1}) /\ Cardinality({1}) = 1
    BY FS_Singleton
  <1>3. IsFiniteSet(Places(q)) /\ Cardinality(Places(q)) <= 1 /\ 1 \in Nat
    BY <1>1, <1>2
  <1> QED BY <1>1, <1>3, AskingBegins

LEMMA CancelSeq ==
  /\ CancelOps \in Seq(Ops) /\ Len(CancelOps) = 2
  /\ CancelOps[1] = "parserCancel" /\ CancelOps[2] = "cancelRead"
  /\ CancelOps \o <<"purgeRel", "purgeSnap", "purgeSync">> \in Seq(Ops)
  <1>1. /\ CancelOps \in Seq(Ops) /\ Len(CancelOps) = 2
        /\ CancelOps[1] = "parserCancel" /\ CancelOps[2] = "cancelRead"
    BY DEF CancelOps, Ops
  <1>2. <<"purgeRel", "purgeSnap", "purgeSync">> \in Seq(Ops)
    BY DEF Ops
  <1> QED BY <1>1, <1>2, ConcatProperties

LEMMA CancelFits ==
  ASSUME NEW task \in Nat, task # 0, NEW q \in Seq(Ops),
         q = CancelOps \/ q = CancelOps \o <<"purgeRel", "purgeSnap", "purgeSync">>
  PROVE  /\ q \in Seq(Ops) /\ Len(q) >= 1 /\ q # << >> /\ q[1] = "parserCancel" /\ Ordered(q, task)
         /\ \A p \in 1..Len(q) : q[p] \in Canceling \cup Purging
         /\ Places(q) = {}
  <1>1. /\ CancelOps \in Seq(Ops) /\ Len(CancelOps) = 2
        /\ CancelOps[1] = "parserCancel" /\ CancelOps[2] = "cancelRead"
    BY CancelSeq
  <1>2. PICK t : t = <<"purgeRel", "purgeSnap", "purgeSync">>
    OBVIOUS
  <1>3. /\ t \in Seq(Ops) /\ Len(t) = 3 /\ \A i \in 1..3 : t[i] \in Purging
    BY <1>2 DEF Ops, Purging
  <1>4. /\ q \in Seq(Ops) /\ Len(q) >= 2 /\ q[1] = "parserCancel" /\ q[2] = "cancelRead"
        /\ \A p \in 1..Len(q) : p = 1 \/ p = 2 \/ q[p] \in Purging
    <2>1. CASE q = CancelOps
      <3>1. Len(q) = 2 /\ q[1] = "parserCancel" /\ q[2] = "cancelRead"
        BY <1>1, <2>1
      <3>2. \A p \in 1..Len(q) : p = 1 \/ p = 2
        BY <3>1
      <3> QED BY <3>1, <3>2
    <2>2. CASE q = CancelOps \o t
      <3>1. /\ q \in Seq(Ops) /\ Len(q) = 5
            /\ \A i \in 1..5 : q[i] = IF i <= 2 THEN CancelOps[i] ELSE t[i - 2]
        BY <1>1, <1>3, <2>2, ConcatProperties, SMTT(30)
      <3> QED BY <1>1, <1>3, <3>1
    <2> QED BY <1>2, <2>1, <2>2
  <1>5. \A p \in 1..Len(q) : q[p] \in Canceling \cup Purging
    BY <1>4 DEF Canceling
  <1>6. \A p \in 1..Len(q) : q[p] \notin {"submit", "enqueue", "failTask", "failSnap", "startTask",
                                         "startSnap", "finTask", "finSnap"}
    BY <1>5 DEF Canceling, Purging
  <1>7. /\ Pair(q, "failTask", "failSnap") /\ Pair(q, "startTask", "startSnap")
        /\ Pair(q, "finTask", "finSnap")
    BY <1>6 DEF Pair
  <1>8. Pair(q, "parserCancel", "cancelRead")
    BY <1>4 DEF Pair, Purging
  <1>9. Ordered(q, task)
    BY <1>5, <1>6, <1>7, <1>8 DEF Ordered
  <1>10. Places(q) = {}
    BY <1>4, <1>6, NoPlaces
  <1> QED BY <1>4, <1>5, <1>9, <1>10

LEMMA CancelBegins ==
  ASSUME Typed, NEW h \in Threads, NEW k \in Kbs, NEW type \in Types, NEW id \in 1..Len(tasks),
         NEW q \in Seq(Ops),
         q = CancelOps \/ q = CancelOps \o <<"purgeRel", "purgeSnap", "purgeSync">>,
         job[h] = Idle, job' = [job EXCEPT ![h] = RequestFor(k, type, id, q)],
         tasks[id].kb = k, tasks[id].type = type,
         UNCHANGED <<upload, bound, snap, tasks, stage, nodes, outbox, asked, hurt, troubles>>
  PROVE  Typed' /\ Begins(h)
  <1>1. /\ q \in Seq(Ops) /\ Len(q) >= 1 /\ q # << >> /\ q[1] = "parserCancel" /\ Ordered(q, id)
        /\ \A p \in 1..Len(q) : q[p] \in Canceling \cup Purging
        /\ Places(q) = {} /\ id \in 0..Len(tasks) /\ Len(tasks) \in Nat
    <2>1. id # 0 /\ id \in Nat /\ id \in 0..Len(tasks) /\ Len(tasks) \in Nat
      BY Shape
    <2> QED BY <2>1, CancelFits
  <1>2. PICK j2 : j2 = RequestFor(k, type, id, q)
    OBVIOUS
  <1>3. /\ j2 \in JobRec /\ JobFits(j2, Len(tasks)) /\ j2.kb = k /\ j2.type = type /\ j2.task = id
        /\ j2.status = None /\ ~j2.posted /\ j2.todo = q
    <2>1. \A p \in 1..Len(q) : q[p] \in Asking \cup Canceling \cup Purging
      BY <1>1
    <2> QED BY <1>1, <1>2, <2>1, RequestFits
  <1>4. job' = [job EXCEPT ![h] = j2]
    BY <1>2
  <1>5. JobsFit' /\ Drawn'
    BY <1>1, <1>3, <1>4, JobStep
  <1>6. Typed'
    BY <1>5, Frame DEF Typed
  <1>7. Begins(h)
    BY <1>1, <1>3, <1>4 DEF Begins
  <1> QED BY <1>6, <1>7

\* Snapshots and jobs name tasks of their own knowledge base.
Owned ==
  /\ \A k \in Kbs : snap[k] # NoSnap =>
       tasks[snap[k].task].kb = k /\ tasks[snap[k].task].type = snap[k].type
  /\ \A h \in Threads : job[h].task # 0 =>
       tasks[job[h].task].kb = job[h].kb /\ tasks[job[h].task].type = job[h].type

LEMMA RequestTyped ==
  ASSUME Typed, Owned, NEW h \in Threads, NEW k \in Kbs,
         Upload(h, k) \/ Reparse(h, k) \/ Delete(h, k) \/ PatchMetadata(h, k)
  PROVE  Typed' /\ Begins(h)
  <1>1. "ADD" \in Types /\ "REPARSE" \in Types /\ "META" \in Types /\ "DELETE" \in Types
    BY DEF Types
  <1>2. CASE Upload(h, k)
    BY <1>1, <1>2, TaskOps, OneTaskBegins DEF Upload
  <1>3. CASE Reparse(h, k)
    BY <1>1, <1>3, TaskOps, OneTaskBegins DEF Reparse
  <1>4. CASE PatchMetadata(h, k)
    <2>1. PICK q : q = [i \in 1..2 * Algos |-> Submission[IF i % 2 = 1 THEN 1 ELSE 2]]
      OBVIOUS
    <2>2. /\ q \in Seq(Ops) /\ Len(q) >= 1 /\ Ordered(q, 0) /\ \A p \in 1..Len(q) : q[p] \in Asking
          /\ q[1] \in {"bind", "mark", "enqueue"}
          /\ IsFiniteSet(Places(q)) /\ Cardinality(Places(q)) <= Algos
      BY <2>1, MetaFits
    <2>3. Begin(h, k, "META", q, Algos) /\ Algos \in Nat
      BY <1>4, <2>1, LifecycleAssumption DEF PatchMetadata
    <2> QED BY <1>1, <2>2, <2>3, AskingBegins
  <1>5. CASE Delete(h, k)
    <2>1. CASE snap[k].status = "WAITING" /\ snap[k].type = "ADD"
      <3>1. snap[k] # NoSnap
        BY <2>1 DEF NoSnap, None
      <3>2. PICK id \in 1..Len(tasks) : id = snap[k].task
        BY <3>1, SnapShape
      <3>3. /\ job[h] = Idle
            /\ job' = [job EXCEPT ![h] =
                 RequestFor(k, "ADD", id, CancelOps \o <<"purgeRel", "purgeSnap", "purgeSync">>)]
            /\ UNCHANGED <<upload, bound, snap, tasks, stage, nodes, outbox, asked, hurt, troubles>>
        BY <1>5, <2>1, <3>2 DEF Delete, RequestFor, rows, parser, mishaps
      <3>4. tasks[id].kb = k /\ tasks[id].type = "ADD"
        BY <2>1, <3>1, <3>2 DEF Owned
      <3> QED BY <1>1, <3>2, <3>3, <3>4, CancelBegins, CancelSeq
    <2>2. CASE ~(snap[k].status = "WAITING" /\ snap[k].type = "ADD")
      BY <1>1, <1>5, <2>2, TaskOps, OneTaskBegins DEF Delete
    <2> QED BY <2>1, <2>2
  <1> QED BY <1>2, <1>3, <1>4, <1>5

LEMMA CancelTaskTyped ==
  ASSUME Typed, NEW h \in Threads, NEW id \in Ids, CancelTask(h, id)
  PROVE  Typed' /\ Begins(h)
  <1>1. id \in 1..Len(tasks)
    BY Shape DEF CancelTask
  <1>2. tasks[id] \in TaskRec
    BY <1>1, Shape
  <1>3. tasks[id].kb \in Kbs /\ tasks[id].type \in Types
    BY <1>2 DEF TaskRec
  <1>4. /\ job[h] = Idle
        /\ job' = [job EXCEPT ![h] = RequestFor(tasks[id].kb, tasks[id].type, id, CancelOps)]
        /\ UNCHANGED <<upload, bound, snap, tasks, stage, nodes, outbox, asked, hurt, troubles>>
    BY DEF CancelTask, RequestFor, rows, parser, mishaps
  <1> QED BY <1>1, <1>3, <1>4, CancelSeq, CancelBegins

-----------------------------------------------------------------------------
(* Operations that neither touch a record or snapshot nor call the parsing *)
(* service: the job goes on, or is done.                                   *)

Paired == {"failTask", "failSnap", "startTask", "startSnap", "finTask", "finSnap"}
Plain == Ops \ (Paired \cup {"enqueue", "submit", "parserCancel", "cancelRead"})

Passive(j) ==
  /\ \A p \in 1..Len(j.todo) : j.todo[p] \notin Paired
  /\ j.todo # << >> => j.todo[1] \notin {"submit", "cancelRead"}

SameJob(j2, j) ==
  /\ j2.kb = j.kb /\ j2.type = j.type /\ j2.task = j.task
  /\ j2.status = j.status /\ j2.posted = j.posted

Moves(h) ==
  \E j2 \in JobRec :
    /\ Passive(job[h]) /\ Passive(j2) /\ JobFits(j2, Len(tasks))
    /\ j2 = Idle \/ SameJob(j2, job[h])
    /\ job' = [job EXCEPT ![h] = j2]
    /\ \A k \in Kbs : snap'[k] \in {snap[k], NoSnap}
    /\ UNCHANGED <<tasks, stage, nodes, outbox, hurt, troubles>>

LEMMA PlainPassive ==
  ASSUME NEW q \in Seq(Ops), NEW task, Ordered(q, task), Len(q) >= 1, q[1] \in Plain
  PROVE  /\ \A p \in 1..Len(q) : q[p] \notin Paired
         /\ Tail(q) # << >> => Tail(q)[1] \notin {"submit", "cancelRead"}
         /\ \A p \in 1..Len(Tail(q)) : Tail(q)[p] \notin Paired
  <1>1. q[1] \notin Paired /\ q[1] \notin {"enqueue", "submit", "parserCancel", "cancelRead"}
    BY DEF Plain
  <1>2. \A p \in 1..Len(q) : q[p] \notin Paired
    BY <1>1 DEF Ordered, Pair, Paired
  <1>3. PICK r : r = Tail(q)
    OBVIOUS
  <1>4. /\ r \in Seq(Ops) /\ Len(r) = Len(q) - 1 /\ Len(q) \in Nat
        /\ \A p \in 1..Len(r) : r[p] = q[p + 1] /\ p + 1 \in 1..Len(q)
    BY <1>3, TailShape
  <1>5. r # << >> => r[1] \notin {"submit", "cancelRead"}
    <2> SUFFICES ASSUME r # << >> PROVE r[1] \notin {"submit", "cancelRead"}
      OBVIOUS
    <2>1. r[1] = q[2] /\ 2 \in 1..Len(q)
      BY <1>4
    <2>2. q[2] # "submit"
      BY <1>1, <2>1 DEF Ordered
    <2>3. q[2] # "cancelRead"
      BY <1>1, <2>1 DEF Ordered, Pair
    <2> QED BY <2>1, <2>2, <2>3
  <1> QED BY <1>2, <1>3, <1>4, <1>5

LEMMA PlainTyped ==
  ASSUME Typed, NEW h \in Threads, job[h].todo # << >>, job[h].todo[1] \in Plain,
         NEW n \in Counts,
         \/ GoOn(h) \/ GoOnWith(h, [job[h] EXCEPT !.n = n], Tail(job[h].todo))
         \/ GoOnWith(h, Idle, << >>),
         upload' \in Statuses \cup {None}, bound' \subseteq Kbs,
         snap' = snap \/ (\E k \in Kbs : snap' = [snap EXCEPT ![k] = NoSnap]),
         UNCHANGED <<tasks, stage, nodes, outbox, asked, hurt, troubles>>
  PROVE  Typed' /\ Moves(h)
  <1>1. PICK j2 \in JobRec : /\ JobFits(j2, Len(tasks)) /\ (j2 = Idle \/ Follows(j2, job[h]))
                             /\ Places(j2.todo) \subseteq Places(job[h].todo)
                             /\ job' = [job EXCEPT ![h] = j2]
    <2>1. CASE GoOnWith(h, Idle, << >>)
      BY <2>1, IdleFits DEF GoOnWith
    <2>2. CASE GoOn(h) \/ GoOnWith(h, [job[h] EXCEPT !.n = n], Tail(job[h].todo))
      <3>1. job[h].todo[1] # "enqueue"
        BY DEF Plain
      <3> QED BY <2>2, <3>1, GoOnFits
    <2> QED BY <2>1, <2>2
  <1>2. JobsFit' /\ Drawn' /\ ParserFits' /\ HistoryFits'
    BY <1>1, JobStep, Frame
  <1>3. \A k \in Kbs : snap'[k] \in {snap[k], NoSnap}
    BY Shape
  <1>4. RowsFit'
    <2>1. snap' \in [Kbs -> SnapRec]
      BY Shape DEF SnapRec
    <2>2. ASSUME NEW k \in Kbs PROVE snap'[k].task <= Len(tasks')
      <3>1. NoSnap.task = 0
        BY DEF NoSnap
      <3> QED BY <1>3, <3>1, Shape DEF Typed, RowsFit
    <2> QED BY <2>1, <2>2, Shape DEF RowsFit
  <1>5. Passive(job[h]) /\ Passive(j2)
    <2>1. PICK q \in Seq(Ops) : q = job[h].todo /\ Len(q) >= 1 /\ Ordered(q, job[h].task)
      BY HeadIs
    <2>2. /\ \A p \in 1..Len(q) : q[p] \notin Paired
          /\ Tail(q) # << >> => Tail(q)[1] \notin {"submit", "cancelRead"}
          /\ \A p \in 1..Len(Tail(q)) : Tail(q)[p] \notin Paired
      BY <2>1, PlainPassive
    <2>3. Passive(job[h])
      BY <2>1, <2>2 DEF Passive, Plain
    <2>4. Passive(j2)
      <3>1. CASE j2 = Idle
        BY <3>1, IdleFits DEF Passive
      <3>2. CASE Follows(j2, job[h])
        BY <2>1, <2>2, <3>2 DEF Passive, Follows
      <3> QED BY <1>1, <3>1, <3>2
    <2> QED BY <2>3, <2>4
  <1>6. j2 = Idle \/ SameJob(j2, job[h])
    BY <1>1 DEF Follows, SameJob
  <1> QED BY <1>1, <1>2, <1>3, <1>4, <1>5, <1>6 DEF Typed, Moves

LEMMA UploadFits ==
  ASSUME Typed, NEW status, SetUpload(status), status \in Statuses
  PROVE  upload' \in Statuses \cup {None}
  BY DEF SetUpload, Typed, RowsFit

LEMMA DoesHead ==
  ASSUME Typed, NEW h \in Threads, NEW op, Does(h, op)
  PROVE  job[h].todo # << >> /\ job[h].todo[1] = op
  BY HeadIs DEF Does

LEMMA MovesTyped ==
  ASSUME Typed, NEW h \in Threads,
         \/ Bind(h) \/ Mark(h) \/ WriteDoc(h) \/ WriteDeletedDoc(h) \/ Count(h) \/ Unbind(h)
         \/ PurgeSnap(h) \/ PurgeSync(h)
  PROVE  Typed' /\ Moves(h)
  <1>1. /\ upload \in Statuses \cup {None} /\ bound \subseteq Kbs
        /\ Cardinality(bound) \in Counts /\ 0 \in Counts
    BY DEF Typed, RowsFit, Counts
  <1>2. {"SUCCESS", "DELETING", "FAILED", "WORKING", "DELETED"} \subseteq Statuses
          /\ Outcomes \subseteq Statuses
    BY DEF Statuses, Settled, Outcomes
  <1>3. {"bind", "mark", "failDoc", "startDoc", "finDoc", "afterDelete", "markDeleting", "count",
         "finUnbind", "purgeSnap", "purgeSync"} \subseteq Plain
    BY DEF Plain, Paired, Ops
  <1>4. UNCHANGED <<tasks, stage, nodes, outbox, asked, hurt, troubles>>
    BY DEF Bind, Mark, WriteDoc, WriteDeletedDoc, Count, Unbind, PurgeSnap, PurgeSync, parser,
       mishaps, rows
  <1>5. CASE Bind(h)
    <2>1. job[h].todo # << >> /\ job[h].todo[1] \in Plain /\ job[h].kb \in Kbs
      BY <1>3, <1>5, DoesHead, HeadIs DEF Bind
    <2>2. GoOn(h) /\ upload' \in Statuses /\ bound' \subseteq Kbs /\ snap' = snap
      BY <1>1, <1>2, <1>5, <2>1 DEF Bind
    <2> QED BY <1>1, <1>4, <2>1, <2>2, PlainTyped
  <1>6. CASE Mark(h)
    <2>1. job[h].todo # << >> /\ job[h].todo[1] \in Plain
      BY <1>3, <1>6, DoesHead DEF Mark
    <2>2. upload' \in Statuses \cup {None}
      BY <1>1, <1>2, <1>6, UploadFits DEF Mark
    <2>3. (GoOn(h) \/ GoOnWith(h, Idle, << >>)) /\ bound' = bound /\ snap' = snap
      BY <1>6 DEF Mark
    <2> QED BY <1>1, <1>4, <2>1, <2>2, <2>3, PlainTyped
  <1>7. CASE WriteDoc(h)
    <2>1. job[h].todo # << >> /\ job[h].todo[1] \in Plain
      BY <1>3, <1>7, DoesHead DEF WriteDoc
    <2>2. upload' \in Statuses \cup {None}
      <3>1. CASE Does(h, "finDoc") /\ SetUpload(job[h].status)
        <4>1. Told(job[h]) /\ job[h].todo[1] = "finDoc" /\ 1 \in 1..Len(job[h].todo)
          BY <3>1, <2>1, DoesHead, HeadIs
        <4>2. job[h].status \in Outcomes
          BY <4>1 DEF Told, Ending
        <4> QED BY <1>2, <3>1, <4>2, UploadFits
      <3>2. CASE SetUpload("FAILED") \/ SetUpload("WORKING")
        BY <1>2, <3>2, UploadFits
      <3> QED BY <1>7, <3>1, <3>2 DEF WriteDoc
    <2>3. GoOn(h) /\ bound' = bound /\ snap' = snap
      BY <1>7 DEF WriteDoc
    <2> QED BY <1>1, <1>4, <2>1, <2>2, <2>3, PlainTyped
  <1>8. CASE WriteDeletedDoc(h)
    <2>1. job[h].todo # << >> /\ job[h].todo[1] \in Plain
      BY <1>3, <1>8, DoesHead DEF WriteDeletedDoc
    <2>2. upload' \in Statuses \cup {None}
      <3>1. AfterDelete(job[h].n) \in Statuses
        BY <1>2 DEF AfterDelete
      <3> QED BY <1>1, <1>2, <1>8, <3>1, UploadFits DEF WriteDeletedDoc
    <2>3. GoOn(h) /\ bound' = bound /\ snap' = snap
      BY <1>8 DEF WriteDeletedDoc
    <2> QED BY <1>1, <1>4, <2>1, <2>2, <2>3, PlainTyped
  <1>9. CASE Count(h)
    <2>1. job[h].todo # << >> /\ job[h].todo[1] \in Plain
      BY <1>3, <1>9, DoesHead DEF Count
    <2>2. /\ GoOnWith(h, [job[h] EXCEPT !.n = Cardinality(bound)], Tail(job[h].todo))
          /\ upload' = upload /\ bound' = bound /\ snap' = snap
      BY <1>9 DEF Count, rows
    <2> QED BY <1>1, <1>4, <2>1, <2>2, PlainTyped
  <1>10. CASE Unbind(h)
    <2>1. job[h].todo # << >> /\ job[h].todo[1] \in Plain
      BY <1>3, <1>10, DoesHead DEF Unbind
    <2>2. GoOn(h) /\ upload' = upload /\ bound' \subseteq Kbs /\ snap' = snap
      BY <1>1, <1>10 DEF Unbind
    <2> QED BY <1>1, <1>4, <2>1, <2>2, PlainTyped
  <1>11. CASE PurgeSnap(h)
    <2>1. job[h].todo # << >> /\ job[h].todo[1] \in Plain /\ job[h].kb \in Kbs
      BY <1>3, <1>11, DoesHead, HeadIs DEF PurgeSnap
    <2>2. GoOn(h) /\ upload' = upload /\ bound' = bound
            /\ \E k \in Kbs : snap' = [snap EXCEPT ![k] = NoSnap]
      BY <1>11, <2>1 DEF PurgeSnap
    <2> QED BY <1>1, <1>4, <2>1, <2>2, PlainTyped
  <1>12. CASE PurgeSync(h)
    <2>1. job[h].todo # << >> /\ job[h].todo[1] \in Plain
      BY <1>3, <1>12, DoesHead DEF PurgeSync
    <2>2. upload' \in Statuses \cup {None}
      <3>1. AfterDelete(Cardinality(bound)) \in Statuses
        BY <1>2 DEF AfterDelete
      <3> QED BY <1>12, <3>1, UploadFits DEF PurgeSync
    <2>3. GoOn(h) /\ bound' = bound /\ snap' = snap
      BY <1>12 DEF PurgeSync
    <2> QED BY <1>1, <1>4, <2>1, <2>2, <2>3, PlainTyped
  <1> QED BY <1>5, <1>6, <1>7, <1>8, <1>9, <1>10, <1>11, <1>12

LEMMA PurgeRelTyped ==
  ASSUME Typed, NEW h \in Threads, PurgeRel(h)
  PROVE  Typed' /\ Moves(h)
  <1>1. /\ job[h].todo # << >> /\ job[h].todo[1] = "purgeRel" /\ job[h].todo[1] \in Plain
        /\ job[h].kb \in Kbs
    BY DoesHead, HeadIs DEF PurgeRel, Plain, Paired, Ops
  <1>2. /\ UNCHANGED <<tasks, stage, nodes, outbox, asked, hurt, troubles, snap>>
        /\ upload' \in Statuses \cup {None} /\ bound' \subseteq Kbs
    BY DEF PurgeRel, parser, mishaps, Typed, RowsFit
  <1>3. CASE GoOnWith(h, job[h], Tail(job[h].todo))
    <2>1. GoOn(h) /\ 0 \in Counts
      BY <1>3 DEF GoOn, Counts
    <2> QED BY <1>1, <1>2, <2>1, PlainTyped
  <1>4. CASE GoOnWith(h, job[h], <<"purgeSnap">>)
    <2>1. PICK j \in JobRec : /\ j = job[h] /\ JobFits(j, Len(tasks)) /\ Len(tasks) \in Nat
                              /\ j.kb \in Kbs /\ j.type \in Types /\ j.task \in 0..Len(tasks)
                              /\ j.task # 0 /\ Told(j) /\ Ordered(j.todo, j.task)
                              /\ j.todo \in Seq(Ops) /\ Len(j.todo) >= 1
      BY <1>1, HeadIs
    <2>2. PICK q : q = <<"purgeSnap">>
      OBVIOUS
    <2>3. /\ q \in Seq(Ops) /\ Len(q) = 1 /\ q # << >> /\ q[1] = "purgeSnap"
          /\ \A p \in 1..Len(q) : q[p] = "purgeSnap"
      BY <2>2 DEF Ops
    <2>4. PICK j2 : j2 = [j EXCEPT !.todo = q]
      OBVIOUS
    <2>5. j2 \in JobRec /\ SameJob(j2, j) /\ j2.todo = q
      BY <2>3, <2>4 DEF JobRec, SameJob
    <2>6. Ordered(q, j.task)
      BY <2>1, <2>3 DEF Ordered, Pair, Canceling
    <2>7. ~j.posted
      <3>1. 1 \in 1..Len(j.todo) /\ j.todo[1] \in Purging
        BY <1>1, <2>1 DEF Purging
      <3> QED BY <2>1, <3>1 DEF Told
    <2>8. Told(j2)
      BY <2>3, <2>5, <2>7 DEF Told, SameJob, Asking, Failing, Starting, Ending, Canceling
    <2>9. JobFits(j2, Len(tasks))
      BY <2>1, <2>3, <2>5, <2>6, <2>8 DEF JobFits, SameJob
    <2>10. Places(j2.todo) = {}
      BY <2>3, <2>5, NoPlaces
    <2>11. job' = [job EXCEPT ![h] = j2]
      BY <1>4, <2>1, <2>2, <2>3, <2>4 DEF GoOnWith
    <2>12. JobsFit' /\ Drawn' /\ ParserFits' /\ HistoryFits'
      BY <1>2, <2>5, <2>9, <2>10, <2>11, JobStep, Frame
    <2>13. RowsFit'
      BY <1>2 DEF Typed, RowsFit
    <2>14. Passive(j2)
      BY <2>3, <2>5 DEF Passive, Paired
    <2>15. Passive(job[h])
      BY <1>1, <2>1, PlainPassive DEF Passive, Plain
    <2> QED BY <1>2, <2>1, <2>5, <2>9, <2>11, <2>12, <2>13, <2>14, <2>15 DEF Typed, Moves
  <1> QED BY <1>3, <1>4 DEF PurgeRel

-----------------------------------------------------------------------------
(* Operations on records and snapshots, and calls of the parsing service.  *)

Followers == Plain \ {"bind", "mark"}

\* The list of a callback, or of a failed submission: record, snapshot, and the rest.
Writer(q, first, second, rest) ==
  /\ Len(q) >= 2 /\ q[1] = first /\ q[2] = second
  /\ \A p \in 1..Len(q) : p = 1 \/ p = 2 \/ q[p] \in rest

LEMMA WriterOrdered ==
  ASSUME NEW q \in Seq(Ops), NEW a, NEW b, NEW rest,
         \/ a = "failTask" /\ b = "failSnap"
         \/ a = "startTask" /\ b = "startSnap"
         \/ a = "finTask" /\ b = "finSnap",
         rest \subseteq Followers, Writer(q, a, b, rest), NEW task, task # 0
  PROVE  Ordered(q, task) /\ Places(q) = {} /\ Len(q) >= 1 /\ q # << >>
  <1>1. /\ Len(q) >= 2 /\ q[1] = a /\ q[2] = b /\ Len(q) \in Nat
        /\ \A p \in 1..Len(q) : p = 1 \/ p = 2 \/ q[p] \in Followers
    BY DEF Writer
  <1>2. \A p \in 1..Len(q) : q[p] \notin {"submit", "enqueue", "parserCancel", "cancelRead"}
    <2> SUFFICES ASSUME NEW p \in 1..Len(q)
                 PROVE  q[p] \notin {"submit", "enqueue", "parserCancel", "cancelRead"}
      OBVIOUS
    <2>1. CASE p = 1 \/ p = 2
      BY <1>1, <2>1
    <2>2. CASE q[p] \in Followers
      BY <2>2 DEF Followers, Plain
    <2> QED BY <1>1, <2>1, <2>2
  <1>3. \A p \in 1..Len(q) : p = 1 \/ p = 2 \/ q[p] \notin Paired
    BY <1>1 DEF Followers, Plain
  <1>4. ASSUME NEW c, NEW d, \/ c = "failTask" /\ d = "failSnap"
                             \/ c = "startTask" /\ d = "startSnap"
                             \/ c = "finTask" /\ d = "finSnap"
        PROVE  Pair(q, c, d)
    BY <1>1, <1>3, <1>4 DEF Pair, Paired
  <1>5. Pair(q, "parserCancel", "cancelRead")
    BY <1>2 DEF Pair
  <1>6. Ordered(q, task)
    BY <1>2, <1>4, <1>5 DEF Ordered, Canceling
  <1>7. Places(q) = {}
    BY <1>2, NoPlaces
  <1> QED BY <1>1, <1>6, <1>7

LEMMA WriterConcat ==
  ASSUME NEW a \in Ops, NEW b \in Ops, NEW r \in Seq(Ops), NEW rest,
         \A p \in 1..Len(r) : r[p] \in rest, NEW q, q = <<a, b>> \o r
  PROVE  q \in Seq(Ops) /\ Writer(q, a, b, rest)
  <1>1. PICK s : s = <<a, b>>
    OBVIOUS
  <1>2. s \in Seq(Ops) /\ Len(s) = 2 /\ s[1] = a /\ s[2] = b
    BY <1>1
  <1>3. /\ q \in Seq(Ops) /\ Len(q) = 2 + Len(r) /\ Len(r) \in Nat
        /\ \A i \in 1..2 + Len(r) : q[i] = IF i <= 2 THEN s[i] ELSE r[i - 2]
    BY <1>1, <1>2, ConcatProperties
  <1>4. q[1] = a /\ q[2] = b
    BY <1>2, <1>3
  <1>5. ASSUME NEW p \in 1..Len(q), p # 1, p # 2 PROVE q[p] \in rest
    BY <1>3, <1>5
  <1> QED BY <1>3, <1>4, <1>5 DEF Writer

FailRest == {"failDoc", "count", "afterDelete"}
StartRest == {"startDoc", "count", "markDeleting"}
FinishRest == {"finDoc", "finUnbind", "count", "afterDelete"}

LEMMA Rests ==
  /\ FailRest \subseteq Followers /\ StartRest \subseteq Followers
  /\ FinishRest \cup Purging \subseteq Followers
  BY DEF FailRest, StartRest, FinishRest, Purging, Followers, Plain, Paired, Ops

LEMMA ShortLists ==
  /\ << >> \in Seq(Ops) /\ \A S : \A p \in 1..Len(<< >>) : << >>[p] \in S
  /\ \A a \in Ops : <<a>> \in Seq(Ops) /\ \A p \in 1..Len(<<a>>) : <<a>>[p] = a
  /\ \A a, b \in Ops : <<a, b>> \in Seq(Ops) /\ \A p \in 1..Len(<<a, b>>) : <<a, b>>[p] \in {a, b}
  /\ \A a, b, c \in Ops : <<a, b, c>> \in Seq(Ops)
                          /\ \A p \in 1..Len(<<a, b, c>>) : <<a, b, c>>[p] \in {a, b, c}
  OBVIOUS

LEMMA FailList ==
  ASSUME NEW type, NEW q, q = FailOps(type)
  PROVE  q \in Seq(Ops) /\ Writer(q, "failTask", "failSnap", FailRest)
  <1>1. /\ "failTask" \in Ops /\ "failSnap" \in Ops /\ "failDoc" \in Ops /\ "count" \in Ops
        /\ "afterDelete" \in Ops
    BY DEF Ops
  <1>2. PICK r : /\ q = <<"failTask", "failSnap">> \o r
                 /\ r = <<"failDoc">> \/ r = <<"count", "afterDelete">> \/ r = << >>
    BY DEF FailOps
  <1>3. r \in Seq(Ops) /\ \A p \in 1..Len(r) : r[p] \in FailRest
    <2>1. CASE r = <<"failDoc">>
      BY <1>1, <2>1, ShortLists DEF FailRest
    <2>2. CASE r = <<"count", "afterDelete">>
      BY <1>1, <2>2, ShortLists DEF FailRest
    <2>3. CASE r = << >>
      BY <2>3, ShortLists
    <2> QED BY <1>2, <2>1, <2>2, <2>3
  <1> QED BY <1>1, <1>2, <1>3, WriterConcat

LEMMA StartList ==
  ASSUME NEW type, NEW q, q = StartOps(type)
  PROVE  q \in Seq(Ops) /\ Writer(q, "startTask", "startSnap", StartRest)
  <1>1. /\ "startTask" \in Ops /\ "startSnap" \in Ops /\ "startDoc" \in Ops /\ "count" \in Ops
        /\ "markDeleting" \in Ops
    BY DEF Ops
  <1>2. PICK r : /\ q = <<"startTask", "startSnap">> \o r
                 /\ r = <<"startDoc">> \/ r = <<"count", "markDeleting">> \/ r = << >>
    BY DEF StartOps
  <1>3. r \in Seq(Ops) /\ \A p \in 1..Len(r) : r[p] \in StartRest
    <2>1. CASE r = <<"startDoc">>
      BY <1>1, <2>1, ShortLists DEF StartRest
    <2>2. CASE r = <<"count", "markDeleting">>
      BY <1>1, <2>2, ShortLists DEF StartRest
    <2>3. CASE r = << >>
      BY <2>3, ShortLists
    <2> QED BY <1>2, <2>1, <2>2, <2>3
  <1> QED BY <1>1, <1>2, <1>3, WriterConcat

LEMMA FinishList ==
  ASSUME NEW type, NEW status, NEW q, q = FinishOps(type, status)
  PROVE  q \in Seq(Ops) /\ Writer(q, "finTask", "finSnap", FinishRest)
  <1>1. /\ "finTask" \in Ops /\ "finSnap" \in Ops /\ "finDoc" \in Ops /\ "finUnbind" \in Ops
        /\ "count" \in Ops /\ "afterDelete" \in Ops
    BY DEF Ops
  <1>2. PICK r : /\ q = <<"finTask", "finSnap">> \o r
                 /\ \/ r = <<"finDoc">> \/ r = <<"finUnbind", "count", "afterDelete">>
                    \/ r = <<"count", "afterDelete">> \/ r = << >>
    <2>1. CASE type = "ADD"
      BY <2>1 DEF FinishOps
    <2>2. CASE type = "DELETE" /\ status = "SUCCESS"
      BY <2>2 DEF FinishOps
    <2>3. CASE type = "DELETE" /\ status # "SUCCESS"
      BY <2>3 DEF FinishOps
    <2>4. CASE type \notin {"ADD", "DELETE"}
      BY <2>4 DEF FinishOps
    <2> QED BY <2>1, <2>2, <2>3, <2>4
  <1>3. r \in Seq(Ops) /\ \A p \in 1..Len(r) : r[p] \in FinishRest
    <2>1. CASE r = <<"finDoc">>
      BY <1>1, <2>1, ShortLists DEF FinishRest
    <2>2. CASE r = <<"finUnbind", "count", "afterDelete">>
      BY <1>1, <2>2, ShortLists DEF FinishRest
    <2>3. CASE r = <<"count", "afterDelete">>
      BY <1>1, <2>3, ShortLists DEF FinishRest
    <2>4. CASE r = << >>
      BY <2>4, ShortLists
    <2> QED BY <1>2, <2>1, <2>2, <2>3, <2>4
  <1> QED BY <1>1, <1>2, <1>3, WriterConcat

\* A finished list, followed by what cancel_task's caller has still to do.
LEMMA FinishTail ==
  ASSUME NEW s \in Seq(Ops), Writer(s, "finTask", "finSnap", FinishRest), NEW r \in Seq(Ops),
         \A p \in 1..Len(r) : r[p] \in Purging
  PROVE  s \o r \in Seq(Ops) /\ Writer(s \o r, "finTask", "finSnap", FinishRest \cup Purging)
  <1>1. PICK q : q = s \o r
    OBVIOUS
  <1>2. /\ Len(s) >= 2 /\ s[1] = "finTask" /\ s[2] = "finSnap" /\ Len(s) \in Nat /\ Len(r) \in Nat
        /\ \A p \in 1..Len(s) : p = 1 \/ p = 2 \/ s[p] \in FinishRest
    BY DEF Writer
  <1>3. /\ q \in Seq(Ops) /\ Len(q) = Len(s) + Len(r)
        /\ \A i \in 1..Len(s) + Len(r) : q[i] = IF i <= Len(s) THEN s[i] ELSE r[i - Len(s)]
    BY <1>1, ConcatProperties
  <1>4. q[1] = "finTask" /\ q[2] = "finSnap" /\ Len(q) >= 2
    BY <1>2, <1>3
  <1>5. ASSUME NEW p \in 1..Len(q), p # 1, p # 2 PROVE q[p] \in FinishRest \cup Purging
    <2>1. CASE p <= Len(s)
      BY <1>2, <1>3, <1>5, <2>1
    <2>2. CASE p > Len(s)
      <3>1. p - Len(s) \in 1..Len(r) /\ q[p] = r[p - Len(s)]
        BY <1>2, <1>3, <2>2
      <3> QED BY <3>1
    <2> QED BY <1>2, <1>3, <2>1, <2>2
  <1> QED BY <1>1, <1>3, <1>4, <1>5 DEF Writer

-----------------------------------------------------------------------------
\* A job that takes up another list, of records and snapshots to write.
LEMMA NewListFits ==
  ASSUME NEW len \in Nat, NEW j \in JobRec, JobFits(j, len), j.todo # << >>, j.task # 0,
         NEW q \in Seq(Ops), NEW a, NEW b, NEW rest,
         \/ a = "failTask" /\ b = "failSnap" /\ j.status = None /\ rest = FailRest
         \/ a = "finTask" /\ b = "finSnap" /\ j.status = "CANCELED" /\ rest = FinishRest \cup Purging,
         ~j.posted, Writer(q, a, b, rest), NEW j2, j2 = [j EXCEPT !.todo = q]
  PROVE  /\ j2 \in JobRec /\ JobFits(j2, len) /\ SameJob(j2, j) /\ j2.todo = q /\ Places(j2.todo) = {}
         /\ q # << >>
  <1>1. j2 \in JobRec /\ SameJob(j2, j) /\ j2.todo = q
    BY DEF JobRec, SameJob
  <1>2. Ordered(q, j.task) /\ Places(q) = {} /\ Len(q) >= 1 /\ q # << >>
    BY WriterOrdered, Rests
  <1>3. \A p \in 1..Len(q) : q[p] \in {a, b} \/ q[p] \in rest
    BY DEF Writer
  <1>4. Told(j2)
    <2>1. CASE a = "failTask"
      <3>1. \A p \in 1..Len(q) : q[p] \in {"failTask", "failSnap", "failDoc", "count", "afterDelete"}
        BY <1>3, <2>1 DEF FailRest
      <3>2. j2.status = None /\ j2.posted = FALSE /\ j2.todo = q
        BY <1>1, <2>1 DEF SameJob, JobRec
      <3> QED BY <3>1, <3>2 DEF Told, Starting, Ending, Purging
    <2>2. CASE a = "finTask"
      <3>1. \A p \in 1..Len(q) : q[p] \in {"finTask", "finSnap", "finDoc", "finUnbind", "count",
                                          "afterDelete"} \cup Purging
        BY <1>3, <2>2 DEF FinishRest
      <3>2. j2.status = "CANCELED" /\ j2.posted = FALSE /\ j2.todo = q
        BY <1>1, <2>2 DEF SameJob, JobRec
      <3> QED BY <3>1, <3>2 DEF Told, Starting, Asking, Failing, Canceling, Purging, Outcomes
    <2> QED BY <2>1, <2>2
  <1>5. j.kb \in Kbs /\ j.type \in Types /\ j.task \in 0..len
    BY BusyFits
  <1> QED BY <1>1, <1>2, <1>4, <1>5 DEF JobFits, SameJob

\* An operation on the store that leaves the number of tasks alone.
LEMMA StoreTyped ==
  ASSUME Typed, NEW h \in Threads, NEW j2 \in JobRec, JobFits(j2, Len(tasks)),
         Places(j2.todo) \subseteq Places(job[h].todo), job' = [job EXCEPT ![h] = j2],
         upload' = upload, bound' = bound, asked' = asked,
         snap' \in [Kbs -> SnapRec], \A k \in Kbs : snap'[k].task <= Len(tasks),
         tasks' \in Seq(TaskRec), Len(tasks') = Len(tasks), ParserFits', HistoryFits'
  PROVE  Typed'
  <1>1. JobsFit' /\ Drawn'
    BY JobStep
  <1>2. RowsFit'
    BY DEF Typed, RowsFit
  <1> QED BY <1>1, <1>2 DEF Typed

LEMMA SetTaskFits ==
  ASSUME Typed, NEW id \in 1..Len(tasks), NEW status \in Statuses, SetTask(id, status)
  PROVE  /\ tasks' \in Seq(TaskRec) /\ Len(tasks') = Len(tasks) /\ tasks'[id].status = status
         /\ \A i \in 1..Len(tasks) : /\ i # id => tasks'[i] = tasks[i]
                                     /\ tasks'[i].kb = tasks[i].kb /\ tasks'[i].type = tasks[i].type
  <1> DEFINE r == [tasks[id] EXCEPT !.status = status]
  <1>1. tasks[id] \in TaskRec /\ tasks \in Seq(TaskRec)
    BY Shape
  <1>2. r \in TaskRec /\ r.status = status /\ r.kb = tasks[id].kb /\ r.type = tasks[id].type
    BY <1>1 DEF TaskRec
  <1>3. tasks' = [tasks EXCEPT ![id] = r]
    BY DEF SetTask
  <1> HIDE DEF r
  <1>4. /\ tasks' \in Seq(TaskRec) /\ Len(tasks') = Len(tasks) /\ tasks'[id] = r
        /\ \A i \in 1..Len(tasks) : i # id => tasks'[i] = tasks[i]
    BY <1>1, <1>2, <1>3, ExceptSeq
  <1> QED BY <1>2, <1>4

LEMMA SetSnapFits ==
  ASSUME Typed, NEW k \in Kbs, NEW status \in Statuses, NEW id \in 1..MaxTasks, NEW type \in Types,
         NEW len \in Nat, Len(tasks) <= len, id <= len, SetSnap(k, status, id, type)
  PROVE  /\ snap' \in [Kbs -> SnapRec] /\ \A m \in Kbs : snap'[m].task <= len
         /\ snap'[k].status = status /\ snap'[k].task = id /\ snap'[k].type = type /\ snap'[k] # NoSnap
         /\ \A m \in Kbs : m # k => snap'[m] = snap[m]
  <1>1. PICK r : r = [status |-> status, task |-> id, type |-> type]
    OBVIOUS
  <1>2. r \in SnapRec /\ r.task = id /\ r.status = status /\ r.type = type /\ r # NoSnap
    BY <1>1 DEF SnapRec, Ids, NoSnap
  <1>3. snap \in [Kbs -> SnapRec] /\ snap' = [snap EXCEPT ![k] = r]
    BY <1>1, Shape DEF SetSnap
  <1>4. snap' \in [Kbs -> SnapRec] /\ snap'[k] = r /\ \A m \in Kbs : m # k => snap'[m] = snap[m]
    BY <1>2, <1>3
  <1>5. ASSUME NEW m \in Kbs PROVE snap'[m].task <= len
    <2>1. CASE m = k
      BY <1>2, <1>4, <2>1
    <2>2. CASE m # k
      <3>1. snap[m] \in SnapRec /\ snap[m].task <= Len(tasks)
        BY DEF Typed, RowsFit
      <3>2. snap[m].task \in Nat
        BY <3>1, LifecycleAssumption DEF SnapRec, Ids, NoSnap
      <3> QED BY <1>4, <2>2, <3>1, <3>2, Shape
    <2> QED BY <2>1, <2>2
  <1> QED BY <1>2, <1>4, <1>5

\* What follows of a record or snapshot that a job writes.
LEMMA WriteTyped ==
  ASSUME Typed, NEW h \in Threads, WriteTask(h) \/ WriteSnap(h)
  PROVE  /\ Typed'
         /\ \E j2 \in JobRec : /\ Follows(j2, job[h]) /\ JobFits(j2, Len(tasks))
                               /\ job' = [job EXCEPT ![h] = j2]
         /\ UNCHANGED <<upload, bound, stage, nodes, outbox, asked, hurt, troubles>>
         /\ job[h].todo # << >>
  <1>1. /\ GoOn(h) /\ UNCHANGED <<upload, bound, stage, nodes, outbox, asked, hurt, troubles>>
        /\ 0 \in Counts
    BY DEF WriteTask, WriteSnap, parser, mishaps, Counts
  <1>2. /\ job[h].todo # << >> /\ job[h].todo[1] \in Paired
        /\ WriteTask(h) => job[h].todo[1] \in {"failTask", "startTask", "finTask"}
        /\ WriteSnap(h) => job[h].todo[1] \in {"failSnap", "startSnap", "finSnap"}
    BY DoesHead DEF WriteTask, WriteSnap, Paired
  <1>3. PICK j2 \in JobRec : /\ JobFits(j2, Len(tasks)) /\ Follows(j2, job[h])
                             /\ Places(j2.todo) \subseteq Places(job[h].todo)
                             /\ job' = [job EXCEPT ![h] = j2]
    BY <1>1, <1>2, GoOnFits DEF Paired
  <1>4. /\ job[h].kb \in Kbs /\ job[h].type \in Types /\ job[h].task \in 0..Len(tasks) /\ Told(job[h])
        /\ job[h].task # 0 /\ Len(job[h].todo) >= 1 /\ Len(job[h].todo) \in Nat
    BY <1>2, HeadIs DEF Paired
  <1>5. job[h].task \in 1..Len(tasks) /\ job[h].task \in 1..MaxTasks /\ Len(tasks) \in Nat
    BY <1>4, Shape
  <1>6. {"FAILED", "WORKING", "DELETED", "DELETING"} \subseteq Statuses /\ Outcomes \subseteq Statuses
    BY DEF Statuses, Settled, Outcomes
  <1>7. job[h].todo[1] \in {"finTask", "finSnap"} => job[h].status \in Statuses
    <2>1. 1 \in 1..Len(job[h].todo)
      BY <1>4
    <2> QED BY <1>4, <1>6, <2>1 DEF Told, Ending
  <1>8. CASE WriteTask(h)
    <2>1. \E status \in Statuses : SetTask(job[h].task, status)
      <3>1. CASE Does(h, "finTask")
        BY <1>6, <1>7, <1>8, <3>1, DoesHead DEF WriteTask
      <3>2. CASE ~Does(h, "finTask")
        BY <1>6, <1>8, <3>2 DEF WriteTask
      <3> QED BY <3>1, <3>2
    <2>2. tasks' \in Seq(TaskRec) /\ Len(tasks') = Len(tasks)
      BY <1>5, <2>1, SetTaskFits
    <2>3. snap' \in [Kbs -> SnapRec] /\ \A k \in Kbs : snap'[k].task <= Len(tasks)
      BY <1>8 DEF WriteTask, Typed, RowsFit
    <2>4. ParserFits' /\ HistoryFits'
      BY <1>1, <2>2, Frame
    <2>5. Typed'
      BY <1>1, <1>3, <2>2, <2>3, <2>4, StoreTyped
    <2> QED BY <1>1, <1>2, <1>3, <2>5
  <1>9. CASE WriteSnap(h)
    <2>1. \E status \in Statuses : SetSnap(job[h].kb, status, job[h].task, job[h].type)
      <3>1. CASE Does(h, "finSnap")
        BY <1>6, <1>7, <1>9, <3>1, DoesHead DEF WriteSnap
      <3>2. CASE ~Does(h, "finSnap")
        BY <1>6, <1>9, <3>2 DEF WriteSnap
      <3> QED BY <3>1, <3>2
    <2>2. job[h].task <= Len(tasks) /\ Len(tasks) <= Len(tasks)
      BY <1>5
    <2>3. snap' \in [Kbs -> SnapRec] /\ \A k \in Kbs : snap'[k].task <= Len(tasks)
      BY <1>4, <1>5, <2>1, <2>2, SetSnapFits
    <2>4. tasks' \in Seq(TaskRec) /\ Len(tasks') = Len(tasks)
      BY <1>9, Shape DEF WriteSnap
    <2>5. ParserFits' /\ HistoryFits'
      BY <1>1, <2>4, Frame
    <2>6. Typed'
      BY <1>1, <1>3, <2>3, <2>4, <2>5, StoreTyped
    <2> QED BY <1>1, <1>2, <1>3, <2>6
  <1> QED BY <1>8, <1>9

LEMMA JobFitsMore ==
  ASSUME NEW m \in Nat, NEW n \in Nat, m <= n, NEW j \in JobRec, JobFits(j, m)
  PROVE  JobFits(j, n)
  BY DEF JobFits

\* The task of an operation that enqueues one is the next.
LEMMA EnqueueTyped ==
  ASSUME Typed, NEW h \in Threads, Enqueue(h)
  PROVE  /\ Typed'
         /\ \E j2 \in JobRec, status \in {"DELETING", "WAITING"} :
              /\ job' = [job EXCEPT ![h] = j2] /\ JobFits(j2, Len(tasks) + 1)
              /\ j2.kb = job[h].kb /\ j2.type = job[h].type /\ j2.task = Len(tasks) + 1
              /\ j2.status = None /\ ~j2.posted /\ j2.todo = Tail(job[h].todo) /\ j2.todo[1] = "submit"
              /\ tasks' = Append(tasks, [type |-> job[h].type, kb |-> job[h].kb, status |-> status])
              /\ SetSnap(job[h].kb, status, Len(tasks) + 1, job[h].type)
         /\ UNCHANGED <<upload, bound, stage, nodes, outbox, asked, hurt, troubles>>
         /\ job[h].todo # << >> /\ job[h].todo[1] = "enqueue" /\ Len(tasks) + 1 \in 1..MaxTasks
  <1>1. PICK j \in JobRec, id \in Nat :
          /\ j = job[h] /\ id = Len(tasks) + 1
          /\ JobFits(j, Len(tasks)) /\ Len(tasks) \in Nat /\ id # 0
          /\ j.todo # << >> /\ j.todo \in Seq(Ops) /\ j.todo[1] = "enqueue" /\ Len(j.todo) \in Nat
          /\ Len(j.todo) >= 1 /\ j.kb \in Kbs /\ j.type \in Types /\ Ordered(j.todo, j.task) /\ Told(j)
    <2>1. job[h].todo # << >> /\ job[h].todo[1] = "enqueue"
      BY DoesHead DEF Enqueue
    <2>2. Len(tasks) \in Nat /\ Len(tasks) + 1 \in Nat /\ Len(tasks) + 1 # 0
      BY Shape
    <2> QED BY <2>1, <2>2, HeadIs
  <1>2. PICK status \in {"DELETING", "WAITING"} :
          /\ tasks' = Append(tasks, [type |-> j.type, kb |-> j.kb, status |-> status])
          /\ SetSnap(j.kb, status, id, j.type)
          /\ GoOnWith(h, [j EXCEPT !.task = id], Tail(j.todo))
          /\ UNCHANGED <<upload, bound, stage, nodes, outbox, asked, hurt, troubles>>
    BY <1>1 DEF Enqueue, parser, mishaps
  <1>3. PICK r : r = Tail(j.todo)
    OBVIOUS
  <1>4. /\ r \in Seq(Ops) /\ Len(r) = Len(j.todo) - 1 /\ r # << >> /\ r[1] = "submit" /\ Len(r) >= 1
        /\ \A p \in 1..Len(r) : r[p] = j.todo[p + 1] /\ p + 1 \in 1..Len(j.todo)
    <2>1. Len(j.todo) > 1 /\ j.todo[2] = "submit"
      BY <1>1 DEF Ordered
    <2>2. /\ r \in Seq(Ops) /\ Len(r) = Len(j.todo) - 1
          /\ \A p \in 1..Len(r) : r[p] = j.todo[p + 1] /\ p + 1 \in 1..Len(j.todo)
      BY <1>1, <1>3, TailShape
    <2> QED BY <1>1, <2>1, <2>2
  <1>5. PICK j2 : j2 = [[j EXCEPT !.task = id] EXCEPT !.todo = r]
    OBVIOUS
  <1>6. j.status = None /\ j.posted = FALSE
    <2>1. 1 \in 1..Len(j.todo)
      BY <1>1
    <2> QED BY <1>1, <2>1 DEF Told, Asking, JobRec
  <1>7. /\ j2 \in JobRec /\ j2.kb = j.kb /\ j2.type = j.type /\ j2.task = id /\ j2.todo = r
        /\ j2.status = None /\ j2.posted = FALSE
    BY <1>4, <1>5, <1>6 DEF JobRec
  <1>8. job' = [job EXCEPT ![h] = j2]
    BY <1>2, <1>3, <1>4, <1>5 DEF GoOnWith
  <1>9. JobFits(j2, id)
    <2>1. Ordered(j.todo, id)
      BY <1>1 DEF Ordered
    <2>2. Ordered(r, id)
      BY <1>1, <1>3, <2>1, OrderedTail
    <2>3. Told(j2)
      BY <1>1, <1>4, <1>6, <1>7 DEF Told
    <2> QED BY <1>1, <1>4, <1>7, <2>2, <2>3 DEF JobFits
  <1>10. job' \in [Threads -> JobRec] /\ job'[h] = j2 /\ \A g \in Threads : g # h => job'[g] = job[g]
    BY <1>7, <1>8, Shape
  <1>11. PICK A, B, x, M : A = Ahead /\ B = Ahead' /\ x = <<h, Len(j.todo) - 1>> /\ M = MaxTasks
    OBVIOUS
  <1>12. /\ x \in A /\ B \subseteq A \ {x}
    <2>1. /\ Places(r) \subseteq Places(j.todo)
          /\ Len(j.todo) - 1 \in Places(j.todo) /\ Len(j.todo) - 1 \notin Places(r)
      BY <1>1, <1>3, PlacesTail
    <2>2. x \in A
      BY <1>1, <1>11, <2>1 DEF Ahead
    <2> SUFFICES ASSUME NEW y \in Threads \X Nat, y[2] \in Places(job'[y[1]].todo)
                 PROVE  y \in A /\ y # x
      BY <1>11, <2>2 DEF Ahead
    <2>3. CASE y[1] = h
      BY <1>1, <1>7, <1>10, <1>11, <2>1, <2>3 DEF Ahead
    <2>4. CASE y[1] # h
      BY <1>10, <1>11, <2>4 DEF Ahead
    <2> QED BY <2>3, <2>4
  <1>13. /\ IsFiniteSet(A) /\ Cardinality(A) \in Nat /\ asked \in 0..M /\ M \in Nat
         /\ Len(tasks) + Cardinality(A) <= asked
    BY <1>11, FS_CardinalityType, Shape DEF Typed, Drawn
  <1>14. /\ IsFiniteSet(A \ {x}) /\ Cardinality(A \ {x}) = Cardinality(A) - 1
         /\ Cardinality(A \ {x}) \in Nat
    BY <1>12, <1>13, FS_RemoveElement, FS_CardinalityType
  <1>15. IsFiniteSet(B) /\ Cardinality(B) <= Cardinality(A \ {x}) /\ Cardinality(B) \in Nat
    BY <1>12, <1>14, FS_Subset, FS_CardinalityType
  <1>16. id + Cardinality(B) <= asked /\ id \in 1..M
    BY <1>1, <1>13, <1>14, <1>15
  <1>17. tasks' \in Seq(TaskRec) /\ Len(tasks') = id
    <2>1. {"DELETING", "WAITING"} \subseteq Statuses
      BY DEF Statuses
    <2>2. [type |-> j.type, kb |-> j.kb, status |-> status] \in TaskRec
      BY <1>1, <2>1 DEF TaskRec
    <2> QED BY <1>1, <1>2, <2>2, Shape
  <1>18. Drawn'
    <2>1. IsFiniteSet(Ahead') /\ Len(tasks') + Cardinality(Ahead') <= asked' /\ asked' \in 0..MaxTasks
      BY <1>2, <1>11, <1>13, <1>15, <1>16, <1>17
    <2> QED BY <2>1 DEF Drawn
  <1>19. JobsFit'
    <2> SUFFICES ASSUME NEW g \in Threads PROVE JobFits(job'[g], id)
      BY <1>10, <1>17 DEF JobsFit
    <2>1. CASE g = h
      BY <1>9, <1>10, <2>1
    <2>2. CASE g # h
      <3>1. job[g] \in JobRec /\ JobFits(job[g], Len(tasks)) /\ Len(tasks) <= id
        BY <1>1 DEF Typed, JobsFit
      <3> QED BY <1>1, <1>10, <2>2, <3>1, JobFitsMore
    <2> QED BY <2>1, <2>2
  <1>20. RowsFit'
    <2>1. Len(tasks) <= id /\ id <= id /\ id \in 1..MaxTasks
      BY <1>1, <1>11, <1>16
    <2>2. status \in Statuses
      BY DEF Statuses
    <2>3. snap' \in [Kbs -> SnapRec] /\ \A m \in Kbs : snap'[m].task <= id
      BY <1>1, <1>2, <2>1, <2>2, SetSnapFits
    <2> QED BY <1>2, <1>17, <2>3 DEF Typed, RowsFit
  <1>21. ParserFits' /\ HistoryFits'
    <2>1. Len(tasks) <= id
      BY <1>1
    <2>2. ASSUME NEW t \in Ids, stage'[t] # "none" PROVE t <= Len(tasks')
      BY <1>1, <1>2, <1>17, <2>1, <2>2, Shape DEF Typed, ParserFits
    <2>3. ASSUME NEW p \in 1..Len(outbox') PROVE outbox'[p].task <= Len(tasks')
      <3>1. outbox[p] \in Posted /\ outbox[p].task <= Len(tasks)
        BY <1>2, <2>3 DEF Typed, ParserFits
      <3>2. outbox[p].task \in Nat
        BY <3>1, LifecycleAssumption DEF Posted, Ids
      <3> QED BY <1>1, <1>2, <1>17, <3>1, <3>2
    <2> QED BY <1>2, <2>2, <2>3, Frame DEF Typed, ParserFits
  <1> QED BY <1>1, <1>2, <1>3, <1>4, <1>7, <1>8, <1>9, <1>11, <1>16, <1>18, <1>19, <1>20, <1>21 DEF Typed

\* A submission was taken, or a failed one is being recorded.
LEMMA SubmitTyped ==
  ASSUME Typed, NEW h \in Threads, Submit(h)
  PROVE  /\ Typed'
         /\ job[h].todo # << >> /\ job[h].todo[1] = "submit" /\ job[h].task \in 1..Len(tasks)
         /\ UNCHANGED <<upload, bound, snap, tasks, nodes, outbox, asked>> /\ hurt \subseteq hurt'
         /\ \E j2 \in JobRec :
              /\ job' = [job EXCEPT ![h] = j2] /\ JobFits(j2, Len(tasks))
              /\ \/ /\ Follows(j2, job[h]) /\ stage' = [stage EXCEPT ![job[h].task] = "queued"]
                 \/ /\ SameJob(j2, job[h]) /\ Writer(j2.todo, "failTask", "failSnap", FailRest)
                    /\ \/ stage' = stage
                       \/ /\ stage' = [stage EXCEPT ![job[h].task] = "queued"]
                          /\ job[h].task \in hurt'
  <1>1. job[h].todo # << >> /\ job[h].todo[1] = "submit"
    BY DoesHead DEF Submit
  <1>2. PICK j \in JobRec : /\ j = job[h] /\ JobFits(j, Len(tasks)) /\ Len(tasks) \in Nat
                            /\ j.task \in 1..Len(tasks) /\ Told(j) /\ j.todo # << >>
                            /\ j.todo[1] = "submit" /\ Len(j.todo) >= 1
    <2>1. job[h].task \in 0..Len(tasks) /\ job[h].task # 0
      BY <1>1, HeadIs
    <2>2. Len(tasks) \in Nat
      BY Shape
    <2>3. job[h].task \in 1..Len(tasks)
      BY <2>1, <2>2
    <2> QED BY <1>1, <2>2, <2>3, HeadIs
  <1>3. UNCHANGED <<upload, bound, snap, tasks, nodes, outbox, asked>>
    BY DEF Submit, rows
  <1>4. /\ j.task \in Ids /\ {j.task} \subseteq Ids /\ {} \subseteq Ids
        /\ stage \in [Ids -> Stages] /\ "queued" \in Stages
    BY <1>2, Shape DEF Stages
  <1>5. HistoryFits' /\ hurt \subseteq hurt'
    <2>1. UNCHANGED <<hurt, troubles>> \/ Trouble({}) \/ Trouble({j.task})
      BY <1>2 DEF Submit, mishaps
    <2> QED BY <1>4, <2>1, TroubleFits
  <1>6. ParserFits'
    <2>1. stage' = stage \/ stage' = [stage EXCEPT ![j.task] = "queued"]
      BY <1>2 DEF Submit
    <2>2. stage' \in [Ids -> Stages]
      BY <1>4, <2>1
    <2>3. ASSUME NEW id \in Ids, stage'[id] # "none" PROVE id <= Len(tasks)
      <3>1. CASE id = j.task
        BY <1>2, <3>1
      <3>2. CASE id # j.task
        <4>1. stage[id] # "none"
          BY <1>4, <2>1, <2>3, <3>2
        <4> QED BY <4>1 DEF Typed, ParserFits
      <3> QED BY <3>1, <3>2
    <2> QED BY <1>3, <2>2, <2>3 DEF Typed, ParserFits
  <1>7. RowsFit'
    BY <1>3, Frame
  <1>8. CASE GoOn(h) /\ stage' = [stage EXCEPT ![job[h].task] = "queued"]
    <2>1. 0 \in Counts
      BY DEF Counts
    <2>2. PICK j2 \in JobRec : /\ JobFits(j2, Len(tasks)) /\ Follows(j2, job[h])
                               /\ Places(j2.todo) \subseteq Places(job[h].todo)
                               /\ job' = [job EXCEPT ![h] = j2]
      BY <1>1, <1>8, <2>1, GoOnFits
    <2>3. JobsFit' /\ Drawn'
      BY <1>3, <2>2, JobStep
    <2> QED BY <1>1, <1>2, <1>3, <1>5, <1>6, <1>7, <1>8, <2>2, <2>3 DEF Typed
  <1>9. CASE /\ GoOnWith(h, job[h], FailOps(job[h].type))
             /\ \/ Trouble({}) /\ UNCHANGED stage
                \/ Trouble({job[h].task}) /\ stage' = [stage EXCEPT ![job[h].task] = "queued"]
    <2>1. PICK q : q = FailOps(j.type)
      OBVIOUS
    <2>2. q \in Seq(Ops) /\ Writer(q, "failTask", "failSnap", FailRest)
      BY <2>1, FailList
    <2>3. PICK j2 : j2 = [j EXCEPT !.todo = q]
      OBVIOUS
    <2>4. j.status = None /\ ~j.posted /\ j.task # 0
      <3>1. 1 \in 1..Len(j.todo) /\ j.todo[1] \in Asking
        BY <1>2 DEF Asking, JobRec
      <3>2. j.status = None /\ ~j.posted
        BY <1>2, <3>1 DEF Told
      <3> QED BY <1>2, <3>2
    <2>5. /\ j2 \in JobRec /\ JobFits(j2, Len(tasks)) /\ SameJob(j2, j) /\ j2.todo = q
          /\ Places(j2.todo) = {} /\ q # << >>
      BY <1>2, <2>2, <2>3, <2>4, NewListFits
    <2>6. job' = [job EXCEPT ![h] = j2]
      BY <1>2, <1>9, <2>1, <2>3, <2>5 DEF GoOnWith
    <2>7. JobsFit' /\ Drawn'
      BY <1>3, <2>5, <2>6, JobStep
    <2>8. stage' = stage \/ (stage' = [stage EXCEPT ![j.task] = "queued"] /\ j.task \in hurt')
      BY <1>2, <1>9 DEF Trouble
    <2> QED BY <1>1, <1>2, <1>3, <1>5, <1>6, <1>7, <2>2, <2>5, <2>6, <2>7, <2>8 DEF Typed
  <1> QED BY <1>8, <1>9 DEF Submit

\* The parsing service refuses to cancel, or marks the task.
LEMMA ParserCancelTyped ==
  ASSUME Typed, NEW h \in Threads, ParserCancel(h)
  PROVE  /\ Typed'
         /\ job[h].todo # << >> /\ job[h].todo[1] = "parserCancel" /\ job[h].task \in 1..Len(tasks)
         /\ UNCHANGED <<upload, bound, snap, tasks, nodes, outbox, asked, hurt, troubles>>
         /\ \E j2 \in JobRec :
              /\ job' = [job EXCEPT ![h] = j2] /\ JobFits(j2, Len(tasks))
              /\ \/ j2 = Idle /\ stage' = stage
                 \/ /\ Follows(j2, job[h]) /\ stage[job[h].task] = "queued"
                    /\ stage' = [stage EXCEPT ![job[h].task] = "canceled"]
  <1>1. job[h].todo # << >> /\ job[h].todo[1] = "parserCancel"
    BY DoesHead DEF ParserCancel
  <1>2. job[h].task \in 1..Len(tasks) /\ Len(tasks) \in Nat
    <2>1. job[h].task \in 0..Len(tasks) /\ job[h].task # 0
      BY <1>1, HeadIs
    <2> QED BY <2>1, Shape
  <1>3. UNCHANGED <<upload, bound, snap, tasks, nodes, outbox, asked, hurt, troubles>>
    BY DEF ParserCancel, rows, mishaps
  <1>4. /\ job[h].task \in Ids /\ stage \in [Ids -> Stages] /\ "canceled" \in Stages
    BY <1>2, Shape DEF Stages
  <1>5. ParserFits'
    <2>1. stage' = stage \/ stage' = [stage EXCEPT ![job[h].task] = "canceled"]
      BY DEF ParserCancel
    <2>2. stage' \in [Ids -> Stages]
      BY <1>4, <2>1
    <2>3. ASSUME NEW id \in Ids, stage'[id] # "none" PROVE id <= Len(tasks)
      <3>1. CASE id = job[h].task
        BY <1>2, <3>1
      <3>2. CASE id # job[h].task
        <4>1. stage[id] # "none"
          BY <1>4, <2>1, <2>3, <3>2
        <4> QED BY <4>1 DEF Typed, ParserFits
      <3> QED BY <3>1, <3>2
    <2> QED BY <1>3, <2>2, <2>3 DEF Typed, ParserFits
  <1>6. RowsFit' /\ HistoryFits'
    BY <1>3, Frame
  <1>7. CASE stage[job[h].task] = "queued"
    <2>1. 0 \in Counts /\ GoOn(h) /\ stage' = [stage EXCEPT ![job[h].task] = "canceled"]
      BY <1>7 DEF Counts, ParserCancel
    <2>2. PICK j2 \in JobRec : /\ JobFits(j2, Len(tasks)) /\ Follows(j2, job[h])
                               /\ Places(j2.todo) \subseteq Places(job[h].todo)
                               /\ job' = [job EXCEPT ![h] = j2]
      BY <1>1, <2>1, GoOnFits
    <2>3. JobsFit' /\ Drawn'
      BY <1>3, <2>2, JobStep
    <2> QED BY <1>1, <1>2, <1>3, <1>5, <1>6, <1>7, <2>1, <2>2, <2>3 DEF Typed
  <1>8. CASE stage[job[h].task] # "queued"
    <2>1. job' = [job EXCEPT ![h] = Idle] /\ stage' = stage
      BY <1>8 DEF ParserCancel, GoOnWith
    <2>2. JobsFit' /\ Drawn'
      BY <1>3, <2>1, IdleFits, JobStep
    <2> QED BY <1>1, <1>2, <1>3, <1>5, <1>6, <2>1, <2>2, IdleFits DEF Typed
  <1> QED BY <1>7, <1>8

\* cancel_task goes on with what its callback has to write, and its caller's rest.
LEMMA CancelReadTyped ==
  ASSUME Typed, NEW h \in Threads, CancelRead(h)
  PROVE  /\ Typed'
         /\ job[h].todo # << >> /\ job[h].todo[1] = "cancelRead" /\ job[h].task \in 1..Len(tasks)
         /\ UNCHANGED <<upload, bound, snap, tasks, stage, nodes, outbox, asked, hurt, troubles>>
         /\ \E j2 \in JobRec :
              /\ job' = [job EXCEPT ![h] = j2] /\ JobFits(j2, Len(tasks))
              /\ \/ j2 = Idle
                 \/ /\ j2.kb = job[h].kb /\ j2.type = job[h].type /\ j2.task = job[h].task
                    /\ j2.status = "CANCELED" /\ ~j2.posted
              /\ \/ /\ Ignored(job[h].task, "CANCELED")
                    /\ \A p \in 1..Len(j2.todo) : j2.todo[p] \in Purging
                 \/ /\ ~Ignored(job[h].task, "CANCELED")
                    /\ Writer(j2.todo, "finTask", "finSnap", FinishRest \cup Purging)
  <1>1. job[h].todo # << >> /\ job[h].todo[1] = "cancelRead"
    BY DoesHead DEF CancelRead
  <1>2. PICK j \in JobRec : /\ j = job[h] /\ JobFits(j, Len(tasks)) /\ Len(tasks) \in Nat
                            /\ j.task \in 1..Len(tasks) /\ Told(j) /\ j.todo # << >>
                            /\ j.todo[1] = "cancelRead" /\ Len(j.todo) >= 1 /\ j.todo \in Seq(Ops)
                            /\ Ordered(j.todo, j.task) /\ j.kb \in Kbs /\ j.type \in Types
    <2>1. job[h].task \in 0..Len(tasks) /\ job[h].task # 0
      BY <1>1, HeadIs
    <2>2. job[h].task \in 1..Len(tasks) /\ Len(tasks) \in Nat
      BY <2>1, Shape
    <2> QED BY <1>1, <2>2, HeadIs
  <1>3. UNCHANGED <<upload, bound, snap, tasks, stage, nodes, outbox, asked, hurt, troubles>>
    BY DEF CancelRead, rows, parser, mishaps
  <1>4. j.status = None /\ j.posted = FALSE
    <2>1. 1 \in 1..Len(j.todo) /\ j.todo[1] \in Canceling
      BY <1>2 DEF Canceling
    <2> QED BY <1>2, <2>1 DEF Told, JobRec
  <1>5. PICK r : r = Tail(j.todo)
    OBVIOUS
  <1>6. r \in Seq(Ops) /\ \A p \in 1..Len(r) : r[p] \in Purging
    <2>1. /\ r \in Seq(Ops) /\ Len(j.todo) \in Nat /\ Len(r) = Len(j.todo) - 1
          /\ \A p \in 1..Len(r) : r[p] = j.todo[p + 1] /\ p + 1 \in 1..Len(j.todo)
      BY <1>2, <1>5, TailShape
    <2>2. ASSUME NEW p \in 1..Len(j.todo), p # 1 PROVE j.todo[p] \in Purging
      <3>1. 1 \in 1..Len(j.todo) /\ j.todo[1] \in Canceling
        BY <1>2, <2>1 DEF Canceling
      <3>2. j.todo[p] \in Canceling \cup Purging
        BY <1>2, <3>1 DEF Ordered
      <3>3. j.todo[p] # "cancelRead" /\ j.todo[p] # "parserCancel"
        BY <1>2, <2>2 DEF Ordered, Pair
      <3> QED BY <3>2, <3>3 DEF Canceling
    <2>3. ASSUME NEW p \in 1..Len(r) PROVE r[p] \in Purging
      <3>1. r[p] = j.todo[p + 1] /\ p + 1 \in 1..Len(j.todo) /\ p + 1 # 1
        BY <2>1
      <3> QED BY <2>2, <3>1
    <2> QED BY <2>1, <2>3
  <1>7. PICK j1 : j1 = [j EXCEPT !.status = "CANCELED"]
    OBVIOUS
  <1>8. /\ j1 \in JobRec /\ j1.kb = j.kb /\ j1.type = j.type /\ j1.task = j.task
        /\ j1.status = "CANCELED" /\ j1.posted = FALSE /\ j1.todo = j.todo
    <2>1. "CANCELED" \in Outcomes
      BY DEF Outcomes
    <2> QED BY <1>4, <1>7, <2>1 DEF JobRec
  <1>9. PICK q \in Seq(Ops) :
          /\ GoOnWith(h, j1, q)
          /\ \/ Ignored(j.task, "CANCELED") /\ q = r
             \/ /\ ~Ignored(j.task, "CANCELED")
                /\ Writer(q, "finTask", "finSnap", FinishRest \cup Purging)
    <2>1. CASE Ignored(j.task, "CANCELED")
      <3>1. << >> \o r = r
        BY <1>6
      <3>2. GoOnWith(h, j1, r)
        BY <1>2, <1>5, <1>7, <2>1, <3>1 DEF CancelRead
      <3> QED BY <1>6, <2>1, <3>2
    <2>2. CASE ~Ignored(j.task, "CANCELED")
      <3>1. PICK s : s = FinishOps(j.type, "CANCELED")
        OBVIOUS
      <3>2. s \in Seq(Ops) /\ Writer(s, "finTask", "finSnap", FinishRest)
        BY <3>1, FinishList
      <3>3. s \o r \in Seq(Ops) /\ Writer(s \o r, "finTask", "finSnap", FinishRest \cup Purging)
        BY <1>6, <3>2, FinishTail
      <3>4. GoOnWith(h, j1, s \o r)
        BY <1>2, <1>5, <1>7, <2>2, <3>1 DEF CancelRead
      <3> QED BY <2>2, <3>3, <3>4
    <2> QED BY <2>1, <2>2
  <1>10. PICK j2 : j2 = IF q = << >> THEN Idle ELSE [j1 EXCEPT !.todo = q]
    OBVIOUS
  <1>11. job' = [job EXCEPT ![h] = j2]
    BY <1>9, <1>10 DEF GoOnWith
  <1>12. /\ j2 \in JobRec /\ j2.todo = q
         /\ j2 = Idle \/ (/\ j2.kb = j.kb /\ j2.type = j.type /\ j2.task = j.task
                          /\ j2.status = "CANCELED" /\ j2.posted = FALSE)
    <2>1. CASE q = << >>
      BY <1>10, <2>1, IdleFits
    <2>2. CASE q # << >>
      BY <1>8, <1>10, <2>2 DEF JobRec
    <2> QED BY <2>1, <2>2
  <1>13. JobFits(j2, Len(tasks)) /\ Places(j2.todo) = {}
    <2>1. CASE j2 = Idle
      BY <2>1, IdleFits
    <2>2. CASE j2 # Idle /\ q = r
      <3>1. q # << >> /\ Len(q) >= 1
        BY <1>10, <2>2
      <3>2. \A p \in 1..Len(q) : q[p] \in {"purgeRel", "purgeSnap", "purgeSync"}
        BY <1>6, <2>2 DEF Purging
      <3>3. Ordered(q, j.task) /\ Places(q) = {}
        <4>1. Places(q) = {}
          BY <3>2, NoPlaces
        <4>2. j.task # 0
          BY <1>2
        <4> QED BY <3>2, <4>1, <4>2 DEF Ordered, Pair, Canceling
      <3>4. Told(j2)
        BY <1>12, <2>2, <3>2 DEF Told, Asking, Failing, Canceling, Starting, Ending
      <3> QED BY <1>2, <1>12, <2>2, <3>1, <3>3, <3>4 DEF JobFits
    <2>3. CASE j2 # Idle /\ Writer(q, "finTask", "finSnap", FinishRest \cup Purging)
      <3>1. Ordered(q, j.task) /\ Places(q) = {} /\ Len(q) >= 1
        <4>1. j.task # 0
          BY <1>2
        <4> QED BY <2>3, <4>1, Rests, WriterOrdered
      <3>2. \A p \in 1..Len(q) : q[p] \in {"finTask", "finSnap", "finDoc", "finUnbind", "count",
                                          "afterDelete"} \cup Purging
        BY <2>3 DEF Writer, FinishRest
      <3>3. Told(j2)
        BY <1>12, <2>3, <3>2 DEF Told, Asking, Failing, Canceling, Starting, Ending, Purging, Outcomes
      <3> QED BY <1>2, <1>12, <2>3, <3>1, <3>3 DEF JobFits
    <2> QED BY <1>9, <2>1, <2>2, <2>3
  <1>14. JobsFit' /\ Drawn' /\ RowsFit' /\ ParserFits' /\ HistoryFits'
    BY <1>3, <1>11, <1>12, <1>13, JobStep, Frame
  <1> QED BY <1>1, <1>2, <1>3, <1>6, <1>9, <1>11, <1>12, <1>13, <1>14 DEF Typed

LEMMA OutboxHead ==
  ASSUME Typed, outbox # << >>
  PROVE  /\ Head(outbox) \in Posted /\ Head(outbox) = outbox[1] /\ Head(outbox).task \in 1..Len(tasks)
         /\ Head(outbox).task \in Ids /\ tasks[Head(outbox).task] \in TaskRec
         /\ Tail(outbox) \in Seq(Posted) /\ Len(Tail(outbox)) = Len(outbox) - 1 /\ Len(outbox) \in Nat
         /\ Len(outbox) >= 1
         /\ \A p \in 1..Len(Tail(outbox)) : Tail(outbox)[p] = outbox[p + 1] /\ p + 1 \in 1..Len(outbox)
  <1>1. outbox \in Seq(Posted) /\ Len(outbox) \in Nat /\ Len(outbox) >= 1
    BY Shape
  <1>2. Head(outbox) = outbox[1] /\ outbox[1] \in Posted /\ outbox[1].task <= Len(tasks)
    BY <1>1 DEF Typed, ParserFits
  <1>3. outbox[1].task \in Ids /\ outbox[1].task \in 1..Len(tasks)
    BY <1>2, Shape DEF Posted, Ids
  <1>4. tasks[outbox[1].task] \in TaskRec
    BY <1>3, Shape
  <1> QED BY <1>1, <1>2, <1>3, <1>4

\* Callbacks that are taken off, postponed or put behind keep the parser's type.
LEMMA OutboxFits ==
  ASSUME Typed, UNCHANGED <<stage, nodes, tasks>>, outbox' \in Seq(Posted),
         \A p \in 1..Len(outbox') : outbox'[p].task <= Len(tasks)
  PROVE  ParserFits'
  BY DEF Typed, ParserFits

LEMMA AppendFits ==
  ASSUME NEW q \in Seq(Posted), NEW n \in Nat, \A p \in 1..Len(q) : q[p].task <= n,
         NEW cb \in Posted, cb.task <= n
  PROVE  /\ Append(q, cb) \in Seq(Posted)
         /\ Len(Append(q, cb)) = Len(q) + 1 /\ Append(q, cb)[Len(q) + 1] = cb
         /\ \A p \in 1..Len(q) : Append(q, cb)[p] = q[p]
         /\ \A p \in 1..Len(Append(q, cb)) : Append(q, cb)[p].task <= n
  OBVIOUS

\* The job of a callback.
Serves(j, cb) ==
  /\ j.task = cb.task /\ j.status = cb.status /\ j.posted
  /\ j.kb = tasks[cb.task].kb /\ j.type = tasks[cb.task].type
  /\ IF cb.status = "WORKING" THEN Writer(j.todo, "startTask", "startSnap", StartRest)
                              ELSE Writer(j.todo, "finTask", "finSnap", FinishRest)

CallbackJob(cb) ==
  [Request(tasks[cb.task].kb, tasks[cb.task].type, CallbackOps(tasks[cb.task].type, cb.status))
     EXCEPT !.task = cb.task, !.status = cb.status, !.posted = TRUE]

LEMMA ServesFits ==
  ASSUME Typed, NEW cb \in Posted, cb.task \in 1..Len(tasks), NEW j, j = CallbackJob(cb)
  PROVE  /\ j \in JobRec /\ JobFits(j, Len(tasks)) /\ Serves(j, cb)
         /\ Places(j.todo) = {} /\ j.todo # << >>
  <1>1. PICK t, q : t \in TaskRec /\ t = tasks[cb.task] /\ q = CallbackOps(t.type, cb.status)
    BY Shape
  <1>2. t.kb \in Kbs /\ t.type \in Types /\ cb.status \in {"WORKING", "SUCCESS", "FAILED"}
    BY <1>1 DEF TaskRec, Posted
  <1>3. /\ q \in Seq(Ops)
        /\ cb.status = "WORKING" => Writer(q, "startTask", "startSnap", StartRest)
        /\ cb.status # "WORKING" => Writer(q, "finTask", "finSnap", FinishRest)
    BY <1>1, StartList, FinishList DEF CallbackOps
  <1>4. PICK k \in Kbs, type \in Types, id \in Nat, s \in {None, "WORKING"} \cup Outcomes :
          /\ k = t.kb /\ type = t.type /\ id = cb.task /\ s = cb.status
    <2>1. cb.task \in Nat /\ cb.status \in {None, "WORKING"} \cup Outcomes
      BY <1>2, Shape DEF Outcomes
    <2> QED BY <1>2, <2>1
  <1>5. j = [kb |-> k, type |-> type, task |-> id, status |-> s, posted |-> TRUE, n |-> 0, todo |-> q]
    <2>1. ASSUME NEW i, i = [[Idle EXCEPT !.kb = k, !.type = type, !.todo = q] EXCEPT
                               !.task = id, !.status = s, !.posted = TRUE]
          PROVE  i = [kb |-> k, type |-> type, task |-> id, status |-> s, posted |-> TRUE,
                      n |-> 0, todo |-> q]
      BY <2>1 DEF Idle
    <2>2. j = [[Idle EXCEPT !.kb = k, !.type = type, !.todo = q] EXCEPT
                 !.task = id, !.status = s, !.posted = TRUE]
      BY <1>1, <1>4, Zenon DEF Request, CallbackJob
    <2> QED BY <2>1, <2>2
  <1>6. /\ j.kb = k /\ j.type = type /\ j.task = id /\ j.status = s /\ j.todo = q
        /\ j.posted = TRUE
    <2>1. j.kb = k /\ j.type = type /\ j.task = id /\ j.status = s /\ j.todo = q
      BY <1>3, <1>5
    <2>2. j.posted = TRUE
      BY <1>5
    <2> QED BY <2>1, <2>2
  <1>7. 0 \in Counts /\ id \in Nat /\ s \in {None, "WORKING"} \cup Outcomes
        /\ k \in Kbs /\ type \in Types /\ id # 0
    BY <1>2, <1>4, Shape DEF Counts, Outcomes
  <1>8. j \in JobRec
    <2>1. [kb |-> k, type |-> type, task |-> id, status |-> s, posted |-> TRUE, n |-> 0, todo |-> q]
            \in JobRec
      BY <1>3, <1>7 DEF JobRec
    <2> QED BY <1>5, <2>1, Zenon
  <1>9. Ordered(q, id) /\ Places(q) = {} /\ Len(q) >= 1 /\ q # << >>
    <2>1. FailRest \subseteq Followers /\ StartRest \subseteq Followers /\ FinishRest \subseteq Followers
      BY Rests
    <2> QED BY <1>3, <1>7, <2>1, WriterOrdered
  <1>10. Told(j)
    <2>1. CASE cb.status = "WORKING"
      <3>1. \A p \in 1..Len(q) : q[p] \in {"startTask", "startSnap", "startDoc", "count", "markDeleting"}
        BY <1>3, <2>1 DEF Writer, StartRest
      <3> QED BY <1>4, <1>6, <2>1, <3>1 DEF Told, Asking, Failing, Canceling, Ending, Purging
    <2>2. CASE cb.status # "WORKING"
      <3>1. \A p \in 1..Len(q) : q[p] \in {"finTask", "finSnap", "finDoc", "finUnbind", "count",
                                          "afterDelete"}
        BY <1>3, <2>2 DEF Writer, FinishRest
      <3>2. s \in {"SUCCESS", "FAILED"}
        BY <1>2, <1>4, <2>2
      <3> QED BY <1>6, <3>1, <3>2
              DEF Told, Asking, Failing, Canceling, Starting, Purging, Outcomes
    <2> QED BY <2>1, <2>2
  <1>11. JobFits(j, Len(tasks))
    <2>1. id \in 0..Len(tasks)
      BY <1>4, Shape
    <2> QED BY <1>6, <1>7, <1>9, <1>10, <2>1 DEF JobFits
  <1>12. Serves(j, cb)
    BY <1>1, <1>3, <1>4, <1>6 DEF Serves
  <1> QED BY <1>6, <1>8, <1>9, <1>11, <1>12

LEMMA JobTask ==
  ASSUME Typed, NEW h \in Threads
  PROVE  /\ job[h] \in JobRec /\ JobFits(job[h], Len(tasks))
         /\ job[h].task \in 0..Len(tasks) /\ Len(tasks) \in Nat
         /\ job[h].task # 0 => job[h].task \in Ids
  <1>1. job[h] \in JobRec /\ JobFits(job[h], Len(tasks)) /\ Len(tasks) \in Nat
    BY Shape DEF Typed, JobsFit
  <1>2. job[h].task \in 0..Len(tasks)
    BY <1>1, IdleFits DEF JobFits
  <1>3. job[h].task # 0 => job[h].task \in Ids
    BY <1>1, <1>2, Shape
  <1> QED BY <1>1, <1>2, <1>3

LEMMA ReceiveTyped ==
  ASSUME Typed, NEW h \in Threads, Receive(h)
  PROVE  /\ Typed' /\ job[h] = Idle /\ outbox # << >> /\ outbox' = Tail(outbox)
         /\ UNCHANGED <<upload, bound, snap, tasks, stage, nodes, asked>> /\ hurt \subseteq hurt'
         /\ \E j2 \in JobRec :
              /\ job' = [job EXCEPT ![h] = j2] /\ JobFits(j2, Len(tasks))
              /\ IF Ignored(Head(outbox).task, Head(outbox).status) THEN j2 = Idle
                                                                    ELSE Serves(j2, Head(outbox))
         /\ \A g \in Threads : job[g].posted =>
              /\ Head(outbox).task \in hurt'
              /\ \A i \in Threads : job[i].posted => job[i].task \in hurt'
  <1>1. /\ job[h] = Idle /\ outbox # << >> /\ outbox' = Tail(outbox)
        /\ UNCHANGED <<upload, bound, snap, tasks, stage, nodes, asked>>
    BY DEF Receive, rows
  <1>2. PICK cb \in Posted : /\ cb = Head(outbox) /\ cb.task \in 1..Len(tasks) /\ cb.task \in Ids
    BY <1>1, OutboxHead
  <1>3. PICK pending : pending = {g \in Threads : job[g].posted}
    OBVIOUS
  <1>4. PICK S : S = {job[g].task : g \in pending} \cup {cb.task}
    OBVIOUS
  <1>5. (pending = {} /\ UNCHANGED <<hurt, troubles>>) \/ (pending # {} /\ Trouble(S))
    BY <1>2, <1>3, <1>4 DEF Receive, mishaps
  <1>6. S \subseteq Ids
    <2>1. ASSUME NEW g \in Threads, job[g].posted PROVE job[g].task \in Ids
      <3>1. JobFits(job[g], Len(tasks)) /\ job[g] # Idle /\ job[g] \in JobRec
        BY <2>1, JobTask, IdleFits
      <3>2. /\ job[g].todo \in Seq(Ops) /\ Len(job[g].todo) >= 1 /\ Told(job[g])
            /\ Ordered(job[g].todo, job[g].task)
        BY <3>1 DEF JobFits, JobRec
      <3>3. 1 \in 1..Len(job[g].todo)
        BY <3>2
      <3>4. job[g].todo[1] \notin Asking
        BY <2>1, <3>2, <3>3 DEF Told
      <3>5. job[g].task # 0
        BY <3>2, <3>3, <3>4 DEF Ordered
      <3> QED BY <3>5, JobTask
    <2> QED BY <1>2, <1>3, <1>4, <2>1
  <1>7. HistoryFits' /\ hurt \subseteq hurt'
    BY <1>5, <1>6, TroubleFits
  <1>8. PICK j : j = CallbackJob(cb)
    OBVIOUS
  <1>9. /\ j \in JobRec /\ JobFits(j, Len(tasks)) /\ Serves(j, cb) /\ Places(j.todo) = {}
    BY <1>2, <1>8, ServesFits
  <1>10. PICK j2 : j2 = IF Ignored(cb.task, cb.status) THEN Idle ELSE j
    OBVIOUS
  <1>11. job' = [job EXCEPT ![h] = j2]
    BY <1>2, <1>8, <1>10 DEF Receive, CallbackJob
  <1>12. j2 \in JobRec /\ JobFits(j2, Len(tasks)) /\ Places(j2.todo) = {}
    BY <1>9, <1>10, IdleFits
  <1>13. JobsFit' /\ Drawn' /\ RowsFit'
    BY <1>1, <1>11, <1>12, JobStep, Frame
  <1>14. ParserFits'
    <2>1. outbox' \in Seq(Posted) /\ \A p \in 1..Len(outbox') : outbox'[p].task <= Len(tasks)
      BY <1>1, OutboxHead DEF Typed, ParserFits
    <2> QED BY <1>1, <2>1, OutboxFits
  <1>15. ASSUME NEW g \in Threads, job[g].posted
         PROVE  cb.task \in hurt' /\ \A i \in Threads : job[i].posted => job[i].task \in hurt'
    <2>1. Trouble(S) /\ hurt' = hurt \cup S
      BY <1>3, <1>5, <1>15 DEF Trouble
    <2> QED BY <1>3, <1>4, <2>1
  <1> QED BY <1>1, <1>2, <1>7, <1>9, <1>10, <1>11, <1>12, <1>13, <1>14, <1>15 DEF Typed

LEMMA UndeliveredTyped ==
  ASSUME Typed, Undelivered
  PROVE  /\ Typed' /\ UNCHANGED <<upload, bound, snap, tasks, stage, nodes, job, asked>>
         /\ outbox # << >> /\ hurt' = hurt \cup {Head(outbox).task}
         /\ outbox' \in {Append(Tail(outbox), Head(outbox)), Tail(outbox)}
  <1>1. /\ UNCHANGED <<upload, bound, snap, tasks, stage, nodes, job, asked>>
        /\ outbox # << >> /\ Trouble({Head(outbox).task})
        /\ outbox' \in {Append(Tail(outbox), Head(outbox)), Tail(outbox)}
    BY DEF Undelivered, rows
  <1>2. PICK q \in Seq(Posted), cb \in Posted :
          /\ q = Tail(outbox) /\ cb = Head(outbox) /\ cb.task \in Ids /\ cb.task <= Len(tasks)
          /\ \A p \in 1..Len(q) : q[p].task <= Len(tasks)
    <2>1. Head(outbox).task <= Len(tasks) /\ Head(outbox).task \in Ids
      BY <1>1, OutboxHead, Shape
    <2>2. \A p \in 1..Len(Tail(outbox)) : Tail(outbox)[p].task <= Len(tasks)
      BY <1>1, OutboxHead DEF Typed, ParserFits
    <2> QED BY <1>1, <2>1, <2>2, OutboxHead
  <1>3. HistoryFits' /\ hurt' = hurt \cup {cb.task}
    <2>1. Trouble({cb.task}) /\ {cb.task} \subseteq Ids
      BY <1>1, <1>2
    <2> QED BY <2>1, TroubleFits DEF Trouble
  <1>4. ParserFits'
    <2>1. Append(q, cb) \in Seq(Posted)
            /\ \A p \in 1..Len(Append(q, cb)) : Append(q, cb)[p].task <= Len(tasks)
      BY <1>2, AppendFits, Shape
    <2>2. outbox' \in Seq(Posted) /\ \A p \in 1..Len(outbox') : outbox'[p].task <= Len(tasks)
      BY <1>1, <1>2, <2>1
    <2> QED BY <1>1, <2>2, OutboxFits
  <1> QED BY <1>1, <1>2, <1>3, <1>4, Frame DEF Typed

LEMMA VictimFits ==
  ASSUME Typed, NEW h \in Threads, job[h] # Idle
  PROVE  Victim(h) \subseteq Ids /\ (job[h].task # 0 => Victim(h) = {job[h].task})
  <1>1. job[h].kb \in Kbs
    <2>1. job[h] \in JobRec /\ JobFits(job[h], Len(tasks))
      BY JobTask
    <2> QED BY <2>1 DEF JobFits
  <1>2. snap[job[h].kb].task # 0 => snap[job[h].kb].task \in Ids
    <2>1. snap[job[h].kb] = NoSnap => snap[job[h].kb].task = 0
      BY DEF NoSnap
    <2> QED BY <1>1, <2>1, SnapShape
  <1>3. job[h].task # 0 => job[h].task \in Ids
    BY JobTask
  <1> QED BY <1>2, <1>3 DEF Victim

\* A posted callback is in work for a task that the service has taken.
LEMMA PostedShape ==
  ASSUME Typed, NEW h \in Threads, job[h].posted
  PROVE  /\ job[h] # Idle /\ job[h].task \in Ids /\ job[h].task <= Len(tasks) /\ job[h].task # 0
         /\ job[h].status \in {"WORKING", "SUCCESS", "FAILED"}
         /\ [task |-> job[h].task, status |-> job[h].status] \in Posted
  <1>1. job[h] \in JobRec /\ JobFits(job[h], Len(tasks)) /\ job[h] # Idle
    BY JobTask, IdleFits
  <1>2. /\ job[h].todo \in Seq(Ops) /\ Len(job[h].todo) >= 1 /\ Told(job[h])
        /\ Ordered(job[h].todo, job[h].task)
    BY <1>1 DEF JobFits, JobRec
  <1>3. 1 \in 1..Len(job[h].todo)
    BY <1>2
  <1>4. job[h].todo[1] \notin Asking /\ job[h].status \in {"WORKING", "SUCCESS", "FAILED"}
    BY <1>2, <1>3 DEF Told
  <1>5. job[h].task # 0 /\ job[h].task \in Ids
    BY <1>2, <1>3, <1>4, JobTask DEF Ordered
  <1>6. job[h].task <= Len(tasks)
    BY JobTask
  <1> QED BY <1>1, <1>4, <1>5, <1>6 DEF Posted

LEMMA RaiseTyped ==
  ASSUME Typed, NEW h \in Threads, Raise(h)
  PROVE  /\ Typed' /\ UNCHANGED <<upload, bound, snap, tasks, stage, nodes, asked>>
         /\ job[h] # Idle /\ job' = [job EXCEPT ![h] = Idle]
         /\ job[h].todo # << >> /\ job[h].todo[1] # "submit" /\ hurt' = hurt \cup Victim(h)
         /\ outbox' = IF job[h].posted
                      THEN Append(outbox, [task |-> job[h].task, status |-> job[h].status])
                      ELSE outbox
  <1>1. /\ UNCHANGED <<upload, bound, snap, tasks, stage, nodes, asked>>
        /\ job[h] # Idle /\ job' = [job EXCEPT ![h] = Idle] /\ Trouble(Victim(h))
        /\ Head(job[h].todo) # "submit"
        /\ outbox' = IF job[h].posted
                     THEN Append(outbox, [task |-> job[h].task, status |-> job[h].status])
                     ELSE outbox
    BY DEF Raise, rows
  <1>2. job[h].todo # << >> /\ job[h].todo[1] # "submit"
    <2>1. job[h].todo # << >>
      <3>1. job[h] \in JobRec /\ JobFits(job[h], Len(tasks))
        BY JobTask
      <3> QED BY <1>1, <3>1 DEF JobFits
    <2> QED BY <1>1, <2>1, HeadIs
  <1>3. HistoryFits' /\ hurt' = hurt \cup Victim(h)
    BY <1>1, VictimFits, TroubleFits DEF Trouble
  <1>4. JobsFit' /\ Drawn' /\ RowsFit'
    BY <1>1, IdleFits, JobStep, Frame
  <1>5. ParserFits'
    <2>1. CASE job[h].posted
      <3>1. PICK cb \in Posted : /\ cb = [task |-> job[h].task, status |-> job[h].status]
                                 /\ cb.task <= Len(tasks)
        BY <2>1, PostedShape
      <3>2. outbox \in Seq(Posted) /\ \A p \in 1..Len(outbox) : outbox[p].task <= Len(tasks)
        BY DEF Typed, ParserFits
      <3>3. /\ Append(outbox, cb) \in Seq(Posted)
            /\ \A p \in 1..Len(Append(outbox, cb)) : Append(outbox, cb)[p].task <= Len(tasks)
        BY <3>1, <3>2, AppendFits, Shape
      <3>4. outbox' = Append(outbox, cb)
        BY <1>1, <2>1, <3>1
      <3> QED BY <1>1, <3>3, <3>4, OutboxFits
    <2>2. CASE ~job[h].posted
      BY <1>1, <2>2, Frame
    <2> QED BY <2>1, <2>2
  <1> QED BY <1>1, <1>2, <1>3, <1>4, <1>5 DEF Typed

LEMMA CrashTyped ==
  ASSUME Typed, Crash
  PROVE  /\ Typed' /\ UNCHANGED <<upload, bound, snap, tasks, stage, nodes, outbox, asked>>
         /\ job' = [h \in Threads |-> Idle]
         /\ hurt' = hurt \cup UNION {Victim(h) : h \in {g \in Threads : job[g] # Idle}}
  <1>1. PICK S : S = UNION {Victim(h) : h \in {g \in Threads : job[g] # Idle}}
    OBVIOUS
  <1>2. /\ UNCHANGED <<upload, bound, snap, tasks, stage, nodes, outbox, asked>>
        /\ Trouble(S) /\ job' = [h \in Threads |-> Idle]
    BY <1>1 DEF Crash, rows, parser
  <1>3. S \subseteq Ids
    BY <1>1, VictimFits
  <1>4. HistoryFits' /\ hurt' = hurt \cup S
    BY <1>2, <1>3, TroubleFits DEF Trouble
  <1>5. JobsFit'
    BY <1>2, IdleFits DEF JobsFit
  <1>6. Drawn'
    <2>1. Ahead' = {}
      BY <1>2, IdleFits DEF Ahead
    <2>2. IsFiniteSet({}) /\ Cardinality({}) = 0
      BY FS_EmptySet
    <2>3. Len(tasks) \in Nat /\ asked \in Nat /\ Len(tasks) + Cardinality(Ahead) <= asked
          /\ Cardinality(Ahead) \in Nat
      BY Shape, FS_CardinalityType DEF Typed, Drawn
    <2>4. Len(tasks') + 0 <= asked' /\ asked' \in 0..MaxTasks
      BY <1>2, <2>3, Shape
    <2> QED BY <2>1, <2>2, <2>4 DEF Drawn
  <1> QED BY <1>1, <1>2, <1>4, <1>5, <1>6, Frame DEF Typed

LEMMA ParseTyped ==
  ASSUME Typed, NEW id \in Ids, NEW s,
         \/ Claim(id) /\ s = "WORKING"
         \/ Finish(id, s) /\ s \in {"SUCCESS", "FAILED"}
  PROVE  /\ Typed' /\ UNCHANGED <<upload, bound, snap, tasks, job, asked, hurt, troubles>>
         /\ id \in 1..Len(tasks)
         /\ outbox' = Append(outbox, [task |-> id, status |-> s])
         /\ [task |-> id, status |-> s] \in Posted
         /\ \/ s = "WORKING" /\ stage[id] = "queued" /\ stage' = [stage EXCEPT ![id] = "running"]
            \/ /\ s \in {"SUCCESS", "FAILED"} /\ stage[id] = "running"
               /\ stage' = [stage EXCEPT ![id] = "done"]
  <1>1. /\ UNCHANGED <<upload, bound, snap, tasks, job, asked, hurt, troubles>>
        /\ outbox' = Append(outbox, [task |-> id, status |-> s])
        /\ \/ s = "WORKING" /\ stage[id] = "queued" /\ stage' = [stage EXCEPT ![id] = "running"]
           \/ /\ s \in {"SUCCESS", "FAILED"} /\ stage[id] = "running"
              /\ stage' = [stage EXCEPT ![id] = "done"]
    BY DEF Claim, Finish, rows, mishaps
  <1>2. id \in 1..Len(tasks)
    <2>1. id <= Len(tasks)
      BY <1>1 DEF Typed, ParserFits
    <2> QED BY <2>1, Shape
  <1>3. PICK cb \in Posted : cb = [task |-> id, status |-> s] /\ cb.task = id
    BY <1>1 DEF Posted
  <1>4. nodes' \subseteq Kbs
    <2>1. tasks[id] \in TaskRec
      BY <1>2, Shape
    <2>2. tasks[id].kb \in Kbs /\ nodes \subseteq Kbs
      BY <2>1 DEF TaskRec, Typed, ParserFits
    <2> DEFINE k == tasks[id].kb
               effect == CASE tasks[id].type = "DELETE" -> nodes \ {k}
                           [] tasks[id].type = "META" -> nodes
                           [] OTHER -> nodes \cup {k}
    <2>3. effect \subseteq Kbs
      BY <2>2
    <2>4. nodes' = nodes \/ nodes' = effect \/ nodes' = nodes \ {k}
      BY DEF Claim, Finish
    <2> QED BY <2>2, <2>3, <2>4
  <1>5. ParserFits'
    <2>1. outbox \in Seq(Posted) /\ \A p \in 1..Len(outbox) : outbox[p].task <= Len(tasks)
      BY DEF Typed, ParserFits
    <2>2. /\ outbox' \in Seq(Posted) /\ \A p \in 1..Len(outbox') : outbox'[p].task <= Len(tasks)
      <3>1. cb.task <= Len(tasks)
        BY <1>2, <1>3
      <3>2. /\ Append(outbox, cb) \in Seq(Posted)
            /\ \A p \in 1..Len(Append(outbox, cb)) : Append(outbox, cb)[p].task <= Len(tasks)
        BY <2>1, <3>1, AppendFits, Shape
      <3> QED BY <1>1, <1>3, <3>2
    <2>3. stage' \in [Ids -> Stages] /\ \A i \in Ids : i # id => stage'[i] = stage[i]
      BY <1>1, Shape DEF Stages
    <2>4. ASSUME NEW i \in Ids, stage'[i] # "none" PROVE i <= Len(tasks)
      <3>1. CASE i = id
        BY <1>2, <3>1
      <3>2. CASE i # id
        BY <2>3, <2>4, <3>2 DEF Typed, ParserFits
      <3> QED BY <3>1, <3>2
    <2> QED BY <1>1, <1>4, <2>2, <2>3, <2>4 DEF ParserFits
  <1>6. RowsFit' /\ HistoryFits' /\ JobsFit' /\ Drawn'
    BY <1>1, Frame
  <1> QED BY <1>1, <1>2, <1>3, <1>5, <1>6 DEF Typed

-----------------------------------------------------------------------------
(* Every step, and the theorem on types.                                   *)

Posts == \E id \in Ids, s \in {"WORKING", "SUCCESS", "FAILED"} :
           \/ Claim(id) /\ s = "WORKING"
           \/ Finish(id, s) /\ s \in {"SUCCESS", "FAILED"}

\* The steps that the invariants below tell apart.
Steps ==
  \/ \E h \in Threads :
       \/ Begins(h) \/ Moves(h) \/ Enqueue(h) \/ Submit(h) \/ WriteTask(h) \/ WriteSnap(h)
       \/ ParserCancel(h) \/ CancelRead(h) \/ Receive(h) \/ Raise(h)
  \/ Undelivered \/ Crash \/ Posts

LEMMA NextSteps ==
  ASSUME Typed, Owned, Next
  PROVE  Typed' /\ Steps
  <1>1. CASE \E h \in Threads, k \in Kbs :
               Upload(h, k) \/ Reparse(h, k) \/ Delete(h, k) \/ PatchMetadata(h, k)
    BY <1>1, RequestTyped DEF Steps
  <1>2. CASE \E h \in Threads, id \in Ids : CancelTask(h, id)
    BY <1>2, CancelTaskTyped DEF Steps
  <1>3. ASSUME NEW h \in Threads, Receive(h) \/ Raise(h) PROVE Typed' /\ Steps
    BY <1>3, ReceiveTyped, RaiseTyped DEF Steps
  <1>4. ASSUME NEW h \in Threads, Work(h) PROVE Typed' /\ Steps
    <2>1. CASE Enqueue(h)
      BY <2>1, EnqueueTyped DEF Steps
    <2>2. CASE Submit(h)
      BY <2>2, SubmitTyped DEF Steps
    <2>3. CASE WriteTask(h) \/ WriteSnap(h)
      BY <2>3, WriteTyped DEF Steps
    <2>4. CASE ParserCancel(h)
      BY <2>4, ParserCancelTyped DEF Steps
    <2>5. CASE CancelRead(h)
      BY <2>5, CancelReadTyped DEF Steps
    <2>6. CASE PurgeRel(h)
      BY <2>6, PurgeRelTyped DEF Steps
    <2>7. CASE \/ Bind(h) \/ Mark(h) \/ WriteDoc(h) \/ WriteDeletedDoc(h) \/ Count(h) \/ Unbind(h)
               \/ PurgeSnap(h) \/ PurgeSync(h)
      BY <2>7, MovesTyped DEF Steps
    <2> QED BY <1>4, <2>1, <2>2, <2>3, <2>4, <2>5, <2>6, <2>7 DEF Work
  <1>5. CASE Undelivered \/ Crash
    BY <1>5, UndeliveredTyped, CrashTyped DEF Steps
  <1>6. CASE Parse
    <2>1. PICK id \in Ids, s \in {"WORKING", "SUCCESS", "FAILED"} :
            \/ Claim(id) /\ s = "WORKING"
            \/ Finish(id, s) /\ s \in {"SUCCESS", "FAILED"}
      BY <1>6 DEF Parse
    <2> QED BY <2>1, ParseTyped DEF Steps, Posts
  <1> QED BY <1>1, <1>2, <1>3, <1>4, <1>5, <1>6 DEF Next

\* Steps that leave the records of the tasks alone, and bring no snapshot up.
LEMMA OwnedFrame ==
  ASSUME Typed, Owned, tasks' = tasks, \A k \in Kbs : snap'[k] \in {snap[k], NoSnap},
         \A h \in Threads : \/ job'[h] = job[h] \/ job'[h].task = 0
                            \/ SameJob(job'[h], job[h])
                            \/ /\ tasks[job'[h].task].kb = job'[h].kb
                               /\ tasks[job'[h].task].type = job'[h].type
  PROVE  Owned'
  <1>1. ASSUME NEW k \in Kbs, snap'[k] # NoSnap
        PROVE  tasks'[snap'[k].task].kb = k /\ tasks'[snap'[k].task].type = snap'[k].type
    <2>1. snap'[k] = snap[k]
      BY <1>1
    <2> QED BY <1>1, <2>1 DEF Owned
  <1>2. ASSUME NEW h \in Threads, job'[h].task # 0
        PROVE  tasks'[job'[h].task].kb = job'[h].kb /\ tasks'[job'[h].task].type = job'[h].type
    <2>1. PICK j : j = job'[h]
      OBVIOUS
    <2>2. CASE j = job[h] \/ SameJob(j, job[h])
      BY <1>2, <2>1, <2>2 DEF Owned, SameJob
    <2>3. CASE tasks[j.task].kb = j.kb /\ tasks[j.task].type = j.type
      BY <2>1, <2>3
    <2> QED BY <1>2, <2>1, <2>2, <2>3
  <1> QED BY <1>1, <1>2 DEF Owned

\* A step of one thread changes its job only.
LEMMA OneJob ==
  ASSUME Typed, NEW h \in Threads, NEW j2, job' = [job EXCEPT ![h] = j2]
  PROVE  job'[h] = j2 /\ \A g \in Threads : g # h => job'[g] = job[g]
  BY Shape

LEMMA OwnedEnqueue ==
  ASSUME Typed, Owned, NEW h \in Threads, Enqueue(h)
  PROVE  Owned'
  <1>1. PICK j2 \in JobRec, status \in {"DELETING", "WAITING"} :
          /\ job' = [job EXCEPT ![h] = j2] /\ JobFits(j2, Len(tasks) + 1)
          /\ j2.kb = job[h].kb /\ j2.type = job[h].type /\ j2.task = Len(tasks) + 1
          /\ tasks' = Append(tasks, [type |-> job[h].type, kb |-> job[h].kb, status |-> status])
          /\ SetSnap(job[h].kb, status, Len(tasks) + 1, job[h].type)
    BY EnqueueTyped
  <1>2. PICK k \in Kbs, type \in Types, id \in 1..MaxTasks, t \in TaskRec :
          /\ k = job[h].kb /\ type = job[h].type /\ id = Len(tasks) + 1
          /\ t = [type |-> type, kb |-> k, status |-> status]
          /\ t.kb = k /\ t.type = type /\ status \in Statuses
    <2>1. job[h].kb \in Kbs /\ job[h].type \in Types /\ Len(tasks) + 1 \in 1..MaxTasks
      BY EnqueueTyped, HeadIs
    <2>2. status \in Statuses
      BY DEF Statuses
    <2>3. PICK t : t = [type |-> job[h].type, kb |-> job[h].kb, status |-> status]
      OBVIOUS
    <2>4. t \in TaskRec /\ t.kb = job[h].kb /\ t.type = job[h].type
      BY <2>1, <2>2, <2>3 DEF TaskRec
    <2> QED BY <2>1, <2>2, <2>3, <2>4
  <1>3. /\ tasks' = Append(tasks, t) /\ tasks'[id] = t
        /\ \A i \in 1..Len(tasks) : tasks'[i] = tasks[i]
    BY <1>1, <1>2, Shape
  <1>4. /\ snap'[k].task = id /\ snap'[k].type = type
        /\ \A m \in Kbs : m # k => snap'[m] = snap[m]
    <2>1. Len(tasks) <= Len(tasks) + 1 /\ Len(tasks) + 1 \in Nat /\ id <= Len(tasks) + 1
      BY <1>2, Shape
    <2> QED BY <1>1, <1>2, <2>1, SetSnapFits
  <1>5. ASSUME NEW m \in Kbs, snap'[m] # NoSnap
        PROVE  tasks'[snap'[m].task].kb = m /\ tasks'[snap'[m].task].type = snap'[m].type
    <2>1. CASE m = k
      BY <1>2, <1>3, <1>4, <2>1
    <2>2. CASE m # k
      <3>1. snap'[m] = snap[m] /\ snap[m].task \in 1..Len(tasks)
        BY <1>4, <1>5, <2>2, SnapShape
      <3> QED BY <1>3, <1>5, <3>1 DEF Owned
    <2> QED BY <2>1, <2>2
  <1>6. ASSUME NEW g \in Threads, job'[g].task # 0
        PROVE  tasks'[job'[g].task].kb = job'[g].kb /\ tasks'[job'[g].task].type = job'[g].type
    <2>1. CASE g = h
      <3>1. job'[g] = j2
        BY <1>1, <2>1, OneJob
      <3>2. j2.task = id /\ j2.kb = k /\ j2.type = type
        BY <1>1, <1>2
      <3> QED BY <1>2, <1>3, <3>1, <3>2
    <2>2. CASE g # h
      <3>1. job'[g] = job[g] /\ job[g].task \in 1..Len(tasks)
        BY <1>1, <1>6, <2>2, OneJob, JobTask
      <3> QED BY <1>3, <1>6, <3>1 DEF Owned
    <2> QED BY <2>1, <2>2
  <1> QED BY <1>5, <1>6 DEF Owned

\* What the writes of a record and of a snapshot are.
LEMMA WriteTaskIs ==
  ASSUME Typed, NEW h \in Threads, WriteTask(h)
  PROVE  /\ job[h].todo[1] \in {"failTask", "startTask", "finTask"} /\ job[h].task \in 1..Len(tasks)
         /\ snap' = snap
         /\ \E status \in Statuses :
              /\ SetTask(job[h].task, status)
              /\ job[h].todo[1] = "failTask" => status = "FAILED"
              /\ job[h].todo[1] = "startTask" => status = "WORKING"
              /\ job[h].todo[1] = "finTask" =>
                   status = IF job[h].type = "DELETE" /\ job[h].status = "SUCCESS"
                            THEN "DELETED" ELSE job[h].status
  <1>1. /\ job[h].todo # << >> /\ job[h].todo[1] \in {"failTask", "startTask", "finTask"}
        /\ snap' = snap
    BY DoesHead DEF WriteTask
  <1>2. /\ job[h].task \in 1..Len(tasks) /\ Told(job[h]) /\ 1 \in 1..Len(job[h].todo)
    <2>1. job[h].task \in 0..Len(tasks) /\ job[h].task # 0
      BY <1>1, HeadIs
    <2>2. Len(job[h].todo) \in Nat /\ Len(job[h].todo) >= 1 /\ Told(job[h])
      BY <1>1, HeadIs
    <2> QED BY <2>1, <2>2, Shape
  <1>3. {"FAILED", "WORKING", "DELETED"} \subseteq Statuses /\ Outcomes \subseteq Statuses
    BY DEF Statuses, Settled, Outcomes
  <1>4. CASE Does(h, "failTask") /\ SetTask(job[h].task, "FAILED")
    BY <1>1, <1>2, <1>3, <1>4, DoesHead
  <1>5. CASE Does(h, "startTask") /\ SetTask(job[h].task, "WORKING")
    BY <1>1, <1>2, <1>3, <1>5, DoesHead
  <1>6. CASE /\ Does(h, "finTask")
             /\ SetTask(job[h].task, IF job[h].type = "DELETE" /\ job[h].status = "SUCCESS"
                                     THEN "DELETED" ELSE job[h].status)
    <2>1. job[h].todo[1] = "finTask"
      BY <1>6, DoesHead
    <2>2. job[h].status \in Outcomes
      BY <1>2, <2>1 DEF Told, Ending
    <2> QED BY <1>1, <1>2, <1>3, <1>6, <2>1, <2>2
  <1> QED BY <1>4, <1>5, <1>6 DEF WriteTask

LEMMA WriteSnapIs ==
  ASSUME Typed, NEW h \in Threads, WriteSnap(h)
  PROVE  /\ job[h].todo[1] \in {"failSnap", "startSnap", "finSnap"} /\ job[h].task \in 1..Len(tasks)
         /\ job[h].kb \in Kbs /\ job[h].type \in Types /\ tasks' = tasks
         /\ \E status \in Statuses :
              /\ SetSnap(job[h].kb, status, job[h].task, job[h].type)
              /\ job[h].todo[1] = "failSnap" => status = "FAILED"
              /\ job[h].todo[1] = "startSnap" =>
                   status = IF job[h].type = "DELETE" THEN "DELETING" ELSE "WORKING"
              /\ job[h].todo[1] = "finSnap" =>
                   status = IF job[h].type = "DELETE" /\ job[h].status = "SUCCESS"
                            THEN "DELETED" ELSE job[h].status
  <1>1. /\ job[h].todo # << >> /\ job[h].todo[1] \in {"failSnap", "startSnap", "finSnap"}
        /\ tasks' = tasks
    BY DoesHead DEF WriteSnap
  <1>2. /\ job[h].task \in 1..Len(tasks) /\ Told(job[h]) /\ 1 \in 1..Len(job[h].todo)
        /\ job[h].kb \in Kbs /\ job[h].type \in Types
    <2>1. job[h].task \in 0..Len(tasks) /\ job[h].task # 0
      BY <1>1, HeadIs
    <2>2. /\ Len(job[h].todo) \in Nat /\ Len(job[h].todo) >= 1 /\ Told(job[h])
          /\ job[h].kb \in Kbs /\ job[h].type \in Types
      BY <1>1, HeadIs
    <2> QED BY <2>1, <2>2, Shape
  <1>3. {"FAILED", "WORKING", "DELETED", "DELETING"} \subseteq Statuses /\ Outcomes \subseteq Statuses
    BY DEF Statuses, Settled, Outcomes
  <1>4. CASE Does(h, "failSnap") /\ SetSnap(job[h].kb, "FAILED", job[h].task, job[h].type)
    BY <1>1, <1>2, <1>3, <1>4, DoesHead
  <1>5. CASE /\ Does(h, "startSnap")
             /\ SetSnap(job[h].kb, IF job[h].type = "DELETE" THEN "DELETING" ELSE "WORKING",
                        job[h].task, job[h].type)
    BY <1>1, <1>2, <1>3, <1>5, DoesHead
  <1>6. CASE /\ Does(h, "finSnap")
             /\ SetSnap(job[h].kb, IF job[h].type = "DELETE" /\ job[h].status = "SUCCESS"
                                   THEN "DELETED" ELSE job[h].status, job[h].task, job[h].type)
    <2>1. job[h].todo[1] = "finSnap"
      BY <1>6, DoesHead
    <2>2. job[h].status \in Outcomes
      BY <1>2, <2>1 DEF Told, Ending
    <2> QED BY <1>1, <1>2, <1>3, <1>6, <2>1, <2>2
  <1> QED BY <1>4, <1>5, <1>6 DEF WriteSnap

LEMMA OwnedWrites ==
  ASSUME Typed, Owned, NEW h \in Threads, WriteTask(h) \/ WriteSnap(h)
  PROVE  Owned'
  <1>1. PICK j2 \in JobRec : Follows(j2, job[h]) /\ job' = [job EXCEPT ![h] = j2]
    BY WriteTyped
  <1>2. \A i \in 1..Len(tasks) : tasks'[i].kb = tasks[i].kb /\ tasks'[i].type = tasks[i].type
    <2>1. CASE WriteTask(h)
      <3>1. PICK status \in Statuses : SetTask(job[h].task, status) /\ job[h].task \in 1..Len(tasks)
        BY <2>1, WriteTaskIs
      <3> QED BY <3>1, SetTaskFits
    <2>2. CASE WriteSnap(h)
      BY <2>2, WriteSnapIs
    <2> QED BY <2>1, <2>2
  <1>3. \A k \in Kbs : \/ snap'[k] = snap[k]
                       \/ /\ WriteSnap(h) /\ k = job[h].kb /\ snap'[k].task = job[h].task
                          /\ snap'[k].type = job[h].type
    <2>1. CASE WriteTask(h)
      BY <2>1, WriteTaskIs
    <2>2. CASE WriteSnap(h)
      <3>1. PICK status \in Statuses : /\ SetSnap(job[h].kb, status, job[h].task, job[h].type)
                                       /\ job[h].task \in 1..Len(tasks)
                                       /\ job[h].kb \in Kbs /\ job[h].type \in Types
        BY <2>2, WriteSnapIs
      <3>2. Len(tasks) <= Len(tasks) /\ job[h].task <= Len(tasks) /\ job[h].task \in 1..MaxTasks
        BY <3>1, Shape
      <3>3. Len(tasks) \in Nat
        BY Shape
      <3>4. /\ snap'[job[h].kb].task = job[h].task /\ snap'[job[h].kb].type = job[h].type
            /\ \A m \in Kbs : m # job[h].kb => snap'[m] = snap[m]
        BY <3>1, <3>2, <3>3, SetSnapFits
      <3> QED BY <2>2, <3>4
    <2> QED BY <2>1, <2>2
  <1>4. ASSUME NEW k \in Kbs, snap'[k] # NoSnap
        PROVE  tasks'[snap'[k].task].kb = k /\ tasks'[snap'[k].task].type = snap'[k].type
    <2>1. CASE snap'[k] = snap[k]
      <3>1. snap[k].task \in 1..Len(tasks)
        BY <1>4, <2>1, SnapShape
      <3> QED BY <1>2, <1>4, <2>1, <3>1 DEF Owned
    <2>2. CASE /\ WriteSnap(h) /\ k = job[h].kb /\ snap'[k].task = job[h].task
               /\ snap'[k].type = job[h].type
      <3>1. job[h].task \in 1..Len(tasks) /\ job[h].task # 0
        BY <2>2, WriteSnapIs
      <3> QED BY <1>2, <2>2, <3>1 DEF Owned
    <2> QED BY <1>3, <2>1, <2>2
  <1>5. ASSUME NEW g \in Threads, job'[g].task # 0
        PROVE  tasks'[job'[g].task].kb = job'[g].kb /\ tasks'[job'[g].task].type = job'[g].type
    <2>1. job'[g] = job[g] \/ SameJob(job'[g], job[g])
      <3>1. CASE g = h
        <4>1. job'[g] = j2 /\ j2 # Idle
          BY <1>1, <1>5, <3>1, OneJob, IdleFits
        <4> QED BY <1>1, <3>1, <4>1 DEF Follows, SameJob
      <3>2. CASE g # h
        BY <1>1, <3>2, OneJob
      <3> QED BY <3>1, <3>2
    <2>2. PICK j : j = job'[g]
      OBVIOUS
    <2>3. j.task = job[g].task /\ j.kb = job[g].kb /\ j.type = job[g].type
      BY <2>1, <2>2 DEF SameJob
    <2>4. job[g].task \in 1..Len(tasks)
      BY <1>5, <2>2, <2>3, JobTask
    <2>5. tasks[j.task].kb = j.kb /\ tasks[j.task].type = j.type
      BY <1>5, <2>2, <2>3 DEF Owned
    <2> QED BY <1>2, <2>2, <2>3, <2>4, <2>5
  <1> QED BY <1>4, <1>5 DEF Owned

LEMMA OwnedSteps ==
  ASSUME Typed, Owned, Steps
  PROVE  Owned'
  <1>1. ASSUME NEW h \in Threads, NEW j2, job' = [job EXCEPT ![h] = j2], tasks' = tasks,
               \A k \in Kbs : snap'[k] \in {snap[k], NoSnap},
               \/ j2 = Idle \/ SameJob(j2, job[h]) \/ j2.task = 0
               \/ tasks[j2.task].kb = j2.kb /\ tasks[j2.task].type = j2.type
        PROVE  Owned'
    <2>1. job'[h] = j2 /\ \A g \in Threads : g # h => job'[g] = job[g]
      BY <1>1, OneJob
    <2>2. Idle.task = 0
      BY IdleFits
    <2>3. ASSUME NEW g \in Threads
          PROVE  \/ job'[g] = job[g] \/ job'[g].task = 0 \/ SameJob(job'[g], job[g])
                 \/ tasks[job'[g].task].kb = job'[g].kb /\ tasks[job'[g].task].type = job'[g].type
      <3>1. CASE g = h
        BY <1>1, <2>1, <2>2, <3>1
      <3>2. CASE g # h
        BY <2>1, <3>2
      <3> QED BY <3>1, <3>2
    <2> QED BY <1>1, <2>3, OwnedFrame
  <1>2. ASSUME NEW h \in Threads, Begins(h) PROVE Owned'
    <2>1. PICK j2 \in JobRec :
            /\ job' = [job EXCEPT ![h] = j2] /\ snap' = snap /\ tasks' = tasks
            /\ j2.task = 0 \/ (tasks[j2.task].kb = j2.kb /\ tasks[j2.task].type = j2.type)
      BY <1>2 DEF Begins
    <2> QED BY <1>1, <2>1
  <1>3. ASSUME NEW h \in Threads, Moves(h) PROVE Owned'
    BY <1>1, <1>3 DEF Moves
  <1>4. ASSUME NEW h \in Threads, Submit(h) PROVE Owned'
    <2>1. PICK j2 \in JobRec : /\ job' = [job EXCEPT ![h] = j2]
                               /\ Follows(j2, job[h]) \/ SameJob(j2, job[h])
      BY <1>4, SubmitTyped
    <2>2. snap' = snap /\ tasks' = tasks /\ (j2 = Idle \/ SameJob(j2, job[h]))
      BY <1>4, <2>1, SubmitTyped DEF Follows, SameJob
    <2> QED BY <1>1, <2>1, <2>2
  <1>5. ASSUME NEW h \in Threads, ParserCancel(h) PROVE Owned'
    <2>1. PICK j2 \in JobRec : /\ job' = [job EXCEPT ![h] = j2]
                               /\ j2 = Idle \/ Follows(j2, job[h])
      BY <1>5, ParserCancelTyped
    <2>2. snap' = snap /\ tasks' = tasks /\ (j2 = Idle \/ SameJob(j2, job[h]))
      BY <1>5, <2>1, ParserCancelTyped DEF Follows, SameJob
    <2> QED BY <1>1, <2>1, <2>2
  <1>6. ASSUME NEW h \in Threads, CancelRead(h) PROVE Owned'
    <2>1. PICK j2 \in JobRec : /\ job' = [job EXCEPT ![h] = j2]
                               /\ \/ j2 = Idle
                                  \/ /\ j2.kb = job[h].kb /\ j2.type = job[h].type
                                     /\ j2.task = job[h].task
      BY <1>6, CancelReadTyped
    <2>2. snap' = snap /\ tasks' = tasks /\ job[h].task # 0
      BY <1>6, CancelReadTyped
    <2>3. j2 = Idle \/ (tasks[j2.task].kb = j2.kb /\ tasks[j2.task].type = j2.type)
      BY <2>1, <2>2 DEF Owned
    <2> QED BY <1>1, <2>1, <2>2, <2>3
  <1>7. ASSUME NEW h \in Threads, Receive(h) PROVE Owned'
    <2>1. PICK j2 \in JobRec : /\ job' = [job EXCEPT ![h] = j2]
                               /\ j2 = Idle \/ Serves(j2, Head(outbox))
      BY <1>7, ReceiveTyped
    <2>2. snap' = snap /\ tasks' = tasks
      BY <1>7, ReceiveTyped
    <2>3. j2 = Idle \/ (tasks[j2.task].kb = j2.kb /\ tasks[j2.task].type = j2.type)
      BY <2>1 DEF Serves
    <2> QED BY <1>1, <2>1, <2>2, <2>3
  <1>8. ASSUME NEW h \in Threads, Raise(h) PROVE Owned'
    BY <1>1, <1>8, RaiseTyped
  <1>9. CASE Undelivered
    BY <1>9, UndeliveredTyped, OwnedFrame
  <1>10. CASE Crash
    <2>1. \A h \in Threads : job'[h].task = 0
      BY <1>10, CrashTyped, IdleFits
    <2> QED BY <1>10, <2>1, CrashTyped, OwnedFrame
  <1>11. CASE Posts
    BY <1>11, ParseTyped, OwnedFrame DEF Posts
  <1> QED BY <1>2, <1>3, <1>4, <1>5, <1>6, <1>7, <1>8, <1>9, <1>10, <1>11, OwnedEnqueue, OwnedWrites
          DEF Steps

LEMMA InitTyped == Init => Typed /\ Owned
  <1> SUFFICES ASSUME Init PROVE Typed /\ Owned
    OBVIOUS
  <1>1. /\ upload = None /\ bound = {} /\ snap = [k \in Kbs |-> NoSnap] /\ tasks = << >>
        /\ stage = [id \in Ids |-> "none"] /\ nodes = {} /\ outbox = << >>
        /\ job = [h \in Threads |-> Idle] /\ asked = 0 /\ hurt = {} /\ troubles = 0
    BY DEF Init
  <1>2. RowsFit
    <2>1. NoSnap \in SnapRec /\ NoSnap.task = 0 /\ tasks \in Seq(TaskRec) /\ Len(tasks) = 0
      BY <1>1 DEF SnapRec, NoSnap
    <2> QED BY <1>1, <2>1 DEF RowsFit
  <1>3. ParserFits
    <2>1. outbox \in Seq(Posted) /\ Len(outbox) = 0
      BY <1>1
    <2> QED BY <1>1, <2>1 DEF ParserFits, Stages
  <1>4. JobsFit
    BY <1>1, IdleFits DEF JobsFit
  <1>5. Drawn
    <2>1. Ahead = {} /\ Len(tasks) = 0
      BY <1>1, IdleFits DEF Ahead
    <2>2. IsFiniteSet({}) /\ Cardinality({}) = 0
      BY FS_EmptySet
    <2>3. asked \in 0..MaxTasks /\ 0 + 0 <= asked
      BY <1>1, LifecycleAssumption
    <2> QED BY <2>1, <2>2, <2>3 DEF Drawn
  <1>6. HistoryFits
    BY <1>1, LifecycleAssumption DEF HistoryFits
  <1>7. Owned
    BY <1>1, IdleFits DEF Owned
  <1> QED BY <1>2, <1>3, <1>4, <1>5, <1>6, <1>7 DEF Typed

LEMMA StutterTyped ==
  ASSUME Typed, Owned, UNCHANGED vars
  PROVE  Typed' /\ Owned'
  <1>1. /\ UNCHANGED <<upload, bound, snap, tasks, stage, nodes, outbox, job, asked, hurt, troubles>>
    BY DEF vars
  <1>2. Typed'
    BY <1>1, Frame DEF Typed
  <1>3. Owned'
    BY <1>1, OwnedFrame
  <1> QED BY <1>2, <1>3

LEMMA TypedInvariant == Spec => [](Typed /\ Owned)
  <1>1. Typed /\ Owned /\ [Next]_vars => (Typed /\ Owned)'
    BY NextSteps, OwnedSteps, StutterTyped
  <1> QED BY <1>1, InitTyped, PTL DEF Spec

\* Every state of the document service is well typed: the records, the snapshots,
\* the callbacks and the lists of operations that its handlers have ahead, and no
\* more tasks are created than the requests were granted (doc_manager.py).
THEOREM TypeCorrect == Spec => []TypeOK
  BY TypedInvariant, TypedTypeOK, PTL

-----------------------------------------------------------------------------
(* What the threads that work on a task know of each other.                *)

\* Roles: a thread about to submit its task, one that records that the submission
\* failed, and one that has canceled the task; j.posted: one that serves a callback.
Submits(j) == j.todo # << >> /\ j.todo[1] = "submit"
Fails(j) == \E p \in 1..Len(j.todo) : j.todo[p] \in {"failTask", "failSnap"}
Cancels(j) == j.status = "CANCELED" \/ (j.todo # << >> /\ j.todo[1] = "cancelRead")

\* What the parsing service knows of the task of a thread in each role.
StagedJob(j) ==
  /\ Submits(j) => stage[j.task] = "none"
  /\ Fails(j) => stage[j.task] = "none" \/ j.task \in hurt
  /\ Cancels(j) => stage[j.task] = "canceled"
  /\ j.posted => stage[j.task] \in {"running", "done"}
Staged ==
  /\ \A p \in 1..Len(outbox) : stage[outbox[p].task] \in {"running", "done"}
  /\ \A h \in Threads : StagedJob(job[h])

\* Two threads have the same role for one task only if a trouble befell it.
Apart(i, j) ==
  /\ (Submits(i) \/ Fails(i)) /\ (Submits(j) \/ Fails(j)) => i.task # j.task
  /\ Cancels(i) /\ Cancels(j) => i.task # j.task
  /\ i.posted /\ j.posted => i.task \in hurt /\ j.task \in hurt
Alone == \A g, h \in Threads : g # h => Apart(job[g], job[h])

\* A thread that has written the record of its task, and is to write the snapshot.
Writing(j) == j.todo # << >> /\ j.todo[1] \in {"failSnap", "startSnap", "finSnap"}
Record(j) == CASE j.todo[1] = "failSnap" -> "FAILED"
               [] j.todo[1] = "startSnap" -> "WORKING"
               [] OTHER -> IF j.type = "DELETE" /\ j.status = "SUCCESS" THEN "DELETED"
                                                                       ELSE j.status
Written ==
  \A h \in Threads : Writing(job[h]) /\ job[h].task \notin hurt =>
    tasks[job[h].task].status = Record(job[h])

\* A snapshot agrees with its record, or a thread is about to make it agree.
Agree(k) ==
  \/ tasks[snap[k].task].status = snap[k].status
  \/ snap[k].status = "DELETING" /\ tasks[snap[k].task].status = "WORKING"
Linked ==
  \A k \in Kbs : snap[k] # NoSnap /\ snap[k].task \notin hurt =>
    Agree(k) \/ \E h \in Threads : Writing(job[h]) /\ job[h].kb = k /\ job[h].task = snap[k].task

Agreed == Typed /\ Owned /\ Staged /\ Alone /\ Written /\ Linked

LEMMA IdleRoles == ~Submits(Idle) /\ ~Fails(Idle) /\ ~Cancels(Idle) /\ ~Idle.posted /\ ~Writing(Idle)
  <1>1. Len(<< >>) = 0
    OBVIOUS
  <1> QED BY <1>1, IdleFits DEF Submits, Fails, Cancels, Writing, None

LEMMA PassiveRoles ==
  ASSUME NEW j \in JobRec, Passive(j)
  PROVE  ~Submits(j) /\ ~Fails(j) /\ ~Writing(j) /\ (Cancels(j) => j.status = "CANCELED")
  <1>1. j.todo \in Seq(Ops)
    BY DEF JobRec
  <1>2. j.todo # << >> => 1 \in 1..Len(j.todo)
    BY <1>1
  <1> QED BY <1>2 DEF Passive, Paired, Submits, Fails, Writing, Cancels

\* A list that does not begin with a record or snapshot to write has none.
LEMMA NoPair ==
  ASSUME NEW q \in Seq(Ops), NEW task, Ordered(q, task), Len(q) >= 1, q[1] \notin Paired
  PROVE  \A p \in 1..Len(q) : q[p] \notin Paired
  BY DEF Ordered, Pair, Paired

\* A thread that writes has a role.
LEMMA WriterRole ==
  ASSUME NEW len \in Nat, NEW j \in JobRec, JobFits(j, len), j.todo # << >>, j.todo[1] \in Paired
  PROVE  /\ Fails(j) \/ j.posted \/ Cancels(j)
         /\ ~Submits(j) /\ (Cancels(j) => j.status = "CANCELED") /\ j.task # 0
         /\ j.task \in 1..len /\ (Fails(j) => j.todo[1] \in {"failTask", "failSnap"})
  <1>1. /\ j.todo \in Seq(Ops) /\ Len(j.todo) >= 1 /\ Ordered(j.todo, j.task) /\ Told(j)
        /\ j.task \in 0..len
    BY BusyFits
  <1>2. 1 \in 1..Len(j.todo)
    BY <1>1
  <1>3. CASE j.todo[1] \in {"failTask", "failSnap"}
    BY <1>1, <1>2, <1>3 DEF Fails, Submits, Cancels, Ordered, Asking
  <1>4. CASE j.todo[1] \in {"startTask", "startSnap"}
    <2>1. j.posted /\ j.task # 0
      BY <1>1, <1>2, <1>4 DEF Told, Starting, Ordered, Asking
    <2>2. ~Fails(j)
      BY <1>1, <1>2, <1>4 DEF Fails, Ordered, Pair
    <2> QED BY <1>1, <1>4, <2>1, <2>2 DEF Submits, Cancels
  <1>5. CASE j.todo[1] \in {"finTask", "finSnap"}
    <2>1. (j.posted \/ j.status = "CANCELED") /\ j.task # 0
      BY <1>1, <1>2, <1>5 DEF Told, Ending, Ordered, Asking
    <2>2. ~Fails(j)
      BY <1>1, <1>2, <1>5 DEF Fails, Ordered, Pair
    <2> QED BY <1>1, <1>5, <2>1, <2>2 DEF Submits, Cancels
  <1> QED BY <1>3, <1>4, <1>5 DEF Paired

\* Two threads that write for one task were troubled.
LEMMA WritersApart ==
  ASSUME Typed, Staged, Alone, NEW g \in Threads, NEW h \in Threads, g # h,
         job[g].todo # << >>, job[g].todo[1] \in Paired,
         job[h].todo # << >>, job[h].todo[1] \in Paired, job[g].task = job[h].task
  PROVE  job[g].task \in hurt
  <1>1. \A t \in Threads : job[t] \in JobRec /\ JobFits(job[t], Len(tasks)) /\ Len(tasks) \in Nat
    BY JobTask
  <1>2. /\ Fails(job[g]) \/ job[g].posted \/ Cancels(job[g])
        /\ Fails(job[h]) \/ job[h].posted \/ Cancels(job[h])
    BY <1>1, WriterRole
  <1>3. Apart(job[g], job[h]) /\ StagedJob(job[g]) /\ StagedJob(job[h])
    BY DEF Alone, Staged
  <1> QED BY <1>2, <1>3 DEF Apart, StagedJob

\* A job that takes up no role.
Keeps(j2, j) ==
  /\ Submits(j2) => Submits(j) /\ j2.task = j.task
  /\ Fails(j2) => Fails(j) /\ j2.task = j.task
  /\ Cancels(j2) => Cancels(j) /\ j2.task = j.task
  /\ j2.posted => j.posted /\ j2.task = j.task

LEMMA RolesKept ==
  ASSUME Staged, Alone, stage' = stage, hurt \subseteq hurt',
         \A h \in Threads : Keeps(job'[h], job[h]),
         \A p \in 1..Len(outbox') : stage[outbox'[p].task] \in {"running", "done"}
  PROVE  Staged' /\ Alone'
  <1>1. ASSUME NEW h \in Threads PROVE StagedJob(job[h])'
    <2>1. StagedJob(job[h]) /\ Keeps(job'[h], job[h])
      BY DEF Staged
    <2> QED BY <2>1 DEF StagedJob, Keeps, Submits, Fails, Cancels
  <1>2. Staged'
    BY <1>1 DEF Staged
  <1>3. ASSUME NEW g \in Threads, NEW h \in Threads, g # h PROVE Apart(job[g], job[h])'
    <2>1. Apart(job[g], job[h]) /\ Keeps(job'[g], job[g]) /\ Keeps(job'[h], job[h])
      BY <1>3 DEF Alone
    <2> QED BY <2>1 DEF Apart, Keeps, Submits, Fails, Cancels
  <1>4. Alone'
    BY <1>3 DEF Alone
  <1> QED BY <1>2, <1>4

\* Steps that write no record and no snapshot but NoSnap.
LEMMA WritesKept ==
  ASSUME Typed, Written, Linked, tasks' = tasks, hurt \subseteq hurt',
         \A k \in Kbs : snap'[k] \in {snap[k], NoSnap},
         \A h \in Threads : /\ Writing(job'[h]) => job'[h] = job[h]
                            /\ Writing(job[h]) => job'[h] = job[h] \/ job[h].task \in hurt'
  PROVE  Written' /\ Linked'
  <1>1. ASSUME NEW h \in Threads, Writing(job'[h]), job'[h].task \notin hurt'
        PROVE  tasks'[job'[h].task].status = Record(job[h])'
    <2>1. job'[h] = job[h] /\ job[h].task \notin hurt /\ Writing(job[h])
      BY <1>1
    <2>2. tasks[job[h].task].status = Record(job[h])
      BY <2>1 DEF Written
    <2> QED BY <2>1, <2>2 DEF Record
  <1>2. Written'
    BY <1>1 DEF Written, Writing
  <1>3. ASSUME NEW k \in Kbs, snap'[k] # NoSnap, snap'[k].task \notin hurt'
        PROVE  \/ Agree(k)'
               \/ \E h \in Threads : Writing(job[h])' /\ job'[h].kb = k /\ job'[h].task = snap'[k].task
    <2>1. snap'[k] = snap[k] /\ snap[k].task \notin hurt
      BY <1>3
    <2>2. CASE Agree(k)
      BY <2>1, <2>2 DEF Agree
    <2>3. ASSUME NEW h \in Threads, Writing(job[h]), job[h].kb = k, job[h].task = snap[k].task
          PROVE  Writing(job[h])' /\ job'[h].kb = k /\ job'[h].task = snap'[k].task
      BY <1>3, <2>1, <2>3 DEF Writing
    <2>4. Agree(k) \/ \E h \in Threads : Writing(job[h]) /\ job[h].kb = k /\ job[h].task = snap[k].task
      BY <1>3, <2>1 DEF Linked
    <2> QED BY <2>2, <2>3, <2>4
  <1>4. Linked'
    BY <1>3 DEF Linked
  <1> QED BY <1>2, <1>4

LEMMA OneKeeps ==
  ASSUME Typed, NEW h \in Threads, NEW j2, job' = [job EXCEPT ![h] = j2], Keeps(j2, job[h])
  PROVE  \A g \in Threads : Keeps(job'[g], job[g])
  <1>1. \A g \in Threads : Keeps(job[g], job[g])
    BY DEF Keeps
  <1> QED BY <1>1, OneJob

LEMMA OneWrites ==
  ASSUME Typed, NEW h \in Threads, NEW j2, job' = [job EXCEPT ![h] = j2], ~Writing(j2),
         ~Writing(job[h]) \/ job[h].task \in hurt'
  PROVE  \A g \in Threads : /\ Writing(job'[g]) => job'[g] = job[g]
                            /\ Writing(job[g]) => job'[g] = job[g] \/ job[g].task \in hurt'
  BY OneJob

\* One thread takes up no role and writes nothing.
LEMMA QuietStep ==
  ASSUME Agreed, NEW h \in Threads, NEW j2, job' = [job EXCEPT ![h] = j2], Keeps(j2, job[h]),
         ~Writing(j2), ~Writing(job[h]) \/ job[h].task \in hurt',
         tasks' = tasks, stage' = stage, hurt \subseteq hurt',
         \A k \in Kbs : snap'[k] \in {snap[k], NoSnap},
         \A p \in 1..Len(outbox') : stage[outbox'[p].task] \in {"running", "done"}
  PROVE  Staged' /\ Alone' /\ Written' /\ Linked'
  <1>1. Staged' /\ Alone'
    BY OneKeeps, RolesKept DEF Agreed
  <1>2. Written' /\ Linked'
    BY OneWrites, WritesKept DEF Agreed
  <1> QED BY <1>1, <1>2

LEMMA AgreedBegins ==
  ASSUME Agreed, NEW h \in Threads, Begins(h)
  PROVE  Staged' /\ Alone' /\ Written' /\ Linked'
  <1>1. PICK j2 \in JobRec :
          /\ job[h] = Idle /\ job' = [job EXCEPT ![h] = j2] /\ JobFits(j2, Len(tasks))
          /\ j2.status = None /\ ~j2.posted /\ j2.todo # << >>
          /\ j2.todo[1] \in {"bind", "mark", "enqueue", "parserCancel"}
          /\ \/ \A p \in 1..Len(j2.todo) : j2.todo[p] \in Canceling \cup Purging
             \/ \A p \in 1..Len(j2.todo) : j2.todo[p] \in Asking
          /\ UNCHANGED <<upload, bound, snap, tasks, stage, nodes, outbox, hurt, troubles>>
    BY DEF Begins
  <1>2. ~Submits(j2) /\ ~Fails(j2) /\ ~Cancels(j2) /\ ~Writing(j2)
    BY <1>1 DEF Submits, Fails, Cancels, Writing, Canceling, Purging, Asking, None
  <1>3. Keeps(j2, job[h])
    BY <1>1, <1>2 DEF Keeps
  <1>4. ~Writing(job[h])
    BY <1>1, IdleRoles
  <1>5. Staged
    BY DEF Agreed
  <1> QED BY <1>1, <1>2, <1>3, <1>4, <1>5, QuietStep DEF Staged

LEMMA AgreedMoves ==
  ASSUME Agreed, NEW h \in Threads, Moves(h)
  PROVE  Staged' /\ Alone' /\ Written' /\ Linked'
  <1>1. PICK j2 \in JobRec :
          /\ Passive(job[h]) /\ Passive(j2)
          /\ j2 = Idle \/ SameJob(j2, job[h])
          /\ job' = [job EXCEPT ![h] = j2]
          /\ \A k \in Kbs : snap'[k] \in {snap[k], NoSnap}
          /\ UNCHANGED <<tasks, stage, nodes, outbox, hurt, troubles>>
    BY DEF Moves
  <1>2. job[h] \in JobRec
    BY JobTask DEF Agreed
  <1>3. Keeps(j2, job[h]) /\ ~Writing(j2) /\ ~Writing(job[h])
    <2>1. ~Submits(j2) /\ ~Fails(j2) /\ ~Writing(j2) /\ (Cancels(j2) => j2.status = "CANCELED")
      BY <1>1, PassiveRoles
    <2>2. ~Writing(job[h])
      BY <1>1, <1>2, PassiveRoles
    <2>3. CASE j2 = Idle
      BY <2>2, <2>3, IdleRoles DEF Keeps
    <2>4. CASE SameJob(j2, job[h])
      BY <2>1, <2>2, <2>4 DEF Keeps, SameJob, Cancels
    <2> QED BY <1>1, <2>3, <2>4
  <1>4. Staged
    BY DEF Agreed
  <1> QED BY <1>1, <1>3, <1>4, QuietStep DEF Staged

LEMMA AgreedCancelRead ==
  ASSUME Agreed, NEW h \in Threads, CancelRead(h)
  PROVE  Staged' /\ Alone' /\ Written' /\ Linked'
  <1>1. Typed /\ Staged
    BY DEF Agreed
  <1>2. PICK j2 \in JobRec :
          /\ job' = [job EXCEPT ![h] = j2] /\ JobFits(j2, Len(tasks))
          /\ \/ j2 = Idle
             \/ /\ j2.kb = job[h].kb /\ j2.type = job[h].type /\ j2.task = job[h].task
                /\ j2.status = "CANCELED" /\ ~j2.posted
          /\ \/ \A p \in 1..Len(j2.todo) : j2.todo[p] \in Purging
             \/ Writer(j2.todo, "finTask", "finSnap", FinishRest \cup Purging)
    BY <1>1, CancelReadTyped
  <1>3. /\ job[h].todo # << >> /\ job[h].todo[1] = "cancelRead"
        /\ UNCHANGED <<upload, bound, snap, tasks, stage, nodes, outbox, asked, hurt, troubles>>
    BY <1>1, CancelReadTyped
  <1>4. Cancels(job[h]) /\ ~Writing(job[h])
    BY <1>3 DEF Cancels, Writing
  <1>5. ~Submits(j2) /\ ~Fails(j2) /\ ~Writing(j2)
    <2>1. j2.todo \in Seq(Ops)
      BY DEF JobRec
    <2>2. j2.todo # << >> => 1 \in 1..Len(j2.todo)
      BY <2>1
    <2>3. CASE \A p \in 1..Len(j2.todo) : j2.todo[p] \in Purging
      BY <2>2, <2>3 DEF Submits, Fails, Writing, Purging
    <2>4. CASE Writer(j2.todo, "finTask", "finSnap", FinishRest \cup Purging)
      BY <2>4 DEF Submits, Fails, Writing, Purging, FinishRest, Writer
    <2> QED BY <1>2, <2>3, <2>4
  <1>6. Keeps(j2, job[h])
    BY <1>2, <1>4, <1>5, IdleRoles DEF Keeps
  <1> QED BY <1>1, <1>2, <1>3, <1>4, <1>5, <1>6, QuietStep DEF Staged

LEMMA AgreedRaise ==
  ASSUME Agreed, NEW h \in Threads, Raise(h)
  PROVE  Staged' /\ Alone' /\ Written' /\ Linked'
  <1>1. Typed /\ Staged
    BY DEF Agreed
  <1>2. /\ UNCHANGED <<upload, bound, snap, tasks, stage, nodes, asked>>
        /\ job[h] # Idle /\ job' = [job EXCEPT ![h] = Idle] /\ hurt' = hurt \cup Victim(h)
        /\ outbox' = IF job[h].posted
                     THEN Append(outbox, [task |-> job[h].task, status |-> job[h].status])
                     ELSE outbox
    BY <1>1, RaiseTyped
  <1>3. Writing(job[h]) => job[h].task \in hurt'
    <2> SUFFICES ASSUME Writing(job[h]) PROVE job[h].task \in hurt'
      OBVIOUS
    <2>1. job[h].todo # << >> /\ job[h].todo[1] \in Paired
      BY DEF Writing, Paired
    <2>2. job[h].task # 0
      BY <1>1, <2>1, HeadIs DEF Paired
    <2> QED BY <1>1, <1>2, <2>2, VictimFits
  <1>4. \A p \in 1..Len(outbox') : stage[outbox'[p].task] \in {"running", "done"}
    <2>1. CASE job[h].posted
      <3>1. PICK cb \in Posted : cb = [task |-> job[h].task, status |-> job[h].status]
        BY <1>1, <2>1, PostedShape
      <3>2. cb.task = job[h].task /\ outbox' = Append(outbox, cb) /\ outbox \in Seq(Posted)
        BY <1>1, <1>2, <2>1, <3>1, Shape
      <3>3. stage[cb.task] \in {"running", "done"}
        BY <1>1, <2>1, <3>2 DEF Staged, StagedJob
      <3> QED BY <1>1, <3>2, <3>3 DEF Staged
    <2>2. CASE ~job[h].posted
      BY <1>1, <1>2, <2>2 DEF Staged
    <2> QED BY <2>1, <2>2
  <1>5. Keeps(Idle, job[h]) /\ ~Writing(Idle)
    BY IdleRoles DEF Keeps
  <1> QED BY <1>2, <1>3, <1>4, <1>5, QuietStep

LEMMA AgreedCrash ==
  ASSUME Agreed, Crash
  PROVE  Staged' /\ Alone' /\ Written' /\ Linked'
  <1>1. Typed /\ Staged /\ Alone /\ Written /\ Linked
    BY DEF Agreed
  <1>2. /\ UNCHANGED <<upload, bound, snap, tasks, stage, nodes, outbox, asked>>
        /\ job' = [h \in Threads |-> Idle]
        /\ hurt' = hurt \cup UNION {Victim(h) : h \in {g \in Threads : job[g] # Idle}}
    BY <1>1, CrashTyped
  <1>3. ASSUME NEW h \in Threads
        PROVE  Keeps(job'[h], job[h]) /\ ~Writing(job'[h]) /\ (Writing(job[h]) => job[h].task \in hurt')
    <2>1. Keeps(job'[h], job[h]) /\ ~Writing(job'[h])
      BY <1>2, IdleRoles DEF Keeps
    <2>2. ASSUME Writing(job[h]) PROVE job[h].task \in hurt'
      <3>1. job[h].todo # << >> /\ job[h].todo[1] \in Paired
        BY <2>2 DEF Writing, Paired
      <3>2. job[h].task # 0 /\ job[h] # Idle
        BY <1>1, <2>2, <3>1, HeadIs, IdleRoles DEF Paired
      <3>3. job[h].task \in Victim(h)
        BY <1>1, <3>2, VictimFits
      <3> QED BY <1>2, <3>2, <3>3
    <2> QED BY <2>1, <2>2
  <1>4. Staged' /\ Alone'
    BY <1>1, <1>2, <1>3, RolesKept DEF Staged
  <1>5. Written' /\ Linked'
    BY <1>1, <1>2, <1>3, WritesKept
  <1> QED BY <1>4, <1>5

LEMMA AgreedUndelivered ==
  ASSUME Agreed, Undelivered
  PROVE  Staged' /\ Alone' /\ Written' /\ Linked'
  <1>1. Typed /\ Staged /\ Alone /\ Written /\ Linked
    BY DEF Agreed
  <1>2. /\ UNCHANGED <<upload, bound, snap, tasks, stage, nodes, job, asked>>
        /\ outbox # << >> /\ hurt' = hurt \cup {Head(outbox).task}
        /\ outbox' \in {Append(Tail(outbox), Head(outbox)), Tail(outbox)}
    BY <1>1, UndeliveredTyped
  <1>3. \A p \in 1..Len(outbox') : stage[outbox'[p].task] \in {"running", "done"}
    <2>1. PICK q \in Seq(Posted), cb \in Posted :
            /\ q = Tail(outbox) /\ cb = Head(outbox) /\ cb = outbox[1] /\ 1 \in 1..Len(outbox)
            /\ \A p \in 1..Len(q) : q[p] = outbox[p + 1] /\ p + 1 \in 1..Len(outbox)
      <3>1. /\ Head(outbox) \in Posted /\ Head(outbox) = outbox[1] /\ Tail(outbox) \in Seq(Posted)
            /\ Len(outbox) \in Nat /\ Len(outbox) >= 1
            /\ \A p \in 1..Len(Tail(outbox)) :
                 Tail(outbox)[p] = outbox[p + 1] /\ p + 1 \in 1..Len(outbox)
        BY <1>1, <1>2, OutboxHead
      <3>2. 1 \in 1..Len(outbox)
        BY <3>1
      <3> QED BY <3>1, <3>2
    <2>2. stage[cb.task] \in {"running", "done"}
      BY <1>1, <2>1 DEF Staged
    <2>3. \A p \in 1..Len(q) : stage[q[p].task] \in {"running", "done"}
      BY <1>1, <2>1 DEF Staged
    <2>4. \A p \in 1..Len(Append(q, cb)) : stage[Append(q, cb)[p].task] \in {"running", "done"}
      BY <2>2, <2>3
    <2> QED BY <1>2, <2>1, <2>3, <2>4
  <1>4. \A h \in Threads : Keeps(job'[h], job[h])
    BY <1>2 DEF Keeps
  <1>5. Staged' /\ Alone'
    BY <1>1, <1>2, <1>3, <1>4, RolesKept
  <1>6. Written' /\ Linked'
    BY <1>1, <1>2, WritesKept
  <1> QED BY <1>5, <1>6

\* A stage that changes: the threads with a role for another task do not notice.
LEMMA StageStep ==
  ASSUME Typed, Staged, Alone, NEW id \in Ids, NEW v \in Stages, stage' = [stage EXCEPT ![id] = v],
         hurt \subseteq hurt',
         \A g \in Threads : StagedJob(job[g])' \/ (Keeps(job'[g], job[g]) /\ job[g].task # id),
         \A p \in 1..Len(outbox') : stage'[outbox'[p].task] \in {"running", "done"}
  PROVE  Staged'
  <1> SUFFICES ASSUME NEW g \in Threads, Keeps(job'[g], job[g]), job[g].task # id
               PROVE  StagedJob(job[g])'
    BY DEF Staged
  <1>1. StagedJob(job[g]) /\ Keeps(job'[g], job[g])
    BY DEF Staged
  <1>2. job[g].task # 0 => stage'[job[g].task] = stage[job[g].task]
    <2>1. job[g].task # 0 => job[g].task \in Ids
      BY JobTask
    <2> QED BY <2>1, Shape
  <1>3. Submits(job[g]) \/ Fails(job[g]) \/ Cancels(job[g]) \/ job[g].posted => job[g].task # 0
    <2>1. job[g] \in JobRec /\ JobFits(job[g], Len(tasks)) /\ Len(tasks) \in Nat
      BY JobTask
    <2>2. CASE job[g] = Idle
      BY <2>2, IdleRoles
    <2>3. CASE job[g] # Idle /\ ~job[g].posted
      <3>1. /\ Ordered(job[g].todo, job[g].task) /\ Told(job[g]) /\ job[g].todo \in Seq(Ops)
            /\ Len(job[g].todo) >= 1
        BY <2>1, <2>3 DEF JobFits, JobRec
      <3>2. 1 \in 1..Len(job[g].todo)
        BY <3>1
      <3>3. Submits(job[g]) => job[g].task # 0
        BY <3>1, <3>2 DEF Submits, Ordered
      <3>4. Fails(job[g]) => job[g].task # 0
        BY <3>1 DEF Fails, Ordered, Asking
      <3>5. Cancels(job[g]) => job[g].task # 0
        <4>1. job[g].todo[1] = "cancelRead" => job[g].task # 0
          BY <3>1, <3>2 DEF Ordered, Asking
        <4>2. job[g].status = "CANCELED" => job[g].todo[1] \notin Asking
          BY <3>1, <3>2 DEF Told, None
        <4> QED BY <3>1, <3>2, <4>1, <4>2 DEF Cancels, Ordered
      <3> QED BY <2>3, <3>3, <3>4, <3>5
    <2>4. CASE job[g].posted
      BY <2>4, PostedShape
    <2> QED BY <2>2, <2>3, <2>4
  <1> QED BY <1>1, <1>2, <1>3 DEF StagedJob, Keeps, Submits, Fails, Cancels

\* A change of one job keeps threads apart when the new job is apart from the others.
LEMMA AloneStep ==
  ASSUME Typed, Alone, hurt \subseteq hurt', NEW h \in Threads, NEW j2, job' = [job EXCEPT ![h] = j2],
         \A g \in Threads : g # h => Apart(j2, job[g])'
  PROVE  Alone'
  <1>1. job'[h] = j2 /\ \A g \in Threads : g # h => job'[g] = job[g]
    BY OneJob
  <1> SUFFICES ASSUME NEW f \in Threads, NEW g \in Threads, f # g PROVE Apart(job[f], job[g])'
    BY DEF Alone
  <1>2. CASE f # h /\ g # h
    <2>1. Apart(job[f], job[g])
      BY DEF Alone
    <2> QED BY <1>1, <1>2, <2>1 DEF Apart, Submits, Fails, Cancels
  <1>3. CASE f = h
    BY <1>1, <1>3
  <1>4. CASE g = h
    <2>1. Apart(j2, job[f])' /\ job'[g] = j2
      BY <1>1, <1>4
    <2> QED BY <2>1 DEF Apart, Submits, Fails, Cancels
  <1> QED BY <1>2, <1>3, <1>4

\* What a thread is when it has done the first operation of its list.
LEMMA FollowsRoles ==
  ASSUME NEW len \in Nat, NEW j \in JobRec, JobFits(j, len), j.todo # << >>, NEW j2 \in JobRec,
         Follows(j2, j)
  PROVE  /\ j.todo[1] \in Paired => Keeps(j2, j)
         /\ j.todo[1] \in {"failTask", "startTask", "finTask"} =>
              /\ Writing(j2) /\ SameJob(j2, j)
              /\ j.todo[1] = "failTask" => j2.todo[1] = "failSnap"
              /\ j.todo[1] = "startTask" => j2.todo[1] = "startSnap"
              /\ j.todo[1] = "finTask" => j2.todo[1] = "finSnap"
         /\ j.todo[1] \in {"failSnap", "startSnap", "finSnap"} => ~Writing(j2)
         /\ j.todo[1] = "submit" => ~Submits(j2) /\ ~Fails(j2) /\ ~Cancels(j2) /\ ~j2.posted
              /\ ~Writing(j2)
         /\ j.todo[1] = "parserCancel" =>
              /\ SameJob(j2, j) /\ ~Submits(j2) /\ ~Fails(j2) /\ Cancels(j2) /\ ~j2.posted
                   /\ ~Writing(j2)
  <1>1. /\ j.todo \in Seq(Ops) /\ Ordered(j.todo, j.task) /\ Told(j)
    BY BusyFits
  <1>2. PICK r : r = Tail(j.todo) /\ r = j2.todo
    BY DEF Follows
  <1>3. /\ r \in Seq(Ops) /\ Len(r) = Len(j.todo) - 1 /\ Len(j.todo) \in Nat /\ Len(j.todo) >= 1
        /\ \A p \in 1..Len(r) : r[p] = j.todo[p + 1] /\ p + 1 \in 1..Len(j.todo)
    BY <1>1, <1>2, TailShape
  <1>4. /\ r # << >> => r[1] = j.todo[2] /\ 2 \in 1..Len(j.todo)
        /\ 1 \in 1..Len(j.todo)
    BY <1>3
  <1>5. r # << >> => SameJob(j2, j)
    BY <1>2, IdleFits DEF Follows, SameJob
  <1>6. j2 = Idle \/ SameJob(j2, j)
    BY DEF Follows, SameJob
  <1>7. CASE j.todo[1] \in Paired
    <2>1. Submits(j2) => FALSE
      BY <1>1, <1>2, <1>4, <1>7 DEF Submits, Ordered, Paired
    <2>2. Fails(j2) => Fails(j) /\ j2.task = j.task
      <3>1. Fails(j2) => Fails(j)
        BY <1>2, <1>3 DEF Fails
      <3> QED BY <1>6, <3>1, IdleRoles DEF SameJob
    <2>3. Cancels(j2) => Cancels(j) /\ j2.task = j.task
      <3>1. r # << >> => r[1] # "cancelRead"
        BY <1>1, <1>4, <1>7 DEF Ordered, Pair, Paired
      <3> QED BY <1>2, <1>6, <3>1, IdleRoles DEF SameJob, Cancels
    <2>4. j2.posted => j.posted /\ j2.task = j.task
      BY <1>6, IdleRoles DEF SameJob
    <2>5. Keeps(j2, j)
      BY <2>1, <2>2, <2>3, <2>4 DEF Keeps
    <2>6. ASSUME j.todo[1] \in {"failTask", "startTask", "finTask"}
          PROVE  /\ Writing(j2) /\ SameJob(j2, j)
                 /\ j.todo[1] = "failTask" => j2.todo[1] = "failSnap"
                 /\ j.todo[1] = "startTask" => j2.todo[1] = "startSnap"
                 /\ j.todo[1] = "finTask" => j2.todo[1] = "finSnap"
      <3>1. /\ Len(j.todo) >= 2
            /\ j.todo[1] = "failTask" => j.todo[2] = "failSnap"
            /\ j.todo[1] = "startTask" => j.todo[2] = "startSnap"
            /\ j.todo[1] = "finTask" => j.todo[2] = "finSnap"
        BY <1>1, <1>4, <2>6 DEF Ordered, Pair
      <3>2. r # << >>
        BY <1>3, <3>1
      <3> QED BY <1>2, <1>4, <1>5, <2>6, <3>1, <3>2 DEF Writing
    <2>7. ASSUME j.todo[1] \in {"failSnap", "startSnap", "finSnap"} PROVE ~Writing(j2)
      <3>1. r # << >> => r[1] \notin {"failSnap", "startSnap", "finSnap"}
        BY <1>1, <1>4, <2>7 DEF Ordered, Pair
      <3> QED BY <1>2, <3>1 DEF Writing
    <2> QED BY <1>7, <2>5, <2>6, <2>7 DEF Paired
  <1>8. CASE j.todo[1] = "submit" \/ j.todo[1] = "parserCancel"
    <2>1. \A p \in 1..Len(j.todo) : j.todo[p] \notin Paired
      BY <1>1, <1>3, <1>8, NoPair DEF Paired
    <2>2. \A p \in 1..Len(r) : r[p] \notin Paired
      BY <1>3, <2>1
    <2>3. ~Fails(j2) /\ ~Writing(j2)
      <3>1. r # << >> => 1 \in 1..Len(r)
        BY <1>3
      <3> QED BY <1>2, <2>2, <3>1 DEF Fails, Writing, Paired
    <2>4. ~Submits(j2)
      BY <1>1, <1>2, <1>4, <1>8 DEF Submits, Ordered
    <2>5. j.status = None /\ ~j.posted
      BY <1>1, <1>4, <1>8 DEF Told, Asking, Canceling
    <2>6. ~j2.posted /\ j2.status = None
      BY <1>6, <2>5, IdleFits DEF SameJob
    <2>7. CASE j.todo[1] = "submit"
      <3>1. r # << >> => r[1] # "cancelRead"
        BY <1>1, <1>4, <2>7 DEF Ordered, Pair
      <3>2. ~Cancels(j2)
        BY <1>2, <2>6, <3>1 DEF Cancels, None
      <3> QED BY <2>3, <2>4, <2>6, <2>7, <3>2 DEF Paired
    <2>8. CASE j.todo[1] = "parserCancel"
      <3>1. Len(j.todo) >= 2 /\ j.todo[2] = "cancelRead"
        BY <1>1, <1>4, <2>8 DEF Ordered, Pair
      <3>2. r # << >> /\ r[1] = "cancelRead"
        BY <1>3, <1>4, <3>1
      <3>3. Cancels(j2) /\ SameJob(j2, j)
        BY <1>2, <1>5, <3>2 DEF Cancels
      <3> QED BY <2>3, <2>4, <2>6, <2>8, <3>3 DEF Paired
    <2> QED BY <1>8, <2>7, <2>8
  <1> QED BY <1>7, <1>8 DEF Paired

LEMMA AgreedEnqueue ==
  ASSUME Agreed, NEW h \in Threads, Enqueue(h)
  PROVE  Staged' /\ Alone' /\ Written' /\ Linked'
  <1>1. Typed /\ Owned /\ Staged /\ Alone /\ Written /\ Linked
    BY DEF Agreed
  <1>2. PICK id \in Ids, k \in Kbs, type \in Types :
          /\ id = Len(tasks) + 1 /\ k = job[h].kb /\ type = job[h].type /\ Len(tasks) \in Nat
          /\ id \in 1..MaxTasks
    BY <1>1, EnqueueTyped, HeadIs, Shape
  <1>3. PICK j2 \in JobRec, status \in {"DELETING", "WAITING"} :
          /\ job' = [job EXCEPT ![h] = j2] /\ JobFits(j2, id) /\ j2.task = id
          /\ j2.status = None /\ ~j2.posted /\ j2.todo = Tail(job[h].todo) /\ j2.todo[1] = "submit"
          /\ tasks' = Append(tasks, [type |-> type, kb |-> k, status |-> status])
          /\ SetSnap(k, status, id, type)
    BY <1>1, <1>2, EnqueueTyped
  <1>4. /\ UNCHANGED <<upload, bound, stage, nodes, outbox, asked, hurt, troubles>>
        /\ job[h].todo # << >> /\ job[h].todo[1] = "enqueue"
    BY <1>1, EnqueueTyped
  <1>5. job'[h] = j2 /\ \A g \in Threads : g # h => job'[g] = job[g]
    BY <1>1, <1>3, OneJob
  <1>6. \A g \in Threads : job[g].task # id
    <2>1. \A g \in Threads : job[g].task \in 0..Len(tasks)
      BY <1>1, JobTask
    <2> QED BY <1>2, <2>1
  <1>7. stage[id] = "none" /\ stage' = [stage EXCEPT ![id] = "none"] /\ "none" \in Stages
    <2>1. stage[id] # "none" => id <= Len(tasks)
      BY <1>1 DEF Typed, ParserFits
    <2>2. stage[id] = "none"
      BY <1>2, <2>1
    <2> QED BY <1>1, <1>4, <2>2, Shape DEF Stages
  <1>8. ~Fails(j2) /\ ~Cancels(j2) /\ ~Writing(j2)
    <2>1. j2 # Idle
      BY <1>2, <1>3, IdleFits
    <2>2. j2.todo \in Seq(Ops) /\ Len(j2.todo) >= 1 /\ Ordered(j2.todo, j2.task)
      BY <1>3, <2>1 DEF JobFits, JobRec
    <2>3. \A p \in 1..Len(j2.todo) : j2.todo[p] \notin Paired
      BY <1>3, <2>2, NoPair DEF Paired
    <2> QED BY <1>3, <2>3 DEF Fails, Cancels, Writing, Paired, None
  <1>9. StagedJob(job[h])'
    BY <1>3, <1>4, <1>5, <1>7, <1>8 DEF StagedJob, Fails, Cancels
  <1>10. Staged'
    <2>1. \A g \in Threads : StagedJob(job[g])' \/ (Keeps(job'[g], job[g]) /\ job[g].task # id)
      BY <1>5, <1>6, <1>9 DEF Keeps
    <2>2. \A p \in 1..Len(outbox') : stage'[outbox'[p].task] \in {"running", "done"}
      BY <1>1, <1>4 DEF Staged
    <2> QED BY <1>1, <1>4, <1>7, <2>1, <2>2, StageStep
  <1>11. Alone'
    <2>1. ASSUME NEW g \in Threads, g # h PROVE Apart(j2, job[g])'
      BY <1>3, <1>5, <1>6, <1>8, <2>1 DEF Apart, Cancels
    <2> QED BY <1>1, <1>3, <1>4, <2>1, AloneStep
  <1>12. /\ \A i \in 1..Len(tasks) : tasks'[i] = tasks[i]
         /\ tasks'[id].status = status
         /\ snap'[k].status = status /\ snap'[k].task = id
         /\ \A m \in Kbs : m # k => snap'[m] = snap[m]
    <2>1. tasks'[id].status = status /\ \A i \in 1..Len(tasks) : tasks'[i] = tasks[i]
      <3>1. PICK t : t = [type |-> type, kb |-> k, status |-> status]
        OBVIOUS
      <3>2. t.status = status
        BY <3>1
      <3>3. tasks' = Append(tasks, t)
        BY <1>3, <3>1
      <3> QED BY <1>1, <1>2, <3>2, <3>3, Shape
    <2>2. Len(tasks) <= id /\ id <= id /\ id \in Nat /\ status \in Statuses
      BY <1>2 DEF Statuses
    <2> QED BY <1>1, <1>2, <1>3, <2>1, <2>2, SetSnapFits
  <1>13. Written'
    <2> SUFFICES ASSUME NEW g \in Threads, Writing(job'[g]), job'[g].task \notin hurt'
                 PROVE  tasks'[job'[g].task].status = Record(job[g])'
      BY DEF Written, Writing
    <2>1. g # h /\ job'[g] = job[g] /\ Writing(job[g]) /\ job[g].task \notin hurt
      BY <1>4, <1>5, <1>8
    <2>2. tasks[job[g].task].status = Record(job[g])
      BY <1>1, <2>1 DEF Written
    <2>3. job[g].task \in 1..Len(tasks)
      <3>1. /\ job[g] \in JobRec /\ JobFits(job[g], Len(tasks)) /\ Len(tasks) \in Nat
            /\ job[g].todo # << >> /\ job[g].todo[1] \in Paired
        BY <1>1, <2>1, JobTask DEF Writing, Paired
      <3> QED BY <3>1, WriterRole
    <2> QED BY <1>12, <2>1, <2>2, <2>3 DEF Record
  <1>14. Linked'
    <2> SUFFICES ASSUME NEW m \in Kbs, snap'[m] # NoSnap, snap'[m].task \notin hurt', m # k
                 PROVE  \/ Agree(m)'
                        \/ \E g \in Threads : /\ Writing(job[g])' /\ job'[g].kb = m
                                              /\ job'[g].task = snap'[m].task
      BY <1>12 DEF Linked, Agree
    <2>1. snap'[m] = snap[m] /\ snap[m].task \notin hurt /\ snap[m].task \in 1..Len(tasks)
      BY <1>1, <1>4, <1>12, SnapShape
    <2>2. CASE Agree(m)
      BY <1>12, <2>1, <2>2 DEF Agree
    <2>3. ASSUME NEW g \in Threads, Writing(job[g]), job[g].kb = m, job[g].task = snap[m].task
          PROVE  Writing(job[g])' /\ job'[g].kb = m /\ job'[g].task = snap'[m].task
      <3>1. g # h
        BY <1>4, <2>3 DEF Writing
      <3> QED BY <1>5, <2>1, <2>3, <3>1 DEF Writing
    <2> QED BY <1>1, <2>1, <2>2, <2>3 DEF Linked
  <1> QED BY <1>10, <1>11, <1>13, <1>14

LEMMA AgreedSubmit ==
  ASSUME Agreed, NEW h \in Threads, Submit(h)
  PROVE  Staged' /\ Alone' /\ Written' /\ Linked'
  <1>1. Typed /\ Owned /\ Staged /\ Alone /\ Written /\ Linked
    BY DEF Agreed
  <1>2. /\ job[h].todo # << >> /\ job[h].todo[1] = "submit" /\ job[h].task \in 1..Len(tasks)
        /\ UNCHANGED <<upload, bound, snap, tasks, nodes, outbox, asked>> /\ hurt \subseteq hurt'
    BY <1>1, SubmitTyped
  <1>3. PICK j2 \in JobRec :
          /\ job' = [job EXCEPT ![h] = j2] /\ JobFits(j2, Len(tasks))
          /\ \/ /\ Follows(j2, job[h]) /\ stage' = [stage EXCEPT ![job[h].task] = "queued"]
             \/ /\ SameJob(j2, job[h]) /\ Writer(j2.todo, "failTask", "failSnap", FailRest)
                /\ \/ stage' = stage
                   \/ stage' = [stage EXCEPT ![job[h].task] = "queued"] /\ job[h].task \in hurt'
    BY <1>1, SubmitTyped
  <1>4. PICK id \in Ids : id = job[h].task
    BY <1>1, <1>2, Shape
  <1>5. Submits(job[h]) /\ stage[id] = "none" /\ ~Writing(job[h])
    BY <1>1, <1>2, <1>4 DEF Submits, Staged, StagedJob, Writing
  <1>6. job[h].status = None /\ ~job[h].posted /\ job[h] \in JobRec /\ JobFits(job[h], Len(tasks))
        /\ Len(tasks) \in Nat
    <2>1. Told(job[h]) /\ Len(job[h].todo) \in Nat /\ Len(job[h].todo) >= 1
      BY <1>1, <1>2, HeadIs
    <2>2. 1 \in 1..Len(job[h].todo)
      BY <2>1
    <2> QED BY <1>1, <1>2, <2>1, <2>2, HeadIs DEF Told, Asking
  <1>7. ~Submits(j2) /\ ~Cancels(j2) /\ ~j2.posted /\ ~Writing(j2)
        /\ (Fails(j2) => j2.task = id /\ (stage' = stage \/ id \in hurt'))
    <2>1. CASE Follows(j2, job[h])
      BY <1>2, <1>6, <2>1, FollowsRoles
    <2>2. CASE SameJob(j2, job[h]) /\ Writer(j2.todo, "failTask", "failSnap", FailRest)
               /\ (stage' = stage \/ id \in hurt')
      BY <1>4, <1>6, <2>2 DEF SameJob, Writer, Submits, Cancels, Writing, None
    <2> QED BY <1>3, <1>4, <2>1, <2>2
  <1>8. job'[h] = j2 /\ \A g \in Threads : g # h => job'[g] = job[g]
    BY <1>1, <1>3, OneJob
  <1>9. StagedJob(job[h])'
    BY <1>5, <1>7, <1>8 DEF StagedJob, Submits, Fails, Cancels
  <1>10. ASSUME NEW g \in Threads, g # h
         PROVE  StagedJob(job[g])' \/ (Keeps(job'[g], job[g]) /\ job[g].task # id)
    <2>1. CASE job[g].task # id
      BY <1>8, <1>10, <2>1 DEF Keeps
    <2>2. CASE job[g].task = id
      <3>1. Apart(job[h], job[g]) /\ StagedJob(job[g])
        BY <1>1, <1>10 DEF Alone, Staged
      <3>2. ~Submits(job[g]) /\ ~Fails(job[g]) /\ ~Cancels(job[g]) /\ ~job[g].posted
        BY <1>4, <1>5, <2>2, <3>1 DEF Apart, StagedJob
      <3> QED BY <1>8, <1>10, <3>2 DEF StagedJob, Submits, Fails, Cancels
    <2> QED BY <2>1, <2>2
  <1>11. \E v \in {"none", "queued"} : stage' = [stage EXCEPT ![id] = v]
    <2>1. stage = [stage EXCEPT ![id] = "none"]
      BY <1>1, <1>5, Shape
    <2> QED BY <1>3, <1>4, <2>1
  <1>12. Staged'
    <2>1. \A g \in Threads : StagedJob(job[g])' \/ (Keeps(job'[g], job[g]) /\ job[g].task # id)
      BY <1>9, <1>10
    <2>2. ASSUME NEW p \in 1..Len(outbox') PROVE stage'[outbox'[p].task] \in {"running", "done"}
      <3>1. outbox[p] \in Posted /\ stage[outbox[p].task] \in {"running", "done"}
        BY <1>1, <1>2, <2>2, Shape DEF Staged
      <3>2. outbox[p].task \in Ids /\ outbox[p].task # id
        BY <1>5, <3>1 DEF Posted
      <3> QED BY <1>1, <1>2, <1>11, <3>1, <3>2, Shape
    <2>3. {"none", "queued"} \subseteq Stages
      BY DEF Stages
    <2> QED BY <1>1, <1>2, <1>11, <2>1, <2>2, <2>3, StageStep
  <1>13. Alone'
    <2>1. ASSUME NEW g \in Threads, g # h PROVE Apart(j2, job[g])'
      <3>1. Apart(job[h], job[g])
        BY <1>1, <2>1 DEF Alone
      <3> QED BY <1>4, <1>5, <1>7, <1>8, <2>1, <3>1 DEF Apart, Submits, Fails, Cancels
    <2> QED BY <1>1, <1>2, <1>3, <2>1, AloneStep
  <1>14. Written' /\ Linked'
    BY <1>1, <1>2, <1>3, <1>5, <1>7, OneWrites, WritesKept
  <1> QED BY <1>12, <1>13, <1>14

LEMMA AgreedParserCancel ==
  ASSUME Agreed, NEW h \in Threads, ParserCancel(h)
  PROVE  Staged' /\ Alone' /\ Written' /\ Linked'
  <1>1. Typed /\ Owned /\ Staged /\ Alone /\ Written /\ Linked
    BY DEF Agreed
  <1>2. /\ job[h].todo # << >> /\ job[h].todo[1] = "parserCancel" /\ job[h].task \in 1..Len(tasks)
        /\ UNCHANGED <<upload, bound, snap, tasks, nodes, outbox, asked, hurt, troubles>>
    BY <1>1, ParserCancelTyped
  <1>3. PICK j2 \in JobRec :
          /\ job' = [job EXCEPT ![h] = j2]
          /\ \/ j2 = Idle /\ stage' = stage
             \/ /\ Follows(j2, job[h]) /\ stage[job[h].task] = "queued"
                /\ stage' = [stage EXCEPT ![job[h].task] = "canceled"]
    BY <1>1, ParserCancelTyped
  <1>4. ~Writing(job[h])
    BY <1>2 DEF Writing
  <1>5. CASE j2 = Idle /\ stage' = stage
    BY <1>1, <1>2, <1>3, <1>4, <1>5, IdleRoles, QuietStep DEF Keeps, Staged
  <1>6. CASE /\ Follows(j2, job[h]) /\ stage[job[h].task] = "queued"
             /\ stage' = [stage EXCEPT ![job[h].task] = "canceled"]
    <2>1. PICK id \in Ids : id = job[h].task
      BY <1>1, <1>2, Shape
    <2>2. /\ SameJob(j2, job[h]) /\ ~Submits(j2) /\ ~Fails(j2) /\ Cancels(j2) /\ ~j2.posted
          /\ ~Writing(j2)
      BY <1>1, <1>2, <1>6, JobTask, FollowsRoles
    <2>3. job'[h] = j2 /\ \A g \in Threads : g # h => job'[g] = job[g]
      BY <1>1, <1>3, OneJob
    <2>4. stage'[id] = "canceled" /\ \A i \in Ids : i # id => stage'[i] = stage[i]
      BY <1>1, <1>6, <2>1, Shape
    <2>5. StagedJob(job[h])'
      BY <2>1, <2>2, <2>3, <2>4 DEF StagedJob, SameJob, Submits, Fails, Cancels
    <2>6. ASSUME NEW g \in Threads, g # h, job[g].task = id
          PROVE  ~Submits(job[g]) /\ ~Cancels(job[g]) /\ ~job[g].posted /\ (Fails(job[g]) => id \in hurt)
      BY <1>1, <1>6, <2>1, <2>6 DEF Staged, StagedJob
    <2>7. ASSUME NEW g \in Threads
          PROVE  StagedJob(job[g])' \/ (Keeps(job'[g], job[g]) /\ job[g].task # id)
      <3>1. CASE g # h /\ job[g].task # id
        BY <2>3, <3>1 DEF Keeps
      <3>2. CASE g # h /\ job[g].task = id
        BY <1>2, <2>3, <2>6, <3>2 DEF StagedJob, Submits, Fails, Cancels
      <3> QED BY <2>5, <3>1, <3>2
    <2>8. Staged'
      <3>1. ASSUME NEW p \in 1..Len(outbox') PROVE stage'[outbox'[p].task] \in {"running", "done"}
        <4>1. outbox[p] \in Posted /\ stage[outbox[p].task] \in {"running", "done"}
          BY <1>1, <1>2, <3>1, Shape DEF Staged
        <4>2. outbox[p].task \in Ids /\ outbox[p].task # id
          BY <1>6, <2>1, <4>1 DEF Posted
        <4> QED BY <1>2, <2>4, <4>1, <4>2
      <3>2. "canceled" \in Stages
        BY DEF Stages
      <3> QED BY <1>1, <1>2, <1>6, <2>1, <2>7, <3>1, <3>2, StageStep
    <2>9. Alone'
      <3>1. ASSUME NEW g \in Threads, g # h PROVE Apart(j2, job[g])'
        BY <2>1, <2>2, <2>3, <2>6, <3>1 DEF Apart, SameJob, Submits, Fails, Cancels
      <3> QED BY <1>1, <1>2, <1>3, <3>1, AloneStep
    <2>10. Written' /\ Linked'
      BY <1>1, <1>2, <1>3, <1>4, <2>2, OneWrites, WritesKept
    <2> QED BY <2>8, <2>9, <2>10
  <1> QED BY <1>3, <1>5, <1>6

LEMMA AgreedPosts ==
  ASSUME Agreed, Posts
  PROVE  Staged' /\ Alone' /\ Written' /\ Linked'
  <1>1. Typed /\ Owned /\ Staged /\ Alone /\ Written /\ Linked
    BY DEF Agreed
  <1>2. PICK id \in Ids, s \in {"WORKING", "SUCCESS", "FAILED"} :
          \/ Claim(id) /\ s = "WORKING"
          \/ Finish(id, s) /\ s \in {"SUCCESS", "FAILED"}
    BY DEF Posts
  <1>3. /\ UNCHANGED <<upload, bound, snap, tasks, job, asked, hurt, troubles>>
        /\ outbox' = Append(outbox, [task |-> id, status |-> s])
        /\ [task |-> id, status |-> s] \in Posted
        /\ \/ stage[id] = "queued" /\ stage' = [stage EXCEPT ![id] = "running"]
           \/ stage[id] = "running" /\ stage' = [stage EXCEPT ![id] = "done"]
    BY <1>1, <1>2, ParseTyped
  <1>4. PICK v \in {"running", "done"} : stage' = [stage EXCEPT ![id] = v] /\ v \in Stages
    BY <1>3 DEF Stages
  <1>5. stage'[id] = v /\ \A i \in Ids : i # id => stage'[i] = stage[i]
    BY <1>1, <1>4, Shape
  <1>6. ASSUME NEW g \in Threads
        PROVE  StagedJob(job[g])' \/ (Keeps(job'[g], job[g]) /\ job[g].task # id)
    <2>1. CASE job[g].task # id
      BY <1>3, <2>1 DEF Keeps
    <2>2. CASE job[g].task = id
      BY <1>1, <1>3, <1>5, <2>2 DEF Staged, StagedJob, Submits, Fails, Cancels
    <2> QED BY <2>1, <2>2
  <1>7. Staged'
    <2>1. PICK cb \in Posted : cb = [task |-> id, status |-> s] /\ cb.task = id
      BY <1>3
    <2>2. outbox' = Append(outbox, cb) /\ outbox \in Seq(Posted) /\ Len(outbox) \in Nat
      BY <1>1, <1>3, <2>1, Shape
    <2>3. ASSUME NEW p \in 1..Len(outbox) PROVE stage'[outbox[p].task] \in {"running", "done"}
      <3>1. outbox[p] \in Posted /\ stage[outbox[p].task] \in {"running", "done"}
        BY <1>1, <2>2, <2>3 DEF Staged
      <3>2. outbox[p].task \in Ids
        BY <3>1 DEF Posted
      <3> QED BY <1>5, <3>1, <3>2
    <2>4. \A p \in 1..Len(outbox') : stage'[outbox'[p].task] \in {"running", "done"}
      BY <1>5, <2>1, <2>2, <2>3
    <2> QED BY <1>1, <1>3, <1>4, <1>6, <2>4, StageStep
  <1>8. Alone'
    BY <1>1, <1>3 DEF Alone, Apart, Submits, Fails, Cancels
  <1>9. Written' /\ Linked'
    BY <1>1, <1>3, WritesKept
  <1> QED BY <1>7, <1>8, <1>9

LEMMA AgreedReceive ==
  ASSUME Agreed, NEW h \in Threads, Receive(h)
  PROVE  Staged' /\ Alone' /\ Written' /\ Linked'
  <1>1. Typed /\ Owned /\ Staged /\ Alone /\ Written /\ Linked
    BY DEF Agreed
  <1>2. /\ job[h] = Idle /\ outbox # << >> /\ outbox' = Tail(outbox)
        /\ UNCHANGED <<upload, bound, snap, tasks, stage, nodes, asked>> /\ hurt \subseteq hurt'
    BY <1>1, ReceiveTyped
  <1>3. PICK cb \in Posted : cb = Head(outbox) /\ cb = outbox[1] /\ 1 \in 1..Len(outbox)
    <2>1. /\ Head(outbox) \in Posted /\ Head(outbox) = outbox[1] /\ Len(outbox) \in Nat
          /\ Len(outbox) >= 1
      BY <1>1, <1>2, OutboxHead
    <2> QED BY <2>1
  <1>4. \A g \in Threads : job[g].posted => cb.task \in hurt' /\ job[g].task \in hurt'
    BY <1>1, <1>3, ReceiveTyped
  <1>5. PICK j2 \in JobRec : /\ job' = [job EXCEPT ![h] = j2] /\ JobFits(j2, Len(tasks))
                             /\ j2 = Idle \/ Serves(j2, cb)
    BY <1>1, <1>3, ReceiveTyped
  <1>6. \A p \in 1..Len(outbox') : stage'[outbox'[p].task] \in {"running", "done"}
    <2>1. \A p \in 1..Len(Tail(outbox)) : Tail(outbox)[p] = outbox[p + 1] /\ p + 1 \in 1..Len(outbox)
      BY <1>1, <1>2, OutboxHead
    <2> QED BY <1>1, <1>2, <2>1 DEF Staged
  <1>7. CASE j2 = Idle
    BY <1>1, <1>2, <1>5, <1>6, <1>7, IdleRoles, QuietStep DEF Keeps
  <1>8. CASE Serves(j2, cb)
    <2>1. ~Submits(j2) /\ ~Fails(j2) /\ ~Cancels(j2) /\ ~Writing(j2) /\ j2.task = cb.task
      <3>1. cb.status \in {"WORKING", "SUCCESS", "FAILED"} /\ j2.status = cb.status /\ j2.task = cb.task
        BY <1>8 DEF Posted, Serves
      <3>2. CASE Writer(j2.todo, "startTask", "startSnap", StartRest)
        BY <3>1, <3>2 DEF Writer, StartRest, Submits, Fails, Cancels, Writing
      <3>3. CASE Writer(j2.todo, "finTask", "finSnap", FinishRest)
        BY <3>1, <3>3 DEF Writer, FinishRest, Submits, Fails, Cancels, Writing
      <3> QED BY <1>8, <3>2, <3>3 DEF Serves
    <2>2. job'[h] = j2 /\ \A g \in Threads : g # h => job'[g] = job[g]
      BY <1>1, <1>5, OneJob
    <2>3. StagedJob(job[h])'
      <3>1. stage[cb.task] \in {"running", "done"}
        BY <1>1, <1>3 DEF Staged
      <3> QED BY <1>2, <2>1, <2>2, <3>1 DEF StagedJob, Submits, Fails, Cancels
    <2>4. ASSUME NEW g \in Threads, g # h PROVE StagedJob(job[g])'
      <3>1. StagedJob(job[g])
        BY <1>1 DEF Staged
      <3> QED BY <1>2, <2>2, <2>4, <3>1 DEF StagedJob, Submits, Fails, Cancels
    <2>5. Staged'
      BY <1>6, <2>3, <2>4 DEF Staged
    <2>6. Alone'
      <3>1. ASSUME NEW g \in Threads, g # h PROVE Apart(j2, job[g])'
        BY <1>4, <2>1, <2>2, <3>1 DEF Apart, Submits, Fails, Cancels
      <3> QED BY <1>1, <1>2, <1>5, <3>1, AloneStep
    <2>7. Written' /\ Linked'
      <3>1. ~Writing(job[h])
        BY <1>2, IdleRoles
      <3> QED BY <1>1, <1>2, <1>5, <2>1, <3>1, OneWrites, WritesKept
    <2> QED BY <2>5, <2>6, <2>7
  <1> QED BY <1>5, <1>7, <1>8

LEMMA AgreedWriteTask ==
  ASSUME Agreed, NEW h \in Threads, WriteTask(h)
  PROVE  Staged' /\ Alone' /\ Written' /\ Linked'
  <1>1. Typed /\ Owned /\ Staged /\ Alone /\ Written /\ Linked
    BY DEF Agreed
  <1>2. /\ UNCHANGED <<upload, bound, stage, nodes, outbox, asked, hurt, troubles>>
        /\ job[h].todo # << >> /\ job[h].todo[1] \in {"failTask", "startTask", "finTask"} /\ snap' = snap
        /\ job[h].task \in 1..Len(tasks)
    BY <1>1, WriteTyped, WriteTaskIs
  <1>3. PICK j2 \in JobRec : Follows(j2, job[h]) /\ job' = [job EXCEPT ![h] = j2]
    BY <1>1, WriteTyped
  <1>4. /\ Keeps(j2, job[h]) /\ Writing(j2) /\ SameJob(j2, job[h])
        /\ job[h].todo[1] = "failTask" => j2.todo[1] = "failSnap"
        /\ job[h].todo[1] = "startTask" => j2.todo[1] = "startSnap"
        /\ job[h].todo[1] = "finTask" => j2.todo[1] = "finSnap"
    BY <1>1, <1>2, <1>3, JobTask, FollowsRoles DEF Paired
  <1>5. job'[h] = j2 /\ \A g \in Threads : g # h => job'[g] = job[g]
    BY <1>1, <1>3, OneJob
  <1>6. PICK status \in Statuses :
          /\ SetTask(job[h].task, status)
          /\ job[h].todo[1] = "failTask" => status = "FAILED"
          /\ job[h].todo[1] = "startTask" => status = "WORKING"
          /\ job[h].todo[1] = "finTask" =>
               status = IF job[h].type = "DELETE" /\ job[h].status = "SUCCESS"
                        THEN "DELETED" ELSE job[h].status
    BY <1>1, WriteTaskIs
  <1>7. /\ tasks'[job[h].task].status = status
        /\ \A i \in 1..Len(tasks) : i # job[h].task => tasks'[i] = tasks[i]
    BY <1>1, <1>2, <1>6, SetTaskFits
  <1>8. Staged' /\ Alone'
    BY <1>1, <1>2, <1>3, <1>4, OneKeeps, RolesKept DEF Staged
  <1>9. ASSUME NEW g \in Threads, Writing(job'[g]), job'[g].task \notin hurt'
        PROVE  tasks'[job'[g].task].status = Record(job[g])'
    <2>1. CASE g = h
      BY <1>2, <1>4, <1>5, <1>6, <1>7, <2>1 DEF Record, SameJob
    <2>2. CASE g # h
      <3>1. job'[g] = job[g] /\ Writing(job[g]) /\ job[g].task \notin hurt
        BY <1>2, <1>5, <1>9, <2>2
      <3>2. job[g].todo # << >> /\ job[g].todo[1] \in Paired /\ job[h].todo[1] \in Paired
        BY <1>2, <3>1 DEF Writing, Paired
      <3>3. job[g].task # job[h].task
        BY <1>1, <1>2, <2>2, <3>1, <3>2, WritersApart
      <3>4. job[g].task \in 1..Len(tasks)
        BY <1>1, <3>2, JobTask, WriterRole
      <3>5. tasks[job[g].task].status = Record(job[g])
        BY <1>1, <3>1 DEF Written
      <3> QED BY <1>7, <3>1, <3>3, <3>4, <3>5 DEF Record
    <2> QED BY <2>1, <2>2
  <1>10. Written'
    BY <1>9 DEF Written, Writing
  <1>11. ASSUME NEW k \in Kbs, snap'[k] # NoSnap, snap'[k].task \notin hurt'
         PROVE  \/ Agree(k)'
                \/ \E g \in Threads : Writing(job[g])' /\ job'[g].kb = k /\ job'[g].task = snap'[k].task
    <2>1. snap[k] # NoSnap /\ snap[k].task \notin hurt /\ snap[k].task \in 1..Len(tasks)
      BY <1>1, <1>2, <1>11, SnapShape
    <2>2. CASE snap[k].task = job[h].task
      <3>1. job[h].kb = k
        BY <1>1, <1>2, <2>1, <2>2 DEF Owned
      <3>2. Writing(job[h])' /\ job'[h].kb = k /\ job'[h].task = snap'[k].task
        BY <1>2, <1>4, <1>5, <2>2, <3>1 DEF Writing, SameJob
      <3> QED BY <3>2
    <2>3. CASE snap[k].task # job[h].task
      <3>1. CASE Agree(k)
        BY <1>2, <1>7, <2>1, <2>3, <3>1 DEF Agree
      <3>2. ASSUME NEW g \in Threads, Writing(job[g]), job[g].kb = k, job[g].task = snap[k].task
            PROVE  Writing(job[g])' /\ job'[g].kb = k /\ job'[g].task = snap'[k].task
        BY <1>2, <1>5, <2>3, <3>2 DEF Writing
      <3> QED BY <1>1, <2>1, <3>1, <3>2 DEF Linked
    <2> QED BY <2>2, <2>3
  <1>12. Linked'
    BY <1>11 DEF Linked
  <1> QED BY <1>8, <1>10, <1>12

LEMMA AgreedWriteSnap ==
  ASSUME Agreed, NEW h \in Threads, WriteSnap(h)
  PROVE  Staged' /\ Alone' /\ Written' /\ Linked'
  <1>1. Typed /\ Owned /\ Staged /\ Alone /\ Written /\ Linked
    BY DEF Agreed
  <1>2. /\ UNCHANGED <<upload, bound, stage, nodes, outbox, asked, hurt, troubles>>
        /\ job[h].todo # << >> /\ job[h].todo[1] \in {"failSnap", "startSnap", "finSnap"}
        /\ tasks' = tasks /\ job[h].task \in 1..Len(tasks)
    BY <1>1, WriteTyped, WriteSnapIs
  <1>3. PICK j2 \in JobRec : Follows(j2, job[h]) /\ job' = [job EXCEPT ![h] = j2]
    BY <1>1, WriteTyped
  <1>4. Keeps(j2, job[h]) /\ ~Writing(j2)
    BY <1>1, <1>2, <1>3, JobTask, FollowsRoles DEF Paired
  <1>5. job'[h] = j2 /\ \A g \in Threads : g # h => job'[g] = job[g]
    BY <1>1, <1>3, OneJob
  <1>6. PICK k \in Kbs, status \in Statuses :
          /\ k = job[h].kb /\ SetSnap(k, status, job[h].task, job[h].type) /\ job[h].type \in Types
          /\ job[h].todo[1] = "failSnap" => status = "FAILED"
          /\ job[h].todo[1] = "startSnap" =>
               status = IF job[h].type = "DELETE" THEN "DELETING" ELSE "WORKING"
          /\ job[h].todo[1] = "finSnap" =>
               status = IF job[h].type = "DELETE" /\ job[h].status = "SUCCESS"
                        THEN "DELETED" ELSE job[h].status
    BY <1>1, WriteSnapIs
  <1>7. /\ snap'[k].status = status /\ snap'[k].task = job[h].task
        /\ \A m \in Kbs : m # k => snap'[m] = snap[m]
    <2>1. /\ Len(tasks) <= Len(tasks) /\ Len(tasks) \in Nat /\ job[h].task <= Len(tasks)
          /\ job[h].task \in 1..MaxTasks
      BY <1>1, <1>2, Shape
    <2> QED BY <1>1, <1>6, <2>1, SetSnapFits
  <1>8. Staged' /\ Alone'
    BY <1>1, <1>2, <1>3, <1>4, OneKeeps, RolesKept DEF Staged
  <1>9. ASSUME NEW g \in Threads, Writing(job'[g]), job'[g].task \notin hurt'
        PROVE  tasks'[job'[g].task].status = Record(job[g])'
    <2>1. g # h /\ job'[g] = job[g] /\ job[g].task \notin hurt
      BY <1>2, <1>4, <1>5, <1>9
    <2>2. tasks[job[g].task].status = Record(job[g])
      BY <1>1, <1>9, <2>1 DEF Written
    <2> QED BY <1>2, <2>1, <2>2 DEF Record
  <1>10. Written'
    BY <1>9 DEF Written, Writing
  <1>11. ASSUME NEW m \in Kbs, snap'[m] # NoSnap, snap'[m].task \notin hurt'
         PROVE  \/ Agree(m)'
                \/ \E g \in Threads : Writing(job[g])' /\ job'[g].kb = m /\ job'[g].task = snap'[m].task
    <2>1. CASE m = k
      <3>1. job[h].task \notin hurt
        BY <1>2, <1>7, <1>11, <2>1
      <3>2. tasks[job[h].task].status = Record(job[h])
        BY <1>1, <1>2, <3>1 DEF Written, Writing
      <3>3. \/ status = Record(job[h])
            \/ status = "DELETING" /\ Record(job[h]) = "WORKING"
        BY <1>2, <1>6 DEF Record
      <3> QED BY <1>2, <1>7, <2>1, <3>2, <3>3 DEF Agree
    <2>2. CASE m # k
      <3>1. snap'[m] = snap[m] /\ snap[m] # NoSnap /\ snap[m].task \notin hurt
        BY <1>2, <1>7, <1>11, <2>2
      <3>2. CASE Agree(m)
        BY <1>2, <3>1, <3>2 DEF Agree
      <3>3. ASSUME NEW g \in Threads, Writing(job[g]), job[g].kb = m, job[g].task = snap[m].task
            PROVE  Writing(job[g])' /\ job'[g].kb = m /\ job'[g].task = snap'[m].task
        BY <1>5, <1>6, <2>2, <3>1, <3>3 DEF Writing
      <3> QED BY <1>1, <3>1, <3>2, <3>3 DEF Linked
    <2> QED BY <2>1, <2>2
  <1>12. Linked'
    BY <1>11 DEF Linked
  <1> QED BY <1>8, <1>10, <1>12

LEMMA AgreedSteps ==
  ASSUME Agreed, Steps
  PROVE  Staged' /\ Alone' /\ Written' /\ Linked'
  BY AgreedBegins, AgreedMoves, AgreedEnqueue, AgreedSubmit, AgreedWriteTask, AgreedWriteSnap,
     AgreedParserCancel, AgreedCancelRead, AgreedReceive, AgreedRaise, AgreedUndelivered,
     AgreedCrash, AgreedPosts DEF Steps

LEMMA AgreedInvariant == Spec => []Agreed
  <1>1. Init => Agreed
    <2> SUFFICES ASSUME Init PROVE Agreed
      OBVIOUS
    <2>1. /\ \A h \in Threads : job[h] = Idle
          /\ \A k \in Kbs : snap[k] = NoSnap
          /\ Len(outbox) = 0
      BY DEF Init
    <2> QED BY <2>1, InitTyped, IdleRoles
            DEF Agreed, Staged, StagedJob, Alone, Apart, Written, Linked
  <1>2. Agreed /\ [Next]_vars => Agreed'
    <2> SUFFICES ASSUME Agreed, [Next]_vars PROVE Agreed'
      OBVIOUS
    <2>1. Typed /\ Owned
      BY DEF Agreed
    <2>2. CASE Next
      BY <2>1, <2>2, NextSteps, OwnedSteps, AgreedSteps DEF Agreed
    <2>3. CASE UNCHANGED vars
      <3>1. UNCHANGED <<upload, bound, snap, tasks, stage, nodes, outbox, job, asked, hurt, troubles>>
        BY <2>3 DEF vars
      <3>2. Staged' /\ Alone'
        BY <3>1, RolesKept DEF Agreed, Keeps, Staged
      <3>3. Written' /\ Linked'
        BY <2>1, <3>1, WritesKept DEF Agreed
      <3> QED BY <2>1, <2>3, <3>2, <3>3, StutterTyped DEF Agreed
    <2> QED BY <2>2, <2>3
  <1> QED BY <1>1, <1>2, PTL DEF Spec

\* When no thread is at work for a knowledge base, the snapshot of the document in it
\* and the record of the task that the snapshot names agree, unless a trouble befell the
\* task: two handlers that interleave between the two writes of on_task_callback or
\* _enqueue_task never mix their outcomes (doc_manager.py), however many threads serve.
THEOREM RecordsStayTogether == Spec => []RecordsAgree
  <1>1. Agreed => RecordsAgree
    <2> SUFFICES ASSUME Linked, NEW k \in Kbs, snap[k] # NoSnap, snap[k].task \notin hurt,
                        \A h \in Threads : job[h].kb # k
                 PROVE  Agree(k)
      BY DEF Agreed, RecordsAgree, Agree
    <2> QED BY DEF Linked
  <1> QED BY <1>1, AgreedInvariant, PTL

-----------------------------------------------------------------------------
(* Something is on its way to every snapshot that is not settled.          *)

\* The parsing service has an outcome of task i to post, behind place n.
Reported(i, n) ==
  \E p \in 1..Len(outbox) : p > n /\ outbox[p].task = i /\ outbox[p].status \in {"SUCCESS", "FAILED"}

\* A thread that submits a task, or has its outcome to write.
Settling(j) ==
  \/ Submits(j)
  \/ j.todo # << >> /\ j.todo[1] = "cancelRead"
  \/ \E p \in 1..Len(j.todo) : j.todo[p] \in {"failSnap", "finSnap"}

Live(i) ==
  \/ stage[i] \in {"queued", "running"}
  \/ Reported(i, 0)
  \/ \E h \in Threads : job[h].task = i /\ Settling(job[h])

\* A record is canceled only after the parsing service has agreed.
Marked == \A i \in 1..Len(tasks) : tasks[i].status = "CANCELED" => stage[i] = "canceled"

Expected ==
  \A k \in Kbs : snap[k] # NoSnap /\ snap[k].task \notin hurt /\ snap[k].status \notin Settled =>
    Live(snap[k].task)

\* The outcome follows the news that a task has begun, on its way and when it is served.
Followed ==
  /\ \A p \in 1..Len(outbox) : outbox[p].status = "WORKING" /\ outbox[p].task \notin hurt =>
       stage[outbox[p].task] = "running" \/ Reported(outbox[p].task, p)
  /\ \A h \in Threads : job[h].posted /\ job[h].status = "WORKING" /\ job[h].task \notin hurt =>
       stage[job[h].task] = "running" \/ Reported(job[h].task, 0)

Awaited == Agreed /\ Marked /\ Expected /\ Followed

LEMMA IdleSettles == ~Settling(Idle)
  <1>1. Len(<< >>) = 0
    OBVIOUS
  <1> QED BY <1>1, IdleFits, IdleRoles DEF Settling

LEMMA MarkedKept ==
  ASSUME Typed, Marked, tasks' = tasks, \A i \in Ids : stage[i] = "canceled" => stage'[i] = "canceled"
  PROVE  Marked'
  <1> SUFFICES ASSUME NEW i \in 1..Len(tasks), tasks[i].status = "CANCELED" PROVE stage'[i] = "canceled"
    BY DEF Marked
  <1>1. i \in Ids
    BY Shape
  <1> QED BY <1>1 DEF Marked

\* Steps after which the callbacks are the same, or one more.
LEMMA LiveStep ==
  ASSUME Typed, Expected, Followed, hurt \subseteq hurt', NEW len \in Nat, len = Len(outbox),
         Len(outbox') \in Nat, Len(outbox) <= Len(outbox'),
         \A p \in 1..Len(outbox) : outbox'[p] = outbox[p],
         \A p \in 1..Len(outbox') : p > Len(outbox) /\ outbox'[p].status = "WORKING" =>
           outbox'[p].task \in hurt' \/ stage'[outbox'[p].task] = "running",
         \A i \in Ids : stage[i] = "running" =>
           stage'[i] = "running" \/ i \in hurt' \/ Reported(i, len)',
         \A h \in Threads : job'[h].posted => SameJob(job'[h], job[h]),
         \A k \in Kbs : snap'[k] # NoSnap /\ snap'[k].task \notin hurt'
           /\ snap'[k].status \notin Settled =>
           \/ Live(snap[k].task)'
           \/ /\ snap'[k] = snap[k] /\ stage'[snap[k].task] = stage[snap[k].task]
              /\ \A h \in Threads : job[h].task = snap[k].task /\ Settling(job[h]) =>
                   job'[h].task = job[h].task /\ Settling(job'[h])
  PROVE  Expected' /\ Followed'
  <1>1. outbox \in Seq(Posted) /\ Len(outbox) \in Nat
    BY Shape
  <1>2. ASSUME NEW i, NEW n \in Nat, Reported(i, n) PROVE Reported(i, n)'
    BY <1>1, <1>2 DEF Reported
  <1>3. ASSUME NEW i \in Ids, NEW n \in Nat, n <= Len(outbox), i \notin hurt',
               stage[i] = "running" \/ Reported(i, n)
        PROVE  stage'[i] = "running" \/ Reported(i, n)'
    <2>1. CASE Reported(i, n)
      BY <1>2, <2>1
    <2>2. CASE Reported(i, len)'
      BY <1>1, <1>3, <2>2 DEF Reported
    <2> QED BY <1>3, <2>1, <2>2
  <1>4. ASSUME NEW k \in Kbs, snap'[k] # NoSnap, snap'[k].task \notin hurt',
               snap'[k].status \notin Settled
        PROVE  Live(snap[k].task)'
    <2> SUFFICES ASSUME /\ snap'[k] = snap[k] /\ stage'[snap[k].task] = stage[snap[k].task]
                        /\ \A h \in Threads : job[h].task = snap[k].task /\ Settling(job[h]) =>
                             job'[h].task = job[h].task /\ Settling(job'[h])
                 PROVE  Live(snap[k].task)'
      BY <1>4
    <2>1. Live(snap[k].task)
      BY <1>4 DEF Expected
    <2>2. CASE stage[snap[k].task] \in {"queued", "running"}
      BY <2>2 DEF Live
    <2>3. CASE Reported(snap[k].task, 0)
      <3>1. PICK i : i = snap[k].task
        OBVIOUS
      <3>2. Reported(i, 0)'
        BY <1>2, <2>3, <3>1
      <3> QED BY <3>1, <3>2 DEF Live, Reported
    <2>4. CASE \E h \in Threads : job[h].task = snap[k].task /\ Settling(job[h])
      BY <2>4 DEF Live, Settling, Submits
    <2> QED BY <2>1, <2>2, <2>3, <2>4 DEF Live
  <1>5. ASSUME NEW p \in 1..Len(outbox'), outbox'[p].status = "WORKING", outbox'[p].task \notin hurt'
        PROVE  stage'[outbox'[p].task] = "running" \/ Reported(outbox[p].task, p)'
    <2>1. CASE p > Len(outbox)
      BY <1>5, <2>1
    <2>2. CASE p <= Len(outbox)
      <3>1. p \in 1..Len(outbox) /\ outbox'[p] = outbox[p] /\ outbox[p] \in Posted
        BY <1>1, <2>2
      <3>2. PICK i \in Ids : i = outbox[p].task
        BY <3>1 DEF Posted
      <3>3. stage[i] = "running" \/ Reported(i, p)
        BY <1>5, <3>1, <3>2 DEF Followed
      <3>4. stage'[i] = "running" \/ Reported(i, p)'
        BY <1>3, <1>5, <2>2, <3>1, <3>2, <3>3
      <3> QED BY <3>1, <3>2, <3>4 DEF Reported
    <2> QED BY <1>1, <2>1, <2>2
  <1>6. ASSUME NEW h \in Threads, job'[h].posted, job'[h].status = "WORKING", job'[h].task \notin hurt'
        PROVE  stage'[job'[h].task] = "running" \/ Reported(job[h].task, 0)'
    <2>1. job[h].posted /\ job'[h].task = job[h].task /\ job[h].status = "WORKING"
      BY <1>6 DEF SameJob
    <2>2. PICK i \in Ids : i = job[h].task
      BY <2>1, PostedShape
    <2>3. stage[i] = "running" \/ Reported(i, 0)
      BY <1>6, <2>1, <2>2 DEF Followed
    <2>4. stage'[i] = "running" \/ Reported(i, 0)'
      BY <1>1, <1>3, <1>6, <2>1, <2>2, <2>3
    <2> QED BY <2>1, <2>2, <2>4 DEF Reported
  <1>7. Expected'
    BY <1>4 DEF Expected, Live, Reported, Settling, Submits
  <1>8. Followed'
    BY <1>5, <1>6 DEF Followed, Reported
  <1> QED BY <1>7, <1>8

LEMMA OneLive ==
  ASSUME Typed, Expected, Followed, NEW h \in Threads, NEW j2, job' = [job EXCEPT ![h] = j2],
         hurt \subseteq hurt', outbox' = outbox,
         \A i \in Ids : stage[i] = "running" => stage'[i] = "running",
         j2.posted => SameJob(j2, job[h]),
         \A k \in Kbs :
           \/ snap'[k] = NoSnap \/ snap'[k].status \in Settled \/ snap'[k].task \in hurt'
           \/ Live(snap[k].task)'
           \/ /\ snap'[k] = snap[k] /\ stage'[snap[k].task] = stage[snap[k].task]
              /\ job[h].task = snap[k].task /\ Settling(job[h]) =>
                   j2.task = job[h].task /\ Settling(j2)
  PROVE  Expected' /\ Followed'
  <1>1. job'[h] = j2 /\ \A g \in Threads : g # h => job'[g] = job[g]
    BY OneJob
  <1>2. outbox \in Seq(Posted) /\ Len(outbox) \in Nat
    BY Shape
  <1>3. PICK len \in Nat : len = Len(outbox)
    BY <1>2
  <1>4. \A g \in Threads : job'[g].posted => SameJob(job'[g], job[g])
    BY <1>1 DEF SameJob
  <1>5. ASSUME NEW k \in Kbs, snap'[k] # NoSnap, snap'[k].task \notin hurt',
               snap'[k].status \notin Settled
        PROVE  \/ Live(snap[k].task)'
               \/ /\ snap'[k] = snap[k] /\ stage'[snap[k].task] = stage[snap[k].task]
                  /\ \A g \in Threads : job[g].task = snap[k].task /\ Settling(job[g]) =>
                       job'[g].task = job[g].task /\ Settling(job'[g])
    BY <1>1, <1>5
  <1>6. \A i \in Ids : stage[i] = "running" =>
          stage'[i] = "running" \/ i \in hurt' \/ Reported(i, len)'
    OBVIOUS
  <1>7. \A p \in 1..Len(outbox') : p > Len(outbox) /\ outbox'[p].status = "WORKING" =>
          outbox'[p].task \in hurt' \/ stage'[outbox'[p].task] = "running"
    BY <1>2
  <1>8. Len(outbox') \in Nat /\ Len(outbox) <= Len(outbox')
          /\ \A p \in 1..Len(outbox) : outbox'[p] = outbox[p]
    BY <1>2
  <1> QED BY <1>4, <1>5, <1>6, <1>7, <1>8, <1>3, LiveStep

LEMMA PassiveSettles ==
  ASSUME NEW j \in JobRec, Passive(j)
  PROVE  ~Settling(j)
  BY DEF Passive, Settling, Submits, Paired

LEMMA AwaitedBegins ==
  ASSUME Awaited, NEW h \in Threads, Begins(h)
  PROVE  Marked' /\ Expected' /\ Followed'
  <1>1. Typed /\ Marked /\ Expected /\ Followed
    BY DEF Awaited, Agreed
  <1>2. PICK j2 \in JobRec : /\ job[h] = Idle /\ job' = [job EXCEPT ![h] = j2] /\ ~j2.posted
                             /\ UNCHANGED <<snap, tasks, stage, outbox, hurt>>
    BY DEF Begins
  <1>3. Marked'
    BY <1>1, <1>2, MarkedKept
  <1>4. ~Settling(job[h])
    BY <1>2, IdleSettles
  <1> QED BY <1>1, <1>2, <1>3, <1>4, OneLive

LEMMA AwaitedMoves ==
  ASSUME Awaited, NEW h \in Threads, Moves(h)
  PROVE  Marked' /\ Expected' /\ Followed'
  <1>1. Typed /\ Marked /\ Expected /\ Followed
    BY DEF Awaited, Agreed
  <1>2. PICK j2 \in JobRec :
          /\ Passive(job[h]) /\ (j2 = Idle \/ SameJob(j2, job[h]))
          /\ job' = [job EXCEPT ![h] = j2] /\ \A k \in Kbs : snap'[k] \in {snap[k], NoSnap}
          /\ UNCHANGED <<tasks, stage, outbox, hurt>>
    BY DEF Moves
  <1>3. Marked'
    BY <1>1, <1>2, MarkedKept
  <1>4. ~Settling(job[h])
    BY <1>1, <1>2, JobTask, PassiveSettles
  <1>5. j2.posted => SameJob(j2, job[h])
    BY <1>2, IdleFits
  <1> QED BY <1>1, <1>2, <1>3, <1>4, <1>5, OneLive

\* A thread at the head of a list that writes nothing in pairs.
LEMMA NotSettling ==
  ASSUME Typed, NEW h \in Threads, job[h].todo # << >>,
         job[h].todo[1] \notin Paired \cup {"submit", "cancelRead"}
  PROVE  ~Settling(job[h])
  <1>1. \A p \in 1..Len(job[h].todo) : job[h].todo[p] \notin Paired
    BY HeadIs, NoPair
  <1> QED BY <1>1 DEF Settling, Submits, Paired

LEMMA AwaitedEnqueue ==
  ASSUME Awaited, NEW h \in Threads, Enqueue(h)
  PROVE  Marked' /\ Expected' /\ Followed'
  <1>1. Typed /\ Marked /\ Expected /\ Followed
    BY DEF Awaited, Agreed
  <1>2. PICK j2 \in JobRec, status \in {"DELETING", "WAITING"} :
          /\ job' = [job EXCEPT ![h] = j2]
          /\ j2.task = Len(tasks) + 1 /\ ~j2.posted
          /\ j2.todo = Tail(job[h].todo) /\ j2.todo[1] = "submit"
          /\ JobFits(j2, Len(tasks) + 1)
          /\ tasks' = Append(tasks, [type |-> job[h].type, kb |-> job[h].kb, status |-> status])
          /\ SetSnap(job[h].kb, status, Len(tasks) + 1, job[h].type)
    BY <1>1, EnqueueTyped
  <1>3. /\ UNCHANGED <<stage, outbox, hurt>> /\ job[h].todo # << >> /\ job[h].todo[1] = "enqueue"
        /\ Len(tasks) + 1 \in 1..MaxTasks
    BY <1>1, EnqueueTyped
  <1>4. /\ tasks \in Seq(TaskRec) /\ Len(tasks) \in Nat /\ job[h].kb \in Kbs /\ job[h].type \in Types
    BY <1>1, <1>3, Shape, HeadIs
  <1>5. Marked'
    <2> SUFFICES ASSUME NEW i \in 1..Len(tasks'), tasks'[i].status = "CANCELED"
                 PROVE  stage'[i] = "canceled"
      BY DEF Marked
    <2>1. PICK rec : rec = [type |-> job[h].type, kb |-> job[h].kb, status |-> status]
      OBVIOUS
    <2>2. rec.status = status /\ tasks' = Append(tasks, rec)
      BY <1>2, <2>1
    <2>3. i <= Len(tasks)
      BY <1>4, <2>2
    <2> QED BY <1>1, <1>3, <1>4, <2>2, <2>3 DEF Marked
  <1>6. job'[h] = j2
    BY <1>1, <1>2, OneJob
  <1>7. j2.todo # << >>
    <2>1. Len(j2.todo) >= 1 \/ j2 = Idle
      BY <1>2 DEF JobFits
    <2>2. j2 # Idle
      BY <1>2, <1>4, IdleFits
    <2> QED BY <2>1, <2>2
  <1>8. Settling(job'[h]) /\ job'[h].task = Len(tasks) + 1
    BY <1>2, <1>6, <1>7 DEF Settling, Submits
  <1>9. PICK k \in Kbs, type \in Types, n \in 1..MaxTasks :
          /\ k = job[h].kb /\ n = Len(tasks) + 1 /\ SetSnap(k, status, n, type)
    BY <1>2, <1>3, <1>4
  <1>10. snap'[k].task = n /\ \A m \in Kbs : m # k => snap'[m] = snap[m]
    <2>1. status \in Statuses /\ n \in Nat /\ Len(tasks) <= n
      BY <1>4, <1>9 DEF Statuses
    <2> QED BY <1>1, <1>9, <2>1, SetSnapFits
  <1>11. Live(snap[k].task)'
    BY <1>8, <1>9, <1>10 DEF Live, Settling, Submits
  <1>12. ~Settling(job[h])
    BY <1>1, <1>3, NotSettling DEF Paired
  <1> QED BY <1>1, <1>2, <1>3, <1>5, <1>10, <1>12, <1>11, OneLive

LEMMA AwaitedSubmit ==
  ASSUME Awaited, NEW h \in Threads, Submit(h)
  PROVE  Marked' /\ Expected' /\ Followed'
  <1>1. Typed /\ Staged /\ Marked /\ Expected /\ Followed
    BY DEF Awaited, Agreed
  <1>2. /\ job[h].todo # << >> /\ job[h].todo[1] = "submit" /\ job[h].task \in 1..Len(tasks)
        /\ UNCHANGED <<snap, tasks, outbox>> /\ hurt \subseteq hurt'
    BY <1>1, SubmitTyped
  <1>3. PICK j2 \in JobRec :
          /\ job' = [job EXCEPT ![h] = j2]
          /\ \/ Follows(j2, job[h]) /\ stage' = [stage EXCEPT ![job[h].task] = "queued"]
             \/ /\ SameJob(j2, job[h]) /\ Writer(j2.todo, "failTask", "failSnap", FailRest)
                /\ stage' = stage \/ stage' = [stage EXCEPT ![job[h].task] = "queued"]
    BY <1>1, SubmitTyped
  <1>4. PICK i \in Ids : i = job[h].task
    BY <1>1, <1>2, Shape
  <1>5. stage[i] = "none" /\ stage \in [Ids -> Stages]
    BY <1>1, <1>2, <1>4, Shape DEF Staged, StagedJob, Submits
  <1>6. /\ \A m \in Ids : stage[m] \in {"running", "canceled"} => stage'[m] = stage[m]
        /\ \/ stage' = stage
           \/ stage'[i] = "queued" /\ \A m \in Ids : m # i => stage'[m] = stage[m]
    BY <1>3, <1>4, <1>5
  <1>7. Marked'
    BY <1>1, <1>2, <1>6, MarkedKept
  <1>8. j2.posted => SameJob(j2, job[h])
    BY <1>3, IdleFits DEF Follows, SameJob
  <1>9. ASSUME NEW k \in Kbs, snap[k] # NoSnap
        PROVE  \/ Live(snap[k].task)'
               \/ /\ stage'[snap[k].task] = stage[snap[k].task]
                  /\ job[h].task = snap[k].task /\ Settling(job[h]) =>
                       j2.task = job[h].task /\ Settling(j2)
    <2>1. snap[k].task \in Ids
      BY <1>1, <1>9, SnapShape
    <2>2. CASE stage' = stage
      <3>1. CASE Follows(j2, job[h]) /\ stage' = [stage EXCEPT ![job[h].task] = "queued"]
        <4>1. stage'[i] = "queued"
          BY <1>4, <1>5, <3>1
        <4> QED BY <1>5, <2>2, <4>1
      <3>2. CASE SameJob(j2, job[h]) /\ Writer(j2.todo, "failTask", "failSnap", FailRest)
        <4>1. 2 \in 1..Len(j2.todo) /\ j2.todo[2] = "failSnap"
          BY <3>2 DEF Writer, JobRec
        <4>2. Settling(j2) /\ j2.task = job[h].task
          BY <3>2, <4>1 DEF Settling, SameJob
        <4> QED BY <2>2, <4>2
      <3> QED BY <1>3, <3>1, <3>2
    <2>3. CASE stage'[i] = "queued" /\ \A m \in Ids : m # i => stage'[m] = stage[m]
      <3>1. CASE snap[k].task = i
        <4>1. stage'[snap'[k].task] = "queued"
          BY <1>2, <2>3, <3>1
        <4> QED BY <4>1 DEF Live
      <3>2. CASE snap[k].task # i
        BY <1>4, <2>1, <2>3, <3>2
      <3> QED BY <3>1, <3>2
    <2> QED BY <1>6, <2>2, <2>3
  <1>10. \A m \in Ids : stage[m] = "running" => stage'[m] = "running"
    BY <1>6
  <1>11. job' = [job EXCEPT ![h] = j2]
    BY <1>3
  <1>12. \A k \in Kbs :
           \/ snap'[k] = NoSnap \/ snap'[k].status \in Settled \/ snap'[k].task \in hurt'
           \/ Live(snap[k].task)'
           \/ /\ snap'[k] = snap[k] /\ stage'[snap[k].task] = stage[snap[k].task]
              /\ job[h].task = snap[k].task /\ Settling(job[h]) =>
                   j2.task = job[h].task /\ Settling(j2)
    BY <1>2, <1>9
  <1>13. Expected' /\ Followed'
    BY <1>1, <1>2, <1>8, <1>10, <1>11, <1>12, OneLive
  <1> QED BY <1>7, <1>13

LEMMA AwaitedParserCancel ==
  ASSUME Awaited, NEW h \in Threads, ParserCancel(h)
  PROVE  Marked' /\ Expected' /\ Followed'
  <1>1. Typed /\ Staged /\ Marked /\ Expected /\ Followed
    BY DEF Awaited, Agreed
  <1>2. /\ job[h].todo # << >> /\ job[h].todo[1] = "parserCancel" /\ job[h].task \in 1..Len(tasks)
        /\ UNCHANGED <<snap, tasks, outbox, hurt>>
    BY <1>1, ParserCancelTyped
  <1>3. PICK j2 \in JobRec :
          /\ job' = [job EXCEPT ![h] = j2] /\ JobFits(j2, Len(tasks))
          /\ \/ j2 = Idle /\ stage' = stage
             \/ /\ Follows(j2, job[h]) /\ stage[job[h].task] = "queued"
                /\ stage' = [stage EXCEPT ![job[h].task] = "canceled"]
    BY <1>1, ParserCancelTyped
  <1>4. PICK i \in Ids : i = job[h].task
    BY <1>1, <1>2, Shape
  <1>5. stage \in [Ids -> Stages] /\ ~Settling(job[h]) /\ job'[h] = j2
    BY <1>1, <1>2, <1>3, NotSettling, Shape, OneJob DEF Paired
  <1>6. \A m \in Ids : stage[m] \in {"running", "canceled"} => stage'[m] = stage[m]
    BY <1>3, <1>4, <1>5
  <1>7. Marked'
    BY <1>1, <1>2, <1>6, MarkedKept
  <1>8. CASE j2 = Idle /\ stage' = stage
    BY <1>1, <1>2, <1>3, <1>5, <1>7, <1>8, IdleFits, OneLive
  <1>9. CASE /\ Follows(j2, job[h]) /\ stage[job[h].task] = "queued"
             /\ stage' = [stage EXCEPT ![job[h].task] = "canceled"]
    <2>1. SameJob(j2, job[h]) /\ Cancels(j2) /\ ~j2.posted
      BY <1>1, <1>2, <1>9, HeadIs, FollowsRoles
    <2>2. job[h].status = None
      <3>1. Told(job[h]) /\ 1 \in 1..Len(job[h].todo)
        BY <1>1, <1>2, HeadIs
      <3> QED BY <1>2, <3>1 DEF Told, Canceling
    <2>3. Settling(j2) /\ j2.task = i
      BY <1>4, <2>1, <2>2 DEF Cancels, Settling, SameJob, None
    <2>4. ASSUME NEW k \in Kbs, snap[k] # NoSnap
          PROVE  Live(snap[k].task)' \/ stage'[snap[k].task] = stage[snap[k].task]
      <3>1. CASE snap[k].task = i
        <4>1. job'[h].task = snap'[k].task /\ Settling(job'[h])
          BY <1>2, <1>5, <2>3, <3>1
        <4> QED BY <4>1 DEF Live, Settling, Submits
      <3>2. CASE snap[k].task # i
        <4>1. snap[k].task \in Ids
          BY <1>1, <2>4, SnapShape
        <4> QED BY <1>4, <1>5, <1>9, <3>2, <4>1
      <3> QED BY <3>1, <3>2
    <2> QED BY <1>1, <1>2, <1>3, <1>5, <1>6, <1>7, <2>1, <2>4, OneLive
  <1> QED BY <1>3, <1>8, <1>9

LEMMA AwaitedCancelRead ==
  ASSUME Awaited, NEW h \in Threads, CancelRead(h)
  PROVE  Marked' /\ Expected' /\ Followed'
  <1>1. Typed /\ Owned /\ Marked /\ Expected /\ Followed
    BY DEF Awaited, Agreed
  <1>2. /\ job[h].task \in 1..Len(tasks)
        /\ UNCHANGED <<snap, tasks, stage, outbox, hurt>>
    BY <1>1, CancelReadTyped
  <1>3. PICK j2 \in JobRec :
          /\ job' = [job EXCEPT ![h] = j2]
          /\ j2 = Idle \/ (j2.task = job[h].task /\ ~j2.posted)
          /\ \/ Ignored(job[h].task, "CANCELED")
             \/ Writer(j2.todo, "finTask", "finSnap", FinishRest \cup Purging)
    BY <1>1, CancelReadTyped
  <1>4. Marked' /\ ~j2.posted
    BY <1>1, <1>2, <1>3, MarkedKept, IdleFits
  <1>5. ASSUME NEW k \in Kbs, snap[k] # NoSnap, job[h].task = snap[k].task
        PROVE  j2.task = job[h].task /\ Settling(j2)
    <2>1. tasks[job[h].task].kb = k
      BY <1>1, <1>5 DEF Owned
    <2>2. ~Ignored(job[h].task, "CANCELED")
      BY <1>5, <2>1 DEF Ignored
    <2>3. 2 \in 1..Len(j2.todo) /\ j2.todo[2] = "finSnap"
      BY <1>3, <2>2 DEF Writer, JobRec
    <2>4. Settling(j2)
      BY <2>3 DEF Settling
    <2> QED BY <1>3, <2>4, IdleSettles
  <1>6. /\ job' = [job EXCEPT ![h] = j2] /\ hurt \subseteq hurt' /\ outbox' = outbox
        /\ \A i \in Ids : stage[i] = "running" => stage'[i] = "running"
        /\ j2.posted => SameJob(j2, job[h])
    BY <1>2, <1>3, <1>4
  <1>7. \A k \in Kbs :
          \/ snap'[k] = NoSnap \/ snap'[k].status \in Settled \/ snap'[k].task \in hurt'
          \/ Live(snap[k].task)'
          \/ /\ snap'[k] = snap[k] /\ stage'[snap[k].task] = stage[snap[k].task]
             /\ job[h].task = snap[k].task /\ Settling(job[h]) =>
                  j2.task = job[h].task /\ Settling(j2)
    BY <1>2, <1>5
  <1> QED BY <1>1, <1>4, <1>6, <1>7, OneLive

LEMMA AwaitedWriteTask ==
  ASSUME Awaited, NEW h \in Threads, WriteTask(h)
  PROVE  Marked' /\ Expected' /\ Followed'
  <1>1. Typed /\ Staged /\ Marked /\ Expected /\ Followed
    BY DEF Awaited, Agreed
  <1>2. /\ job[h].todo # << >> /\ UNCHANGED <<stage, outbox, hurt>> /\ snap' = snap
        /\ job[h].todo[1] \in {"failTask", "startTask", "finTask"} /\ job[h].task \in 1..Len(tasks)
    BY <1>1, WriteTyped, WriteTaskIs
  <1>3. PICK j2 \in JobRec : Follows(j2, job[h]) /\ job' = [job EXCEPT ![h] = j2]
    BY <1>1, WriteTyped
  <1>4. PICK status \in Statuses :
          /\ SetTask(job[h].task, status)
          /\ job[h].todo[1] = "failTask" => status = "FAILED"
          /\ job[h].todo[1] = "startTask" => status = "WORKING"
          /\ job[h].todo[1] = "finTask" =>
               status = IF job[h].type = "DELETE" /\ job[h].status = "SUCCESS"
                        THEN "DELETED" ELSE job[h].status
    BY <1>1, WriteTaskIs
  <1>5. PICK i \in 1..Len(tasks) : i = job[h].task
    BY <1>2
  <1>6. /\ Len(tasks') = Len(tasks) /\ tasks'[i].status = status
        /\ \A m \in 1..Len(tasks) : m # i => tasks'[m] = tasks[m]
    BY <1>1, <1>4, <1>5, SetTaskFits
  <1>7. Marked'
    <2> SUFFICES ASSUME NEW m \in 1..Len(tasks), tasks'[m].status = "CANCELED"
                 PROVE  stage'[m] = "canceled"
      BY <1>6 DEF Marked
    <2>1. CASE m # i
      BY <1>1, <1>2, <1>6, <2>1 DEF Marked
    <2>2. CASE m = i
      <3>1. status = "CANCELED"
        BY <1>6, <2>2
      <3>2. job[h].status = "CANCELED"
        BY <1>2, <1>4, <3>1
      <3>3. Cancels(job[h])
        BY <3>2 DEF Cancels
      <3> QED BY <1>1, <1>2, <1>5, <2>2, <3>3 DEF Staged, StagedJob
    <2> QED BY <2>1, <2>2
  <1>8. SameJob(j2, job[h]) /\ Writing(j2)
        /\ (job[h].todo[1] = "failTask" => j2.todo[1] = "failSnap")
        /\ (job[h].todo[1] = "finTask" => j2.todo[1] = "finSnap")
    BY <1>1, <1>2, <1>3, HeadIs, FollowsRoles
  <1>9. Settling(job[h]) => j2.task = job[h].task /\ Settling(j2)
    <2>1. CASE job[h].todo[1] = "startTask"
      <3>1. Ordered(job[h].todo, job[h].task)
        BY <1>1, <1>2, HeadIs
      <3> QED BY <2>1, <3>1 DEF Ordered, Pair, Settling, Submits
    <2>2. CASE job[h].todo[1] # "startTask"
      <3>1. j2.todo # << >> /\ j2.todo[1] \in {"failSnap", "finSnap"} /\ j2.todo \in Seq(Ops)
        BY <1>2, <1>8, <2>2 DEF Writing, JobRec
      <3>2. 1 \in 1..Len(j2.todo)
        BY <3>1
      <3> QED BY <1>8, <3>1, <3>2 DEF Settling, SameJob
    <2> QED BY <2>1, <2>2
  <1>10. j2.posted => SameJob(j2, job[h])
    BY <1>8
  <1>11. Expected' /\ Followed'
    BY <1>1, <1>2, <1>3, <1>9, <1>10, OneLive
  <1> QED BY <1>7, <1>11

LEMMA AwaitedWriteSnap ==
  ASSUME Awaited, NEW h \in Threads, WriteSnap(h)
  PROVE  Marked' /\ Expected' /\ Followed'
  <1>1. Typed /\ Owned /\ Marked /\ Expected /\ Followed
    BY DEF Awaited, Agreed
  <1>2. /\ job[h].todo # << >> /\ UNCHANGED <<stage, outbox, hurt>> /\ tasks' = tasks
        /\ job[h].todo[1] \in {"failSnap", "startSnap", "finSnap"} /\ job[h].task \in 1..Len(tasks)
        /\ job[h].kb \in Kbs /\ job[h].type \in Types
    BY <1>1, WriteTyped, WriteSnapIs
  <1>3. PICK j2 \in JobRec : Follows(j2, job[h]) /\ job' = [job EXCEPT ![h] = j2]
    BY <1>1, WriteTyped
  <1>4. PICK status \in Statuses :
          /\ SetSnap(job[h].kb, status, job[h].task, job[h].type)
          /\ job[h].todo[1] = "failSnap" => status = "FAILED"
          /\ job[h].todo[1] = "finSnap" =>
               status = IF job[h].type = "DELETE" /\ job[h].status = "SUCCESS"
                        THEN "DELETED" ELSE job[h].status
    BY <1>1, WriteSnapIs
  <1>5. PICK k \in Kbs, i \in Ids : k = job[h].kb /\ i = job[h].task /\ i <= Len(tasks)
    BY <1>1, <1>2, Shape
  <1>6. snap'[k].status = status /\ snap'[k].task = i /\ \A m \in Kbs : m # k => snap'[m] = snap[m]
    BY <1>1, <1>2, <1>4, <1>5, Shape, SetSnapFits
  <1>7. Marked'
    BY <1>1, <1>2, MarkedKept
  <1>8. Told(job[h]) /\ 1 \in 1..Len(job[h].todo)
    BY <1>1, <1>2, HeadIs
  <1>9. ASSUME job[h].todo[1] # "startSnap" PROVE snap'[k].status \in Settled
    <2>1. job[h].todo[1] = "finSnap" => job[h].status \in Outcomes
      BY <1>8 DEF Told, Ending
    <2>2. status \in Settled
      BY <1>2, <1>4, <1>9, <2>1 DEF Outcomes, Settled
    <2> QED BY <1>6, <2>2
  <1>10. ASSUME job[h].todo[1] = "startSnap", i \notin hurt PROVE Live(snap[k].task)'
    <2>1. job[h].posted /\ job[h].status = "WORKING"
      BY <1>8, <1>10 DEF Told, Starting
    <2>2. stage[i] = "running" \/ Reported(i, 0)
      BY <1>1, <1>5, <1>10, <2>1 DEF Followed
    <2>3. stage'[snap'[k].task] = "running" \/ Reported(snap[k].task, 0)'
      BY <1>2, <1>6, <2>2 DEF Reported
    <2>4. Live(snap[k].task)'
      BY <2>3 DEF Live, Reported
    <2> QED BY <2>4
  <1>11. snap'[k].status \in Settled \/ snap'[k].task \in hurt' \/ Live(snap[k].task)'
    BY <1>2, <1>6, <1>9, <1>10
  <1>12. ASSUME NEW m \in Kbs, m # k, snap[m] # NoSnap
         PROVE  snap'[m] = snap[m] /\ job[h].task # snap[m].task
    <2>1. tasks[snap[m].task].kb = m /\ tasks[i].kb = k
      BY <1>1, <1>2, <1>5, <1>12 DEF Owned
    <2> QED BY <1>5, <1>6, <1>12, <2>1
  <1>13. \A m \in Kbs :
           \/ snap'[m] = NoSnap \/ snap'[m].status \in Settled \/ snap'[m].task \in hurt'
           \/ Live(snap[m].task)'
           \/ /\ snap'[m] = snap[m] /\ stage'[snap[m].task] = stage[snap[m].task]
              /\ job[h].task = snap[m].task /\ Settling(job[h]) =>
                   j2.task = job[h].task /\ Settling(j2)
    <2> SUFFICES ASSUME NEW m \in Kbs
                 PROVE  \/ snap'[m] = NoSnap \/ snap'[m].status \in Settled \/ snap'[m].task \in hurt'
                        \/ Live(snap[m].task)'
                        \/ snap'[m] = snap[m] /\ job[h].task # snap[m].task
      BY <1>2
    <2>1. CASE m = k
      BY <1>11, <2>1
    <2>2. CASE m # k
      BY <1>6, <1>12, <2>2
    <2> QED BY <2>1, <2>2
  <1>14. j2.posted => SameJob(j2, job[h])
    BY <1>3, IdleFits DEF Follows, SameJob
  <1>15. Expected' /\ Followed'
    BY <1>1, <1>2, <1>3, <1>13, <1>14, OneLive
  <1> QED BY <1>7, <1>15

LEMMA AwaitedRaise ==
  ASSUME Awaited, NEW h \in Threads, Raise(h)
  PROVE  Marked' /\ Expected' /\ Followed'
  <1>1. Typed /\ Marked /\ Expected /\ Followed
    BY DEF Awaited, Agreed
  <1>2. /\ UNCHANGED <<snap, tasks, stage>> /\ job[h] # Idle /\ job' = [job EXCEPT ![h] = Idle]
        /\ hurt' = hurt \cup Victim(h)
        /\ outbox' = IF job[h].posted
                     THEN Append(outbox, [task |-> job[h].task, status |-> job[h].status])
                     ELSE outbox
    BY <1>1, RaiseTyped
  <1>3. Marked'
    BY <1>1, <1>2, MarkedKept
  <1>4. outbox \in Seq(Posted) /\ Len(outbox) \in Nat
    BY <1>1, Shape
  <1>5. PICK len \in Nat : len = Len(outbox)
    BY <1>4
  <1>6. job[h].task # 0 => job[h].task \in hurt'
    BY <1>1, <1>2, VictimFits
  <1>7. /\ Len(outbox') \in Nat /\ Len(outbox) <= Len(outbox')
        /\ \A p \in 1..Len(outbox) : outbox'[p] = outbox[p]
        /\ \A p \in 1..Len(outbox') : p > Len(outbox) => outbox'[p].task \in hurt'
    <2>1. CASE ~job[h].posted
      BY <1>2, <1>4, <2>1
    <2>2. CASE job[h].posted
      <3>1. PICK cb \in Posted : cb = [task |-> job[h].task, status |-> job[h].status]
              /\ cb.task = job[h].task
        BY <1>1, <2>2, PostedShape
      <3>2. cb.task \in hurt' /\ outbox' = Append(outbox, cb)
        BY <1>1, <1>2, <1>6, <2>2, <3>1, PostedShape
      <3> QED BY <1>4, <3>2
    <2> QED BY <2>1, <2>2
  <1>8. job'[h] = Idle /\ \A g \in Threads : g # h => job'[g] = job[g]
    BY <1>1, <1>2, OneJob
  <1>9. \A g \in Threads : job'[g].posted => SameJob(job'[g], job[g])
    BY <1>8, IdleFits DEF SameJob
  <1>10. ASSUME NEW k \in Kbs, snap'[k] # NoSnap, snap'[k].task \notin hurt'
        PROVE  /\ snap'[k] = snap[k] /\ stage'[snap[k].task] = stage[snap[k].task]
               /\ \A g \in Threads : job[g].task = snap[k].task /\ Settling(job[g]) =>
                    job'[g].task = job[g].task /\ Settling(job'[g])
    <2>1. snap[k].task # 0 /\ snap'[k] = snap[k]
      BY <1>1, <1>2, <1>10, SnapShape
    <2> QED BY <1>2, <1>6, <1>8, <1>10, <2>1
  <1>11. \A i \in Ids : stage[i] = "running" => stage'[i] = "running"
    BY <1>2
  <1>12. Expected' /\ Followed'
    BY <1>1, <1>2, <1>7, <1>9, <1>10, <1>11, <1>5, LiveStep
  <1> QED BY <1>3, <1>12

LEMMA AwaitedCrash ==
  ASSUME Awaited, Crash
  PROVE  Marked' /\ Expected' /\ Followed'
  <1>1. Typed /\ Marked /\ Expected /\ Followed
    BY DEF Awaited, Agreed
  <1>2. /\ UNCHANGED <<snap, tasks, stage, outbox>> /\ job' = [h \in Threads |-> Idle]
        /\ hurt' = hurt \cup UNION {Victim(h) : h \in {g \in Threads : job[g] # Idle}}
    BY <1>1, CrashTyped
  <1>3. Marked'
    BY <1>1, <1>2, MarkedKept
  <1>4. outbox \in Seq(Posted) /\ Len(outbox) \in Nat /\ hurt \subseteq hurt'
    BY <1>1, <1>2, Shape
  <1>5. PICK len \in Nat : len = Len(outbox)
    BY <1>4
  <1>6. ASSUME NEW k \in Kbs, snap'[k] # NoSnap, snap'[k].task \notin hurt'
        PROVE  /\ snap'[k] = snap[k] /\ stage'[snap[k].task] = stage[snap[k].task]
               /\ \A g \in Threads : job[g].task = snap[k].task => ~Settling(job[g])
    <2>1. snap[k].task # 0 /\ snap'[k] = snap[k]
      BY <1>1, <1>2, <1>6, SnapShape
    <2>2. ASSUME NEW g \in Threads, job[g].task = snap[k].task PROVE job[g] = Idle
      <3> SUFFICES ASSUME job[g] # Idle PROVE FALSE
        OBVIOUS
      <3>1. Victim(g) = {job[g].task}
        BY <1>1, <2>1, <2>2, VictimFits
      <3>2. job[g].task \in hurt'
        BY <1>2, <3>1
      <3> QED BY <1>6, <2>1, <2>2, <3>2
    <2> QED BY <1>2, <2>1, <2>2, IdleSettles
  <1>7. \A g \in Threads : ~job'[g].posted
    BY <1>2, IdleFits
  <1>8. /\ Len(outbox') \in Nat /\ Len(outbox) <= Len(outbox') /\ stage' = stage
        /\ \A p \in 1..Len(outbox) : outbox'[p] = outbox[p]
        /\ \A p \in 1..Len(outbox') : p <= Len(outbox)
    BY <1>2, <1>4
  <1>9. Expected' /\ Followed'
    BY <1>1, <1>4, <1>6, <1>7, <1>8, <1>5, LiveStep
  <1> QED BY <1>3, <1>9

LEMMA AwaitedPosts ==
  ASSUME Awaited, Posts
  PROVE  Marked' /\ Expected' /\ Followed'
  <1>1. Typed /\ Marked /\ Expected /\ Followed
    BY DEF Awaited, Agreed
  <1>2. PICK id \in Ids, s \in {"WORKING", "SUCCESS", "FAILED"} :
          \/ Claim(id) /\ s = "WORKING"
          \/ Finish(id, s) /\ s \in {"SUCCESS", "FAILED"}
    BY DEF Posts
  <1>3. /\ UNCHANGED <<snap, tasks, job, hurt>> /\ outbox' = Append(outbox, [task |-> id, status |-> s])
        /\ [task |-> id, status |-> s] \in Posted
        /\ \/ s = "WORKING" /\ stage[id] = "queued" /\ stage' = [stage EXCEPT ![id] = "running"]
           \/ /\ s \in {"SUCCESS", "FAILED"} /\ stage[id] = "running"
              /\ stage' = [stage EXCEPT ![id] = "done"]
    BY <1>1, <1>2, ParseTyped
  <1>4. outbox \in Seq(Posted) /\ Len(outbox) \in Nat /\ stage \in [Ids -> Stages]
    BY <1>1, Shape
  <1>5. PICK cb \in Posted : cb.task = id /\ cb.status = s /\ outbox' = Append(outbox, cb)
    BY <1>3
  <1>6. /\ Len(outbox') = Len(outbox) + 1 /\ outbox'[Len(outbox) + 1] = cb
        /\ \A p \in 1..Len(outbox) : outbox'[p] = outbox[p]
    BY <1>4, <1>5
  <1>7. \A i \in Ids : i # id => stage'[i] = stage[i]
    BY <1>3, <1>4
  <1>8. \/ s = "WORKING" /\ stage[id] = "queued" /\ stage'[id] = "running"
        \/ s \in {"SUCCESS", "FAILED"} /\ stage[id] = "running" /\ stage'[id] = "done"
    BY <1>3, <1>4
  <1>9. Marked'
    <2>1. \A i \in Ids : stage[i] = "canceled" => stage'[i] = "canceled"
      BY <1>7, <1>8
    <2> QED BY <1>1, <1>3, <2>1, MarkedKept
  <1>10. PICK len \in Nat : len = Len(outbox)
    BY <1>4
  <1>11. s \in {"SUCCESS", "FAILED"} => Reported(id, len)'
    <2>1. len + 1 \in 1..Len(outbox') /\ len + 1 > len /\ outbox'[len + 1] = cb
      BY <1>4, <1>6, <1>10
    <2> QED BY <1>5, <2>1 DEF Reported
  <1>12. ASSUME NEW k \in Kbs, snap'[k] # NoSnap
         PROVE  Live(snap[k].task)' \/ (snap'[k] = snap[k] /\ stage'[snap[k].task] = stage[snap[k].task])
    <2>1. snap[k].task \in Ids /\ snap'[k] = snap[k]
      BY <1>1, <1>3, <1>12, SnapShape
    <2>2. CASE snap[k].task # id
      BY <1>7, <2>1, <2>2
    <2>3. CASE snap[k].task = id
      <3>1. CASE s = "WORKING"
        BY <1>8, <2>1, <2>3, <3>1 DEF Live
      <3>2. CASE s \in {"SUCCESS", "FAILED"}
        <4>1. outbox'[Len(outbox')].task = snap'[k].task
                /\ outbox'[Len(outbox')].status \in {"SUCCESS", "FAILED"}
              /\ Len(outbox') \in 1..Len(outbox') /\ Len(outbox') > 0
          BY <1>4, <1>5, <1>6, <2>1, <2>3, <3>2
        <4>2. Reported(snap[k].task, 0)'
          BY <4>1 DEF Reported
        <4> QED BY <4>2 DEF Live, Reported
      <3> QED BY <1>8, <3>1, <3>2
    <2> QED BY <2>2, <2>3
  <1>13. \A p \in 1..Len(outbox') : p > Len(outbox) /\ outbox'[p].status = "WORKING" =>
           stage'[outbox'[p].task] = "running"
    BY <1>4, <1>5, <1>6, <1>8
  <1>14. \A g \in Threads : job'[g] = job[g] /\ SameJob(job'[g], job[g])
    BY <1>3 DEF SameJob
  <1>15. ASSUME NEW i \in Ids, stage[i] = "running"
         PROVE  stage'[i] = "running" \/ Reported(i, len)'
    <2>1. CASE i = id
      <3>1. s \in {"SUCCESS", "FAILED"}
        BY <1>8, <1>15, <2>1
      <3> QED BY <1>11, <2>1, <3>1 DEF Reported
    <2>2. CASE i # id
      BY <1>7, <1>15, <2>2
    <2> QED BY <2>1, <2>2
  <1>16. Len(outbox') \in Nat /\ Len(outbox) <= Len(outbox') /\ hurt \subseteq hurt'
    BY <1>3, <1>4, <1>6
  <1>17. Expected' /\ Followed'
    BY <1>1, <1>6, <1>12, <1>13, <1>14, <1>15, <1>16, <1>10, LiveStep
  <1> QED BY <1>9, <1>17

\* The head of the outbox is taken: every other callback moves up.
LEMMA Shifted ==
  ASSUME Typed, outbox # << >>,
         \A p \in 1..Len(outbox) : p # 1 => p - 1 \in 1..Len(outbox') /\ outbox'[p - 1] = outbox[p]
  PROVE  /\ \A i : \A n \in Nat : Reported(i, n + 1) => Reported(i, n)'
         /\ \A i : Reported(i, 0) =>
              Reported(i, 0)' \/ (Head(outbox).task = i /\ Head(outbox).status \in {"SUCCESS", "FAILED"})
  <1>1. ASSUME NEW i, NEW n \in Nat, Reported(i, n + 1) PROVE Reported(i, n)'
    <2>1. PICK p \in 1..Len(outbox) :
            p > n + 1 /\ outbox[p].task = i /\ outbox[p].status \in {"SUCCESS", "FAILED"}
      BY <1>1 DEF Reported
    <2>2. p - 1 \in 1..Len(outbox') /\ p - 1 > n /\ outbox'[p - 1] = outbox[p]
      BY <2>1
    <2>3. PICK r \in 1..Len(outbox') : r > n /\ outbox'[r] = outbox[p]
      BY <2>2
    <2> QED BY <2>1, <2>3 DEF Reported
  <1>2. ASSUME NEW i, Reported(i, 0), ~Reported(i, 0 + 1)
        PROVE  Head(outbox).task = i /\ Head(outbox).status \in {"SUCCESS", "FAILED"}
    <2>1. PICK p \in 1..Len(outbox) :
            p > 0 /\ outbox[p].task = i /\ outbox[p].status \in {"SUCCESS", "FAILED"}
      BY <1>2 DEF Reported
    <2>2. p = 1
      BY <1>2, <2>1 DEF Reported
    <2> QED BY <2>1, <2>2, OutboxHead
  <1>3. ASSUME NEW i, Reported(i, 0)
        PROVE  \/ Reported(i, 0)'
               \/ Head(outbox).task = i /\ Head(outbox).status \in {"SUCCESS", "FAILED"}
    <2>1. CASE Reported(i, 0 + 1)
      <3>1. Reported(i, 0)'
        BY <1>1, <2>1
      <3> QED BY <3>1
    <2> QED BY <1>2, <1>3, <2>1
  <1> QED BY <1>1, <1>3

LEMMA AwaitedUndelivered ==
  ASSUME Awaited, Undelivered
  PROVE  Marked' /\ Expected' /\ Followed'
  <1>1. Typed /\ Marked /\ Expected /\ Followed
    BY DEF Awaited, Agreed
  <1>2. /\ UNCHANGED <<snap, tasks, stage, job>> /\ outbox # << >>
        /\ hurt' = hurt \cup {Head(outbox).task}
        /\ outbox' \in {Append(Tail(outbox), Head(outbox)), Tail(outbox)}
    BY <1>1, UndeliveredTyped
  <1>3. Marked'
    <2>1. tasks' = tasks /\ stage' = stage
      BY <1>2, ZenonT(40)
    <2> QED BY <1>1, <2>1, MarkedKept
  <1>4. PICK cb \in Posted, q \in Seq(Posted) :
          /\ cb = Head(outbox) /\ q = Tail(outbox) /\ Len(outbox) \in Nat /\ Len(q) = Len(outbox) - 1
          /\ \A p \in 1..Len(q) : q[p] = outbox[p + 1] /\ p + 1 \in 1..Len(outbox)
    BY <1>1, <1>2, OutboxHead
  <1>5. /\ Len(outbox') \in Nat /\ Len(q) <= Len(outbox')
        /\ \A p \in 1..Len(q) : outbox'[p] = q[p]
        /\ \A p \in 1..Len(outbox') : p > Len(q) => outbox'[p] = cb
    BY <1>2, <1>4
  <1>6. \A p \in 1..Len(outbox) : p # 1 => p - 1 \in 1..Len(outbox') /\ outbox'[p - 1] = outbox[p]
    <2> SUFFICES ASSUME NEW p \in 1..Len(outbox), p # 1
                 PROVE  p - 1 \in 1..Len(outbox') /\ outbox'[p - 1] = outbox[p]
      OBVIOUS
    <2>1. PICK r \in 1..Len(q) : r = p - 1 /\ r + 1 = p
      BY <1>4
    <2>2. r \in 1..Len(outbox') /\ outbox'[r] = outbox[r + 1]
      BY <1>4, <1>5
    <2> QED BY <2>1, <2>2
  <1>7. /\ \A i : \A n \in Nat : Reported(i, n + 1) => Reported(i, n)'
        /\ \A i : i \notin hurt' /\ Reported(i, 0) => Reported(i, 0)'
    BY <1>1, <1>2, <1>6, Shifted
  <1>8. ASSUME NEW k \in Kbs, snap'[k] # NoSnap, snap'[k].task \notin hurt',
               snap'[k].status \notin Settled
        PROVE  Live(snap[k].task)'
    <2>1. PICK i : i = snap[k].task
      OBVIOUS
    <2>2. Live(i)
      BY <1>1, <1>2, <1>8, <2>1 DEF Expected
    <2>3. Live(i)'
      BY <1>2, <1>7, <1>8, <2>1, <2>2 DEF Live, Settling, Submits
    <2> QED BY <1>2, <2>1, <2>3 DEF Live, Reported, Settling, Submits
  <1>9. ASSUME NEW p \in 1..Len(outbox'), outbox'[p].status = "WORKING", outbox'[p].task \notin hurt'
        PROVE  stage'[outbox'[p].task] = "running" \/ Reported(outbox[p].task, p)'
    <2>1. p <= Len(q)
      BY <1>2, <1>4, <1>5, <1>9
    <2>2. outbox'[p] = outbox[p + 1] /\ p + 1 \in 1..Len(outbox) /\ p \in Nat
      BY <1>4, <1>5, <2>1
    <2>3. PICK i : i = outbox'[p].task
      OBVIOUS
    <2>4. stage[i] = "running" \/ Reported(i, p + 1)
      BY <1>1, <1>2, <1>9, <2>2, <2>3 DEF Followed
    <2>5. stage'[i] = "running" \/ Reported(i, p)'
      BY <1>2, <1>7, <2>2, <2>4
    <2> QED BY <2>3, <2>5 DEF Reported
  <1>10. ASSUME NEW h \in Threads, job'[h].posted, job'[h].status = "WORKING", job'[h].task \notin hurt'
         PROVE  stage'[job'[h].task] = "running" \/ Reported(job[h].task, 0)'
    <2>1. PICK i : i = job[h].task
      OBVIOUS
    <2>2. stage[i] = "running" \/ Reported(i, 0)
      BY <1>1, <1>2, <1>10, <2>1 DEF Followed
    <2>3. stage'[i] = "running" \/ Reported(i, 0)'
      BY <1>2, <1>7, <1>10, <2>1, <2>2
    <2> QED BY <1>2, <2>1, <2>3 DEF Reported
  <1>11. Expected' /\ Followed'
    BY <1>8, <1>9, <1>10 DEF Expected, Followed, Live, Reported, Settling, Submits
  <1> QED BY <1>3, <1>11

LEMMA AwaitedReceive ==
  ASSUME Awaited, NEW h \in Threads, Receive(h)
  PROVE  Marked' /\ Expected' /\ Followed'
  <1>1. Typed /\ Owned /\ Staged /\ Marked /\ Expected /\ Followed
    BY DEF Awaited, Agreed
  <1>2. /\ UNCHANGED <<snap, tasks, stage>> /\ job[h] = Idle /\ outbox # << >> /\ outbox' = Tail(outbox)
        /\ hurt \subseteq hurt'
        /\ \A g \in Threads : job[g].posted => job[g].task \in hurt'
    BY <1>1, ReceiveTyped
  <1>3. PICK j2 \in JobRec :
          /\ job' = [job EXCEPT ![h] = j2]
          /\ IF Ignored(Head(outbox).task, Head(outbox).status) THEN j2 = Idle
                                                                ELSE Serves(j2, Head(outbox))
    BY <1>1, ReceiveTyped
  <1>4. Marked'
    <2>1. tasks' = tasks /\ stage' = stage
      BY <1>2, ZenonT(40)
    <2> QED BY <1>1, <2>1, MarkedKept
  <1>5. PICK cb \in Posted, q \in Seq(Posted) :
          /\ cb = Head(outbox) /\ cb = outbox[1] /\ q = Tail(outbox)
          /\ Len(outbox) \in Nat /\ Len(q) = Len(outbox) - 1 /\ Len(outbox) >= 1
          /\ \A p \in 1..Len(q) : q[p] = outbox[p + 1] /\ p + 1 \in 1..Len(outbox)
          /\ cb.task \in 1..Len(tasks)
    BY <1>1, <1>2, OutboxHead
  <1>6. \A p \in 1..Len(outbox) : p # 1 => p - 1 \in 1..Len(outbox') /\ outbox'[p - 1] = outbox[p]
    <2> SUFFICES ASSUME NEW p \in 1..Len(outbox), p # 1
                 PROVE  p - 1 \in 1..Len(outbox') /\ outbox'[p - 1] = outbox[p]
      OBVIOUS
    <2>1. PICK r \in 1..Len(q) : r = p - 1 /\ r + 1 = p
      BY <1>5
    <2> QED BY <1>2, <1>5, <2>1
  <1>7. /\ \A i : \A n \in Nat : Reported(i, n + 1) => Reported(i, n)'
        /\ \A i : Reported(i, 0) =>
             Reported(i, 0)' \/ (cb.task = i /\ cb.status \in {"SUCCESS", "FAILED"})
    BY <1>1, <1>2, <1>5, <1>6, Shifted
  <1>8. job'[h] = j2 /\ \A g \in Threads : g # h => job'[g] = job[g]
    BY <1>1, <1>3, OneJob
  <1>9. ASSUME NEW k \in Kbs, snap[k] # NoSnap, snap[k].task = cb.task
        PROVE  Serves(j2, cb)
    <2>1. tasks[cb.task].kb = k
      BY <1>1, <1>9 DEF Owned
    <2>2. tasks[cb.task].status # "CANCELED"
      <3>1. stage[cb.task] \in {"running", "done"}
        <4>1. 1 \in 1..Len(outbox)
          BY <1>5
        <4> QED BY <1>1, <1>5, <4>1 DEF Staged
      <3> QED BY <1>1, <1>5, <3>1 DEF Marked
    <2>3. ~Ignored(cb.task, cb.status)
      BY <1>9, <2>1, <2>2 DEF Ignored
    <2> QED BY <1>3, <1>5, <2>3
  <1>10. ASSUME NEW k \in Kbs, snap'[k] # NoSnap, snap'[k].task \notin hurt',
                snap'[k].status \notin Settled
         PROVE  Live(snap[k].task)'
    <2>1. PICK i : i = snap[k].task
      OBVIOUS
    <2>2. Live(i)
      BY <1>1, <1>2, <1>10, <2>1 DEF Expected
    <2>3. CASE stage[i] \in {"queued", "running"}
      BY <1>2, <2>1, <2>3 DEF Live
    <2>4. CASE Reported(i, 0)'
      BY <1>2, <2>1, <2>4 DEF Live, Reported
    <2>5. CASE cb.task = i /\ cb.status \in {"SUCCESS", "FAILED"}
      <3>1. Serves(j2, cb)
        BY <1>2, <1>9, <1>10, <2>1, <2>5
      <3>2. 2 \in 1..Len(j2.todo) /\ j2.todo[2] = "finSnap" /\ j2.task = i
        BY <2>5, <3>1 DEF Serves, Writer, JobRec
      <3>3. Settling(job'[h]) /\ job'[h].task = snap'[k].task
        BY <1>2, <1>8, <2>1, <3>2 DEF Settling
      <3> QED BY <3>3 DEF Live, Settling, Submits
    <2>6. CASE \E g \in Threads : job[g].task = i /\ Settling(job[g])
      <3>1. PICK g \in Threads : job[g].task = i /\ Settling(job[g])
        BY <2>6
      <3>2. g # h
        BY <1>2, <3>1, IdleSettles
      <3>3. Settling(job'[g]) /\ job'[g].task = snap'[k].task
        BY <1>2, <1>8, <2>1, <3>1, <3>2
      <3> QED BY <3>3 DEF Live, Settling, Submits
    <2> QED BY <1>7, <2>2, <2>3, <2>4, <2>5, <2>6 DEF Live
  <1>11. ASSUME NEW p \in 1..Len(outbox'), outbox'[p].status = "WORKING", outbox'[p].task \notin hurt'
         PROVE  stage'[outbox'[p].task] = "running" \/ Reported(outbox[p].task, p)'
    <2>1. outbox'[p] = outbox[p + 1] /\ p + 1 \in 1..Len(outbox) /\ p \in Nat
      BY <1>2, <1>5
    <2>2. PICK i : i = outbox'[p].task
      OBVIOUS
    <2>3. stage[i] = "running" \/ Reported(i, p + 1)
      BY <1>1, <1>2, <1>11, <2>1, <2>2 DEF Followed
    <2>4. stage'[i] = "running" \/ Reported(i, p)'
      BY <1>2, <1>7, <2>1, <2>3
    <2> QED BY <2>2, <2>4 DEF Reported
  <1>12. ASSUME NEW g \in Threads, job'[g].posted, job'[g].status = "WORKING", job'[g].task \notin hurt'
         PROVE  stage'[job'[g].task] = "running" \/ Reported(job[g].task, 0)'
    <2>1. g = h /\ j2.posted
      BY <1>2, <1>8, <1>12
    <2>2. Serves(j2, cb)
      BY <1>3, <1>5, <2>1, IdleFits
    <2>3. PICK i : i = cb.task /\ i = job'[g].task /\ cb.status = "WORKING" /\ i \notin hurt
      BY <1>2, <1>8, <1>12, <2>1, <2>2 DEF Serves
    <2>4. stage[i] = "running" \/ Reported(i, 0 + 1)
      <3>1. 1 \in 1..Len(outbox)
        BY <1>5
      <3> QED BY <1>1, <1>5, <2>3, <3>1 DEF Followed
    <2>5. stage'[i] = "running" \/ Reported(i, 0)'
      <3>1. Reported(i, 0 + 1) => Reported(i, 0)'
        BY <1>7
      <3> QED BY <1>2, <2>4, <3>1
    <2> QED BY <2>3, <2>5 DEF Reported
  <1>13. Expected' /\ Followed'
    BY <1>10, <1>11, <1>12 DEF Expected, Followed, Live, Reported, Settling, Submits
  <1> QED BY <1>4, <1>13

LEMMA AwaitedSteps ==
  ASSUME Awaited, Steps
  PROVE  Marked' /\ Expected' /\ Followed'
  BY AwaitedBegins, AwaitedMoves, AwaitedEnqueue, AwaitedSubmit, AwaitedWriteTask, AwaitedWriteSnap,
     AwaitedParserCancel, AwaitedCancelRead, AwaitedReceive, AwaitedRaise, AwaitedUndelivered,
     AwaitedCrash, AwaitedPosts DEF Steps

LEMMA AwaitedInvariant == Spec => []Awaited
  <1>1. Init => Marked /\ Expected /\ Followed
    <2> SUFFICES ASSUME Init PROVE Marked /\ Expected /\ Followed
      OBVIOUS
    <2>1. Len(tasks) = 0 /\ Len(outbox) = 0 /\ \A h \in Threads : job[h] = Idle
      BY DEF Init
    <2>2. \A k \in Kbs : snap[k] = NoSnap
      BY DEF Init
    <2> QED BY <2>1, <2>2, IdleFits DEF Marked, Expected, Followed
  <1>2. Agreed /\ Agreed' /\ Marked /\ Expected /\ Followed /\ [Next]_vars
          => (Marked /\ Expected /\ Followed)'
    <2> SUFFICES ASSUME Agreed, Marked, Expected, Followed, [Next]_vars
                 PROVE  Marked' /\ Expected' /\ Followed'
      OBVIOUS
    <2>1. CASE Next
      BY <2>1, NextSteps, AwaitedSteps DEF Agreed, Awaited
    <2>2. CASE UNCHANGED vars
      <3>1. UNCHANGED <<snap, tasks, stage, outbox, job, hurt>>
        BY <2>2 DEF vars
      <3> QED BY <3>1 DEF Marked, Expected, Followed, Live, Reported, Settling, Submits
    <2> QED BY <2>1, <2>2
  <1> QED BY <1>1, <1>2, AgreedInvariant, PTL DEF Spec, Awaited

\* No document is stuck (doc_manager.py _enqueue_task, on_task_callback): when nothing
\* is left to do, every snapshot has reached a final status, unless a call or a
\* callback of its task was lost, late or failed.
THEOREM NoSnapshotIsStuck == Spec => []NothingStuck
  <1>1. Awaited => NothingStuck
    <2> SUFFICES ASSUME Awaited, Quiet, NEW k \in Kbs, snap[k] # NoSnap, snap[k].task \notin hurt,
                        snap[k].status \notin Settled
                 PROVE  FALSE
      BY DEF NothingStuck
    <2>1. Live(snap[k].task) /\ snap[k].task \in Ids
      BY SnapShape DEF Awaited, Agreed, Expected
    <2>2. Len(outbox) = 0
      BY DEF Quiet
    <2>3. ~Reported(snap[k].task, 0)
      BY <2>2 DEF Reported
    <2>4. \A h \in Threads : ~Settling(job[h])
      BY IdleSettles DEF Quiet
    <2> QED BY <2>1, <2>3, <2>4 DEF Live, Quiet
  <1> QED BY <1>1, AwaitedInvariant, PTL

-----------------------------------------------------------------------------
(* One request thread: it writes the snapshot of the task that is current. *)

Pending(j) == \E p \in 1..Len(j.todo) : j.todo[p] \in {"failSnap", "startSnap", "finSnap"}

\* A thread that submits a task, or is going to write its snapshot, has the task that
\* the snapshot names, if there is one.
Names(j) == snap[j.kb] = NoSnap \/ snap[j.kb].task = j.task
Current == \A h \in Threads : Submits(job[h]) \/ Pending(job[h]) => Names(job[h])

LEMMA PassivePends ==
  ASSUME NEW j \in JobRec, Passive(j)
  PROVE  ~Submits(j) /\ ~Pending(j)
  BY DEF Passive, Submits, Pending, Paired

LEMMA IdlePends == ~Submits(Idle) /\ ~Pending(Idle)
  <1>1. Len(<< >>) = 0
    OBVIOUS
  <1> QED BY <1>1, IdleFits, IdleRoles DEF Pending

\* The only thread goes on with j2.
LEMMA CurrentStep ==
  ASSUME Typed, \A g, i \in Threads : g = i, NEW h \in Threads, NEW j2,
         job' = [job EXCEPT ![h] = j2],
         \/ ~Submits(j2) /\ ~Pending(j2)
         \/ /\ snap' = snap /\ j2.kb = job[h].kb /\ j2.task = job[h].task /\ Names(job[h])
         \/ snap'[j2.kb].task = j2.task
  PROVE  Current'
  <1>1. \A g \in Threads : g = h /\ job'[g] = j2
    BY OneJob
  <1> QED BY <1>1 DEF Current, Names, Submits, Pending

LEMMA CurrentBegins ==
  ASSUME Typed, \A g, i \in Threads : g = i, NEW h \in Threads, Begins(h)
  PROVE  Current'
  <1>1. PICK j2 \in JobRec :
          /\ job[h] = Idle /\ job' = [job EXCEPT ![h] = j2] /\ JobFits(j2, Len(tasks)) /\ j2.todo # << >>
          /\ j2.todo[1] \in {"bind", "mark", "enqueue", "parserCancel"}
    BY DEF Begins
  <1>2. Ordered(j2.todo, j2.task) /\ Len(j2.todo) >= 1 /\ j2.todo \in Seq(Ops)
    BY <1>1, BusyFits, Shape
  <1>3. \A p \in 1..Len(j2.todo) : j2.todo[p] \notin Paired
    BY <1>1, <1>2, NoPair DEF Paired
  <1>4. ~Submits(j2) /\ ~Pending(j2)
    BY <1>1, <1>3 DEF Submits, Pending, Paired
  <1> QED BY <1>1, <1>4, CurrentStep

LEMMA CurrentWrites ==
  ASSUME Typed, Current, \A g, i \in Threads : g = i, NEW h \in Threads, WriteTask(h) \/ WriteSnap(h)
  PROVE  Current'
  <1>1. /\ job[h].todo # << >> /\ job[h].kb \in Kbs /\ job[h].type \in Types
        /\ Ordered(job[h].todo, job[h].task)
    BY WriteTyped, HeadIs
  <1>2. PICK j2 \in JobRec : Follows(j2, job[h]) /\ job' = [job EXCEPT ![h] = j2]
    BY WriteTyped
  <1>3. CASE j2 = Idle
    BY <1>2, <1>3, IdlePends, CurrentStep
  <1>4. CASE j2 # Idle /\ WriteTask(h)
    <2>1. job[h].todo[1] \in {"failTask", "startTask", "finTask"} /\ snap' = snap
      BY <1>4, WriteTaskIs
    <2>2. 1 \in 1..Len(job[h].todo) /\ Len(job[h].todo) >= 1 /\ Len(job[h].todo) \in Nat
      BY <1>1, HeadIs
    <2>3. 2 \in 1..Len(job[h].todo) /\ job[h].todo[2] \in {"failSnap", "startSnap", "finSnap"}
      BY <1>1, <2>1, <2>2 DEF Ordered, Pair
    <2>4. Names(job[h])
      BY <2>3 DEF Current, Pending
    <2>5. j2.kb = job[h].kb /\ j2.task = job[h].task
      BY <1>2, <1>4 DEF Follows
    <2> QED BY <1>2, <2>1, <2>4, <2>5, CurrentStep
  <1>5. CASE j2 # Idle /\ WriteSnap(h)
    <2>1. PICK status \in Statuses : SetSnap(job[h].kb, status, job[h].task, job[h].type)
      BY <1>5, WriteSnapIs
    <2>2. PICK k \in Kbs, i \in 1..MaxTasks : k = job[h].kb /\ i = job[h].task /\ i <= Len(tasks)
      BY <1>1, <1>5, WriteSnapIs, Shape
    <2>3. snap'[k].task = i
      BY <1>1, <2>1, <2>2, Shape, SetSnapFits
    <2>4. j2.kb = k /\ j2.task = i
      BY <1>2, <1>5, <2>2 DEF Follows
    <2> QED BY <1>2, <2>3, <2>4, CurrentStep
  <1> QED BY <1>3, <1>4, <1>5

LEMMA CurrentCancels ==
  ASSUME Typed, Owned, \A g, i \in Threads : g = i, NEW h \in Threads, ParserCancel(h) \/ CancelRead(h)
  PROVE  Current'
  <1>1. CASE ParserCancel(h)
    <2>1. job[h].todo # << >> /\ job[h].todo[1] = "parserCancel"
      BY <1>1, ParserCancelTyped
    <2>2. PICK j2 \in JobRec : job' = [job EXCEPT ![h] = j2] /\ (j2 = Idle \/ Follows(j2, job[h]))
      BY <1>1, ParserCancelTyped
    <2>3. CASE j2 = Idle
      BY <2>2, <2>3, IdlePends, CurrentStep
    <2>4. CASE Follows(j2, job[h])
      <3>1. \A p \in 1..Len(job[h].todo) : job[h].todo[p] \notin Paired
        BY <2>1, HeadIs, NoPair DEF Paired
      <3>2. \A p \in 1..Len(j2.todo) : j2.todo[p] = job[h].todo[p + 1] /\ p + 1 \in 1..Len(job[h].todo)
        BY <2>1, <2>4, HeadIs, TailShape DEF Follows
      <3>3. ~Pending(j2)
        BY <3>1, <3>2 DEF Pending, Paired
      <3>4. ~Submits(j2)
        BY <2>1, <2>4, HeadIs, FollowsRoles
      <3> QED BY <2>2, <3>3, <3>4, CurrentStep
    <2> QED BY <2>2, <2>3, <2>4
  <1>2. CASE CancelRead(h)
    <2>1. job[h].task \in 1..Len(tasks) /\ snap' = snap
      BY <1>2, CancelReadTyped
    <2>2. PICK j2 \in JobRec :
            /\ job' = [job EXCEPT ![h] = j2]
            /\ j2 = Idle \/ (j2.kb = job[h].kb /\ j2.task = job[h].task)
            /\ \/ \A p \in 1..Len(j2.todo) : j2.todo[p] \in Purging
               \/ ~Ignored(job[h].task, "CANCELED")
      BY <1>2, CancelReadTyped
    <2>3. CASE \A p \in 1..Len(j2.todo) : j2.todo[p] \in Purging
      <3>1. j2.todo \in Seq(Ops)
        BY DEF JobRec
      <3>2. ~Submits(j2) /\ ~Pending(j2)
        BY <2>3, <3>1 DEF Submits, Pending, Purging
      <3> QED BY <2>2, <3>2, CurrentStep
    <2>4. CASE j2 # Idle /\ ~Ignored(job[h].task, "CANCELED")
      <3>1. tasks[job[h].task].kb = job[h].kb
        BY <2>1 DEF Owned
      <3>2. Names(job[h])
        BY <2>4, <3>1 DEF Ignored, Names
      <3> QED BY <2>1, <2>2, <2>4, <3>2, CurrentStep
    <2>5. CASE j2 = Idle
      BY <2>2, <2>5, IdlePends, CurrentStep
    <2> QED BY <2>2, <2>3, <2>4, <2>5
  <1> QED BY <1>1, <1>2

LEMMA CurrentSubmit ==
  ASSUME Typed, Current, \A g, i \in Threads : g = i, NEW h \in Threads, Submit(h)
  PROVE  Current'
  <1>1. job[h].todo # << >> /\ job[h].todo[1] = "submit" /\ snap' = snap
    BY SubmitTyped
  <1>2. PICK j2 \in JobRec :
          job' = [job EXCEPT ![h] = j2] /\ (Follows(j2, job[h]) \/ SameJob(j2, job[h]))
    BY SubmitTyped
  <1>3. Names(job[h])
    BY <1>1 DEF Current, Submits
  <1>4. CASE j2 = Idle
    BY <1>2, <1>4, IdlePends, CurrentStep
  <1>5. CASE j2 # Idle
    <2>1. j2.kb = job[h].kb /\ j2.task = job[h].task
      BY <1>2, <1>5 DEF Follows, SameJob
    <2> QED BY <1>1, <1>2, <1>3, <2>1, CurrentStep
  <1> QED BY <1>4, <1>5

LEMMA EnqueueNames ==
  ASSUME Typed, NEW h \in Threads, Enqueue(h)
  PROVE  /\ \E j2 \in JobRec :
              /\ job' = [job EXCEPT ![h] = j2] /\ snap'[j2.kb].task = j2.task
         /\ \A k \in Kbs : snap'[k] = snap[k] \/ snap'[k].task = Len(tasks) + 1
  <1>1. PICK j2 \in JobRec, status \in {"DELETING", "WAITING"} :
          /\ job' = [job EXCEPT ![h] = j2]
          /\ j2.kb = job[h].kb /\ j2.task = Len(tasks) + 1
          /\ SetSnap(job[h].kb, status, Len(tasks) + 1, job[h].type)
    BY EnqueueTyped
  <1>2. job[h].kb \in Kbs /\ job[h].type \in Types /\ Len(tasks) + 1 \in 1..MaxTasks /\ Len(tasks) \in Nat
    BY EnqueueTyped, HeadIs
  <1>3. PICK k \in Kbs, type \in Types, n \in 1..MaxTasks :
          k = job[h].kb /\ n = Len(tasks) + 1 /\ SetSnap(k, status, n, type)
    BY <1>1, <1>2
  <1>4. snap'[k].task = n /\ \A m \in Kbs : m # k => snap'[m] = snap[m]
    <2>1. status \in Statuses /\ n \in Nat /\ Len(tasks) <= n
      BY <1>2, <1>3 DEF Statuses
    <2> QED BY <1>3, <2>1, SetSnapFits
  <1> QED BY <1>1, <1>3, <1>4

LEMMA CurrentReceive ==
  ASSUME Typed, \A g, i \in Threads : g = i, NEW h \in Threads, Receive(h)
  PROVE  Current'
  <1>1. snap' = snap /\ outbox # << >>
    BY ReceiveTyped
  <1>2. PICK j2 \in JobRec :
          /\ job' = [job EXCEPT ![h] = j2]
          /\ IF Ignored(Head(outbox).task, Head(outbox).status) THEN j2 = Idle
                                                                ELSE Serves(j2, Head(outbox))
    BY ReceiveTyped
  <1>3. CASE j2 = Idle
    BY <1>2, <1>3, IdlePends, CurrentStep
  <1>4. CASE j2 # Idle
    <2>1. j2.kb = tasks[Head(outbox).task].kb /\ j2.task = Head(outbox).task
      BY <1>2, <1>4 DEF Serves
    <2>2. snap[j2.kb] = NoSnap \/ snap[j2.kb].task = j2.task
      BY <1>2, <1>4, <2>1 DEF Ignored
    <2>3. \A g \in Threads : g = h /\ job'[g] = j2
      BY <1>2, OneJob
    <2> QED BY <1>1, <2>2, <2>3 DEF Current, Names
  <1> QED BY <1>3, <1>4

LEMMA CurrentKept ==
  ASSUME Current, snap' = snap, \A h \in Threads : job'[h] = job[h] \/ job'[h] = Idle
  PROVE  Current'
  <1> SUFFICES ASSUME NEW h \in Threads, (Submits(job[h]) \/ Pending(job[h]))' PROVE Names(job[h])'
    BY DEF Current
  <1>1. job'[h] = job[h]
    BY IdlePends DEF Submits, Pending
  <1> QED BY <1>1 DEF Current, Names, Submits, Pending

LEMMA CurrentSteps ==
  ASSUME Typed, Owned, Current, Steps, \A g, i \in Threads : g = i
  PROVE  Current'
  <1>1. ASSUME NEW h \in Threads, Moves(h) PROVE Current'
    <2>1. PICK j2 \in JobRec : Passive(j2) /\ job' = [job EXCEPT ![h] = j2]
      BY <1>1 DEF Moves
    <2> QED BY <2>1, PassivePends, CurrentStep
  <1>2. ASSUME NEW h \in Threads, Enqueue(h) PROVE Current'
    BY <1>2, EnqueueNames, CurrentStep
  <1>3. ASSUME NEW h \in Threads, Raise(h) PROVE Current'
    <2>1. snap' = snap /\ job' = [job EXCEPT ![h] = Idle]
      BY <1>3, RaiseTyped
    <2> QED BY <2>1, OneJob, CurrentKept
  <1>4. CASE Undelivered
    <2>1. snap' = snap /\ job' = job
      BY <1>4, UndeliveredTyped
    <2> QED BY <2>1, CurrentKept
  <1>5. CASE Crash
    <2>1. snap' = snap /\ job' = [h \in Threads |-> Idle]
      BY <1>5, CrashTyped
    <2> QED BY <2>1, CurrentKept
  <1>6. CASE Posts
    <2>1. snap' = snap /\ job' = job
      BY <1>6, ParseTyped DEF Posts
    <2> QED BY <2>1, CurrentKept
  <1> QED BY <1>1, <1>2, <1>3, <1>4, <1>5, <1>6, CurrentBegins, CurrentWrites, CurrentCancels,
             CurrentSubmit, CurrentReceive DEF Steps

\* No step of the only thread takes a snapshot back to an earlier task.
Forward == \A k \in Kbs : snap[k] # NoSnap /\ snap'[k] # NoSnap => snap'[k].task >= snap[k].task

LEMMA ForwardSteps ==
  ASSUME Typed, Current, Steps
  PROVE  Forward
  <1>1. \A k \in Kbs : snap[k].task \in Nat /\ snap[k].task <= Len(tasks)
    <2>1. \A k \in Kbs : snap[k] \in SnapRec /\ snap[k].task <= Len(tasks)
      BY DEF Typed, RowsFit
    <2> QED BY <2>1, LifecycleAssumption DEF SnapRec, NoSnap, Ids
  <1>2. ASSUME \A k \in Kbs : snap'[k] \in {snap[k], NoSnap} PROVE Forward
    BY <1>1, <1>2 DEF Forward
  <1>3. ASSUME NEW h \in Threads, Begins(h) \/ Moves(h) PROVE Forward
    <2>1. CASE Begins(h)
      BY <1>2, <2>1 DEF Begins
    <2>2. CASE Moves(h)
      BY <1>2, <2>2 DEF Moves
    <2> QED BY <1>3, <2>1, <2>2
  <1>4. ASSUME NEW h \in Threads, Enqueue(h) PROVE Forward
    BY <1>1, <1>4, EnqueueNames, Shape DEF Forward
  <1>5. ASSUME NEW h \in Threads,
               \/ Submit(h) \/ WriteTask(h) \/ ParserCancel(h) \/ CancelRead(h) \/ Receive(h) \/ Raise(h)
        PROVE  Forward
    <2>1. snap' = snap
      BY <1>5, SubmitTyped, WriteTaskIs, ParserCancelTyped, CancelReadTyped, ReceiveTyped, RaiseTyped
    <2> QED BY <1>2, <2>1
  <1>6. CASE Undelivered \/ Crash \/ Posts
    <2>1. snap' = snap
      BY <1>6, UndeliveredTyped, CrashTyped, ParseTyped DEF Posts
    <2> QED BY <1>2, <2>1
  <1>7. ASSUME NEW h \in Threads, WriteSnap(h) PROVE Forward
    <2>1. /\ job[h].todo # << >> /\ job[h].kb \in Kbs /\ job[h].type \in Types
          /\ job[h].todo[1] \in {"failSnap", "startSnap", "finSnap"} /\ job[h].task \in 1..Len(tasks)
      BY <1>7, WriteTyped, WriteSnapIs
    <2>2. PICK status \in Statuses : SetSnap(job[h].kb, status, job[h].task, job[h].type)
      BY <1>7, WriteSnapIs
    <2>3. PICK k \in Kbs, i \in 1..MaxTasks : k = job[h].kb /\ i = job[h].task /\ i <= Len(tasks)
      BY <2>1, Shape
    <2>4. snap'[k].task = i /\ \A m \in Kbs : m # k => snap'[m] = snap[m]
      BY <2>1, <2>2, <2>3, Shape, SetSnapFits
    <2>5. snap[k] = NoSnap \/ snap[k].task = i
      <3>1. 1 \in 1..Len(job[h].todo)
        BY <2>1, HeadIs
      <3>2. Names(job[h])
        BY <2>1, <3>1 DEF Current, Pending
      <3> QED BY <2>3, <3>2 DEF Names
    <2> QED BY <1>1, <2>4, <2>5 DEF Forward
  <1> QED BY <1>3, <1>4, <1>5, <1>6, <1>7 DEF Steps

\* With one request thread a callback of a superseded task does not touch the snapshot
\* (on_task_callback, stale_task_callback): what the check has read still holds when the
\* snapshot is written.  With two threads it does not.
THEOREM StaleIsIgnored ==
  ASSUME \A g, h \in Threads : g = h
  PROVE  Spec => StaleIgnored
  <1>1. Init => Current
    <2> SUFFICES ASSUME Init PROVE Current
      OBVIOUS
    <2>1. \A h \in Threads : job[h] = Idle
      BY DEF Init
    <2> QED BY <2>1, IdlePends DEF Current
  <1>2. Typed /\ Owned /\ Current /\ [Next]_vars => Current' /\ Forward
    <2> SUFFICES ASSUME Typed, Owned, Current, [Next]_vars PROVE Current' /\ Forward
      OBVIOUS
    <2>1. CASE Next
      BY <2>1, NextSteps, CurrentSteps, ForwardSteps
    <2>2. CASE UNCHANGED vars
      <3>1. snap' = snap /\ job' = job
        BY <2>2 DEF vars
      <3>2. \A k \in Kbs : snap[k] # NoSnap => snap[k].task \in Nat
        BY SnapShape, Shape
      <3> QED BY <3>1, <3>2, CurrentKept DEF Forward
    <2> QED BY <2>1, <2>2
  <1>3. [][Forward]_vars <=> StaleIgnored
    BY PTL DEF Forward, StaleIgnored
  <1> QED BY <1>1, <1>2, <1>3, TypedInvariant, PTL DEF Spec
=============================================================================

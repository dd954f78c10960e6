------------------------- MODULE ParseTaskQueueProofs -------------------------
(***************************************************************************)
(* Theorems about ParseTaskQueue, for any number of tasks and workers and  *)
(* any bounds on crashes, lapses, faults and stops.                        *)
(***************************************************************************)
EXTENDS ParseTaskQueue, TLAPS

\* A thread that is at work on a task, or about to fail one, names a task.
Holding ==
  /\ \A w \in Workers : pc[w] \in Held \cup InRun => cur[w] \in Tasks
  /\ \A w \in Workers : pc[w] = "read" => cur[w] \in Tasks
  /\ \A w \in Workers : spc[w] \in {"record", "delete"} => scur[w] \in Tasks

TypeInv == Types /\ Holding

LEMMA TypeInit == Init => TypeInv
BY ConstantsAssumption DEF Init, TypeInv, Types, Holding, Pcs, NoThread, Held, InRun

LEMMA RecordTyped ==
  ASSUME NEW t \in Tasks, NEW s \in Reportable, TypeInv, EnqueueFinished(t, s)
  PROVE  /\ finished' \subseteq [task : Tasks, status : Reportable]
         /\ mishap' \subseteq [task : Tasks, kind : MishapKinds]
         /\ crashes' \in Nat /\ lapses' \in Nat /\ faults' \in Nat /\ stops' \in Nat
BY DEF TypeInv, Types, EnqueueFinished, Fault, Record, Mishap, MishapKinds, budget

LEMMA FaultTyped ==
  ASSUME NEW t \in Tasks, TypeInv, Fault(t) \/ UNCHANGED <<mishap, budget>>
  PROVE  /\ mishap' \subseteq [task : Tasks, kind : MishapKinds]
         /\ crashes' \in Nat /\ lapses' \in Nat /\ faults' \in Nat /\ stops' \in Nat
BY DEF TypeInv, Types, Fault, Mishap, MishapKinds, budget

LEMMA DeleteTyped ==
  ASSUME NEW t \in Tasks, NEW w \in Workers, TypeInv,
         DeleteOwned(t, w) \/ UNCHANGED rows
  PROVE  /\ status' \in [Tasks -> {"NEW", "WAITING", "WORKING", "GONE"}]
         /\ owner' \in [Tasks -> Workers \cup {NoWorker}]
         /\ lease' \in [Tasks -> {"NONE", "LIVE", "EXPIRED"}]
BY DEF TypeInv, Types, DeleteOwned, SetRow, rows

LEMMA TypeStep == TypeInv /\ [Next]_vars => TypeInv'
<1> SUFFICES ASSUME TypeInv, [Next]_vars PROVE TypeInv'
  OBVIOUS
<1> USE DEF TypeInv
<1>1. ASSUME NEW t \in Tasks, Enqueue(t) PROVE TypeInv'
  BY <1>1 DEF Enqueue, Types, Holding, SetRow, budget
<1>2. ASSUME NEW t \in Tasks, Cancel(t) PROVE TypeInv'
  BY <1>2 DEF Cancel, Types, Holding, SetRow, budget
<1>3. ASSUME NEW t \in Tasks, Expire(t) PROVE TypeInv'
  BY <1>3 DEF Expire, Types, Holding, Mishap, MishapKinds
<1>4. ASSUME NEW w \in Workers, Loop(w) PROVE TypeInv'
  BY <1>4 DEF Loop, Types, Holding, Goto, rows, budget, Pcs, NoThread, Held, InRun
<1>5. ASSUME NEW w \in Workers, ClaimNothing(w) PROVE TypeInv'
  BY <1>5 DEF ClaimNothing, Types, Holding, Goto, rows, Pcs, NoThread, Held, InRun
<1>6. ASSUME NEW w \in Workers, Validate(w) PROVE TypeInv'
  <2>1. cur[w] \in Tasks /\ "FAILED" \in Reportable
    BY <1>6 DEF Validate, Holding, Held, Reportable, Terminal
  <2>2. /\ finished' \subseteq [task : Tasks, status : Reportable]
        /\ mishap' \subseteq [task : Tasks, kind : MishapKinds]
        /\ crashes' \in Nat /\ lapses' \in Nat /\ faults' \in Nat /\ stops' \in Nat
    <3>1. CASE EnqueueFinished(cur[w], "FAILED")
      BY <2>1, <3>1, RecordTyped
    <3>2. CASE UNCHANGED <<finished, mishap, budget>>
      BY <3>2 DEF Types, budget
    <3> QED BY <1>6, <3>1, <3>2 DEF Validate
  <2>3. /\ \E p \in Pcs \ {"read"} : Goto(w, p)
        /\ UNCHANGED <<rows, canceled, cur, seen, stop, spc, scur>>
    BY <1>6 DEF Validate, Pcs, Held, InRun, NoThread
  <2>4. Types'
    BY <2>2, <2>3 DEF Types, Goto, rows
  <2>5. Holding'
    BY <2>1, <2>3 DEF Types, Holding, Goto
  <2> QED BY <2>4, <2>5
<1>7. ASSUME NEW w \in Workers, DropInvalid(w) PROVE TypeInv'
  <2>1. cur[w] \in Tasks
    BY <1>7 DEF DropInvalid, Holding, Held
  <2>2. /\ status' \in [Tasks -> {"NEW", "WAITING", "WORKING", "GONE"}]
        /\ owner' \in [Tasks -> Workers \cup {NoWorker}]
        /\ lease' \in [Tasks -> {"NONE", "LIVE", "EXPIRED"}]
    <3>1. DeleteOwned(cur[w], w) \/ UNCHANGED rows
      BY <1>7 DEF DropInvalid
    <3> QED BY <2>1, <3>1, DeleteTyped
  <2>3. /\ mishap' \subseteq [task : Tasks, kind : MishapKinds]
        /\ crashes' \in Nat /\ lapses' \in Nat /\ faults' \in Nat /\ stops' \in Nat
    <3>1. Fault(cur[w]) \/ UNCHANGED <<mishap, budget>>
      BY <1>7 DEF DropInvalid
    <3> QED BY <2>1, <3>1, FaultTyped
  <2>4. /\ Goto(w, "idle") /\ cur' = [cur EXCEPT ![w] = NoTask]
        /\ UNCHANGED <<canceled, finished, seen, stop, spc, scur>>
    BY <1>7 DEF DropInvalid
  <2>5. Types'
    BY <2>2, <2>3, <2>4 DEF Types, Goto, Pcs
  <2>6. Holding'
    BY <2>4 DEF Types, Holding, Goto, Held, InRun
  <2> QED BY <2>5, <2>6
<1>8. ASSUME NEW w \in Workers, Begin(w) PROVE TypeInv'
  <2>1. cur[w] \in Tasks /\ "WORKING" \in Reportable
    BY <1>8 DEF Begin, Holding, Held, Reportable
  <2>2. /\ finished' \subseteq [task : Tasks, status : Reportable]
        /\ mishap' \subseteq [task : Tasks, kind : MishapKinds]
        /\ crashes' \in Nat /\ lapses' \in Nat /\ faults' \in Nat /\ stops' \in Nat
    <3>1. CASE EnqueueFinished(cur[w], "WORKING")
      BY <2>1, <3>1, RecordTyped
    <3>2. CASE UNCHANGED <<finished, mishap, budget>>
      BY <3>2 DEF Types, budget
    <3> QED BY <1>8, <3>1, <3>2 DEF Begin
  <2>3. /\ \E p \in Pcs \ {"read"} : Goto(w, p)
        /\ UNCHANGED <<rows, canceled, cur, seen, stop, spc, scur>>
    BY <1>8 DEF Begin, Pcs, Held, InRun, NoThread
  <2>4. Types'
    BY <2>2, <2>3 DEF Types, Goto, rows
  <2>5. Holding'
    BY <2>1, <2>3 DEF Types, Holding, Goto
  <2> QED BY <2>4, <2>5
<1>9. ASSUME NEW w \in Workers, Exec(w) PROVE TypeInv'
  BY <1>9 DEF Exec, Types, Holding, Goto, rows, budget, Pcs, NoThread, Held, InRun
<1>10. ASSUME NEW w \in Workers, ReportSuccess(w) PROVE TypeInv'
  <2>1. cur[w] \in Tasks /\ "SUCCESS" \in Reportable
    BY <1>10 DEF ReportSuccess, Holding, Held, Reportable, Terminal
  <2>2. /\ finished' \subseteq [task : Tasks, status : Reportable]
        /\ mishap' \subseteq [task : Tasks, kind : MishapKinds]
        /\ crashes' \in Nat /\ lapses' \in Nat /\ faults' \in Nat /\ stops' \in Nat
    <3>1. CASE EnqueueFinished(cur[w], "SUCCESS")
      BY <2>1, <3>1, RecordTyped
    <3>2. CASE UNCHANGED <<finished, mishap, budget>>
      BY <3>2 DEF Types, budget
    <3> QED BY <1>10, <3>1, <3>2 DEF ReportSuccess
  <2>3. /\ \E p \in Pcs \ {"read"} : Goto(w, p)
        /\ UNCHANGED <<rows, canceled, cur, seen, stop, spc, scur>>
    BY <1>10 DEF ReportSuccess, Pcs, Held, InRun, NoThread
  <2>4. Types'
    BY <2>2, <2>3 DEF Types, Goto, rows
  <2>5. Holding'
    BY <2>1, <2>3 DEF Types, Holding, Goto
  <2> QED BY <2>4, <2>5
<1>11. ASSUME NEW w \in Workers, DeleteDone(w) PROVE TypeInv'
  <2>1. cur[w] \in Tasks
    BY <1>11 DEF DeleteDone, Holding, Held
  <2>2. /\ status' \in [Tasks -> {"NEW", "WAITING", "WORKING", "GONE"}]
        /\ owner' \in [Tasks -> Workers \cup {NoWorker}]
        /\ lease' \in [Tasks -> {"NONE", "LIVE", "EXPIRED"}]
    <3>1. DeleteOwned(cur[w], w) \/ UNCHANGED rows
      BY <1>11 DEF DeleteDone
    <3> QED BY <2>1, <3>1, DeleteTyped
  <2>3. /\ mishap' \subseteq [task : Tasks, kind : MishapKinds]
        /\ crashes' \in Nat /\ lapses' \in Nat /\ faults' \in Nat /\ stops' \in Nat
    <3>1. Fault(cur[w]) \/ UNCHANGED <<mishap, budget>>
      BY <1>11 DEF DeleteDone
    <3> QED BY <2>1, <3>1, FaultTyped
  <2>4. /\ \E p \in Pcs \ {"read"} : Goto(w, p)
        /\ UNCHANGED <<canceled, finished, cur, seen, stop, spc, scur>>
    BY <1>11 DEF DeleteDone, Pcs, Held, InRun, NoThread
  <2>5. Types'
    BY <2>2, <2>3, <2>4 DEF Types, Goto
  <2>6. Holding'
    BY <2>1, <2>4 DEF Types, Holding, Goto
  <2> QED BY <2>5, <2>6
<1>12. ASSUME NEW w \in Workers, ReportFailure(w) PROVE TypeInv'
  <2>1. cur[w] \in Tasks /\ "FAILED" \in Reportable
    BY <1>12 DEF ReportFailure, Holding, Held, Reportable, Terminal
  <2>2. /\ finished' \subseteq [task : Tasks, status : Reportable]
        /\ mishap' \subseteq [task : Tasks, kind : MishapKinds]
        /\ crashes' \in Nat /\ lapses' \in Nat /\ faults' \in Nat /\ stops' \in Nat
    <3>1. CASE EnqueueFinished(cur[w], "FAILED")
      BY <2>1, <3>1, RecordTyped
    <3>2. CASE UNCHANGED <<finished, mishap, budget>>
      BY <3>2 DEF Types, budget
    <3> QED BY <1>12, <3>1, <3>2 DEF ReportFailure
  <2>3. /\ \E p \in Pcs \ {"read"} : Goto(w, p)
        /\ UNCHANGED <<rows, canceled, cur, seen, stop, spc, scur>>
    BY <1>12 DEF ReportFailure, Pcs, Held, InRun, NoThread
  <2>4. Types'
    BY <2>2, <2>3 DEF Types, Goto, rows
  <2>5. Holding'
    BY <2>1, <2>3 DEF Types, Holding, Goto
  <2> QED BY <2>4, <2>5
<1>13. ASSUME NEW w \in Workers, DeleteFailed(w) PROVE TypeInv'
  <2>1. cur[w] \in Tasks
    BY <1>13 DEF DeleteFailed, Holding, Held
  <2>2. /\ status' \in [Tasks -> {"NEW", "WAITING", "WORKING", "GONE"}]
        /\ owner' \in [Tasks -> Workers \cup {NoWorker}]
        /\ lease' \in [Tasks -> {"NONE", "LIVE", "EXPIRED"}]
    <3>1. DeleteOwned(cur[w], w) \/ UNCHANGED rows
      BY <1>13 DEF DeleteFailed
    <3> QED BY <2>1, <3>1, DeleteTyped
  <2>3. /\ mishap' \subseteq [task : Tasks, kind : MishapKinds]
        /\ crashes' \in Nat /\ lapses' \in Nat /\ faults' \in Nat /\ stops' \in Nat
    <3>1. Fault(cur[w]) \/ UNCHANGED <<mishap, budget>>
      BY <1>13 DEF DeleteFailed
    <3> QED BY <2>1, <3>1, FaultTyped
  <2>4. /\ \E p \in Pcs \ {"read"} : Goto(w, p)
        /\ UNCHANGED <<canceled, finished, cur, seen, stop, spc, scur>>
    BY <1>13 DEF DeleteFailed, Pcs, Held, InRun, NoThread
  <2>5. Types'
    BY <2>2, <2>3, <2>4 DEF Types, Goto
  <2>6. Holding'
    BY <2>1, <2>4 DEF Types, Holding, Goto
  <2> QED BY <2>5, <2>6
<1>14. ASSUME NEW w \in Workers, Finally(w) PROVE TypeInv'
  BY <1>14 DEF Finally, Types, Holding, Goto, rows, budget, Pcs, NoThread, Held, InRun
<1>15. ASSUME NEW w \in Workers, NEW t \in Tasks, Claim(w, t) PROVE TypeInv'
  BY <1>15 DEF Claim, Types, Holding, Goto, SetRow, budget, Pcs, NoThread, Held, InRun
<1>15a. ASSUME NEW w \in Workers, NEW t \in Tasks, ClaimRead(w, t) PROVE TypeInv'
  <2>1. seen'[w] \in {"NONE", "WAITING", "WORKING"}
    BY <1>15a DEF ClaimRead, NextUp, Claimable, Types
  <2>2. QED
    BY <1>15a, <2>1
    DEF ClaimRead, Types, Holding, Goto, rows, budget, Pcs, NoThread, Held, InRun
<1>15b. ASSUME NEW w \in Workers, ClaimWrite(w) PROVE TypeInv'
  <2>1. cur[w] \in Tasks
    BY <1>15b DEF ClaimWrite, Holding
  <2>2. CASE RowExists(cur[w]) /\ pc' = [pc EXCEPT ![w] = "claimed"]
    <3>1. mishap' \subseteq [task : Tasks, kind : MishapKinds]
      BY <1>15b, <2>1 DEF ClaimWrite, Types, Mishap, MishapKinds
    <3>2. /\ status' \in [Tasks -> {"NEW", "WAITING", "WORKING", "GONE"}]
          /\ owner' \in [Tasks -> Workers \cup {NoWorker}]
          /\ lease' \in [Tasks -> {"NONE", "LIVE", "EXPIRED"}]
      BY <1>15b, <2>1 DEF ClaimWrite, Types, SetRow, rows
    <3>3. cur' = cur
      BY <1>15b, <2>2 DEF ClaimWrite, Goto
    <3>4. QED
      BY <1>15b, <2>1, <2>2, <3>1, <3>2, <3>3
      DEF ClaimWrite, Types, Holding, budget, Pcs, NoThread, Held, InRun
  <2>3. CASE ~RowExists(cur[w])
    BY <1>15b, <2>1, <2>3
    DEF ClaimWrite, Types, Holding, Goto, rows, budget, Pcs, NoThread, Held, InRun
  <2>4. QED
    BY <1>15b, <2>2, <2>3 DEF ClaimWrite, Goto
<1>16. ASSUME NEW w \in Workers, JoinReturns(w) PROVE TypeInv'
  BY <1>16 DEF JoinReturns, Types, Holding, SpcGoto, rows, budget
<1>17. ASSUME NEW w \in Workers, FailInProgress(w) PROVE TypeInv'
  <2>1. scur[w] \in Tasks /\ "FAILED" \in Reportable
    BY <1>17 DEF FailInProgress, Holding, Reportable, Terminal
  <2>2. QED
    BY <1>17, <2>1
    DEF FailInProgress, Types, Holding, SpcGoto, rows, budget, Record, Mishap, MishapKinds
<1>18. ASSUME NEW w \in Workers, DropInProgress(w) PROVE TypeInv'
  <2>1. scur[w] \in Tasks
    BY <1>18 DEF DropInProgress, Holding
  <2>2. QED
    BY <1>18, <2>1, DeleteTyped, FaultTyped DEF DropInProgress, Types, Holding, SpcGoto
<1>19. ASSUME NEW w \in Workers, Start(w) PROVE TypeInv'
  BY <1>19
  DEF Start, Types, Holding, Goto, SpcGoto, rows, Pcs, NoThread, Held, InRun
<1>20. ASSUME NEW w \in Workers, Crash(w) PROVE TypeInv'
  BY <1>20
  DEF Crash, Types, Holding, Goto, SpcGoto, rows, Pcs, NoThread, Held, InRun,
      Mishap, MishapKinds
<1>21. ASSUME NEW w \in Workers, Renew(w) PROVE TypeInv'
  BY <1>21 DEF Renew, Types, Holding, budget
<1>22. ASSUME NEW w \in Workers, RequestStop(w) PROVE TypeInv'
  BY <1>22 DEF RequestStop, Types, Holding, SpcGoto, rows
<1>23. CASE UNCHANGED vars
  BY <1>23 DEF vars, Types, Holding
<1>24. QED
  BY <1>1, <1>2, <1>3, <1>4, <1>5, <1>6, <1>7, <1>8, <1>9, <1>10, <1>11, <1>12,
     <1>13, <1>14, <1>15, <1>15a, <1>15b, <1>16, <1>17, <1>18, <1>19, <1>20, <1>21, <1>22, <1>23
  DEF Next, WorkerThread, ShutdownThread

LEMMA OwnerStep == TypeInv /\ WorkingHasOwner /\ [Next]_vars => WorkingHasOwner'
<1> SUFFICES ASSUME TypeInv, WorkingHasOwner, [Next]_vars PROVE WorkingHasOwner'
  OBVIOUS
<1>1. CASE UNCHANGED <<status, owner>>
  BY <1>1 DEF WorkingHasOwner
<1>2. ASSUME NEW t \in Tasks, NEW w \in Workers, DeleteOwned(t, w) PROVE WorkingHasOwner'
  BY <1>2 DEF DeleteOwned, SetRow, rows, WorkingHasOwner, TypeInv, Types
<1>3. ASSUME NEW t \in Tasks, Enqueue(t) \/ Cancel(t) PROVE WorkingHasOwner'
  BY <1>3 DEF Enqueue, Cancel, SetRow, WorkingHasOwner, TypeInv, Types
<1>4. ASSUME NEW w \in Workers, NEW t \in Tasks, Claim(w, t) PROVE WorkingHasOwner'
  BY <1>4 DEF Claim, SetRow, WorkingHasOwner, TypeInv, Types
<1>5. ASSUME NEW w \in Workers, ClaimWrite(w) PROVE WorkingHasOwner'
  <2>1. cur[w] \in Tasks
    BY <1>5 DEF ClaimWrite, TypeInv, Holding
  <2>2. QED
    BY <1>5, <2>1 DEF ClaimWrite, SetRow, rows, WorkingHasOwner, TypeInv, Types
<1>6. ASSUME NEW w \in Workers, Start(w) PROVE WorkingHasOwner'
  BY <1>6 DEF Start, Stale, rows, WorkingHasOwner, TypeInv, Types
<1>7. ASSUME NEW w \in Workers,
             DropInvalid(w) \/ DeleteDone(w) \/ DeleteFailed(w) \/ DropInProgress(w)
      PROVE  WorkingHasOwner'
  <2>1. PICK t \in Tasks : DeleteOwned(t, w) \/ UNCHANGED rows
    BY <1>7 DEF DropInvalid, DeleteDone, DeleteFailed, DropInProgress, TypeInv, Holding,
                Held, InRun
  <2>2. QED
    BY <2>1, <1>1, <1>2 DEF rows
<1>8. QED
  BY <1>1, <1>3, <1>4, <1>5, <1>6, <1>7
  DEF Next, WorkerThread, ShutdownThread, vars, rows, Expire, Loop, ClaimNothing,
      Validate, Begin, Exec, ReportSuccess, ReportFailure, Finally, ClaimRead,
      JoinReturns, FailInProgress, Crash, Renew, RequestStop

\* Types: every reachable state of the queue and its workers is well typed, and
\* a row is WORKING only in the name of a worker (queue.py claim, worker.py).
THEOREM TypeCorrect == Spec => []TypeOK
<1>1. Init => WorkingHasOwner
  BY DEF Init, WorkingHasOwner
<1>2. TypeInv /\ WorkingHasOwner => TypeOK
  BY DEF TypeInv, TypeOK
<1>3. QED
  BY TypeInit, TypeStep, OwnerStep, <1>1, <1>2, PTL DEF Spec

-----------------------------------------------------------------------------
(* Who holds a task.  The argument: a holder without a mishap owns a live,  *)
(* WORKING row, and no action takes such a row from it; so nobody else can  *)
(* claim the task and no cancel can find it.                                *)

Safe(t) == ~Had(t, "lapse") /\ ~Had(t, "race")

HolderOwns ==
  \A t \in Tasks, w \in Workers :
    Runs(w, t) /\ Safe(t)
      => \/ status[t] = "WORKING" /\ owner[t] = w /\ lease[t] = "LIVE"
         \/ status[t] = "GONE"

Exclusive ==
  \A t \in Tasks : \A v, w \in Workers :
    Runs(v, t) /\ Runs(w, t) /\ v # w => ~Safe(t)

LocksPreventRaces ==
  RowLocks => (\A w \in Workers : pc[w] # "read") /\ (\A t \in Tasks : ~Had(t, "race"))

CanceledGone == \A t \in canceled : t \in Tasks /\ status[t] = "GONE"

HoldInv == HolderOwns /\ Exclusive /\ CanceledGone /\ CanceledStaysOut

\* What the steps that neither claim, cancel nor touch a lease have in common.
NoNewHolder ==
  /\ canceled' = canceled
  /\ mishap \subseteq mishap'
  /\ \A w \in Workers, t \in Tasks : Runs(w, t)' => Runs(w, t)

Quiet == rows' = rows /\ NoNewHolder

Deletes(t, w) == DeleteOwned(t, w) /\ NoNewHolder

LEMMA QuietSteps ==
  ASSUME TypeInv, NEW w \in Workers,
         \/ Loop(w) \/ ClaimNothing(w) \/ Validate(w) \/ Begin(w) \/ Exec(w)
         \/ ReportSuccess(w) \/ ReportFailure(w) \/ Finally(w)
         \/ JoinReturns(w) \/ FailInProgress(w) \/ Crash(w) \/ RequestStop(w)
         \/ \E t \in Tasks : ClaimRead(w, t)
  PROVE  Quiet
<1> USE DEF TypeInv, Types, Quiet, NoNewHolder, Runs, Held, rows, Goto
<1>1. CASE Loop(w)
  BY <1>1 DEF Loop
<1>2. CASE ClaimNothing(w)
  BY <1>2 DEF ClaimNothing
<1>3. CASE Validate(w)
  BY <1>3 DEF Validate, EnqueueFinished, Fault
<1>4. CASE Begin(w)
  BY <1>4 DEF Begin, EnqueueFinished, Fault
<1>5. CASE Exec(w)
  BY <1>5 DEF Exec
<1>6. CASE ReportSuccess(w)
  BY <1>6 DEF ReportSuccess, EnqueueFinished, Fault
<1>7. CASE ReportFailure(w)
  BY <1>7 DEF ReportFailure, EnqueueFinished, Fault
<1>8. CASE Finally(w)
  BY <1>8 DEF Finally
<1>9. CASE JoinReturns(w)
  BY <1>9 DEF JoinReturns
<1>10. CASE FailInProgress(w)
  BY <1>10 DEF FailInProgress
<1>11. CASE Crash(w)
  BY <1>11 DEF Crash
<1>12. CASE RequestStop(w)
  BY <1>12 DEF RequestStop
<1>13. CASE \E t \in Tasks : ClaimRead(w, t)
  BY <1>13 DEF ClaimRead
<1>14. QED
  BY <1>1, <1>2, <1>3, <1>4, <1>5, <1>6, <1>7, <1>8, <1>9, <1>10, <1>11, <1>12, <1>13

LEMMA DeleteSteps ==
  ASSUME TypeInv, NEW w \in Workers,
         DropInvalid(w) \/ DeleteDone(w) \/ DeleteFailed(w) \/ DropInProgress(w)
  PROVE  Quiet \/ \E t \in Tasks : Deletes(t, w)
<1> USE DEF TypeInv, Types, Quiet, NoNewHolder, Deletes, Runs, Held, Goto, Fault, Holding
<1>1. CASE DropInvalid(w)
  BY <1>1 DEF DropInvalid
<1>2. CASE DeleteDone(w)
  BY <1>2 DEF DeleteDone
<1>3. CASE DeleteFailed(w)
  BY <1>3 DEF DeleteFailed
<1>4. CASE DropInProgress(w)
  BY <1>4 DEF DropInProgress
<1>5. QED
  BY <1>1, <1>2, <1>3, <1>4

\* A clean claim: nobody safe held the task, now w alone owns its live row.
CleanClaim(t, w) ==
  /\ ~\E v \in Workers : Runs(v, t) /\ Safe(t)
  /\ t \notin canceled
  /\ status'[t] = "WORKING" /\ owner'[t] = w /\ lease'[t] = "LIVE"
  /\ \A u \in Tasks : u # t => /\ status'[u] = status[u] /\ owner'[u] = owner[u]
                               /\ lease'[u] = lease[u]
  /\ canceled' = canceled /\ mishap' = mishap
  /\ \A v \in Workers, u \in Tasks : Runs(v, u)' => Runs(v, u) \/ (v = w /\ u = t)

LEMMA CleanClaimStep ==
  ASSUME NEW t \in Tasks, NEW w \in Workers, HoldInv, CleanClaim(t, w)
  PROVE  HoldInv'
<1> USE DEF HoldInv, CleanClaim
<1>1. \A u \in Tasks : Safe(u)' <=> Safe(u)
  BY DEF Safe, Had
<1>2. HolderOwns'
  <2> SUFFICES ASSUME NEW u \in Tasks, NEW v \in Workers, Runs(v, u)', Safe(u)'
               PROVE  \/ status'[u] = "WORKING" /\ owner'[u] = v /\ lease'[u] = "LIVE"
                      \/ status'[u] = "GONE"
    BY DEF HolderOwns
  <2>1. CASE u = t
    <3>1. v = w
      BY <2>1, <1>1
    <3>2. QED
      BY <2>1, <3>1
  <2>2. CASE u # t
    <3>1. Runs(v, u) /\ Safe(u)
      BY <2>2, <1>1
    <3>2. QED
      BY <2>2, <3>1 DEF HolderOwns
  <2>3. QED
    BY <2>1, <2>2
<1>3. Exclusive'
  BY <1>1 DEF Exclusive
<1>4. CanceledGone'
  BY DEF CanceledGone
<1>5. CanceledStaysOut'
  BY DEF CanceledStaysOut, CanceledGone, Had
<1>6. QED
  BY <1>2, <1>3, <1>4, <1>5

LEMMA HoldStep == TypeInv /\ WorkingHasOwner /\ HoldInv /\ [Next]_vars => HoldInv'
<1> SUFFICES ASSUME TypeInv, WorkingHasOwner, HoldInv, [Next]_vars PROVE HoldInv'
  OBVIOUS
<1> USE DEF HoldInv, HolderOwns, Exclusive, CanceledGone, CanceledStaysOut, Safe, Had
<1>1. CASE Quiet
  BY <1>1 DEF Quiet, NoNewHolder, rows
<1>2. ASSUME NEW t \in Tasks, NEW w \in Workers, Deletes(t, w) PROVE HoldInv'
  BY <1>2 DEF Deletes, NoNewHolder, DeleteOwned, SetRow, rows, TypeInv, Types
<1>3. ASSUME NEW t \in Tasks, Enqueue(t) PROVE HoldInv'
  BY <1>3 DEF Enqueue, SetRow, TypeInv, Types, Runs
<1>4. ASSUME NEW t \in Tasks, Cancel(t) PROVE HoldInv'
  BY <1>4 DEF Cancel, CancelFilter, SetRow, TypeInv, Types, Runs
<1>5. ASSUME NEW t \in Tasks, Expire(t) PROVE HoldInv'
  <2>1. UNCHANGED <<status, owner, canceled, pc, cur>> /\ mishap \subseteq mishap'
    BY <1>5 DEF Expire
  <2>2. \A u \in Tasks : u # t => lease'[u] = lease[u]
    BY <1>5 DEF Expire, TypeInv, Types
  <2>3. (\E w \in Workers : owner[t] = w /\ Runs(w, t)) => Had(t, "lapse")'
    BY <1>5 DEF Expire
  <2>4. status[t] = "WORKING"
    BY <1>5 DEF Expire
  <2>5. QED
    BY <2>1, <2>2, <2>3, <2>4 DEF Runs
<1>6. ASSUME NEW w \in Workers, Renew(w) PROVE HoldInv'
  BY <1>6 DEF Renew, TypeInv, Types, Runs
<1>7. ASSUME NEW w \in Workers, Start(w) PROVE HoldInv'
  BY <1>7 DEF Start, Stale, rows, TypeInv, Types, Runs, Held, Goto
<1>8. ASSUME NEW w \in Workers, NEW t \in Tasks, Claim(w, t) PROVE HoldInv'
  <2>1. ~\E v \in Workers : Runs(v, t) /\ Safe(t)
    BY <1>8 DEF Claim, NextUp, Claimable
  <2>2. t \notin canceled
    BY <1>8 DEF Claim, NextUp, Claimable
  <2>3. CleanClaim(t, w)
    BY <1>8, <2>1, <2>2 DEF Claim, SetRow, TypeInv, Types, Runs, Held, Goto, CleanClaim
  <2> HIDE DEF HoldInv
  <2>4. QED
    BY <2>3, CleanClaimStep
<1>9. ASSUME NEW w \in Workers, ClaimWrite(w) PROVE HoldInv'
  <2>1. PICK t \in Tasks : t = cur[w]
    BY <1>9 DEF ClaimWrite, TypeInv, Holding
  <2>2. CASE ~RowExists(t)
    <3>1. Quiet
      BY <1>9, <2>1, <2>2
      DEF ClaimWrite, TypeInv, Types, Runs, Held, Goto, Quiet, NoNewHolder
    <3>2. QED
      BY <3>1, <1>1
  <2>3. CASE RowExists(t) /\ Claimable(t) /\ status[t] = seen[w]
    <3>1. ~\E v \in Workers : Runs(v, t) /\ Safe(t)
      BY <2>1, <2>3 DEF Claimable
    <3>2. t \notin canceled
      BY <2>3 DEF RowExists
    <3>3. status'[t] = "WORKING" /\ owner'[t] = w /\ lease'[t] = "LIVE"
      BY <1>9, <2>1, <2>3 DEF ClaimWrite, SetRow, RowExists, TypeInv, Types
    <3>4. CleanClaim(t, w)
      BY <1>9, <2>1, <2>3, <3>1, <3>2, <3>3
      DEF ClaimWrite, SetRow, Runs, Held, Goto, TypeInv, Types, CleanClaim
    <3> HIDE DEF HoldInv
    <3>5. QED
      BY <2>1, <3>4, CleanClaimStep
  <2>4. CASE RowExists(t) /\ ~(Claimable(t) /\ status[t] = seen[w])
    <3>1. Had(t, "race")'
      BY <1>9, <2>1, <2>4 DEF ClaimWrite
    <3>2. t \notin canceled
      BY <2>4 DEF RowExists
    <3>3. /\ \A u \in Tasks : u # t => /\ status'[u] = status[u] /\ owner'[u] = owner[u]
                                       /\ lease'[u] = lease[u]
          /\ canceled' = canceled /\ mishap \subseteq mishap'
          /\ \A v \in Workers, u \in Tasks : Runs(v, u)' => Runs(v, u) \/ (v = w /\ u = t)
      BY <1>9, <2>1, <2>4 DEF ClaimWrite, SetRow, Runs, Held, Goto, TypeInv, Types
    <3>4. \A u \in Tasks : Safe(u)' => Safe(u) /\ u # t
      BY <3>1, <3>3
    <3>5. HolderOwns'
      BY <3>3, <3>4
    <3>6. Exclusive'
      BY <3>3, <3>4
    <3>7. CanceledGone'
      BY <2>1, <3>2, <3>3
    <3>8. CanceledStaysOut'
      BY <2>1, <3>2, <3>3
    <3>9. QED
      BY <3>5, <3>6, <3>7, <3>8
  <2>5. QED
    BY <2>2, <2>3, <2>4
<1>10. CASE UNCHANGED vars
  BY <1>10 DEF vars, Runs
<1>11. QED
  BY <1>1, <1>2, <1>3, <1>4, <1>5, <1>6, <1>7, <1>8, <1>9, <1>10,
     QuietSteps, DeleteSteps
  DEF Next, WorkerThread, ShutdownThread

LEMMA MishapsDiffer ==
  ASSUME NEW t, NEW u, NEW j, NEW k, Mishap(t, j) = Mishap(u, k)
  PROVE  t = u /\ j = k
<1>1. Mishap(t, j).task = t /\ Mishap(t, j).kind = j
  BY DEF Mishap
<1>2. Mishap(u, k).task = u /\ Mishap(u, k).kind = k
  BY DEF Mishap
<1>3. QED
  BY <1>1, <1>2

\* With row locks claim is one transaction: it never writes what it did not read.
LEMMA RaceStep == TypeInv /\ LocksPreventRaces /\ [Next]_vars => LocksPreventRaces'
<1> SUFFICES ASSUME TypeInv, LocksPreventRaces, [Next]_vars, RowLocks
             PROVE  /\ \A w \in Workers : pc'[w] # "read"
                    /\ \A t \in Tasks : ~Had(t, "race")'
  BY DEF LocksPreventRaces
<1> USE DEF TypeInv, Types, LocksPreventRaces
<1>1. ~\E w \in Workers : ClaimWrite(w) \/ \E t \in Tasks : ClaimRead(w, t)
  BY DEF ClaimWrite, ClaimRead
<1>2. \A w \in Workers : pc'[w] # "read"
  BY <1>1
  DEF Next, WorkerThread, ShutdownThread, vars, Goto, Enqueue, Cancel, Expire, Loop,
      ClaimNothing, Validate, DropInvalid, Begin, Exec, ReportSuccess, DeleteDone,
      ReportFailure, DeleteFailed, Finally, Claim, JoinReturns, FailInProgress,
      DropInProgress, Start, Crash, Renew, RequestStop
<1> DEFINE Clean == \A t \in Tasks : ~Had(t, "race")'
<1>3. Clean
  <2> USE MishapsDiffer DEF Had
  <2>1. ASSUME NEW t \in Tasks, Enqueue(t) \/ Cancel(t) \/ Expire(t) PROVE Clean
    BY <2>1 DEF Enqueue, Cancel, Expire
  <2>2. ASSUME NEW w \in Workers,
               Validate(w) \/ Begin(w) \/ ReportSuccess(w) \/ ReportFailure(w)
        PROVE  Clean
    BY <2>2 DEF Validate, Begin, ReportSuccess, ReportFailure, EnqueueFinished, Fault
  <2>3. ASSUME NEW w \in Workers,
               DropInvalid(w) \/ DeleteDone(w) \/ DeleteFailed(w) \/ DropInProgress(w)
        PROVE  Clean
    BY <2>3 DEF DropInvalid, DeleteDone, DeleteFailed, DropInProgress, Fault
  <2>4. ASSUME NEW w \in Workers,
               \/ Loop(w) \/ ClaimNothing(w) \/ Exec(w) \/ Finally(w) \/ Start(w)
               \/ JoinReturns(w) \/ Renew(w) \/ RequestStop(w)
               \/ \E t \in Tasks : Claim(w, t)
        PROVE  Clean
    BY <2>4 DEF Loop, ClaimNothing, Exec, Finally, Start, JoinReturns, Renew,
                RequestStop, Claim
  <2>5. ASSUME NEW w \in Workers, FailInProgress(w) \/ Crash(w) PROVE Clean
    BY <2>5 DEF FailInProgress, Crash
  <2>6. CASE UNCHANGED vars
    BY <2>6 DEF vars
  <2>7. QED
    BY <1>1, <2>1, <2>2, <2>3, <2>4, <2>5, <2>6 DEF Next, WorkerThread, ShutdownThread
<1>4. QED
  BY <1>2, <1>3

HoldAll == TypeInv /\ WorkingHasOwner /\ HoldInv /\ LocksPreventRaces

THEOREM Holders == Spec => []HoldAll
<1>1. Init => HoldAll
  <2>1. Init => WorkingHasOwner /\ HoldInv /\ LocksPreventRaces
    BY DEF Init, WorkingHasOwner, HoldInv, HolderOwns, Exclusive, CanceledGone,
           CanceledStaysOut, LocksPreventRaces, Had, Runs, Held
  <2>2. QED
    BY <2>1, TypeInit DEF HoldAll
<1>2. HoldAll /\ [Next]_vars => HoldAll'
  BY TypeStep, OwnerStep, HoldStep, RaceStep DEF HoldAll
<1>3. QED
  BY <1>1, <1>2, PTL DEF Spec

\* Mutual exclusion (queue.py claim and extend_lease, worker.py _run_task): two
\* threads hold one task only if its lease ran out under a holder or the database
\* does not lock the row that claim reads.
THEOREM HoldersExclude == Spec => []OneHolder
<1>1. HoldAll => OneHolder
  BY DEF HoldAll, HoldInv, Exclusive, LocksPreventRaces, Safe, OneHolder
<1>2. QED
  BY Holders, <1>1, PTL

\* Cancel is final (server.py cancel): the answer "canceled" is never given for a
\* task that a worker holds under a lease that never ran out.
THEOREM CancelIsFinal == Spec => []CanceledStaysOut
<1>1. HoldAll => CanceledStaysOut
  BY DEF HoldAll, HoldInv
<1>2. QED
  BY Holders, <1>1, PTL

-----------------------------------------------------------------------------
(* Nothing is lost.  The argument: the outcome is recorded before the row  *)
(* is deleted on every path, and records are never taken back.             *)

Kept(t) == Reported(t) \/ Had(t, "fault") \/ ~(Terminal \subseteq CallbackStatuses)

RecordedFirst ==
  /\ \A w \in Workers : pc[w] \in {"invalid", "okDelete", "badDelete"} => Kept(cur[w])
  /\ \A w \in Workers : spc[w] = "delete" => Kept(scur[w])

GoneKept == \A t \in Tasks : status[t] = "GONE" => t \in canceled \/ Kept(t)

Grows == finished \subseteq finished' /\ mishap \subseteq mishap' /\ canceled \subseteq canceled'

LEMMA GrowStep == [Next]_vars => Grows
<1> SUFFICES ASSUME [Next]_vars PROVE Grows
  OBVIOUS
<1> USE DEF Grows
<1>1. ASSUME NEW t \in Tasks, Enqueue(t) \/ Cancel(t) \/ Expire(t) PROVE Grows
  BY <1>1 DEF Enqueue, Cancel, Expire
<1>2. ASSUME NEW w \in Workers,
             Validate(w) \/ Begin(w) \/ ReportSuccess(w) \/ ReportFailure(w)
      PROVE  Grows
  BY <1>2 DEF Validate, Begin, ReportSuccess, ReportFailure, EnqueueFinished, Fault
<1>3. ASSUME NEW w \in Workers,
             DropInvalid(w) \/ DeleteDone(w) \/ DeleteFailed(w) \/ DropInProgress(w)
      PROVE  Grows
  BY <1>3 DEF DropInvalid, DeleteDone, DeleteFailed, DropInProgress, Fault
<1>4. ASSUME NEW w \in Workers,
             \/ Loop(w) \/ ClaimNothing(w) \/ Exec(w) \/ Finally(w) \/ Start(w)
             \/ JoinReturns(w) \/ Renew(w) \/ RequestStop(w) \/ ClaimWrite(w)
             \/ \E t \in Tasks : Claim(w, t) \/ ClaimRead(w, t)
      PROVE  Grows
  BY <1>4 DEF Loop, ClaimNothing, Exec, Finally, Start, JoinReturns, Renew,
              RequestStop, Claim, ClaimRead, ClaimWrite
<1>5. ASSUME NEW w \in Workers, FailInProgress(w) \/ Crash(w) PROVE Grows
  BY <1>5 DEF FailInProgress, Crash
<1>6. CASE UNCHANGED vars
  BY <1>6 DEF vars
<1>7. QED
  BY <1>1, <1>2, <1>3, <1>4, <1>5, <1>6 DEF Next, WorkerThread, ShutdownThread

LEMMA KeptGrows == ASSUME NEW t, Kept(t), Grows PROVE Kept(t)'
BY DEF Kept, Reported, Had, Grows

LEMMA RecordKeeps ==
  ASSUME NEW t, NEW s \in Terminal, EnqueueFinished(t, s) PROVE Kept(t)'
BY DEF EnqueueFinished, Fault, Kept, Reported, Had

LEMMA RecordedFirstStep == TypeInv /\ RecordedFirst /\ [Next]_vars => RecordedFirst'
<1> SUFFICES ASSUME TypeInv, RecordedFirst, [Next]_vars PROVE RecordedFirst'
  OBVIOUS
<1> DEFINE AtDelete == {"invalid", "okDelete", "badDelete"}
<1>1. Grows
  BY GrowStep
<1>2. \A t : Kept(t) => Kept(t)'
  BY <1>1, KeptGrows
<1>3. ASSUME NEW w \in Workers, Validate(w) \/ ReportSuccess(w) \/ ReportFailure(w)
      PROVE  RecordedFirst'
  <2>1. pc'[w] \in AtDelete => Kept(cur[w])'
    <3>1. CASE Validate(w)
      BY <3>1, RecordKeeps DEF Validate, Goto, Terminal, TypeInv, Types
    <3>2. CASE ReportSuccess(w)
      BY <3>2, RecordKeeps DEF ReportSuccess, Terminal
    <3>3. CASE ReportFailure(w)
      BY <3>3, RecordKeeps DEF ReportFailure, Terminal
    <3>4. QED
      BY <1>3, <3>1, <3>2, <3>3
  <2>2. /\ \A v \in Workers : v # w => pc'[v] = pc[v]
        /\ cur' = cur /\ spc' = spc /\ scur' = scur
    BY <1>3 DEF Validate, ReportSuccess, ReportFailure, Goto, TypeInv, Types
  <2>3. QED
    BY <1>2, <2>1, <2>2 DEF RecordedFirst
<1>4. ASSUME NEW w \in Workers, FailInProgress(w) PROVE RecordedFirst'
  <2>1. Kept(scur[w])'
    BY <1>4 DEF FailInProgress, Kept, Reported, Had, Terminal
  <2>2. /\ \A v \in Workers : v # w => spc'[v] = spc[v]
        /\ pc' = pc /\ cur' = cur /\ scur' = scur
    BY <1>4 DEF FailInProgress, SpcGoto, TypeInv, Types
  <2>3. QED
    BY <1>2, <2>1, <2>2 DEF RecordedFirst
<1>5. CASE /\ \A w \in Workers : pc'[w] \in AtDelete => pc'[w] = pc[w] /\ cur'[w] = cur[w]
           /\ \A w \in Workers : spc'[w] = "delete" => spc'[w] = spc[w] /\ scur'[w] = scur[w]
  BY <1>2, <1>5 DEF RecordedFirst
<1>6. ASSUME NEW t \in Tasks, Enqueue(t) \/ Cancel(t) \/ Expire(t) PROVE RecordedFirst'
  BY <1>5, <1>6 DEF Enqueue, Cancel, Expire
<1>7. ASSUME NEW w \in Workers,
             \/ Loop(w) \/ ClaimNothing(w) \/ DropInvalid(w) \/ Begin(w) \/ Exec(w)
             \/ DeleteDone(w) \/ DeleteFailed(w) \/ Finally(w) \/ ClaimWrite(w)
             \/ \E t \in Tasks : Claim(w, t) \/ ClaimRead(w, t)
      PROVE  RecordedFirst'
  BY <1>5, <1>7
  DEF Loop, ClaimNothing, DropInvalid, Begin, Exec, DeleteDone, DeleteFailed, Finally,
      ClaimWrite, Claim, ClaimRead, Goto, TypeInv, Types
<1>8. ASSUME NEW w \in Workers,
             \/ JoinReturns(w) \/ DropInProgress(w) \/ Start(w) \/ Crash(w)
             \/ Renew(w) \/ RequestStop(w)
      PROVE  RecordedFirst'
  BY <1>5, <1>8
  DEF JoinReturns, DropInProgress, Start, Crash, Renew, RequestStop, Goto, SpcGoto,
      TypeInv, Types
<1>9. CASE UNCHANGED vars
  BY <1>5, <1>9 DEF vars
<1>10. QED
  BY <1>3, <1>4, <1>6, <1>7, <1>8, <1>9 DEF Next, WorkerThread, ShutdownThread

LEMMA GoneKeptStep ==
  TypeInv /\ RecordedFirst /\ GoneKept /\ [Next]_vars => GoneKept'
<1> SUFFICES ASSUME TypeInv, RecordedFirst, GoneKept, [Next]_vars PROVE GoneKept'
  OBVIOUS
<1>1. Grows
  BY GrowStep
<1>2. \A t : Kept(t) => Kept(t)'
  BY <1>1, KeptGrows
<1>3. ASSUME \A t \in Tasks : status'[t] = "GONE" => status[t] = "GONE" PROVE GoneKept'
  BY <1>1, <1>2, <1>3 DEF GoneKept, Grows
<1>4. ASSUME NEW t \in Tasks, NEW w \in Workers, DeleteOwned(t, w), Kept(t) PROVE GoneKept'
  BY <1>1, <1>2, <1>4 DEF GoneKept, Grows, DeleteOwned, SetRow, rows, TypeInv, Types
<1>5. ASSUME NEW w \in Workers,
             DropInvalid(w) \/ DeleteDone(w) \/ DeleteFailed(w)
      PROVE  GoneKept'
  <2>1. cur[w] \in Tasks /\ Kept(cur[w])
    BY <1>5 DEF DropInvalid, DeleteDone, DeleteFailed, RecordedFirst, TypeInv, Holding,
                Held, InRun
  <2>2. DeleteOwned(cur[w], w) \/ UNCHANGED rows
    BY <1>5 DEF DropInvalid, DeleteDone, DeleteFailed
  <2>3. QED
    BY <1>3, <1>4, <2>1, <2>2 DEF rows
<1>6. ASSUME NEW w \in Workers, DropInProgress(w) PROVE GoneKept'
  <2>1. scur[w] \in Tasks /\ Kept(scur[w])
    BY <1>6 DEF DropInProgress, RecordedFirst, TypeInv, Holding
  <2>2. QED
    BY <1>3, <1>4, <1>6, <2>1 DEF DropInProgress, rows
<1>7. ASSUME NEW t \in Tasks, Cancel(t) PROVE GoneKept'
  BY <1>1, <1>2, <1>7 DEF GoneKept, Grows, Cancel, SetRow, TypeInv, Types
<1>8. ASSUME NEW t \in Tasks, Enqueue(t) \/ Expire(t) PROVE GoneKept'
  BY <1>3, <1>8 DEF Enqueue, Expire, SetRow, TypeInv, Types
<1>9. ASSUME NEW w \in Workers,
             Start(w) \/ ClaimWrite(w) \/ \E t \in Tasks : Claim(w, t)
      PROVE  GoneKept'
  <2>1. \A t \in Tasks : status'[t] = "GONE" => status[t] = "GONE"
    BY <1>9 DEF Start, ClaimWrite, Claim, RowExists, SetRow, rows, TypeInv, Types
  <2>2. QED
    BY <1>3, <2>1
<1>10. CASE UNCHANGED status
  BY <1>3, <1>10
<1>11. QED
  BY <1>5, <1>6, <1>7, <1>8, <1>9, <1>10
  DEF Next, WorkerThread, ShutdownThread, vars, rows, Loop, ClaimNothing, Validate,
      Begin, Exec, ReportSuccess, ReportFailure, Finally, ClaimRead, JoinReturns,
      FailInProgress, Crash, Renew, RequestStop

\* No task vanishes (worker.py _run_task, _worker_impl, _fail_in_progress_task):
\* whatever is killed, expires or fails, a row is gone only after a cancel, a
\* recorded outcome or a database error on that very task.
THEOREM NoTaskVanishes == Spec => []NothingLost
<1>1. Init => RecordedFirst /\ GoneKept
  BY DEF Init, RecordedFirst, GoneKept
<1>2. GoneKept => NothingLost
  BY DEF GoneKept, NothingLost, Kept
<1>3. QED
  BY TypeInit, TypeStep, RecordedFirstStep, GoneKeptStep, <1>1, <1>2, PTL DEF Spec

-----------------------------------------------------------------------------
(* One outcome.  The argument: as long as nothing went wrong with a task,  *)
(* its holder is the only thread that reports on it, it reports once, and  *)
(* the row is gone, or about to be deleted by it, from then on.            *)

Untroubled(t) == \A k \in MishapKinds : ~Had(t, k)

\* The thread has recorded the outcome of t and is about to delete the row.
Concludes(w, t) == cur[w] = t /\ pc[w] \in {"invalid", "okDelete", "badDelete"}

TimeoutsNoted == \A w \in Workers : spc[w] = "delete" => Had(scur[w], "timeout")
RowStays ==
  \A t \in Tasks, w \in Workers : Runs(w, t) /\ Untroubled(t) => status[t] # "GONE"
Settled ==
  \A t \in Tasks :
    Untroubled(t) /\ Reported(t)
      => t \notin canceled /\ (status[t] = "GONE" \/ \E w \in Workers : Concludes(w, t))

OutcomeInv == TimeoutsNoted /\ RowStays /\ Settled /\ OneOutcome

LEMMA TimeoutsNotedStep == TypeInv /\ TimeoutsNoted /\ [Next]_vars => TimeoutsNoted'
<1> SUFFICES ASSUME TypeInv, TimeoutsNoted, [Next]_vars PROVE TimeoutsNoted'
  OBVIOUS
<1>1. \A t : Had(t, "timeout") => Had(t, "timeout")'
  BY GrowStep DEF Grows, Had
<1>2. ASSUME NEW w \in Workers, FailInProgress(w) PROVE TimeoutsNoted'
  <2>1. Had(scur[w], "timeout")' /\ scur' = scur
    BY <1>2 DEF FailInProgress, Had
  <2>2. \A v \in Workers : v # w => spc'[v] = spc[v]
    BY <1>2 DEF FailInProgress, SpcGoto, TypeInv, Types
  <2>3. QED
    BY <1>1, <2>1, <2>2 DEF TimeoutsNoted, Had
<1>3. ASSUME \A w \in Workers : spc'[w] = "delete" => spc[w] = "delete" /\ scur'[w] = scur[w]
      PROVE  TimeoutsNoted'
  BY <1>1, <1>3 DEF TimeoutsNoted, Had
<1>4. ASSUME NEW w \in Workers, JoinReturns(w) \/ DropInProgress(w) \/ Start(w) \/ Crash(w) \/ RequestStop(w)
      PROVE  TimeoutsNoted'
  BY <1>3, <1>4
  DEF JoinReturns, DropInProgress, Start, Crash, RequestStop, SpcGoto, TypeInv, Types
<1>5. CASE UNCHANGED <<spc, scur>>
  BY <1>3, <1>5
<1>6. QED
  BY <1>2, <1>4, <1>5
  DEF Next, WorkerThread, ShutdownThread, vars, Enqueue, Cancel, Expire, Loop, ClaimNothing,
      Validate, DropInvalid, Begin, Exec, ReportSuccess, DeleteDone, ReportFailure,
      DeleteFailed, Finally, Claim, ClaimRead, ClaimWrite, Renew

\* Who makes a row go: a cancel of a task that waits, the thread that has concluded
\* it, or the one that fails it at a shutdown.
LEMMA GoneSteps ==
  ASSUME TypeInv, [Next]_vars, NEW t \in Tasks, status[t] # "GONE", status'[t] = "GONE"
  PROVE  \/ status[t] = "WAITING"
         \/ \E w \in Workers : owner[t] = w /\ Concludes(w, t) /\ pc'[w] \notin Held
         \/ \E w \in Workers : owner[t] = w /\ spc[w] = "delete" /\ scur[w] = t
<1> USE DEF TypeInv, Types
<1>1. CASE status'[t] = status[t]
  BY <1>1
<1>2. ASSUME NEW u \in Tasks, Enqueue(u) \/ Cancel(u) PROVE status[t] = "WAITING"
  BY <1>2 DEF Enqueue, Cancel, CancelFilter, SetRow
<1>3. ASSUME NEW w \in Workers, DropInvalid(w) \/ DeleteDone(w) \/ DeleteFailed(w)
      PROVE  owner[t] = w /\ Concludes(w, t) /\ pc'[w] \notin Held
  <2>1. cur[w] \in Tasks
    BY <1>3 DEF DropInvalid, DeleteDone, DeleteFailed, Holding, Held
  <2>2. DeleteOwned(cur[w], w) /\ pc'[w] \notin Held /\ Concludes(w, cur[w])
    BY <1>3 DEF DropInvalid, DeleteDone, DeleteFailed, Goto, Held, Concludes, rows
  <2>3. QED
    BY <2>1, <2>2 DEF DeleteOwned, SetRow, rows
<1>4. ASSUME NEW w \in Workers, DropInProgress(w)
      PROVE  owner[t] = w /\ spc[w] = "delete" /\ scur[w] = t
  <2>1. scur[w] \in Tasks
    BY <1>4 DEF DropInProgress, Holding
  <2>2. QED
    BY <1>4, <2>1 DEF DropInProgress, DeleteOwned, SetRow, rows
<1>5. ASSUME NEW w \in Workers, Start(w) \/ ClaimWrite(w) \/ \E u \in Tasks : Claim(w, u)
      PROVE  FALSE
  BY <1>5 DEF Start, ClaimWrite, Claim, RowExists, SetRow, rows, Holding
<1>6. QED
  BY <1>1, <1>2, <1>3, <1>4, <1>5
  DEF Next, WorkerThread, ShutdownThread, vars, rows, Expire, Loop, ClaimNothing,
      Validate, Begin, Exec, ReportSuccess, ReportFailure, Finally, ClaimRead,
      JoinReturns, FailInProgress, Crash, Renew, RequestStop

\* Task ids are not used twice: a row that is gone does not come back.
LEMMA GoneStays ==
  ASSUME TypeInv, [Next]_vars, NEW t \in Tasks, status[t] = "GONE"
  PROVE  status'[t] = "GONE"
<1> USE DEF TypeInv, Types
<1>1. ASSUME NEW u \in Tasks, Enqueue(u) \/ Cancel(u) PROVE status'[t] = "GONE"
  BY <1>1 DEF Enqueue, Cancel, CancelFilter, SetRow
<1>2. ASSUME NEW w \in Workers, NEW u \in Tasks, DeleteOwned(u, w) \/ UNCHANGED rows
      PROVE  status'[t] = "GONE"
  BY <1>2 DEF DeleteOwned, SetRow, rows
<1>3. ASSUME NEW w \in Workers,
             DropInvalid(w) \/ DeleteDone(w) \/ DeleteFailed(w) \/ DropInProgress(w)
      PROVE  status'[t] = "GONE"
  <2>1. PICK u \in Tasks : DeleteOwned(u, w) \/ UNCHANGED rows
    BY <1>3 DEF DropInvalid, DeleteDone, DeleteFailed, DropInProgress, Holding, Held, InRun
  <2>2. QED
    BY <1>2, <2>1
<1>4. ASSUME NEW w \in Workers, Start(w) \/ ClaimWrite(w) \/ \E u \in Tasks : Claim(w, u)
      PROVE  status'[t] = "GONE"
  BY <1>4 DEF Start, Stale, ClaimWrite, Claim, NextUp, Claimable, RowExists, SetRow, rows,
              Holding
<1>5. CASE UNCHANGED status
  BY <1>5
<1>6. QED
  BY <1>1, <1>3, <1>4, <1>5
  DEF Next, WorkerThread, ShutdownThread, vars, rows, Expire, Loop, ClaimNothing,
      Validate, Begin, Exec, ReportSuccess, ReportFailure, Finally, ClaimRead,
      JoinReturns, FailInProgress, Crash, Renew, RequestStop

\* A thread takes a task up only by claiming its row.
LEMMA TakenSteps ==
  ASSUME TypeInv, [Next]_vars, NEW w \in Workers, NEW t \in Tasks, Runs(w, t)', ~Runs(w, t)
  PROVE  status'[t] # "GONE"
<1> USE DEF TypeInv, Types
<1>1. ASSUME NoNewHolder PROVE FALSE
  BY <1>1 DEF NoNewHolder
<1>2. ASSUME NEW v \in Workers, NEW u \in Tasks, Claim(v, u) PROVE status'[t] # "GONE"
  BY <1>2 DEF Claim, SetRow, Runs, Goto
<1>3. ASSUME NEW v \in Workers, ClaimWrite(v) PROVE status'[t] # "GONE"
  <2>1. cur[v] \in Tasks
    BY <1>3 DEF ClaimWrite, Holding
  <2>2. v = w /\ cur[v] = t /\ RowExists(t)
    BY <1>3, <2>1 DEF ClaimWrite, Runs, Goto, Held
  <2>3. QED
    BY <1>3, <2>2 DEF ClaimWrite, SetRow, RowExists
<1>4. ASSUME NEW u \in Tasks, Enqueue(u) \/ Cancel(u) \/ Expire(u) PROVE FALSE
  BY <1>4 DEF Enqueue, Cancel, Expire, Runs
<1>5. ASSUME NEW v \in Workers, Start(v) \/ Renew(v) PROVE FALSE
  BY <1>5 DEF Start, Renew, Runs, Goto, Held
<1>6. CASE UNCHANGED vars
  BY <1>6 DEF vars, Runs
<1>7. QED
  BY <1>1, <1>2, <1>3, <1>4, <1>5, <1>6, QuietSteps, DeleteSteps
  DEF Next, WorkerThread, ShutdownThread, Quiet, Deletes

LEMMA RowStaysStep ==
  TypeInv /\ HoldInv /\ TimeoutsNoted /\ RowStays /\ [Next]_vars => RowStays'
<1> SUFFICES ASSUME TypeInv, HoldInv, TimeoutsNoted, RowStays, [Next]_vars,
                    NEW t \in Tasks, NEW w \in Workers, Runs(w, t)', Untroubled(t)',
                    status'[t] = "GONE"
             PROVE  FALSE
  BY DEF RowStays
<1>1. Untroubled(t)
  BY GrowStep DEF Grows, Untroubled, Had
<1>2. Runs(w, t)
  BY TakenSteps
<1>3. status[t] = "WORKING" /\ owner[t] = w
  BY <1>1, <1>2 DEF HoldInv, HolderOwns, RowStays, Safe, Untroubled, MishapKinds
<1>4. ~(\E v \in Workers : owner[t] = v /\ spc[v] = "delete" /\ scur[v] = t)
  BY <1>1 DEF TimeoutsNoted, Untroubled, MishapKinds
<1>5. QED
  BY <1>3, <1>4, GoneSteps DEF Runs

\* Who records an outcome: the thread that concludes the task with it, or the one that
\* fails it at a shutdown.
LEMMA ReportSteps ==
  ASSUME TypeInv, [Next]_vars, NEW t \in Tasks, NEW s \in Terminal,
         Record(t, s) \in finished', Record(t, s) \notin finished
  PROVE  \/ Had(t, "timeout")'
         \/ /\ \E w \in Workers : Runs(w, t) /\ ~Concludes(w, t) /\ Concludes(w, t)'
            /\ \A r \in Terminal : Record(t, r) \in finished' => Record(t, r) \in finished \/ r = s
            /\ canceled' = canceled /\ status' = status
<1> USE DEF TypeInv, Types
<1>0. \A u, r : Record(u, r) = Record(t, s) => u = t /\ r = s
  BY DEF Record
<1>1. ASSUME NEW w \in Workers, NEW r \in Terminal, EnqueueFinished(cur[w], r),
             Runs(w, cur[w]), ~Concludes(w, cur[w]), Concludes(w, cur[w])',
             UNCHANGED <<rows, canceled, cur>>
      PROVE  /\ \E v \in Workers : Runs(v, t) /\ ~Concludes(v, t) /\ Concludes(v, t)'
             /\ \A q \in Terminal : Record(t, q) \in finished' => Record(t, q) \in finished \/ q = s
             /\ canceled' = canceled /\ status' = status
  <2>1. finished' = finished \cup {Record(cur[w], r)}
    BY <1>1 DEF EnqueueFinished
  <2>2. cur[w] = t /\ r = s
    BY <1>0, <2>1
  <2>3. \A q : Record(t, q) = Record(t, r) => q = r
    BY DEF Record
  <2>4. QED
    BY <1>1, <2>1, <2>2, <2>3 DEF rows
<1>2. ASSUME NEW w \in Workers, Validate(w) \/ ReportSuccess(w) \/ ReportFailure(w)
      PROVE  \E r \in Terminal : /\ EnqueueFinished(cur[w], r)
                                 /\ Runs(w, cur[w]) /\ ~Concludes(w, cur[w])
                                 /\ Concludes(w, cur[w])' /\ UNCHANGED <<rows, canceled, cur>>
  <2> USE DEF Runs, Held, Concludes, Goto, Terminal
  <2>1. CASE Validate(w)
    <3>1. EnqueueFinished(cur[w], "FAILED") /\ Goto(w, "invalid")
      BY <2>1 DEF Validate
    <3>2. QED
      BY <2>1, <3>1 DEF Validate
  <2>2. CASE ReportSuccess(w)
    BY <2>2 DEF ReportSuccess
  <2>3. CASE ReportFailure(w)
    BY <2>3 DEF ReportFailure
  <2>4. QED
    BY <1>2, <2>1, <2>2, <2>3
<1>3. ASSUME NEW w \in Workers, FailInProgress(w) PROVE Had(t, "timeout")'
  <2>1. finished' = finished \cup {Record(scur[w], "FAILED")}
    BY <1>3 DEF FailInProgress
  <2>2. QED
    BY <1>0, <1>3, <2>1 DEF FailInProgress, Had
<1>4. ASSUME NEW w \in Workers, Begin(w) PROVE FALSE
  BY <1>0, <1>4 DEF Begin, EnqueueFinished, Terminal
<1>5. CASE UNCHANGED finished
  BY <1>5
<1>6. QED
  BY <1>1, <1>2, <1>3, <1>4, <1>5
  DEF Next, WorkerThread, ShutdownThread, vars, Enqueue, Cancel, Expire, Loop, ClaimNothing,
      DropInvalid, Exec, DeleteDone, DeleteFailed, Finally, Claim, ClaimRead, ClaimWrite,
      JoinReturns, DropInProgress, Start, Crash, Renew, RequestStop

\* A thread that has concluded a task goes on to delete the row, unless something goes
\* wrong.
LEMMA ConcludedSteps ==
  ASSUME TypeInv, [Next]_vars, NEW t \in Tasks, NEW w \in Workers, Concludes(w, t)
  PROVE  \/ Concludes(w, t)' \/ Had(t, "fault")' \/ Had(t, "crash")'
         \/ DeleteOwned(t, w)
<1> USE DEF TypeInv, Types, Concludes
<1>1. CASE pc'[w] = pc[w] /\ cur'[w] = cur[w]
  BY <1>1
<1>2. CASE DropInvalid(w) \/ DeleteDone(w) \/ DeleteFailed(w)
  BY <1>2 DEF DropInvalid, DeleteDone, DeleteFailed, Fault, Had
<1>3. CASE Crash(w)
  BY <1>3 DEF Crash, Had, Runs, Held
<1>4. ASSUME NEW v \in Workers,
             \/ v # w /\ Crash(v)
             \/ v # w /\ (DropInvalid(v) \/ DeleteDone(v) \/ DeleteFailed(v))
             \/ Loop(v) \/ ClaimNothing(v) \/ Validate(v) \/ Begin(v) \/ Exec(v)
             \/ ReportSuccess(v) \/ ReportFailure(v) \/ Finally(v) \/ ClaimWrite(v)
             \/ Start(v) \/ \E u \in Tasks : Claim(v, u) \/ ClaimRead(v, u)
      PROVE  pc'[w] = pc[w] /\ cur'[w] = cur[w]
  BY <1>4 DEF Crash, DropInvalid, DeleteDone, DeleteFailed, Loop, ClaimNothing, Validate,
              Begin, Exec, ReportSuccess, ReportFailure, Finally, ClaimWrite, Start, Claim,
              ClaimRead, Goto
<1>5. CASE UNCHANGED <<pc, cur>>
  BY <1>5
<1>6. QED
  BY <1>1, <1>2, <1>3, <1>4, <1>5
  DEF Next, WorkerThread, ShutdownThread, vars, Enqueue, Cancel, Expire, JoinReturns,
      FailInProgress, DropInProgress, Renew, RequestStop

LEMMA CancelSteps ==
  ASSUME TypeInv, [Next]_vars, NEW t \in Tasks, t \in canceled', t \notin canceled
  PROVE  status[t] = "WAITING" /\ finished' = finished
  BY DEF Next, WorkerThread, ShutdownThread, vars, Enqueue, Cancel, CancelFilter, Expire, Loop,
      ClaimNothing, Validate, DropInvalid, Begin, Exec, ReportSuccess, DeleteDone,
      ReportFailure, DeleteFailed, Finally, Claim, ClaimRead, ClaimWrite, JoinReturns,
      FailInProgress, DropInProgress, Start, Crash, Renew, RequestStop

LEMMA OutcomeStep ==
  TypeInv /\ HoldInv /\ OutcomeInv /\ [Next]_vars => Settled' /\ OneOutcome'
<1> SUFFICES ASSUME TypeInv, HoldInv, OutcomeInv, [Next]_vars,
                    NEW t \in Tasks, Untroubled(t)', Reported(t)'
             PROVE  /\ t \notin canceled'
                    /\ status'[t] = "GONE" \/ \E w \in Workers : Concludes(w, t)'
                    /\ ~(Record(t, "SUCCESS") \in finished' /\ Record(t, "FAILED") \in finished')
  BY DEF Settled, OneOutcome, Untroubled, Reported, Terminal
<1> USE DEF OutcomeInv
<1>1. Untroubled(t)
  BY GrowStep DEF Grows, Untroubled, Had
<1>2. \A w \in Workers : Runs(w, t) => /\ status[t] = "WORKING" /\ owner[t] = w /\ t \notin canceled
                                       /\ \A v \in Workers : Runs(v, t) => v = w
  BY <1>1 DEF HoldInv, HolderOwns, Exclusive, CanceledStaysOut, RowStays, Safe, Untroubled,
              MishapKinds
<1>3. \A w \in Workers : Concludes(w, t) => Runs(w, t)
  BY DEF Concludes, Runs, Held
<1>4. CASE \A s \in Terminal : Record(t, s) \in finished' => Record(t, s) \in finished
  <2>1. Reported(t)
    BY <1>4 DEF Reported
  <2>2. t \notin canceled /\ (status[t] = "GONE" \/ \E w \in Workers : Concludes(w, t))
    BY <1>1, <2>1 DEF Settled
  <2>3. t \notin canceled'
    BY <1>2, <1>3, <2>2, CancelSteps
  <2>4. status'[t] = "GONE" \/ \E w \in Workers : Concludes(w, t)'
    <3>1. CASE status[t] = "GONE"
      BY <3>1, GoneStays
    <3>2. ASSUME NEW w \in Workers, Concludes(w, t)
          PROVE  status'[t] = "GONE" \/ Concludes(w, t)'
      <4>1. owner[t] = w /\ ~Had(t, "fault")' /\ ~Had(t, "crash")'
        BY <1>2, <1>3, <3>2 DEF Untroubled, MishapKinds
      <4>2. DeleteOwned(t, w) => status'[t] = "GONE"
        BY <4>1 DEF DeleteOwned, SetRow, TypeInv, Types
      <4>3. QED
        BY <3>2, <4>1, <4>2, ConcludedSteps
    <3>3. QED
      BY <2>2, <3>1, <3>2
  <2>5. ~(Record(t, "SUCCESS") \in finished' /\ Record(t, "FAILED") \in finished')
    BY <1>1, <1>4 DEF OneOutcome, Untroubled, Terminal
  <2>6. QED
    BY <2>3, <2>4, <2>5
<1>5. ASSUME NEW s \in Terminal, Record(t, s) \in finished', Record(t, s) \notin finished
      PROVE  /\ t \notin canceled' /\ \E w \in Workers : Concludes(w, t)'
             /\ ~(Record(t, "SUCCESS") \in finished' /\ Record(t, "FAILED") \in finished')
  <2>1. ~Had(t, "timeout")'
    BY DEF Untroubled, MishapKinds
  <2>2. PICK w \in Workers : Runs(w, t) /\ ~Concludes(w, t) /\ Concludes(w, t)'
    BY <1>5, <2>1, ReportSteps
  <2>3. /\ \A r \in Terminal : Record(t, r) \in finished' => Record(t, r) \in finished \/ r = s
        /\ canceled' = canceled
    BY <1>5, <2>1, ReportSteps
  <2>4. ~Reported(t)
    BY <1>1, <1>2, <1>3, <2>2 DEF Settled
  <2>5. QED
    BY <1>2, <2>2, <2>3, <2>4 DEF Reported, Terminal
<1>6. QED
  BY <1>4, <1>5

\* One outcome (worker.py _run_task, server.py cancel): a task of which nothing went wrong
\* is canceled, or reported as SUCCESS or as FAILED, but never two of them.
THEOREM OutcomeIsUnique == Spec => []OneOutcome
<1>1. Init => OutcomeInv
  BY DEF Init, OutcomeInv, TimeoutsNoted, RowStays, Settled, OneOutcome, Runs, Held, Reported
<1>2. HoldAll /\ OutcomeInv /\ [Next]_vars => OutcomeInv'
  BY TimeoutsNotedStep, RowStaysStep, OutcomeStep DEF HoldAll, OutcomeInv
<1>3. OutcomeInv => OneOutcome
  BY DEF OutcomeInv
<1>4. QED
  BY <1>1, <1>2, <1>3, Holders, PTL DEF Spec

-----------------------------------------------------------------------------
(* The owner of a live lease keeps its row.                                *)

\* Whoever else touches the row of a live lease has read it before it was claimed
\* (the worker_id filter of queue.py delete and extend_lease).
LEMMA OwnerKeepsStep ==
  ASSUME TypeInv, [Next]_vars, NEW t \in Tasks, NEW w \in Workers,
         status[t] = "WORKING", owner[t] = w, lease[t] = "LIVE",
         <<status[t], owner[t]>>' # <<status[t], owner[t]>>
  PROVE  pc[w]' # pc[w] \/ spc[w]' # spc[w] \/ Had(t, "race")'
<1> USE DEF TypeInv, Types
<1>1. ASSUME NEW u \in Tasks, Enqueue(u) \/ Cancel(u) PROVE FALSE
  BY <1>1 DEF Enqueue, Cancel, CancelFilter, SetRow
<1>2. ASSUME NEW v \in Workers, DropInvalid(v) \/ DeleteDone(v) \/ DeleteFailed(v)
      PROVE  pc[w]' # pc[w]
  <2>1. cur[v] \in Tasks
    BY <1>2 DEF DropInvalid, DeleteDone, DeleteFailed, Holding, Held
  <2>2. DeleteOwned(cur[v], v) /\ pc'[v] # pc[v]
    BY <1>2 DEF DropInvalid, DeleteDone, DeleteFailed, Goto, rows
  <2>3. v = w
    BY <2>1, <2>2 DEF DeleteOwned, SetRow, rows
  <2>4. QED
    BY <2>2, <2>3
<1>3. ASSUME NEW v \in Workers, DropInProgress(v) PROVE spc[w]' # spc[w]
  <2>1. scur[v] \in Tasks
    BY <1>3 DEF DropInProgress, Holding
  <2>2. DeleteOwned(scur[v], v) /\ spc'[v] # spc[v]
    BY <1>3 DEF DropInProgress, SpcGoto, rows
  <2>3. v = w
    BY <2>1, <2>2 DEF DeleteOwned, SetRow, rows
  <2>4. QED
    BY <2>2, <2>3
<1>4. ASSUME NEW v \in Workers, Start(v) PROVE FALSE
  BY <1>4 DEF Start, Stale, rows
<1>5. ASSUME NEW v \in Workers, NEW u \in Tasks, Claim(v, u) PROVE FALSE
  BY <1>5 DEF Claim, NextUp, Claimable, SetRow
<1>6. ASSUME NEW v \in Workers, ClaimWrite(v) PROVE Had(t, "race")'
  <2>1. cur[v] \in Tasks
    BY <1>6 DEF ClaimWrite, Holding
  <2>2. cur[v] = t /\ RowExists(t)
    BY <1>6, <2>1 DEF ClaimWrite, SetRow, rows
  <2>3. ~Claimable(t)
    BY DEF Claimable
  <2>4. QED
    BY <1>6, <2>2, <2>3 DEF ClaimWrite, Had
<1>7. CASE UNCHANGED <<status, owner>>
  BY <1>7
<1>8. QED
  BY <1>1, <1>2, <1>3, <1>4, <1>5, <1>6, <1>7
  DEF Next, WorkerThread, ShutdownThread, vars, rows, Expire, Loop, ClaimNothing,
      Validate, Begin, Exec, ReportSuccess, ReportFailure, Finally, ClaimRead,
      JoinReturns, FailInProgress, Crash, Renew, RequestStop

\* A worker that lost its lease does not take the row from the new owner (queue.py delete
\* and extend_lease filter by worker_id): only the owner changes a row with a live lease,
\* but for a claim without row locks.
THEOREM OwnersKeepRows == Spec => OwnerKeepsRow
<1>1. TypeInv /\ [Next]_vars =>
        [\A t \in Tasks : \A w \in Workers :
           /\ status[t] = "WORKING" /\ owner[t] = w /\ lease[t] = "LIVE"
           /\ <<status[t], owner[t]>>' # <<status[t], owner[t]>>
           => pc[w]' # pc[w] \/ spc[w]' # spc[w] \/ Had(t, "race")']_vars
  BY OwnerKeepsStep
<1>2. QED
  BY TypeInit, TypeStep, <1>1, PTL DEF Spec, OwnerKeepsRow
=============================================================================

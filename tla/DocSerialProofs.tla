---------------------------- MODULE DocSerialProofs ----------------------------
(***************************************************************************)
(* Proofs about DocLifecycle with one request thread: requests and         *)
(* callbacks do not overlap, but each is many transactions.                *)
(*                                                                         *)
(* Paths says which operation follows which in the list of a thread.       *)
(* Rowed relates the row of the document to its relations, for RowAgrees.  *)
(* The rest is for DeletedStaysGone: Finals, that the outcome of a task is *)
(* its last callback; Unsettled, that a task that has not ended has no     *)
(* final record; Left, which relation a snapshot that is DELETED still has *)
(* to lose; Deletions, that no task of the knowledge base comes between a  *)
(* deletion and its end; Emptied, that a deletion that succeeded has left  *)
(* no nodes; Ghosts, how a snapshot outlives the document.                 *)
(***************************************************************************)
EXTENDS DocLifecycleProofs
-----------------------------------------------------------------------------
(* The way of a list: what follows what.                                   *)

\* The operation that a thread performs next.
Op(j) == IF j.todo = << >> THEN None ELSE j.todo[1]

\* Operation b may follow operation a in a list of job j ...
Succeeds(j, a, b) ==
  \/ a \in {"bind", "mark"} /\ b = "enqueue"
  \/ a = "submit" /\ b = "enqueue" /\ j.type = "META"
  \/ a = "enqueue" /\ b = "submit"
  \/ a = "failTask" /\ b = "failSnap"
  \/ a = "startTask" /\ b = "startSnap"
  \/ a = "finTask" /\ b = "finSnap"
  \/ a = "failSnap" /\ b = "failDoc" /\ j.type = "ADD"
  \/ a = "startSnap" /\ b = "startDoc" /\ j.type = "ADD"
  \/ a = "finSnap" /\ b = "finDoc" /\ j.type = "ADD"
  \/ a = "finSnap" /\ b = "finUnbind" /\ j.type = "DELETE" /\ j.status = "SUCCESS"
  \/ a = "finSnap" /\ b = "count" /\ j.type = "DELETE" /\ j.status # "SUCCESS"
  \/ a \in {"startSnap", "failSnap"} /\ b = "count" /\ j.type = "DELETE"
  \/ a = "finUnbind" /\ b = "count"
  \/ a = "count" /\ b = "markDeleting" /\ j.status = "WORKING"
  \/ a = "count" /\ b = "afterDelete" /\ j.status # "WORKING"
  \/ a = "parserCancel" /\ b = "cancelRead"
  \/ a \in {"cancelRead", "finDoc"} /\ b = "purgeRel" /\ j.type = "ADD"
  \/ a = "purgeRel" /\ b = "purgeSnap"
  \/ a = "purgeSnap" /\ b = "purgeSync"

\* ... and these never end one.
Halfway(j) ==
  {"bind", "mark", "enqueue", "failTask", "startTask", "finTask", "finUnbind", "count",
   "parserCancel", "purgeRel"}
  \cup IF j.type = "DELETE" THEN {"failSnap", "startSnap", "finSnap"} ELSE {}

\* A purge that has begun goes on to the end, unless it has deleted the row.
Chain(j, q) ==
  \A p \in 2..Len(q) :
    Succeeds(j, q[p - 1], q[p]) /\ (q[p] = "purgeSnap" => p < Len(q))
Path(j, q) == Chain(j, q) /\ (q # << >> => q[Len(q)] \notin Halfway(j))
Paths == \A h \in Threads : Path(job[h], job[h].todo)

\* Operation op is ahead.
Has(j, op) == \E p \in 1..Len(j.todo) : j.todo[p] = op

LEMMA EmptyPath == ASSUME NEW j PROVE Path(j, << >>)
  <1>1. Len(<< >>) = 0
    OBVIOUS
  <1> QED BY <1>1 DEF Path, Chain

LEMMA PathTail ==
  ASSUME NEW q \in Seq(Ops), q # << >>, NEW j, NEW j2, j2.type = j.type, j2.status = j.status, Path(j, q)
  PROVE  Path(j2, Tail(q))
  <1>1. PICK r : r = Tail(q)
    OBVIOUS
  <1>2. /\ r \in Seq(Ops) /\ Len(r) = Len(q) - 1 /\ Len(q) \in Nat /\ Len(q) >= 1
        /\ \A p \in 1..Len(r) : r[p] = q[p + 1] /\ p + 1 \in 1..Len(q)
    BY <1>1, TailShape
  <1>3. ASSUME NEW p \in 2..Len(r)
        PROVE  Succeeds(j2, r[p - 1], r[p]) /\ (r[p] = "purgeSnap" => p < Len(r))
    <2>1. r[p - 1] = q[p] /\ r[p] = q[p + 1] /\ p + 1 \in 2..Len(q) /\ (p + 1) - 1 = p
      BY <1>2
    <2>2. Succeeds(j, q[p], q[p + 1]) /\ (q[p + 1] = "purgeSnap" => p + 1 < Len(q))
      BY <2>1 DEF Path, Chain
    <2>3. Succeeds(j2, q[p], q[p + 1])
      BY <2>2 DEF Succeeds
    <2> QED BY <1>2, <2>1, <2>2, <2>3
  <1>4. ASSUME r # << >> PROVE r[Len(r)] \notin Halfway(j2)
    <2>1. Len(r) \in 1..Len(r)
      BY <1>2, <1>4
    <2>2. r[Len(r)] = q[Len(q)]
      BY <1>2, <2>1
    <2> QED BY <1>2, <2>2 DEF Path, Halfway
  <1> QED BY <1>1, <1>3, <1>4 DEF Path, Chain

\* The second operation of a list.
LEMMA PathNext ==
  ASSUME NEW q \in Seq(Ops), q # << >>, NEW j, Path(j, q)
  PROVE  IF Tail(q) = << >> THEN q[1] \notin Halfway(j) /\ Len(q) = 1
         ELSE /\ Len(q) >= 2 /\ Succeeds(j, q[1], Tail(q)[1])
              /\ Tail(q)[1] = "purgeSnap" => Len(Tail(q)) >= 2
  <1>1. PICK r : r = Tail(q)
    OBVIOUS
  <1>2. /\ r \in Seq(Ops) /\ Len(r) = Len(q) - 1 /\ Len(q) \in Nat /\ Len(q) >= 1
        /\ \A p \in 1..Len(r) : r[p] = q[p + 1] /\ p + 1 \in 1..Len(q)
    BY <1>1, TailShape
  <1>3. CASE r = << >>
    <2>1. Len(q) = 1
      BY <1>2, <1>3
    <2> QED BY <1>1, <1>3, <2>1 DEF Path
  <1>4. CASE r # << >>
    <2>1. 1 \in 1..Len(r) /\ 2 \in 2..Len(q) /\ 2 - 1 = 1 /\ r[1] = q[2]
      BY <1>2, <1>4
    <2>2. Succeeds(j, q[1], q[2]) /\ (q[2] = "purgeSnap" => 2 < Len(q))
      BY <2>1 DEF Path, Chain
    <2> QED BY <1>1, <1>2, <1>4, <2>1, <2>2
  <1> QED BY <1>1, <1>3, <1>4

LEMMA PathJoin ==
  ASSUME NEW j, NEW s \in Seq(Ops), s # << >>, NEW r \in Seq(Ops), Chain(j, s), Path(j, r),
         IF r = << >> THEN s[Len(s)] \notin Halfway(j)
         ELSE Succeeds(j, s[Len(s)], r[1]) /\ (r[1] = "purgeSnap" => Len(r) >= 2)
  PROVE  s \o r \in Seq(Ops) /\ Path(j, s \o r) /\ s \o r # << >> /\ (s \o r)[1] = s[1]
  <1>1. PICK q : q = s \o r
    OBVIOUS
  <1>2. /\ q \in Seq(Ops) /\ Len(q) = Len(s) + Len(r) /\ Len(s) \in Nat /\ Len(r) \in Nat /\ Len(s) >= 1
        /\ \A i \in 1..Len(s) + Len(r) : q[i] = IF i <= Len(s) THEN s[i] ELSE r[i - Len(s)]
    BY <1>1, ConcatProperties
  <1>3. ASSUME NEW p \in 2..Len(q)
        PROVE  Succeeds(j, q[p - 1], q[p]) /\ (q[p] = "purgeSnap" => p < Len(q))
    <2>1. CASE p <= Len(s)
      <3>1. p \in 2..Len(s) /\ q[p - 1] = s[p - 1] /\ q[p] = s[p]
        BY <1>2, <2>1
      <3> QED BY <1>2, <3>1 DEF Chain
    <2>2. CASE p = Len(s) + 1
      <3>1. q[p - 1] = s[Len(s)] /\ q[p] = r[1] /\ r # << >> /\ Len(r) >= 1
        BY <1>2, <2>2
      <3> QED BY <1>2, <2>2, <3>1
    <2>3. CASE p > Len(s) + 1
      <3>1. PICK i \in 2..Len(r) : i = p - Len(s)
        <4>1. p - Len(s) \in 2..Len(r)
          BY <1>2, <2>3
        <4> QED BY <4>1
      <3>2. q[p - 1] = r[i - 1] /\ q[p] = r[i]
        <4>1. /\ p \in 1..Len(s) + Len(r) /\ ~(p <= Len(s)) /\ p - 1 \in 1..Len(s) + Len(r)
              /\ ~(p - 1 <= Len(s)) /\ (p - 1) - Len(s) = i - 1
          BY <1>2, <2>3, <3>1
        <4> QED BY <1>2, <3>1, <4>1
      <3> QED BY <1>2, <3>1, <3>2 DEF Path, Chain
    <2> QED BY <1>2, <2>1, <2>2, <2>3
  <1>4. q[Len(q)] \notin Halfway(j)
    <2>1. CASE r = << >>
      <3>1. Len(q) = Len(s) /\ q[Len(q)] = s[Len(s)]
        BY <1>2, <2>1
      <3> QED BY <2>1, <3>1
    <2>2. CASE r # << >>
      <3>1. q[Len(q)] = r[Len(r)]
        BY <1>2, <2>2
      <3> QED BY <2>2, <3>1 DEF Path
    <2> QED BY <2>1, <2>2
  <1> QED BY <1>1, <1>2, <1>3, <1>4 DEF Path, Chain

LEMMA ShortPaths ==
  ASSUME NEW j, NEW a \in Ops, NEW b \in Ops, Succeeds(j, a, b), b # "purgeSnap"
  PROVE  /\ <<a, b>> \in Seq(Ops) /\ <<a, b>> # << >> /\ Len(<<a, b>>) = 2
         /\ <<a, b>>[1] = a /\ <<a, b>>[2] = b /\ Chain(j, <<a, b>>)
         /\ b \notin Halfway(j) => Path(j, <<a, b>>)
  <1>1. PICK q : q = <<a, b>>
    OBVIOUS
  <1>2. q \in Seq(Ops) /\ q # << >> /\ Len(q) = 2 /\ q[1] = a /\ q[2] = b
    BY <1>1
  <1>3. Chain(j, q)
    <2> SUFFICES ASSUME NEW p \in 2..Len(q)
                 PROVE  Succeeds(j, q[p - 1], q[p]) /\ (q[p] = "purgeSnap" => p < Len(q))
      BY DEF Chain
    <2>1. p = 2 /\ q[p - 1] = a /\ q[p] = b
      BY <1>2
    <2> QED BY <2>1
  <1> QED BY <1>1, <1>2, <1>3 DEF Path

LEMMA OnePath ==
  ASSUME NEW j, NEW a \in Ops, a \notin Halfway(j)
  PROVE  <<a>> \in Seq(Ops) /\ <<a>> # << >> /\ <<a>>[1] = a /\ Path(j, <<a>>)
  <1>1. PICK q : q = <<a>>
    OBVIOUS
  <1>2. q \in Seq(Ops) /\ q # << >> /\ Len(q) = 1 /\ q[1] = a /\ 2..1 = {}
    BY <1>1
  <1> QED BY <1>1, <1>2 DEF Path, Chain

LEMMA SubmissionPath ==
  ASSUME NEW j
  PROVE  /\ Path(j, Submission) /\ Submission[1] = "enqueue"
         /\ \A a \in {"bind", "mark"} : Path(j, <<a>> \o Submission) /\ (<<a>> \o Submission)[1] = a
  <1>1. Path(j, Submission) /\ Submission[1] = "enqueue" /\ Submission \in Seq(Ops) /\ Submission # << >>
    <2>1. "enqueue" \in Ops /\ "submit" \in Ops
      BY DEF Ops
    <2> QED BY <2>1, ShortPaths DEF Submission, Succeeds, Halfway
  <1>2. ASSUME NEW a \in {"bind", "mark"}
        PROVE  Path(j, <<a>> \o Submission) /\ (<<a>> \o Submission)[1] = a
    <2>1. PICK s : s = <<a>>
      OBVIOUS
    <2>2. s \in Seq(Ops) /\ s # << >> /\ Len(s) = 1 /\ s[1] = a /\ s[Len(s)] = a /\ 2..1 = {}
      BY <2>1 DEF Ops
    <2>3. Chain(j, s)
      BY <2>2 DEF Chain
    <2>4. Succeeds(j, s[Len(s)], Submission[1])
      BY <1>1, <2>2 DEF Succeeds
    <2>5. Submission # << >> /\ Submission[1] # "purgeSnap"
      BY <1>1
    <2>6. Path(j, s \o Submission) /\ (s \o Submission)[1] = s[1]
      BY <1>1, <2>2, <2>3, <2>4, <2>5, PathJoin
    <2> QED BY <2>1, <2>2, <2>6
  <1> QED BY <1>1, <1>2

LEMMA MetaPath ==
  ASSUME NEW q, q = [i \in 1..2 * Algos |-> Submission[IF i % 2 = 1 THEN 1 ELSE 2]]
  PROVE  /\ \A j : j.type = "META" => Path(j, q)
         /\ q[1] = "enqueue" /\ \A p \in 1..Len(q) : q[p] \in {"enqueue", "submit"}
  <1>1. Algos \in Nat /\ Algos >= 1 /\ 2 * Algos \in Nat
    BY LifecycleAssumption
  <1>2. \A i \in Int : i % 2 = 0 \/ i % 2 = 1
    OBVIOUS
  <1>3. Submission[1] = "enqueue" /\ Submission[2] = "submit"
    BY DEF Submission
  <1>4. /\ \A i \in 1..2 * Algos : q[i] = IF i % 2 = 1 THEN "enqueue" ELSE "submit"
        /\ Len(q) = 2 * Algos
    <2>1. \A i \in 1..2 * Algos : q[i] = IF i % 2 = 1 THEN "enqueue" ELSE "submit"
      BY <1>3
    <2> QED BY <1>1, <2>1
  <1>5. ASSUME NEW j, j.type = "META" PROVE Chain(j, q)
    <2> SUFFICES ASSUME NEW p \in 2..Len(q)
                 PROVE  Succeeds(j, q[p - 1], q[p]) /\ (q[p] = "purgeSnap" => p < Len(q))
      BY DEF Chain
    <2>1. p \in 1..2 * Algos /\ p - 1 \in 1..2 * Algos
      BY <1>1, <1>4
    <2>2. CASE p % 2 = 1
      <3>1. (p - 1) % 2 = 0
        BY <2>1, <2>2
      <3>2. q[p] = "enqueue" /\ q[p - 1] = "submit"
        BY <1>4, <2>1, <2>2, <3>1
      <3> QED BY <1>5, <3>2 DEF Succeeds
    <2>3. CASE p % 2 # 1
      <3>1. (p - 1) % 2 = 1
        BY <2>1, <2>3
      <3>2. q[p] = "submit" /\ q[p - 1] = "enqueue"
        BY <1>4, <2>1, <2>3, <3>1
      <3> QED BY <3>2 DEF Succeeds
    <2> QED BY <2>2, <2>3
  <1>6. q[Len(q)] = "submit" /\ q[1] = "enqueue"
    <2>1. (2 * Algos) % 2 = 0 /\ 2 * Algos \in 1..2 * Algos /\ 1 % 2 = 1 /\ 1 \in 1..2 * Algos
      BY <1>1
    <2> QED BY <1>4, <2>1
  <1>7. \A p \in 1..Len(q) : q[p] \in {"enqueue", "submit"}
    BY <1>4
  <1>8. \A j : q[Len(q)] \notin Halfway(j)
    <2>1. \A j : "submit" \notin Halfway(j)
      BY DEF Halfway
    <2> QED BY <1>6, <2>1
  <1> QED BY <1>5, <1>6, <1>7, <1>8 DEF Path

LEMMA CancelPath ==
  ASSUME NEW j
  PROVE  /\ Path(j, CancelOps) /\ CancelOps[1] = "parserCancel"
         /\ j.type = "ADD" => LET q == CancelOps \o <<"purgeRel", "purgeSnap", "purgeSync">>
                              IN  Path(j, q) /\ q[1] = "parserCancel"
  <1>1. /\ CancelOps \in Seq(Ops) /\ CancelOps # << >> /\ Len(CancelOps) = 2
        /\ CancelOps[1] = "parserCancel" /\ CancelOps[2] = "cancelRead"
        /\ Chain(j, CancelOps) /\ Path(j, CancelOps)
    <2>1. "parserCancel" \in Ops /\ "cancelRead" \in Ops
      BY DEF Ops
    <2> QED BY <2>1, ShortPaths DEF CancelOps, Succeeds, Halfway
  <1>2. ASSUME j.type = "ADD", NEW q, q = CancelOps \o <<"purgeRel", "purgeSnap", "purgeSync">>
        PROVE  Path(j, q) /\ q[1] = "parserCancel"
    <2>1. PICK r : r = <<"purgeRel", "purgeSnap", "purgeSync">>
      OBVIOUS
    <2>2. r \in Seq(Ops) /\ Len(r) = 3 /\ r[1] = "purgeRel" /\ r[2] = "purgeSnap" /\ r[3] = "purgeSync"
      BY <2>1 DEF Ops
    <2>3. Path(j, r)
      <3>1. ASSUME NEW p \in 2..Len(r)
            PROVE  Succeeds(j, r[p - 1], r[p]) /\ (r[p] = "purgeSnap" => p < Len(r))
        <4>1. \/ p = 2 /\ r[p - 1] = "purgeRel" /\ r[p] = "purgeSnap"
              \/ p = 3 /\ r[p - 1] = "purgeSnap" /\ r[p] = "purgeSync"
          BY <2>2
        <4> QED BY <2>2, <4>1 DEF Succeeds
      <3> QED BY <2>2, <3>1 DEF Path, Chain, Halfway
    <2>4. r # << >> /\ Succeeds(j, CancelOps[Len(CancelOps)], r[1])
      BY <1>1, <1>2, <2>2 DEF Succeeds
    <2> QED BY <1>1, <1>2, <2>1, <2>2, <2>3, <2>4, PathJoin
  <1> QED BY <1>1, <1>2

LEMMA FailPath ==
  ASSUME NEW j, j.type \in Types, j.status = None
  PROVE  Path(j, FailOps(j.type)) /\ FailOps(j.type)[1] = "failTask"
  <1>1. PICK s : s = <<"failTask", "failSnap">>
    OBVIOUS
  <1>2. /\ s \in Seq(Ops) /\ s # << >> /\ Len(s) = 2 /\ s[1] = "failTask" /\ s[2] = "failSnap"
        /\ s[Len(s)] = "failSnap" /\ Chain(j, s)
    BY <1>1, ShortPaths DEF Ops, Succeeds
  <1>3. PICK r : r = (CASE j.type = "ADD" -> <<"failDoc">>
                        [] j.type = "DELETE" -> <<"count", "afterDelete">>
                        [] OTHER -> << >>)
    OBVIOUS
  <1>4. FailOps(j.type) = s \o r
    BY <1>1, <1>3 DEF FailOps
  <1>5. CASE j.type = "ADD"
    <2>1. r = <<"failDoc">>
      BY <1>3, <1>5
    <2>2. r \in Seq(Ops) /\ r # << >> /\ r[1] = "failDoc" /\ Path(j, r)
      BY <1>5, <2>1, OnePath DEF Ops, Halfway
    <2>3. Succeeds(j, s[Len(s)], r[1]) /\ r[1] # "purgeSnap"
      BY <1>2, <1>4, <1>5, <2>2 DEF Succeeds
    <2>4. Path(j, s \o r) /\ (s \o r)[1] = s[1] /\ s \o r \in Seq(Ops) /\ s \o r # << >>
      BY <1>2, <2>2, <2>3, PathJoin
    <2> QED BY <1>2, <1>4, <1>5, <2>4
  <1>6. CASE j.type = "DELETE"
    <2>1. r = <<"count", "afterDelete">>
      BY <1>3, <1>6
    <2>2. r \in Seq(Ops) /\ r # << >> /\ r[1] = "count" /\ Path(j, r)
      BY <2>1, ShortPaths DEF Ops, Succeeds, Halfway, None
    <2>3. Succeeds(j, s[Len(s)], r[1]) /\ r[1] # "purgeSnap"
      BY <1>2, <1>4, <1>6, <2>2 DEF Succeeds
    <2>4. Path(j, s \o r) /\ (s \o r)[1] = s[1] /\ s \o r \in Seq(Ops) /\ s \o r # << >>
      BY <1>2, <2>2, <2>3, PathJoin
    <2> QED BY <1>2, <1>4, <1>6, <2>4
  <1>7. CASE j.type \notin {"ADD", "DELETE"}
    <2>1. r = << >>
      BY <1>3, <1>7
    <2>2. r \in Seq(Ops) /\ Path(j, r) /\ s[Len(s)] \notin Halfway(j)
      BY <1>2, <1>7, <2>1, EmptyPath DEF Halfway
    <2>3. s \o r = s /\ Path(j, s)
      BY <1>2, <2>1, <2>2, ConcatEmptySeq DEF Path
    <2> QED BY <1>2, <1>4, <2>3
  <1> QED BY <1>5, <1>6, <1>7

LEMMA StartPath ==
  ASSUME NEW j, j.type \in Types, j.status = "WORKING"
  PROVE  Path(j, StartOps(j.type)) /\ StartOps(j.type)[1] = "startTask"
  <1>1. PICK s : s = <<"startTask", "startSnap">>
    OBVIOUS
  <1>2. /\ s \in Seq(Ops) /\ s # << >> /\ Len(s) = 2 /\ s[1] = "startTask" /\ s[2] = "startSnap"
        /\ s[Len(s)] = "startSnap" /\ Chain(j, s)
    BY <1>1, ShortPaths DEF Ops, Succeeds
  <1>3. PICK r : r = (CASE j.type = "ADD" -> <<"startDoc">>
                        [] j.type = "DELETE" -> <<"count", "markDeleting">>
                        [] OTHER -> << >>)
    OBVIOUS
  <1>4. StartOps(j.type) = s \o r
    BY <1>1, <1>3 DEF StartOps
  <1>5. CASE j.type = "ADD"
    <2>1. r = <<"startDoc">>
      BY <1>3, <1>5
    <2>2. r \in Seq(Ops) /\ r # << >> /\ r[1] = "startDoc" /\ Path(j, r)
      BY <1>5, <2>1, OnePath DEF Ops, Halfway
    <2>3. Succeeds(j, s[Len(s)], r[1]) /\ r[1] # "purgeSnap"
      BY <1>2, <1>4, <1>5, <2>2 DEF Succeeds
    <2>4. Path(j, s \o r) /\ (s \o r)[1] = s[1] /\ s \o r \in Seq(Ops) /\ s \o r # << >>
      BY <1>2, <2>2, <2>3, PathJoin
    <2> QED BY <1>2, <1>4, <1>5, <2>4
  <1>6. CASE j.type = "DELETE"
    <2>1. r = <<"count", "markDeleting">>
      BY <1>3, <1>6
    <2>2. r \in Seq(Ops) /\ r # << >> /\ r[1] = "count" /\ Path(j, r)
      BY <2>1, ShortPaths DEF Ops, Succeeds, Halfway
    <2>3. Succeeds(j, s[Len(s)], r[1]) /\ r[1] # "purgeSnap"
      BY <1>2, <1>4, <1>6, <2>2 DEF Succeeds
    <2>4. Path(j, s \o r) /\ (s \o r)[1] = s[1] /\ s \o r \in Seq(Ops) /\ s \o r # << >>
      BY <1>2, <2>2, <2>3, PathJoin
    <2> QED BY <1>2, <1>4, <1>6, <2>4
  <1>7. CASE j.type \notin {"ADD", "DELETE"}
    <2>1. r = << >>
      BY <1>3, <1>7
    <2>2. r \in Seq(Ops) /\ Path(j, r) /\ s[Len(s)] \notin Halfway(j)
      BY <1>2, <1>7, <2>1, EmptyPath DEF Halfway
    <2>3. s \o r = s /\ Path(j, s)
      BY <1>2, <2>1, <2>2, ConcatEmptySeq DEF Path
    <2> QED BY <1>2, <1>4, <2>3
  <1> QED BY <1>5, <1>6, <1>7

LEMMA FinishPath ==
  ASSUME NEW j, j.type \in Types, j.status \in Outcomes
  PROVE  LET q == FinishOps(j.type, j.status) IN
         /\ q \in Seq(Ops) /\ Path(j, q) /\ q[1] = "finTask" /\ q # << >>
         /\ j.type = "ADD" => q[Len(q)] = "finDoc"
  <1>1. PICK s : s = <<"finTask", "finSnap">>
    OBVIOUS
  <1>2. /\ s \in Seq(Ops) /\ s # << >> /\ Len(s) = 2 /\ s[1] = "finTask" /\ s[2] = "finSnap"
        /\ s[Len(s)] = "finSnap" /\ Chain(j, s)
    BY <1>1, ShortPaths DEF Ops, Succeeds
  <1>3. PICK r : r = (CASE j.type = "ADD" -> <<"finDoc">>
         [] j.type = "DELETE" /\ j.status = "SUCCESS" -> <<"finUnbind", "count", "afterDelete">>
         [] j.type = "DELETE" /\ j.status # "SUCCESS" -> <<"count", "afterDelete">>
         [] OTHER -> << >>)
    OBVIOUS
  <1>4. FinishOps(j.type, j.status) = s \o r
    BY <1>1, <1>3 DEF FinishOps
  <1>5. CASE j.type = "ADD"
    <2>1. r = <<"finDoc">>
      BY <1>3, <1>5
    <2>2. r \in Seq(Ops) /\ r # << >> /\ r[1] = "finDoc" /\ Path(j, r) /\ Len(r) = 1
      BY <1>5, <2>1, OnePath DEF Ops, Halfway
    <2>3. PICK q : q = s \o r
      OBVIOUS
    <2>4. q \in Seq(Ops) /\ Path(j, q) /\ q # << >> /\ q[1] = "finTask"
      BY <1>2, <1>5, <2>2, <2>3, PathJoin DEF Succeeds
    <2>5. q[Len(q)] = "finDoc"
      <3>1. Len(q) = 3 /\ q[3] = r[1]
        <4>1. /\ Len(q) = Len(s) + Len(r)
              /\ \A i \in 1..Len(s) + Len(r) : q[i] = IF i <= Len(s) THEN s[i] ELSE r[i - Len(s)]
          BY <1>2, <2>2, <2>3, ConcatProperties
        <4>2. 3 \in 1..Len(s) + Len(r) /\ ~(3 <= Len(s)) /\ 3 - Len(s) = 1
          BY <1>2, <2>2
        <4> QED BY <1>2, <2>2, <4>1, <4>2
      <3> QED BY <2>2, <3>1
    <2> QED BY <1>4, <2>3, <2>4, <2>5
  <1>6. CASE j.type = "DELETE" /\ j.status # "SUCCESS"
    <2>1. r = <<"count", "afterDelete">>
      BY <1>3, <1>6
    <2>2. r \in Seq(Ops) /\ r # << >> /\ r[1] = "count" /\ Path(j, r)
      BY <2>1, ShortPaths DEF Ops, Succeeds, Halfway, Outcomes
    <2>3. Succeeds(j, s[Len(s)], r[1]) /\ r[1] # "purgeSnap"
      BY <1>2, <1>4, <1>6, <2>2 DEF Succeeds
    <2>4. Path(j, s \o r) /\ (s \o r)[1] = s[1] /\ s \o r \in Seq(Ops) /\ s \o r # << >>
      BY <1>2, <2>2, <2>3, PathJoin
    <2> QED BY <1>2, <1>4, <1>6, <2>4
  <1>7. CASE j.type = "DELETE" /\ j.status = "SUCCESS"
    <2>1. r = <<"finUnbind", "count", "afterDelete">>
      BY <1>3, <1>7
    <2>2. r \in Seq(Ops) /\ Len(r) = 3 /\ r[1] = "finUnbind" /\ r[2] = "count" /\ r[3] = "afterDelete"
      BY <2>1 DEF Ops
    <2>3. Path(j, r)
      <3>1. ASSUME NEW p \in 2..Len(r)
            PROVE  Succeeds(j, r[p - 1], r[p]) /\ (r[p] = "purgeSnap" => p < Len(r))
        <4>1. \/ p = 2 /\ r[p - 1] = "finUnbind" /\ r[p] = "count"
              \/ p = 3 /\ r[p - 1] = "count" /\ r[p] = "afterDelete"
          BY <2>2
        <4> QED BY <1>7, <4>1 DEF Succeeds
      <3> QED BY <2>2, <3>1 DEF Path, Chain, Halfway
    <2>4. r # << >> /\ Succeeds(j, s[Len(s)], r[1])
      BY <1>2, <1>7, <2>2 DEF Succeeds
    <2>5. r[1] # "purgeSnap"
      BY <2>2
    <2>6. Path(j, s \o r) /\ (s \o r)[1] = s[1] /\ s \o r \in Seq(Ops) /\ s \o r # << >>
      BY <1>2, <2>2, <2>3, <2>4, <2>5, PathJoin
    <2> QED BY <1>2, <1>4, <1>7, <2>6
  <1>8. CASE j.type \notin {"ADD", "DELETE"}
    <2>1. r = << >>
      BY <1>3, <1>8
    <2>2. r \in Seq(Ops) /\ Path(j, r) /\ s[Len(s)] \notin Halfway(j)
      BY <1>2, <1>8, <2>1, EmptyPath DEF Halfway
    <2>3. s \o r = s /\ Path(j, s)
      BY <1>2, <2>1, <2>2, ConcatEmptySeq DEF Path
    <2> QED BY <1>2, <1>4, <1>8, <2>3
  <1> QED BY <1>5, <1>6, <1>7, <1>8

\* A thread goes on from job j to job j2.
Leads(j, j2) ==
  /\ j2 = Idle \/ SameJob(j2, j)
  /\ j2.todo = Tail(j.todo)
  /\ IF j2 = Idle THEN Op(j) \notin Halfway(j)
     ELSE Succeeds(j, Op(j), Op(j2)) /\ (Op(j2) = "purgeSnap" => Len(j2.todo) >= 2)

LEMMA IdlePath == Path(Idle, Idle.todo) /\ Op(Idle) = None /\ \A op : ~Has(Idle, op)
  <1>1. Len(<< >>) = 0
    OBVIOUS
  <1> QED BY <1>1, IdleFits, EmptyPath DEF Op, Has

LEMMA OpIs ==
  ASSUME Typed, NEW h \in Threads
  PROVE  /\ job[h].todo # << >> => Op(job[h]) = job[h].todo[1]
         /\ job[h].todo = << >> => job[h] = Idle
         /\ Op(job[h]) # None => job[h].todo # << >> /\ Op(job[h]) \in Ops
         /\ \A op : Does(h, op) /\ op # None => Op(job[h]) = op
  <1>1. job[h].todo # << >> => job[h].todo[1] \in Ops /\ Head(job[h].todo) = job[h].todo[1]
    BY HeadIs
  <1>2. job[h].todo = << >> => job[h] = Idle
    BY JobTask DEF JobFits
  <1> QED BY <1>1, <1>2 DEF Op, Does

LEMMA OpBusy ==
  ASSUME NEW len, NEW j \in JobRec, JobFits(j, len)
  PROVE  j # Idle => j.todo # << >> /\ Op(j) = j.todo[1]
  BY DEF JobFits, Op

LEMMA Advance ==
  ASSUME Typed, NEW h \in Threads, Path(job[h], job[h].todo), job[h].todo # << >>,
         NEW j2 \in JobRec, JobFits(j2, Len(tasks)), Follows(j2, job[h])
  PROVE  Path(j2, j2.todo) /\ Leads(job[h], j2)
  <1>1. PICK j \in JobRec : j = job[h] /\ j.todo \in Seq(Ops) /\ Op(j) = j.todo[1]
    BY HeadIs, OpIs
  <1>2. Path(j, j.todo) /\ j2.todo = Tail(j.todo) /\ (j2 = Idle \/ SameJob(j2, j)) /\ j.todo # << >>
    BY <1>1 DEF Follows, SameJob
  <1>3. Path(j2, j2.todo)
    <2>1. CASE j2 = Idle
      BY <2>1, IdlePath
    <2>2. CASE SameJob(j2, j)
      BY <1>1, <1>2, <2>2, PathTail DEF SameJob
    <2> QED BY <1>2, <2>1, <2>2
  <1>4. IF Tail(j.todo) = << >> THEN j.todo[1] \notin Halfway(j) /\ Len(j.todo) = 1
        ELSE /\ Len(j.todo) >= 2 /\ Succeeds(j, j.todo[1], Tail(j.todo)[1])
             /\ Tail(j.todo)[1] = "purgeSnap" => Len(Tail(j.todo)) >= 2
    BY <1>1, <1>2, PathNext
  <1>5. CASE j2 = Idle
    <2>1. Tail(j.todo) = << >>
      BY <1>2, <1>5, IdleFits
    <2> QED BY <1>1, <1>2, <1>3, <1>4, <1>5, <2>1 DEF Leads
  <1>6. CASE j2 # Idle
    <2>1. Tail(j.todo) # << >> /\ Op(j2) = Tail(j.todo)[1]
      BY <1>2, <1>6, OpBusy
    <2> QED BY <1>1, <1>2, <1>3, <1>4, <1>6, <2>1 DEF Leads
  <1> QED BY <1>5, <1>6

\* Operations after which the list goes on.
LEMMA GoesOn ==
  ASSUME Typed, Paths, NEW h \in Threads,
         \/ Bind(h) \/ WriteTask(h) \/ WriteSnap(h) \/ WriteDoc(h) \/ WriteDeletedDoc(h)
         \/ Count(h) \/ Unbind(h) \/ PurgeSnap(h) \/ PurgeSync(h)
  PROVE  /\ job[h].todo # << >>
         /\ \E j2 \in JobRec : /\ job' = [job EXCEPT ![h] = j2] /\ JobFits(j2, Len(tasks))
                               /\ Path(j2, j2.todo) /\ Leads(job[h], j2)
  <1>1. job[h].todo # << >>
    BY DEF Does, Bind, WriteTask, WriteSnap, WriteDoc, WriteDeletedDoc, Count, Unbind, PurgeSnap, PurgeSync
  <1>2. PICK j2 \in JobRec : /\ job' = [job EXCEPT ![h] = j2] /\ JobFits(j2, Len(tasks))
                             /\ Follows(j2, job[h])
    <2>1. CASE WriteTask(h) \/ WriteSnap(h)
      BY <2>1, WriteTyped
    <2>2. CASE \/ Bind(h) \/ WriteDoc(h) \/ WriteDeletedDoc(h) \/ Unbind(h) \/ PurgeSnap(h) \/ PurgeSync(h)
      <3>1. GoOn(h) /\ 0 \in Counts
        BY <2>2 DEF Bind, WriteDoc, WriteDeletedDoc, Unbind, PurgeSnap, PurgeSync, Counts
      <3>2. job[h].todo[1] # "enqueue"
        BY <2>2, DoesHead DEF Bind, WriteDoc, WriteDeletedDoc, Unbind, PurgeSnap, PurgeSync
      <3> QED BY <1>1, <3>1, <3>2, GoOnFits
    <2>3. CASE Count(h)
      <3>1. /\ GoOnWith(h, [job[h] EXCEPT !.n = Cardinality(bound)], Tail(job[h].todo))
            /\ Cardinality(bound) \in Counts
        BY <2>3 DEF Count, Counts, Typed, RowsFit
      <3>2. job[h].todo[1] # "enqueue"
        BY <2>3, DoesHead DEF Count
      <3> QED BY <1>1, <3>1, <3>2, GoOnFits
    <2> QED BY <2>1, <2>2, <2>3
  <1>3. Path(j2, j2.todo) /\ Leads(job[h], j2)
    BY <1>1, <1>2, Advance DEF Paths
  <1> QED BY <1>1, <1>2, <1>3

LEMMA MarkJob ==
  ASSUME Typed, Paths, NEW h \in Threads, Mark(h)
  PROVE  /\ Op(job[h]) = "mark" /\ job[h].todo # << >>
         /\ \E j2 \in JobRec : /\ job' = [job EXCEPT ![h] = j2] /\ JobFits(j2, Len(tasks))
                               /\ Path(j2, j2.todo)
                               /\ j2 = Idle \/ (Leads(job[h], j2) /\ Op(j2) = "enqueue")
  <1>1. Op(job[h]) = "mark" /\ job[h].todo # << >> /\ job[h].todo[1] = "mark"
    BY OpIs, DoesHead DEF Mark, None
  <1>2. CASE GoOnWith(h, Idle, << >>)
    <2>1. job' = [job EXCEPT ![h] = Idle]
      BY <1>2 DEF GoOnWith
    <2> QED BY <1>1, <2>1, IdleFits, IdlePath
  <1>3. CASE GoOn(h)
    <2>1. 0 \in Counts
      BY DEF Counts
    <2>2. PICK j2 \in JobRec : /\ job' = [job EXCEPT ![h] = j2] /\ JobFits(j2, Len(tasks))
                               /\ Follows(j2, job[h])
      BY <1>1, <1>3, <2>1, GoOnFits
    <2>3. Path(j2, j2.todo) /\ Leads(job[h], j2)
      BY <1>1, <2>2, Advance DEF Paths
    <2>4. j2 = Idle \/ Op(j2) = "enqueue"
      BY <1>1, <2>3 DEF Leads, Succeeds
    <2> QED BY <1>1, <2>2, <2>3, <2>4
  <1> QED BY <1>2, <1>3 DEF Mark

LEMMA EnqueueJob ==
  ASSUME Typed, Paths, NEW h \in Threads, Enqueue(h)
  PROVE  /\ Op(job[h]) = "enqueue" /\ job[h].todo # << >> /\ job[h].status = None
         /\ \E j2 \in JobRec :
              /\ job' = [job EXCEPT ![h] = j2] /\ JobFits(j2, Len(tasks) + 1) /\ Path(j2, j2.todo)
              /\ j2.kb = job[h].kb /\ j2.type = job[h].type /\ j2.task = Len(tasks) + 1
              /\ j2.status = None /\ ~j2.posted /\ j2.todo = Tail(job[h].todo) /\ Op(j2) = "submit"
  <1>1. Op(job[h]) = "enqueue" /\ job[h].todo # << >> /\ job[h].todo[1] = "enqueue"
    BY OpIs, DoesHead DEF Enqueue, None
  <1>2. PICK j2 \in JobRec :
          /\ job' = [job EXCEPT ![h] = j2] /\ JobFits(j2, Len(tasks) + 1)
          /\ j2.kb = job[h].kb /\ j2.type = job[h].type /\ j2.task = Len(tasks) + 1
          /\ j2.status = None /\ ~j2.posted /\ j2.todo = Tail(job[h].todo) /\ j2.todo[1] = "submit"
    BY EnqueueTyped
  <1>3. job[h].status = None /\ job[h].todo \in Seq(Ops) /\ Path(job[h], job[h].todo)
    <2>1. Told(job[h]) /\ 1 \in 1..Len(job[h].todo) /\ job[h].todo \in Seq(Ops)
      BY <1>1, HeadIs
    <2> QED BY <1>1, <2>1 DEF Told, Asking, Paths
  <1>4. Path(j2, j2.todo)
    BY <1>1, <1>2, <1>3, PathTail
  <1>5. Op(j2) = "submit"
    <2>1. j2 # Idle
      BY <1>2, Shape, IdleFits
    <2> QED BY <1>2, <2>1, OpBusy
  <1> QED BY <1>1, <1>2, <1>3, <1>4, <1>5

LEMMA SubmitJob ==
  ASSUME Typed, Paths, NEW h \in Threads, Submit(h)
  PROVE  /\ Op(job[h]) = "submit" /\ job[h].todo # << >> /\ job[h].task \in 1..Len(tasks)
         /\ \E j2 \in JobRec :
              /\ job' = [job EXCEPT ![h] = j2] /\ JobFits(j2, Len(tasks)) /\ Path(j2, j2.todo)
              /\ \/ /\ Leads(job[h], j2) /\ stage' = [stage EXCEPT ![job[h].task] = "queued"]
                    /\ hurt' = hurt /\ troubles' = troubles
                 \/ /\ SameJob(j2, job[h]) /\ Op(j2) = "failTask" /\ troubles' = troubles + 1
                    /\ ~Has(j2, "purgeSnap")
                    /\ \/ stage' = stage /\ hurt' = hurt
                       \/ /\ stage' = [stage EXCEPT ![job[h].task] = "queued"]
                          /\ hurt' = hurt \cup {job[h].task}
  <1>1. /\ Op(job[h]) = "submit" /\ job[h].todo # << >> /\ job[h].todo[1] = "submit"
        /\ job[h].task \in 1..Len(tasks)
    BY SubmitTyped, OpIs
  <1>2. /\ job[h].status = None /\ job[h].posted = FALSE /\ job[h].type \in Types /\ job[h] \in JobRec
        /\ JobFits(job[h], Len(tasks)) /\ job[h].kb \in Kbs /\ Len(tasks) \in Nat
    <2>1. Told(job[h]) /\ 1 \in 1..Len(job[h].todo) /\ job[h] \in JobRec
      BY <1>1, HeadIs
    <2>2. job[h].posted \in BOOLEAN
      BY <2>1 DEF JobRec
    <2> QED BY <1>1, <2>1, <2>2, HeadIs DEF Told, Asking
  <1>3. CASE GoOn(h) /\ stage' = [stage EXCEPT ![job[h].task] = "queued"] /\ UNCHANGED mishaps
    <2>1. 0 \in Counts
      BY DEF Counts
    <2>2. PICK j2 \in JobRec : /\ job' = [job EXCEPT ![h] = j2] /\ JobFits(j2, Len(tasks))
                               /\ Follows(j2, job[h])
      BY <1>1, <1>3, <2>1, GoOnFits
    <2>3. Path(j2, j2.todo) /\ Leads(job[h], j2)
      BY <1>1, <2>2, Advance DEF Paths
    <2> QED BY <1>1, <1>3, <2>2, <2>3 DEF mishaps
  <1>4. CASE /\ \/ Trouble({}) /\ UNCHANGED stage
                \/ Trouble({job[h].task}) /\ stage' = [stage EXCEPT ![job[h].task] = "queued"]
             /\ GoOnWith(h, job[h], FailOps(job[h].type))
    <2>1. PICK j \in JobRec : j = job[h]
      BY <1>2
    <2>2. PICK q : q = FailOps(j.type)
      OBVIOUS
    <2>3. q \in Seq(Ops) /\ Writer(q, "failTask", "failSnap", FailRest) /\ Path(j, q) /\ q[1] = "failTask"
      BY <1>2, <2>1, <2>2, FailList, FailPath
    <2>4. q # << >> /\ Len(q) >= 2
      BY <2>3 DEF Writer
    <2>5. PICK j2 : j2 = [j EXCEPT !.todo = q]
      OBVIOUS
    <2>6. j2 \in JobRec /\ JobFits(j2, Len(tasks)) /\ SameJob(j2, j) /\ j2.todo = q
      BY <1>1, <1>2, <2>1, <2>3, <2>5, NewListFits
    <2>7. job' = [job EXCEPT ![h] = j2]
      BY <1>4, <2>1, <2>2, <2>4, <2>5 DEF GoOnWith
    <2>8. Path(j2, j2.todo) /\ Op(j2) = "failTask"
      <3>1. Path(j2, q)
        BY <2>3, <2>6 DEF Path, Chain, Halfway, Succeeds, SameJob
      <3> QED BY <2>3, <2>4, <2>6, <3>1 DEF Op
    <2>9. ~Has(j2, "purgeSnap")
      BY <2>3, <2>6 DEF Has, Writer, FailRest
    <2>10. /\ troubles' = troubles + 1
           /\ \/ stage' = stage /\ hurt' = hurt
              \/ stage' = [stage EXCEPT ![job[h].task] = "queued"] /\ hurt' = hurt \cup {job[h].task}
      BY <1>4 DEF Trouble
    <2> QED BY <1>1, <2>1, <2>6, <2>7, <2>8, <2>9, <2>10
  <1> QED BY <1>3, <1>4 DEF Submit

LEMMA ParserCancelJob ==
  ASSUME Typed, Paths, NEW h \in Threads, ParserCancel(h)
  PROVE  /\ Op(job[h]) = "parserCancel" /\ job[h].todo # << >> /\ job[h].task \in 1..Len(tasks)
         /\ \E j2 \in JobRec :
              /\ job' = [job EXCEPT ![h] = j2] /\ JobFits(j2, Len(tasks)) /\ Path(j2, j2.todo)
              /\ \/ j2 = Idle /\ stage' = stage
                 \/ /\ Leads(job[h], j2) /\ SameJob(j2, job[h]) /\ Op(j2) = "cancelRead"
                    /\ stage[job[h].task] = "queued"
                    /\ stage' = [stage EXCEPT ![job[h].task] = "canceled"]
  <1>1. /\ Op(job[h]) = "parserCancel" /\ job[h].todo # << >> /\ job[h].task \in 1..Len(tasks)
    BY ParserCancelTyped, OpIs
  <1>2. PICK j2 \in JobRec :
              /\ job' = [job EXCEPT ![h] = j2] /\ JobFits(j2, Len(tasks))
              /\ \/ j2 = Idle /\ stage' = stage
                 \/ /\ Follows(j2, job[h]) /\ stage[job[h].task] = "queued"
                    /\ stage' = [stage EXCEPT ![job[h].task] = "canceled"]
    BY ParserCancelTyped
  <1>3. CASE j2 = Idle /\ stage' = stage
    BY <1>1, <1>2, <1>3, IdlePath
  <1>4. CASE Follows(j2, job[h])
    <2>1. Path(j2, j2.todo) /\ Leads(job[h], j2)
      BY <1>1, <1>2, <1>4, Advance DEF Paths
    <2>2. SameJob(j2, job[h]) /\ Op(j2) = "cancelRead"
      BY <1>1, <2>1 DEF Leads, Succeeds, Halfway
    <2> QED BY <1>1, <1>2, <1>4, <2>1, <2>2, IdlePath
  <1> QED BY <1>2, <1>3, <1>4

\* What cancel_task has ahead after its own callback: nothing, or the purge.
LEMMA CancelRest ==
  ASSUME Typed, Paths, NEW h \in Threads, Op(job[h]) = "cancelRead", NEW r, r = Tail(job[h].todo)
  PROVE  /\ r \in Seq(Ops) /\ \A p \in 1..Len(r) : r[p] \in Purging
         /\ \A j2 : j2.type = job[h].type => Path(j2, r)
         /\ r # << >> => r[1] = "purgeRel" /\ job[h].type = "ADD"
  <1>1. PICK j \in JobRec : j = job[h]
    BY JobTask
  <1>2. /\ j.todo # << >> /\ j.todo[1] = "cancelRead" /\ j.todo \in Seq(Ops) /\ Ordered(j.todo, j.task)
        /\ Path(j, j.todo)
    BY <1>1, OpIs, HeadIs DEF None, Paths
  <1>3. /\ r \in Seq(Ops) /\ \A p \in 1..Len(r) : r[p] = j.todo[p + 1] /\ p + 1 \in 1..Len(j.todo)
    BY <1>1, <1>2, TailShape
  <1>4. r # << >> => r[1] = "purgeRel" /\ j.type = "ADD"
    <2>1. r # << >> => Succeeds(j, j.todo[1], r[1])
      BY <1>1, <1>2, PathNext
    <2> QED BY <1>2, <2>1 DEF Succeeds
  <1>5. ASSUME NEW p \in 1..Len(r) PROVE r[p] \in Purging
    <2>1. 1 \in 1..Len(j.todo)
      BY <1>2, <1>3
    <2>2. r[p] \in Canceling \cup Purging
      BY <1>2, <1>3, <2>1 DEF Ordered, Canceling
    <2>3. r[p] # "parserCancel" /\ r[p] # "cancelRead"
      <3>1. j.todo[p + 1] = r[p] /\ p + 1 \in 1..Len(j.todo) /\ p + 1 # 1 /\ Len(j.todo) \in Nat
        BY <1>2, <1>3
      <3>2. Pair(j.todo, "parserCancel", "cancelRead")
        BY <1>2 DEF Ordered
      <3>3. r[p] # "parserCancel"
        BY <3>1, <3>2 DEF Pair
      <3>4. r[p] # "cancelRead"
        BY <1>2, <3>1, <3>2 DEF Pair
      <3> QED BY <3>3, <3>4
    <2> QED BY <2>2, <2>3 DEF Canceling
  <1>6. ASSUME NEW j2, j2.type = j.type PROVE Path(j2, r)
    <2>1. PICK j3 : j3 = [type |-> j.type, status |-> j.status]
      OBVIOUS
    <2>2. Path(j, r)
      BY <1>1, <1>2, PathTail
    <2>3. ASSUME NEW p \in 2..Len(r)
          PROVE  Succeeds(j2, r[p - 1], r[p]) /\ (r[p] = "purgeSnap" => p < Len(r))
      <3>1. p - 1 \in 1..Len(r)
        BY <1>3
      <3>2. r[p - 1] \in Purging
        BY <1>5, <3>1
      <3>3. Succeeds(j, r[p - 1], r[p]) /\ (r[p] = "purgeSnap" => p < Len(r))
        BY <2>2 DEF Path, Chain
      <3> QED BY <3>2, <3>3 DEF Succeeds, Purging
    <2> QED BY <1>6, <2>2, <2>3 DEF Path, Chain, Halfway
  <1> QED BY <1>1, <1>3, <1>4, <1>5, <1>6

LEMMA CancelReadJob ==
  ASSUME Typed, Paths, NEW h \in Threads, CancelRead(h)
  PROVE  /\ Op(job[h]) = "cancelRead" /\ job[h].todo # << >> /\ job[h].task \in 1..Len(tasks)
         /\ \E j2 \in JobRec :
              /\ job' = [job EXCEPT ![h] = j2] /\ JobFits(j2, Len(tasks)) /\ Path(j2, j2.todo)
              /\ \/ j2 = Idle
                 \/ /\ j2.kb = job[h].kb /\ j2.type = job[h].type /\ j2.task = job[h].task
                    /\ j2.status = "CANCELED" /\ ~j2.posted
              /\ Has(j2, "purgeSnap") => Has(job[h], "purgeSnap")
              /\ \/ /\ Ignored(job[h].task, "CANCELED")
                    /\ j2 = Idle \/ Op(j2) = "purgeRel"
                 \/ ~Ignored(job[h].task, "CANCELED") /\ Op(j2) = "finTask"
  <1>1. /\ Op(job[h]) = "cancelRead" /\ job[h].todo # << >> /\ job[h].task \in 1..Len(tasks)
    BY CancelReadTyped, OpIs
  <1>2. PICK j2 \in JobRec :
              /\ job' = [job EXCEPT ![h] = j2] /\ JobFits(j2, Len(tasks))
              /\ \/ j2 = Idle
                 \/ /\ j2.kb = job[h].kb /\ j2.type = job[h].type /\ j2.task = job[h].task
                    /\ j2.status = "CANCELED" /\ ~j2.posted
              /\ \/ /\ Ignored(job[h].task, "CANCELED")
                    /\ \A p \in 1..Len(j2.todo) : j2.todo[p] \in Purging
                 \/ /\ ~Ignored(job[h].task, "CANCELED")
                    /\ Writer(j2.todo, "finTask", "finSnap", FinishRest \cup Purging)
    BY CancelReadTyped
  <1>3. PICK j \in JobRec : j = job[h]
    BY JobTask
  <1>4. /\ j.todo # << >> /\ j.todo[1] = "cancelRead" /\ j.todo \in Seq(Ops) /\ j.type \in Types
        /\ j.status = None /\ j.task # 0 /\ Len(tasks) \in Nat
    <2>1. Told(j) /\ 1 \in 1..Len(j.todo) /\ j.todo[1] = "cancelRead"
      BY <1>1, <1>3, HeadIs, OpIs
    <2> QED BY <1>1, <1>3, <2>1, HeadIs DEF Told, Canceling
  <1>5. PICK r : r = Tail(j.todo)
    OBVIOUS
  <1>6. /\ r \in Seq(Ops) /\ \A p \in 1..Len(r) : r[p] \in Purging
        /\ \A j3 : j3.type = j.type => Path(j3, r)
        /\ r # << >> => r[1] = "purgeRel" /\ j.type = "ADD"
    BY <1>1, <1>3, <1>5, CancelRest
  <1>7. \A p \in 1..Len(r) : r[p] = j.todo[p + 1] /\ p + 1 \in 1..Len(j.todo)
    BY <1>4, <1>5, TailShape
  <1>8. PICK s : s = IF Ignored(j.task, "CANCELED") THEN << >> ELSE FinishOps(j.type, "CANCELED")
    OBVIOUS
  <1>9. job'[h] = IF s \o r = << >> THEN Idle ELSE [j EXCEPT !.status = "CANCELED", !.todo = s \o r]
    <2>1. GoOnWith(h, [j EXCEPT !.status = "CANCELED"], s \o r)
      BY <1>3, <1>5, <1>8 DEF CancelRead
    <2> QED BY <1>3, <2>1, Shape DEF GoOnWith
  <1>10. job'[h] = j2
    BY <1>2, OneJob
  <1>11. j2.todo = s \o r
    <2>1. [j EXCEPT !.status = "CANCELED", !.todo = s \o r].todo = s \o r
      BY DEF JobRec
    <2> QED BY <1>9, <1>10, <2>1, IdleFits
  <1>12. CASE Ignored(j.task, "CANCELED")
    <2>1. s \o r = r
      BY <1>6, <1>8, <1>12
    <2>2. Path(j2, j2.todo) /\ (j2 = Idle \/ Op(j2) = "purgeRel")
      <3>1. CASE j2 = Idle
        BY <3>1, IdlePath
      <3>2. CASE j2 # Idle
        <4>1. j2.todo # << >> /\ Op(j2) = j2.todo[1] /\ j2.type = j.type
          BY <1>2, <1>3, <3>2, OpBusy
        <4> QED BY <1>6, <1>11, <2>1, <4>1
      <3> QED BY <3>1, <3>2
    <2>3. Has(j2, "purgeSnap") => Has(job[h], "purgeSnap")
      BY <1>3, <1>6, <1>7, <1>11, <2>1 DEF Has, Purging
    <2> QED BY <1>1, <1>2, <1>3, <1>12, <2>2, <2>3
  <1>13. CASE ~Ignored(j.task, "CANCELED")
    <2>1. j2 # Idle /\ j2.type = j.type /\ j2.status = "CANCELED"
      <3>1. Writer(j2.todo, "finTask", "finSnap", FinishRest \cup Purging)
        BY <1>2, <1>3, <1>13
      <3>2. j2 # Idle
        BY <3>1, IdleFits DEF Writer
      <3> QED BY <1>2, <1>3, <3>2
    <2>2. /\ s \in Seq(Ops) /\ Path(j2, s) /\ s[1] = "finTask" /\ s # << >>
          /\ j2.type = "ADD" => s[Len(s)] = "finDoc"
          /\ Writer(s, "finTask", "finSnap", FinishRest)
      <3>1. s = FinishOps(j2.type, j2.status) /\ j2.type \in Types /\ j2.status \in Outcomes
        BY <1>4, <1>8, <1>13, <2>1 DEF Outcomes
      <3> QED BY <3>1, FinishPath, FinishList
    <2>3. r \in Seq(Ops) /\ Path(j2, r) /\ Chain(j2, s)
      BY <1>6, <2>1, <2>2 DEF Path
    <2>4. IF r = << >> THEN s[Len(s)] \notin Halfway(j2)
          ELSE Succeeds(j2, s[Len(s)], r[1]) /\ (r[1] = "purgeSnap" => Len(r) >= 2)
      <3>1. r # << >> => Succeeds(j2, s[Len(s)], r[1]) /\ r[1] # "purgeSnap"
        BY <1>6, <2>1, <2>2 DEF Succeeds
      <3> QED BY <2>2, <3>1 DEF Path
    <2>5. Path(j2, s \o r) /\ s \o r # << >> /\ (s \o r)[1] = s[1]
      BY <2>2, <2>3, <2>4, PathJoin
    <2>6. Path(j2, j2.todo) /\ Op(j2) = "finTask"
      BY <1>11, <2>2, <2>5 DEF Op
    <2>7. ASSUME NEW op, op = "purgeSnap", Has(j2, op) PROVE Has(job[h], "purgeSnap")
      <3>1. PICK p \in 1..Len(s \o r) : (s \o r)[p] = op
        BY <1>11, <2>7 DEF Has
      <3>2. /\ Len(s \o r) = Len(s) + Len(r) /\ Len(s) \in Nat /\ Len(r) \in Nat
            /\ (s \o r)[p] = IF p <= Len(s) THEN s[p] ELSE r[p - Len(s)]
        BY <1>6, <2>2, <3>1, ConcatProperties
      <3>3. ~(p <= Len(s))
        BY <2>2, <2>7, <3>1, <3>2 DEF Writer, FinishRest
      <3>4. p - Len(s) \in 1..Len(r) /\ r[p - Len(s)] = op
        BY <3>1, <3>2, <3>3
      <3> QED BY <1>3, <1>6, <1>7, <2>7, <3>4 DEF Has, Purging
    <2> QED BY <1>1, <1>2, <1>3, <1>13, <2>6, <2>7
  <1> QED BY <1>12, <1>13

\* What is ahead after a step was ahead before it.
LEMMA LeadsHas ==
  ASSUME NEW j \in JobRec, j.todo # << >>, NEW j2, Leads(j, j2), NEW op
  PROVE  (Has(j2, op) => Has(j, op)) /\ (Has(j, op) /\ Op(j) # op => Has(j2, op))
  <1>1. PICK r : r = Tail(j.todo)
    OBVIOUS
  <1>2. j.todo \in Seq(Ops) /\ j2.todo = r /\ Op(j) = j.todo[1]
    BY <1>1 DEF JobRec, Leads, Op
  <1>3. /\ Len(r) = Len(j.todo) - 1 /\ Len(j.todo) \in Nat /\ Len(j.todo) >= 1
        /\ \A p \in 1..Len(r) : r[p] = j.todo[p + 1] /\ p + 1 \in 1..Len(j.todo)
    BY <1>1, <1>2, TailShape
  <1>4. ASSUME NEW p \in 1..Len(j.todo), p # 1 PROVE r[p - 1] = j.todo[p] /\ p - 1 \in 1..Len(r)
    <2>1. p - 1 \in 1..Len(r) /\ (p - 1) + 1 = p
      BY <1>3, <1>4
    <2>2. r[p - 1] = j.todo[(p - 1) + 1]
      BY <1>3, <2>1
    <2> QED BY <2>1, <2>2
  <1> QED BY <1>2, <1>3, <1>4 DEF Has

LEMMA PurgeRelJob ==
  ASSUME Typed, Paths, NEW h \in Threads, PurgeRel(h)
  PROVE  /\ Op(job[h]) = "purgeRel" /\ job[h].todo # << >> /\ Has(job[h], "purgeSnap")
         /\ \E j2 \in JobRec :
              /\ job' = [job EXCEPT ![h] = j2] /\ Path(j2, j2.todo) /\ SameJob(j2, job[h])
              /\ Op(j2) = "purgeSnap" /\ (Len(j2.todo) >= 2 \/ upload' = None)
  <1>1. Op(job[h]) = "purgeRel" /\ job[h].todo # << >> /\ job[h].todo[1] = "purgeRel"
    BY OpIs, DoesHead DEF PurgeRel, None
  <1>2. PICK j \in JobRec : j = job[h]
    BY JobTask
  <1>3. PICK r : r = Tail(j.todo)
    OBVIOUS
  <1>4. j.todo \in Seq(Ops) /\ j.todo # << >> /\ j.todo[1] = "purgeRel" /\ Path(j, j.todo)
    BY <1>1, <1>2, HeadIs DEF Paths
  <1>5. r # << >> /\ r[1] = "purgeSnap" /\ Len(r) >= 2 /\ r \in Seq(Ops)
    <2>1. r # << >>
      BY <1>3, <1>4, PathNext DEF Halfway
    <2>2. Succeeds(j, j.todo[1], r[1]) /\ (r[1] = "purgeSnap" => Len(r) >= 2)
      BY <1>3, <1>4, <2>1, PathNext
    <2> QED BY <1>3, <1>4, <2>1, <2>2, TailShape DEF Succeeds
  <1>6. Has(job[h], "purgeSnap")
    <2>1. r[1] = j.todo[2] /\ 2 \in 1..Len(j.todo)
      BY <1>3, <1>4, <1>5, TailShape
    <2> QED BY <1>2, <1>5, <2>1 DEF Has
  <1>7. ASSUME NEW q, q = <<"purgeSnap">> \/ q = r, GoOnWith(h, job[h], q),
               Len(q) >= 2 \/ upload' = None
        PROVE  \E j2 \in JobRec :
                 /\ job' = [job EXCEPT ![h] = j2] /\ Path(j2, j2.todo) /\ SameJob(j2, job[h])
                 /\ Op(j2) = "purgeSnap" /\ (Len(j2.todo) >= 2 \/ upload' = None)
    <2>1. q \in Seq(Ops) /\ q # << >> /\ q[1] = "purgeSnap"
      <3>1. CASE q = <<"purgeSnap">>
        BY <3>1, OnePath DEF Ops, Halfway
      <3> QED BY <1>5, <1>7, <3>1
    <2>2. PICK j2 : j2 = [j EXCEPT !.todo = q]
      OBVIOUS
    <2>3. j2 \in JobRec /\ SameJob(j2, j) /\ j2.todo = q
      BY <2>1, <2>2 DEF JobRec, SameJob
    <2>4. Path(j2, q)
      <3>1. CASE q = <<"purgeSnap">>
        BY <3>1, OnePath DEF Ops, Halfway
      <3>2. CASE q = r
        BY <1>3, <1>4, <2>3, <3>2, PathTail DEF SameJob
      <3> QED BY <1>7, <3>1, <3>2
    <2>6. job' = [job EXCEPT ![h] = j2]
      BY <1>2, <1>7, <2>1, <2>2 DEF GoOnWith
    <2> QED BY <1>2, <1>7, <2>1, <2>3, <2>4, <2>6 DEF Op
  <1>8. \/ GoOnWith(h, job[h], <<"purgeSnap">>) /\ upload' = None
        \/ GoOnWith(h, job[h], r)
    BY <1>2, <1>3 DEF PurgeRel
  <1> QED BY <1>1, <1>5, <1>6, <1>7, <1>8

LEMMA ReceiveJob ==
  ASSUME Typed, NEW h \in Threads, Receive(h)
  PROVE  /\ job[h] = Idle /\ outbox # << >> /\ outbox' = Tail(outbox)
         /\ UNCHANGED <<upload, bound, snap, tasks, stage, nodes, asked>>
         /\ \E j2 \in JobRec :
              /\ job' = [job EXCEPT ![h] = j2] /\ JobFits(j2, Len(tasks)) /\ Path(j2, j2.todo)
              /\ ~Has(j2, "purgeSnap")
              /\ IF Ignored(Head(outbox).task, Head(outbox).status) THEN j2 = Idle
                 ELSE /\ Serves(j2, Head(outbox))
                      /\ Op(j2) = IF j2.status = "WORKING" THEN "startTask" ELSE "finTask"
  <1>1. /\ job[h] = Idle /\ outbox # << >> /\ outbox' = Tail(outbox)
        /\ UNCHANGED <<upload, bound, snap, tasks, stage, nodes, asked>>
    BY ReceiveTyped
  <1>2. PICK j2 \in JobRec :
          /\ job' = [job EXCEPT ![h] = j2] /\ JobFits(j2, Len(tasks))
          /\ IF Ignored(Head(outbox).task, Head(outbox).status) THEN j2 = Idle
                                                                ELSE Serves(j2, Head(outbox))
    BY ReceiveTyped
  <1>3. CASE Ignored(Head(outbox).task, Head(outbox).status)
    BY <1>1, <1>2, <1>3, IdlePath
  <1>4. CASE ~Ignored(Head(outbox).task, Head(outbox).status)
    <2>1. PICK cb \in Posted : cb = Head(outbox) /\ tasks[cb.task] \in TaskRec
      BY <1>1, OutboxHead
    <2>2. Serves(j2, cb)
      BY <1>2, <1>4, <2>1
    <2>3. j2.todo = CallbackOps(tasks[cb.task].type, cb.status)
      <3>1. job'[h] = [Request(tasks[cb.task].kb, tasks[cb.task].type,
                               CallbackOps(tasks[cb.task].type, cb.status)) EXCEPT
                         !.task = cb.task, !.status = cb.status, !.posted = TRUE]
        BY <1>4, <2>1, Shape DEF Receive
      <3>2. job'[h] = j2
        BY <1>2, OneJob
      <3> QED BY <3>1, <3>2 DEF Request, Idle
    <2>4. /\ j2.type = tasks[cb.task].type /\ j2.status = cb.status /\ j2.type \in Types
          /\ cb.status \in {"WORKING", "SUCCESS", "FAILED"}
          /\ cb.status # "WORKING" => cb.status \in Outcomes
      BY <2>1, <2>2 DEF Serves, TaskRec, Posted, Outcomes
    <2>5. CASE cb.status = "WORKING"
      <3>1. j2.todo = StartOps(j2.type)
        BY <2>3, <2>4, <2>5 DEF CallbackOps
      <3>2. Path(j2, j2.todo) /\ j2.todo[1] = "startTask"
        BY <2>4, <2>5, <3>1, StartPath
      <3>3. Writer(j2.todo, "startTask", "startSnap", StartRest)
        BY <2>2, <2>5 DEF Serves
      <3>4. j2.todo # << >> /\ ~Has(j2, "purgeSnap")
        BY <3>3 DEF Writer, StartRest, Has
      <3> QED BY <1>1, <1>2, <1>4, <2>1, <2>2, <2>4, <2>5, <3>2, <3>4 DEF Op
    <2>6. CASE cb.status # "WORKING"
      <3>1. j2.todo = FinishOps(j2.type, j2.status)
        BY <2>3, <2>4, <2>6 DEF CallbackOps
      <3>2. Path(j2, j2.todo) /\ j2.todo[1] = "finTask"
        BY <2>4, <2>6, <3>1, FinishPath
      <3>3. Writer(j2.todo, "finTask", "finSnap", FinishRest)
        BY <2>2, <2>6 DEF Serves
      <3>4. j2.todo # << >> /\ ~Has(j2, "purgeSnap")
        BY <3>3 DEF Writer, FinishRest, Has
      <3> QED BY <1>1, <1>2, <1>4, <2>1, <2>2, <2>4, <2>6, <3>2, <3>4 DEF Op
    <2> QED BY <2>5, <2>6
  <1> QED BY <1>3, <1>4
-----------------------------------------------------------------------------
(* Requests: the job that begins, and what it has read.                    *)

AskedJob(j) ==
  /\ j # Idle /\ j.status = None /\ ~j.posted /\ j.kb \in Kbs /\ Path(j, j.todo)
  /\ \/ Op(j) = "bind" /\ j.task = 0
     \/ Op(j) \in {"mark", "enqueue"} /\ j.task = 0 /\ j.kb \in bound
     \/ /\ Op(j) = "parserCancel" /\ j.task \in 1..Len(tasks)
        /\ tasks[j.task].kb = j.kb /\ tasks[j.task].type = j.type
  /\ Has(j, "purgeSnap") => Op(j) = "parserCancel" /\ j.kb \in bound /\ snap[j.kb].task = j.task
  /\ Op(j) # "parserCancel" \/ Has(j, "purgeSnap") =>
       ~(j.kb \in bound /\ snap[j.kb].status = "DELETING")

Asks(h) ==
  \E j2 \in JobRec :
    /\ job[h] = Idle /\ job' = [job EXCEPT ![h] = j2] /\ JobFits(j2, Len(tasks)) /\ AskedJob(j2)
    /\ UNCHANGED <<upload, bound, snap, tasks, stage, nodes, outbox, hurt, troubles>>

LEMMA BeginAsks ==
  ASSUME Typed, NEW h \in Threads, NEW k \in Kbs, NEW type, NEW q, NEW n, Begin(h, k, type, q, n),
         Begins(h), \A j : j.type = type => Path(j, q), q[1] \in {"bind", "mark", "enqueue"}, q \in Seq(Ops), q # << >>,
         \A p \in 1..Len(q) : q[p] # "purgeSnap",
         q[1] \in {"mark", "enqueue"} => k \in bound,
         ~(k \in bound /\ snap[k].status = "DELETING")
  PROVE  Asks(h)
  <1>1. PICK j2 \in JobRec :
          /\ job[h] = Idle /\ job' = [job EXCEPT ![h] = j2] /\ JobFits(j2, Len(tasks))
          /\ j2.todo # << >>
          /\ UNCHANGED <<upload, bound, snap, tasks, stage, nodes, outbox, hurt, troubles>>
    BY DEF Begins
  <1>2. j2 = Request(k, type, q)
    BY <1>1, Shape DEF Begin
  <1>3. /\ j2.kb = k /\ j2.type = type /\ j2.status = None /\ ~j2.posted /\ j2.task = 0
        /\ j2.todo = q
    BY <1>2 DEF Request, Idle
  <1>4. j2 # Idle /\ Op(j2) = q[1] /\ Path(j2, j2.todo)
    BY <1>3, IdleFits DEF Op
  <1>5. ~Has(j2, "purgeSnap")
    BY <1>3 DEF Has
  <1> QED BY <1>1, <1>3, <1>4, <1>5 DEF Asks, AskedJob

LEMMA CancelAsks ==
  ASSUME Typed, NEW h \in Threads, NEW k \in Kbs, NEW type, NEW id \in 1..Len(tasks), Begins(h),
         tasks[id].kb = k, tasks[id].type = type, NEW q,
         job' = [job EXCEPT ![h] = [Request(k, type, q) EXCEPT !.task = id]],
         \/ q = CancelOps
         \/ /\ q = CancelOps \o <<"purgeRel", "purgeSnap", "purgeSync">> /\ type = "ADD"
            /\ k \in bound /\ snap[k].task = id /\ snap[k].status # "DELETING"
  PROVE  Asks(h)
  <1>1. PICK j2 \in JobRec :
          /\ job[h] = Idle /\ job' = [job EXCEPT ![h] = j2] /\ JobFits(j2, Len(tasks))
          /\ j2.todo # << >>
          /\ UNCHANGED <<upload, bound, snap, tasks, stage, nodes, outbox, hurt, troubles>>
    BY DEF Begins
  <1>2. j2 = [Request(k, type, q) EXCEPT !.task = id]
    BY <1>1, Shape
  <1>3. j2.kb = k /\ j2.type = type /\ j2.status = None /\ ~j2.posted /\ j2.task = id /\ j2.todo = q
    BY <1>2 DEF Request, Idle
  <1>4. j2 # Idle /\ Op(j2) = "parserCancel" /\ Path(j2, j2.todo)
    <2>1. q # << >> /\ q[1] = "parserCancel" /\ Path(j2, q)
      BY <1>1, <1>3, CancelPath
    <2> QED BY <1>3, <2>1, IdleFits DEF Op
  <1>5. ASSUME q = CancelOps PROVE ~Has(j2, "purgeSnap")
    <2>1. \A p \in 1..2 : CancelOps[p] # "purgeSnap"
      BY CancelSeq
    <2> QED BY <1>3, <1>5, <2>1, CancelSeq DEF Has
  <1>6. AskedJob(j2)
    <2>1. CASE q = CancelOps
      <3>1. ~Has(j2, "purgeSnap")
        BY <1>5, <2>1
      <3> QED BY <1>3, <1>4, <3>1 DEF AskedJob
    <2>2. CASE type = "ADD" /\ k \in bound /\ snap[k].task = id /\ snap[k].status # "DELETING"
      BY <1>3, <1>4, <2>2 DEF AskedJob
    <2> QED BY <2>1, <2>2
  <1> QED BY <1>1, <1>6 DEF Asks

LEMMA RequestAsks ==
  ASSUME Typed, Owned, NEW h \in Threads, NEW k \in Kbs,
         Upload(h, k) \/ Reparse(h, k) \/ Delete(h, k) \/ PatchMetadata(h, k)
  PROVE  Asks(h)
  <1>1. Begins(h)
    BY RequestTyped
  <1>2. /\ Submission \in Seq(Ops) /\ Len(Submission) = 2 /\ Submission # << >>
        /\ Submission[1] = "enqueue" /\ Submission[2] = "submit"
    BY DEF Submission, Ops
  <1>3. ASSUME NEW a \in {"bind", "mark"}, NEW q, q = <<a>> \o Submission
        PROVE  /\ q \in Seq(Ops) /\ q # << >> /\ \A j : Path(j, q)
               /\ q[1] = a /\ \A p \in 1..Len(q) : q[p] # "purgeSnap"
    <2>1. OneTask(q) /\ q \in Seq(Ops)
      BY <1>3, TaskOps
    <2>2. Len(q) >= 1 /\ \A p \in 1..Len(q) : q[p] \in Asking
      BY <2>1, AskFits
    <2>3. q[1] = a /\ \A j : Path(j, q)
      BY <1>3, SubmissionPath
    <2> QED BY <2>1, <2>2, <2>3 DEF Asking
  <1>4. CASE Upload(h, k)
    <2>1. Begin(h, k, "ADD", <<"bind">> \o Submission, 1) /\ ~(k \in bound /\ snap[k].status = "DELETING")
      BY <1>4 DEF Upload, NoSnap, None
    <2>2. PICK q : q = <<"bind">> \o Submission
      OBVIOUS
    <2>3. /\ q \in Seq(Ops) /\ q # << >> /\ \A j : Path(j, q)
          /\ q[1] = "bind" /\ \A p \in 1..Len(q) : q[p] # "purgeSnap"
      BY <1>3, <2>2
    <2> QED BY <1>1, <2>1, <2>2, <2>3, BeginAsks
  <1>5. CASE Reparse(h, k)
    <2>1. Begin(h, k, "REPARSE", Submission, 1) /\ k \in bound /\ snap[k].status # "DELETING"
      BY <1>5 DEF Reparse, Bound
    <2>2. \A p \in 1..Len(Submission) : Submission[p] # "purgeSnap"
      BY <1>2
    <2>3. \A j : Path(j, Submission)
      BY SubmissionPath
    <2> QED BY <1>1, <1>2, <2>1, <2>2, <2>3, BeginAsks
  <1>6. CASE PatchMetadata(h, k)
    <2>1. PICK q : q = [i \in 1..2 * Algos |-> Submission[IF i % 2 = 1 THEN 1 ELSE 2]]
      OBVIOUS
    <2>2. Begin(h, k, "META", q, Algos) /\ k \in bound /\ snap[k].status # "DELETING"
      BY <1>6, <2>1 DEF PatchMetadata, Bound
    <2>3. q \in Seq(Ops) /\ Len(q) >= 1
      BY <2>1, MetaFits
    <2>4. (\A j : j.type = "META" => Path(j, q)) /\ q[1] = "enqueue" /\ \A p \in 1..Len(q) : q[p] # "purgeSnap"
      BY <2>1, MetaPath
    <2> QED BY <1>1, <2>2, <2>3, <2>4, BeginAsks
  <1>7. CASE Delete(h, k)
    <2>1. k \in bound /\ snap[k].status # "DELETING"
      BY <1>7 DEF Delete, Bound
    <2>2. CASE snap[k].status = "WAITING" /\ snap[k].type = "ADD"
      <3>1. snap[k] # NoSnap
        BY <2>2 DEF NoSnap, None
      <3>2. PICK id \in 1..Len(tasks) : id = snap[k].task
        BY <3>1, SnapShape
      <3>3. job' = [job EXCEPT ![h] =
                 [Request(k, "ADD", CancelOps \o <<"purgeRel", "purgeSnap", "purgeSync">>)
                    EXCEPT !.task = id]]
        BY <1>7, <2>2, <3>2 DEF Delete
      <3>4. tasks[id].kb = k /\ tasks[id].type = "ADD"
        BY <2>2, <3>1, <3>2 DEF Owned
      <3> QED BY <1>1, <2>1, <3>2, <3>3, <3>4, CancelAsks
    <2>3. CASE ~(snap[k].status = "WAITING" /\ snap[k].type = "ADD")
      <3>1. Begin(h, k, "DELETE", <<"mark">> \o Submission, 1)
        BY <1>7, <2>3 DEF Delete
      <3>2. PICK q : q = <<"mark">> \o Submission
        OBVIOUS
      <3>3. /\ q \in Seq(Ops) /\ q # << >> /\ \A j : Path(j, q)
            /\ q[1] = "mark" /\ \A p \in 1..Len(q) : q[p] # "purgeSnap"
        BY <1>3, <3>2
      <3> QED BY <1>1, <2>1, <3>1, <3>2, <3>3, BeginAsks
    <2> QED BY <2>2, <2>3
  <1> QED BY <1>4, <1>5, <1>6, <1>7

LEMMA CancelTaskAsks ==
  ASSUME Typed, NEW h \in Threads, NEW id \in Ids, CancelTask(h, id)
  PROVE  Asks(h)
  <1>1. id \in 1..Len(tasks)
    BY Shape DEF CancelTask
  <1>2. tasks[id].kb \in Kbs /\ Begins(h)
    <2>1. tasks[id] \in TaskRec
      BY <1>1, Shape
    <2> QED BY <2>1, CancelTaskTyped DEF TaskRec
  <1>3. job' = [job EXCEPT ![h] = [Request(tasks[id].kb, tasks[id].type, CancelOps) EXCEPT !.task = id]]
    BY DEF CancelTask
  <1> QED BY <1>1, <1>2, <1>3, CancelAsks

\* The steps that the invariants of one thread tell apart.
Walks ==
  \/ \E h \in Threads : Asks(h) \/ Receive(h) \/ Work(h) \/ Raise(h)
  \/ Undelivered \/ Crash \/ Parse

LEMMA NextWalks == ASSUME Typed, Owned, Next PROVE Walks
  BY RequestAsks, CancelTaskAsks DEF Next, Walks

LEMMA PathsStep ==
  ASSUME Typed, Paths, Walks
  PROVE  Paths'
  <1>1. ASSUME NEW h \in Threads, NEW j2, Path(j2, j2.todo), job' = [job EXCEPT ![h] = j2]
        PROVE  Paths'
    <2>1. job'[h] = j2 /\ \A g \in Threads : g # h => job'[g] = job[g]
      BY <1>1, OneJob
    <2>2. ASSUME NEW g \in Threads PROVE Path(job'[g], job'[g].todo)
      BY <1>1, <2>1 DEF Paths
    <2>3. Paths' <=> \A g \in Threads : Path(job'[g], job'[g].todo)
      BY DEF Paths, Path, Chain, Succeeds, Halfway
    <2> QED BY <2>2, <2>3
  <1>2. ASSUME job' = job PROVE Paths'
    BY <1>2 DEF Paths, Path, Chain, Succeeds, Halfway
  <1>3. ASSUME NEW h \in Threads, Asks(h) \/ Receive(h) \/ Raise(h) PROVE Paths'
    <2>1. CASE Asks(h)
      BY <1>1, <2>1 DEF Asks, AskedJob
    <2>2. CASE Receive(h)
      BY <1>1, <2>2, ReceiveJob
    <2>3. CASE Raise(h)
      BY <1>1, <2>3, RaiseTyped, IdlePath
    <2> QED BY <1>3, <2>1, <2>2, <2>3
  <1>4. ASSUME NEW h \in Threads, Work(h) PROVE Paths'
    <2>1. CASE \/ Bind(h) \/ WriteTask(h) \/ WriteSnap(h) \/ WriteDoc(h) \/ WriteDeletedDoc(h)
               \/ Count(h) \/ Unbind(h) \/ PurgeSnap(h) \/ PurgeSync(h)
      BY <1>1, <2>1, GoesOn
    <2>2. CASE Mark(h) \/ Enqueue(h) \/ Submit(h)
      BY <1>1, <2>2, MarkJob, EnqueueJob, SubmitJob
    <2>3. CASE ParserCancel(h) \/ CancelRead(h) \/ PurgeRel(h)
      BY <1>1, <2>3, ParserCancelJob, CancelReadJob, PurgeRelJob
    <2> QED BY <1>4, <2>1, <2>2, <2>3 DEF Work
  <1>5. CASE Undelivered \/ Parse
    <2>1. job' = job
      BY <1>5 DEF Undelivered, Parse, Claim, Finish
    <2> QED BY <1>2, <2>1
  <1>6. CASE Crash
    <2>1. \A g \in Threads : job'[g] = Idle
      BY <1>6 DEF Crash
    <2>2. Path(Idle, Idle.todo)
      BY IdlePath
    <2>3. Paths' <=> \A g \in Threads : Path(job'[g], job'[g].todo)
      BY DEF Paths, Path, Chain, Succeeds, Halfway
    <2> QED BY <2>1, <2>2, <2>3
  <1> QED BY <1>3, <1>4, <1>5, <1>6 DEF Walks

LEMMA PathsInvariant == Spec => []Paths
  <1>1. Init => Paths
    BY IdlePath DEF Init, Paths
  <1>2. Typed /\ Owned /\ Paths /\ [Next]_vars => Paths'
    <2> SUFFICES ASSUME Typed, Owned, Paths, [Next]_vars PROVE Paths'
      OBVIOUS
    <2>1. CASE Next
      BY <2>1, NextWalks, PathsStep
    <2>2. CASE UNCHANGED vars
      BY <2>2 DEF vars, Paths, Path, Chain, Succeeds, Halfway
    <2> QED BY <2>1, <2>2
  <1> QED BY <1>1, <1>2, TypedInvariant, PTL DEF Spec
-----------------------------------------------------------------------------
(* One request thread: the row agrees with the relations.                  *)

NoRow == upload \in {None, "DELETED"}
Shown(k) == snap[k].status \notin {None, "DELETED"}

\* A thread that is going to write the row from the number of relations.
Rewrites(j) ==
  \/ Op(j) \in {"finUnbind", "afterDelete", "purgeSync"}
  \/ Op(j) = "count" /\ j.status # "WORKING"
  \/ Op(j) = "purgeSnap" /\ Len(j.todo) >= 2

\* What a thread that has the row to write knows: the number of the relations, or
\* that the snapshot shows the document.
RowJob(j) ==
  /\ Op(j) \in {"afterDelete", "markDeleting"} => j.n = Cardinality(bound)
  /\ \/ Op(j) \in {"startDoc", "finDoc", "failDoc", "markDeleting"}
     \/ Op(j) = "count" /\ j.status = "WORKING"
     => Shown(j.kb)
  /\ Op(j) = "mark" => j.kb \in bound
  /\ Op(j) = "purgeSnap" => upload = None \/ Len(j.todo) >= 2

RowSound ==
  /\ IsFiniteSet(bound)
  /\ NoRow => bound = {}
  /\ bound = {} => NoRow \/ (\E k \in Kbs : Ghost(k)) \/ \E h \in Threads : Rewrites(job[h])
  /\ \A h \in Threads : RowJob(job[h])
Rowed == troubles = 0 => RowSound

\* The only thread goes on with j2.
LEMMA RowStep ==
  ASSUME Typed, \A g, i \in Threads : g = i, NEW h \in Threads, NEW j2,
         job' = [job EXCEPT ![h] = j2], IsFiniteSet(bound'), NoRow' => bound' = {},
         bound' = {} => NoRow' \/ (\E k \in Kbs : Ghost(k)') \/ Rewrites(j2),
         RowJob(j2)'
  PROVE  RowSound'
  <1>1. \A g \in Threads : g = h /\ job'[g] = j2
    BY OneJob
  <1> QED BY <1>1 DEF RowSound, RowJob, Rewrites, Op, Shown

\* The rows are as they were, and no thread was going to rewrite the row.
LEMMA RowKept ==
  ASSUME Typed, RowSound, \A g, i \in Threads : g = i, NEW h \in Threads, NEW j2,
         job' = [job EXCEPT ![h] = j2], UNCHANGED <<upload, bound>>,
         \A k \in Kbs : Ghost(k) => Ghost(k)', ~Rewrites(job[h]), RowJob(j2)'
  PROVE  RowSound'
  <1>1. ASSUME bound = {} PROVE NoRow \/ \E k \in Kbs : Ghost(k)'
    <2>1. \A g \in Threads : ~Rewrites(job[g])
      OBVIOUS
    <2> QED BY <1>1, <2>1 DEF RowSound
  <1>2. IsFiniteSet(bound') /\ (NoRow' => bound' = {}) /\ (NoRow' <=> NoRow)
    BY DEF RowSound, NoRow
  <1> QED BY <1>1, <1>2, RowStep

\* Operations that need not know of the row, and do not write it.
Blind == {None, "bind", "enqueue", "submit", "failTask", "failSnap", "startTask", "startSnap", "finTask",
          "finSnap", "parserCancel", "cancelRead", "purgeRel"}

LEMMA BlindJob ==
  ASSUME NEW j, Op(j) \in Blind
  PROVE  ~Rewrites(j) /\ RowJob(j)
  BY DEF Blind, Rewrites, RowJob, None

LEMMA BlindJobNext ==
  ASSUME NEW j, Op(j) \in Blind
  PROVE  ~Rewrites(j) /\ RowJob(j)'
  <1>1. Op(j)' = Op(j)
    BY DEF Op
  <1> QED BY <1>1 DEF Blind, Rewrites, RowJob, None

LEMMA RowBlind ==
  ASSUME Typed, Owned, Paths, RowSound, \A g, i \in Threads : g = i, NEW h \in Threads,
         \/ Asks(h) \/ Receive(h) \/ Enqueue(h) \/ Submit(h) \/ WriteTask(h) \/ ParserCancel(h)
         \/ CancelRead(h)
  PROVE  RowSound'
  <1>1. CASE Asks(h)
    <2>1. PICK j2 \in JobRec :
            /\ job[h] = Idle /\ job' = [job EXCEPT ![h] = j2] /\ AskedJob(j2)
            /\ UNCHANGED <<upload, bound, snap>>
      BY <1>1 DEF Asks
    <2>2. ~Rewrites(job[h]) /\ \A k \in Kbs : Ghost(k) => Ghost(k)'
      BY <2>1, IdlePath, BlindJob DEF Ghost, Blind
    <2>3. Op(j2) \in {"bind", "enqueue", "parserCancel"} \/ (Op(j2) = "mark" /\ j2.kb \in bound)
      BY <2>1 DEF AskedJob
    <2>4. RowJob(j2)'
      <3>1. CASE Op(j2) \in {"bind", "enqueue", "parserCancel"}
        BY <3>1, BlindJobNext DEF Blind
      <3>2. CASE Op(j2) = "mark" /\ j2.kb \in bound
        BY <2>1, <3>2 DEF RowJob, Op
      <3> QED BY <2>3, <3>1, <3>2
    <2> QED BY <2>1, <2>2, <2>4, RowKept
  <1>2. ASSUME NEW j2, job' = [job EXCEPT ![h] = j2], UNCHANGED <<upload, bound>>,
               \A k \in Kbs : Ghost(k) => Ghost(k)', Op(job[h]) \in Blind, Op(j2) \in Blind
        PROVE  RowSound'
    BY <1>2, BlindJob, BlindJobNext, RowKept
  <1>3. CASE Receive(h)
    <2>1. PICK j2 : /\ job' = [job EXCEPT ![h] = j2] /\ job[h] = Idle /\ UNCHANGED <<upload, bound, snap>>
                    /\ j2 = Idle \/ Op(j2) \in {"startTask", "finTask"}
      BY <1>3, ReceiveJob
    <2>2. Op(job[h]) \in Blind /\ Op(j2) \in Blind
      BY <2>1, IdlePath DEF Blind
    <2>3. \A k \in Kbs : Ghost(k) => Ghost(k)'
      BY <2>1 DEF Ghost
    <2> QED BY <1>2, <2>1, <2>2, <2>3
  <1>4. CASE Enqueue(h)
    <2>1. PICK j2 : job' = [job EXCEPT ![h] = j2] /\ Op(job[h]) = "enqueue" /\ Op(j2) = "submit"
      BY <1>4, EnqueueJob
    <2>2. UNCHANGED <<upload, bound>> /\ \A k \in Kbs : Ghost(k) => Ghost(k)'
      <3>1. PICK status \in {"DELETING", "WAITING"} : SetSnap(job[h].kb, status, Len(tasks) + 1, job[h].type)
        BY <1>4, EnqueueTyped
      <3>2. UNCHANGED <<upload, bound>>
        BY <1>4 DEF Enqueue
      <3>3. \A k \in Kbs : snap'[k] = snap[k] \/ snap'[k].status = status
        BY <3>1, Shape DEF SetSnap
      <3> QED BY <3>2, <3>3 DEF Ghost, None
    <2>3. Op(job[h]) \in Blind /\ Op(j2) \in Blind
      BY <2>1 DEF Blind
    <2> QED BY <1>2, <2>1, <2>2, <2>3
  <1>5. CASE Submit(h)
    <2>1. PICK j2 : /\ job' = [job EXCEPT ![h] = j2] /\ Op(job[h]) = "submit"
                    /\ Leads(job[h], j2) \/ Op(j2) = "failTask"
      BY <1>5, SubmitJob
    <2>2. Op(job[h]) \in Blind /\ Op(j2) \in Blind
      BY <2>1, IdlePath DEF Blind, Leads, Succeeds
    <2>3. UNCHANGED <<upload, bound, snap>>
      BY <1>5, SubmitTyped
    <2> QED BY <1>2, <2>1, <2>2, <2>3 DEF Ghost
  <1>6. CASE WriteTask(h)
    <2>1. PICK j2 : job' = [job EXCEPT ![h] = j2] /\ Leads(job[h], j2)
      BY <1>6, GoesOn
    <2>2. Op(job[h]) \in {"failTask", "startTask", "finTask"}
      BY <1>6, WriteTaskIs, GoesOn, OpIs
    <2>3. Op(job[h]) \in Blind /\ Op(j2) \in Blind
      BY <2>1, <2>2, IdlePath DEF Blind, Leads, Succeeds
    <2>4. UNCHANGED <<upload, bound, snap>>
      BY <1>6 DEF WriteTask
    <2> QED BY <1>2, <2>1, <2>3, <2>4 DEF Ghost
  <1>7. CASE ParserCancel(h) \/ CancelRead(h)
    <2>1. PICK j2 : /\ job' = [job EXCEPT ![h] = j2] /\ Op(job[h]) \in {"parserCancel", "cancelRead"}
                    /\ Op(j2) \in {None, "cancelRead", "purgeRel", "finTask"}
      BY <1>7, ParserCancelJob, CancelReadJob, IdlePath
    <2>2. UNCHANGED <<upload, bound, snap>>
      BY <1>7 DEF ParserCancel, CancelRead, rows
    <2>3. Op(job[h]) \in Blind /\ Op(j2) \in Blind
      BY <2>1 DEF Blind
    <2> QED BY <1>2, <2>1, <2>2, <2>3 DEF Ghost
  <1> QED BY <1>1, <1>3, <1>4, <1>5, <1>6, <1>7

LEMMA CountIs ==
  ASSUME IsFiniteSet(bound)
  PROVE  /\ Cardinality(bound) \in Nat /\ (Cardinality(bound) = 0 <=> bound = {})
         /\ AfterDelete(Cardinality(bound)) = IF bound = {} THEN "DELETED" ELSE "SUCCESS"
  <1>1. Cardinality(bound) \in Nat /\ (Cardinality(bound) = 0 <=> bound = {})
    BY FS_CardinalityType, FS_EmptySet
  <1>2. Cardinality(bound) > 0 <=> bound # {}
    BY <1>1
  <1> QED BY <1>1, <1>2 DEF AfterDelete

LEMMA RowRelations ==
  ASSUME Typed, Paths, RowSound, \A g, i \in Threads : g = i, NEW h \in Threads,
         Bind(h) \/ Mark(h) \/ Unbind(h) \/ PurgeRel(h)
  PROVE  RowSound'
  <1>1. CASE Bind(h)
    <2>1. PICK j2 : job' = [job EXCEPT ![h] = j2] /\ Leads(job[h], j2)
      BY <1>1, GoesOn
    <2>2. Op(job[h]) = "bind"
      BY <1>1, OpIs DEF Bind, None
    <2>3. Op(j2) \in Blind
      BY <2>1, <2>2, IdlePath DEF Blind, Leads, Succeeds
    <2>4. upload' = "SUCCESS" /\ bound' = bound \cup {job[h].kb} /\ IsFiniteSet(bound')
      BY <1>1, FS_AddElement DEF Bind, RowSound
    <2>5. ~NoRow' /\ bound' # {}
      BY <2>4 DEF NoRow, None
    <2> QED BY <2>1, <2>3, <2>4, <2>5, BlindJobNext, RowStep
  <1>2. CASE Mark(h)
    <2>1. PICK j2 : job' = [job EXCEPT ![h] = j2] /\ (j2 = Idle \/ Op(j2) = "enqueue") /\ Op(job[h]) = "mark"
      BY <1>2, MarkJob
    <2>2. Op(j2) \in Blind
      BY <2>1, IdlePath DEF Blind
    <2>3. bound' = bound /\ bound # {}
      BY <1>2, <2>1 DEF Mark, RowSound, RowJob
    <2>4. upload' = upload \/ upload' = "DELETING"
      BY <1>2 DEF Mark, SetUpload
    <2>5. ~NoRow /\ ~NoRow'
      BY <2>3, <2>4 DEF RowSound, NoRow, None
    <2>6. IsFiniteSet(bound') /\ bound' # {}
      BY <2>3 DEF RowSound
    <2> QED BY <2>1, <2>2, <2>5, <2>6, BlindJobNext, RowStep
  <1>3. CASE Unbind(h)
    <2>1. PICK j2 : job' = [job EXCEPT ![h] = j2] /\ Leads(job[h], j2) /\ job[h].todo # << >>
      BY <1>3, GoesOn
    <2>2. Op(job[h]) = "finUnbind" /\ job[h].todo[1] = "finUnbind"
      BY <1>3, OpIs, DoesHead DEF Unbind, None
    <2>3. job[h].status \in Outcomes
      <3>1. Told(job[h]) /\ 1 \in 1..Len(job[h].todo)
        BY <2>1, HeadIs
      <3> QED BY <2>2, <3>1 DEF Told, Ending
    <2>4. j2 # Idle /\ Op(j2) = "count" /\ j2.status \in Outcomes
      BY <2>1, <2>2, <2>3 DEF Leads, Halfway, Succeeds, SameJob
    <2>5. bound' = bound \ {job[h].kb} /\ upload' = upload /\ IsFiniteSet(bound') /\ (NoRow' <=> NoRow)
      BY <1>3, FS_RemoveElement DEF Unbind, RowSound, NoRow
    <2>6. Rewrites(j2)
      BY <2>4 DEF Rewrites, Outcomes
    <2>7. RowJob(j2)'
      <3>1. Op(j2)' = Op(j2)
        BY DEF Op
      <3> QED BY <2>4, <3>1 DEF RowJob, Outcomes
    <2>8. NoRow' => bound' = {}
      BY <2>5 DEF RowSound
    <2> QED BY <2>1, <2>5, <2>6, <2>7, <2>8, RowStep
  <1>4. CASE PurgeRel(h)
    <2>1. PICK j2 : /\ job' = [job EXCEPT ![h] = j2] /\ Op(j2) = "purgeSnap"
                    /\ Len(j2.todo) >= 2 \/ upload' = None
      BY <1>4, PurgeRelJob
    <2>2. /\ bound' = bound \ {job[h].kb}
          /\ upload' = IF bound' = {} /\ upload # None THEN None ELSE upload
      BY <1>4 DEF PurgeRel
    <2>3. IsFiniteSet(bound')
      BY <2>2, FS_RemoveElement DEF RowSound
    <2>4. NoRow' => bound' = {}
      BY <2>2 DEF RowSound, NoRow
    <2>5. bound' = {} => NoRow'
      BY <2>2 DEF NoRow
    <2>6. RowJob(j2)'
      <3>1. Op(j2)' = Op(j2)
        BY DEF Op
      <3> QED BY <2>1, <3>1 DEF RowJob
    <2> QED BY <2>1, <2>3, <2>4, <2>5, <2>6, RowStep
  <1> QED BY <1>1, <1>2, <1>3, <1>4

LEMMA RowSnaps ==
  ASSUME Typed, Paths, RowSound, \A g, i \in Threads : g = i, NEW h \in Threads,
         WriteSnap(h) \/ PurgeSnap(h)
  PROVE  RowSound'
  <1>1. PICK j2 : job' = [job EXCEPT ![h] = j2] /\ Leads(job[h], j2) /\ job[h].todo # << >>
    BY GoesOn
  <1>2. /\ UNCHANGED <<upload, bound>> /\ Op(j2)' = Op(j2) /\ (NoRow' <=> NoRow)
        /\ job[h].kb \in Kbs /\ snap \in [Kbs -> SnapRec] /\ IsFiniteSet(bound')
        /\ job[h].todo[1] = Op(job[h])
    BY <1>1, HeadIs, OpIs, Shape DEF WriteSnap, PurgeSnap, Op, NoRow, RowSound
  <1>3. CASE WriteSnap(h)
    <2>1. PICK status \in Statuses :
            /\ SetSnap(job[h].kb, status, job[h].task, job[h].type)
            /\ job[h].todo[1] = "failSnap" => status = "FAILED"
            /\ job[h].todo[1] = "startSnap" =>
                 status = IF job[h].type = "DELETE" THEN "DELETING" ELSE "WORKING"
            /\ job[h].todo[1] = "finSnap" =>
                 status = IF job[h].type = "DELETE" /\ job[h].status = "SUCCESS"
                          THEN "DELETED" ELSE job[h].status
      BY <1>3, WriteSnapIs
    <2>2. Op(job[h]) \in {"failSnap", "startSnap", "finSnap"}
      BY <1>2, <1>3, WriteSnapIs
    <2>3. snap'[job[h].kb].status = status /\ \A k \in Kbs : k # job[h].kb => snap'[k] = snap[k]
      BY <1>2, <2>1 DEF SetSnap
    <2>4. /\ Op(job[h]) = "failSnap" => job[h].status = None
          /\ Op(job[h]) = "finSnap" => job[h].status \in Outcomes
      <3>1. Told(job[h]) /\ 1 \in 1..Len(job[h].todo)
        BY <1>1, HeadIs
      <3> QED BY <1>2, <3>1 DEF Told, Ending, Failing
    <2>5. CASE status = "DELETED"
      <3>1. Op(job[h]) = "finSnap" /\ job[h].type = "DELETE" /\ job[h].status = "SUCCESS"
        BY <1>2, <2>1, <2>2, <2>4, <2>5 DEF Outcomes
      <3>2. j2 # Idle /\ Op(j2) = "finUnbind"
        BY <1>1, <3>1 DEF Leads, Halfway, Succeeds
      <3>3. Rewrites(j2) /\ RowJob(j2)'
        BY <1>2, <3>2 DEF Rewrites, RowJob
      <3> QED BY <1>1, <1>2, <3>3, RowStep DEF RowSound
    <2>6. CASE status # "DELETED"
      <3>1. status # None
        BY DEF Statuses, Settled, None
      <3>2. \A k \in Kbs : Ghost(k) => Ghost(k)'
        BY <1>2, <2>3, <2>6, <3>1 DEF Ghost
      <3>3. ~Rewrites(job[h])
        BY <2>2 DEF Rewrites
      <3>4. RowJob(j2)'
        <4>1. CASE j2 = Idle
          BY <4>1, IdlePath, BlindJobNext DEF Blind
        <4>2. CASE j2 # Idle
          <5>1. Succeeds(job[h], Op(job[h]), Op(j2)) /\ SameJob(j2, job[h])
            BY <1>1, <4>2 DEF Leads
          <5>2. Op(j2) \in {"failDoc", "startDoc", "finDoc", "count", "finUnbind"}
            BY <2>2, <5>1 DEF Succeeds
          <5>3. snap'[j2.kb].status \notin {None, "DELETED"}
            BY <2>3, <2>6, <3>1, <5>1 DEF SameJob
          <5> QED BY <1>2, <5>2, <5>3 DEF RowJob, Shown
        <4> QED BY <4>1, <4>2
      <3> QED BY <1>1, <1>2, <3>2, <3>3, <3>4, RowKept
    <2> QED BY <2>5, <2>6
  <1>4. CASE PurgeSnap(h)
    <2>1. Op(job[h]) = "purgeSnap"
      BY <1>4, OpIs DEF PurgeSnap, None
    <2>2. upload = None \/ Len(job[h].todo) >= 2
      BY <2>1 DEF RowSound, RowJob
    <2>3. Op(j2) \in {None, "purgeSync"}
      BY <1>1, <2>1, IdlePath DEF Leads, Succeeds
    <2>4. RowJob(j2)'
      BY <1>2, <2>3 DEF RowJob, None
    <2>5. CASE upload = None
      <3>1. NoRow'
        BY <1>2, <2>5 DEF NoRow
      <3> QED BY <1>1, <1>2, <2>4, <3>1, RowStep DEF RowSound
    <2>6. CASE Len(job[h].todo) >= 2
      <3>1. PICK q \in Seq(Ops) : q = job[h].todo
        BY <1>1, HeadIs
      <3>2. Tail(q) # << >>
        <4>1. Path(job[h], q) /\ q # << >>
          BY <1>1, <3>1 DEF Paths
        <4> QED BY <2>6, <3>1, <4>1, PathTail
      <3>3. j2 # Idle
        BY <1>1, <3>1, <3>2, IdleFits DEF Leads
      <3>4. Op(j2) = "purgeSync"
        BY <1>1, <2>1, <3>3 DEF Leads, Succeeds
      <3>5. Rewrites(j2)
        BY <3>4 DEF Rewrites
      <3> QED BY <1>1, <1>2, <2>4, <3>5, RowStep DEF RowSound
    <2> QED BY <2>2, <2>5, <2>6
  <1> QED BY <1>3, <1>4

LEMMA RowWrites ==
  ASSUME Typed, Paths, RowSound, \A g, i \in Threads : g = i, NEW h \in Threads,
         WriteDoc(h) \/ Count(h) \/ WriteDeletedDoc(h) \/ PurgeSync(h)
  PROVE  RowSound'
  <1>1. PICK j2 \in JobRec : job' = [job EXCEPT ![h] = j2] /\ Leads(job[h], j2) /\ job[h].todo # << >>
    BY GoesOn
  <1>2. /\ UNCHANGED <<bound, snap>> /\ Op(j2)' = Op(j2) /\ IsFiniteSet(bound')
        /\ job[h].kb \in Kbs /\ job[h].todo[1] = Op(job[h]) /\ RowJob(job[h])
        /\ \A k \in Kbs : Ghost(k)' <=> Ghost(k)
    BY <1>1, HeadIs, OpIs
       DEF WriteDoc, Count, WriteDeletedDoc, PurgeSync, rows, Op, NoRow, RowSound, Ghost
  <1>3. CASE WriteDoc(h)
    <2>1. Op(job[h]) \in {"failDoc", "startDoc", "finDoc"}
      BY <1>3, OpIs DEF WriteDoc, None
    <2>2. PICK status : SetUpload(status) /\ status \notin {None, "DELETED"}
      <3>1. Op(job[h]) = "finDoc" => job[h].status \in Outcomes
        <4>1. Told(job[h]) /\ 1 \in 1..Len(job[h].todo)
          BY <1>1, HeadIs
        <4> QED BY <1>2, <4>1 DEF Told, Ending
      <3>2. \/ SetUpload("FAILED") \/ SetUpload("WORKING")
            \/ Op(job[h]) = "finDoc" /\ SetUpload(job[h].status)
        BY <1>3, OpIs DEF WriteDoc, None
      <3> QED BY <3>1, <3>2 DEF Outcomes, None
    <2>3. Op(j2) \in Blind
      BY <1>1, <2>1, IdlePath DEF Leads, Succeeds, Blind
    <2>4. NoRow' => bound' = {}
      BY <1>2, <2>2 DEF SetUpload, NoRow, RowSound
    <2>5. bound' = {} => \E k \in Kbs : Ghost(k)'
      BY <1>2, <2>1 DEF RowJob, Shown, Ghost
    <2> QED BY <1>1, <1>2, <2>3, <2>4, <2>5, BlindJobNext, RowStep
  <1>4. CASE Count(h)
    <2>1. Op(job[h]) = "count" /\ upload' = upload
      BY <1>4, OpIs DEF Count, None, rows
    <2>2. /\ j2 # Idle /\ SameJob(j2, job[h]) /\ j2.todo # << >>
          /\ Op(j2) = IF job[h].status = "WORKING" THEN "markDeleting" ELSE "afterDelete"
      BY <1>1, <2>1, IdleFits DEF Leads, Halfway, Succeeds, Op, None
    <2>3. j2.n = Cardinality(bound)
      <3>1. job'[h] = j2
        BY <1>1, OneJob
      <3>2. job'[h] = IF Tail(job[h].todo) = << >> THEN Idle
                      ELSE [job[h] EXCEPT !.n = Cardinality(bound), !.todo = Tail(job[h].todo)]
        BY <1>4, Shape DEF Count, GoOnWith
      <3>3. job[h] \in JobRec
        BY JobTask
      <3> QED BY <2>2, <3>1, <3>2, <3>3 DEF JobRec
    <2>4. RowJob(j2)'
      <3>1. job[h].status = "WORKING" => Shown(j2.kb)
        BY <1>2, <2>1, <2>2 DEF RowJob, SameJob
      <3> QED BY <1>2, <2>2, <2>3, <3>1 DEF RowJob, Shown
    <2>5. bound = {} => NoRow \/ (\E k \in Kbs : Ghost(k)) \/ Rewrites(j2)
      <3>1. Rewrites(job[h]) => Rewrites(j2)
        BY <2>1, <2>2 DEF Rewrites
      <3>2. \A g \in Threads : g = h
        OBVIOUS
      <3> QED BY <3>1, <3>2 DEF RowSound
    <2> QED BY <1>1, <1>2, <2>1, <2>4, <2>5, RowStep DEF RowSound, NoRow
  <1>5. CASE WriteDeletedDoc(h) \/ PurgeSync(h)
    <2>1. Op(job[h]) \in {"afterDelete", "markDeleting", "purgeSync"}
      BY <1>5, OpIs DEF WriteDeletedDoc, PurgeSync, None
    <2>2. Op(j2) \in Blind
      BY <1>1, <2>1, IdlePath DEF Leads, Succeeds, Blind
    <2>3. CASE Op(job[h]) = "markDeleting"
      <3>1. upload' = upload \/ upload' = "DELETING"
        BY <1>5, <2>3, OpIs DEF WriteDeletedDoc, PurgeSync, SetUpload, None
      <3>2. NoRow' => bound' = {}
        BY <1>2, <3>1 DEF NoRow, RowSound, None
      <3>3. bound' = {} => \E k \in Kbs : Ghost(k)'
        BY <1>2, <2>3 DEF RowJob, Shown, Ghost
      <3> QED BY <1>1, <1>2, <2>2, <3>2, <3>3, BlindJobNext, RowStep
    <2>4. CASE Op(job[h]) \in {"afterDelete", "purgeSync"}
      <3>1. SetUpload(AfterDelete(Cardinality(bound)))
        BY <1>2, <1>5, <2>4, OpIs DEF WriteDeletedDoc, PurgeSync, RowJob, None
      <3>2. upload' = IF upload = None THEN None ELSE IF bound = {} THEN "DELETED" ELSE "SUCCESS"
        BY <3>1, CountIs DEF SetUpload, RowSound
      <3>3. (NoRow' => bound' = {}) /\ (bound' = {} => NoRow')
        BY <1>2, <3>2 DEF NoRow, RowSound, None
      <3> QED BY <1>1, <1>2, <2>2, <3>3, BlindJobNext, RowStep
    <2> QED BY <2>1, <2>3, <2>4
  <1> QED BY <1>3, <1>4, <1>5

\* Steps that are a trouble.
LEMMA TroubleCounts ==
  ASSUME Typed, NEW S, Trouble(S)
  PROVE  troubles' # 0
  <1>1. troubles \in Nat
    BY LifecycleAssumption DEF Typed, HistoryFits
  <1> QED BY <1>1 DEF Trouble

LEMMA RowedStep ==
  ASSUME Typed, Owned, Paths, Rowed, Walks, \A g, i \in Threads : g = i
  PROVE  Rowed'
  <1> SUFFICES ASSUME troubles' = 0 PROVE RowSound'
    BY DEF Rowed
  <1>1. troubles = 0
    <2>1. troubles \in Nat
      BY LifecycleAssumption DEF Typed, HistoryFits
    <2>2. troubles' = troubles \/ troubles' = troubles + 1
      BY DEF Walks, Asks, Receive, Work, Raise, Undelivered, Crash, Parse, Claim, Finish, Trouble, mishaps,
             Bind, Mark, Enqueue, Submit, WriteTask, WriteSnap, WriteDoc, WriteDeletedDoc, Count, Unbind,
             ParserCancel, CancelRead, PurgeRel, PurgeSnap, PurgeSync
    <2> QED BY <2>1, <2>2
  <1>2. RowSound
    BY <1>1 DEF Rowed
  <1>3. ASSUME NEW h \in Threads, Asks(h) \/ Receive(h) PROVE RowSound'
    BY <1>2, <1>3, RowBlind
  <1>4. ASSUME NEW h \in Threads, Work(h) PROVE RowSound'
    BY <1>2, <1>4, RowBlind, RowRelations, RowSnaps, RowWrites DEF Work
  <1>5. ASSUME NEW h \in Threads, Raise(h) PROVE FALSE
    BY <1>5, TroubleCounts DEF Raise
  <1>6. CASE Undelivered \/ Crash
    BY <1>6, TroubleCounts DEF Undelivered, Crash
  <1>7. CASE Parse
    <2>1. UNCHANGED <<upload, bound, snap, job>>
      BY <1>7 DEF Parse, Claim, Finish, rows
    <2> QED BY <1>2, <2>1 DEF RowSound, NoRow, Ghost, Rewrites, RowJob, Shown, Op
  <1> QED BY <1>3, <1>4, <1>5, <1>6, <1>7 DEF Walks

\* The status of the row agrees with the relations, if one thread serves the requests:
\* between the count of the relations and the write that follows from it no other thread
\* changes them (_apply_doc_upload_status, _sync_doc_upload_status).
THEOREM RowAgreesWithRelations ==
  ASSUME \A g, h \in Threads : g = h
  PROVE  Spec => []RowAgrees
  <1>1. Init => Rowed
    <2> SUFFICES ASSUME Init PROVE Rowed
      OBVIOUS
    <2>1. bound = {} /\ upload = None /\ \A h \in Threads : job[h] = Idle
      BY DEF Init
    <2>2. \A h \in Threads : RowJob(job[h])
      BY <2>1, IdlePath, BlindJob DEF Blind
    <2> QED BY <2>1, <2>2, FS_EmptySet DEF Rowed, RowSound, NoRow
  <1>2. Typed /\ Owned /\ Paths /\ Rowed /\ [Next]_vars => Rowed'
    <2> SUFFICES ASSUME Typed, Owned, Paths, Rowed, [Next]_vars PROVE Rowed'
      OBVIOUS
    <2>1. CASE Next
      BY <2>1, NextWalks, RowedStep
    <2>2. CASE UNCHANGED vars
      BY <2>2 DEF vars, Rowed, RowSound, NoRow, Ghost, Rewrites, RowJob, Shown, Op
    <2> QED BY <2>1, <2>2
  <1>3. Rowed => RowAgrees
    <2> SUFFICES ASSUME Rowed, Quiet, troubles = 0
                 PROVE  IF bound # {} THEN upload \notin {None, "DELETED"}
                        ELSE upload \in {None, "DELETED"} \/ \E k \in Kbs : Ghost(k)
      BY DEF RowAgrees
    <2>1. \A h \in Threads : ~Rewrites(job[h])
      BY IdlePath, BlindJob DEF Quiet, Blind
    <2> QED BY <2>1 DEF Rowed, RowSound, NoRow
  <1> QED BY <1>1, <1>2, <1>3, TypedInvariant, PathsInvariant, PTL DEF Spec
-----------------------------------------------------------------------------
(* The outcome of a task is its last callback.                             *)

Ends(status) == status \in {"SUCCESS", "FAILED"}

\* In the outbox and in work.
Finals ==
  /\ \A p \in 1..Len(outbox) : Ends(outbox[p].status) /\ outbox[p].task \notin hurt =>
       /\ stage[outbox[p].task] = "done"
       /\ \A r \in 1..Len(outbox) : r > p => outbox[r].task # outbox[p].task
  /\ \A h \in Threads : job[h].posted /\ Ends(job[h].status) /\ job[h].task \notin hurt =>
       /\ stage[job[h].task] = "done"
       /\ \A r \in 1..Len(outbox) : outbox[r].task # job[h].task

LEMMA OutboxTask ==
  ASSUME Typed, NEW p \in 1..Len(outbox)
  PROVE  outbox[p] \in Posted /\ outbox[p].task \in Ids
  <1>1. outbox \in Seq(Posted)
    BY Shape
  <1>2. outbox[p] \in Posted
    BY <1>1
  <1> QED BY <1>2 DEF Posted

\* A job that reports no other outcome.
SameEnd(j2, j) ==
  j2.posted /\ Ends(j2.status) => j.posted /\ j2.status = j.status /\ j2.task = j.task

LEMMA FinalsKept ==
  ASSUME Typed, Finals, hurt \subseteq hurt', outbox' = outbox,
         \A i \in Ids : stage[i] = "done" => stage'[i] = "done",
         \A h \in Threads : SameEnd(job'[h], job[h])
  PROVE  Finals'
  <1>1. ASSUME NEW p \in 1..Len(outbox'), Ends(outbox'[p].status), outbox'[p].task \notin hurt'
        PROVE  /\ stage'[outbox'[p].task] = "done"
               /\ \A r \in 1..Len(outbox') : r > p => outbox'[r].task # outbox'[p].task
    <2>1. p \in 1..Len(outbox) /\ outbox[p].task \in Ids
      BY <1>1, OutboxTask
    <2> QED BY <1>1, <2>1 DEF Finals
  <1>2. ASSUME NEW h \in Threads, job'[h].posted, Ends(job'[h].status), job'[h].task \notin hurt'
        PROVE  /\ stage'[job'[h].task] = "done"
               /\ \A r \in 1..Len(outbox') : outbox'[r].task # job'[h].task
    <2>1. /\ Ends(job[h].status) /\ job[h].task = job'[h].task /\ job[h].task \notin hurt
          /\ job[h].posted
      BY <1>2 DEF SameEnd
    <2>2. job[h].task \in Ids
      BY <2>1, PostedShape
    <2> QED BY <1>2, <2>1, <2>2 DEF Finals
  <1> QED BY <1>1, <1>2 DEF Finals, Ends

LEMMA FinalsOne ==
  ASSUME Typed, Finals, hurt \subseteq hurt', outbox' = outbox, NEW h \in Threads, NEW j2,
         job' = [job EXCEPT ![h] = j2], SameEnd(j2, job[h]),
         \A i \in Ids : stage[i] = "done" => stage'[i] = "done"
  PROVE  Finals'
  <1>1. job'[h] = j2 /\ \A g \in Threads : g # h => job'[g] = job[g]
    BY OneJob
  <1>2. \A g \in Threads : SameEnd(job'[g], job[g])
    BY <1>1 DEF SameEnd
  <1> QED BY <1>2, FinalsKept

LEMMA FinalsWorks ==
  ASSUME Agreed, Finals, NEW h \in Threads,
         \/ Begins(h) \/ Moves(h) \/ Enqueue(h) \/ Submit(h) \/ WriteTask(h) \/ WriteSnap(h)
         \/ ParserCancel(h) \/ CancelRead(h)
  PROVE  Finals'
  <1>1. Typed /\ ~Idle.posted
    BY IdleFits DEF Agreed
  <1>2. CASE Begins(h)
    <2>1. PICK j2 \in JobRec : job' = [job EXCEPT ![h] = j2] /\ ~j2.posted
      BY <1>2 DEF Begins
    <2> QED BY <1>1, <1>2, <2>1, FinalsOne DEF SameEnd, Begins
  <1>3. CASE Moves(h)
    <2>1. PICK j2 \in JobRec : job' = [job EXCEPT ![h] = j2] /\ (j2 = Idle \/ SameJob(j2, job[h]))
      BY <1>3 DEF Moves
    <2> QED BY <1>1, <1>3, <2>1, FinalsOne DEF SameEnd, SameJob, Moves
  <1>4. CASE Enqueue(h)
    <2>1. PICK j2 \in JobRec : job' = [job EXCEPT ![h] = j2] /\ ~j2.posted
      BY <1>1, <1>4, EnqueueTyped
    <2>2. UNCHANGED <<stage, outbox, hurt>>
      BY <1>1, <1>4, EnqueueTyped
    <2> QED BY <1>1, <2>1, <2>2, FinalsOne DEF SameEnd
  <1>5. CASE Submit(h)
    <2>1. PICK j2 \in JobRec : job' = [job EXCEPT ![h] = j2] /\ (j2 = Idle \/ SameJob(j2, job[h]))
      BY <1>1, <1>5, SubmitTyped DEF Follows, SameJob
    <2>2. /\ outbox' = outbox /\ hurt \subseteq hurt' /\ job[h].task \in Ids
          /\ stage' = stage \/ stage' = [stage EXCEPT ![job[h].task] = "queued"]
      BY <1>1, <1>5, SubmitTyped, Shape, JobTask
    <2>3. stage[job[h].task] = "none"
      BY <1>1, <1>5, SubmitTyped DEF Agreed, Staged, StagedJob, Submits
    <2>4. \A i \in Ids : stage[i] = "done" => stage'[i] = "done"
      BY <1>1, <2>2, <2>3, Shape
    <2> QED BY <1>1, <2>1, <2>2, <2>4, FinalsOne DEF SameEnd, SameJob
  <1>6. CASE WriteTask(h) \/ WriteSnap(h)
    <2>1. PICK j2 \in JobRec : job' = [job EXCEPT ![h] = j2] /\ (j2 = Idle \/ SameJob(j2, job[h]))
      BY <1>1, <1>6, WriteTyped DEF Follows, SameJob
    <2>2. UNCHANGED <<stage, outbox, hurt>>
      BY <1>1, <1>6, WriteTyped
    <2> QED BY <1>1, <2>1, <2>2, FinalsOne DEF SameEnd, SameJob
  <1>7. CASE ParserCancel(h)
    <2>1. PICK j2 \in JobRec : job' = [job EXCEPT ![h] = j2] /\ (j2 = Idle \/ SameJob(j2, job[h]))
      BY <1>1, <1>7, ParserCancelTyped DEF Follows, SameJob
    <2>2. /\ outbox' = outbox /\ hurt' = hurt
          /\ \A i \in Ids : stage[i] = "done" => stage'[i] = "done"
      BY <1>1, <1>7, ParserCancelTyped, Shape
    <2> QED BY <1>1, <2>1, <2>2, FinalsOne DEF SameEnd, SameJob
  <1>8. CASE CancelRead(h)
    <2>1. PICK j2 \in JobRec : job' = [job EXCEPT ![h] = j2] /\ ~j2.posted
      BY <1>1, <1>8, CancelReadTyped
    <2>2. UNCHANGED <<stage, outbox, hurt>>
      BY <1>1, <1>8, CancelReadTyped
    <2> QED BY <1>1, <2>1, <2>2, FinalsOne DEF SameEnd
  <1> QED BY <1>2, <1>3, <1>4, <1>5, <1>6, <1>7, <1>8

\* The next callback is taken, and served or not.
LEMMA FinalsReceive ==
  ASSUME Agreed, Finals, NEW h \in Threads, Receive(h)
  PROVE  Finals'
  <1>1. PICK j2 \in JobRec :
          /\ job' = [job EXCEPT ![h] = j2]
          /\ j2 = Idle \/ Serves(j2, Head(outbox))
    BY ReceiveTyped DEF Agreed
  <1>2. /\ outbox # << >> /\ outbox' = Tail(outbox) /\ hurt \subseteq hurt' /\ stage' = stage
        /\ Typed
    BY ReceiveTyped DEF Agreed
  <1>3. /\ Head(outbox) = outbox[1] /\ Len(outbox') = Len(outbox) - 1 /\ Len(outbox) \in Nat
        /\ Len(outbox) >= 1
        /\ \A p \in 1..Len(outbox') : outbox'[p] = outbox[p + 1] /\ p + 1 \in 1..Len(outbox)
    BY <1>2, OutboxHead
  <1>4. ASSUME NEW p \in 1..Len(outbox'), Ends(outbox'[p].status), outbox'[p].task \notin hurt'
        PROVE  /\ stage'[outbox'[p].task] = "done"
               /\ \A r \in 1..Len(outbox') : r > p => outbox'[r].task # outbox'[p].task
    <2>1. \A r \in 1..Len(outbox) : r > p + 1 => outbox[r].task # outbox[p + 1].task
      BY <1>2, <1>3, <1>4 DEF Finals
    <2>2. \A r \in 1..Len(outbox') : r > p => r + 1 > p + 1
      BY <1>4
    <2> QED BY <1>2, <1>3, <1>4, <2>1, <2>2 DEF Finals
  <1>5. ASSUME NEW g \in Threads, job'[g].posted, Ends(job'[g].status), job'[g].task \notin hurt'
        PROVE  /\ stage'[job'[g].task] = "done"
               /\ \A r \in 1..Len(outbox') : outbox'[r].task # job'[g].task
    <2>1. job'[h] = j2 /\ (g # h => job'[g] = job[g])
      BY <1>1, <1>2, OneJob
    <2>2. CASE g # h
      BY <1>2, <1>3, <1>5, <2>1, <2>2 DEF Finals
    <2>3. CASE g = h
      <3>1. Serves(j2, outbox[1]) /\ 1 \in 1..Len(outbox)
        BY <1>1, <1>3, <1>5, <2>1, <2>3, IdleFits
      <3>2. Ends(outbox[1].status) /\ outbox[1].task \notin hurt /\ j2.task = outbox[1].task
        BY <1>2, <1>5, <2>1, <2>3, <3>1 DEF Serves
      <3>3. /\ stage[outbox[1].task] = "done"
            /\ \A r \in 1..Len(outbox) : r > 1 => outbox[r].task # outbox[1].task
        BY <3>1, <3>2 DEF Finals
      <3>4. \A r \in 1..Len(outbox') : r + 1 > 1
        OBVIOUS
      <3> QED BY <1>2, <1>3, <2>1, <2>3, <3>2, <3>3, <3>4
    <2> QED BY <2>2, <2>3
  <1> QED BY <1>4, <1>5 DEF Finals, Ends

\* A callback is put behind.
LEMMA FinalsAppend ==
  ASSUME Typed, Finals, hurt \subseteq hurt', NEW q \in Seq(Posted), NEW cb \in Posted,
         outbox' = Append(q, cb),
         \A p \in 1..Len(q) : Ends(q[p].status) /\ q[p].task \notin hurt' =>
           /\ stage'[q[p].task] = "done" /\ q[p].task # cb.task
           /\ \A r \in 1..Len(q) : r > p => q[r].task # q[p].task,
         Ends(cb.status) => cb.task \in hurt' \/ stage'[cb.task] = "done",
         \A g \in Threads : job'[g].posted /\ Ends(job'[g].status) /\ job'[g].task \notin hurt' =>
           /\ stage'[job'[g].task] = "done" /\ job'[g].task # cb.task
           /\ \A r \in 1..Len(q) : q[r].task # job'[g].task
  PROVE  Finals'
  <1>1. /\ Len(outbox') = Len(q) + 1 /\ outbox'[Len(q) + 1] = cb /\ Len(q) \in Nat
        /\ \A p \in 1..Len(q) : outbox'[p] = q[p]
    OBVIOUS
  <1>2. \A p \in 1..Len(outbox') : p \in 1..Len(q) \/ p = Len(q) + 1
    BY <1>1
  <1>3. ASSUME NEW p \in 1..Len(outbox'), Ends(outbox'[p].status), outbox'[p].task \notin hurt'
        PROVE  /\ stage'[outbox'[p].task] = "done"
               /\ \A r \in 1..Len(outbox') : r > p => outbox'[r].task # outbox'[p].task
    <2>1. CASE p \in 1..Len(q)
      BY <1>1, <1>2, <1>3, <2>1
    <2>2. CASE p = Len(q) + 1
      <3>1. \A r \in 1..Len(outbox') : ~(r > p)
        BY <1>1, <2>2
      <3> QED BY <1>1, <1>3, <2>2, <3>1
    <2> QED BY <1>2, <2>1, <2>2
  <1>4. \A g \in Threads : job'[g].posted /\ Ends(job'[g].status) /\ job'[g].task \notin hurt' =>
          /\ stage'[job'[g].task] = "done"
          /\ \A r \in 1..Len(outbox') : outbox'[r].task # job'[g].task
    BY <1>1, <1>2
  <1> QED BY <1>3, <1>4 DEF Finals, Ends

LEMMA FinalsPosts ==
  ASSUME Agreed, Finals, Posts
  PROVE  Finals'
  <1>1. PICK id \in Ids, s \in {"WORKING", "SUCCESS", "FAILED"} :
          \/ Claim(id) /\ s = "WORKING"
          \/ Finish(id, s) /\ s \in {"SUCCESS", "FAILED"}
    BY DEF Posts
  <1>2. PICK cb \in Posted : cb = [task |-> id, status |-> s] /\ outbox' = Append(outbox, cb)
    BY <1>1, ParseTyped DEF Agreed
  <1>3. /\ UNCHANGED <<job, hurt>> /\ cb.task = id /\ cb.status = s
        /\ \/ s = "WORKING" /\ stage[id] = "queued" /\ stage' = [stage EXCEPT ![id] = "running"]
           \/ /\ s \in {"SUCCESS", "FAILED"} /\ stage[id] = "running"
              /\ stage' = [stage EXCEPT ![id] = "done"]
    BY <1>1, <1>2, ParseTyped DEF Agreed
  <1>4. /\ Typed /\ outbox \in Seq(Posted) /\ stage \in [Ids -> Stages]
        /\ \A p \in 1..Len(outbox) : outbox[p].task \in Ids
        /\ \A g \in Threads : job[g].posted => job[g].task \in Ids
    BY Shape, PostedShape, OutboxTask DEF Agreed
  <1>5. \A i \in Ids : i # id => stage'[i] = stage[i]
    BY <1>3, <1>4
  <1>6. stage[id] # "done" /\ (Ends(s) => stage'[id] = "done")
    BY <1>3, <1>4 DEF Ends
  <1>7. \A p \in 1..Len(outbox) : Ends(outbox[p].status) /\ outbox[p].task \notin hurt' =>
          /\ stage'[outbox[p].task] = "done" /\ outbox[p].task # cb.task
          /\ \A r \in 1..Len(outbox) : r > p => outbox[r].task # outbox[p].task
    BY <1>3, <1>4, <1>5, <1>6 DEF Finals
  <1>8. \A g \in Threads : job'[g].posted /\ Ends(job'[g].status) /\ job'[g].task \notin hurt' =>
          /\ stage'[job'[g].task] = "done" /\ job'[g].task # cb.task
          /\ \A r \in 1..Len(outbox) : outbox[r].task # job'[g].task
    BY <1>3, <1>4, <1>5, <1>6 DEF Finals
  <1> QED BY <1>2, <1>3, <1>4, <1>6, <1>7, <1>8, FinalsAppend

\* A callback that is posted again is that of a task with a trouble.
LEMMA FinalsTroubles ==
  ASSUME Agreed, Finals, Undelivered \/ Crash \/ \E h \in Threads : Raise(h)
  PROVE  Finals'
  <1>1. Typed /\ outbox \in Seq(Posted)
    BY Shape DEF Agreed
  <1>2. CASE Undelivered
    <2>1. /\ UNCHANGED <<stage, job>> /\ outbox # << >> /\ hurt' = hurt \cup {Head(outbox).task}
          /\ outbox' \in {Append(Tail(outbox), Head(outbox)), Tail(outbox)}
      BY <1>1, <1>2, UndeliveredTyped
    <2>2. PICK q, cb : q = Tail(outbox) /\ cb = Head(outbox)
      OBVIOUS
    <2>3. /\ q \in Seq(Posted) /\ cb \in Posted
          /\ \A p \in 1..Len(q) : q[p] = outbox[p + 1] /\ p + 1 \in 1..Len(outbox)
      BY <1>1, <2>1, <2>2, OutboxHead
    <2>4. ASSUME NEW p \in 1..Len(q), Ends(q[p].status), q[p].task \notin hurt'
          PROVE  /\ stage'[q[p].task] = "done" /\ q[p].task # cb.task
                 /\ \A r \in 1..Len(q) : r > p => q[r].task # q[p].task
      <3>1. \A r \in 1..Len(outbox) : r > p + 1 => outbox[r].task # outbox[p + 1].task
        BY <2>1, <2>3, <2>4 DEF Finals
      <3>2. \A r \in 1..Len(q) : r > p => r + 1 > p + 1
        BY <2>4
      <3> QED BY <2>1, <2>2, <2>3, <2>4, <3>1, <3>2 DEF Finals
    <2>5. \A g \in Threads : job'[g].posted /\ Ends(job'[g].status) /\ job'[g].task \notin hurt' =>
            /\ stage'[job'[g].task] = "done" /\ job'[g].task # cb.task
            /\ \A r \in 1..Len(q) : q[r].task # job'[g].task
      BY <2>1, <2>2, <2>3 DEF Finals
    <2>6. CASE outbox' = Append(q, cb)
      <3>1. hurt \subseteq hurt' /\ (Ends(cb.status) => cb.task \in hurt' \/ stage'[cb.task] = "done")
        BY <2>1, <2>2
      <3> QED BY <1>1, <2>3, <2>4, <2>5, <2>6, <3>1, FinalsAppend
    <2>7. CASE outbox' = q
      BY <2>4, <2>5, <2>7 DEF Finals, Ends
    <2> QED BY <2>1, <2>2, <2>6, <2>7
  <1>3. CASE Crash
    <2>1. /\ UNCHANGED <<stage, outbox>> /\ hurt \subseteq hurt'
          /\ \A h \in Threads : ~job'[h].posted
      BY <1>1, <1>3, CrashTyped, IdleFits
    <2> QED BY <1>1, <2>1, FinalsKept DEF SameEnd
  <1>4. ASSUME NEW h \in Threads, Raise(h) PROVE Finals'
    <2>1. /\ stage' = stage /\ job[h] # Idle /\ job' = [job EXCEPT ![h] = Idle]
          /\ hurt' = hurt \cup Victim(h)
          /\ outbox' = IF job[h].posted
                       THEN Append(outbox, [task |-> job[h].task, status |-> job[h].status])
                       ELSE outbox
      BY <1>1, <1>4, RaiseTyped
    <2>2. ~Idle.posted /\ SameEnd(Idle, job[h]) /\ hurt \subseteq hurt'
      BY <2>1, IdleFits DEF SameEnd
    <2>3. CASE ~job[h].posted
      <3>1. outbox' = outbox
        BY <2>1, <2>3
      <3> QED BY <1>1, <2>1, <2>2, <3>1, FinalsOne
    <2>4. CASE job[h].posted
      <3>1. PICK cb \in Posted : cb = [task |-> job[h].task, status |-> job[h].status]
        BY <1>1, <2>4, PostedShape
      <3>2. cb.task \in hurt' /\ outbox' = Append(outbox, cb)
        BY <1>1, <2>1, <2>4, <3>1, PostedShape, VictimFits
      <3>3. /\ job'[h] = Idle /\ \A g \in Threads : g # h => job'[g] = job[g]
        BY <1>1, <2>1, OneJob
      <3>4. \A p \in 1..Len(outbox) : Ends(outbox[p].status) /\ outbox[p].task \notin hurt' =>
              /\ stage'[outbox[p].task] = "done" /\ outbox[p].task # cb.task
              /\ \A r \in 1..Len(outbox) : r > p => outbox[r].task # outbox[p].task
        BY <2>1, <2>2, <3>2 DEF Finals
      <3>5. \A g \in Threads : job'[g].posted /\ Ends(job'[g].status) /\ job'[g].task \notin hurt' =>
              /\ stage'[job'[g].task] = "done" /\ job'[g].task # cb.task
              /\ \A r \in 1..Len(outbox) : outbox[r].task # job'[g].task
        BY <2>1, <2>2, <3>2, <3>3 DEF Finals
      <3> QED BY <1>1, <2>2, <3>2, <3>4, <3>5, FinalsAppend
    <2> QED BY <2>3, <2>4
  <1> QED BY <1>2, <1>3, <1>4

LEMMA FinalsSteps ==
  ASSUME Agreed, Finals, Steps
  PROVE  Finals'
  BY FinalsWorks, FinalsReceive, FinalsPosts, FinalsTroubles DEF Steps
-----------------------------------------------------------------------------
(* The record of a task that has not ended is not settled.                 *)

Busy(i) ==
  \/ stage[i] \in {"queued", "running"}
  \/ \E h \in Threads : job[h].task = i /\ Submits(job[h])
Unsettled ==
  \A i \in 1..Len(tasks) : i \notin hurt /\ Busy(i) => tasks[i].status \notin Settled

\* A task that is busy was so before the step, is in trouble, or is new.
BusyBefore == \A i \in Ids : Busy(i)' => Busy(i) \/ i \in hurt' \/ i > Len(tasks)

LEMMA BusyIs ==
  ASSUME NEW i
  PROVE  /\ Busy(i)' => stage'[i] \in {"queued", "running"}
                        \/ \E h \in Threads : job'[h].task = i /\ Submits(job'[h])
         /\ stage[i] \in {"queued", "running"} => Busy(i)
  BY DEF Busy, Submits

\* One thread goes on, and does not begin to submit a task that there is.
LEMMA BusyOne ==
  ASSUME Typed, NEW h \in Threads, NEW j2, job' = [job EXCEPT ![h] = j2],
         \A i \in Ids : stage'[i] \in {"queued", "running"} => Busy(i) \/ i \in hurt',
         Submits(j2) => (Submits(job[h]) /\ j2.task = job[h].task) \/ j2.task > Len(tasks)
  PROVE  BusyBefore
  <1>1. job'[h] = j2 /\ \A g \in Threads : g # h => job'[g] = job[g]
    BY OneJob
  <1>2. ASSUME NEW i \in Ids, NEW g \in Threads, job'[g].task = i, Submits(job'[g])
        PROVE  Busy(i) \/ i > Len(tasks)
    BY <1>1, <1>2 DEF Busy
  <1> QED BY <1>2, BusyIs DEF BusyBefore

LEMMA BusyWorks ==
  ASSUME Agreed, NEW h \in Threads,
         \/ Begins(h) \/ Moves(h) \/ Enqueue(h) \/ Submit(h) \/ WriteTask(h) \/ WriteSnap(h)
         \/ ParserCancel(h) \/ CancelRead(h) \/ Receive(h) \/ Raise(h)
  PROVE  BusyBefore
  <1>1. Typed /\ ~Submits(Idle) /\ \A i \in Ids : stage[i] \in {"queued", "running"} => Busy(i)
    BY IdleRoles DEF Agreed, Busy
  <1>2. CASE Begins(h)
    <2>1. PICK j2 \in JobRec :
            job' = [job EXCEPT ![h] = j2] /\ j2.todo[1] \in {"bind", "mark", "enqueue", "parserCancel"}
      BY <1>2 DEF Begins
    <2> QED BY <1>1, <1>2, <2>1, BusyOne DEF Begins, Submits
  <1>3. CASE Moves(h)
    <2>1. PICK j2 \in JobRec : job' = [job EXCEPT ![h] = j2] /\ Passive(j2)
      BY <1>3 DEF Moves
    <2> QED BY <1>1, <1>3, <2>1, PassiveRoles, BusyOne DEF Moves
  <1>4. CASE Submit(h)
    <2>1. PICK j2 \in JobRec :
              /\ job' = [job EXCEPT ![h] = j2] /\ JobFits(j2, Len(tasks))
              /\ \/ /\ Follows(j2, job[h]) /\ stage' = [stage EXCEPT ![job[h].task] = "queued"]
                 \/ /\ SameJob(j2, job[h]) /\ Writer(j2.todo, "failTask", "failSnap", FailRest)
                    /\ \/ stage' = stage
                       \/ /\ stage' = [stage EXCEPT ![job[h].task] = "queued"]
                          /\ job[h].task \in hurt'
      BY <1>1, <1>4, SubmitTyped
    <2>2. /\ job[h].todo # << >> /\ job[h].todo[1] = "submit" /\ tasks' = tasks /\ hurt \subseteq hurt'
          /\ job[h].task \in Ids /\ job[h] \in JobRec /\ JobFits(job[h], Len(tasks)) /\ Len(tasks) \in Nat
      BY <1>1, <1>4, SubmitTyped, JobTask, Shape
    <2>3. ~Submits(j2)
      BY <2>1, <2>2, FollowsRoles DEF Submits, Writer
    <2>4. Busy(job[h].task)
      BY <2>2 DEF Busy, Submits
    <2>5. \A i \in Ids : stage'[i] \in {"queued", "running"} => Busy(i) \/ i \in hurt'
      BY <1>1, <2>1, <2>4, Shape
    <2> QED BY <1>1, <2>1, <2>2, <2>3, <2>5, BusyOne
  <1>5. CASE WriteTask(h) \/ WriteSnap(h)
    <2>1. PICK j2 \in JobRec : Follows(j2, job[h]) /\ JobFits(j2, Len(tasks)) /\ job' = [job EXCEPT ![h] = j2]
      BY <1>1, <1>5, WriteTyped
    <2>2. /\ job[h].todo # << >> /\ job[h].todo[1] \in Paired /\ UNCHANGED <<stage, hurt>>
          /\ job[h] \in JobRec /\ JobFits(job[h], Len(tasks)) /\ Len(tasks) \in Nat
      BY <1>1, <1>5, WriteTyped, WriteTaskIs, WriteSnapIs, HeadIs DEF Paired
    <2>3. Submits(j2) => Submits(job[h]) /\ j2.task = job[h].task
      BY <2>1, <2>2, FollowsRoles DEF Keeps
    <2> QED BY <1>1, <2>1, <2>2, <2>3, BusyOne
  <1>6. CASE ParserCancel(h)
    <2>1. PICK j2 \in JobRec :
              /\ job' = [job EXCEPT ![h] = j2] /\ JobFits(j2, Len(tasks))
              /\ \/ j2 = Idle /\ stage' = stage
                 \/ /\ Follows(j2, job[h]) /\ stage' = [stage EXCEPT ![job[h].task] = "canceled"]
      BY <1>1, <1>6, ParserCancelTyped
    <2>2. /\ job[h].todo # << >> /\ job[h].todo[1] = "parserCancel" /\ UNCHANGED <<tasks, hurt>>
          /\ job[h].task \in Ids /\ job[h] \in JobRec /\ JobFits(job[h], Len(tasks)) /\ Len(tasks) \in Nat
      BY <1>1, <1>6, ParserCancelTyped, JobTask, Shape
    <2>3. ~Submits(j2)
      BY <1>1, <2>1, <2>2, FollowsRoles
    <2>4. \A i \in Ids : stage'[i] \in {"queued", "running"} => Busy(i)
      BY <1>1, <2>1, <2>2, Shape
    <2> QED BY <1>1, <2>1, <2>2, <2>3, <2>4, BusyOne
  <1>7. CASE CancelRead(h)
    <2>1. PICK j2 \in JobRec :
              /\ job' = [job EXCEPT ![h] = j2]
              /\ \/ \A p \in 1..Len(j2.todo) : j2.todo[p] \in Purging
                 \/ Writer(j2.todo, "finTask", "finSnap", FinishRest \cup Purging)
      BY <1>1, <1>7, CancelReadTyped
    <2>2. ~Submits(j2)
      <3>1. j2.todo \in Seq(Ops)
        BY DEF JobRec
      <3> QED BY <2>1, <3>1 DEF Submits, Writer, Purging
    <2>3. UNCHANGED <<tasks, stage, hurt>>
      BY <1>1, <1>7, CancelReadTyped
    <2> QED BY <1>1, <2>1, <2>2, <2>3, BusyOne
  <1>8. CASE Receive(h)
    <2>1. PICK j2 \in JobRec : /\ job' = [job EXCEPT ![h] = j2]
                               /\ j2 = Idle \/ Serves(j2, Head(outbox))
      BY <1>1, <1>8, ReceiveTyped
    <2>2. ~Submits(j2)
      BY <1>1, <2>1 DEF Submits, Serves, Writer
    <2>3. UNCHANGED <<tasks, stage>> /\ hurt \subseteq hurt'
      BY <1>1, <1>8, ReceiveTyped
    <2> QED BY <1>1, <2>1, <2>2, <2>3, BusyOne
  <1>9. CASE Raise(h)
    <2>1. UNCHANGED <<tasks, stage>> /\ hurt \subseteq hurt' /\ job' = [job EXCEPT ![h] = Idle]
      BY <1>1, <1>9, RaiseTyped
    <2> QED BY <1>1, <2>1, BusyOne
  <1>10. CASE Enqueue(h)
    <2>1. PICK j2 \in JobRec : job' = [job EXCEPT ![h] = j2] /\ j2.task = Len(tasks) + 1
      BY <1>1, <1>10, EnqueueTyped
    <2>2. stage' = stage /\ Len(tasks) \in Nat
      BY <1>1, <1>10, EnqueueTyped, Shape
    <2>3. j2.task > Len(tasks) /\ \A i \in Ids : stage'[i] \in {"queued", "running"} => Busy(i)
      BY <1>1, <2>1, <2>2
    <2> QED BY <1>1, <2>1, <2>3, BusyOne
  <1> QED BY <1>2, <1>3, <1>4, <1>5, <1>6, <1>7, <1>8, <1>9, <1>10

LEMMA BusySteps ==
  ASSUME Agreed, Steps
  PROVE  BusyBefore
  <1>1. Typed /\ ~Submits(Idle)
    BY IdleRoles DEF Agreed
  <1>2. CASE Undelivered \/ Crash
    <2>1. stage' = stage /\ \A h \in Threads : job'[h] \in {job[h], Idle}
      BY <1>1, <1>2, UndeliveredTyped, CrashTyped
    <2> QED BY <1>1, <2>1, BusyIs DEF BusyBefore, Busy
  <1>3. CASE Posts
    <2>1. PICK id \in Ids, s \in {"WORKING", "SUCCESS", "FAILED"} :
            \/ Claim(id) /\ s = "WORKING"
            \/ Finish(id, s) /\ s \in {"SUCCESS", "FAILED"}
      BY <1>3 DEF Posts
    <2>2. /\ UNCHANGED <<tasks, job, hurt>>
          /\ \/ stage[id] = "queued" /\ stage' = [stage EXCEPT ![id] = "running"]
             \/ stage' = [stage EXCEPT ![id] = "done"]
      BY <1>1, <2>1, ParseTyped
    <2>3. \A i \in Ids : stage'[i] \in {"queued", "running"} => stage[i] \in {"queued", "running"}
      BY <1>1, <2>2, Shape
    <2> QED BY <2>2, <2>3, BusyIs DEF BusyBefore, Busy
  <1> QED BY <1>2, <1>3, BusyWorks DEF Steps

\* A thread that has an outcome to write: its task has ended.
LEMMA HasEnded ==
  ASSUME Agreed, Finals, NEW h \in Threads, job[h].todo # << >>,
         job[h].todo[1] \in {"failTask", "failSnap", "finTask", "finSnap"}, job[h].task \notin hurt
  PROVE  ~Busy(job[h].task) /\ \A p \in 1..Len(outbox) : outbox[p].task # job[h].task
  <1>1. Typed /\ Staged /\ Alone
    BY DEF Agreed
  <1>2. 1 \in 1..Len(job[h].todo) /\ Told(job[h]) /\ ~Submits(job[h])
    <2>1. /\ job[h] \in JobRec /\ JobFits(job[h], Len(tasks)) /\ Len(tasks) \in Nat /\ Told(job[h])
          /\ Len(job[h].todo) \in Nat /\ Len(job[h].todo) >= 1
      BY <1>1, HeadIs
    <2> QED BY <2>1 DEF Submits
  <1>3. CASE job[h].todo[1] \in {"failTask", "failSnap"}
    <2>1. Fails(job[h])
      BY <1>2, <1>3 DEF Fails
    <2>2. stage[job[h].task] = "none"
      BY <1>1, <2>1 DEF Staged, StagedJob
    <2>3. \A g \in Threads : Submits(job[g]) => job[g].task # job[h].task
      BY <1>1, <1>2, <2>1 DEF Alone, Apart
    <2> QED BY <1>1, <2>2, <2>3 DEF Staged, Busy
  <1>4. CASE job[h].todo[1] \in {"finTask", "finSnap"}
    <2>1. job[h].status \in Outcomes /\ (job[h].posted <=> job[h].status # "CANCELED")
      BY <1>2, <1>4 DEF Told, Ending
    <2>2. CASE job[h].status = "CANCELED"
      <3>1. stage[job[h].task] = "canceled"
        BY <1>1, <2>2 DEF Staged, StagedJob, Cancels
      <3> QED BY <1>1, <3>1 DEF Staged, StagedJob, Busy
    <2>3. CASE job[h].status # "CANCELED"
      <3>1. job[h].posted /\ Ends(job[h].status)
        BY <2>1, <2>3 DEF Outcomes, Ends
      <3>2. /\ stage[job[h].task] = "done"
            /\ \A p \in 1..Len(outbox) : outbox[p].task # job[h].task
        BY <3>1 DEF Finals
      <3> QED BY <1>1, <3>2 DEF Staged, StagedJob, Busy
    <2> QED BY <2>2, <2>3
  <1> QED BY <1>3, <1>4

\* What no step takes back.
LEMMA StepsFrame ==
  ASSUME Typed, Owned, Steps
  PROVE  /\ hurt \subseteq hurt' /\ Len(tasks) \in Nat /\ Len(tasks') \in Nat /\ Len(tasks) <= Len(tasks')
         /\ tasks' = tasks \/ \E h \in Threads : Enqueue(h) \/ WriteTask(h)
         /\ \A i \in 1..Len(tasks) : tasks'[i].kb = tasks[i].kb /\ tasks'[i].type = tasks[i].type
         /\ Len(tasks') <= MaxTasks /\ 1..Len(tasks') \subseteq Ids
  <1>1. \/ tasks' = tasks /\ hurt \subseteq hurt'
        \/ \E h \in Threads : (Enqueue(h) \/ WriteTask(h)) /\ hurt' = hurt
    <2>1. ASSUME NEW h \in Threads,
                 Begins(h) \/ Moves(h) \/ Submit(h) \/ WriteSnap(h) \/ ParserCancel(h) \/ CancelRead(h)
          PROVE  tasks' = tasks /\ hurt \subseteq hurt'
      BY <2>1, SubmitTyped, WriteTyped, WriteSnapIs, ParserCancelTyped, CancelReadTyped DEF Begins, Moves
    <2>2. ASSUME NEW h \in Threads, Receive(h) \/ Raise(h) PROVE tasks' = tasks /\ hurt \subseteq hurt'
      BY <2>2, ReceiveTyped, RaiseTyped
    <2>3. ASSUME NEW h \in Threads, Enqueue(h) \/ WriteTask(h) PROVE hurt' = hurt
      BY <2>3, EnqueueTyped, WriteTyped
    <2>4. ASSUME Undelivered \/ Crash \/ Posts PROVE tasks' = tasks /\ hurt \subseteq hurt'
      BY <2>4, UndeliveredTyped, CrashTyped, ParseTyped DEF Posts
    <2> QED BY <2>1, <2>2, <2>3, <2>4 DEF Steps
  <1>2. Len(tasks) \in Nat /\ Len(tasks) <= MaxTasks /\ MaxTasks \in Nat /\ Ids = 1..MaxTasks
        /\ tasks \in Seq(TaskRec)
    BY Shape
  <1>3. CASE tasks' = tasks /\ hurt \subseteq hurt'
    BY <1>2, <1>3
  <1>4. ASSUME NEW h \in Threads, Enqueue(h), hurt' = hurt
        PROVE  /\ Len(tasks') = Len(tasks) + 1 /\ Len(tasks) + 1 <= MaxTasks
               /\ \A i \in 1..Len(tasks) : tasks'[i] = tasks[i]
    <2>1. PICK rec : tasks' = Append(tasks, rec)
      BY <1>4, EnqueueTyped
    <2>2. Len(tasks) + 1 \in 1..MaxTasks
      BY <1>4, EnqueueTyped
    <2>3. Len(tasks') = Len(tasks) + 1 /\ \A i \in 1..Len(tasks) : tasks'[i] = tasks[i]
      BY <1>2, <2>1
    <2> QED BY <1>2, <2>2, <2>3
  <1>5. ASSUME NEW h \in Threads, WriteTask(h), hurt' = hurt
        PROVE  /\ Len(tasks') = Len(tasks)
               /\ \A i \in 1..Len(tasks) : tasks'[i].kb = tasks[i].kb /\ tasks'[i].type = tasks[i].type
    BY <1>5, WriteTaskIs, SetTaskFits
  <1>6. CASE \E h \in Threads : (Enqueue(h) \/ WriteTask(h)) /\ hurt' = hurt
    BY <1>2, <1>4, <1>5, <1>6
  <1> QED BY <1>1, <1>3, <1>6

\* The record of a task that is busy is not written with an outcome.
LEMMA UnsettledSteps ==
  ASSUME Agreed, Finals, Unsettled, Steps
  PROVE  Unsettled'
  <1>1. Typed /\ BusyBefore /\ Len(tasks) \in Nat /\ tasks \in Seq(TaskRec)
    BY BusySteps, Shape DEF Agreed
  <1> SUFFICES ASSUME NEW i \in 1..Len(tasks'), i \notin hurt', Busy(i)'
               PROVE  tasks'[i].status \notin Settled
    BY DEF Unsettled
  <1>2. hurt \subseteq hurt' /\ i \in Ids
    BY <1>1, StepsFrame DEF Agreed
  <1>3. CASE tasks' = tasks
    BY <1>1, <1>2, <1>3 DEF BusyBefore, Unsettled
  <1>4. ASSUME NEW h \in Threads, Enqueue(h) PROVE tasks'[i].status \notin Settled
    <2>1. PICK status \in {"DELETING", "WAITING"} :
            tasks' = Append(tasks, [type |-> job[h].type, kb |-> job[h].kb, status |-> status])
      BY <1>1, <1>4, EnqueueTyped
    <2>2. /\ Len(tasks') = Len(tasks) + 1 /\ tasks'[Len(tasks) + 1].status = status
          /\ \A m \in 1..Len(tasks) : tasks'[m] = tasks[m]
      BY <1>1, <2>1
    <2>3. CASE i = Len(tasks) + 1
      BY <2>2, <2>3 DEF Settled
    <2>4. CASE i \in 1..Len(tasks)
      BY <1>1, <1>2, <2>2, <2>4 DEF BusyBefore, Unsettled
    <2> QED BY <1>1, <2>2, <2>3, <2>4
  <1>5. ASSUME NEW h \in Threads, WriteTask(h) PROVE tasks'[i].status \notin Settled
    <2>1. /\ job[h].todo[1] \in {"failTask", "startTask", "finTask"} /\ job[h].task \in 1..Len(tasks)
          /\ job[h].todo # << >>
      BY <1>1, <1>5, WriteTyped, WriteTaskIs
    <2>2. PICK status \in Statuses :
            /\ SetTask(job[h].task, status)
            /\ job[h].todo[1] = "startTask" => status = "WORKING"
      BY <1>1, <1>5, WriteTaskIs
    <2>3. /\ Len(tasks') = Len(tasks) /\ tasks'[job[h].task].status = status
          /\ \A m \in 1..Len(tasks) : m # job[h].task => tasks'[m] = tasks[m]
      BY <1>1, <2>1, <2>2, SetTaskFits
    <2>4. Busy(i) /\ i \notin hurt /\ i \in 1..Len(tasks)
      BY <1>1, <1>2, <2>3 DEF BusyBefore
    <2>5. CASE i = job[h].task
      <3>1. job[h].todo[1] = "startTask"
        BY <2>1, <2>4, <2>5, HasEnded
      <3> QED BY <2>2, <2>3, <2>5, <3>1 DEF Settled
    <2>6. CASE i # job[h].task
      BY <2>3, <2>4, <2>6 DEF Unsettled
    <2> QED BY <2>5, <2>6
  <1>6. \/ tasks' = tasks \/ \E h \in Threads : Enqueue(h) \/ WriteTask(h)
    BY <1>1, StepsFrame DEF Agreed
  <1> QED BY <1>3, <1>4, <1>5, <1>6
-----------------------------------------------------------------------------
(* What the operations of the only thread do to its job.                   *)

\* cancel_task was called by a delete, which purges what is left.
Purges(j) == Has(j, "purgeSnap")

\* A thread goes on with its task, or is done.
Turns(j, j2) ==
  /\ j2 = Idle \/ (j2.kb = j.kb /\ j2.type = j.type /\ j2.task = j.task)
  /\ Purges(j2) => Purges(j)
  /\ j2.status = "SUCCESS" => j.status = "SUCCESS"

LEMMA LeadsTurns ==
  ASSUME NEW j \in JobRec, j.todo # << >>, NEW j2, Leads(j, j2)
  PROVE  Turns(j, j2)
  <1>1. Purges(j2) => Purges(j)
    BY LeadsHas DEF Purges
  <1> QED BY <1>1, IdleFits DEF Leads, SameJob, Turns, None

LEMMA PurgeRelPurges ==
  ASSUME NEW j \in JobRec, Path(j, j.todo), Op(j) = "purgeRel"
  PROVE  Purges(j)
  <1>1. j.todo \in Seq(Ops) /\ j.todo # << >> /\ j.todo[1] = "purgeRel"
    BY DEF JobRec, Op, None
  <1>2. Tail(j.todo) # << >>
    BY <1>1, PathNext DEF Halfway
  <1>3. Len(j.todo) >= 2 /\ Succeeds(j, j.todo[1], Tail(j.todo)[1])
    BY <1>1, <1>2, PathNext
  <1>4. Tail(j.todo)[1] = "purgeSnap"
    BY <1>1, <1>3 DEF Succeeds
  <1>5. Tail(j.todo)[1] = j.todo[2] /\ 2 \in 1..Len(j.todo)
    BY <1>1, <1>3, TailShape
  <1> QED BY <1>4, <1>5 DEF Purges, Has

\* Operation by operation: what a thread that goes on does next.
LEMMA LeadsOp ==
  ASSUME NEW j, NEW j2, Leads(j, j2)
  PROVE  /\ Op(j) \in {"bind", "mark"} => Op(j2) = "enqueue" /\ j2 # Idle
         /\ Op(j) = "submit" => Op(j2) = None \/ (Op(j2) = "enqueue" /\ j.type = "META")
         /\ Op(j) = "failTask" => Op(j2) = "failSnap"
         /\ Op(j) = "startTask" => Op(j2) = "startSnap"
         /\ Op(j) = "finTask" => Op(j2) = "finSnap"
         /\ Op(j) \in {"failSnap", "startSnap"} => Op(j2) \in {None, "failDoc", "startDoc", "count"}
         /\ Op(j) = "finSnap" => Op(j2) \in {None, "finDoc", "finUnbind", "count"}
         /\ Op(j) = "finSnap" /\ j.type = "DELETE" /\ j.status = "SUCCESS" =>
              Op(j2) = "finUnbind" /\ j2 # Idle
         /\ Op(j2) = "finUnbind" => Op(j) = "finSnap" /\ j.type = "DELETE" /\ j.status = "SUCCESS"
         /\ Op(j) = "finUnbind" => Op(j2) = "count"
         /\ Op(j) \in {"startDoc", "failDoc", "finDoc", "count", "markDeleting", "afterDelete", "purgeSync"} =>
              Op(j2) \in {None, "purgeRel", "markDeleting", "afterDelete"}
         /\ Op(j) = "purgeSnap" => Op(j2) \in {None, "purgeSync"}
  <1>1. CASE j2 = Idle
    BY <1>1, IdlePath DEF Leads, Halfway, None
  <1>2. CASE j2 # Idle
    <2>1. Succeeds(j, Op(j), Op(j2))
      BY <1>2 DEF Leads
    <2> QED BY <1>2, <2>1 DEF Succeeds
  <1> QED BY <1>1, <1>2

\* The operations that leave relations and snapshots alone.
StillOp(j, j2) ==
  \/ Op(j) = "mark" /\ Op(j2) \in {None, "enqueue"}
  \/ Op(j) = "submit" /\ (Op(j2) \in {None, "failTask"} \/ (Op(j2) = "enqueue" /\ j.type = "META"))
  \/ Op(j) = "failTask" /\ Op(j2) = "failSnap"
  \/ Op(j) = "startTask" /\ Op(j2) = "startSnap"
  \/ Op(j) = "finTask" /\ Op(j2) = "finSnap"
  \/ /\ Op(j) \in {"startDoc", "failDoc", "finDoc", "count", "markDeleting", "afterDelete", "purgeSync"}
     /\ Op(j2) \in {None, "purgeRel", "markDeleting", "afterDelete"}
  \/ Op(j) = "parserCancel" /\ (j2 = Idle \/ Op(j2) = "cancelRead")
  \/ /\ Op(j) = "cancelRead"
     /\ IF Ignored(j.task, "CANCELED") THEN j2 = Idle \/ Op(j2) = "purgeRel" ELSE Op(j2) = "finTask"

Still(h) ==
  \/ Mark(h) \/ Submit(h) \/ WriteTask(h) \/ WriteDoc(h) \/ WriteDeletedDoc(h) \/ Count(h)
  \/ PurgeSync(h) \/ ParserCancel(h) \/ CancelRead(h)

LEMMA StillWorks ==
  ASSUME Typed, Paths, NEW h \in Threads, Still(h)
  PROVE  /\ UNCHANGED <<bound, snap>> /\ job[h].todo # << >> /\ job'[h] \in JobRec
         /\ Path(job'[h], job'[h].todo)
         /\ Turns(job[h], job'[h]) /\ StillOp(job[h], job'[h])
  <1> DEFINE Goal == /\ job[h].todo # << >> /\ job'[h] \in JobRec /\ Path(job'[h], job'[h].todo)
                     /\ Turns(job[h], job'[h]) /\ StillOp(job[h], job'[h])
  <1>1. UNCHANGED <<bound, snap>>
    BY DEF Still, Mark, Submit, WriteTask, WriteDoc, WriteDeletedDoc, Count, PurgeSync, ParserCancel,
           CancelRead, rows
  <1>2. \A j2 : job' = [job EXCEPT ![h] = j2] => job'[h] = j2
    BY OneJob
  <1>3. /\ job[h] \in JobRec /\ ~Purges(Idle) /\ Idle \in JobRec /\ Op(Idle) = None
        /\ Idle.status # "SUCCESS"
    BY JobTask, IdlePath, IdleFits DEF Purges, None
  <1>4. Turns(job[h], Idle)
    BY <1>3 DEF Turns
  <1>5. Goal
    <2>1. CASE Mark(h)
      <3>1. PICK j2 \in JobRec : /\ job' = [job EXCEPT ![h] = j2] /\ Path(j2, j2.todo)
                                 /\ j2 = Idle \/ (Leads(job[h], j2) /\ Op(j2) = "enqueue")
        BY <2>1, MarkJob
      <3>2. Op(job[h]) = "mark" /\ job[h].todo # << >>
        BY <2>1, MarkJob
      <3>3. StillOp(job[h], j2)
        BY <1>3, <3>1, <3>2 DEF StillOp
      <3>4. Turns(job[h], j2)
        BY <1>3, <1>4, <3>1, <3>2, LeadsTurns
      <3> QED BY <1>2, <1>3, <3>1, <3>2, <3>3, <3>4
    <2>2. CASE Submit(h)
      <3>1. PICK j2 \in JobRec :
              /\ job' = [job EXCEPT ![h] = j2] /\ Path(j2, j2.todo)
              /\ \/ Leads(job[h], j2)
                 \/ SameJob(j2, job[h]) /\ Op(j2) = "failTask" /\ ~Has(j2, "purgeSnap")
        BY <2>2, SubmitJob
      <3>2. Op(job[h]) = "submit" /\ job[h].todo # << >>
        BY <2>2, SubmitJob
      <3>3. CASE Leads(job[h], j2)
        <4>1. Op(j2) = None \/ (Op(j2) = "enqueue" /\ job[h].type = "META")
          BY <3>2, <3>3, LeadsOp
        <4> QED BY <1>2, <1>3, <3>1, <3>2, <3>3, <4>1, LeadsTurns DEF StillOp
      <3>4. CASE SameJob(j2, job[h]) /\ Op(j2) = "failTask" /\ ~Has(j2, "purgeSnap")
        BY <1>2, <1>3, <3>1, <3>2, <3>4 DEF StillOp, Turns, SameJob, Purges
      <3> QED BY <3>1, <3>3, <3>4
    <2>3. CASE WriteTask(h) \/ WriteDoc(h) \/ WriteDeletedDoc(h) \/ Count(h) \/ PurgeSync(h)
      <3>1. PICK j2 \in JobRec : /\ job' = [job EXCEPT ![h] = j2] /\ Path(j2, j2.todo)
                                 /\ Leads(job[h], j2)
        BY <2>3, GoesOn
      <3>2. job[h].todo # << >>
        BY <2>3, GoesOn
      <3>3. Op(job[h]) \in {"failTask", "startTask", "finTask", "startDoc", "failDoc", "finDoc", "count",
                            "markDeleting", "afterDelete", "purgeSync"}
        BY <2>3, OpIs DEF WriteTask, WriteDoc, WriteDeletedDoc, Count, PurgeSync, None
      <3>4. StillOp(job[h], j2)
        BY <3>1, <3>3, LeadsOp DEF StillOp
      <3> QED BY <1>2, <1>3, <3>1, <3>2, <3>4, LeadsTurns
    <2>4. CASE ParserCancel(h)
      <3>1. PICK j2 \in JobRec :
              /\ job' = [job EXCEPT ![h] = j2] /\ Path(j2, j2.todo)
              /\ j2 = Idle \/ (Leads(job[h], j2) /\ Op(j2) = "cancelRead")
        BY <2>4, ParserCancelJob
      <3>2. Op(job[h]) = "parserCancel" /\ job[h].todo # << >>
        BY <2>4, ParserCancelJob
      <3>3. StillOp(job[h], j2)
        BY <3>1, <3>2 DEF StillOp
      <3>4. Turns(job[h], j2)
        BY <1>3, <1>4, <3>1, <3>2, LeadsTurns
      <3> QED BY <1>2, <1>3, <3>1, <3>2, <3>3, <3>4
    <2>5. CASE CancelRead(h)
      <3>1. PICK j2 \in JobRec :
              /\ job' = [job EXCEPT ![h] = j2] /\ Path(j2, j2.todo)
              /\ \/ j2 = Idle
                 \/ /\ j2.kb = job[h].kb /\ j2.type = job[h].type /\ j2.task = job[h].task
                    /\ j2.status = "CANCELED"
              /\ Has(j2, "purgeSnap") => Has(job[h], "purgeSnap")
              /\ \/ /\ Ignored(job[h].task, "CANCELED")
                    /\ j2 = Idle \/ Op(j2) = "purgeRel"
                 \/ ~Ignored(job[h].task, "CANCELED") /\ Op(j2) = "finTask"
        BY <2>5, CancelReadJob
      <3>2. Op(job[h]) = "cancelRead" /\ job[h].todo # << >>
        BY <2>5, CancelReadJob
      <3> QED BY <1>2, <1>3, <3>1, <3>2 DEF StillOp, Turns, Purges
    <2> QED BY <2>1, <2>2, <2>3, <2>4, <2>5 DEF Still
  <1> QED BY <1>1, <1>5

\* The operations that change a relation or a snapshot.
LEMMA BindIs ==
  ASSUME Typed, Paths, NEW h \in Threads, Bind(h)
  PROVE  /\ Op(job[h]) = "bind" /\ Op(job'[h]) = "enqueue" /\ job'[h] # Idle
         /\ Turns(job[h], job'[h]) /\ job[h].kb \in Kbs
         /\ bound' = bound \cup {job[h].kb} /\ UNCHANGED <<snap, tasks, stage, nodes, outbox, hurt, troubles>>
  <1>1. PICK j2 \in JobRec : job' = [job EXCEPT ![h] = j2] /\ Leads(job[h], j2)
    BY GoesOn
  <1>2. job[h].todo # << >> /\ Op(job[h]) = "bind" /\ job'[h] = j2 /\ job[h] \in JobRec /\ job[h].kb \in Kbs
    BY <1>1, GoesOn, OpIs, OneJob, HeadIs DEF Bind, None
  <1>3. Op(j2) = "enqueue" /\ j2 # Idle /\ Turns(job[h], j2)
    BY <1>1, <1>2, LeadsOp, LeadsTurns
  <1>4. bound' = bound \cup {job[h].kb} /\ UNCHANGED <<snap, tasks, stage, nodes, outbox, hurt, troubles>>
    BY DEF Bind, parser, mishaps
  <1> QED BY <1>2, <1>3, <1>4

LEMMA EnqueueIs ==
  ASSUME Typed, Paths, NEW h \in Threads, Enqueue(h)
  PROVE  /\ Op(job[h]) = "enqueue" /\ Op(job'[h]) = "submit" /\ job'[h] # Idle
         /\ job'[h].kb = job[h].kb /\ job'[h].type = job[h].type /\ job'[h].task = Len(tasks) + 1
         /\ job'[h].status = None
         /\ (Purges(job'[h]) => Purges(job[h])) /\ job[h].kb \in Kbs /\ job[h].type \in Types
         /\ UNCHANGED <<bound, stage, nodes, outbox, hurt, troubles>> /\ Len(tasks) \in Nat
         /\ Len(tasks') = Len(tasks) + 1 /\ \A i \in 1..Len(tasks) : tasks'[i] = tasks[i]
         /\ tasks'[Len(tasks) + 1].kb = job[h].kb /\ tasks'[Len(tasks) + 1].type = job[h].type
         /\ snap'[job[h].kb].status = IF job[h].type = "DELETE" THEN "DELETING" ELSE "WAITING"
         /\ snap'[job[h].kb].task = Len(tasks) + 1 /\ snap'[job[h].kb].type = job[h].type
         /\ \A k \in Kbs : k # job[h].kb => snap'[k] = snap[k]
  <1>1. PICK j2 \in JobRec :
          /\ job' = [job EXCEPT ![h] = j2]
          /\ j2.kb = job[h].kb /\ j2.type = job[h].type /\ j2.task = Len(tasks) + 1
          /\ j2.todo = Tail(job[h].todo) /\ Op(j2) = "submit" /\ j2.status = None
    BY EnqueueJob
  <1>2. /\ job'[h] = j2 /\ Op(job[h]) = "enqueue" /\ job[h].todo # << >> /\ job[h] \in JobRec
        /\ job[h].kb \in Kbs /\ job[h].type \in Types /\ job[h].todo \in Seq(Ops) /\ Len(tasks) \in Nat
        /\ tasks \in Seq(TaskRec) /\ snap \in [Kbs -> SnapRec]
    BY <1>1, EnqueueJob, OneJob, HeadIs, Shape
  <1>3. Purges(j2) => Purges(job[h])
    BY <1>1, <1>2, TailShape DEF Purges, Has
  <1>4. j2 # Idle
    BY <1>1, IdlePath DEF None
  <1>5. PICK status \in {"DELETING", "WAITING"} :
          /\ status = IF job[h].type = "DELETE" THEN "DELETING" ELSE "WAITING"
          /\ tasks' = Append(tasks, [type |-> job[h].type, kb |-> job[h].kb, status |-> status])
          /\ SetSnap(job[h].kb, status, Len(tasks) + 1, job[h].type)
    BY DEF Enqueue
  <1>6. /\ snap'[job[h].kb].status = status
        /\ snap'[job[h].kb].task = Len(tasks) + 1 /\ snap'[job[h].kb].type = job[h].type
        /\ \A k \in Kbs : k # job[h].kb => snap'[k] = snap[k]
    BY <1>2, <1>5 DEF SetSnap
  <1>7. /\ Len(tasks') = Len(tasks) + 1 /\ \A i \in 1..Len(tasks) : tasks'[i] = tasks[i]
        /\ tasks'[Len(tasks) + 1].kb = job[h].kb /\ tasks'[Len(tasks) + 1].type = job[h].type
    BY <1>2, <1>5
  <1>8. UNCHANGED <<bound, stage, nodes, outbox, hurt, troubles>>
    BY DEF Enqueue, parser, mishaps
  <1> QED BY <1>1, <1>2, <1>3, <1>4, <1>5, <1>6, <1>7, <1>8

LEMMA WriteSnapOp ==
  ASSUME Typed, Paths, NEW h \in Threads, WriteSnap(h)
  PROVE  /\ Op(job[h]) \in {"failSnap", "startSnap", "finSnap"} /\ Turns(job[h], job'[h])
         /\ job[h].todo # << >> /\ Op(job[h]) = job[h].todo[1]
         /\ Op(job'[h]) \in {None, "failDoc", "startDoc", "finDoc", "finUnbind", "count"}
         /\ job[h].kb \in Kbs /\ job[h].task \in 1..Len(tasks)
         /\ UNCHANGED <<bound, tasks, stage, nodes, outbox, hurt, troubles>>
         /\ snap'[job[h].kb] # NoSnap /\ snap'[job[h].kb].task = job[h].task
         /\ snap'[job[h].kb].type = job[h].type /\ snap'[job[h].kb].status \in Statuses
         /\ (Op(job[h]) = "startSnap" /\ job[h].type = "DELETE" => snap'[job[h].kb].status = "DELETING")
         /\ snap'[job[h].kb].status = "DELETED" =>
              /\ Op(job[h]) = "finSnap" /\ job[h].type = "DELETE" /\ job[h].status = "SUCCESS"
              /\ Op(job'[h]) = "finUnbind" /\ job'[h] # Idle
         /\ Op(job'[h]) = "finUnbind" => snap'[job[h].kb].status = "DELETED"
         /\ \A k \in Kbs : k # job[h].kb => snap'[k] = snap[k]
  <1>1. PICK j2 \in JobRec : job' = [job EXCEPT ![h] = j2] /\ Leads(job[h], j2)
    BY GoesOn
  <1>2. /\ job'[h] = j2 /\ Op(job[h]) = job[h].todo[1] /\ job[h].todo # << >> /\ job[h] \in JobRec
        /\ job[h].kb \in Kbs /\ job[h].type \in Types /\ job[h].task \in 1..Len(tasks) /\ Len(tasks) \in Nat
        /\ Len(tasks) <= MaxTasks /\ MaxTasks \in Nat
        /\ job[h].todo[1] \in {"failSnap", "startSnap", "finSnap"}
    BY <1>1, GoesOn, OneJob, HeadIs, OpIs, WriteSnapIs, Shape
  <1>3. PICK status \in Statuses :
          /\ SetSnap(job[h].kb, status, job[h].task, job[h].type)
          /\ job[h].todo[1] = "failSnap" => status = "FAILED"
          /\ job[h].todo[1] = "startSnap" =>
               status = IF job[h].type = "DELETE" THEN "DELETING" ELSE "WORKING"
          /\ job[h].todo[1] = "finSnap" =>
               status = IF job[h].type = "DELETE" /\ job[h].status = "SUCCESS"
                        THEN "DELETED" ELSE job[h].status
    BY WriteSnapIs
  <1>4. /\ snap'[job[h].kb].status = status /\ snap'[job[h].kb].task = job[h].task
        /\ snap'[job[h].kb].type = job[h].type /\ snap'[job[h].kb] # NoSnap
        /\ \A k \in Kbs : k # job[h].kb => snap'[k] = snap[k]
    BY <1>2, <1>3, SetSnapFits
  <1>5. Turns(job[h], j2) /\ Op(j2) \in {None, "failDoc", "startDoc", "finDoc", "finUnbind", "count"}
    BY <1>1, <1>2, LeadsTurns, LeadsOp
  <1>6. status = "DELETED" =>
          job[h].todo[1] = "finSnap" /\ job[h].type = "DELETE" /\ job[h].status = "SUCCESS"
    <2>1. job[h].status # "DELETED"
      BY <1>2 DEF JobRec, Outcomes, None
    <2> QED BY <1>2, <1>3, <2>1
  <1>7. status = "DELETED" => Op(j2) = "finUnbind" /\ j2 # Idle
    BY <1>1, <1>2, <1>6, LeadsOp
  <1>8. UNCHANGED <<bound, tasks, stage, nodes, outbox, hurt, troubles>>
    BY DEF WriteSnap, parser, mishaps
  <1>9. Op(j2) = "finUnbind" => status = "DELETED"
    <2>1. Op(j2) = "finUnbind" => Op(job[h]) = "finSnap" /\ job[h].type = "DELETE" /\ job[h].status = "SUCCESS"
      BY <1>1, LeadsOp
    <2> QED BY <1>2, <1>3, <2>1
  <1> QED BY <1>2, <1>3, <1>4, <1>5, <1>6, <1>7, <1>8, <1>9

LEMMA UnbindIs ==
  ASSUME Typed, Paths, NEW h \in Threads, Unbind(h)
  PROVE  /\ Op(job[h]) = "finUnbind" /\ Op(job'[h]) = "count" /\ Turns(job[h], job'[h])
         /\ bound' = bound \ {job[h].kb} /\ job[h].kb \in Kbs
         /\ UNCHANGED <<snap, tasks, stage, nodes, outbox, hurt, troubles>>
  <1>1. PICK j2 \in JobRec : job' = [job EXCEPT ![h] = j2] /\ Leads(job[h], j2)
    BY GoesOn
  <1>2. job[h].todo # << >> /\ Op(job[h]) = "finUnbind" /\ job'[h] = j2 /\ job[h] \in JobRec /\ job[h].kb \in Kbs
    BY <1>1, GoesOn, OpIs, OneJob, HeadIs DEF Unbind, None
  <1>3. Op(j2) = "count" /\ Turns(job[h], j2)
    BY <1>1, <1>2, LeadsOp, LeadsTurns
  <1>4. bound' = bound \ {job[h].kb} /\ UNCHANGED <<snap, tasks, stage, nodes, outbox, hurt, troubles>>
    BY DEF Unbind, parser, mishaps
  <1> QED BY <1>2, <1>3, <1>4

LEMMA PurgeRelIs ==
  ASSUME Typed, Paths, NEW h \in Threads, PurgeRel(h)
  PROVE  /\ Op(job[h]) = "purgeRel" /\ Op(job'[h]) = "purgeSnap" /\ Turns(job[h], job'[h])
         /\ Purges(job[h]) /\ job'[h] # Idle /\ job[h].kb \in Kbs
         /\ bound' = bound \ {job[h].kb}
         /\ UNCHANGED <<snap, tasks, stage, nodes, outbox, hurt, troubles>>
  <1>1. PICK j2 \in JobRec : job' = [job EXCEPT ![h] = j2] /\ SameJob(j2, job[h]) /\ Op(j2) = "purgeSnap"
    BY PurgeRelJob
  <1>2. Op(job[h]) = "purgeRel" /\ Purges(job[h]) /\ job'[h] = j2 /\ job[h].kb \in Kbs
    BY <1>1, PurgeRelJob, OneJob, HeadIs DEF Purges
  <1>3. j2 # Idle
    BY <1>1, IdlePath DEF None
  <1>4. bound' = bound \ {job[h].kb} /\ UNCHANGED <<snap, tasks, stage, nodes, outbox, hurt, troubles>>
    BY DEF PurgeRel, parser, mishaps
  <1> QED BY <1>1, <1>2, <1>3, <1>4 DEF Turns, SameJob

LEMMA PurgeSnapIs ==
  ASSUME Typed, Paths, NEW h \in Threads, PurgeSnap(h)
  PROVE  /\ Op(job[h]) = "purgeSnap" /\ Op(job'[h]) \in {None, "purgeSync"} /\ Turns(job[h], job'[h])
         /\ Purges(job[h]) /\ job[h].kb \in Kbs /\ snap'[job[h].kb] = NoSnap
         /\ \A k \in Kbs : k # job[h].kb => snap'[k] = snap[k]
         /\ UNCHANGED <<bound, tasks, stage, nodes, outbox, hurt, troubles>>
  <1>1. PICK j2 \in JobRec : job' = [job EXCEPT ![h] = j2] /\ Leads(job[h], j2)
    BY GoesOn
  <1>2. /\ job[h].todo # << >> /\ Op(job[h]) = "purgeSnap" /\ job'[h] = j2 /\ job[h] \in JobRec
        /\ job[h].kb \in Kbs /\ Len(job[h].todo) \in Nat /\ Len(job[h].todo) >= 1 /\ snap \in [Kbs -> SnapRec]
    BY <1>1, GoesOn, OpIs, OneJob, HeadIs, Shape DEF PurgeSnap, None
  <1>3. Op(j2) \in {None, "purgeSync"} /\ Turns(job[h], j2)
    BY <1>1, <1>2, LeadsOp, LeadsTurns
  <1>4. Purges(job[h])
    BY <1>2 DEF Purges, Has, Op
  <1>5. /\ snap' = [snap EXCEPT ![job[h].kb] = NoSnap]
        /\ UNCHANGED <<bound, tasks, stage, nodes, outbox, hurt, troubles>>
    BY DEF PurgeSnap, parser, mishaps
  <1>6. snap'[job[h].kb] = NoSnap /\ \A k \in Kbs : k # job[h].kb => snap'[k] = snap[k]
    BY <1>2, <1>5
  <1> QED BY <1>2, <1>3, <1>4, <1>5, <1>6

LEMMA AskIs ==
  ASSUME Typed, NEW h \in Threads, Asks(h)
  PROVE  /\ job[h] = Idle /\ AskedJob(job'[h]) /\ Op(job[h]) = None
         /\ UNCHANGED <<bound, snap, tasks, stage, nodes, outbox, hurt, troubles>>
  <1>1. PICK j2 \in JobRec :
          /\ job[h] = Idle /\ job' = [job EXCEPT ![h] = j2] /\ AskedJob(j2)
          /\ UNCHANGED <<upload, bound, snap, tasks, stage, nodes, outbox, hurt, troubles>>
    BY DEF Asks
  <1>2. job'[h] = j2
    BY <1>1, OneJob
  <1> QED BY <1>1, <1>2, IdlePath

LEMMA ReceiveIs ==
  ASSUME Typed, NEW h \in Threads, Receive(h)
  PROVE  /\ job[h] = Idle /\ Op(job[h]) = None /\ ~Purges(job'[h])
         /\ UNCHANGED <<bound, snap, tasks, stage, nodes>> /\ hurt \subseteq hurt'
         /\ outbox # << >> /\ outbox' = Tail(outbox) /\ Head(outbox) = outbox[1] /\ 1 \in 1..Len(outbox)
         /\ Head(outbox).task \in 1..Len(tasks)
         /\ job'[h] # Idle =>
              /\ ~Ignored(Head(outbox).task, Head(outbox).status)
              /\ Serves(job'[h], Head(outbox))
              /\ Op(job'[h]) = IF job'[h].status = "WORKING" THEN "startTask" ELSE "finTask"
         /\ Op(job'[h]) \in {None, "startTask", "finTask"}
  <1>1. PICK j2 :
              /\ job' = [job EXCEPT ![h] = j2] /\ ~Has(j2, "purgeSnap")
              /\ IF Ignored(Head(outbox).task, Head(outbox).status) THEN j2 = Idle
                 ELSE /\ Serves(j2, Head(outbox))
                      /\ Op(j2) = IF j2.status = "WORKING" THEN "startTask" ELSE "finTask"
    BY ReceiveJob
  <1>2. /\ job'[h] = j2 /\ job[h] = Idle /\ outbox # << >> /\ outbox' = Tail(outbox)
        /\ UNCHANGED <<bound, snap, tasks, stage, nodes>> /\ hurt \subseteq hurt'
    BY <1>1, OneJob, ReceiveTyped
  <1>3. Head(outbox) = outbox[1] /\ 1 \in 1..Len(outbox) /\ Head(outbox).task \in 1..Len(tasks)
    BY <1>2, OutboxHead
  <1> QED BY <1>1, <1>2, <1>3, IdlePath DEF Purges
-----------------------------------------------------------------------------
(* What a deletion has still to do for a relation.                         *)

\* What a thread at an operation knows of the relation and the snapshot.
Knows(j) ==
  /\ Op(j) \in {"mark", "enqueue", "submit"} => j.kb \in bound
  /\ Op(j) \in {"bind", "mark"} => j.task = 0
  /\ Op(j) = "finUnbind" => snap[j.kb].status = "DELETED" /\ snap[j.kb].task = j.task
  /\ Op(j) \in Asking => ~Purges(j)

\* A thread that is going to remove the relation, or to replace the snapshot.
Relieves(j) == Op(j) = "finUnbind" \/ (Op(j) = "enqueue" /\ j.task = 0)

\* A snapshot that is DELETED is that of a deletion, and its relation is gone or going.
Leaves(k) ==
  snap[k].status = "DELETED" =>
    /\ snap[k].type = "DELETE"
    /\ snap[k].task \in hurt \/ k \notin bound \/ \E h \in Threads : job[h].kb = k /\ Relieves(job[h])
Left == (\A h \in Threads : Knows(job[h])) /\ \A k \in Kbs : Leaves(k)

LEMMA IdleKnows == Knows(Idle) /\ ~Relieves(Idle)
  BY IdlePath DEF Knows, Relieves, Asking, None

\* The only thread goes on.
LEMMA LeftStep ==
  ASSUME Typed, \A g, i \in Threads : g = i, NEW h \in Threads, Knows(job[h])',
         \A k \in Kbs : snap'[k].status = "DELETED" =>
           /\ snap'[k].type = "DELETE"
           /\ snap'[k].task \in hurt' \/ k \notin bound' \/ (job'[h].kb = k /\ Relieves(job'[h]))
  PROVE  Left'
  <1>1. \A g \in Threads : Knows(job[g])'
    BY DEF Knows, Purges, Has, Op, Asking
  <1>2. \A k \in Kbs : Leaves(k)'
    BY DEF Leaves, Relieves, Op
  <1> QED BY <1>1, <1>2 DEF Left

\* The relations and the snapshots are as they were, and no relation was about to go.
LEMMA LeftKept ==
  ASSUME Typed, Left, \A g, i \in Threads : g = i, NEW h \in Threads, Knows(job[h])',
         UNCHANGED <<bound, snap>>, hurt \subseteq hurt', ~Relieves(job[h])
  PROVE  Left'
  <1>1. \A k \in Kbs : snap'[k].status = "DELETED" =>
          snap'[k].type = "DELETE" /\ (snap'[k].task \in hurt' \/ k \notin bound')
    BY DEF Left, Leaves
  <1> QED BY <1>1, LeftStep

LEMMA HurtGrows ==
  ASSUME Typed, NEW h \in Threads, Asks(h) \/ Receive(h) \/ Work(h)
  PROVE  hurt \subseteq hurt'
  <1>1. CASE Asks(h) \/ Receive(h) \/ Submit(h)
    BY <1>1, AskIs, ReceiveIs, SubmitTyped
  <1>2. CASE Work(h) /\ ~Submit(h)
    BY <1>2 DEF Work, Bind, Mark, Enqueue, WriteTask, WriteSnap, WriteDoc, WriteDeletedDoc, Count,
       Unbind, ParserCancel, CancelRead, PurgeRel, PurgeSnap, PurgeSync, mishaps
  <1> QED BY <1>1, <1>2

LEMMA LeftStill ==
  ASSUME Typed, Paths, Left, \A g, i \in Threads : g = i, NEW h \in Threads,
         Asks(h) \/ Receive(h) \/ Still(h)
  PROVE  Left'
  <1>1. hurt \subseteq hurt' /\ Knows(job[h])
    BY HurtGrows DEF Work, Still, Left
  <1>2. CASE Asks(h)
    <2>1. AskedJob(job'[h]) /\ UNCHANGED <<bound, snap>> /\ ~Relieves(job[h])
      BY <1>2, AskIs, IdleKnows
    <2>2. Knows(job[h])'
      BY <2>1 DEF AskedJob, Knows, Op, Purges, Has, Asking
    <2> QED BY <1>1, <2>1, <2>2, LeftKept
  <1>3. CASE Receive(h)
    <2>1. /\ Op(job'[h]) \in {None, "startTask", "finTask"} /\ UNCHANGED <<bound, snap>>
          /\ ~Relieves(job[h])
      BY <1>3, ReceiveIs, IdleKnows
    <2>2. Knows(job[h])'
      BY <2>1 DEF Knows, Op, Asking, None
    <2> QED BY <1>1, <2>1, <2>2, LeftKept
  <1>4. CASE Still(h)
    <2>1. /\ UNCHANGED <<bound, snap>> /\ Turns(job[h], job'[h]) /\ StillOp(job[h], job'[h])
      BY <1>4, StillWorks
    <2>2. ~Relieves(job[h])
      BY <2>1 DEF StillOp, Relieves
    <2>3. Op(job'[h]) = "enqueue" \/ Op(job'[h]) \notin Asking \cup {"finUnbind"}
      BY <2>1, IdlePath DEF StillOp, Asking, None
    <2>4. Op(job'[h]) = "enqueue" => Op(job[h]) \in {"mark", "submit"} /\ job'[h] # Idle
      BY <2>1, IdlePath DEF StillOp, None
    <2>5. Knows(job[h])'
      <3>1. CASE Op(job'[h]) = "enqueue"
        <4>1. job'[h].kb \in bound /\ ~Purges(job'[h])
          BY <1>1, <2>1, <2>4, <3>1 DEF Knows, Turns, Asking
        <4> QED BY <2>1, <3>1, <4>1 DEF Knows, Op, Purges, Has
      <3>2. CASE Op(job'[h]) \notin Asking \cup {"finUnbind"}
        BY <3>2 DEF Knows, Asking, Op
      <3> QED BY <2>3, <3>1, <3>2
    <2> QED BY <1>1, <2>1, <2>2, <2>5, LeftKept
  <1> QED BY <1>2, <1>3, <1>4

LEMMA LeftWorks ==
  ASSUME Typed, Paths, Left, \A g, i \in Threads : g = i, NEW h \in Threads,
         Bind(h) \/ Enqueue(h) \/ WriteSnap(h) \/ Unbind(h) \/ PurgeRel(h) \/ PurgeSnap(h)
  PROVE  Left'
  <1>1. /\ Knows(job[h])
        /\ \A k \in Kbs : snap[k].status = "DELETED" =>
             /\ snap[k].type = "DELETE"
             /\ snap[k].task \in hurt \/ k \notin bound \/ (job[h].kb = k /\ Relieves(job[h]))
    BY DEF Left, Leaves
  <1>2. CASE Bind(h)
    <2>1. Knows(job[h])'
      <3>1. job'[h].kb \in bound' /\ Op(job'[h]) = "enqueue" /\ ~Purges(job'[h])
        BY <1>1, <1>2, BindIs DEF Turns, Knows, Asking
      <3> QED BY <3>1 DEF Knows, Op, Purges, Has
    <2>2. ASSUME NEW k \in Kbs, snap'[k].status = "DELETED"
          PROVE  /\ snap'[k].type = "DELETE"
                 /\ snap'[k].task \in hurt' \/ k \notin bound' \/ (job'[h].kb = k /\ Relieves(job'[h]))
      <3>1. CASE k = job[h].kb
        BY <1>1, <1>2, <2>2, <3>1, BindIs DEF Turns, Knows, Relieves
      <3>2. CASE k # job[h].kb
        BY <1>1, <1>2, <2>2, <3>2, BindIs
      <3> QED BY <3>1, <3>2
    <2> QED BY <2>1, <2>2, LeftStep
  <1>3. CASE Enqueue(h)
    <2>1. Knows(job[h])'
      <3>1. job'[h].kb \in bound' /\ Op(job'[h]) = "submit" /\ ~Purges(job'[h])
        BY <1>1, <1>3, EnqueueIs DEF Knows, Asking
      <3> QED BY <3>1 DEF Knows, Op, Purges, Has
    <2>2. ASSUME NEW k \in Kbs, snap'[k].status = "DELETED"
          PROVE  snap'[k].type = "DELETE" /\ (snap'[k].task \in hurt' \/ k \notin bound')
      <3>1. k # job[h].kb
        BY <1>3, <2>2, EnqueueIs
      <3> QED BY <1>1, <1>3, <2>2, <3>1, EnqueueIs
    <2> QED BY <2>1, <2>2, LeftStep
  <1>4. CASE WriteSnap(h)
    <2>1. Op(job'[h]) \notin Asking
      BY <1>4, WriteSnapOp DEF Asking, None
    <2>2. ASSUME NEW k \in Kbs, snap'[k].status = "DELETED"
          PROVE  /\ snap'[k].type = "DELETE"
                 /\ snap'[k].task \in hurt' \/ k \notin bound' \/ (job'[h].kb = k /\ Relieves(job'[h]))
      <3>1. CASE k = job[h].kb
        BY <1>4, <2>2, <3>1, WriteSnapOp DEF Turns, Relieves
      <3>2. CASE k # job[h].kb
        BY <1>1, <1>4, <2>2, <3>2, WriteSnapOp DEF Relieves
      <3> QED BY <3>1, <3>2
    <2>3. Op(job'[h]) = "finUnbind" =>
            snap'[job'[h].kb].status = "DELETED" /\ snap'[job'[h].kb].task = job'[h].task
      BY <1>4, IdlePath, WriteSnapOp DEF Turns, None
    <2>4. Knows(job[h])'
      BY <2>1, <2>3 DEF Knows, Op, Asking
    <2> QED BY <2>2, <2>4, LeftStep
  <1>5. CASE Unbind(h) \/ PurgeRel(h)
    <2>1. Knows(job[h])'
      <3>1. Op(job'[h]) \notin Asking \cup {"finUnbind"}
        BY <1>5, UnbindIs, PurgeRelIs DEF Asking
      <3> QED BY <3>1 DEF Knows, Op, Asking
    <2>2. bound' = bound \ {job[h].kb} /\ UNCHANGED <<snap, hurt>>
      BY <1>5, UnbindIs, PurgeRelIs
    <2> QED BY <1>1, <2>1, <2>2, LeftStep
  <1>6. CASE PurgeSnap(h)
    <2>1. Knows(job[h])'
      <3>1. Op(job'[h]) \notin Asking \cup {"finUnbind"}
        BY <1>6, PurgeSnapIs DEF Asking, None
      <3> QED BY <3>1 DEF Knows, Op, Asking
    <2>2. ASSUME NEW k \in Kbs, snap'[k].status = "DELETED"
          PROVE  snap'[k].type = "DELETE" /\ (snap'[k].task \in hurt' \/ k \notin bound')
      <3>1. k # job[h].kb
        BY <1>6, <2>2, PurgeSnapIs DEF NoSnap, None
      <3>2. ~Relieves(job[h])
        BY <1>6, PurgeSnapIs DEF Relieves
      <3> QED BY <1>1, <1>6, <2>2, <3>1, <3>2, PurgeSnapIs
    <2> QED BY <2>1, <2>2, LeftStep
  <1> QED BY <1>2, <1>3, <1>4, <1>5, <1>6

\* A thread that is stopped leaves the task of the snapshot in trouble.
LEMMA RelievesVictim ==
  ASSUME Typed, Left, NEW h \in Threads, NEW k \in Kbs, snap[k].status = "DELETED",
         job[h].kb = k, Relieves(job[h])
  PROVE  job[h] # Idle /\ snap[k].task \in Victim(h)
  <1>1. job[h] # Idle /\ snap[k] # NoSnap
    BY IdleKnows DEF NoSnap, None
  <1>2. snap[k].task # 0
    <2>1. snap[k].task \in 1..Len(tasks)
      BY <1>1, SnapShape
    <2> QED BY <2>1
  <1>3. CASE Op(job[h]) = "finUnbind"
    <2>1. snap[k].task = job[h].task
      BY <1>3 DEF Left, Knows
    <2>2. Victim(h) = {snap[k].task} \ {0}
      BY <1>2, <2>1 DEF Victim
    <2> QED BY <1>1, <1>2, <2>2
  <1>4. CASE job[h].task = 0
    <2>1. Victim(h) = {snap[k].task} \ {0}
      BY <1>4 DEF Victim
    <2> QED BY <1>1, <1>2, <2>1
  <1> QED BY <1>1, <1>3, <1>4 DEF Relieves

LEMMA LeftTroubles ==
  ASSUME Typed, Left, Undelivered \/ Crash \/ Parse \/ \E h \in Threads : Raise(h)
  PROVE  Left'
  <1>1. CASE Undelivered \/ Parse
    <2>1. UNCHANGED <<bound, snap, job>> /\ hurt \subseteq hurt'
      BY <1>1, UndeliveredTyped DEF Parse, Claim, Finish, rows, mishaps
    <2>2. \A h \in Threads : Knows(job[h])'
      BY <2>1 DEF Left, Knows, Op, Purges, Has, Asking
    <2>3. \A k \in Kbs : Leaves(k)'
      BY <2>1 DEF Left, Leaves, Relieves, Op
    <2> QED BY <2>2, <2>3 DEF Left
  <1>2. CASE Crash
    <2>1. /\ UNCHANGED <<bound, snap>> /\ job' = [h \in Threads |-> Idle]
          /\ hurt' = hurt \cup UNION {Victim(h) : h \in {g \in Threads : job[g] # Idle}}
      BY <1>2, CrashTyped
    <2>2. \A h \in Threads : Knows(job[h])'
      BY <2>1, IdlePath DEF Knows, Op, Idle, Asking, None
    <2>3. ASSUME NEW k \in Kbs, snap'[k].status = "DELETED"
          PROVE  snap'[k].type = "DELETE" /\ (snap'[k].task \in hurt' \/ k \notin bound')
      <3>1. \A h \in Threads : job[h].kb = k /\ Relieves(job[h]) =>
              job[h] # Idle /\ snap[k].task \in Victim(h)
        BY <2>1, <2>3, RelievesVictim
      <3> QED BY <2>1, <2>3, <3>1 DEF Left, Leaves
    <2> QED BY <2>2, <2>3 DEF Left, Leaves
  <1>3. ASSUME NEW h \in Threads, Raise(h) PROVE Left'
    <2>1. /\ UNCHANGED <<bound, snap>> /\ job' = [job EXCEPT ![h] = Idle]
          /\ hurt' = hurt \cup Victim(h)
      BY <1>3, RaiseTyped
    <2>2. job'[h] = Idle /\ \A g \in Threads : g # h => job'[g] = job[g]
      BY <2>1, OneJob
    <2>3. \A g \in Threads : Knows(job[g])'
      <3>1. \A g \in Threads : Knows(job'[g])
        BY <2>2, IdleKnows DEF Left
      <3> QED BY <2>1, <3>1 DEF Knows, Op, Purges, Has, Asking
    <2>4. ASSUME NEW k \in Kbs PROVE Leaves(k)'
      <3>1. job[h].kb = k /\ Relieves(job[h]) /\ snap[k].status = "DELETED" => snap[k].task \in Victim(h)
        BY RelievesVictim
      <3>2. \A g \in Threads : g # h => Relieves(job[g])' = Relieves(job[g])
        BY <2>2 DEF Relieves, Op
      <3> QED BY <2>1, <2>2, <3>1, <3>2 DEF Left, Leaves
    <2> QED BY <2>3, <2>4 DEF Left
  <1> QED BY <1>1, <1>2, <1>3

LEMMA LeftWalks ==
  ASSUME Typed, Paths, Left, Walks, \A g, i \in Threads : g = i
  PROVE  Left'
  BY LeftStill, LeftWorks, LeftTroubles DEF Walks, Work, Still
-----------------------------------------------------------------------------
(* A deletion on its way rules its knowledge base.                         *)

\* Task n is not the last one of the knowledge base.
Later(k, n) == \E id \in (n + 1)..Len(tasks) : tasks[id].kb = k

\* A task that has not ended, or whose callbacks have not all arrived.
Going(d) == Busy(d) \/ \E p \in 1..Len(outbox) : outbox[p].task = d

\* The snapshot waits for the deletion, and no thread but that of the deletion's own
\* callbacks works in the knowledge base; one may try to cancel another task.
Yields(j, k, d) == j.kb = k => ~Purges(j) /\ (j.task = d \/ Op(j) \in Canceling)
Rules(k, d) ==
  /\ snap[k].status = "DELETING" /\ snap[k].task = d /\ k \in bound
  /\ \A h \in Threads : Yields(job[h], k, d)

\* A thread that works on a deletion finds its task named.
Holds(j) ==
  j.type = "DELETE" /\ j.task \notin hurt \cup {0} /\ Op(j) # "parserCancel" =>
    snap[j.kb].task = j.task /\ ~Purges(j) /\ Op(j) # "enqueue"

Deletions ==
  /\ \A d \in 1..Len(tasks) :
       d \notin hurt /\ tasks[d].type = "DELETE" /\ Going(d) => Rules(tasks[d].kb, d)
  /\ \A h \in Threads : Holds(job[h])
  /\ \A k \in Kbs : snap[k].type = "DELETE" /\ snap[k].task \notin hurt => ~Later(k, snap[k].task)

\* A callback in the outbox was there before, or is posted by the parsing service.
JustPosted(cb) ==
  \E id \in Ids, s \in {"WORKING", "SUCCESS", "FAILED"} :
    /\ cb = [task |-> id, status |-> s]
    /\ \/ Claim(id) /\ s = "WORKING"
       \/ Finish(id, s) /\ s \in {"SUCCESS", "FAILED"}

LEMMA OutboxBack ==
  ASSUME Agreed, Steps, NEW p \in 1..Len(outbox'), outbox'[p].task \notin hurt'
  PROVE  JustPosted(outbox'[p]) \/ \E r \in 1..Len(outbox) : outbox[r] = outbox'[p]
  <1> DEFINE Old == \E r \in 1..Len(outbox) : outbox[r] = outbox'[p]
  <1>1. Typed /\ outbox \in Seq(Posted) /\ Len(outbox) \in Nat
    BY Shape DEF Agreed
  <1>2. ASSUME NEW q \in Seq(Posted), NEW cb \in Posted, outbox' = Append(q, cb)
        PROVE  (p \in 1..Len(q) /\ outbox'[p] = q[p]) \/ outbox'[p] = cb
    BY <1>2
  <1>3. CASE outbox' = outbox
    BY <1>3
  <1>4. ASSUME NEW h \in Threads, Receive(h) PROVE Old
    BY <1>1, <1>4, ReceiveTyped, OutboxHead
  <1>5. CASE Undelivered
    <2>1. /\ outbox # << >> /\ hurt' = hurt \cup {Head(outbox).task}
          /\ outbox' \in {Append(Tail(outbox), Head(outbox)), Tail(outbox)}
          /\ Tail(outbox) \in Seq(Posted) /\ Head(outbox) \in Posted
          /\ \A r \in 1..Len(Tail(outbox)) : Tail(outbox)[r] = outbox[r + 1] /\ r + 1 \in 1..Len(outbox)
      BY <1>1, <1>5, UndeliveredTyped, OutboxHead
    <2>2. p \in 1..Len(Tail(outbox)) /\ outbox'[p] = Tail(outbox)[p]
      BY <1>2, <2>1
    <2> QED BY <2>1, <2>2
  <1>6. ASSUME NEW h \in Threads, Raise(h) PROVE Old
    <2>1. /\ job[h] # Idle /\ hurt' = hurt \cup Victim(h)
          /\ outbox' = IF job[h].posted
                       THEN Append(outbox, [task |-> job[h].task, status |-> job[h].status])
                       ELSE outbox
      BY <1>1, <1>6, RaiseTyped
    <2>2. CASE job[h].posted
      <3>1. [task |-> job[h].task, status |-> job[h].status] \in Posted /\ job[h].task \in hurt'
        BY <1>1, <2>1, <2>2, PostedShape, VictimFits
      <3>2. p \in 1..Len(outbox) /\ outbox'[p] = outbox[p]
        BY <1>1, <1>2, <2>1, <2>2, <3>1
      <3> QED BY <3>2
    <2> QED BY <1>3, <2>1, <2>2
  <1>7. CASE Posts
    <2>1. PICK id \in Ids, s \in {"WORKING", "SUCCESS", "FAILED"} :
            \/ Claim(id) /\ s = "WORKING"
            \/ Finish(id, s) /\ s \in {"SUCCESS", "FAILED"}
      BY <1>7 DEF Posts
    <2>2. /\ outbox' = Append(outbox, [task |-> id, status |-> s])
          /\ [task |-> id, status |-> s] \in Posted
      BY <1>1, <2>1, ParseTyped
    <2>3. Old \/ outbox'[p] = [task |-> id, status |-> s]
      BY <1>1, <1>2, <2>2
    <2> QED BY <2>1, <2>3 DEF JustPosted
  <1>8. ASSUME NEW h \in Threads,
               \/ Begins(h) \/ Moves(h) \/ Enqueue(h) \/ Submit(h) \/ WriteTask(h) \/ WriteSnap(h)
               \/ ParserCancel(h) \/ CancelRead(h)
        PROVE  outbox' = outbox
    BY <1>1, <1>8, EnqueueTyped, SubmitTyped, WriteTyped, ParserCancelTyped, CancelReadTyped
       DEF Begins, Moves
  <1>9. Crash => outbox' = outbox
    BY <1>1, CrashTyped
  <1> QED BY <1>3, <1>4, <1>5, <1>6, <1>7, <1>8, <1>9 DEF Steps

LEMMA GoingBack ==
  ASSUME Agreed, Steps, NEW d \in Ids, d \notin hurt', d <= Len(tasks), Going(d)'
  PROVE  Going(d)
  <1>1. CASE Busy(d)'
    BY <1>1, BusySteps, Shape DEF BusyBefore, Going, Agreed
  <1>2. ASSUME NEW p \in 1..Len(outbox'), outbox'[p].task = d PROVE Going(d)
    <2>1. CASE JustPosted(outbox'[p])
      BY <1>2, <2>1 DEF JustPosted, Claim, Finish, Going, Busy
    <2> QED BY <1>2, <2>1, OutboxBack DEF Going
  <1> QED BY <1>1, <1>2 DEF Going
-----------------------------------------------------------------------------
\* The only thread goes on.
LEMMA RulesStep ==
  ASSUME \A g, i \in Threads : g = i, NEW h \in Threads, NEW k \in Kbs, NEW d,
         snap'[k].status = "DELETING", snap'[k].task = d, k \in bound', Yields(job'[h], k, d)
  PROVE  Rules(k, d)'
  <1>1. \A g \in Threads : Yields(job[g], k, d)'
    BY DEF Yields, Purges, Has, Op
  <1> QED BY <1>1 DEF Rules

\* What the thread of another knowledge base does is of no interest.
LEMMA RulesElsewhere ==
  ASSUME \A g, i \in Threads : g = i, NEW h \in Threads, NEW k \in Kbs, NEW d, Rules(k, d),
         job[h].kb # k, job'[h].kb # k, snap'[k] = snap[k], k \in bound => k \in bound'
  PROVE  Rules(k, d)'
  BY RulesStep DEF Rules, Yields

LEMMA IdleElsewhere == \A k \in Kbs : Idle.kb # k
  BY LifecycleAssumption, IdleFits

LEMMA RulesStill ==
  ASSUME Agreed, Paths, \A g, i \in Threads : g = i, NEW h \in Threads, Still(h),
         NEW k \in Kbs, NEW d \in Ids, Rules(k, d)
  PROVE  Rules(k, d)'
  <1>1. /\ Typed /\ UNCHANGED <<bound, snap>> /\ Turns(job[h], job'[h]) /\ StillOp(job[h], job'[h])
        /\ job[h].todo # << >> /\ job'[h] \in JobRec /\ Path(job'[h], job'[h].todo)
    BY StillWorks DEF Agreed
  <1>2. Yields(job[h], k, d) /\ snap[k].status = "DELETING" /\ snap[k].task = d /\ k \in bound
    BY DEF Rules
  <1>3. CASE job'[h] = Idle \/ job[h].kb # k
    <2>1. job'[h].kb # k
      BY <1>1, <1>3, IdleElsewhere DEF Turns
    <2> QED BY <1>1, <1>2, <2>1, RulesStep DEF Yields
  <1>4. CASE job'[h] # Idle /\ job[h].kb = k
    <2>1. job'[h].kb = k /\ job'[h].task = job[h].task /\ ~Purges(job'[h])
      BY <1>1, <1>2, <1>4 DEF Turns, Yields
    <2>2. job[h].task # d => Op(job'[h]) = "cancelRead"
      <3> SUFFICES ASSUME job[h].task # d PROVE Op(job'[h]) = "cancelRead"
        OBVIOUS
      <3>1. Op(job[h]) \in Canceling
        BY <1>2, <1>4 DEF Yields
      <3>2. CASE Op(job[h]) = "parserCancel"
        BY <1>1, <1>4, <3>2 DEF StillOp
      <3>3. CASE Op(job[h]) = "cancelRead"
        <4>1. job[h].task # 0
          BY <1>1, <3>3, HeadIs DEF Op
        <4>2. tasks[job[h].task].kb = k
          BY <1>4, <4>1 DEF Agreed, Owned
        <4>3. Ignored(job[h].task, "CANCELED")
          BY <1>2, <4>2 DEF Ignored, NoSnap, None
        <4>4. Op(job'[h]) = "purgeRel"
          BY <1>1, <1>4, <3>3, <4>3 DEF StillOp
        <4> QED BY <1>1, <2>1, <4>4, PurgeRelPurges
      <3> QED BY <3>1, <3>2, <3>3 DEF Canceling
    <2> QED BY <1>1, <1>2, <2>1, <2>2, RulesStep DEF Yields, Canceling
  <1> QED BY <1>3, <1>4

LEMMA RulesComes ==
  ASSUME Agreed, \A g, i \in Threads : g = i, NEW h \in Threads, Asks(h) \/ Receive(h),
         NEW k \in Kbs, NEW d \in Ids, Rules(k, d)
  PROVE  Rules(k, d)'
  <1>1. Typed /\ snap[k].status = "DELETING" /\ snap[k].task = d /\ k \in bound
    BY DEF Agreed, Rules
  <1>2. CASE Asks(h)
    <2>1. AskedJob(job'[h]) /\ UNCHANGED <<bound, snap>>
      BY <1>1, <1>2, AskIs
    <2>2. Yields(job'[h], k, d)
      BY <1>1, <2>1 DEF AskedJob, Yields, Purges, Canceling
    <2> QED BY <1>1, <2>1, <2>2, RulesStep
  <1>3. CASE Receive(h)
    <2>1. ~Purges(job'[h]) /\ UNCHANGED <<bound, snap>>
      BY <1>1, <1>3, ReceiveIs
    <2>2. CASE job'[h] = Idle
      BY <1>1, <2>1, <2>2, IdleElsewhere, RulesStep DEF Yields
    <2>3. CASE job'[h] # Idle
      <3>1. /\ ~Ignored(Head(outbox).task, Head(outbox).status)
            /\ job'[h].kb = tasks[Head(outbox).task].kb /\ job'[h].task = Head(outbox).task
        BY <1>1, <1>3, <2>3, ReceiveIs DEF Serves
      <3>2. job'[h].kb = k => job'[h].task = d
        BY <1>1, <3>1 DEF Ignored, NoSnap, None
      <3> QED BY <1>1, <2>1, <3>2, RulesStep DEF Yields
    <2> QED BY <2>2, <2>3
  <1> QED BY <1>2, <1>3

LEMMA RulesWorks ==
  ASSUME Agreed, Paths, Finals, Left, Deletions, \A g, i \in Threads : g = i, NEW h \in Threads,
         Bind(h) \/ Enqueue(h) \/ WriteSnap(h) \/ Unbind(h) \/ PurgeRel(h) \/ PurgeSnap(h),
         NEW d \in 1..Len(tasks), d \notin hurt, tasks[d].type = "DELETE", Going(d),
         NEW k \in Kbs, k = tasks[d].kb
  PROVE  Rules(k, d)'
  <1>1. /\ Typed /\ Owned /\ Knows(job[h]) /\ Holds(job[h]) /\ d # 0
        /\ Rules(k, d) /\ Yields(job[h], k, d)
        /\ snap[k].status = "DELETING" /\ snap[k].task = d /\ k \in bound
    BY DEF Agreed, Left, Deletions, Rules
  <1>2. CASE Bind(h)
    <2>1. /\ Op(job[h]) = "bind" /\ job'[h] # Idle /\ Turns(job[h], job'[h]) /\ snap' = snap
          /\ bound \subseteq bound'
      BY <1>1, <1>2, BindIs
    <2>2. job[h].kb # k /\ job'[h].kb # k
      BY <1>1, <2>1 DEF Knows, Yields, Canceling, Turns
    <2> QED BY <1>1, <2>1, <2>2, RulesElsewhere
  <1>3. CASE Enqueue(h)
    <2>1. /\ Op(job[h]) = "enqueue" /\ job'[h].kb = job[h].kb /\ bound' = bound
          /\ \A m \in Kbs : m # job[h].kb => snap'[m] = snap[m]
      BY <1>1, <1>3, EnqueueIs
    <2>2. job[h].kb # k
      <3> SUFFICES ASSUME job[h].kb = k PROVE FALSE
        OBVIOUS
      <3>1. job[h].task = d
        BY <1>1, <2>1 DEF Yields, Canceling
      <3>2. job[h].type = "DELETE"
        BY <1>1, <3>1 DEF Owned
      <3> QED BY <1>1, <2>1, <3>1, <3>2 DEF Holds
    <2> QED BY <1>1, <2>1, <2>2, RulesElsewhere
  <1>4. CASE WriteSnap(h)
    <2>1. /\ Op(job[h]) \in {"failSnap", "startSnap", "finSnap"} /\ Turns(job[h], job'[h])
          /\ job[h].todo # << >> /\ Op(job[h]) = job[h].todo[1] /\ bound' = bound
          /\ snap'[job[h].kb].task = job[h].task
          /\ (Op(job[h]) = "startSnap" /\ job[h].type = "DELETE" => snap'[job[h].kb].status = "DELETING")
          /\ \A m \in Kbs : m # job[h].kb => snap'[m] = snap[m]
      BY <1>1, <1>4, WriteSnapOp
    <2>2. CASE job[h].kb # k
      <3>1. job'[h].kb # k
        BY <2>1, <2>2, IdleElsewhere DEF Turns
      <3> QED BY <1>1, <2>1, <2>2, <3>1, RulesElsewhere
    <2>3. CASE job[h].kb = k
      <3>1. job[h].task = d /\ ~Purges(job[h])
        BY <1>1, <2>1, <2>3 DEF Yields, Canceling
      <3>2. job[h].type = "DELETE"
        BY <1>1, <3>1 DEF Owned
      <3>3. Op(job[h]) = "startSnap"
        BY <2>1, <3>1, HasEnded DEF Going
      <3>4. Yields(job'[h], k, d)
        BY <2>1, <3>1, IdleElsewhere DEF Yields, Turns
      <3> QED BY <1>1, <2>1, <2>3, <3>1, <3>2, <3>3, <3>4, RulesStep
    <2> QED BY <2>2, <2>3
  <1>5. CASE Unbind(h)
    <2>1. /\ Op(job[h]) = "finUnbind" /\ Turns(job[h], job'[h]) /\ snap' = snap
          /\ bound' = bound \ {job[h].kb}
      BY <1>1, <1>5, UnbindIs
    <2>2. job[h].kb # k
      BY <1>1, <2>1 DEF Knows
    <2>3. job'[h].kb # k
      BY <2>1, <2>2, IdleElsewhere DEF Turns
    <2> QED BY <1>1, <2>1, <2>2, <2>3, RulesElsewhere
  <1>6. CASE PurgeRel(h) \/ PurgeSnap(h)
    <2>1. /\ Purges(job[h]) /\ Turns(job[h], job'[h]) /\ bound \ {job[h].kb} \subseteq bound'
          /\ \A m \in Kbs : m # job[h].kb => snap'[m] = snap[m]
      BY <1>1, <1>6, PurgeRelIs, PurgeSnapIs
    <2>2. job[h].kb # k
      BY <1>1, <2>1 DEF Yields
    <2>3. job'[h].kb # k
      BY <2>1, <2>2, IdleElsewhere DEF Turns
    <2> QED BY <1>1, <2>1, <2>2, <2>3, RulesElsewhere
  <1> QED BY <1>2, <1>3, <1>4, <1>5, <1>6

\* Threads that stop, and steps of the parsing service.
LEMMA RulesTroubles ==
  ASSUME Typed, Undelivered \/ Crash \/ Parse \/ \E h \in Threads : Raise(h),
         NEW k \in Kbs, NEW d, Rules(k, d)
  PROVE  Rules(k, d)'
  <1>1. UNCHANGED <<bound, snap>> /\ \A g \in Threads : job'[g] \in {job[g], Idle}
    <2>1. CASE Undelivered \/ Crash
      BY <2>1, UndeliveredTyped, CrashTyped
    <2>2. CASE Parse
      BY <2>2 DEF Parse, Claim, Finish, rows
    <2>3. ASSUME NEW h \in Threads, Raise(h) PROVE UNCHANGED <<bound, snap>> /\ \A g \in Threads : job'[g] \in {job[g], Idle}
      BY <2>3, RaiseTyped, OneJob
    <2> QED BY <2>1, <2>2, <2>3
  <1>2. \A g \in Threads : Yields(job'[g], k, d)
    BY <1>1, IdleElsewhere DEF Rules, Yields
  <1>3. \A g \in Threads : Yields(job[g], k, d)'
    BY <1>2 DEF Yields, Purges, Has, Op
  <1> QED BY <1>1, <1>3 DEF Rules

Ruled == Agreed /\ Paths /\ Finals /\ Left /\ Deletions

\* Which tasks a knowledge base has changes only when one is enqueued for it.
LEMMA LaterSame ==
  ASSUME Typed, NEW h \in Threads, Asks(h) \/ Receive(h) \/ Work(h), ~Enqueue(h), NEW k, NEW n \in Nat
  PROVE  Len(tasks') = Len(tasks) /\ Later(k, n)' = Later(k, n)
  <1>1. Len(tasks) \in Nat
    BY Shape
  <1>2. CASE WriteTask(h)
    <2>1. Len(tasks') = Len(tasks) /\ \A i \in 1..Len(tasks) : tasks'[i].kb = tasks[i].kb
      BY <1>2, WriteTaskIs, SetTaskFits
    <2> QED BY <1>1, <2>1 DEF Later
  <1>3. CASE ~WriteTask(h)
    <2>1. tasks' = tasks
      BY <1>3, AskIs, ReceiveIs DEF Work, Bind, Mark, Submit, WriteSnap, WriteDoc, WriteDeletedDoc,
         Count, Unbind, ParserCancel, CancelRead, PurgeRel, PurgeSnap, PurgeSync, rows
    <2> QED BY <2>1 DEF Later
  <1> QED BY <1>2, <1>3

LEMMA LengthSame ==
  ASSUME Typed, NEW h \in Threads, Asks(h) \/ Receive(h) \/ Work(h), ~Enqueue(h)
  PROVE  Len(tasks') = Len(tasks)
  <1>1. PICK n \in Nat : n = 0
    OBVIOUS
  <1> QED BY LaterSame

LEMMA LaterEnqueue ==
  ASSUME Typed, Paths, NEW h \in Threads, Enqueue(h), NEW k, NEW n \in Nat
  PROVE  /\ k # job[h].kb => Later(k, n)' = Later(k, n)
         /\ k = job[h].kb /\ n <= Len(tasks) => Later(k, n)'
         /\ n = Len(tasks) + 1 => ~Later(k, n)'
         /\ Later(k, n) => Later(k, n)'
  <1>1. /\ Len(tasks') = Len(tasks) + 1 /\ Len(tasks) \in Nat
        /\ \A i \in 1..Len(tasks) : tasks'[i] = tasks[i]
        /\ tasks'[Len(tasks) + 1].kb = job[h].kb
    BY EnqueueIs
  <1>2. Later(k, n) => Later(k, n)'
    BY <1>1 DEF Later
  <1>3. k # job[h].kb /\ Later(k, n)' => Later(k, n)
    <2> SUFFICES ASSUME k # job[h].kb, NEW i \in (n + 1)..Len(tasks'), tasks'[i].kb = k PROVE Later(k, n)
      BY DEF Later
    <2>1. i \in 1..Len(tasks) /\ tasks[i].kb = k
      BY <1>1
    <2> QED BY <2>1 DEF Later
  <1>4. k = job[h].kb /\ n <= Len(tasks) => Later(k, n)'
    BY <1>1 DEF Later
  <1>5. n = Len(tasks) + 1 => ~Later(k, n)'
    BY <1>1 DEF Later
  <1>6. Later(k, n) \in BOOLEAN /\ Later(k, n)' \in BOOLEAN
    BY DEF Later
  <1> QED BY <1>2, <1>3, <1>4, <1>5, <1>6

\* The job of a deletion, after a step of its thread.
LEMMA HoldsStep ==
  ASSUME Ruled, NEW h \in Threads, Asks(h) \/ Receive(h) \/ Work(h),
         job'[h].type = "DELETE", job'[h].task \notin hurt', job'[h].task # 0, Op(job'[h]) # "parserCancel"
  PROVE  snap'[job'[h].kb].task = job'[h].task /\ ~Purges(job'[h]) /\ Op(job'[h]) # "enqueue"
  <1>1. /\ Typed /\ Owned /\ Paths /\ Knows(job[h]) /\ Holds(job[h]) /\ hurt \subseteq hurt'
        /\ job'[h].task \notin hurt /\ job'[h] # Idle
    BY HurtGrows, IdleFits DEF Ruled, Agreed, Left, Deletions
  <1>2. ASSUME NEW d \in 1..Len(tasks), tasks[d].type = "DELETE", Going(d), d \notin hurt
        PROVE  snap[tasks[d].kb].task = d /\ \A g \in Threads : Yields(job[g], tasks[d].kb, d)
    BY <1>2 DEF Ruled, Deletions, Rules
  <1>3. CASE Asks(h)
    BY <1>1, <1>3, AskIs DEF AskedJob
  <1>4. CASE Receive(h)
    <2>1. /\ Serves(job'[h], Head(outbox)) /\ Op(job'[h]) \in {None, "startTask", "finTask"} /\ snap' = snap
          /\ ~Purges(job'[h]) /\ Head(outbox).task \in 1..Len(tasks)
          /\ Head(outbox) = outbox[1] /\ 1 \in 1..Len(outbox)
      BY <1>1, <1>4, ReceiveIs
    <2>2. Going(Head(outbox).task)
      BY <2>1 DEF Going
    <2>3. snap[tasks[Head(outbox).task].kb].task = Head(outbox).task
      BY <1>1, <1>2, <2>1, <2>2 DEF Serves
    <2> QED BY <2>1, <2>3 DEF Serves, None
  <1>5. ASSUME Turns(job[h], job'[h]), Op(job[h]) # "parserCancel"
        PROVE  /\ snap[job[h].kb].task = job'[h].task /\ job'[h].kb = job[h].kb /\ ~Purges(job'[h])
               /\ ~Purges(job[h]) /\ job[h].type = "DELETE" /\ job[h].task # 0
    BY <1>1, <1>5 DEF Turns, Holds
  <1>6. CASE ParserCancel(h)
    <2>1. /\ Op(job'[h]) = "cancelRead" /\ stage[job[h].task] = "queued" /\ job[h].task \in 1..Len(tasks)
          /\ Turns(job[h], job'[h]) /\ snap' = snap
      <3>1. PICK j2 \in JobRec :
              /\ job' = [job EXCEPT ![h] = j2]
              /\ j2 = Idle \/ (Op(j2) = "cancelRead" /\ stage[job[h].task] = "queued")
        BY <1>1, <1>6, ParserCancelJob
      <3>2. job'[h] = j2
        BY <1>1, <3>1, OneJob
      <3>3. Turns(job[h], job'[h]) /\ snap' = snap /\ job[h].task \in 1..Len(tasks)
        BY <1>1, <1>6, StillWorks, ParserCancelJob DEF Still
      <3> QED BY <1>1, <3>1, <3>2, <3>3
    <2>2. job'[h].task = job[h].task /\ job'[h].kb = job[h].kb /\ job'[h].type = job[h].type
      BY <1>1, <2>1 DEF Turns
    <2>3. Going(job[h].task) /\ tasks[job[h].task].type = "DELETE" /\ tasks[job[h].task].kb = job[h].kb
      BY <1>1, <2>1, <2>2, BusyIs DEF Going, Owned
    <2>4. snap[job[h].kb].task = job[h].task /\ Yields(job[h], job[h].kb, job[h].task)
      BY <1>1, <1>2, <2>1, <2>2, <2>3
    <2> QED BY <2>1, <2>2, <2>4 DEF Yields, Turns
  <1>7. CASE Still(h) /\ ~ParserCancel(h)
    <2>1. /\ snap' = snap /\ Turns(job[h], job'[h]) /\ StillOp(job[h], job'[h])
      BY <1>1, <1>7, StillWorks
    <2>2. Op(job[h]) # "parserCancel"
      BY <1>1, <1>7, OpIs DEF Still, Mark, Submit, WriteTask, WriteDoc, WriteDeletedDoc, Count,
         PurgeSync, CancelRead, None
    <2>3. Op(job[h]) # "mark"
      BY <1>1, <1>5, <2>1, <2>2 DEF Knows
    <2>4. Op(job'[h]) # "enqueue"
      BY <1>1, <1>5, <2>1, <2>2, <2>3, IdlePath DEF StillOp, None
    <2> QED BY <1>5, <2>1, <2>2, <2>4
  <1>8. CASE Bind(h)
    <2>1. Op(job[h]) = "bind" /\ Turns(job[h], job'[h])
      BY <1>1, <1>8, BindIs
    <2> QED BY <1>1, <1>5, <2>1 DEF Knows
  <1>9. CASE Enqueue(h)
    BY <1>1, <1>9, EnqueueIs DEF Knows, Asking
  <1>10. CASE WriteSnap(h)
    <2>1. /\ Op(job[h]) \in {"failSnap", "startSnap", "finSnap"} /\ Turns(job[h], job'[h])
          /\ Op(job'[h]) \in {None, "failDoc", "startDoc", "finDoc", "finUnbind", "count"}
          /\ snap'[job[h].kb].task = job[h].task
      BY <1>1, <1>10, WriteSnapOp
    <2> QED BY <1>1, <1>5, <2>1 DEF Turns, None
  <1>11. CASE Unbind(h)
    BY <1>1, <1>5, <1>11, UnbindIs
  <1>12. CASE PurgeRel(h) \/ PurgeSnap(h)
    BY <1>1, <1>5, <1>12, PurgeRelIs, PurgeSnapIs
  <1> QED BY <1>3, <1>4, <1>6, <1>7, <1>8, <1>9, <1>10, <1>11, <1>12 DEF Work, Still

\* No task comes after that of a deletion.
LEMMA LastStep ==
  ASSUME Ruled, NEW h \in Threads, Asks(h) \/ Receive(h) \/ Work(h),
         NEW k \in Kbs, NEW n \in Nat, n = snap'[k].task, snap'[k].type = "DELETE", n \notin hurt'
  PROVE  ~Later(k, n)'
  <1>1. /\ Typed /\ Owned /\ Paths /\ Holds(job[h]) /\ n \notin hurt
        /\ snap[k].type = "DELETE" /\ snap[k].task = n => ~Later(k, n)
    BY HurtGrows DEF Ruled, Agreed, Deletions
  <1>2. CASE Enqueue(h)
    <2>1. CASE k = job[h].kb
      <3>1. n = Len(tasks) + 1
        BY <1>1, <1>2, <2>1, EnqueueIs
      <3> QED BY <1>1, <1>2, <3>1, LaterEnqueue
    <2>2. CASE k # job[h].kb
      BY <1>1, <1>2, <2>2, EnqueueIs, LaterEnqueue
    <2> QED BY <2>1, <2>2
  <1>3. CASE ~Enqueue(h)
    <2>1. Later(k, n)' = Later(k, n)
      BY <1>1, <1>3, LaterSame
    <2>2. CASE snap'[k] = snap[k]
      BY <1>1, <2>1, <2>2
    <2>3. CASE WriteSnap(h)
      <3>1. /\ Op(job[h]) \in {"failSnap", "startSnap", "finSnap"} /\ job[h].task \in 1..Len(tasks)
            /\ snap'[job[h].kb].task = job[h].task /\ snap'[job[h].kb].type = job[h].type
            /\ \A m \in Kbs : m # job[h].kb => snap'[m] = snap[m]
        BY <1>1, <2>3, WriteSnapOp
      <3>2. CASE k = job[h].kb
        <4>1. job[h].type = "DELETE" /\ job[h].task = n /\ n # 0
          BY <3>1, <3>2
        <4>2. snap[k].task = n
          BY <1>1, <3>1, <3>2, <4>1 DEF Holds
        <4>3. snap[k].type = "DELETE"
          <5>1. snap[k] # NoSnap
            BY <4>1, <4>2 DEF NoSnap
          <5> QED BY <1>1, <3>2, <4>1, <4>2, <5>1 DEF Owned
        <4> QED BY <1>1, <2>1, <4>2, <4>3
      <3> QED BY <2>2, <3>1, <3>2
    <2>4. CASE PurgeSnap(h)
      <3>1. snap'[job[h].kb] = NoSnap /\ \A m \in Kbs : m # job[h].kb => snap'[m] = snap[m]
        BY <1>1, <2>4, PurgeSnapIs
      <3>2. k # job[h].kb
        BY <3>1 DEF NoSnap, None
      <3> QED BY <2>2, <3>1, <3>2
    <2>5. CASE ~WriteSnap(h) /\ ~PurgeSnap(h)
      <3>1. snap' = snap
        BY <1>1, <1>3, <2>5, AskIs, ReceiveIs, StillWorks, BindIs, UnbindIs, PurgeRelIs DEF Work, Still
      <3> QED BY <2>2, <3>1
    <2> QED BY <2>3, <2>4, <2>5
  <1> QED BY <1>2, <1>3

\* The rule of a deletion, after a step of the thread.
LEMMA RulesWalk ==
  ASSUME Ruled, \A g, i \in Threads : g = i, NEW h \in Threads, Asks(h) \/ Receive(h) \/ Work(h), Steps,
         NEW d \in 1..Len(tasks'), d \notin hurt', tasks'[d].type = "DELETE", Going(d)',
         NEW k, k = tasks'[d].kb
  PROVE  Rules(k, d)'
  <1>1. /\ Typed /\ Owned /\ Paths /\ Agreed /\ Finals /\ Left /\ Deletions /\ hurt \subseteq hurt'
        /\ Knows(job[h])
    BY HurtGrows DEF Ruled, Agreed, Left
  <1>2. /\ Len(tasks) \in Nat /\ Len(tasks') \in Nat /\ d \in Ids /\ tasks \in Seq(TaskRec)
        /\ \A i \in 1..Len(tasks) : tasks'[i].kb = tasks[i].kb /\ tasks'[i].type = tasks[i].type
    BY <1>1, StepsFrame, Shape
  <1>3. CASE d <= Len(tasks)
    <2>1. d \in 1..Len(tasks)
      BY <1>2, <1>3
    <2>2. tasks[d].type = "DELETE" /\ k = tasks[d].kb /\ d \notin hurt /\ Going(d)
      BY <1>1, <1>2, <1>3, <2>1, GoingBack
    <2>3. k \in Kbs
      <3>1. tasks[d] \in TaskRec
        BY <1>2, <2>1
      <3> QED BY <2>2, <3>1 DEF TaskRec
    <2>4. Rules(k, d)
      BY <1>1, <2>1, <2>2 DEF Deletions
    <2> QED BY <1>1, <1>2, <2>1, <2>2, <2>3, <2>4, RulesComes, RulesStill, RulesWorks DEF Work, Still
  <1>4. CASE d > Len(tasks)
    <2>1. Enqueue(h)
      BY <1>1, <1>2, <1>4, LengthSame
    <2>2. /\ d = Len(tasks) + 1 /\ k = job[h].kb /\ job[h].type = "DELETE" /\ k \in Kbs
      BY <1>1, <1>2, <1>4, <2>1, EnqueueIs
    <2>3. /\ snap'[k].status = "DELETING" /\ snap'[k].task = d /\ bound' = bound
          /\ job'[h].task = d /\ Op(job[h]) = "enqueue" /\ (Purges(job'[h]) => Purges(job[h]))
      BY <1>1, <2>1, <2>2, EnqueueIs
    <2>4. k \in bound' /\ Yields(job'[h], k, d)
      BY <1>1, <2>2, <2>3 DEF Knows, Asking, Yields
    <2> QED BY <2>2, <2>3, <2>4, RulesStep
  <1> QED BY <1>2, <1>3, <1>4

LEMMA SnapTaskNext ==
  ASSUME Typed', NEW k \in Kbs
  PROVE  snap'[k].task \in Nat
  <1>1. snap'[k] \in SnapRec /\ Ids \subseteq Nat
    BY LifecycleAssumption DEF Typed, RowsFit, Ids
  <1>2. CASE snap'[k] = NoSnap
    BY <1>2 DEF NoSnap
  <1>3. CASE snap'[k] \in [status : Statuses, task : Ids, type : Types]
    BY <1>1, <1>3
  <1> QED BY <1>1, <1>2, <1>3 DEF SnapRec

LEMMA DeletionsWalks ==
  ASSUME Ruled, \A g, i \in Threads : g = i, Steps, Walks, Typed'
  PROVE  Deletions'
  <1>1. /\ Typed /\ Owned /\ hurt \subseteq hurt' /\ Len(tasks) \in Nat /\ Agreed /\ Deletions
        /\ \A i \in 1..Len(tasks) : tasks'[i].kb = tasks[i].kb /\ tasks'[i].type = tasks[i].type
    BY StepsFrame DEF Ruled, Agreed
  <1>2. ASSUME NEW h \in Threads, Asks(h) \/ Receive(h) \/ Work(h) PROVE Deletions'
    <2>1. \A d \in 1..Len(tasks') :
            d \notin hurt' /\ tasks'[d].type = "DELETE" /\ Going(d)' => Rules(tasks[d].kb, d)'
      <3>1. ASSUME NEW d \in 1..Len(tasks'), d \notin hurt', tasks'[d].type = "DELETE", Going(d)',
                   NEW k, k = tasks'[d].kb
            PROVE  Rules(k, d)'
        BY <1>2, <3>1, RulesWalk
      <3> QED BY <3>1 DEF Rules
    <2>2. \A g \in Threads : Holds(job[g])'
      BY <1>2, HoldsStep DEF Holds, Purges, Has, Op
    <2>3. \A k \in Kbs : snap'[k].type = "DELETE" /\ snap'[k].task \notin hurt' => ~Later(k, snap[k].task)'
      <3>1. ASSUME NEW k \in Kbs, NEW n \in Nat, n = snap'[k].task, snap'[k].type = "DELETE", n \notin hurt'
            PROVE  ~Later(k, n)'
        BY <1>2, <3>1, LastStep
      <3>2. \A k \in Kbs : snap'[k].task \in Nat
        BY SnapTaskNext
      <3> QED BY <3>1, <3>2 DEF Later
    <2> QED BY <2>1, <2>2, <2>3 DEF Deletions
  <1>3. CASE Undelivered \/ Crash \/ Parse \/ \E h \in Threads : Raise(h)
    <2>1. tasks' = tasks /\ snap' = snap /\ \A g \in Threads : job'[g] \in {job[g], Idle}
      <3>1. CASE Undelivered \/ Crash
        BY <1>1, <3>1, UndeliveredTyped, CrashTyped
      <3>2. CASE Parse
        BY <3>2 DEF Parse, Claim, Finish, rows
      <3>3. ASSUME NEW h \in Threads, Raise(h)
            PROVE  tasks' = tasks /\ snap' = snap /\ \A g \in Threads : job'[g] \in {job[g], Idle}
        <4>1. tasks' = tasks /\ snap' = snap /\ job' = [job EXCEPT ![h] = Idle]
          BY <1>1, <3>3, RaiseTyped
        <4> QED BY <1>1, <4>1, OneJob
      <3> QED BY <1>3, <3>1, <3>2, <3>3
    <2>2. ASSUME NEW d \in 1..Len(tasks'), d \notin hurt', tasks'[d].type = "DELETE", Going(d)'
          PROVE  Rules(tasks[d].kb, d)'
      <3>1. d \in 1..Len(tasks) /\ d \in Ids /\ d \notin hurt
        BY <1>1, <2>1, <2>2, Shape
      <3>2. Going(d) /\ tasks[d].type = "DELETE"
        BY <1>1, <2>1, <2>2, <3>1, GoingBack
      <3>3. Rules(tasks[d].kb, d)
        BY <1>1, <3>1, <3>2 DEF Deletions
      <3>4. tasks[d].kb \in Kbs
        <4>1. tasks[d] \in TaskRec
          BY <1>1, <3>1, Shape
        <4> QED BY <4>1 DEF TaskRec
      <3>5. ASSUME NEW k \in Kbs, Rules(k, d) PROVE Rules(k, d)'
        BY <1>1, <1>3, <3>5, RulesTroubles
      <3> QED BY <2>1, <3>3, <3>4, <3>5 DEF Rules
    <2>3. \A g \in Threads : Holds(job[g])'
      BY <1>1, <2>1, IdleFits DEF Deletions, Holds, Purges, Has, Op
    <2>4. \A k \in Kbs : snap'[k].type = "DELETE" /\ snap'[k].task \notin hurt' => ~Later(k, snap[k].task)'
      BY <1>1, <2>1 DEF Deletions, Later
    <2> QED BY <2>2, <2>3, <2>4 DEF Deletions
  <1> QED BY <1>2, <1>3 DEF Walks
-----------------------------------------------------------------------------
(* What a deletion that succeeded has left of the nodes.                   *)

\* A task before task d has not ended, or its submission seemed to fail.
Overtaken(k, d) ==
  \E id \in 1..(d - 1) : tasks[id].kb = k /\ (tasks[id].status \notin Settled \/ id \in hurt)

\* The success of a task is on its way, in work or recorded.
Succeeded(d) ==
  \/ \E p \in 1..Len(outbox) : outbox[p].task = d /\ outbox[p].status = "SUCCESS"
  \/ \E h \in Threads : job[h].task = d /\ job[h].status = "SUCCESS" /\ Op(job[h]) \in Paired
  \/ snap[tasks[d].kb].status = "DELETED" /\ snap[tasks[d].kb].task = d

Emptied ==
  \A d \in 1..Len(tasks) : d \notin hurt /\ tasks[d].type = "DELETE" /\ Succeeded(d) =>
    tasks[d].kb \notin nodes \/ Overtaken(tasks[d].kb, d)

LEMMA SucceededNames ==
  ASSUME Ruled, NEW d \in 1..Len(tasks), d \notin hurt, tasks[d].type = "DELETE", Succeeded(d)
  PROVE  snap[tasks[d].kb].task = d
  <1>1. CASE \E p \in 1..Len(outbox) : outbox[p].task = d
    BY <1>1 DEF Ruled, Deletions, Going, Rules
  <1>2. ASSUME NEW h \in Threads, job[h].task = d, Op(job[h]) \in Paired PROVE snap[tasks[d].kb].task = d
    <2>1. job[h].kb = tasks[d].kb /\ job[h].type = "DELETE" /\ d # 0
      BY <1>2 DEF Ruled, Agreed, Owned
    <2>2. Holds(job[h])
      BY DEF Ruled, Deletions
    <2> QED BY <1>2, <2>1, <2>2 DEF Holds, Paired
  <1> QED BY <1>1, <1>2 DEF Succeeded

\* A thread that writes a record and a snapshot has the snapshot ahead.
LEMMA PairedPends ==
  ASSUME Typed, NEW h \in Threads, Op(job[h]) \in Paired
  PROVE  Pending(job[h])
  <1>1. job[h].todo # << >> /\ Op(job[h]) = job[h].todo[1]
    BY OpIs DEF Paired, None
  <1>2. Ordered(job[h].todo, job[h].task) /\ Len(job[h].todo) \in Nat /\ Len(job[h].todo) >= 1
    BY <1>1, HeadIs
  <1>3. 1 \in 1..Len(job[h].todo)
    BY <1>2
  <1>4. CASE Op(job[h]) \in {"failSnap", "startSnap", "finSnap"}
    BY <1>1, <1>3, <1>4 DEF Pending
  <1>5. CASE Op(job[h]) \in {"failTask", "startTask", "finTask"}
    <2>1. Len(job[h].todo) >= 2 /\ job[h].todo[2] \in {"failSnap", "startSnap", "finSnap"}
      BY <1>1, <1>2, <1>3, <1>5 DEF Ordered, Pair
    <2>2. 2 \in 1..Len(job[h].todo)
      BY <1>2, <2>1
    <2> QED BY <2>1, <2>2 DEF Pending
  <1> QED BY <1>4, <1>5 DEF Paired

\* The tasks that a deletion superseded write no record any more.
LEMMA OvertakenKept ==
  ASSUME Ruled, Current, Steps, NEW d \in 1..Len(tasks), NEW k \in Kbs, snap[k].task = d, Overtaken(k, d)
  PROVE  Overtaken(k, d)'
  <1>1. /\ Typed /\ Owned /\ hurt \subseteq hurt' /\ Len(tasks) \in Nat
        /\ tasks' = tasks \/ \E h \in Threads : Enqueue(h) \/ WriteTask(h)
        /\ \A i \in 1..Len(tasks) : tasks'[i].kb = tasks[i].kb
    BY StepsFrame DEF Ruled, Agreed
  <1>2. PICK id \in 1..(d - 1) : tasks[id].kb = k /\ (tasks[id].status \notin Settled \/ id \in hurt)
    BY DEF Overtaken
  <1>3. id \in 1..Len(tasks) /\ id # d
    BY <1>1
  <1>4. tasks'[id].status = tasks[id].status
    <2>1. ASSUME NEW h \in Threads, Enqueue(h) PROVE tasks'[id] = tasks[id]
      BY <1>1, <1>3, <2>1, EnqueueIs DEF Ruled
    <2>2. ASSUME NEW h \in Threads, WriteTask(h) PROVE tasks'[id] = tasks[id]
      <3>1. /\ job[h].todo[1] \in {"failTask", "startTask", "finTask"} /\ job[h].task \in 1..Len(tasks)
            /\ \E status \in Statuses : SetTask(job[h].task, status)
        BY <1>1, <2>2, WriteTaskIs
      <3>2. \A i \in 1..Len(tasks) : i # job[h].task => tasks'[i] = tasks[i]
        BY <1>1, <3>1, SetTaskFits
      <3>3. Pending(job[h])
        <4>1. Op(job[h]) = job[h].todo[1]
          BY <1>1, <2>2, WriteTyped, OpIs
        <4> QED BY <1>1, <3>1, <4>1, PairedPends DEF Paired
      <3>4. Names(job[h])
        BY <3>3 DEF Current
      <3>5. ASSUME job[h].task = id PROVE FALSE
        <4>1. job[h].kb = k
          BY <1>1, <1>2, <1>3, <3>5 DEF Owned
        <4> QED BY <1>3, <3>4, <3>5, <4>1 DEF Names, NoSnap
      <3> QED BY <1>3, <3>2, <3>5
    <2> QED BY <1>1, <2>1, <2>2
  <1> QED BY <1>1, <1>2, <1>3, <1>4 DEF Overtaken

\* What the end of a task does to the nodes.
LEMMA FinishNodes ==
  ASSUME NEW id, NEW s, Finish(id, s)
  PROVE  /\ \A k : k \notin nodes /\ (tasks[id].kb # k \/ tasks[id].type \in {"DELETE", "META"}) => k \notin nodes'
         /\ s = "SUCCESS" /\ tasks[id].type = "DELETE" => tasks[id].kb \notin nodes'
  BY DEF Finish

LEMMA EmptiedParse ==
  ASSUME Ruled, Unsettled, Emptied, NEW id \in Ids, NEW s,
         \/ Claim(id) /\ s = "WORKING"
         \/ Finish(id, s) /\ s \in {"SUCCESS", "FAILED"},
         NEW d \in 1..Len(tasks), d \notin hurt, tasks[d].type = "DELETE", Succeeded(d)',
         NEW k \in Kbs, k = tasks[d].kb
  PROVE  k \notin nodes' \/ Overtaken(k, d)'
  <1>1. /\ Typed /\ Owned /\ Len(tasks) \in Nat /\ outbox \in Seq(Posted) /\ d # 0
    BY Shape DEF Ruled, Agreed
  <1>2. /\ UNCHANGED <<tasks, snap, job, hurt>> /\ id \in 1..Len(tasks)
        /\ outbox' = Append(outbox, [task |-> id, status |-> s])
        /\ [task |-> id, status |-> s] \in Posted
        /\ stage[id] \in {"queued", "running"}
    BY <1>1, ParseTyped
  <1>3. Overtaken(k, d) => Overtaken(k, d)'
    BY <1>2 DEF Overtaken
  <1>4. Succeeded(d) \/ (id = d /\ s = "SUCCESS")
    <2>1. ASSUME NEW p \in 1..Len(outbox'), outbox'[p].task = d, outbox'[p].status = "SUCCESS"
          PROVE  Succeeded(d) \/ (id = d /\ s = "SUCCESS")
      <3>1. (p \in 1..Len(outbox) /\ outbox'[p] = outbox[p]) \/ outbox'[p] = [task |-> id, status |-> s]
        BY <1>1, <1>2
      <3> QED BY <2>1, <3>1 DEF Succeeded
    <2> QED BY <1>2, <2>1 DEF Succeeded, Op, Paired
  <1>5. CASE id = d /\ s = "SUCCESS"
    BY <1>5, FinishNodes
  <1>6. CASE Succeeded(d)
    <2>1. k \notin nodes \/ Overtaken(k, d)
      BY <1>6 DEF Emptied
    <2>2. CASE Claim(id)
      BY <1>3, <2>1, <2>2 DEF Claim
    <2>3. CASE Finish(id, s) /\ (tasks[id].kb # k \/ tasks[id].type \in {"DELETE", "META"})
      BY <1>3, <2>1, <2>3, FinishNodes
    <2>4. CASE tasks[id].kb = k /\ tasks[id].type \notin {"DELETE", "META"}
      <3>1. snap[k].task = d /\ snap[k] # NoSnap
        BY <1>1, <1>6, SucceededNames DEF NoSnap
      <3>2. ~Later(k, d)
        BY <1>1, <3>1 DEF Owned, Ruled, Deletions
      <3>3. id \in 1..(d - 1)
        BY <1>1, <1>2, <2>4, <3>2 DEF Later
      <3>4. id \in hurt \/ tasks[id].status \notin Settled
        BY <1>2 DEF Unsettled, Busy
      <3> QED BY <1>3, <2>4, <3>3, <3>4 DEF Overtaken
    <2> QED BY <2>2, <2>3, <2>4
  <1> QED BY <1>4, <1>5, <1>6

\* A thread that has a success to write has it from the outbox, or had it before.
LEMMA SuccessBack ==
  ASSUME Ruled, NEW h \in Threads, Asks(h) \/ Receive(h) \/ Work(h), NEW d \in 1..Len(tasks),
         job'[h].task = d, job'[h].status = "SUCCESS", Op(job'[h]) \in Paired
  PROVE  Succeeded(d)
  <1>1. /\ Typed /\ Paths /\ job'[h] # Idle /\ Op(job'[h]) # None
    BY IdleFits DEF Ruled, Agreed, Paired, None
  <1>2. CASE Asks(h)
    BY <1>1, <1>2, AskIs DEF AskedJob, None
  <1>3. CASE Receive(h)
    <2>1. /\ outbox # << >> /\ Head(outbox) = outbox[1] /\ 1 \in 1..Len(outbox) /\ Serves(job'[h], Head(outbox))
      BY <1>1, <1>3, ReceiveIs
    <2> QED BY <2>1 DEF Serves, Succeeded
  <1>4. CASE Still(h)
    <2>1. /\ Turns(job[h], job'[h]) /\ StillOp(job[h], job'[h]) /\ job[h].todo # << >>
      BY <1>1, <1>4, StillWorks
    <2>2. job[h].status = "SUCCESS" /\ job[h].task = d
      BY <1>1, <2>1 DEF Turns
    <2>3. Op(job[h]) \notin {"submit", "cancelRead"}
      BY <1>1, <2>1, <2>2, HeadIs DEF Op, Told, Asking, Canceling, None
    <2>4. Op(job[h]) \in Paired
      BY <1>1, <2>1, <2>3 DEF StillOp, Paired
    <2> QED BY <2>2, <2>4 DEF Succeeded
  <1>5. CASE Bind(h)
    BY <1>1, <1>5, BindIs DEF Paired
  <1>6. CASE Enqueue(h)
    BY <1>1, <1>6, EnqueueIs DEF Paired
  <1>7. CASE WriteSnap(h)
    BY <1>1, <1>7, WriteSnapOp DEF Paired
  <1>8. CASE Unbind(h)
    BY <1>1, <1>8, UnbindIs DEF Paired
  <1>9. CASE PurgeRel(h) \/ PurgeSnap(h)
    BY <1>1, <1>9, PurgeRelIs, PurgeSnapIs DEF Paired
  <1> QED BY <1>2, <1>3, <1>4, <1>5, <1>6, <1>7, <1>8, <1>9 DEF Work, Still

\* So has a snapshot that shows it.
LEMMA DeletedBack ==
  ASSUME Ruled, NEW h \in Threads, Asks(h) \/ Receive(h) \/ Work(h), NEW d \in 1..Len(tasks),
         NEW k \in Kbs, k = tasks[d].kb, snap'[k].status = "DELETED", snap'[k].task = d
  PROVE  Succeeded(d)
  <1>1. Typed /\ Paths
    BY DEF Ruled, Agreed
  <1>2. CASE snap'[k] = snap[k]
    BY <1>2 DEF Succeeded
  <1>3. CASE Enqueue(h)
    BY <1>1, <1>2, <1>3, EnqueueIs
  <1>4. CASE WriteSnap(h)
    <2>1. k # job[h].kb \/ (Op(job[h]) = "finSnap" /\ job[h].status = "SUCCESS" /\ job[h].task = d)
      BY <1>1, <1>4, WriteSnapOp
    <2>2. k # job[h].kb => snap'[k] = snap[k]
      BY <1>1, <1>4, WriteSnapOp
    <2> QED BY <1>2, <2>1, <2>2 DEF Succeeded, Paired
  <1>5. CASE PurgeSnap(h)
    <2>1. k # job[h].kb
      BY <1>1, <1>5, PurgeSnapIs DEF NoSnap, None
    <2> QED BY <1>1, <1>2, <1>5, <2>1, PurgeSnapIs
  <1>6. CASE ~Enqueue(h) /\ ~WriteSnap(h) /\ ~PurgeSnap(h)
    <2>1. snap' = snap
      BY <1>1, <1>6, AskIs, ReceiveIs, StillWorks, BindIs, UnbindIs, PurgeRelIs DEF Work, Still
    <2> QED BY <1>2, <2>1
  <1> QED BY <1>3, <1>4, <1>5, <1>6

\* The task that is enqueued has not succeeded.
LEMMA NewFails ==
  ASSUME Typed, Paths, \A g, i \in Threads : g = i, NEW h \in Threads, Enqueue(h),
         NEW d, d = Len(tasks) + 1
  PROVE  ~Succeeded(d)'
  <1>1. /\ job'[h].status = None /\ outbox' = outbox /\ tasks'[d].kb = job[h].kb /\ Len(tasks) \in Nat
        /\ snap'[job[h].kb].status \in {"DELETING", "WAITING"}
    BY EnqueueIs
  <1>2. \A p \in 1..Len(outbox) : outbox[p].task <= Len(tasks) /\ outbox[p].task \in Nat
    BY Shape, OutboxTask, LifecycleAssumption DEF Typed, ParserFits, Ids
  <1>3. \A g \in Threads : job'[g].status # "SUCCESS"
    BY <1>1 DEF None
  <1> QED BY <1>1, <1>2, <1>3 DEF Succeeded

LEMMA EmptiedWalks ==
  ASSUME Ruled, Current, Unsettled, Emptied, \A g, i \in Threads : g = i, Steps, Walks
  PROVE  Emptied'
  <1>1. /\ Typed /\ Owned /\ Agreed /\ Paths /\ hurt \subseteq hurt' /\ Len(tasks) \in Nat /\ Len(tasks') \in Nat
        /\ \A i \in 1..Len(tasks) : tasks'[i].kb = tasks[i].kb /\ tasks'[i].type = tasks[i].type
        /\ tasks \in Seq(TaskRec)
    BY StepsFrame, Shape DEF Ruled, Agreed
  <1> SUFFICES ASSUME NEW d \in 1..Len(tasks'), d \notin hurt', tasks'[d].type = "DELETE", Succeeded(d)',
                      NEW k, k = tasks'[d].kb
               PROVE  k \notin nodes' \/ Overtaken(k, d)'
    BY DEF Emptied, Overtaken
  <1>2. ASSUME d \in 1..Len(tasks)
        PROVE  k = tasks[d].kb /\ k \in Kbs /\ tasks[d].type = "DELETE" /\ d \notin hurt
    <2>1. tasks[d] \in TaskRec
      BY <1>1, <1>2
    <2> QED BY <1>1, <1>2, <2>1 DEF TaskRec
  <1>3. ASSUME d \in 1..Len(tasks), Succeeded(d), nodes' = nodes
        PROVE  k \notin nodes' \/ Overtaken(k, d)'
    <2>1. k \notin nodes \/ Overtaken(k, d)
      BY <1>2, <1>3 DEF Emptied
    <2>2. snap[k].task = d
      BY <1>2, <1>3, SucceededNames
    <2> QED BY <1>2, <1>3, <2>1, <2>2, OvertakenKept
  <1>4. ASSUME d \in 1..Len(tasks), NEW p \in 1..Len(outbox'), outbox'[p].task = d, outbox'[p].status = "SUCCESS",
               ~JustPosted(outbox'[p])
        PROVE  Succeeded(d)
    BY <1>1, <1>4, OutboxBack DEF Succeeded
  <1>5. ASSUME NEW id \in Ids, NEW s,
               \/ Claim(id) /\ s = "WORKING"
               \/ Finish(id, s) /\ s \in {"SUCCESS", "FAILED"}
        PROVE  k \notin nodes' \/ Overtaken(k, d)'
    <2>1. d \in 1..Len(tasks)
      BY <1>1, <1>5, ParseTyped
    <2> QED BY <1>2, <1>5, <2>1, EmptiedParse
  <1>6. ASSUME NEW h \in Threads, Asks(h) \/ Receive(h) \/ Work(h), ~Posts
        PROVE  k \notin nodes' \/ Overtaken(k, d)'
    <2>1. CASE d \notin 1..Len(tasks)
      <3>1. Enqueue(h)
        BY <1>1, <1>6, <2>1, LengthSame
      <3>2. d = Len(tasks) + 1
        BY <1>1, <2>1, <3>1, EnqueueIs
      <3> QED BY <1>1, <3>1, <3>2, NewFails
    <2>2. CASE d \in 1..Len(tasks)
      <3>1. nodes' = nodes
        BY <1>1, <1>6, AskIs, ReceiveIs DEF Work, Bind, Mark, Enqueue, Submit, WriteTask, WriteSnap, WriteDoc,
           WriteDeletedDoc, Count, Unbind, ParserCancel, CancelRead, PurgeRel, PurgeSnap, PurgeSync, parser
      <3>2. \A p \in 1..Len(outbox') : ~JustPosted(outbox'[p])
        BY <1>6 DEF JustPosted, Posts
      <3>3. CASE snap'[k].status = "DELETED" /\ snap'[k].task = d
        BY <1>2, <1>3, <1>6, <2>2, <3>1, <3>3, DeletedBack
      <3>4. CASE job'[h].task = d /\ job'[h].status = "SUCCESS" /\ Op(job'[h]) \in Paired
        BY <1>3, <1>6, <2>2, <3>1, <3>4, SuccessBack
      <3>5. \/ \E p \in 1..Len(outbox') : outbox'[p].task = d /\ outbox'[p].status = "SUCCESS"
            \/ job'[h].task = d /\ job'[h].status = "SUCCESS" /\ Op(job'[h]) \in Paired
            \/ snap'[k].status = "DELETED" /\ snap'[k].task = d
        BY DEF Succeeded, Op
      <3> QED BY <1>3, <1>4, <2>2, <3>1, <3>2, <3>3, <3>4, <3>5
    <2> QED BY <2>1, <2>2
  <1>7. ASSUME Undelivered \/ Crash \/ \E h \in Threads : Raise(h), ~Posts
        PROVE  k \notin nodes' \/ Overtaken(k, d)'
    <2>1. tasks' = tasks /\ snap' = snap /\ nodes' = nodes /\ \A g \in Threads : job'[g] \in {job[g], Idle}
      <3>1. CASE Undelivered \/ Crash
        BY <1>1, <3>1, UndeliveredTyped, CrashTyped
      <3>2. ASSUME NEW h \in Threads, Raise(h)
            PROVE  tasks' = tasks /\ snap' = snap /\ nodes' = nodes /\ \A g \in Threads : job'[g] \in {job[g], Idle}
        <4>1. tasks' = tasks /\ snap' = snap /\ nodes' = nodes /\ job' = [job EXCEPT ![h] = Idle]
          BY <1>1, <3>2, RaiseTyped
        <4> QED BY <1>1, <4>1, OneJob
      <3> QED BY <1>7, <3>1, <3>2
    <2>2. \A p \in 1..Len(outbox') : ~JustPosted(outbox'[p])
      BY <1>7 DEF JustPosted, Posts
    <2>3. \A g \in Threads : job'[g].status = "SUCCESS" => job'[g] = job[g]
      BY <2>1, IdleFits DEF None
    <2>4. Succeeded(d)
      BY <1>4, <2>1, <2>2, <2>3 DEF Succeeded, Op
    <2> QED BY <1>3, <2>1, <2>4
  <1>8. Posts => k \notin nodes' \/ Overtaken(k, d)'
    BY <1>5 DEF Posts
  <1>9. Parse => Posts
    BY DEF Parse, Posts
  <1> QED BY <1>6, <1>7, <1>8, <1>9 DEF Walks
-----------------------------------------------------------------------------
(* Where a snapshot of a document outside its knowledge base comes from.   *)

\* What a thread vouches for: a task whose records it is going to write is that of
\* a document in the knowledge base, or was superseded; a purge is for the last task,
\* which is canceled, and deletes the snapshot when the relation is gone.
Vouches(j) ==
  /\ Op(j) \in Paired \cup {"cancelRead"} /\ Names(j) => j.kb \in bound \/ Later(j.kb, j.task)
  /\ Purges(j) => ~Later(j.kb, j.task) /\ (Op(j) # "parserCancel" => stage[j.task] = "canceled")
  /\ Op(j) = "purgeSnap" => j.kb \notin bound

\* A ghost is that of a superseded task, or about to be purged; without a snapshot only
\* canceled tasks are the last ones; the snapshot of a document in the knowledge base
\* names the last task, or is about to.
Traced ==
  /\ \A h \in Threads : Vouches(job[h])
  /\ \A k \in Kbs : Ghost(k) =>
       Later(k, snap[k].task) \/ \E h \in Threads : job[h].kb = k /\ Op(job[h]) = "purgeSnap"
  /\ \A i \in 1..Len(tasks) : snap[tasks[i].kb] = NoSnap /\ stage[i] # "canceled" => Later(tasks[i].kb, i)
  /\ \A k \in bound :
       \/ snap[k] # NoSnap /\ ~Later(k, snap[k].task)
       \/ \E h \in Threads : job[h].kb = k /\ Op(job[h]) = "enqueue"
Ghosts == troubles = 0 => hurt = {} /\ Traced

\* Without troubles.
LEMMA CalmWalks ==
  ASSUME Typed, Paths, Walks, troubles' = 0
  PROVE  /\ troubles = 0 /\ hurt' = hurt
         /\ Parse \/ \E h \in Threads : Asks(h) \/ Receive(h) \/ Work(h)
  <1>1. \A S : Trouble(S) => FALSE
    BY TroubleCounts
  <1>2. CASE Parse
    BY <1>2 DEF Parse, Claim, Finish, mishaps
  <1>3. ~Undelivered /\ ~Crash /\ \A h \in Threads : ~Raise(h)
    BY <1>1 DEF Undelivered, Crash, Raise
  <1>4. ASSUME NEW h \in Threads, Submit(h) PROVE troubles = 0 /\ hurt' = hurt
    <2>1. troubles \in Nat
      BY LifecycleAssumption DEF Typed, HistoryFits
    <2>2. (hurt' = hurt /\ troubles' = troubles) \/ troubles' = troubles + 1
      BY <1>4, SubmitJob
    <2> QED BY <2>1, <2>2
  <1>5. ASSUME NEW h \in Threads, Receive(h) PROVE troubles = 0 /\ hurt' = hurt
    BY <1>1, <1>5 DEF Receive, mishaps
  <1>6. ASSUME NEW h \in Threads, Asks(h) PROVE troubles = 0 /\ hurt' = hurt
    BY <1>6 DEF Asks
  <1>7. ASSUME NEW h \in Threads, Work(h), ~Submit(h) PROVE troubles = 0 /\ hurt' = hurt
    BY <1>7 DEF Work, Bind, Mark, Enqueue, WriteTask, WriteSnap, WriteDoc,
           WriteDeletedDoc, Count, Unbind, ParserCancel, CancelRead, PurgeRel, PurgeSnap, PurgeSync, mishaps
  <1> QED BY <1>2, <1>3, <1>4, <1>5, <1>6, <1>7 DEF Walks

LEMMA SubmitCalm ==
  ASSUME Typed, Paths, NEW h \in Threads, Submit(h), troubles' = 0
  PROVE  /\ Op(job[h]) = "submit" /\ Op(job'[h]) \in {None, "enqueue"}
         /\ stage' = [stage EXCEPT ![job[h].task] = "queued"]
  <1>1. troubles \in Nat
    BY LifecycleAssumption DEF Typed, HistoryFits
  <1>2. PICK j2 \in JobRec :
          /\ job' = [job EXCEPT ![h] = j2]
          /\ \/ Leads(job[h], j2) /\ stage' = [stage EXCEPT ![job[h].task] = "queued"]
             \/ troubles' = troubles + 1
    BY SubmitJob
  <1>3. job'[h] = j2 /\ Op(job[h]) = "submit"
    BY <1>2, OneJob, SubmitJob
  <1>4. Leads(job[h], j2) /\ stage' = [stage EXCEPT ![job[h].task] = "queued"]
    BY <1>1, <1>2
  <1> QED BY <1>3, <1>4, LeadsOp
-----------------------------------------------------------------------------
\* One thread.
LEMMA TracedIs ==
  ASSUME Traced, \A g, i \in Threads : g = i, NEW h \in Threads
  PROVE  /\ Vouches(job[h])
         /\ \A k \in Kbs : Ghost(k) => Later(k, snap[k].task) \/ (job[h].kb = k /\ Op(job[h]) = "purgeSnap")
         /\ \A i \in 1..Len(tasks) : snap[tasks[i].kb] = NoSnap /\ stage[i] # "canceled" => Later(tasks[i].kb, i)
         /\ \A k \in bound : (snap[k] # NoSnap /\ ~Later(k, snap[k].task)) \/ (job[h].kb = k /\ Op(job[h]) = "enqueue")
  BY DEF Traced

\* The step adds no task.
LEMMA TracedKept ==
  ASSUME Typed', \A g, i \in Threads : g = i, NEW h \in Threads, Len(tasks') = Len(tasks),
         \A k : \A n \in Nat : Later(k, n)' = Later(k, n),
         \A i \in 1..Len(tasks) : tasks'[i].kb = tasks[i].kb,
         NEW j, j = job'[h], Len(tasks) \in Nat,
         Op(j) \in Paired \cup {"cancelRead"} /\ (snap'[j.kb] = NoSnap \/ snap'[j.kb].task = j.task) =>
           j.kb \in bound' \/ Later(j.kb, j.task),
         Purges(j) => ~Later(j.kb, j.task) /\ (Op(j) # "parserCancel" => stage'[j.task] = "canceled"),
         Op(j) = "purgeSnap" => j.kb \notin bound',
         \A k \in Kbs : k \notin bound' /\ snap'[k].status \notin {None, "DELETED"} =>
           Later(k, snap'[k].task) \/ (j.kb = k /\ Op(j) = "purgeSnap"),
         \A i \in 1..Len(tasks) : snap'[tasks[i].kb] = NoSnap /\ stage'[i] # "canceled" => Later(tasks[i].kb, i),
         \A k \in bound' : (snap'[k] # NoSnap /\ ~Later(k, snap'[k].task)) \/ (j.kb = k /\ Op(j) = "enqueue")
  PROVE  Traced'
  <1>1. job' \in [Threads -> JobRec] /\ bound' \subseteq Kbs
    BY DEF Typed, JobsFit, RowsFit
  <1>2. j \in JobRec /\ j.task \in Nat
    BY <1>1 DEF JobRec
  <1>3. \A k \in Kbs : snap'[k].task \in Nat
    BY SnapTaskNext
  <1>4. Vouches(job[h])'
    <2>1. Later(job[h].kb, job[h].task)' <=> Later(j.kb, j.task)
      <3>1. ASSUME NEW k, k = j.kb, NEW n, n = j.task PROVE Later(job[h].kb, job[h].task)' <=> Later(j.kb, j.task)
        <4>1. Later(k, n)' = Later(k, n)
          BY <1>2, <3>1
        <4>2. Later(job[h].kb, job[h].task)' <=> Later(k, n)'
          BY <3>1 DEF Later
        <4> QED BY <3>1, <4>1, <4>2
      <3> QED BY <3>1
    <2> QED BY <2>1 DEF Vouches, Names, Purges, Has, Op
  <1>5. ASSUME NEW k \in Kbs PROVE Later(k, snap[k].task)' <=> Later(k, snap'[k].task)
    <2>1. ASSUME NEW n, n = snap'[k].task PROVE Later(k, snap[k].task)' <=> Later(k, snap'[k].task)
      <3>1. Later(k, n)' = Later(k, n)
        BY <1>3, <2>1
      <3>2. Later(k, snap[k].task)' <=> Later(k, n)'
        BY <2>1 DEF Later
      <3> QED BY <2>1, <3>1, <3>2
    <2> QED BY <2>1
  <1>6. ASSUME NEW i \in 1..Len(tasks) PROVE Later(tasks[i].kb, i)' <=> Later(tasks[i].kb, i)
    <2>1. ASSUME NEW k, k = tasks[i].kb PROVE Later(tasks[i].kb, i)' <=> Later(tasks[i].kb, i)
      <3>1. Later(k, i)' = Later(k, i)
        OBVIOUS
      <3>2. Later(tasks[i].kb, i)' <=> Later(k, i)'
        BY <2>1 DEF Later
      <3> QED BY <2>1, <3>1, <3>2
    <2> QED BY <2>1
  <1>7. \A k \in Kbs : Ghost(k)' => Later(k, snap[k].task)' \/ \E g \in Threads : job'[g].kb = k /\ Op(job[g])' = "purgeSnap"
    BY <1>5 DEF Ghost, Op
  <1>8. \A i \in 1..Len(tasks') : snap'[tasks'[i].kb] = NoSnap /\ stage'[i] # "canceled" => Later(tasks[i].kb, i)'
    BY <1>6
  <1>9. \A k \in bound' :
          \/ snap'[k] # NoSnap /\ ~Later(k, snap[k].task)'
          \/ \E g \in Threads : job'[g].kb = k /\ Op(job[g])' = "enqueue"
    BY <1>1, <1>5 DEF Op
  <1>10. \A g \in Threads : Vouches(job[g])'
    BY <1>4 DEF Vouches, Names, Purges, Has, Op, Later
  <1> QED BY <1>7, <1>8, <1>9, <1>10 DEF Traced

\* A task whose callback is on its way, or that is waiting to be canceled: its document
\* is in the knowledge base, or a later task has superseded it.
LEMMA AwaitedVouches ==
  ASSUME Ruled, Traced, hurt = {}, \A g, i \in Threads : g = i, NEW h \in Threads,
         Op(job[h]) # "purgeSnap", NEW d \in 1..Len(tasks), stage[d] # "canceled", Going(d),
         NEW k, k = tasks[d].kb, snap[k] = NoSnap \/ snap[k].task = d
  PROVE  k \in bound \/ Later(k, d)
  <1>1. /\ Typed /\ Owned /\ d # 0
        /\ \A m \in Kbs : Ghost(m) => Later(m, snap[m].task) \/ (job[h].kb = m /\ Op(job[h]) = "purgeSnap")
        /\ snap[k] = NoSnap => Later(k, d)
    BY TracedIs DEF Ruled, Agreed
  <1>2. k \in Kbs
    <2>1. tasks[d] \in TaskRec
      BY <1>1, Shape
    <2> QED BY <2>1 DEF TaskRec
  <1>3. CASE snap[k] # NoSnap
    <2>1. snap[k].task = d /\ snap[k].status # None
      BY <1>1, <1>2, <1>3, SnapShape DEF Statuses, Settled, None
    <2>2. snap[k].status # "DELETED"
      <3> SUFFICES ASSUME snap[k].status = "DELETED" PROVE FALSE
        OBVIOUS
      <3>1. snap[k].type = "DELETE"
        BY <1>2 DEF Ruled, Left, Leaves
      <3>2. tasks[d].type = "DELETE"
        BY <1>1, <1>2, <1>3, <2>1, <3>1 DEF Owned
      <3>3. Rules(k, d)
        BY <3>2 DEF Ruled, Deletions
      <3> QED BY <3>3 DEF Rules
    <2> QED BY <1>1, <1>2, <2>1, <2>2 DEF Ghost
  <1> QED BY <1>1, <1>3

LEMMA TracedAsks ==
  ASSUME Ruled, Traced, \A g, i \in Threads : g = i, Typed', NEW h \in Threads, Asks(h)
  PROVE  Traced'
  <1>1. /\ Typed /\ job[h] = Idle /\ AskedJob(job'[h]) /\ Op(job[h]) = None
        /\ UNCHANGED <<bound, snap, tasks, stage>>
    BY AskIs DEF Ruled, Agreed
  <1>2. ~Enqueue(h)
    BY <1>1, OpIs DEF Enqueue, None
  <1>3. Len(tasks') = Len(tasks) /\ Len(tasks) \in Nat /\ \A k : \A n \in Nat : Later(k, n)' = Later(k, n)
    BY <1>1, <1>2, LaterSame, LengthSame, Shape
  <1>4. Op(job'[h]) \in {"bind", "mark", "enqueue", "parserCancel"}
    BY <1>1 DEF AskedJob
  <1>5. Op(job[h]) \notin {"purgeSnap", "enqueue"}
    BY <1>1 DEF None
  <1>6. Purges(job'[h]) => ~Later(job'[h].kb, job'[h].task) /\ Op(job'[h]) = "parserCancel"
    BY <1>1, <1>5, TracedIs DEF AskedJob, Purges
  <1>7. /\ \A k \in Kbs : Ghost(k) => Later(k, snap[k].task)
        /\ \A i \in 1..Len(tasks) : snap[tasks[i].kb] = NoSnap /\ stage[i] # "canceled" => Later(tasks[i].kb, i)
        /\ \A k \in bound : snap[k] # NoSnap /\ ~Later(k, snap[k].task)
    BY <1>5, TracedIs
  <1> QED BY <1>1, <1>3, <1>4, <1>6, <1>7, TracedKept DEF Paired, Ghost

LEMMA TracedReceive ==
  ASSUME Ruled, Traced, hurt = {}, \A g, i \in Threads : g = i, Typed', NEW h \in Threads, Receive(h)
  PROVE  Traced'
  <1>1. /\ Typed /\ job[h] = Idle /\ Op(job[h]) = None /\ ~Purges(job'[h])
        /\ UNCHANGED <<bound, snap, tasks, stage>> /\ Op(job'[h]) \in {None, "startTask", "finTask"}
    BY ReceiveIs DEF Ruled, Agreed
  <1>2. ~Enqueue(h)
    BY <1>1, OpIs DEF Enqueue, None
  <1>3. Len(tasks') = Len(tasks) /\ Len(tasks) \in Nat /\ \A k : \A n \in Nat : Later(k, n)' = Later(k, n)
    BY <1>1, <1>2, LaterSame, LengthSame, Shape
  <1>4. Op(job[h]) \notin {"purgeSnap", "enqueue"}
    BY <1>1 DEF None
  <1>5. ASSUME Op(job'[h]) # None, snap[job'[h].kb] = NoSnap \/ snap[job'[h].kb].task = job'[h].task
        PROVE  job'[h].kb \in bound \/ Later(job'[h].kb, job'[h].task)
    <2>1. job'[h] # Idle
      BY <1>5, IdlePath
    <2>2. /\ Serves(job'[h], Head(outbox)) /\ Head(outbox) = outbox[1] /\ 1 \in 1..Len(outbox)
          /\ Head(outbox).task \in 1..Len(tasks)
      BY <1>1, <2>1, ReceiveIs
    <2>3. Going(Head(outbox).task) /\ stage[Head(outbox).task] # "canceled"
      BY <2>2 DEF Going, Ruled, Agreed, Staged
    <2>4. job'[h].task = Head(outbox).task /\ job'[h].kb = tasks[Head(outbox).task].kb
      BY <2>2 DEF Serves
    <2> QED BY <1>4, <1>5, <2>2, <2>3, <2>4, AwaitedVouches
  <1>6. /\ \A k \in Kbs : Ghost(k) => Later(k, snap[k].task)
        /\ \A i \in 1..Len(tasks) : snap[tasks[i].kb] = NoSnap /\ stage[i] # "canceled" => Later(tasks[i].kb, i)
        /\ \A k \in bound : snap[k] # NoSnap /\ ~Later(k, snap[k].task)
    BY <1>4, TracedIs
  <1>7. Op(job'[h]) # "purgeSnap" /\ Op(job'[h]) # "cancelRead" /\ None \notin Paired
    BY <1>1 DEF None, Paired
  <1> QED BY <1>1, <1>3, <1>5, <1>6, <1>7, TracedKept DEF Ghost, None

\* The steps of the parsing service.
LEMMA TracedParse ==
  ASSUME Typed, Traced, Parse
  PROVE  Traced'
  <1>1. PICK id \in Ids, s \in {"WORKING", "SUCCESS", "FAILED"} :
          \/ Claim(id) /\ s = "WORKING"
          \/ Finish(id, s) /\ s \in {"SUCCESS", "FAILED"}
    BY DEF Parse
  <1>2. /\ UNCHANGED <<bound, snap, tasks, job>>
        /\ stage[id] # "canceled"
        /\ \E v \in {"running", "done"} : stage' = [stage EXCEPT ![id] = v]
    BY <1>1, ParseTyped
  <1>3. \A i : stage[i] = "canceled" => stage'[i] = "canceled"
    BY <1>2
  <1>4. \A i \in 1..Len(tasks) : stage'[i] # "canceled" => stage[i] # "canceled"
    BY <1>3
  <1>5. \A h \in Threads : Vouches(job[h])'
    BY <1>2, <1>3 DEF Traced, Vouches, Names, Later, Purges, Has, Op
  <1> QED BY <1>2, <1>4, <1>5 DEF Traced, Ghost, Later, Op

\* What cancel_task's call of the parsing service does to the stages.
LEMMA ParserCancelIs ==
  ASSUME Typed, Paths, NEW h \in Threads, ParserCancel(h)
  PROVE  /\ Op(job[h]) = "parserCancel" /\ job[h].task \in 1..Len(tasks)
         /\ \/ job'[h] = Idle /\ stage' = stage
            \/ /\ stage[job[h].task] = "queued" /\ Op(job'[h]) = "cancelRead"
               /\ stage' = [stage EXCEPT ![job[h].task] = "canceled"]
  <1>1. PICK j2 \in JobRec :
          /\ job' = [job EXCEPT ![h] = j2]
          /\ \/ j2 = Idle /\ stage' = stage
             \/ /\ Op(j2) = "cancelRead" /\ stage[job[h].task] = "queued"
                /\ stage' = [stage EXCEPT ![job[h].task] = "canceled"]
    BY ParserCancelJob
  <1>2. job'[h] = j2
    BY <1>1, OneJob
  <1> QED BY <1>1, <1>2, ParserCancelJob

\* The stages after an operation that leaves relations and snapshots alone: what was
\* canceled stays so, and a purge goes on when its task is canceled.
LEMMA StillStage ==
  ASSUME Ruled, Traced, \A g, i \in Threads : g = i, NEW h \in Threads, Still(h), troubles' = 0
  PROVE  /\ \A i \in 1..Len(tasks) : stage[i] = "canceled" => stage'[i] = "canceled"
         /\ Purges(job'[h]) => stage'[job[h].task] = "canceled"
  <1>1. /\ Typed /\ Paths /\ stage \in [Ids -> Stages] /\ Vouches(job[h]) /\ Knows(job[h])
        /\ Turns(job[h], job'[h]) /\ 1..Len(tasks) \subseteq Ids
    BY StillWorks, TracedIs, Shape DEF Ruled, Agreed, Left
  <1>2. CASE Submit(h)
    <2>1. /\ Op(job[h]) = "submit" /\ stage' = [stage EXCEPT ![job[h].task] = "queued"]
          /\ stage[job[h].task] = "none"
      <3>1. Submits(job[h])
        BY <1>1, <1>2, SubmitTyped DEF Submits
      <3> QED BY <1>1, <1>2, <3>1, SubmitCalm DEF Ruled, Agreed, Staged, StagedJob
    <2>2. ~Purges(job'[h])
      BY <1>1, <2>1 DEF Turns, Knows, Asking
    <2> QED BY <1>1, <2>1, <2>2
  <1>3. CASE ParserCancel(h)
    <2>1. /\ job[h].task \in 1..Len(tasks)
          /\ \/ job'[h] = Idle /\ stage' = stage
             \/ stage' = [stage EXCEPT ![job[h].task] = "canceled"]
      BY <1>1, <1>3, ParserCancelIs
    <2>2. ~Purges(Idle)
      BY IdlePath DEF Purges
    <2> QED BY <1>1, <2>1, <2>2
  <1>4. CASE ~Submit(h) /\ ~ParserCancel(h)
    <2>1. stage' = stage
      BY <1>4 DEF Still, Mark, WriteTask, WriteDoc, WriteDeletedDoc, Count, PurgeSync, CancelRead, parser
    <2>2. Op(job[h]) # "parserCancel"
      BY <1>1, <1>4, OpIs DEF Still, Mark, WriteTask, WriteDoc, WriteDeletedDoc, Count, PurgeSync,
         CancelRead, None
    <2> QED BY <1>1, <2>1, <2>2 DEF Turns, Vouches
  <1> QED BY <1>2, <1>3, <1>4

LEMMA TracedStill ==
  ASSUME Ruled, Traced, hurt = {}, \A g, i \in Threads : g = i, Typed', NEW h \in Threads, Still(h),
         troubles' = 0, Steps
  PROVE  Traced'
  <1>1. /\ Typed /\ Paths /\ Owned /\ UNCHANGED <<bound, snap>> /\ Turns(job[h], job'[h])
        /\ StillOp(job[h], job'[h]) /\ job[h].todo # << >> /\ Vouches(job[h]) /\ Knows(job[h])
        /\ \A i \in 1..Len(tasks) : tasks'[i].kb = tasks[i].kb
    BY StillWorks, TracedIs, StepsFrame DEF Ruled, Agreed, Left
  <1>2. Op(job[h]) \notin {"enqueue", "purgeSnap"} /\ ~Enqueue(h)
    <2>1. Op(job[h]) \notin {"enqueue", "purgeSnap"}
      BY <1>1 DEF StillOp
    <2>2. ~Enqueue(h)
      BY <1>1, <2>1, EnqueueIs
    <2> QED BY <2>1, <2>2
  <1>3. Work(h)
    BY DEF Still, Work
  <1>4. Len(tasks') = Len(tasks) /\ Len(tasks) \in Nat /\ \A k : \A n \in Nat : Later(k, n)' = Later(k, n)
    BY <1>1, <1>2, <1>3, LaterSame, LengthSame, Shape
  <1>5. ASSUME Op(job'[h]) \in Paired \cup {"cancelRead"},
               snap[job'[h].kb] = NoSnap \/ snap[job'[h].kb].task = job'[h].task
        PROVE  job'[h].kb \in bound \/ Later(job'[h].kb, job'[h].task)
    <2>1. job'[h] # Idle
      BY <1>5, IdlePath DEF Paired, None
    <2>2. job'[h].kb = job[h].kb /\ job'[h].task = job[h].task
      BY <1>1, <2>1 DEF Turns
    <2>3. Op(job[h]) # "submit"
      <3> SUFFICES ASSUME Op(job[h]) = "submit" PROVE FALSE
        OBVIOUS
      <3>1. Submit(h)
        BY <1>1, OpIs DEF Still, Mark, WriteTask, WriteDoc, WriteDeletedDoc, Count, PurgeSync, CancelRead,
           ParserCancel, None
      <3> QED BY <1>1, <1>5, <3>1, SubmitCalm DEF Paired, None
    <2>4. CASE Op(job[h]) \in Paired \cup {"cancelRead"}
      BY <1>1, <1>5, <2>2, <2>4 DEF Vouches, Names
    <2>5. CASE Op(job[h]) = "parserCancel"
      <3>1. ParserCancel(h)
        BY <1>1, <2>5, OpIs DEF Still, Mark, Submit, WriteTask, WriteDoc, WriteDeletedDoc, Count, PurgeSync,
           CancelRead, None
      <3>2. stage[job[h].task] = "queued" /\ job[h].task \in 1..Len(tasks) /\ job[h].task # 0
        BY <1>1, <1>4, <2>1, <3>1, ParserCancelIs
      <3>3. Going(job[h].task) /\ tasks[job[h].task].kb = job[h].kb
        BY <1>1, <3>2, BusyIs DEF Going, Owned
      <3> QED BY <1>2, <1>5, <2>2, <3>2, <3>3, AwaitedVouches
    <2>6. Op(job[h]) \in Paired \cup {"parserCancel", "cancelRead", "submit"}
      BY <1>1, <1>5, <2>1 DEF StillOp, Paired, None
    <2> QED BY <2>3, <2>4, <2>5, <2>6
  <1>6. Op(job'[h]) # "purgeSnap"
    BY <1>1, IdlePath DEF StillOp, None
  <1>7. ASSUME Purges(job'[h])
        PROVE  ~Later(job'[h].kb, job'[h].task) /\ stage'[job'[h].task] = "canceled"
    <2>1. Purges(job[h]) /\ job'[h] # Idle
      BY <1>1, <1>7, IdlePath DEF Turns, Purges
    <2>2. job'[h].kb = job[h].kb /\ job'[h].task = job[h].task
      BY <1>1, <2>1 DEF Turns
    <2> QED BY <1>1, <1>7, <2>1, <2>2, StillStage DEF Vouches
  <1>8. /\ \A k \in Kbs : Ghost(k) => Later(k, snap[k].task)
        /\ \A i \in 1..Len(tasks) : snap[tasks[i].kb] = NoSnap /\ stage[i] # "canceled" => Later(tasks[i].kb, i)
        /\ \A k \in bound : snap[k] # NoSnap /\ ~Later(k, snap[k].task)
    BY <1>2, TracedIs
  <1>9. \A i \in 1..Len(tasks) : stage'[i] # "canceled" => stage[i] # "canceled"
    BY StillStage
  <1> QED BY <1>1, <1>4, <1>5, <1>6, <1>7, <1>8, <1>9, TracedKept DEF Ghost

\* A purge that is ahead after the step was ahead before it.
LEMMA PurgeOn ==
  ASSUME Typed, Traced, NEW h \in Threads, Turns(job[h], job'[h]), Op(job[h]) # "parserCancel",
         stage' = stage, Purges(job'[h])
  PROVE  ~Later(job'[h].kb, job'[h].task) /\ stage'[job'[h].task] = "canceled"
  <1>1. Purges(job[h]) /\ job'[h] # Idle /\ Vouches(job[h])
    BY IdlePath DEF Turns, Purges, Traced
  <1> QED BY <1>1 DEF Turns, Vouches

LEMMA TracedRelations ==
  ASSUME Ruled, Traced, \A g, i \in Threads : g = i, Typed', NEW h \in Threads,
         Bind(h) \/ Unbind(h) \/ PurgeRel(h)
  PROVE  Traced'
  <1>1. /\ Typed /\ Paths /\ Knows(job[h]) /\ bound \subseteq Kbs
    BY DEF Ruled, Agreed, Left, Typed, RowsFit
  <1>2. /\ Op(job[h]) \in {"bind", "finUnbind", "purgeRel"} /\ Turns(job[h], job'[h])
        /\ UNCHANGED <<snap, tasks, stage>> /\ job[h].kb \in Kbs
        /\ Op(job'[h]) \in {"enqueue", "count", "purgeSnap"}
    BY <1>1, BindIs, UnbindIs, PurgeRelIs
  <1>3. ~Enqueue(h) /\ Work(h)
    BY <1>1, <1>2, EnqueueIs DEF Work
  <1>4. Len(tasks') = Len(tasks) /\ Len(tasks) \in Nat /\ \A k : \A n \in Nat : Later(k, n)' = Later(k, n)
    BY <1>1, <1>3, LaterSame, LengthSame, Shape
  <1>5. Purges(job'[h]) => ~Later(job'[h].kb, job'[h].task) /\ stage'[job'[h].task] = "canceled"
    BY <1>1, <1>2, PurgeOn
  <1>6. Op(job'[h]) \notin Paired \cup {"cancelRead"}
    BY <1>2 DEF Paired
  <1>7. /\ \A k \in Kbs : Ghost(k) => Later(k, snap[k].task)
        /\ \A i \in 1..Len(tasks) : snap[tasks[i].kb] = NoSnap /\ stage[i] # "canceled" => Later(tasks[i].kb, i)
        /\ \A k \in bound : snap[k] # NoSnap /\ ~Later(k, snap[k].task)
    BY <1>2, TracedIs
  <1>8. CASE Bind(h)
    <2>1. bound' = bound \cup {job[h].kb} /\ Op(job'[h]) = "enqueue" /\ job'[h].kb = job[h].kb
      BY <1>1, <1>8, BindIs DEF Turns
    <2> QED BY <1>2, <1>4, <1>5, <1>6, <1>7, <2>1, TracedKept DEF Ghost
  <1>9. CASE Unbind(h)
    <2>1. bound' = bound \ {job[h].kb} /\ Op(job'[h]) = "count" /\ snap[job[h].kb].status = "DELETED"
      BY <1>1, <1>9, UnbindIs DEF Knows
    <2> QED BY <1>2, <1>4, <1>5, <1>6, <1>7, <2>1, TracedKept DEF Ghost
  <1>10. CASE PurgeRel(h)
    <2>1. bound' = bound \ {job[h].kb} /\ Op(job'[h]) = "purgeSnap" /\ job'[h].kb = job[h].kb
      BY <1>1, <1>10, PurgeRelIs DEF Turns
    <2> QED BY <1>2, <1>4, <1>5, <1>6, <1>7, <2>1, TracedKept DEF Ghost
  <1> QED BY <1>8, <1>9, <1>10

LEMMA TracedWriteSnap ==
  ASSUME Ruled, Current, Traced, \A g, i \in Threads : g = i, Typed', NEW h \in Threads, WriteSnap(h)
  PROVE  Traced'
  <1>1. /\ Typed /\ Paths /\ Vouches(job[h])
    BY TracedIs DEF Ruled, Agreed
  <1>2. /\ Op(job[h]) \in {"failSnap", "startSnap", "finSnap"} /\ Turns(job[h], job'[h])
        /\ Op(job'[h]) \in {None, "failDoc", "startDoc", "finDoc", "finUnbind", "count"}
        /\ job[h].kb \in Kbs /\ UNCHANGED <<bound, tasks, stage>>
        /\ snap'[job[h].kb] # NoSnap /\ snap'[job[h].kb].task = job[h].task
        /\ \A k \in Kbs : k # job[h].kb => snap'[k] = snap[k]
    BY <1>1, WriteSnapOp
  <1>3. ~Enqueue(h) /\ Work(h)
    BY <1>1, <1>2, EnqueueIs DEF Work
  <1>4. Len(tasks') = Len(tasks) /\ Len(tasks) \in Nat /\ \A k : \A n \in Nat : Later(k, n)' = Later(k, n)
    BY <1>1, <1>3, LaterSame, LengthSame, Shape
  <1>5. Names(job[h])
    BY <1>1, <1>2, PairedPends DEF Current, Paired
  <1>6. job[h].kb \in bound \/ Later(job[h].kb, job[h].task)
    BY <1>1, <1>2, <1>5 DEF Vouches, Paired
  <1>7. Purges(job'[h]) => ~Later(job'[h].kb, job'[h].task) /\ stage'[job'[h].task] = "canceled"
    BY <1>1, <1>2, PurgeOn
  <1>8. Op(job'[h]) \notin Paired \cup {"cancelRead", "purgeSnap"}
    BY <1>2 DEF Paired, None
  <1>9. /\ \A k \in Kbs : Ghost(k) => Later(k, snap[k].task)
        /\ \A i \in 1..Len(tasks) : snap[tasks[i].kb] = NoSnap /\ stage[i] # "canceled" => Later(tasks[i].kb, i)
        /\ \A k \in bound : snap[k] # NoSnap /\ ~Later(k, snap[k].task)
    BY <1>2, TracedIs
  <1>10. \A k \in Kbs : k \notin bound /\ snap'[k].status \notin {None, "DELETED"} => Later(k, snap'[k].task)
    BY <1>2, <1>6, <1>9 DEF Ghost
  <1>11. \A i \in 1..Len(tasks) : tasks[i].kb \in Kbs
    <2>1. \A i \in 1..Len(tasks) : tasks[i] \in TaskRec
      BY <1>1, Shape
    <2> QED BY <2>1 DEF TaskRec
  <1>12. \A i \in 1..Len(tasks) : snap'[tasks[i].kb] = NoSnap /\ stage'[i] # "canceled" => Later(tasks[i].kb, i)
    BY <1>2, <1>9, <1>11
  <1>13. \A k \in bound : snap'[k] # NoSnap /\ ~Later(k, snap'[k].task)
    <2>1. bound \subseteq Kbs
      BY <1>1 DEF Typed, RowsFit
    <2> QED BY <1>2, <1>5, <1>9, <2>1 DEF Names
  <1> QED BY <1>2, <1>4, <1>7, <1>8, <1>10, <1>12, <1>13, TracedKept

LEMMA TracedPurgeSnap ==
  ASSUME Ruled, Traced, \A g, i \in Threads : g = i, Typed', NEW h \in Threads, PurgeSnap(h)
  PROVE  Traced'
  <1>1. /\ Typed /\ Paths /\ Owned /\ Vouches(job[h])
    BY TracedIs DEF Ruled, Agreed
  <1>2. /\ Op(job[h]) = "purgeSnap" /\ Turns(job[h], job'[h]) /\ Purges(job[h])
        /\ Op(job'[h]) \in {None, "purgeSync"} /\ job[h].kb \in Kbs /\ snap'[job[h].kb] = NoSnap
        /\ UNCHANGED <<bound, tasks, stage>>
        /\ \A k \in Kbs : k # job[h].kb => snap'[k] = snap[k]
    BY <1>1, PurgeSnapIs
  <1>3. ~Enqueue(h) /\ Work(h)
    BY <1>1, <1>2, EnqueueIs DEF Work
  <1>4. Len(tasks') = Len(tasks) /\ Len(tasks) \in Nat /\ \A k : \A n \in Nat : Later(k, n)' = Later(k, n)
    BY <1>1, <1>3, LaterSame, LengthSame, Shape
  <1>5. /\ ~Later(job[h].kb, job[h].task) /\ stage[job[h].task] = "canceled" /\ job[h].kb \notin bound
    BY <1>1, <1>2 DEF Vouches
  <1>6. Purges(job'[h]) => ~Later(job'[h].kb, job'[h].task) /\ stage'[job'[h].task] = "canceled"
    BY <1>1, <1>2, PurgeOn
  <1>7. Op(job'[h]) \notin Paired \cup {"cancelRead", "purgeSnap"}
    BY <1>2 DEF Paired, None
  <1>8. /\ \A k \in Kbs : Ghost(k) => Later(k, snap[k].task) \/ k = job[h].kb
        /\ \A i \in 1..Len(tasks) : snap[tasks[i].kb] = NoSnap /\ stage[i] # "canceled" => Later(tasks[i].kb, i)
        /\ \A k \in bound : snap[k] # NoSnap /\ ~Later(k, snap[k].task)
    BY <1>2, TracedIs
  <1>9. \A k \in Kbs : k \notin bound /\ snap'[k].status \notin {None, "DELETED"} => Later(k, snap'[k].task)
    BY <1>2, <1>8 DEF Ghost, NoSnap
  <1>10. job[h].task \in 1..Len(tasks) /\ tasks[job[h].task].kb = job[h].kb
    <2>1. job[h].todo # << >> /\ Op(job[h]) = job[h].todo[1]
      BY <1>1, <1>2, OpIs DEF None
    <2>2. job[h].task \in 0..Len(tasks) /\ job[h].task # 0
      BY <1>1, <1>2, <2>1, HeadIs
    <2> QED BY <1>1, <1>4, <2>2 DEF Owned
  <1>11. ASSUME NEW i \in 1..Len(tasks), snap'[tasks[i].kb] = NoSnap, stage'[i] # "canceled"
         PROVE  Later(tasks[i].kb, i)
    <2>1. CASE tasks[i].kb = job[h].kb
      <3>1. i # job[h].task
        BY <1>2, <1>5, <1>11
      <3>2. i < job[h].task
        BY <1>4, <1>5, <1>10, <2>1, <3>1 DEF Later
      <3> QED BY <1>4, <1>10, <2>1, <3>2 DEF Later
    <2>2. CASE tasks[i].kb # job[h].kb
      <3>1. tasks[i] \in TaskRec
        BY <1>1, Shape
      <3>2. tasks[i].kb \in Kbs
        BY <3>1 DEF TaskRec
      <3> QED BY <1>2, <1>8, <1>11, <2>2, <3>2
    <2> QED BY <2>1, <2>2
  <1>12. \A k \in bound : snap'[k] # NoSnap /\ ~Later(k, snap'[k].task)
    <2>1. bound \subseteq Kbs
      BY <1>1 DEF Typed, RowsFit
    <2> QED BY <1>2, <1>5, <1>8, <2>1
  <1> QED BY <1>2, <1>4, <1>6, <1>7, <1>9, <1>11, <1>12, TracedKept

LEMMA TracedEnqueue ==
  ASSUME Ruled, Traced, \A g, i \in Threads : g = i, Typed', NEW h \in Threads, Enqueue(h)
  PROVE  Traced'
  <1>1. /\ Typed /\ Paths /\ Knows(job[h]) /\ Len(tasks) \in Nat /\ bound \subseteq Kbs
    BY Shape DEF Ruled, Agreed, Left, Typed, RowsFit
  <1>2. /\ Op(job[h]) = "enqueue" /\ Op(job'[h]) = "submit" /\ ~Purges(job'[h]) /\ job[h].kb \in bound
        /\ UNCHANGED <<bound, stage>> /\ job[h].kb \in Kbs
        /\ Len(tasks') = Len(tasks) + 1 /\ \A i \in 1..Len(tasks) : tasks'[i] = tasks[i]
        /\ tasks'[Len(tasks) + 1].kb = job[h].kb
        /\ snap'[job[h].kb].status \in {"DELETING", "WAITING"} /\ snap'[job[h].kb].task = Len(tasks) + 1
        /\ \A k \in Kbs : k # job[h].kb => snap'[k] = snap[k]
    BY <1>1, EnqueueIs DEF Knows, Asking
  <1>3. snap'[job[h].kb] # NoSnap
    BY <1>2 DEF NoSnap, None
  <1>4. \A k, n : n \in Nat /\ k # job[h].kb => Later(k, n)' = Later(k, n)
    BY <1>1, LaterEnqueue
  <1>5. /\ \A k \in Kbs : Ghost(k) => Later(k, snap[k].task)
        /\ \A i \in 1..Len(tasks) : snap[tasks[i].kb] = NoSnap /\ stage[i] # "canceled" => Later(tasks[i].kb, i)
        /\ \A k \in bound : k # job[h].kb => snap[k] # NoSnap /\ ~Later(k, snap[k].task)
    BY <1>2, TracedIs
  <1>6. \A k \in Kbs : snap[k].task \in Nat
    BY <1>1, SnapShape, LifecycleAssumption DEF NoSnap, Ids
  <1>7. ASSUME NEW k \in Kbs, k # job[h].kb
        PROVE  Later(k, snap[k].task)' <=> Later(k, snap[k].task)
    <2>1. ASSUME NEW n, n = snap[k].task PROVE Later(k, snap[k].task)' <=> Later(k, snap[k].task)
      <3>1. Later(k, n)' = Later(k, n) /\ snap'[k].task = n
        BY <1>2, <1>4, <1>6, <1>7, <2>1
      <3>2. Later(k, snap[k].task)' <=> Later(k, n)'
        BY <3>1 DEF Later
      <3> QED BY <2>1, <3>1, <3>2
    <2> QED BY <2>1
  <1>8. \A g \in Threads : Vouches(job[g])'
    <2>1. Op(job'[h]) \notin Paired \cup {"cancelRead", "purgeSnap"}
      BY <1>2 DEF Paired
    <2> QED BY <1>2, <2>1 DEF Vouches, Purges, Has, Op
  <1>9. \A k \in Kbs : Ghost(k)' => Later(k, snap[k].task)'
    <2> SUFFICES ASSUME NEW k \in Kbs, Ghost(k)' PROVE Later(k, snap[k].task)'
      OBVIOUS
    <2>1. k # job[h].kb /\ Ghost(k)
      BY <1>2 DEF Ghost
    <2> QED BY <1>5, <1>7, <2>1
  <1>10. ASSUME NEW i \in 1..Len(tasks'), snap'[tasks'[i].kb] = NoSnap, stage'[i] # "canceled"
         PROVE  Later(tasks[i].kb, i)'
    <2>1. tasks'[i].kb # job[h].kb
      BY <1>3, <1>10
    <2>2. i \in 1..Len(tasks) /\ tasks'[i] = tasks[i]
      BY <1>1, <1>2, <2>1
    <2>3. tasks[i].kb \in Kbs
      <3>1. tasks[i] \in TaskRec
        BY <1>1, <2>2, Shape
      <3> QED BY <3>1 DEF TaskRec
    <2>4. Later(tasks[i].kb, i)
      BY <1>2, <1>5, <1>10, <2>1, <2>2, <2>3
    <2>5. ASSUME NEW k, k = tasks[i].kb PROVE Later(tasks[i].kb, i)'
      <3>1. Later(k, i)'
        BY <1>4, <2>1, <2>2, <2>4, <2>5
      <3> QED BY <2>2, <2>5, <3>1 DEF Later
    <2> QED BY <2>5
  <1>11. \A k \in bound' : snap'[k] # NoSnap /\ ~Later(k, snap[k].task)'
    <2> SUFFICES ASSUME NEW k \in bound' PROVE snap'[k] # NoSnap /\ ~Later(k, snap[k].task)'
      OBVIOUS
    <2>1. CASE k # job[h].kb
      BY <1>1, <1>2, <1>5, <1>7, <2>1
    <2>2. CASE k = job[h].kb
      <3>1. ASSUME NEW n, n = Len(tasks) + 1 PROVE ~Later(k, snap[k].task)'
        <4>1. ASSUME NEW m, m = job[h].kb PROVE ~Later(k, snap[k].task)'
          <5>1. ~Later(m, n)'
            BY <1>1, <3>1, <4>1, LaterEnqueue
          <5> QED BY <1>2, <2>2, <3>1, <4>1, <5>1 DEF Later
        <4> QED BY <4>1
      <3> QED BY <1>3, <2>2, <3>1
    <2> QED BY <2>1, <2>2
  <1> QED BY <1>8, <1>9, <1>10, <1>11 DEF Traced

LEMMA GhostsWalks ==
  ASSUME Ruled, Current, Ghosts, \A g, i \in Threads : g = i, Steps, Walks, Typed'
  PROVE  Ghosts'
  <1> SUFFICES ASSUME troubles' = 0 PROVE hurt' = {} /\ Traced'
    BY DEF Ghosts
  <1>1. /\ Typed /\ Paths /\ troubles = 0 /\ hurt' = hurt
        /\ Parse \/ \E h \in Threads : Asks(h) \/ Receive(h) \/ Work(h)
    BY CalmWalks DEF Ruled, Agreed
  <1>2. hurt = {} /\ Traced
    BY <1>1 DEF Ghosts
  <1>3. CASE Parse
    BY <1>1, <1>2, <1>3, TracedParse
  <1>4. ASSUME NEW h \in Threads, Asks(h) \/ Receive(h) \/ Work(h) PROVE Traced'
    BY <1>2, <1>4, TracedAsks, TracedReceive, TracedStill, TracedRelations, TracedWriteSnap,
       TracedPurgeSnap, TracedEnqueue DEF Work, Still
  <1> QED BY <1>1, <1>2, <1>3, <1>4
-----------------------------------------------------------------------------
\* All of it.
Served == Ruled /\ Current /\ Unsettled /\ Emptied /\ Ghosts

LEMMA ServedInit ==
  ASSUME Init
  PROVE  Finals /\ Left /\ Deletions /\ Current /\ Unsettled /\ Emptied /\ Ghosts
  <1>1. /\ bound = {} /\ snap = [k \in Kbs |-> NoSnap] /\ tasks = << >> /\ outbox = << >>
        /\ \A h \in Threads : job[h] = Idle
        /\ hurt = {}
    BY DEF Init
  <1>2. Len(tasks) = 0 /\ Len(outbox) = 0
    BY <1>1
  <1>3. ~Purges(Idle) /\ Op(Idle) = None /\ Idle.task = 0 /\ Idle.type = None /\ ~Idle.posted
    BY IdlePath DEF Purges, Idle
  <1>4. \A k \in Kbs : snap[k].status = None /\ snap[k].task = 0 /\ snap[k].type = None
    BY <1>1 DEF NoSnap
  <1>5. Finals
    BY <1>1, <1>2, <1>3 DEF Finals
  <1>6. Left
    BY <1>1, <1>4, IdleKnows DEF Left, Leaves, None
  <1>7. Deletions
    BY <1>1, <1>2, <1>3, <1>4 DEF Deletions, Holds, None
  <1>8. Current
    BY <1>1, IdlePends DEF Current
  <1>9. Unsettled /\ Emptied
    BY <1>2 DEF Unsettled, Emptied
  <1>10. Ghosts
    BY <1>1, <1>2, <1>3, <1>4 DEF Ghosts, Traced, Vouches, Ghost, None, Paired
  <1> QED BY <1>5, <1>6, <1>7, <1>8, <1>9, <1>10

LEMMA ServedStutter ==
  ASSUME UNCHANGED vars, Served, Agreed', Paths'
  PROVE  Served'
  <1>1. Finals'
    BY DEF Served, Ruled, vars, Finals
  <1>2. Left'
    BY DEF Served, Ruled, vars, Left, Leaves, Knows, Relieves, Purges, Has, Op
  <1>3. Deletions'
    BY DEF Served, Ruled, vars, Deletions, Holds, Rules, Yields, Going, Busy, Submits, Later, Purges, Has, Op
  <1>4. Current'
    BY DEF Served, vars, Current, Submits, Pending, Names
  <1>5. Unsettled'
    BY DEF Served, vars, Unsettled, Busy, Submits
  <1>6. Emptied'
    BY DEF Served, vars, Emptied, Succeeded, Overtaken, Op
  <1>7. Ghosts'
    BY DEF Served, vars, Ghosts, Traced, Vouches, Names, Ghost, Later, Purges, Has, Op
  <1> QED BY <1>1, <1>2, <1>3, <1>4, <1>5, <1>6, <1>7 DEF Served, Ruled

LEMMA ServedInvariant ==
  ASSUME \A g, h \in Threads : g = h
  PROVE  Spec => []Served
  <1>1. Init /\ Agreed /\ Paths => Served
    BY ServedInit DEF Served, Ruled
  <1>2. Served /\ [Next]_vars /\ Agreed' /\ Paths' => Served'
    <2> SUFFICES ASSUME Served, [Next]_vars, Agreed', Paths' PROVE Served'
      OBVIOUS
    <2>1. CASE Next
      <3>1. Typed /\ Owned /\ Agreed /\ Paths /\ Typed'
        BY DEF Served, Ruled, Agreed
      <3>2. Steps /\ Walks
        BY <2>1, <3>1, NextSteps, NextWalks
      <3>3. Finals' /\ Left' /\ Deletions'
        BY <3>1, <3>2, FinalsSteps, LeftWalks, DeletionsWalks DEF Served, Ruled
      <3>4. Current' /\ Unsettled' /\ Emptied' /\ Ghosts'
        BY <3>1, <3>2, CurrentSteps, UnsettledSteps, EmptiedWalks, GhostsWalks DEF Served, Ruled
      <3> QED BY <3>3, <3>4 DEF Served, Ruled
    <2>2. CASE UNCHANGED vars
      BY <2>2, ServedStutter
    <2> QED BY <2>1, <2>2
  <1> QED BY <1>1, <1>2, AgreedInvariant, PathsInvariant, PTL DEF Spec

\* What a delete promises, when one thread serves the requests (on_task_callback,
\* _exec_delete_task, _purge_deleted_kb_doc_data): a document whose deletion is the last
\* thing that happened to it has left the knowledge base, and its nodes the store, unless a
\* task that the deletion superseded never reached a final status or its submission seemed
\* to fail; and without troubles no snapshot shows a document that is gone, unless a later
\* task superseded the one it names.
THEOREM DeletedDocumentsStayGone ==
  ASSUME \A g, h \in Threads : g = h
  PROVE  Spec => []DeletedStaysGone
  <1>1. Served => DeletedIsGone
    <2> SUFFICES ASSUME Served, Quiet, NEW k \in Kbs, snap[k].status = "DELETED", snap[k].task \notin hurt
                 PROVE  /\ k \notin bound
                        /\ \/ k \notin nodes
                           \/ \E id \in 1..(snap[k].task - 1) :
                                tasks[id].kb = k /\ (tasks[id].status \notin Settled \/ id \in hurt)
      BY DEF DeletedIsGone
    <2>1. Typed /\ Owned /\ Left /\ Emptied /\ snap[k] # NoSnap
      BY DEF Served, Ruled, Agreed, NoSnap, None
    <2>2. snap[k].type = "DELETE" /\ k \notin bound
      BY <2>1, IdleKnows DEF Left, Leaves, Quiet
    <2>3. /\ snap[k].task \in 1..Len(tasks)
          /\ tasks[snap[k].task].kb = k /\ tasks[snap[k].task].type = "DELETE"
      BY <2>1, <2>2, SnapShape DEF Owned
    <2>4. Succeeded(snap[k].task)
      BY <2>3 DEF Succeeded
    <2>5. k \notin nodes \/ Overtaken(k, snap[k].task)
      BY <2>1, <2>3, <2>4 DEF Emptied
    <2> QED BY <2>2, <2>5 DEF Overtaken
  <1>2. Served => NoGhost
    <2> SUFFICES ASSUME Served, Quiet, troubles = 0, NEW k \in Kbs, Ghost(k)
                 PROVE  Later(k, snap[k].task)
      BY DEF NoGhost, Later
    <2>1. \A h \in Threads : Op(job[h]) # "purgeSnap"
      BY IdlePath DEF Quiet, None
    <2> QED BY <2>1 DEF Served, Ghosts, Traced
  <1> QED BY <1>1, <1>2, ServedInvariant, PTL DEF DeletedStaysGone
===============================================================================

---------------------------- MODULE FlowGraphProofs ----------------------------
(***************************************************************************)
(* Proofs about FlowGraph: its types, that no function runs before its     *)
(* inputs, that the threads of the pool never block each other for good,   *)
(* and that the outcome of a call is that of the graph.                    *)
(***************************************************************************)
EXTENDS FlowGraph, FiniteSetTheorems, SequenceTheorems, WellFoundedInduction, TLAPS

\* Among the first numbers every set that is not empty has a least element.
LEMMA LeastExists ==
  ASSUME NEW n \in Nat, NEW T \in SUBSET (1..n), T # {}
  PROVE  \E x \in T : \A y \in T : x <= y
  <1> DEFINE family == {1..x : x \in T}
  <1>1. IsWellFoundedOn(StrictSubsetOrdering(1..n), SUBSET (1..n))
    <2>1. IsFiniteSet(1..n)
      BY FS_Interval
    <2>2. FiniteSubsetsOf(1..n) = SUBSET (1..n)
      BY <2>1, FS_FiniteSubsetsOfFinite
    <2>3. IsWellFoundedOn(StrictSubsetOrdering(1..n), FiniteSubsetsOf(1..n))
      BY FS_StrictSubsetOrderingWellFounded
    <2> QED BY <2>2, <2>3
  <1>2. family \subseteq SUBSET (1..n) /\ family # {}
    <2>1. ASSUME NEW x \in T PROVE 1..x \subseteq 1..n
      OBVIOUS
    <2>2. PICK x \in T : TRUE
      OBVIOUS
    <2> QED BY <2>1, <2>2
  <1>3. PICK A \in family : \A B \in family : ~(<<B, A>> \in StrictSubsetOrdering(1..n))
    <2> HIDE DEF family
    <2> QED BY <1>1, <1>2, WFMin
  <1>4. PICK x \in T : A = 1..x
    OBVIOUS
  <1>5. ASSUME NEW y \in T, ~(x <= y)
        PROVE  FALSE
    <2>1. 1..y \in family /\ 1..y \subseteq 1..x /\ x \in 1..x /\ x \notin 1..y
      BY <1>5
    <2>2. <<1..y, 1..x>> \in StrictSubsetOrdering(1..n)
      BY <2>1, <1>2, <1>4 DEF StrictSubsetOrdering
    <2> QED BY <2>1, <2>2, <1>3, <1>4
  <1> QED BY <1>5

Distinct(s) == \A i, j \in 1..Len(s) : s[i] = s[j] => i = j

\* Every node is taken into the order once.
LEMMA AppendDistinct ==
  ASSUME NEW S, NEW s \in Seq(S), NEW e \in S, Distinct(s),
         \A i \in 1..Len(s) : s[i] # e
  PROVE  /\ Append(s, e) \in Seq(S) /\ Len(Append(s, e)) = Len(s) + 1
         /\ Append(s, e)[Len(s) + 1] = e
         /\ \A i \in 1..Len(s) : Append(s, e)[i] = s[i]
         /\ Distinct(Append(s, e))
  <1>1. /\ Append(s, e) \in Seq(S) /\ Len(Append(s, e)) = Len(s) + 1
        /\ Append(s, e)[Len(s) + 1] = e
        /\ \A i \in 1..Len(s) : Append(s, e)[i] = s[i]
    BY AppendProperties
  <1>2. Len(s) \in Nat
    OBVIOUS
  <1>3. Distinct(Append(s, e))
    <2> SUFFICES ASSUME NEW i \in 1..(Len(s) + 1), NEW j \in 1..(Len(s) + 1),
                        Append(s, e)[i] = Append(s, e)[j]
                 PROVE  i = j
      BY <1>1 DEF Distinct
    <2>1. CASE i \in 1..Len(s) /\ j \in 1..Len(s)
      BY <1>1, <2>1 DEF Distinct
    <2>2. CASE i = Len(s) + 1 /\ j \in 1..Len(s)
      BY <1>1, <1>2, <2>2
    <2>3. CASE j = Len(s) + 1 /\ i \in 1..Len(s)
      BY <1>1, <1>2, <2>3
    <2> QED BY <1>2, <2>1, <2>2, <2>3
  <1> QED BY <1>1, <1>3

-----------------------------------------------------------------------------
(* The invariant, whatever edges were added.                               *)

\* The sort takes a node when nothing is left to take before it, and only then.
SortState ==
  /\ Distinct(cache)
  /\ pc = "sorting" =>
       /\ at = 0 /\ ready \cap popped = {}
       /\ \A n \in Nodes : n \in ready \cup popped <=> degree[n] <= 0
       /\ Distinct(sorted) /\ \A i \in 1..Len(sorted) : sorted[i] \in popped

\* A thread computes a node that no other computes, and what it has read is there.
PoolState ==
  /\ \A w \in Workers : held[w] # None =>
       /\ held[w] # Start /\ future[held[w]] = "busy"
       /\ unread[w] \subseteq inputs[held[w]]
       /\ \A m \in inputs[held[w]] \ unread[w] : future[m] = "done"
  /\ \A v, w \in Workers : held[v] # None /\ held[v] = held[w] => v = w
  /\ \A n \in Nodes : future[n] = "busy" => \E w \in Workers : held[w] = n
  /\ \A n \in Nodes : future[n] \in {"queued", "busy"} => pc = "submitting"
  /\ \A n \in Nodes : pc = "sorting" => future[n] = "absent"
  /\ future[Start] \in {"absent", "done"}

\* The futures are those of the nodes submitted so far, begun in the order of the sort;
\* what is done has its inputs done.
CallState ==
  pc = "submitting" =>
    /\ \A n \in Nodes : future[n] # "absent" => \E i \in 1..at : cache[i] = n
    /\ \A i \in 1..at : future[cache[i]] # "absent"
    /\ \A i, j \in 1..at : j < i /\ future[cache[i]] = "busy" => future[cache[j]] # "queued"
    /\ \A n \in Nodes \ {Start} : future[n] = "done" => \A m \in inputs[n] : future[m] = "done"

\* The order of the sort on a graph that was not changed after it.
Clean ==
  ~tainted =>
    /\ \A m, n \in Nodes : outs[m][n] = IF m \in inputs[n] THEN 1 ELSE 0
    /\ \A n \in Nodes : degree[n] \in Nat
    /\ pc = "sorting" => \A n \in Nodes : degree[n] = Cardinality(inputs[n] \ popped)

InOrder(s) ==
  \A i \in 1..Len(s) : Linked(s[i]) /\ \A m \in inputs[s[i]] : \E j \in 1..(i - 1) : s[j] = m
Covers(s, S) == \A n \in S : Linked(n) => \E i \in 1..Len(s) : s[i] = n

Sound ==
  ~tainted =>
    /\ pc = "sorting" => InOrder(sorted) /\ Covers(sorted, popped)
    /\ pc = "submitting" \/ cache # << >> => InOrder(cache) /\ Covers(cache, Nodes)

\* What has raised did so itself, or has an input that raised.
Blame ==
  /\ \A n \in broken : future[n] = "raised"
  /\ ~tainted => \A n \in Nodes : future[n] = "raised" =>
       n \in broken \/ \E m \in inputs[n] : future[m] = "raised"

IInv == TypeOK /\ SortState /\ PoolState /\ CallState /\ Clean /\ Sound /\ Blame

LEMMA NodesFinite ==
  /\ IsFiniteSet(Nodes) /\ Start \in Nodes /\ End \in Nodes /\ None \notin Nodes
  /\ \A S \in SUBSET Nodes : IsFiniteSet(S) /\ Cardinality(S) \in Nat
  <1>1. IsFiniteSet({Start} \cup {End})
    BY FS_Singleton, FS_AddElement
  <1>2. Nodes = Items \cup ({Start} \cup {End})
    BY DEF Nodes
  <1>3. IsFiniteSet(Nodes)
    BY <1>1, <1>2, FS_Union, GraphAssumption
  <1>4. \A S \in SUBSET Nodes : IsFiniteSet(S) /\ Cardinality(S) \in Nat
    BY <1>3, FS_Subset, FS_CardinalityType
  <1> QED BY <1>2, <1>3, <1>4, GraphAssumption

-----------------------------------------------------------------------------
(* The graph.                                                              *)

LEMMA InvInit == Init => IInv
  <1> SUFFICES ASSUME Init PROVE IInv
    OBVIOUS
  <1> USE DEF Init
  <1>1. PICK edges \in SUBSET Edges :
          /\ inputs = [n \in Nodes |-> {m \in Nodes : <<m, n>> \in edges}]
          /\ outs = [m \in Nodes |-> [n \in Nodes |-> IF <<m, n>> \in edges THEN 1 ELSE 0]]
    OBVIOUS
  <1>2. TypeOK
    <2>1. /\ inputs \in [Nodes -> SUBSET Nodes]
          /\ outs \in [Nodes -> [Nodes -> Nat]]
      BY <1>1
    <2>2. /\ degree \in [Nodes -> IF tainted THEN Int ELSE Nat]
          /\ future \in [Nodes -> {"absent", "queued", "busy", "done", "raised"}]
          /\ held \in [Workers -> Nodes \cup {None}] /\ unread \in [Workers -> SUBSET Nodes]
      OBVIOUS
    <2>3. cache \in Seq(Nodes) /\ sorted \in Seq(Nodes) /\ at \in 0..Len(cache)
      OBVIOUS
    <2>4. added \in 0..MaxAdded /\ runs \in 0..MaxRuns /\ faults \in 0..MaxFaults
      BY GraphAssumption
    <2> QED BY <2>1, <2>2, <2>3, <2>4 DEF TypeOK
  <1>3. SortState /\ CallState /\ Sound
    BY DEF SortState, CallState, Sound, Distinct
  <1>6. Blame
    <2>1. broken = {} /\ \A n \in Nodes : future[n] = "absent"
      OBVIOUS
    <2> HIDE DEF Init
    <2> QED BY <2>1 DEF Blame
  <1>4. PoolState
    BY NodesFinite DEF PoolState
  <1>5. Clean
    BY <1>1 DEF Clean
  <1> QED BY <1>2, <1>3, <1>4, <1>5, <1>6 DEF IInv

LEMMA InvAddEdge ==
  ASSUME IInv, NEW m \in Nodes, NEW n \in Nodes, AddEdge(m, n)
  PROVE  IInv'
  <1> USE DEF IInv, AddEdge, sort, pool
  <1>1. TypeOK'
    <2>1. inputs' \in [Nodes -> SUBSET Nodes] /\ outs' \in [Nodes -> [Nodes -> Nat]]
      BY DEF TypeOK
    <2>2. added' \in 0..MaxAdded /\ tainted' \in BOOLEAN
      BY GraphAssumption DEF TypeOK
    <2>3. degree' \in [Nodes -> IF tainted' THEN Int ELSE Nat]
      BY DEF TypeOK
    <2> QED BY <2>1, <2>2, <2>3 DEF TypeOK
  <1>2. SortState' /\ CallState'
    BY DEF SortState, CallState, Distinct
  <1>7. Blame'
    <2>1. /\ \A k \in Nodes : inputs[k] \subseteq inputs'[k]
          /\ future' = future /\ broken' = broken /\ (~tainted' => ~tainted) /\ Blame
      BY DEF TypeOK
    <2> HIDE DEF IInv, AddEdge
    <2> QED BY <2>1 DEF Blame
  <1>3. \A w \in Workers : held[w] = None
    <2> SUFFICES ASSUME NEW w \in Workers, held[w] # None PROVE FALSE
      OBVIOUS
    <2>1. held[w] \in Nodes
      BY DEF TypeOK
    <2> QED BY <2>1 DEF PoolState
  <1>4. PoolState'
    BY <1>3 DEF PoolState
  <1>5. Clean'
    <2> SUFFICES ASSUME ~tainted' PROVE Clean'
      BY DEF Clean
    <2>1. ~tainted /\ m \notin inputs[n]
      OBVIOUS
    <2>2. ASSUME NEW a \in Nodes, NEW b \in Nodes
          PROVE  outs'[a][b] = IF a \in inputs'[b] THEN 1 ELSE 0
      <3>1. outs'[a][b] = IF a = m /\ b = n THEN outs[a][b] + 1 ELSE outs[a][b]
        BY DEF TypeOK
      <3>2. inputs'[b] = IF b = n THEN inputs[b] \cup {m} ELSE inputs[b]
        BY DEF TypeOK
      <3>3. outs[a][b] = IF a \in inputs[b] THEN 1 ELSE 0
        BY <2>1 DEF Clean
      <3> QED
        <4> HIDE DEF IInv, AddEdge
        <4> QED BY <2>1, <3>1, <3>2, <3>3
    <2> QED BY <2>1, <2>2 DEF Clean
  <1>6. Sound'
    BY DEF Sound
  <1> QED BY <1>1, <1>2, <1>4, <1>5, <1>6, <1>7

-----------------------------------------------------------------------------
(* The sort.                                                               *)

LEMMA InvCall ==
  ASSUME IInv, Call
  PROVE  IInv'
  <1> USE DEF IInv, Call, Begin, graph, pool
  <1>0. Len(cache) \in Nat /\ \A n \in Nodes : inputs[n] \in SUBSET Nodes /\ InDegree(n) \in Nat
    BY NodesFinite DEF TypeOK, InDegree
  <1>1. TypeOK'
    <2>1. /\ degree' \in [Nodes -> IF tainted' THEN Int ELSE Nat]
          /\ ready' \subseteq Nodes /\ popped' \subseteq Nodes /\ sorted' \in Seq(Nodes)
      <3>1. CASE cache # << >>
        BY <3>1 DEF TypeOK, sort
      <3>2. CASE cache = << >>
        <4>1. \A k \in Nat : k \in IF tainted THEN Int ELSE Nat
          OBVIOUS
        <4>2. /\ degree' = [n \in Nodes |-> InDegree(n)]
              /\ ready' = {n \in Nodes : InDegree(n) = 0}
              /\ popped' = {} /\ sorted' = << >> /\ tainted' = tainted
          BY <3>2
        <4> HIDE DEF IInv, Call
        <4> QED BY <1>0, <4>1, <4>2
      <3> QED BY <3>1, <3>2
    <2>2. runs' \in 0..MaxRuns /\ at' \in 0..Len(cache')
      BY <1>0, GraphAssumption DEF TypeOK
    <2>3. future' \in [Nodes -> {"absent", "queued", "busy", "done", "raised"}]
      OBVIOUS
    <2> QED BY <2>1, <2>2, <2>3 DEF TypeOK
  <1>2. SortState'
    BY <1>0 DEF SortState, Distinct
  <1>3. \A w \in Workers : held[w] = None
    <2> SUFFICES ASSUME NEW w \in Workers, held[w] # None PROVE FALSE
      OBVIOUS
    <2>1. held[w] \in Nodes
      BY DEF TypeOK
    <2> QED BY <2>1 DEF PoolState
  <1>4. PoolState'
    BY <1>3, NodesFinite DEF PoolState
  <1>5. CallState' /\ Blame'
    BY DEF CallState, Blame
  <1>6. Clean'
    <2> SUFFICES ASSUME ~tainted PROVE Clean'
      BY DEF Clean
    <2>1. CASE cache # << >>
      BY <2>1 DEF Clean, sort
    <2>2. CASE cache = << >>
      <3>1. \A n \in Nodes : degree'[n] = InDegree(n) /\ inputs'[n] \ popped' = inputs[n]
        BY <2>2
      <3>2. \A m, n \in Nodes : outs'[m][n] = IF m \in inputs'[n] THEN 1 ELSE 0
        BY DEF Clean
      <3> HIDE DEF IInv, Call
      <3> QED BY <1>0, <3>1, <3>2 DEF Clean, InDegree
    <2> QED BY <2>1, <2>2
  <1>7. Sound'
    <2> SUFFICES ASSUME ~tainted PROVE Sound'
      BY DEF Sound
    <2>1. CASE cache # << >>
      <3>1. InOrder(cache) /\ Covers(cache, Nodes)
        BY <2>1 DEF Sound
      <3>2. InOrder(cache)' /\ Covers(cache, Nodes)'
        BY <3>1 DEF InOrder, Covers, Linked
      <3> QED BY <2>1, <3>2 DEF Sound
    <2>2. CASE cache = << >>
      BY <2>2 DEF Sound, InOrder, Covers
    <2> QED BY <2>1, <2>2
  <1> QED BY <1>1, <1>2, <1>4, <1>5, <1>6, <1>7

\* What is left of a node's inputs when one more node is taken.
LEMMA PopDegree ==
  ASSUME IInv, NEW n \in Nodes, Pop(n), ~tainted, NEW m \in Nodes
  PROVE  degree'[m] \in Nat /\ degree'[m] = Cardinality(inputs[m] \ popped')
  <1> DEFINE left == inputs[m] \ popped
  <1>1. left \in SUBSET Nodes /\ popped' = popped \cup {n} /\ n \notin popped
    BY DEF IInv, TypeOK, SortState, Pop
  <1>2. degree[m] = Cardinality(left) /\ outs[n][m] = IF n \in inputs[m] THEN 1 ELSE 0
    BY DEF IInv, Clean, Pop
  <1>3. degree'[m] = degree[m] - outs[n][m]
    BY DEF Pop
  <1>4. IsFiniteSet(left) /\ Cardinality(left) \in Nat
    BY <1>1, NodesFinite
  <1>5. Cardinality(left \ {n}) = IF n \in left THEN Cardinality(left) - 1 ELSE Cardinality(left)
    BY <1>4, FS_RemoveElement
  <1>6. inputs[m] \ popped' = left \ {n} /\ (n \in left <=> n \in inputs[m])
    BY <1>1
  <1>7. Cardinality(left \ {n}) \in Nat
    BY <1>1, NodesFinite
  <1>8. degree'[m] = Cardinality(left \ {n})
    <2> HIDE DEF left
    <2>1. CASE n \in left
      BY <1>2, <1>3, <1>4, <1>5, <1>6, <2>1
    <2>2. CASE n \notin left
      BY <1>2, <1>3, <1>4, <1>5, <1>6, <2>2
    <2> QED BY <2>1, <2>2
  <1> QED BY <1>6, <1>7, <1>8

LEMMA InvPop ==
  ASSUME IInv, NEW n \in Nodes, Pop(n)
  PROVE  IInv'
  <1>1. /\ pc = "sorting" /\ pc' = "sorting" /\ n \in ready
        /\ degree' = [m \in Nodes |-> degree[m] - outs[n][m]]
        /\ ready' = (ready \ {n}) \cup {m \in Nodes : degree[m] > 0 /\ outs[n][m] >= degree[m]}
        /\ popped' = popped \cup {n}
        /\ sorted' = IF Linked(n) THEN Append(sorted, n) ELSE sorted
        /\ UNCHANGED <<inputs, outs, added, cache, at, future, held, unread, outcome, broken,
                       tainted, runs, faults>>
    BY DEF Pop, graph, pool
  <1>2. /\ TypeOK /\ SortState /\ PoolState /\ Clean /\ Sound /\ Blame
        /\ \A m \in Nodes : degree[m] \in Int /\ outs[n][m] \in Nat
    <2>1. ASSUME NEW m \in Nodes PROVE degree[m] \in Int /\ outs[n][m] \in Nat
      BY DEF IInv, TypeOK
    <2> QED BY <2>1 DEF IInv
  <1>3. ready \cap popped = {} /\ \A m \in Nodes : m \in ready \cup popped <=> degree[m] <= 0
    BY <1>1, <1>2 DEF SortState
  <1>4. sorted \in Seq(Nodes) /\ Len(sorted) \in Nat /\ Distinct(sorted)
        /\ \A i \in 1..Len(sorted) : sorted[i] \in popped /\ sorted[i] # n
    <2>1. sorted \in Seq(Nodes)
      BY <1>2 DEF TypeOK
    <2>2. Distinct(sorted) /\ \A i \in 1..Len(sorted) : sorted[i] \in popped
      BY <1>1, <1>2 DEF SortState
    <2>3. n \notin popped
      BY <1>1, <1>3
    <2> QED BY <2>1, <2>2, <2>3
  <1>5. /\ sorted' \in Seq(Nodes) /\ Distinct(sorted')
        /\ \A i \in 1..Len(sorted') : sorted'[i] \in popped'
    <2>1. CASE Linked(n)
      BY <1>1, <1>4, <2>1, AppendDistinct
    <2>2. CASE ~Linked(n)
      BY <1>1, <1>4, <2>2
    <2> QED BY <2>1, <2>2
  <1>6. TypeOK'
    <2>1. degree' \in [Nodes -> IF tainted THEN Int ELSE Nat]
      <3>1. CASE tainted
        BY <1>1, <1>2, <3>1
      <3>2. CASE ~tainted
        <4>1. \A m \in Nodes : degree'[m] \in Nat
          BY <3>2, PopDegree
        <4>2. degree' \in [Nodes -> Nat]
          BY <1>1, <4>1
        <4> QED BY <3>2, <4>2
      <3> QED BY <3>1, <3>2
    <2>2. ready' \subseteq Nodes /\ popped' \subseteq Nodes
      BY <1>1, <1>2 DEF TypeOK
    <2> QED BY <1>1, <1>2, <1>5, <2>1, <2>2 DEF TypeOK
  <1>7. SortState'
    <2>1. ready' \cap popped' = {}
      BY <1>1, <1>2, <1>3
    <2>2. ASSUME NEW m \in Nodes
          PROVE  m \in ready' \cup popped' <=> degree'[m] <= 0
      <3>1. m \in ready' \cup popped' <=>
              m \in ready \cup popped \/ (degree[m] > 0 /\ outs[n][m] >= degree[m])
        BY <1>1
      <3>2. degree'[m] = degree[m] - outs[n][m]
        BY <1>1
      <3> QED BY <1>2, <1>3, <3>1, <3>2
    <2>3. Distinct(cache)' /\ Distinct(sorted)'
      BY <1>1, <1>2, <1>5 DEF SortState, Distinct
    <2>4. at' = 0
      BY <1>1, <1>2 DEF SortState
    <2> QED BY <1>5, <2>1, <2>2, <2>3, <2>4 DEF SortState
  <1>8. PoolState'
    BY <1>1, <1>2 DEF PoolState
  <1>9. CallState' /\ Blame'
    BY <1>1, <1>2 DEF CallState, Blame
  <1>10. Clean'
    <2> SUFFICES ASSUME ~tainted PROVE Clean'
      BY <1>1 DEF Clean
    <2>1. \A m \in Nodes : degree'[m] \in Nat /\ degree'[m] = Cardinality(inputs[m] \ popped')
      BY PopDegree
    <2>2. \A a, b \in Nodes : outs[a][b] = IF a \in inputs[b] THEN 1 ELSE 0
      BY <1>2 DEF Clean
    <2> QED BY <1>1, <2>1, <2>2 DEF Clean
  <1>11. Sound'
    <2> SUFFICES ASSUME ~tainted PROVE Sound'
      BY <1>1 DEF Sound
    <2>1. InOrder(sorted) /\ Covers(sorted, popped)
      BY <1>1, <1>2 DEF Sound
    <2>2. \A m \in Nodes : Linked(m)' <=> Linked(m)
      BY <1>1 DEF Linked
    <2>3. cache # << >> => InOrder(cache)' /\ Covers(cache, Nodes)'
      BY <1>1, <1>2, <2>2 DEF Sound, InOrder, Covers, Linked
    <2>4. CASE ~Linked(n)
      <3>1. sorted' = sorted
        BY <1>1, <2>4
      <3>2. InOrder(sorted)'
        <4> HIDE DEF IInv
        <4>1. inputs' = inputs /\ outs' = outs
          BY <1>1
        <4> QED BY <2>1, <3>1, <4>1 DEF InOrder, Linked
      <3>3. Covers(sorted, popped)'
        BY <1>1, <1>2, <2>1, <2>2, <2>4, <3>1 DEF Covers, TypeOK
      <3> QED BY <1>1, <2>3, <3>2, <3>3 DEF Sound
    <2>5. CASE Linked(n)
      <3> DEFINE k == Len(sorted) + 1
      <3>1. /\ Len(sorted') = k /\ sorted'[k] = n
            /\ \A i \in 1..Len(sorted) : sorted'[i] = sorted[i]
        BY <1>1, <1>4, <2>5, AppendDistinct
      <3>2. inputs[n] \subseteq popped
        <4>1. degree[n] = Cardinality(inputs[n] \ popped) /\ degree[n] \in Nat
          BY <1>1, <1>2 DEF Clean
        <4>2. IsFiniteSet(inputs[n] \ popped)
          BY <1>2, NodesFinite DEF TypeOK
        <4>3. degree[n] = 0
          BY <1>1, <1>3, <4>1
        <4> QED BY <4>1, <4>2, <4>3, FS_EmptySet
      <3>3. ASSUME NEW m \in inputs[n] PROVE \E j \in 1..Len(sorted) : sorted[j] = m
        <4>1. m \in Nodes /\ m \in popped
          BY <1>2, <3>2 DEF TypeOK
        <4>2. outs[m][n] = 1
          BY <1>2, <4>1 DEF Clean
        <4>3. Linked(m)
          BY <4>2 DEF Linked
        <4> QED BY <2>1, <4>1, <4>3 DEF Covers
      <3>4. InOrder(sorted)'
        <4> SUFFICES ASSUME NEW i \in 1..k
                     PROVE  Linked(sorted'[i]) /\ \A m \in inputs[sorted'[i]] :
                              \E j \in 1..(i - 1) : sorted'[j] = m
          BY <1>1, <3>1 DEF InOrder, Linked
        <4>1. CASE i = k
          <5>1. ASSUME NEW m \in inputs[n] PROVE \E j \in 1..(i - 1) : sorted'[j] = m
            <6>1. PICK j \in 1..Len(sorted) : sorted[j] = m
              BY <3>3
            <6> QED BY <1>4, <3>1, <4>1, <6>1
          <5> QED BY <2>5, <3>1, <4>1, <5>1
        <4>2. CASE i \in 1..Len(sorted)
          <5>1. sorted'[i] = sorted[i] /\ sorted[i] \in Nodes
            BY <1>4, <3>1, <4>2
          <5>2. Linked(sorted[i]) /\ \A m \in inputs[sorted[i]] : \E j \in 1..(i - 1) : sorted[j] = m
            BY <2>1, <4>2 DEF InOrder
          <5>3. \A j \in 1..(i - 1) : sorted'[j] = sorted[j]
            BY <1>4, <3>1, <4>2
          <5> HIDE DEF k
          <5> QED BY <5>1, <5>2, <5>3
        <4> QED BY <1>4, <4>1, <4>2
      <3>5. Covers(sorted, popped)'
        <4> SUFFICES ASSUME NEW m \in popped', Linked(m)'
                     PROVE  \E i \in 1..k : sorted'[i] = m
          BY <3>1 DEF Covers
        <4>1. CASE m = n
          BY <1>4, <3>1, <4>1
        <4>2. CASE m \in popped
          <5>1. Linked(m)
            BY <1>2, <2>2, <4>2 DEF TypeOK
          <5>2. PICK i \in 1..Len(sorted) : sorted[i] = m
            BY <2>1, <4>2, <5>1 DEF Covers
          <5> QED BY <1>4, <3>1, <5>2
        <4> QED BY <1>1, <4>1, <4>2
      <3> QED BY <1>1, <2>3, <3>4, <3>5 DEF Sound
    <2> QED BY <2>4, <2>5
  <1> QED BY <1>6, <1>7, <1>8, <1>9, <1>10, <1>11 DEF IInv

LEMMA InvSorted ==
  ASSUME IInv, Sorted
  PROVE  IInv'
  <1>1. /\ TypeOK /\ SortState /\ PoolState /\ Clean /\ Sound /\ Blame /\ pc = "sorting"
        /\ UNCHANGED <<inputs, outs, added, ready, popped, sorted, degree, at, future, held,
                       unread, broken, tainted, runs, faults>>
    BY DEF IInv, Sorted, graph, sort, pool
  <1>2. \/ popped = Nodes /\ cache' = sorted /\ pc' = "submitting" /\ outcome' = outcome
        \/ pc' = "idle" /\ outcome' = "cycle" /\ cache' = cache
    BY DEF Sorted
  <1>3. /\ at = 0 /\ Distinct(sorted) /\ \A n \in Nodes : future[n] = "absent"
        /\ Distinct(cache)
    BY <1>1 DEF SortState, PoolState
  <1>4. TypeOK'
    <2>1. at' \in 0..Len(cache') /\ cache' \in Seq(Nodes)
      BY <1>1, <1>2, <1>3 DEF TypeOK
    <2>2. pc' \in {"idle", "sorting", "submitting"}
          /\ outcome' \in {"none", "cycle", "keyerror", "raised", "returned"}
      BY <1>1, <1>2 DEF TypeOK
    <2> QED BY <1>1, <2>1, <2>2 DEF TypeOK
  <1>5. SortState'
    BY <1>1, <1>2, <1>3 DEF SortState, Distinct
  <1>6. PoolState'
    BY <1>1, <1>2, <1>3 DEF PoolState
  <1>7. CallState'
    BY <1>1, <1>3 DEF CallState
  <1>8. Clean'
    BY <1>1, <1>2 DEF Clean
  <1>9. Blame'
    BY <1>1 DEF Blame
  <1>10. Sound'
    <2> SUFFICES ASSUME ~tainted PROVE Sound'
      BY <1>1 DEF Sound
    <2>1. /\ InOrder(sorted) /\ Covers(sorted, popped)
          /\ cache # << >> => InOrder(cache) /\ Covers(cache, Nodes)
      BY <1>1 DEF Sound
    <2>2. /\ InOrder(cache') <=> InOrder(cache)'
          /\ Covers(cache', Nodes) <=> Covers(cache, Nodes)'
      BY <1>1 DEF InOrder, Covers, Linked
    <2>3. CASE popped = Nodes /\ cache' = sorted /\ pc' = "submitting"
      <3>1. InOrder(cache') /\ Covers(cache', Nodes)
        BY <2>1, <2>3
      <3> QED BY <2>2, <2>3, <3>1 DEF Sound
    <2>4. CASE pc' = "idle" /\ cache' = cache
      <3>1. cache' # << >> => InOrder(cache') /\ Covers(cache', Nodes)
        BY <2>1, <2>4
      <3> QED BY <2>2, <2>4, <3>1 DEF Sound
    <2> QED BY <1>2, <2>3, <2>4
  <1> QED BY <1>4, <1>5, <1>6, <1>7, <1>8, <1>9, <1>10 DEF IInv

-----------------------------------------------------------------------------
(* The futures.  None of these steps changes the graph or its order.       *)

LEMMA Frame ==
  ASSUME IInv, pc # "sorting", pc' # "sorting",
         pc' = "submitting" => pc = "submitting",
         UNCHANGED <<inputs, outs, added, cache, ready, popped, sorted, degree, tainted, runs>>
  PROVE  SortState' /\ Clean' /\ Sound'
  <1>1. SortState' /\ Clean'
    BY DEF IInv, SortState, Clean, Distinct
  <1>2. Sound'
    <2> SUFFICES ASSUME ~tainted, pc = "submitting" \/ cache # << >> PROVE Sound'
      BY DEF Sound
    <2>1. InOrder(cache) /\ Covers(cache, Nodes)
      BY DEF IInv, Sound
    <2>2. \A n : Linked(n)' <=> Linked(n)
      BY DEF Linked
    <2>3. InOrder(cache)'
      BY <2>1, <2>2 DEF InOrder, Linked
    <2>4. Covers(cache, Nodes)'
      BY <2>1, <2>2 DEF Covers
    <2> QED BY <2>3, <2>4 DEF Sound
  <1> QED BY <1>1, <1>2

LEMMA InvSubmit ==
  ASSUME IInv, Submit
  PROVE  IInv'
  <1> DEFINE k == cache[at + 1]
             result == IF k = Start THEN "done" ELSE "queued"
  <1>1. /\ TypeOK /\ PoolState /\ CallState /\ Blame /\ Distinct(cache)
        /\ pc = "submitting" /\ pc' = "submitting" /\ at < Len(cache) /\ at' = at + 1
        /\ future' = [future EXCEPT ![k] = result]
        /\ UNCHANGED <<inputs, outs, added, cache, ready, popped, sorted, degree, held, unread,
                       outcome, broken, tainted, runs, faults>>
    BY DEF IInv, SortState, Submit, graph, sort, pool
  <1>2. at \in Nat /\ Len(cache) \in Nat /\ at + 1 \in 1..Len(cache) /\ k \in Nodes
    <2>1. at \in 0..Len(cache) /\ cache \in Seq(Nodes) /\ at < Len(cache)
      BY <1>1 DEF TypeOK
    <2>2. at + 1 \in 1..Len(cache) /\ at \in Nat /\ Len(cache) \in Nat
      BY <2>1
    <2> QED BY <2>1, <2>2
  <1>3. future[k] = "absent"
    <2> SUFFICES ASSUME future[k] # "absent" PROVE FALSE
      OBVIOUS
    <2>1. PICK i \in 1..at : cache[i] = cache[at + 1]
      BY <1>1, <1>2 DEF CallState
    <2>2. i \in 1..Len(cache) /\ i # at + 1
      BY <1>2
    <2> QED BY <1>1, <1>2, <2>1, <2>2 DEF Distinct
  <1>4. result \in {"queued", "done"} /\ (result = "done" <=> k = Start)
    OBVIOUS
  <1>5. /\ \A n \in Nodes : future'[n] = IF n = k THEN result ELSE future[n]
        /\ \A i \in 1..at : cache[i] # k /\ cache[i] \in Nodes /\ i \in 1..(at + 1)
    <2>1. \A n \in Nodes : future'[n] = IF n = k THEN result ELSE future[n]
      BY <1>1 DEF TypeOK
    <2>2. ASSUME NEW i \in 1..at PROVE cache[i] # k /\ cache[i] \in Nodes /\ i \in 1..(at + 1)
      <3>1. cache \in Seq(Nodes) /\ i \in 1..Len(cache) /\ i \in 1..(at + 1)
        BY <1>1, <1>2 DEF TypeOK
      <3>2. cache[i] \in Nodes
        BY <3>1
      <3>3. future[cache[i]] # "absent"
        BY <1>1 DEF CallState
      <3> QED BY <1>3, <3>1, <3>2, <3>3
    <2> QED BY <2>1, <2>2
  <1>6. TypeOK'
    <2>1. at' \in 0..Len(cache)
      BY <1>1, <1>2
    <2>2. future' \in [Nodes -> {"absent", "queued", "busy", "done", "raised"}]
      BY <1>1, <1>2, <1>4 DEF TypeOK
    <2> QED BY <1>1, <2>1, <2>2 DEF TypeOK
  <1> HIDE DEF k, result
  <1>7. PoolState'
    <2>1. ASSUME NEW w \in Workers, held[w] # None
          PROVE  /\ held[w] # Start /\ future'[held[w]] = "busy"
                 /\ unread[w] \subseteq inputs[held[w]]
                 /\ \A m \in inputs[held[w]] \ unread[w] : future'[m] = "done"
      <3>1. held[w] \in Nodes /\ inputs[held[w]] \subseteq Nodes
        BY <1>1, <2>1 DEF TypeOK
      <3> QED BY <1>1, <1>3, <1>5, <2>1, <3>1 DEF PoolState
    <2>2. \A n \in Nodes : future'[n] = "busy" => \E w \in Workers : held[w] = n
      BY <1>1, <1>4, <1>5 DEF PoolState
    <2>3. future'[Start] \in {"absent", "done"}
      BY <1>1, <1>4, <1>5, NodesFinite DEF PoolState
    <2>4. \A v, w \in Workers : held[v] # None /\ held[v] = held[w] => v = w
      BY <1>1 DEF PoolState
    <2> QED BY <1>1, <2>1, <2>2, <2>3, <2>4 DEF PoolState
  <1>8. CallState'
    <2>1. ASSUME NEW n \in Nodes, future'[n] # "absent"
          PROVE  \E i \in 1..(at + 1) : cache[i] = n
      <3>1. CASE n = k
        BY <1>2, <3>1 DEF k
      <3>2. CASE n # k
        BY <1>1, <1>2, <1>5, <2>1, <3>2 DEF CallState
      <3> QED BY <3>1, <3>2
    <2>2. ASSUME NEW i \in 1..(at + 1) PROVE i \in 1..at \/ cache[i] = k
      BY <1>2 DEF k
    <2>3. \A i \in 1..(at + 1) : future'[cache[i]] # "absent"
      BY <1>1, <1>2, <1>4, <1>5, <2>2 DEF CallState
    <2>4. ASSUME NEW i \in 1..(at + 1), NEW j \in 1..(at + 1), j < i, future'[cache[i]] = "busy"
          PROVE  future'[cache[j]] # "queued"
      <3>1. cache[i] # k
        BY <1>2, <1>4, <1>5, <2>4
      <3>2. i \in 1..at
        BY <2>2, <3>1
      <3>3. j \in 1..at
        BY <1>2, <2>4, <3>2
      <3>4. future'[cache[i]] = future[cache[i]] /\ future'[cache[j]] = future[cache[j]]
        BY <1>5, <3>2, <3>3
      <3> QED BY <1>1, <2>4, <3>2, <3>3, <3>4 DEF CallState
    <2>5. ASSUME NEW n \in Nodes \ {Start}, future'[n] = "done", NEW m \in inputs[n]
          PROVE  future'[m] = "done"
      <3>1. m \in Nodes
        BY <1>1 DEF TypeOK
      <3>2. future[n] = "done"
        BY <1>4, <1>5, <2>5
      <3>3. future[m] = "done"
        BY <1>1, <2>5, <3>2 DEF CallState
      <3> QED BY <1>3, <1>5, <3>1, <3>3
    <2> QED BY <1>1, <2>1, <2>3, <2>4, <2>5 DEF CallState
  <1>9. Blame'
    <2>1. \A n \in Nodes : future'[n] = "raised" <=> future[n] = "raised"
      BY <1>3, <1>4, <1>5
    <2>2. broken \subseteq Nodes /\ \A n \in Nodes : inputs[n] \subseteq Nodes
      BY <1>1 DEF TypeOK
    <2> QED BY <1>1, <2>1, <2>2 DEF Blame
  <1> QED BY <1>1, <1>6, <1>7, <1>8, <1>9, Frame DEF IInv

\* The nodes that threads compute.
LEMMA Holding ==
  ASSUME IInv, NEW w \in Workers, held[w] # None
  PROVE  /\ held[w] \in Nodes \ {Start} /\ future[held[w]] = "busy" /\ pc = "submitting"
         /\ inputs[held[w]] \subseteq Nodes /\ unread[w] \subseteq inputs[held[w]]
         /\ \A m \in inputs[held[w]] \ unread[w] : future[m] = "done"
         /\ \A v \in Workers : held[v] = held[w] => v = w
  <1>1. held[w] \in Nodes /\ inputs[held[w]] \subseteq Nodes
    BY DEF IInv, TypeOK
  <1> QED BY <1>1 DEF IInv, PoolState

LEMMA InvTake ==
  ASSUME IInv, NEW w \in Workers, Take(w)
  PROVE  IInv'
  <1>1. /\ TypeOK /\ PoolState /\ CallState /\ Blame /\ Distinct(cache) /\ held[w] = None
        /\ UNCHANGED <<inputs, outs, added, cache, pc, ready, popped, sorted, degree, at,
                       outcome, broken, tainted, runs, faults>>
    BY DEF IInv, SortState, Take, graph, sort
  <1>2. PICK i \in 1..at :
          /\ future[cache[i]] = "queued"
          /\ \A j \in 1..i - 1 : future[cache[j]] # "queued"
          /\ future' = [future EXCEPT ![cache[i]] = "busy"]
          /\ held' = [held EXCEPT ![w] = cache[i]]
          /\ unread' = [unread EXCEPT ![w] = inputs[cache[i]]]
    BY DEF Take
  <1> DEFINE k == cache[i]
  <1>3. at \in 0..Len(cache) /\ Len(cache) \in Nat /\ cache \in Seq(Nodes)
        /\ \A j \in 1..at : j \in 1..Len(cache) /\ cache[j] \in Nodes
    <2>1. at \in 0..Len(cache) /\ Len(cache) \in Nat /\ cache \in Seq(Nodes)
      BY <1>1 DEF TypeOK
    <2>2. \A j \in 1..at : j \in 1..Len(cache)
      BY <2>1
    <2> QED BY <2>1, <2>2
  <1>4. k \in Nodes /\ k # Start /\ k # None /\ pc = "submitting" /\ inputs[k] \subseteq Nodes
    <2>1. k \in Nodes
      BY <1>3
    <2> QED BY <1>1, <1>2, <2>1, NodesFinite DEF PoolState, TypeOK
  <1>5. /\ \A n \in Nodes : future'[n] = IF n = k THEN "busy" ELSE future[n]
        /\ \A v \in Workers :
             /\ held'[v] = IF v = w THEN k ELSE held[v]
             /\ unread'[v] = IF v = w THEN inputs[k] ELSE unread[v]
    BY <1>1, <1>2 DEF TypeOK
  <1>6. TypeOK'
    <2>1. /\ future' \in [Nodes -> {"absent", "queued", "busy", "done", "raised"}]
          /\ held' \in [Workers -> Nodes \cup {None}] /\ unread' \in [Workers -> SUBSET Nodes]
      BY <1>1, <1>2, <1>4 DEF TypeOK
    <2> QED BY <1>1, <2>1 DEF TypeOK
  <1>7. future[k] = "queued" /\ \A j \in 1..i - 1 : future[cache[j]] # "queued"
    BY <1>2
  <1> HIDE DEF k
  <1>8. PoolState'
    <2>1. ASSUME NEW v \in Workers, held'[v] # None
          PROVE  /\ held'[v] # Start /\ future'[held'[v]] = "busy"
                 /\ unread'[v] \subseteq inputs[held'[v]]
                 /\ \A m \in inputs[held'[v]] \ unread'[v] : future'[m] = "done"
                 /\ v # w => held'[v] # k
      <3>1. CASE v = w
        BY <1>4, <1>5, <3>1
      <3>2. CASE v # w
        <4>1. held'[v] = held[v] /\ unread'[v] = unread[v] /\ held[v] # None
          BY <1>5, <2>1, <3>2
        <4>2. \A m \in inputs[held[v]] : m \in Nodes
          BY <4>1, Holding
        <4> QED BY <1>5, <1>7, <4>1, <4>2, Holding
      <3> QED BY <3>1, <3>2
    <2>2. \A u, v \in Workers : held'[u] # None /\ held'[u] = held'[v] => u = v
      BY <1>1, <1>5, <2>1 DEF PoolState
    <2>3. ASSUME NEW n \in Nodes, future'[n] = "busy" PROVE \E v \in Workers : held'[v] = n
      <3>1. CASE n = k
        BY <1>5, <3>1
      <3>2. CASE n # k
        <4>1. PICK v \in Workers : held[v] = n
          BY <1>1, <1>5, <2>3, <3>2 DEF PoolState
        <4>2. v # w
          BY <1>1, <4>1, NodesFinite
        <4> QED BY <1>5, <4>1, <4>2
      <3> QED BY <3>1, <3>2
    <2>4. future'[Start] \in {"absent", "done"}
      BY <1>1, <1>4, <1>5, NodesFinite DEF PoolState
    <2> QED BY <1>1, <1>4, <2>1, <2>2, <2>3, <2>4 DEF PoolState
  <1>9. CallState'
    <2>1. \A n \in Nodes : future'[n] = "absent" <=> future[n] = "absent"
      BY <1>5, <1>7
    <2>2. ASSUME NEW p \in 1..at, NEW q \in 1..at, q < p, future'[cache[p]] = "busy"
          PROVE  future'[cache[q]] # "queued"
      <3>1. future'[cache[q]] = "queued" => future[cache[q]] = "queued"
        BY <1>3, <1>5
      <3>2. CASE cache[p] = k
        <4>1. p = i
          BY <1>1, <1>3, <3>2 DEF Distinct, k
        <4> QED BY <1>3, <1>7, <2>2, <3>1, <4>1
      <3>3. CASE cache[p] # k
        <4>1. future[cache[p]] = "busy"
          BY <1>3, <1>5, <2>2, <3>3
        <4> QED BY <1>1, <1>4, <2>2, <3>1, <4>1 DEF CallState
      <3> QED BY <3>2, <3>3
    <2>3. ASSUME NEW n \in Nodes \ {Start}, future'[n] = "done", NEW m \in inputs[n]
          PROVE  future'[m] = "done"
      <3>1. m \in Nodes /\ future[n] = "done"
        BY <1>1, <1>5, <2>3 DEF TypeOK
      <3>2. future[m] = "done"
        BY <1>1, <1>4, <2>3, <3>1 DEF CallState
      <3> QED BY <1>5, <1>7, <3>1, <3>2
    <2> QED BY <1>1, <1>3, <2>1, <2>2, <2>3 DEF CallState
  <1>10. Blame'
    <2>1. \A n \in Nodes : future'[n] = "raised" <=> future[n] = "raised"
      BY <1>5, <1>7
    <2>2. broken \subseteq Nodes /\ \A n \in Nodes : inputs[n] \subseteq Nodes
      BY <1>1 DEF TypeOK
    <2> QED BY <1>1, <2>1, <2>2 DEF Blame
  <1> QED BY <1>1, <1>4, <1>6, <1>8, <1>9, <1>10, Frame DEF IInv

\* A future gets its outcome, and its thread is free.
LEMMA SettleStep ==
  ASSUME IInv, NEW w \in Workers, held[w] # None,
         NEW result \in {"done", "raised"}, result = "done" => unread[w] = {},
         Settle(w, result),
         UNCHANGED <<inputs, outs, cache, pc, at>>
  PROVE  /\ PoolState' /\ CallState'
         /\ \A n \in Nodes : future'[n] = IF n = held[w] THEN result ELSE future[n]
         /\ future' \in [Nodes -> {"absent", "queued", "busy", "done", "raised"}]
         /\ held' \in [Workers -> Nodes \cup {None}] /\ unread' \in [Workers -> SUBSET Nodes]
  <1> DEFINE k == held[w]
  <1>1. /\ TypeOK /\ PoolState /\ CallState
        /\ future' = [future EXCEPT ![k] = result]
        /\ held' = [held EXCEPT ![w] = None] /\ unread' = [unread EXCEPT ![w] = {}]
    BY DEF IInv, Settle
  <1>2. /\ k \in Nodes \ {Start} /\ future[k] = "busy" /\ pc = "submitting"
        /\ result = "done" => \A m \in inputs[k] : future[m] = "done"
    BY Holding
  <1>3. /\ \A n \in Nodes : future'[n] = IF n = k THEN result ELSE future[n]
        /\ \A v \in Workers :
             /\ held'[v] = IF v = w THEN None ELSE held[v]
             /\ unread'[v] = IF v = w THEN {} ELSE unread[v]
    BY <1>1 DEF TypeOK
  <1>4. /\ future' \in [Nodes -> {"absent", "queued", "busy", "done", "raised"}]
        /\ held' \in [Workers -> Nodes \cup {None}] /\ unread' \in [Workers -> SUBSET Nodes]
    BY <1>1, <1>2 DEF TypeOK
  <1>5. PoolState'
    <2>1. ASSUME NEW v \in Workers, held'[v] # None
          PROVE  /\ held'[v] # Start /\ future'[held'[v]] = "busy"
                 /\ unread'[v] \subseteq inputs[held'[v]]
                 /\ \A m \in inputs[held'[v]] \ unread'[v] : future'[m] = "done"
                 /\ held'[v] = held[v] /\ v # w
      <3>1. v # w /\ held'[v] = held[v] /\ unread'[v] = unread[v] /\ held[v] # None
        BY <1>3, <2>1
      <3>2. held[v] # k
        BY <3>1, Holding
      <3>3. \A m \in inputs[held[v]] : m \in Nodes
        BY <3>1, Holding
      <3> HIDE DEF k
      <3> QED BY <1>2, <1>3, <3>1, <3>2, <3>3, Holding
    <2>2. \A u, v \in Workers : held'[u] # None /\ held'[u] = held'[v] => u = v
      BY <1>1, <2>1 DEF PoolState
    <2>3. ASSUME NEW n \in Nodes, future'[n] = "busy" PROVE \E v \in Workers : held'[v] = n
      <3>1. n # k /\ future[n] = "busy"
        BY <1>3, <2>3
      <3>2. PICK v \in Workers : held[v] = n
        BY <1>1, <3>1 DEF PoolState
      <3> QED BY <1>3, <3>1, <3>2
    <2>4. future'[Start] \in {"absent", "done"}
      BY <1>1, <1>2, <1>3, NodesFinite DEF PoolState
    <2> QED BY <1>2, <2>1, <2>2, <2>3, <2>4 DEF PoolState
  <1>6. CallState'
    <2>0. at \in 0..Len(cache) /\ Len(cache) \in Nat /\ cache \in Seq(Nodes)
          /\ \A j \in 1..at : cache[j] \in Nodes
      <3>1. at \in 0..Len(cache) /\ Len(cache) \in Nat /\ cache \in Seq(Nodes)
        BY <1>1 DEF TypeOK
      <3>2. \A j \in 1..at : j \in 1..Len(cache)
        BY <3>1
      <3> QED BY <3>1, <3>2
    <2>1. /\ \A n \in Nodes : future'[n] = "absent" <=> future[n] = "absent"
          /\ \A n \in Nodes : future'[n] = "busy" => future[n] = "busy"
          /\ \A n \in Nodes : future'[n] = "queued" => future[n] = "queued"
      BY <1>2, <1>3
    <2>2. ASSUME NEW p \in 1..at, NEW q \in 1..at, q < p, future'[cache[p]] = "busy"
          PROVE  future'[cache[q]] # "queued"
      <3>1. future[cache[p]] = "busy"
        BY <2>0, <2>1, <2>2
      <3>2. future[cache[q]] # "queued"
        BY <1>1, <1>2, <2>2, <3>1 DEF CallState
      <3> QED BY <2>0, <2>1, <3>2
    <2>3. ASSUME NEW n \in Nodes \ {Start}, future'[n] = "done", NEW m \in inputs[n]
          PROVE  future'[m] = "done"
      <3>1. m \in Nodes
        BY <1>1 DEF TypeOK
      <3>2. future[m] = "done"
        BY <1>1, <1>2, <1>3, <2>3 DEF CallState
      <3> QED BY <1>2, <1>3, <3>1, <3>2
    <2> QED BY <1>1, <1>2, <2>0, <2>1, <2>2, <2>3 DEF CallState
  <1> QED BY <1>3, <1>4, <1>5, <1>6

\* Before a future is begun those of its node's inputs were submitted.
LEMMA InputsThere ==
  ASSUME IInv, ~tainted, pc = "submitting", NEW i \in 1..at, NEW m \in inputs[cache[i]]
  PROVE  \E j \in 1..(i - 1) : cache[j] = m /\ j \in 1..at /\ future[m] # "absent"
  <1>1. InOrder(cache) /\ CallState /\ at \in 0..Len(cache) /\ Len(cache) \in Nat
    BY DEF IInv, Sound, TypeOK
  <1>2. PICK j \in 1..(i - 1) : cache[j] = m
    BY <1>1 DEF InOrder
  <1>3. j \in 1..at
    BY <1>1
  <1> QED BY <1>1, <1>2, <1>3 DEF CallState

LEMMA InvRead ==
  ASSUME IInv, NEW w \in Workers, NEW m \in Nodes, Read(w, m)
  PROVE  IInv'
  <1>1. /\ TypeOK /\ PoolState /\ CallState /\ Blame /\ held[w] # None /\ m \in unread[w]
        /\ UNCHANGED <<inputs, outs, added, cache, pc, ready, popped, sorted, degree, at,
                       outcome, broken, tainted, runs, faults>>
    BY DEF IInv, Read, graph, sort
  <1>2. /\ held[w] \in Nodes \ {Start} /\ future[held[w]] = "busy" /\ pc = "submitting"
        /\ inputs[held[w]] \subseteq Nodes /\ unread[w] \subseteq inputs[held[w]]
    BY <1>1, Holding
  <1>3. broken \subseteq Nodes /\ \A n \in Nodes : inputs[n] \subseteq Nodes
    BY <1>1 DEF TypeOK
  <1>4. CASE future[m] \in {"absent", "raised"} /\ Settle(w, "raised")
    <2>1. /\ PoolState' /\ CallState'
          /\ \A n \in Nodes : future'[n] = IF n = held[w] THEN "raised" ELSE future[n]
          /\ future' \in [Nodes -> {"absent", "queued", "busy", "done", "raised"}]
          /\ held' \in [Workers -> Nodes \cup {None}] /\ unread' \in [Workers -> SUBSET Nodes]
      BY <1>1, <1>4, SettleStep
    <2>2. TypeOK'
      BY <1>1, <2>1 DEF TypeOK
    <2>3. ~tainted => future[m] = "raised"
      <3>1. PICK i \in 1..at : cache[i] = held[w]
        BY <1>1, <1>2 DEF CallState
      <3>2. ~tainted => future[m] # "absent"
        BY <1>1, <1>2, <3>1, InputsThere
      <3> QED BY <1>4, <3>2
    <2>4. Blame'
      <3>1. \A n \in Nodes : future[n] = "raised" => future'[n] = "raised"
        BY <2>1
      <3>2. \A n \in broken : future'[n] = "raised"
        BY <1>1, <1>3, <3>1 DEF Blame
      <3>3. ASSUME ~tainted, NEW n \in Nodes, future'[n] = "raised"
            PROVE  n \in broken \/ \E k \in inputs[n] : future'[k] = "raised"
        <4>1. CASE n = held[w]
          BY <1>1, <1>2, <2>3, <3>1, <3>3, <4>1
        <4>2. CASE n # held[w]
          BY <1>1, <1>3, <2>1, <3>1, <3>3, <4>2 DEF Blame
        <4> QED BY <4>1, <4>2
      <3> QED BY <1>1, <3>2, <3>3 DEF Blame
    <2> QED BY <1>1, <1>2, <2>1, <2>2, <2>4, Frame DEF IInv
  <1>5. CASE future[m] = "done" /\ unread' = [unread EXCEPT ![w] = @ \ {m}] /\ UNCHANGED <<future, held>>
    <2>1. /\ unread' \in [Workers -> SUBSET Nodes]
          /\ \A v \in Workers : unread'[v] = IF v = w THEN unread[w] \ {m} ELSE unread[v]
      BY <1>1, <1>5 DEF TypeOK
    <2>2. TypeOK'
      BY <1>1, <1>5, <2>1 DEF TypeOK
    <2>3. ASSUME NEW v \in Workers, held[v] # None
          PROVE  /\ held[v] # Start /\ future[held[v]] = "busy"
                 /\ unread'[v] \subseteq inputs[held[v]]
                 /\ \A k \in inputs[held[v]] \ unread'[v] : future[k] = "done"
      <3>1. unread'[v] \subseteq unread[v] /\ \A k \in unread[v] \ unread'[v] : k = m
        BY <2>1
      <3> QED BY <1>5, <2>3, <3>1, Holding
    <2>4. PoolState'
      BY <1>1, <1>5, <2>3 DEF PoolState
    <2>5. CallState' /\ Blame'
      BY <1>1, <1>5 DEF CallState, Blame
    <2> QED BY <1>1, <1>2, <2>2, <2>4, <2>5, Frame DEF IInv
  <1> QED BY <1>4, <1>5 DEF Read

LEMMA InvCompute ==
  ASSUME IInv, NEW w \in Workers, Compute(w)
  PROVE  IInv'
  <1>1. /\ TypeOK /\ PoolState /\ CallState /\ Blame /\ held[w] # None /\ unread[w] = {}
        /\ UNCHANGED <<inputs, outs, added, cache, pc, ready, popped, sorted, degree, at,
                       outcome, tainted, runs>>
    BY DEF IInv, Compute, graph, sort
  <1>2. /\ held[w] \in Nodes \ {Start} /\ future[held[w]] = "busy" /\ pc = "submitting"
    BY <1>1, Holding
  <1>3. broken \subseteq Nodes /\ \A n \in Nodes : inputs[n] \subseteq Nodes
    BY <1>1 DEF TypeOK
  <1>4. PICK result \in {"done", "raised"} :
          /\ Settle(w, result)
          /\ \/ result = "done" /\ UNCHANGED <<broken, faults>>
             \/ /\ result = "raised" /\ faults < MaxFaults /\ faults' = faults + 1
                /\ broken' = broken \cup {held[w]}
    BY DEF Compute
  <1>5. /\ PoolState' /\ CallState'
        /\ \A n \in Nodes : future'[n] = IF n = held[w] THEN result ELSE future[n]
        /\ future' \in [Nodes -> {"absent", "queued", "busy", "done", "raised"}]
        /\ held' \in [Workers -> Nodes \cup {None}] /\ unread' \in [Workers -> SUBSET Nodes]
    BY <1>1, <1>4, SettleStep
  <1>6. TypeOK'
    <2>1. broken' \subseteq Nodes /\ faults' \in 0..MaxFaults
      BY <1>1, <1>2, <1>4, GraphAssumption DEF TypeOK
    <2> QED BY <1>1, <1>5, <2>1 DEF TypeOK
  <1>7. Blame'
    <2>1. \A n \in Nodes : future[n] = "raised" => future'[n] = "raised"
      BY <1>2, <1>5
    <2>2. \A n \in broken' : future'[n] = "raised"
      BY <1>1, <1>2, <1>3, <1>4, <1>5, <2>1 DEF Blame
    <2>3. ASSUME ~tainted, NEW n \in Nodes, future'[n] = "raised"
          PROVE  n \in broken' \/ \E k \in inputs[n] : future'[k] = "raised"
      <3>1. CASE n = held[w]
        BY <1>4, <1>5, <2>3, <3>1
      <3>2. CASE n # held[w]
        <4>1. n \in broken \/ \E k \in inputs[n] : future[k] = "raised"
          BY <1>1, <1>5, <2>3, <3>2 DEF Blame
        <4>2. broken \subseteq broken'
          BY <1>4
        <4> QED BY <1>3, <2>1, <4>1, <4>2
      <3> QED BY <3>1, <3>2
    <2> QED BY <1>1, <2>2, <2>3 DEF Blame
  <1> QED BY <1>1, <1>2, <1>5, <1>6, <1>7, Frame DEF IInv

LEMMA InvReturn ==
  ASSUME IInv, Return
  PROVE  IInv'
  <1>1. /\ TypeOK /\ PoolState /\ Blame /\ pc = "submitting" /\ pc' = "idle"
        /\ \A n \in Nodes : future[n] \notin {"queued", "busy"}
        /\ UNCHANGED <<inputs, outs, added, cache, ready, popped, sorted, degree, at, future,
                       held, unread, broken, tainted, runs, faults>>
    BY DEF IInv, Return, graph, sort, pool
  <1>2. outcome' \in {"none", "cycle", "keyerror", "raised", "returned"}
    BY DEF Return
  <1>3. TypeOK'
    BY <1>1, <1>2 DEF TypeOK
  <1>4. PoolState'
    BY <1>1 DEF PoolState
  <1>5. CallState' /\ Blame'
    BY <1>1 DEF CallState, Blame
  <1> QED BY <1>1, <1>3, <1>4, <1>5, Frame DEF IInv

LEMMA InvStutter ==
  ASSUME IInv, UNCHANGED vars
  PROVE  IInv'
  <1> USE DEF vars, graph, sort, pool
  <1>1. TypeOK' /\ SortState' /\ PoolState' /\ CallState' /\ Clean' /\ Blame'
    BY DEF IInv, TypeOK, SortState, PoolState, CallState, Clean, Blame, Distinct
  <1>2. Sound'
    BY DEF IInv, Sound, InOrder, Covers, Linked
  <1> QED BY <1>1, <1>2 DEF IInv

LEMMA InvNext == IInv /\ [Next]_vars => IInv'
  <1> SUFFICES ASSUME IInv, [Next]_vars PROVE IInv'
    OBVIOUS
  <1>1. ASSUME NEW edge \in Edges, AddEdge(edge[1], edge[2]) PROVE IInv'
    BY <1>1, InvAddEdge, GraphAssumption
  <1>2. CASE Call
    BY <1>2, InvCall
  <1>3. ASSUME NEW n \in Nodes, Pop(n) PROVE IInv'
    BY <1>3, InvPop
  <1>4. CASE Sorted
    BY <1>4, InvSorted
  <1>5. CASE Submit
    BY <1>5, InvSubmit
  <1>6. CASE Return
    BY <1>6, InvReturn
  <1>7. ASSUME NEW w \in Workers, Work(w) PROVE IInv'
    BY <1>7, InvTake, InvRead, InvCompute DEF Work
  <1>8. CASE UNCHANGED vars
    BY <1>8, InvStutter
  <1> QED BY <1>1, <1>2, <1>3, <1>4, <1>5, <1>6, <1>7, <1>8 DEF Next

\* The invariant the theorems rest on.
LEMMA InvAlways == Spec => []IInv
  BY InvInit, InvNext, PTL DEF Spec

-----------------------------------------------------------------------------
(* The theorems.                                                           *)

\* Every variable keeps its type; a degree goes below 0 only in a graph whose lists of
\* outputs were changed after a sort or by a refused edge.
THEOREM TypeCorrect == Spec => []TypeOK
  <1>1. IInv => TypeOK
    BY DEF IInv
  <1> QED BY <1>1, InvAlways, PTL

\* No function runs before those of its inputs have returned, whatever the graph, the
\* edges added to it and the number of threads.
THEOREM OrderKept == Spec => FiresInOrder
  <1> DEFINE Fires == \A n \in Nodes \ {Start} : future'[n] = "done" /\ future[n] # "done" =>
                        future[n] = "busy" /\ \A m \in inputs[n] : future[m] = "done"
  <1>1. ASSUME IInv, [Next]_vars PROVE Fires
    <2> SUFFICES ASSUME NEW n \in Nodes \ {Start}, future'[n] = "done", future[n] # "done"
                 PROVE  future[n] = "busy" /\ \A m \in inputs[n] : future[m] = "done"
      OBVIOUS
    <2> USE <1>1
    <2>1. ASSUME NEW w \in Workers, held[w] # None, NEW result \in {"done", "raised"},
                 Settle(w, result), result = "done" => unread[w] = {}
          PROVE  future[n] = "busy" /\ \A m \in inputs[n] : future[m] = "done"
      <3>1. future' = [future EXCEPT ![held[w]] = result]
        BY <2>1 DEF Settle
      <3>2. n = held[w] /\ result = "done"
        BY <3>1 DEF IInv, TypeOK
      <3> QED BY <2>1, <3>2, Holding
    <2>2. CASE UNCHANGED future
      BY <2>2
    <2>3. CASE Call
      BY <2>3 DEF Call, Begin
    <2>4. CASE Submit
      BY <2>4 DEF Submit, IInv, TypeOK
    <2>5. ASSUME NEW w \in Workers, Take(w) PROVE FALSE
      BY <2>5 DEF Take, IInv, TypeOK
    <2>6. ASSUME NEW w \in Workers, NEW m \in Nodes, Read(w, m)
          PROVE  future[n] = "busy" /\ \A k \in inputs[n] : future[k] = "done"
      BY <2>1, <2>6 DEF Read
    <2>7. ASSUME NEW w \in Workers, Compute(w)
          PROVE  future[n] = "busy" /\ \A k \in inputs[n] : future[k] = "done"
      BY <2>1, <2>7 DEF Compute
    <2>8. ASSUME \/ \E edge \in Edges : AddEdge(edge[1], edge[2])
                 \/ \E k \in Nodes : Pop(k)
                 \/ Sorted \/ Return \/ UNCHANGED vars
          PROVE  UNCHANGED future
      BY <2>8 DEF AddEdge, Pop, Sorted, Return, vars
    <2> QED BY <2>2, <2>3, <2>4, <2>5, <2>6, <2>7, <2>8 DEF Next, Work
  <1> HIDE DEF Fires
  <1>2. [][Fires]_vars <=> FiresInOrder
    BY PTL DEF Fires, FiresInOrder
  <1> QED BY <1>1, <1>2, InvAlways, PTL DEF Spec

\* The threads of the pool never wait for each other for good: the first node in order
\* whose future is not done waits for nothing, and the threads begin the futures in
\* order, so that one of them has it or is free.
THEOREM NoDeadlock == Spec => []NeverStuck
  <1>1. ASSUME IInv PROVE NeverStuck
    <2> SUFFICES ASSUME pc = "submitting", ~tainted, NEW k \in Nodes, future[k] \in {"queued", "busy"}
                 PROVE  \E w \in Workers :
                          \/ held[w] = None /\ \E n \in Nodes : future[n] = "queued"
                          \/ held[w] # None /\ \A m \in unread[w] : future[m] \in {"done", "raised"}
      BY DEF NeverStuck
    <2> USE <1>1
    <2> DEFINE T == {i \in 1..at : future[cache[i]] \in {"queued", "busy"}}
    <2>1. /\ at \in Nat /\ at <= Len(cache) /\ Len(cache) \in Nat
          /\ \A i \in 1..at : cache[i] \in Nodes /\ future[cache[i]] # "absent"
      <3>1. at \in 0..Len(cache) /\ cache \in Seq(Nodes) /\ CallState
        BY DEF IInv, TypeOK
      <3>2. Len(cache) \in Nat /\ \A i \in 1..at : i \in 1..Len(cache)
        BY <3>1
      <3> QED BY <3>1, <3>2 DEF CallState
    <2>2. T # {} /\ T \in SUBSET (1..at)
      BY DEF IInv, CallState
    <2>3. PICK i \in T : \A j \in T : i <= j
      <3> HIDE DEF T
      <3> QED BY <2>1, <2>2, LeastExists
    <2>4. CASE future[cache[i]] = "busy"
      <3>1. PICK w \in Workers : held[w] = cache[i]
        BY <2>1, <2>4 DEF IInv, PoolState
      <3>2. held[w] # None /\ unread[w] \subseteq inputs[cache[i]]
        BY <2>1, <3>1, NodesFinite, Holding
      <3>3. ASSUME NEW m \in unread[w] PROVE future[m] \in {"done", "raised"}
        <4>1. PICK j \in 1..(i - 1) : cache[j] = m /\ j \in 1..at /\ future[m] # "absent"
          BY <3>2, InputsThere
        <4>2. j \notin T
          BY <2>1, <2>3, <4>1
        <4>3. m \in Nodes
          BY <2>1, <4>1
        <4> QED BY <4>1, <4>2, <4>3 DEF IInv, TypeOK
      <3> QED BY <3>2, <3>3
    <2>5. CASE future[cache[i]] = "queued"
      <3>1. PICK w \in Workers : TRUE
        BY GraphAssumption
      <3>2. CASE held[w] = None
        BY <2>1, <2>5, <3>2
      <3>3. CASE held[w] # None
        <4>1. held[w] \in Nodes /\ future[held[w]] = "busy"
          BY <3>3, Holding
        <4>2. PICK j \in 1..at : cache[j] = held[w]
          BY <4>1 DEF IInv, CallState
        <4>3. j \in T /\ i <= j /\ i # j
          BY <2>3, <2>5, <4>1, <4>2
        <4>4. i < j
          BY <2>1, <4>3
        <4> QED BY <2>5, <4>1, <4>2, <4>4 DEF IInv, CallState
      <3> QED BY <3>2, <3>3
    <2> QED BY <2>4, <2>5
  <1> QED BY <1>1, InvAlways, PTL

-----------------------------------------------------------------------------
(* The outcome of a call.                                                  *)

\* What was never taken has an input that was never taken.
LEMMA LeftIsCyclic ==
  ASSUME IInv, ~tainted, pc = "sorting", ready = {}, popped # Nodes
  PROVE  Cyclic
  <1>1. popped \subseteq Nodes /\ \A n \in Nodes : inputs[n] \subseteq Nodes
    BY DEF IInv, TypeOK
  <1>2. ASSUME NEW n \in Nodes \ popped PROVE inputs[n] \cap (Nodes \ popped) # {}
    <2>1. degree[n] \in Nat /\ ~(degree[n] <= 0) /\ degree[n] = Cardinality(inputs[n] \ popped)
      BY DEF IInv, Clean, SortState
    <2>2. inputs[n] \ popped # {}
      BY <2>1, FS_EmptySet
    <2> QED BY <1>1, <2>2
  <1>3. Nodes \ popped \in SUBSET Nodes /\ Nodes \ popped # {}
    BY <1>1
  <1> QED BY <1>2, <1>3 DEF Cyclic

\* An order with each node behind its inputs has no cycle.
LEMMA OrderIsAcyclic ==
  ASSUME IInv, ~tainted, pc = "submitting"
  PROVE  ~Cyclic
  <1>1. /\ InOrder(cache) /\ Covers(cache, Nodes) /\ Len(cache) \in Nat /\ cache \in Seq(Nodes)
        /\ \A n \in Nodes : inputs[n] \subseteq Nodes
    BY DEF IInv, Sound, TypeOK
  <1>2. ASSUME NEW S \in SUBSET Nodes, S # {}, \A n \in S : inputs[n] \cap S # {}
        PROVE  FALSE
    <2> DEFINE T == {i \in 1..Len(cache) : cache[i] \in S}
    <2>1. \A n \in S : Linked(n)
      BY <1>2 DEF Linked
    <2>2. T # {} /\ T \in SUBSET (1..Len(cache))
      BY <1>1, <1>2, <2>1 DEF Covers
    <2>3. PICK i \in T : \A j \in T : i <= j
      <3> HIDE DEF T
      <3> QED BY <1>1, <2>2, LeastExists
    <2>4. PICK m \in inputs[cache[i]] : m \in S
      BY <1>2
    <2>5. PICK j \in 1..(i - 1) : cache[j] = m
      BY <1>1, <2>4 DEF InOrder
    <2>6. j \in T /\ j < i
      BY <1>1, <2>4, <2>5
    <2> QED BY <1>1, <2>3, <2>6
  <1> QED BY <1>2 DEF Cyclic

\* The end node has a future exactly if it has an edge.
LEMMA EndIsThere ==
  ASSUME IInv, ~tainted, pc = "submitting", at = Len(cache)
  PROVE  future[End] = "absent" <=> ~Linked(End)
  <1>1. InOrder(cache) /\ Covers(cache, Nodes) /\ CallState /\ End \in Nodes
    BY NodesFinite DEF IInv, Sound
  <1>2. CASE Linked(End)
    <2>1. PICK i \in 1..at : cache[i] = End
      BY <1>1, <1>2 DEF Covers
    <2> QED BY <1>1, <1>2, <2>1 DEF CallState
  <1>3. CASE ~Linked(End)
    <2>1. ASSUME NEW i \in 1..at PROVE cache[i] # End
      BY <1>1, <1>3 DEF InOrder
    <2> QED BY <1>1, <1>3, <2>1 DEF CallState
  <1> QED BY <1>2, <1>3

\* A call that returns needed nothing that raised.
LEMMA DoneNeedsDone ==
  ASSUME IInv, pc = "submitting", future[End] = "done"
  PROVE  broken \cap Needed = {}
  <1> DEFINE D == {n \in Nodes : future[n] = "done"}
  <1>1. D \in SUBSET Nodes /\ End \in D
    BY NodesFinite
  <1>2. ASSUME NEW m \in D \ {Start} PROVE inputs[m] \subseteq D
    <2>1. inputs[m] \subseteq Nodes
      BY DEF IInv, TypeOK
    <2>2. \A k \in inputs[m] : future[k] = "done"
      BY DEF IInv, CallState
    <2> QED BY <2>1, <2>2
  <1>3. Needed \subseteq D
    <2> HIDE DEF D
    <2> QED BY <1>1, <1>2 DEF Needed
  <1>4. \A n \in broken : future[n] = "raised"
    BY DEF IInv, Blame
  <1> QED BY <1>3, <1>4

\* A call that raises needed something that raised by itself.
LEMMA RaisedNeedsBroken ==
  ASSUME IInv, ~tainted, pc = "submitting", future[End] = "raised"
  PROVE  broken \cap Needed # {}
  <1> SUFFICES ASSUME broken \cap Needed = {} PROVE FALSE
    OBVIOUS
  <1> DEFINE T == {i \in 1..at : future[cache[i]] = "raised" /\ cache[i] \in Needed}
  <1>1. /\ at \in Nat /\ CallState /\ PoolState /\ Blame /\ End \in Nodes
        /\ \A n \in Nodes : inputs[n] \subseteq Nodes
    <2>1. at \in 0..Len(cache) /\ Len(cache) \in Nat
      BY DEF IInv, TypeOK
    <2> QED BY <2>1, NodesFinite DEF IInv, TypeOK
  <1>2. End \in Needed
    BY <1>1 DEF Needed
  <1>3. T # {} /\ T \in SUBSET (1..at)
    BY <1>1, <1>2 DEF CallState
  <1>4. PICK i \in T : \A j \in T : i <= j
    <2> HIDE DEF T
    <2> QED BY <1>1, <1>3, LeastExists
  <1>5. cache[i] \in Nodes \ {Start}
    BY <1>1 DEF Needed, PoolState
  <1>6. PICK m \in inputs[cache[i]] : future[m] = "raised"
    BY <1>1, <1>5 DEF Blame
  <1>7. m \in Needed
    <2>1. m \in Nodes
      BY <1>1, <1>5
    <2>2. cache[i] \in Needed
      OBVIOUS
    <2>3. ASSUME NEW S \in SUBSET Nodes, End \in S, \A k \in S \ {Start} : inputs[k] \subseteq S
          PROVE  m \in S
      <3>1. cache[i] \in S
        BY <2>2, <2>3 DEF Needed
      <3> QED BY <1>5, <2>3, <3>1
    <2> QED BY <2>1, <2>3 DEF Needed
  <1>8. PICK j \in 1..(i - 1) : cache[j] = m /\ j \in 1..at
    BY InputsThere
  <1>9. j \in T /\ j < i
    BY <1>1, <1>6, <1>7, <1>8
  <1> QED BY <1>1, <1>4, <1>9

\* A call finds the cycles of the graph and nothing else, and raises exactly if something
\* that the end node depends on raised, whatever the order of the nodes and the threads.
THEOREM OutcomesRight == Spec => []OutcomeRight
  <1> DEFINE Verdict == CASE Cyclic -> "cycle"
                         [] ~Cyclic /\ ~Linked(End) -> "keyerror"
                         [] ~Cyclic /\ Linked(End) /\ broken \cap Needed # {} -> "raised"
                         [] OTHER -> "returned"
  <1>1. Init => OutcomeRight
    BY DEF Init, OutcomeRight
  <1>2. ASSUME IInv, OutcomeRight, [Next]_vars PROVE OutcomeRight'
    <2> USE <1>2
    <2>1. CASE Sorted
      <3> SUFFICES ASSUME ~tainted, popped # Nodes PROVE OutcomeRight'
        BY <2>1 DEF Sorted, OutcomeRight
      <3>1. Cyclic
        BY <2>1, LeftIsCyclic DEF Sorted
      <3>2. Cyclic' /\ outcome' = "cycle"
        BY <2>1, <3>1 DEF Sorted, Cyclic, graph
      <3> QED BY <3>2 DEF OutcomeRight
    <2>2. CASE Return
      <3> SUFFICES ASSUME ~tainted PROVE OutcomeRight'
        BY <2>2 DEF Return, OutcomeRight
      <3>1. /\ pc = "submitting" /\ at = Len(cache) /\ future[End] \notin {"queued", "busy"}
            /\ outcome' = CASE future[End] = "absent" -> "keyerror"
                           [] future[End] = "raised" -> "raised"
                           [] OTHER -> "returned"
        BY <2>2, NodesFinite DEF Return
      <3>2. future[End] \in {"absent", "done", "raised"}
        BY <3>1, NodesFinite DEF IInv, TypeOK
      <3>3. ~Cyclic /\ (future[End] = "absent" <=> ~Linked(End))
        BY <3>1, OrderIsAcyclic, EndIsThere
      <3>4. future[End] = "raised" => broken \cap Needed # {}
        BY <3>1, RaisedNeedsBroken
      <3>5. future[End] = "done" => broken \cap Needed = {}
        BY <3>1, DoneNeedsDone
      <3>6. outcome' = Verdict
        BY <3>1, <3>2, <3>3, <3>4, <3>5
      <3>7. Verdict' = Verdict
        BY <2>2 DEF Return, graph, Cyclic, Linked, Needed
      <3> QED BY <3>6, <3>7 DEF OutcomeRight
    <2>3. CASE UNCHANGED vars
      <3>1. UNCHANGED <<pc, outcome, tainted, inputs, outs, broken>>
        BY <2>3 DEF vars, graph
      <3>2. Verdict' = Verdict
        BY <3>1 DEF Cyclic, Linked, Needed
      <3> QED BY <3>1, <3>2 DEF OutcomeRight
    <2>4. CASE Call \/ \E edge \in Edges : AddEdge(edge[1], edge[2])
      BY <2>4 DEF Call, AddEdge, OutcomeRight
    <2>5. CASE Submit \/ \E n \in Nodes : Pop(n)
      BY <2>5 DEF Submit, Pop, OutcomeRight
    <2>6. ASSUME NEW w \in Workers, Work(w) PROVE OutcomeRight'
      <3>1. pc = "submitting" /\ pc' = pc
        <4>1. CASE Take(w)
          <5>1. PICK i \in 1..at : future[cache[i]] = "queued"
            BY <4>1 DEF Take
          <5>2. at \in 0..Len(cache) /\ cache \in Seq(Nodes)
            BY DEF IInv, TypeOK
          <5>3. cache[i] \in Nodes
            BY <5>2
          <5> QED BY <4>1, <5>1, <5>3 DEF Take, IInv, PoolState
        <4>2. CASE Compute(w)
          BY <4>2, Holding DEF Compute
        <4>3. CASE \E m \in Nodes : Read(w, m)
          BY <4>3, Holding DEF Read
        <4> QED BY <2>6, <4>1, <4>2, <4>3 DEF Work
      <3> QED BY <3>1 DEF OutcomeRight
    <2> QED BY <2>1, <2>2, <2>3, <2>4, <2>5, <2>6 DEF Next
  <1> QED BY <1>1, <1>2, InvAlways, PTL DEF Spec

=============================================================================

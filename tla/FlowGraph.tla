------------------------------- MODULE FlowGraph -------------------------------
(***************************************************************************)
(* Graph (lazyllm/flow/flow.py): functions joined by edges.  A call sorts  *)
(* the nodes (Kahn), keeps the order for later calls, submits one future   *)
(* per node to a pool of threads in that order, and every future waits for *)
(* those of its inputs, holding its thread.                                *)
(*                                                                         *)
(* Values are left out: a future is done or has raised.  A constant edge   *)
(* counts in no degree and never waits: it is left out too.  The queue of  *)
(* the sort is a set: any of its nodes may be next.                        *)
(***************************************************************************)
EXTENDS Integers, Sequences, FiniteSets

CONSTANTS
  Items,      \* the nodes with a function
  Start, End, \* __start__ and __end__
  Workers,    \* threads of the pool
  Edges,      \* the edges that the graph may have or get, pairs <<from, to>>
  MaxAdded,   \* bound: edges added later on
  MaxRuns,    \* bound: calls of the graph
  MaxFaults   \* bound: functions that raise

Nodes == Items \cup {Start, End}
None == "NONE"

ASSUME GraphAssumption ==
  /\ IsFiniteSet(Items) /\ Start \notin Items /\ End \notin Items /\ Start # End
  /\ None \notin Nodes
  /\ Workers # {}
  /\ Edges \subseteq Nodes \X Nodes
  /\ MaxAdded \in Nat /\ MaxRuns \in Nat /\ MaxFaults \in Nat

VARIABLES
  inputs,   \* per node: the nodes it has edges from
  outs,     \* per node: how often each node is in its list of outputs
  cache,    \* the sorted nodes of the last sort; empty before
  pc,       \* of the call: "idle", "sorting", "submitting"
  ready, popped, sorted, degree,  \* the sort: its queue, the nodes it has taken, those that
            \* have an edge in order, the inputs still to be taken
  at,       \* how many nodes of the cache the call has submitted
  future,   \* per node: its future in this call
  held,     \* per thread: the node it computes, or None
  unread,   \* per thread: the inputs it has still to read
  outcome,  \* of the last call on the graph as it is
  broken,   \* history: the nodes whose function raised in this call
  tainted,  \* history: an edge was added after a sort, or one refused as duplicate
  added, runs, faults

graph == <<inputs, outs, added>>
sort == <<ready, popped, sorted, degree>>
pool == <<held, unread>>
vars == <<graph, cache, pc, sort, at, future, pool, outcome, broken, tainted, runs, faults>>

TypeOK ==
  /\ inputs \in [Nodes -> SUBSET Nodes]
  /\ outs \in [Nodes -> [Nodes -> Nat]]
  /\ cache \in Seq(Nodes) /\ sorted \in Seq(Nodes)
  /\ pc \in {"idle", "sorting", "submitting"}
  /\ ready \subseteq Nodes /\ popped \subseteq Nodes /\ degree \in [Nodes -> IF tainted THEN Int ELSE Nat]
  /\ at \in 0..Len(cache)
  /\ future \in [Nodes -> {"absent", "queued", "busy", "done", "raised"}]
  /\ held \in [Workers -> Nodes \cup {None}] /\ unread \in [Workers -> SUBSET Nodes]
  /\ outcome \in {"none", "cycle", "keyerror", "raised", "returned"}
  /\ broken \subseteq Nodes /\ tainted \in BOOLEAN
  /\ added \in 0..MaxAdded /\ runs \in 0..MaxRuns /\ faults \in 0..MaxFaults

\* A graph that was built from some of the edges, each added once.
Init ==
  /\ \E edges \in SUBSET Edges :
       /\ inputs = [n \in Nodes |-> {m \in Nodes : <<m, n>> \in edges}]
       /\ outs = [m \in Nodes |-> [n \in Nodes |-> IF <<m, n>> \in edges THEN 1 ELSE 0]]
  /\ cache = << >> /\ pc = "idle"
  /\ ready = {} /\ popped = {} /\ sorted = << >> /\ degree = [n \in Nodes |-> 0]
  /\ at = 0 /\ future = [n \in Nodes |-> "absent"]
  /\ held = [w \in Workers |-> None] /\ unread = [w \in Workers |-> {}]
  /\ outcome = "none" /\ broken = {} /\ tainted = FALSE
  /\ added = 0 /\ runs = 0 /\ faults = 0

-----------------------------------------------------------------------------
(* The graph.                                                              *)

\* add_edge: the output is appended before a duplicate is refused.
AddEdge(m, n) ==
  /\ pc = "idle" /\ added < MaxAdded
  /\ outs' = [outs EXCEPT ![m][n] = @ + 1]
  /\ inputs' = [inputs EXCEPT ![n] = @ \cup {m}]
  /\ tainted' = (tainted \/ cache # << >> \/ m \in inputs[n])
  /\ added' = added + 1 /\ outcome' = "none"
  /\ UNCHANGED <<cache, pc, sort, at, future, pool, broken, runs, faults>>

InDegree(n) == Cardinality(inputs[n])
Linked(n) == inputs[n] # {} \/ \E m \in Nodes : outs[n][m] > 0

-----------------------------------------------------------------------------
(* A call: the sort.                                                       *)

Begin ==
  /\ at' = 0 /\ future' = [n \in Nodes |-> "absent"] /\ broken' = {}

Call ==
  /\ pc = "idle" /\ runs < MaxRuns
  /\ runs' = runs + 1 /\ outcome' = "none" /\ Begin
  /\ IF cache # << >>
     THEN pc' = "submitting" /\ UNCHANGED sort
     ELSE /\ pc' = "sorting"
          /\ degree' = [n \in Nodes |-> InDegree(n)]
          /\ ready' = {n \in Nodes : InDegree(n) = 0}
          /\ popped' = {} /\ sorted' = << >>
  /\ UNCHANGED <<graph, cache, pool, tainted, faults>>

\* Seeded: the head of the queue is looked at and not taken out.
Pop_Peek(n) ==
  /\ pc = "sorting" /\ n \in ready
  /\ degree' = [m \in Nodes |-> degree[m] - outs[n][m]]
  /\ ready' = ready \cup {m \in Nodes : degree[m] > 0 /\ outs[n][m] >= degree[m]}
  /\ popped' = popped \cup {n}
  /\ sorted' = IF Linked(n) THEN Append(sorted, n) ELSE sorted
  /\ UNCHANGED <<graph, cache, pc, at, future, pool, outcome, broken, tainted, runs, faults>>

\* An output is put in the queue when its degree comes to 0.  The nodes without an
\* edge, that are taken out after the sort, are not put in.
Pop(n) ==
  /\ pc = "sorting" /\ n \in ready
  /\ degree' = [m \in Nodes |-> degree[m] - outs[n][m]]
  /\ ready' = (ready \ {n}) \cup {m \in Nodes : degree[m] > 0 /\ outs[n][m] >= degree[m]}
  /\ popped' = popped \cup {n}
  /\ sorted' = IF Linked(n) THEN Append(sorted, n) ELSE sorted
  /\ UNCHANGED <<graph, cache, pc, at, future, pool, outcome, broken, tainted, runs, faults>>

\* Seeded: nodes that were never taken are not noticed.
Sorted_Unchecked ==
  /\ pc = "sorting" /\ ready = {}
  /\ cache' = sorted /\ pc' = "submitting" /\ UNCHANGED outcome
  /\ UNCHANGED <<graph, sort, at, future, pool, broken, tainted, runs, faults>>

Sorted ==
  /\ pc = "sorting" /\ ready = {}
  /\ IF popped = Nodes
     THEN cache' = sorted /\ pc' = "submitting" /\ UNCHANGED outcome
     ELSE pc' = "idle" /\ outcome' = "cycle" /\ UNCHANGED cache
  /\ UNCHANGED <<graph, sort, at, future, pool, broken, tainted, runs, faults>>

-----------------------------------------------------------------------------
(* A call: the futures.                                                    *)

\* The value of the start node is there at once.
Submit ==
  /\ pc = "submitting" /\ at < Len(cache)
  /\ at' = at + 1
  /\ future' = [future EXCEPT ![cache[at + 1]] = IF cache[at + 1] = Start THEN "done" ELSE "queued"]
  /\ UNCHANGED <<graph, cache, pc, sort, pool, outcome, broken, tainted, runs, faults>>

\* Seeded: the pool's threads take what they like.
Take_Any(w) ==
  /\ held[w] = None
  /\ \E i \in 1..at :
       /\ future[cache[i]] = "queued"
       /\ future' = [future EXCEPT ![cache[i]] = "busy"]
       /\ held' = [held EXCEPT ![w] = cache[i]]
       /\ unread' = [unread EXCEPT ![w] = inputs[cache[i]]]
  /\ UNCHANGED <<graph, cache, pc, sort, at, outcome, broken, tainted, runs, faults>>

\* The pool's queue is first in, first out.
Take(w) ==
  /\ held[w] = None
  /\ \E i \in 1..at :
       /\ future[cache[i]] = "queued"
       /\ \A j \in 1..i - 1 : future[cache[j]] # "queued"
       /\ future' = [future EXCEPT ![cache[i]] = "busy"]
       /\ held' = [held EXCEPT ![w] = cache[i]]
       /\ unread' = [unread EXCEPT ![w] = inputs[cache[i]]]
  /\ UNCHANGED <<graph, cache, pc, sort, at, outcome, broken, tainted, runs, faults>>

Settle(w, result) ==
  /\ future' = [future EXCEPT ![held[w]] = result]
  /\ held' = [held EXCEPT ![w] = None]
  /\ unread' = [unread EXCEPT ![w] = {}]

\* Seeded: what is not there yet is not waited for.
Read_NoWait(w, m) ==
  /\ held[w] # None /\ m \in unread[w]
  /\ IF future[m] \in {"absent", "raised"} THEN Settle(w, "raised")
     ELSE unread' = [unread EXCEPT ![w] = @ \ {m}] /\ UNCHANGED <<future, held>>
  /\ UNCHANGED <<graph, cache, pc, sort, at, outcome, broken, tainted, runs, faults>>

\* _get_input: waits for a future that is not done, raises when there is none or it raised.
Read(w, m) ==
  /\ held[w] # None /\ m \in unread[w]
  /\ \/ future[m] \in {"absent", "raised"} /\ Settle(w, "raised")
     \/ future[m] = "done" /\ unread' = [unread EXCEPT ![w] = @ \ {m}] /\ UNCHANGED <<future, held>>
  /\ UNCHANGED <<graph, cache, pc, sort, at, outcome, broken, tainted, runs, faults>>

\* compute_node: the function of the end node is the identity.
Compute(w) ==
  /\ held[w] # None /\ unread[w] = {}
  /\ \/ Settle(w, "done") /\ UNCHANGED <<broken, faults>>
     \/ /\ held[w] # End /\ faults < MaxFaults /\ faults' = faults + 1
        /\ broken' = broken \cup {held[w]} /\ Settle(w, "raised")
  /\ UNCHANGED <<graph, cache, pc, sort, at, outcome, tainted, runs>>

\* The pool is left when every future is done; then the result of the end node.
Return ==
  /\ pc = "submitting" /\ at = Len(cache)
  /\ \A n \in Nodes : future[n] \notin {"queued", "busy"}
  /\ pc' = "idle"
  /\ outcome' = CASE future[End] = "absent" -> "keyerror"
                  [] future[End] = "raised" -> "raised"
                  [] OTHER -> "returned"
  /\ UNCHANGED <<graph, cache, sort, at, future, pool, broken, tainted, runs, faults>>

-----------------------------------------------------------------------------
Work(w) == Take(w) \/ Compute(w) \/ \E m \in Nodes : Read(w, m)

Next ==
  \/ \E edge \in Edges : AddEdge(edge[1], edge[2])
  \/ Call \/ (\E n \in Nodes : Pop(n)) \/ Sorted \/ Submit \/ Return
  \/ \E w \in Workers : Work(w)

Spec == Init /\ [][Next]_vars

-----------------------------------------------------------------------------
\* A set of nodes each of which has an input in the set.
Cyclic == \E S \in SUBSET Nodes : S # {} /\ \A n \in S : inputs[n] \cap S # {}

\* The end node and all that it depends on; the start node depends on nothing, whatever
\* edges it has.
Needed ==
  {n \in Nodes :
     \A S \in SUBSET Nodes : End \in S /\ (\A m \in S \ {Start} : inputs[m] \subseteq S) => n \in S}

\* The outcome of a call is that of the graph, whatever the order and the threads: a
\* cycle is found, otherwise the call raises if and only if something raised that the
\* end node depends on (topological_sort, compute_node, _run).
OutcomeRight ==
  pc = "idle" /\ outcome # "none" /\ ~tainted =>
    outcome = CASE Cyclic -> "cycle"
                [] ~Cyclic /\ ~Linked(End) -> "keyerror"
                [] ~Cyclic /\ Linked(End) /\ broken \cap Needed # {} -> "raised"
                [] OTHER -> "returned"

\* No function runs before those of its inputs have returned, and none runs twice in a call.
FiresInOrder ==
  [][\A n \in Nodes \ {Start} : future'[n] = "done" /\ future[n] # "done" =>
       future[n] = "busy" /\ \A m \in inputs[n] : future[m] = "done"]_vars

\* While a call has futures that are not done, some thread can go on, however few there
\* are: the first node that is not done has its thread, or finds one, and nothing to wait for.
NeverStuck ==
  pc = "submitting" /\ ~tainted /\ (\E n \in Nodes : future[n] \in {"queued", "busy"}) =>
    \E w \in Workers :
      \/ held[w] = None /\ \E n \in Nodes : future[n] = "queued"
      \/ held[w] # None /\ \A m \in unread[w] : future[m] \in {"done", "raised"}

=============================================================================

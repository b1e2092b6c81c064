-------------------------------- MODULE Dag ---------------------------------
(***************************************************************************)
(* DAG (omniord/core/dag.py): building a graph node by node, and its three *)
(* checks: validate, topological_order (Kahn's algorithm) and layers.      *)
(*                                                                         *)
(* Ids are numbered in the order Python sorts them; 0 is an id that no     *)
(* node has.  keys is the order of the dictionary, that of insertion.      *)
(* Dependencies are lists, as a plan may give them: in any order, of known *)
(* and unknown ids.  The loop of each algorithm is one action.             *)
(***************************************************************************)
EXTENDS Naturals, Sequences, SequencesExt, FiniteSets

CONSTANTS
  N,           \* the ids are 1..N
  DepLists     \* the dependency lists a node may be added with

ASSUME DagAssumption == N \in Nat /\ DepLists \subseteq Seq(0..N)

Ids == 1..N

VARIABLES
  keys,        \* the ids of dag.nodes, in the order they were added
  deps,        \* the dependency list of each node
  op,          \* the call in progress, or the last one
  result,      \* "none" while building, "running", or how the call ended
  indegree,    \* of both algorithms
  ready,       \* topological_order: the queue
  order,       \* topological_order: the list to return
  layers       \* layers: the layers so far, each the set of its ids

graph == <<keys, deps>>
vars  == <<keys, deps, op, result, indegree, ready, order, layers>>

Known    == ToSet(keys)
DepSet(n) == ToSet(deps[n])

Ops     == {"none", "add", "validate", "topological_order", "layers"}
Results == {"none", "running", "ok", "duplicate", "missing", "cycle"}

TypeOK ==
  /\ keys \in Seq(Ids) /\ IsInjective(keys)
  /\ deps \in [Ids -> Seq(0..N)]
  /\ op \in Ops /\ result \in Results
  /\ indegree \in [Ids -> Nat]
  /\ ready \in Seq(Known) /\ order \in Seq(Known)
  /\ layers \in Seq(SUBSET Known)

Init ==
  /\ keys = <<>>
  /\ deps = [n \in Ids |-> <<>>]
  /\ op = "none" /\ result = "none"
  /\ indegree = [n \in Ids |-> 0]
  /\ ready = <<>> /\ order = <<>> /\ layers = <<>>

Clear == ready' = <<>> /\ order' = <<>> /\ layers' = <<>>

-----------------------------------------------------------------------------
\* add, add_node
Add(n, list) ==
  /\ result # "running"
  /\ op' = "add"
  /\ IF n \in Known
     THEN result' = "duplicate" /\ UNCHANGED graph
     ELSE /\ result' = "none"
          /\ keys' = Append(keys, n)
          /\ deps' = [deps EXCEPT ![n] = list]
  /\ Clear /\ UNCHANGED indegree

-----------------------------------------------------------------------------
\* dependents: each once, however often it names the node.
Dependents(n) == {m \in Known : n \in DepSet(m)}

\* One for each time a known id is named.
Indegree_All(n) == Len(deps[n])                          \* mutant: unknown ids count too
Indegree_Any(n) == IF DepSet(n) \cap Known = {} THEN 0 ELSE 1   \* mutant: one for all
Indegree(n) == Cardinality({i \in DOMAIN deps[n] : deps[n][i] \in Known})
Indegrees   == [n \in Ids |-> IF n \in Known THEN Indegree(n) ELSE 0]

\* The elements of S, sorted.
InOrder(S) ==
  CHOOSE s \in [1..Cardinality(S) -> S] : \A i, j \in DOMAIN s : i < j => s[i] < s[j]
Sources    == {n \in Known : Indegree(n) = 0}

\* The nodes whose last unmet dependency is one of S.
Reached(n, S) == Cardinality({m \in S : n \in Dependents(m)})
Released(S)   == {n \in Known : Reached(n, S) > 0 /\ indegree[n] = Reached(n, S)}

Relax_Released(S) ==     \* mutant: decremented also for the dependents of dependents
  indegree' = [n \in Ids |-> indegree[n] - Cardinality({m \in S : n \in Dependents(m)
                                           \/ \E d \in DepSet(n) : d \in Dependents(m)})]

Relax(S) ==
  indegree' = [n \in Ids |-> IF n \in Known THEN indegree[n] - Reached(n, S) ELSE 0]

StartOrder(call) ==
  /\ op' = call /\ result' = "running"
  /\ indegree' = Indegrees
  /\ ready' = InOrder(Sources)
  /\ order' = <<>> /\ layers' = <<>>

TopologicalOrder ==
  /\ result # "running"
  /\ StartOrder("topological_order")
  /\ UNCHANGED graph

\* popleft, append, and the dependents this releases, in order
Pop ==
  /\ op \in {"topological_order", "validate"} /\ result = "running"
  /\ ready # <<>>
  /\ order' = Append(order, Head(ready))
  /\ ready' = Tail(ready) \o InOrder(Released({Head(ready)}))
  /\ Relax({Head(ready)})
  /\ UNCHANGED <<graph, op, result, layers>>

AllOrdered_NoCheck == TRUE                     \* mutant: the length is not compared
AllOrdered == Len(order) = Len(keys)

EndOrder ==
  /\ op \in {"topological_order", "validate"} /\ result = "running"
  /\ ready = <<>>
  /\ result' = IF AllOrdered THEN "ok" ELSE "cycle"
  /\ UNCHANGED <<graph, op, indegree, ready, order, layers>>

-----------------------------------------------------------------------------
\* validate: the first unknown or own id named ends it; then the sort.
Bad(i, j)   == deps[keys[i]][j] \notin Known \/ deps[keys[i]][j] = keys[i]
Bads        == {p \in UNION {{i} \X DOMAIN deps[keys[i]] : i \in DOMAIN keys} :
                  Bad(p[1], p[2])}
Before(p, q) == p[1] < q[1] \/ (p[1] = q[1] /\ p[2] <= q[2])
FirstBad    == CHOOSE p \in Bads : \A q \in Bads : Before(p, q)

Validate ==
  /\ result # "running"
  /\ IF Bads = {}
     THEN StartOrder("validate")
     ELSE /\ op' = "validate"
          /\ result' = IF deps[keys[FirstBad[1]]][FirstBad[2]] \notin Known
                       THEN "missing" ELSE "cycle"
          /\ Clear /\ UNCHANGED indegree
  /\ UNCHANGED graph

-----------------------------------------------------------------------------
\* layers: each step makes the next frontier from the last one, the first from
\* the sources; `seen` counts the nodes in all.
Layered == UNION ToSet(layers)

Layers ==
  /\ result # "running"
  /\ op' = "layers" /\ result' = "running"
  /\ indegree' = Indegrees
  /\ Clear
  /\ UNCHANGED graph

NextFrontier == IF layers = <<>> THEN Sources ELSE Released(Last(layers))
RelaxLayer   == IF layers = <<>> THEN UNCHANGED indegree ELSE Relax(Last(layers))

NextLayer ==
  /\ op = "layers" /\ result = "running"
  /\ NextFrontier # {}
  /\ layers' = Append(layers, NextFrontier)
  /\ RelaxLayer
  /\ UNCHANGED <<graph, op, result, ready, order>>

EndLayers ==
  /\ op = "layers" /\ result = "running"
  /\ NextFrontier = {}
  /\ RelaxLayer
  /\ result' = IF Layered = Known THEN "ok" ELSE "cycle"
  /\ UNCHANGED <<graph, op, ready, order, layers>>

Work == Pop \/ EndOrder \/ NextLayer \/ EndLayers

Next ==
  \/ \E n \in Ids, list \in DepLists : Add(n, list)
  \/ TopologicalOrder \/ Validate \/ Layers
  \/ Work

Spec == Init /\ [][Next]_vars /\ WF_vars(Work)

-----------------------------------------------------------------------------
(***************************************************************************)
(* Properties.                                                             *)
(***************************************************************************)
Preds(n)  == IF n \in Known THEN DepSet(n) \cap Known ELSE {}
Cyclic    == \E S \in SUBSET Known : S # {} /\ \A n \in S : Preds(n) \cap S # {}
Returned(calls) == op \in calls /\ result = "ok"

(* CycleError is raised exactly when no execution order exists (dag.py:41, *)
(* 84), whatever the order of insertion and the unknown ids that two of the*)
(* calls ignore; and what validate accepts is what the engine assumes of   *)
(* its graphs (engine.py:42): dependencies within the graph and no cycle.  *)
CycleIsExact ==
  /\ op \in {"topological_order", "layers"} /\ result \in {"ok", "cycle"} =>
       (result = "cycle" <=> Cyclic)
  /\ op = "validate" /\ result \in {"ok", "missing", "cycle"} =>
       (result = "ok" <=> (\A n \in Known : DepSet(n) \subseteq Known) /\ ~Cyclic)

(* A layer is as early as can be: its nodes depend on no node of the same  *)
(* or a later layer, and each on some node of the layer before (dag.py:    *)
(* 109-110).                                                               *)
InLayer(n, k) == k \in DOMAIN layers /\ n \in layers[k]
LayersAreTight ==
  Returned({"layers"}) =>
    \A n \in Known : \E k \in DOMAIN layers :
      /\ \A j \in DOMAIN layers : InLayer(n, j) <=> j = k
      /\ \A d \in Preds(n) : \E j \in 1..(k - 1) : InLayer(d, j)
      /\ k > 1 => \E d \in Preds(n) : InLayer(d, k - 1)

(* Both algorithms are topological sorts, and come to an end: counting the *)
(* unmet dependencies down to zero releases a node at the right moment.    *)
PositionIn(seq, n) == IF \E i \in DOMAIN seq : seq[i] = n
                      THEN CHOOSE i \in DOMAIN seq : seq[i] = n ELSE 0
LayerOf(n) == IF \E k \in DOMAIN layers : InLayer(n, k)
              THEN CHOOSE k \in DOMAIN layers : InLayer(n, k) ELSE 0

Sort == INSTANCE TopoSort WITH
  input   <- [nodes |-> Known, preds |-> [n \in Ids |-> Preds(n)]],
  rank    <- [n \in Ids |-> IF op = "layers" THEN LayerOf(n) ELSE PositionIn(order, n)],
  clock   <- Len(order) + Len(layers),
  verdict <- CASE result = "running" -> "sorting"
               [] result = "ok"      -> "sorted"
               [] result = "cycle" /\ (op # "validate" \/ Bads = {}) -> "cycle"
               [] OTHER -> "none"

SortsTopologically == Sort!Spec
=============================================================================

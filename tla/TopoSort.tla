------------------------------ MODULE TopoSort ------------------------------
(***************************************************************************)
(* What a topological sort promises (DAG.topological_order and DAG.layers, *)
(* omniord/core/dag.py), without counters or queues: it emits nodes whose  *)
(* predecessors it has emitted, until all are out or none can follow.      *)
(***************************************************************************)
EXTENDS Naturals

CONSTANT Ids

\* A graph: a set of nodes, and the predecessors of each among them.
Inputs == {in \in [nodes : SUBSET Ids, preds : [Ids -> SUBSET Ids]] :
             \A n \in in.nodes : in.preds[n] \subseteq in.nodes}

VARIABLES
  input,      \* the graph to sort
  rank,       \* when each node was emitted, 0 for not yet
  clock,      \* the number of emissions made
  verdict     \* "none", "sorting", "sorted" or "cycle"

vars == <<input, rank, clock, verdict>>

Emitted == {n \in input.nodes : rank[n] # 0}

Init ==
  /\ input \in Inputs
  /\ rank = [n \in Ids |-> 0]
  /\ clock = 0
  /\ verdict = "none"

\* Between two sorts the graph may change.
Clear == rank' = [n \in Ids |-> 0] /\ clock' = 0

Edit ==
  /\ verdict # "sorting"
  /\ input' \in Inputs
  /\ Clear
  /\ verdict' = "none"

Begin ==
  /\ verdict # "sorting"
  /\ Clear
  /\ verdict' = "sorting"
  /\ UNCHANGED input

Free(n) == n \in input.nodes \ Emitted /\ input.preds[n] \subseteq Emitted

\* One node, or several that are free together.
Emit ==
  /\ verdict = "sorting"
  /\ clock' = clock + 1
  /\ \E S \in SUBSET {n \in input.nodes : Free(n)} :
       S # {} /\ rank' = [n \in Ids |-> IF n \in S THEN clock' ELSE rank[n]]
  /\ UNCHANGED <<input, verdict>>

Sorted ==
  /\ verdict = "sorting" /\ Emitted = input.nodes
  /\ verdict' = "sorted"
  /\ UNCHANGED <<input, rank, clock>>

Stuck == \A n \in input.nodes : ~Free(n)

Cycle ==
  /\ verdict = "sorting" /\ Emitted # input.nodes
  /\ Stuck
  /\ verdict' = "cycle"
  /\ UNCHANGED <<input, rank, clock>>

Next == Edit \/ Begin \/ Emit \/ Sorted \/ Cycle

Spec == Init /\ [][Next]_vars /\ WF_vars(Emit \/ Sorted \/ Cycle)

-----------------------------------------------------------------------------
(* What is emitted comes after everything it depends on.                   *)
Ordered ==
  \A n \in Emitted : \A p \in input.preds[n] : p \in Emitted /\ rank[p] < rank[n]

HasCycle ==
  \E S \in SUBSET input.nodes : S # {} /\ \A n \in S : input.preds[n] \cap S # {}

(* The verdict is right: a graph that was sorted has no cycle, and one that*)
(* was given up has one.                                                   *)
VerdictIsRight ==
  /\ verdict = "sorted" => Emitted = input.nodes /\ ~HasCycle
  /\ verdict = "cycle"  => HasCycle
=============================================================================

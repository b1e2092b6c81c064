------------------------------ MODULE MCSwarm -------------------------------
(***************************************************************************)
(* Swarm on every dependency graph with N nodes, with agents that declare  *)
(* no action, one that is critical of its own and one whose command makes  *)
(* it so; one node has an agent assigned for good, the others take theirs  *)
(* from the selector.                                                      *)
(***************************************************************************)
EXTENDS Swarm

AllDags == {g \in [Nodes -> SUBSET Nodes] : Acyclic(g)}

EverySort == {NoAction,
              [kind |-> "critical", command |-> "none"],
              [kind |-> "safe",     command |-> "destructive"]}

Mixed == [n \in {1} |-> 1]
=============================================================================

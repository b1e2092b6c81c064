------------------------------ MODULE MCEngine ------------------------------
(***************************************************************************)
(* Engine on every dependency graph with N nodes.                          *)
(***************************************************************************)
EXTENDS Engine

AllDags == {g \in [Nodes -> SUBSET Nodes] : Acyclic(g)}
=============================================================================

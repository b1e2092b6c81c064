-------------------------------- MODULE Plan ---------------------------------
(***************************************************************************)
(* Planner._parse, Planner.plan and Plan.to_dag (omniord/core/planner.py): *)
(* from what the model answers to the graph the swarm runs.                *)
(*                                                                         *)
(* An answer is the list of items of its JSON array, empty if it has none  *)
(* or cannot be read.  An item has an id and a dependency list, or is      *)
(* malformed.  The agent kind of a step is not modelled: the command line  *)
(* binds every step to the same sort of agent.                             *)
(***************************************************************************)
EXTENDS Naturals, SequencesExt, FiniteSets

CONSTANTS
  Steps,       \* ids of steps
  TaskStep     \* "task", the id of the only step of a fallback plan

ASSUME PlanAssumption == TaskStep \in Steps

Items == [id : Steps, deps : Seq(Steps), wellFormed : BOOLEAN]

\* A malformed item is left out, the others are kept: a plan is a function from
\* the positions of its items in the answer to the items.
Kept(answer) == {i \in DOMAIN answer : answer[i].wellFormed}

\* Mutant: a dependency on a step that was dropped is dropped too.
Parse_DropsDeps(answer) ==
  LET ids == {answer[i].id : i \in Kept(answer)}
  IN  [i \in Kept(answer) |->
         [answer[i] EXCEPT !.deps = SelectSeq(@, LAMBDA d : d \in ids)]]

Parse(answer) == Restrict(answer, Kept(answer))

Fallback == <<[id |-> TaskStep, deps |-> <<>>, wellFormed |-> TRUE]>>

PlanFor(answer) == IF Kept(answer) = {} THEN Fallback ELSE Parse(answer)

(***************************************************************************)
(* to_dag: add_node refuses a second node of an id; validate refuses       *)
(* dependencies that are unknown or the node's own, and cycles, and takes  *)
(* a dependency that is listed twice for a cycle (see Dag).                *)
(***************************************************************************)
IdsOf(plan)   == {plan[i].id : i \in DOMAIN plan}
NoCycle(plan) ==
  \A S \in SUBSET IdsOf(plan) : S # {} =>
    \E i \in DOMAIN plan : plan[i].id \in S /\ ToSet(plan[i].deps) \cap S = {}

Accepted(plan) ==
  /\ \A i, j \in DOMAIN plan : plan[i].id = plan[j].id => i = j
  /\ \A i \in DOMAIN plan : IsInjective(plan[i].deps)
                            /\ ToSet(plan[i].deps) \subseteq IdsOf(plan)
  /\ NoCycle(plan)

\* The graph of a plan that was accepted.
ToDag(plan) ==
  [n \in IdsOf(plan) |->
     ToSet(plan[CHOOSE i \in DOMAIN plan : plan[i].id = n].deps)]
=============================================================================

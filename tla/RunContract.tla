---------------------------- MODULE RunContract -----------------------------
(***************************************************************************)
(* What ExecutionEngine.run promises its caller (its docstring,            *)
(* omniord/core/engine.py:36-40), without tasks, passes or bookkeeping:    *)
(* a node runs once its dependencies have completed, is skipped once one   *)
(* of them failed or was skipped, and the run is over when every node has  *)
(* been decided.  With FailFast nothing begins or ends after a failure:    *)
(* what is undecided is skipped and the run is over.                       *)
(***************************************************************************)
CONSTANTS Nodes, Graphs, FailFast

VARIABLES
  deps,       \* the dependencies of each node
  state,      \* the state of each node in the current run
  phase       \* of the current run: "ready", "running" or "over"

vars == <<deps, state, phase>>

Decided == {"completed", "failed", "skipped"}
Blocked == {"failed", "skipped"}

Init ==
  /\ deps \in Graphs
  /\ state = [n \in Nodes |-> "pending"]
  /\ phase = "ready"

Failed   == \E n \in Nodes : state[n] = "failed"
Aborting == FailFast /\ Failed

\* A run may follow another on the same graph.
Start ==
  /\ phase \in {"ready", "over"}
  /\ state' = [n \in Nodes |-> "pending"]
  /\ phase' = "running"
  /\ UNCHANGED deps

Move(n, from, to) ==
  /\ phase = "running" /\ ~Aborting
  /\ state[n] = from
  /\ state' = [state EXCEPT ![n] = to]
  /\ UNCHANGED <<deps, phase>>

Begin(n) == (\A d \in deps[n] : state[d] = "completed")   /\ Move(n, "pending", "running")
Skip(n)  == (\E d \in deps[n] : state[d] \in Blocked)     /\ Move(n, "pending", "skipped")
End(n)   == \E s \in {"completed", "failed"} : Move(n, "running", s)

Return ==
  /\ phase = "running" /\ ~Aborting
  /\ \A n \in Nodes : state[n] \in Decided
  /\ phase' = "over"
  /\ UNCHANGED <<deps, state>>

Abort ==
  /\ phase = "running" /\ Aborting
  /\ state' = [n \in Nodes |-> IF state[n] \in Decided THEN state[n] ELSE "skipped"]
  /\ phase' = "over"
  /\ UNCHANGED deps

Advance == (\E n \in Nodes : Begin(n) \/ Skip(n) \/ End(n)) \/ Return \/ Abort

Next == Start \/ Advance

\* A run that was started is brought to its end.
Spec == Init /\ [][Next]_vars /\ WF_vars(Advance)
=============================================================================

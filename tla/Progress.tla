------------------------------ MODULE Progress ------------------------------
(***************************************************************************)
(* ProgressTracker (omniord/progress.py): what the terminal shows of a run.*)
(*                                                                         *)
(* The tracker is a synchronous subscriber of the event bus, subscribed    *)
(* before any other handler (main.py), so EventBus.publish calls it before *)
(* it can suspend: publishing an event and showing it are one step.  The   *)
(* tracker's state is a record, and Handle is the handler as a function.   *)
(***************************************************************************)
EXTENDS Naturals

CONSTANT N    \* number of nodes of the DAG

Nodes == 1..N

\* A node the tracker has heard nothing of is not a key of its dictionary.
ShownStatus == {"absent", "running", "retrying", "completed", "failed", "skipped"}

Views == [total    : Nat,
          done     : BOOLEAN,
          status   : [Nodes -> ShownStatus],
          attempts : [Nodes -> Nat]]

BlankView == [total    |-> 0,
              done     |-> FALSE,
              status   |-> [n \in Nodes |-> "absent"],
              attempts |-> [n \in Nodes |-> 0]]

(***************************************************************************)
(* The events (EventType, omniord/core/events.py).                         *)
(***************************************************************************)
DagStarted        == [type |-> "dag_started", total |-> N]
DagCompleted      == [type |-> "dag_completed"]
NodeEvent(t, n)   == [type |-> t, id |-> n]
NodeRetry(n, a)   == [type |-> "node_retry", id |-> n, attempt |-> a]

\* Mutant: a skipped node is shown as if it had completed.
ShownAs_SkipIsDone(type) ==
  CASE type = "node_running"                          -> "running"
    [] type \in {"node_completed", "node_skipped"}    -> "completed"
    [] type = "node_failed"                           -> "failed"

ShownAs(type) ==
  CASE type = "node_running"   -> "running"
    [] type = "node_completed" -> "completed"
    [] type = "node_failed"    -> "failed"
    [] type = "node_skipped"   -> "skipped"

Handle(v, e) ==
  CASE e.type = "dag_started"   -> [v EXCEPT !.total = e.total]
    [] e.type = "dag_completed" -> [v EXCEPT !.done = TRUE]
    [] e.type = "node_retry"    -> [v EXCEPT !.status[e.id]   = "retrying",
                                             !.attempts[e.id] = e.attempt]
    [] OTHER                    -> [v EXCEPT !.status[e.id] = ShownAs(e.type)]
=============================================================================

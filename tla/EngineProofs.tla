---------------------------- MODULE EngineProofs ----------------------------
(***************************************************************************)
(* The engine's safety properties for every number of nodes, every set of  *)
(* acyclic graphs and any number of runs.                                  *)
(*                                                                         *)
(* The bookkeeping sets of run() tell the story: a node is decided         *)
(* (completed or blocked), in flight (running, or being launched), or not  *)
(* started.  IInv says what each of the three means for the node's status, *)
(* its task and its dependencies.                                          *)
(***************************************************************************)
EXTENDS Engine, TLAPS

Launching == IF pc = "create" THEN {pos} ELSE {}
InFlight  == running \cup Launching

\* The sets partition the started nodes (a task that raised was popped).
Partition ==
  /\ completed \cap blocked = {} /\ running \cap Launching = {}
  /\ InFlight \cap (completed \cup blocked) = {}
  /\ completed \cup blocked \cup InFlight \subseteq started
  /\ pc # "raised" => started \subseteq completed \cup blocked \cup InFlight

Statuses ==
  /\ \A n \in completed : status[n] = "completed" /\ out[n] = run
  /\ \A n \in blocked   : status[n] \in {"failed", "skipped"}
  /\ \A n \in InFlight  : status[n] = "running"

\* What ran, runs or is about to run has only dependencies that completed.
Dependencies ==
  /\ \A n \in completed \cup InFlight : deps[n] \subseteq completed
  /\ \A n \in blocked : status[n] = "failed" => deps[n] \subseteq completed
  /\ \A n \in blocked :
       status[n] = "skipped" /\ ~FailFast => deps[n] \cap blocked # {}

Tasks ==
  /\ \A n \in Nodes : task[n] # "none" =>
       /\ n \in started /\ deps[n] \subseteq completed
       /\ \A d \in deps[n] : context[n][d] = run
  /\ \A n \in Nodes : task[n] = "live" => n \in running
  /\ \A n \in done : task[n] \in TaskEnd

\* Where the engine is tells what is left to schedule.
Control ==
  /\ pc = "idle" <=> run = 0
  /\ pc = "idle" => started = {}
  /\ pc = "visit" /\ ~changed => pos = 1
  /\ pc = "wait" => \A n \in Nodes : ~Actionable(n)
  /\ pc = "returned" => running = {}
  /\ pc \in {"abort", "gather"} => FailFast

\* No earlier run has left its statuses behind, or none can survive this one.
Fresh == ~FailFast \/ run <= 1

Leftovers ==
  /\ run <= 1 => \A n \in Nodes \ started : status[n] = "pending"
  /\ pc = "returned" /\ Fresh => started = Nodes

IInv == TypeOK /\ Partition /\ Statuses /\ Dependencies /\ Tasks /\ Control /\ Leftovers

-----------------------------------------------------------------------------
(* Showing an event leaves the tracker's state well-formed.                *)
LEMMA HandleType ==
  ASSUME NEW v \in Views
  PROVE  /\ Handle(v, DagStarted) \in Views
         /\ Handle(v, DagCompleted) \in Views
         /\ \A n \in Nodes, t \in {"node_running", "node_completed", "node_failed",
                                   "node_skipped"} : Handle(v, NodeEvent(t, n)) \in Views
<1>1. Handle(v, DagStarted) \in Views
  BY EngineAssumption DEF Handle, DagStarted, Views
<1>2. Handle(v, DagCompleted) \in Views
  BY DEF Handle, DagCompleted, Views
<1>3. ASSUME NEW n \in Nodes,
             NEW t \in {"node_running", "node_completed", "node_failed", "node_skipped"}
      PROVE  Handle(v, NodeEvent(t, n)) \in Views
  <2>1. ShownAs(t) \in ShownStatus
    BY DEF ShownAs, ShownStatus
  <2>2. Handle(v, NodeEvent(t, n)) = [v EXCEPT !.status[n] = ShownAs(t)]
    BY DEF Handle, NodeEvent
  <2> QED  BY <2>1, <2>2 DEF Views
<1> QED  BY <1>1, <1>2, <1>3

(* A tracker that has heard nothing is well-formed.                       *)
LEMMA BlankType == BlankView \in Views
BY DEF BlankView, Views, ShownStatus

(* The invariant holds before the first run.                              *)
LEMMA InitIInv == Init => IInv
<1> SUFFICES ASSUME Init PROVE IInv
  OBVIOUS
<1>1. TypeOK
  <2>1. 0 \in 0..MaxRuns /\ 1 \in 1..(N + 1)
    BY EngineAssumption
  <2>2. NoContext \in [Nodes -> 0..MaxRuns]
    BY <2>1 DEF NoContext
  <2> QED
    BY <2>1, <2>2, BlankType DEF Init, TypeOK, Status, Location
<1>2. Partition /\ Statuses /\ Dependencies /\ Tasks
  BY DEF Init, Partition, Statuses, Dependencies, Tasks, InFlight, Launching
<1>3. Control /\ Leftovers
  BY DEF Init, Control, Leftovers
<1> QED  BY <1>1, <1>2, <1>3 DEF IInv

(* Facts of arithmetic the typing steps need.                             *)
LEMMA Bounds ==
  /\ 1 \in 1..(N + 1)
  /\ \A n \in Nodes : n \in 1..(N + 1) /\ n + 1 \in 1..(N + 1)
  /\ NoContext \in [Nodes -> 0..MaxRuns]
BY EngineAssumption DEF Nodes, NoContext

(* Entering run() empties the bookkeeping.                                *)
LEMMA StartKeeps ==
  ASSUME IInv, Start
  PROVE  IInv'
<1> USE DEF IInv, Start, BeginPass, node, sets
<1>1. TypeOK'
  <2>1. run' \in 0..MaxRuns
    BY EngineAssumption DEF TypeOK
  <2>2. context' \in [Nodes -> [Nodes -> 0..MaxRuns]]
    BY Bounds
  <2>3. view' \in Views
    BY HandleType, BlankType
  <2> QED
    BY <2>1, <2>2, <2>3, Bounds DEF TypeOK, Location
<1>2. Partition'
  BY DEF TypeOK, Partition, InFlight, Launching
<1>3. Statuses'
  BY DEF TypeOK, Partition, Statuses, InFlight, Launching
<1>4. Dependencies'
  BY DEF TypeOK, Partition, Dependencies, Statuses, InFlight, Launching
<1>5. Tasks'
  BY DEF TypeOK, Partition, Tasks, InFlight, Launching, TaskEnd
<1>6. Control'
  BY DEF TypeOK, Control
<1>7. Leftovers'
  BY DEF TypeOK, Control, Leftovers, Fresh
<1> QED  BY <1>1, <1>2, <1>3, <1>4, <1>5, <1>6, <1>7 DEF IInv

(* A node is skipped only with a blocked dependency.                      *)
LEMMA SkipKeeps ==
  ASSUME IInv, NEW n \in Nodes, Skip(n)
  PROVE  IInv'
<1> USE DEF IInv, Skip, At, Actionable, node, sets
<1>1. TypeOK'
  BY EngineAssumption, HandleType, BlankType, Bounds DEF TypeOK, Status, Final, Location, TaskEnd
<1>2. Partition'
  BY DEF TypeOK, Partition, InFlight, Launching
<1>3. Statuses'
  BY DEF TypeOK, Partition, Statuses, InFlight, Launching
<1>4. Dependencies'
  BY DEF TypeOK, Partition, Dependencies, Statuses, InFlight, Launching, HasBlockedDep
<1>5. Tasks'
  BY DEF TypeOK, Partition, Tasks, InFlight, Launching, TaskEnd
<1>6. Control'
  BY DEF TypeOK, Control
<1>7. Leftovers'
  BY DEF TypeOK, Leftovers, Fresh
<1> QED  BY <1>1, <1>2, <1>3, <1>4, <1>5, <1>6, <1>7 DEF IInv

(* A node is launched only with all its dependencies completed.           *)
LEMMA LaunchKeeps ==
  ASSUME IInv, NEW n \in Nodes, Launch(n)
  PROVE  IInv'
<1> USE DEF IInv, Launch, At, Actionable, node, sets
<1>1. TypeOK'
  BY EngineAssumption, HandleType, BlankType, Bounds DEF TypeOK, Status, Final, Location, TaskEnd
<1>2. Partition'
  BY DEF TypeOK, Partition, InFlight, Launching
<1>3. Statuses'
  BY DEF TypeOK, Partition, Statuses, InFlight, Launching
<1>4. Dependencies'
  BY DEF TypeOK, Partition, Dependencies, Statuses, InFlight, Launching, HasBlockedDep, DepsCompleted
<1>5. Tasks'
  BY DEF TypeOK, Partition, Tasks, InFlight, Launching, TaskEnd
<1>6. Control'
  BY DEF TypeOK, Control
<1>7. Leftovers'
  BY DEF TypeOK, Leftovers, Fresh
<1> QED  BY <1>1, <1>2, <1>3, <1>4, <1>5, <1>6, <1>7 DEF IInv

(* The context holds this run's outputs.                                  *)
LEMMA CreateTaskKeeps ==
  ASSUME IInv, NEW n \in Nodes, CreateTask(n)
  PROVE  IInv'
<1> USE DEF IInv, CreateTask, node, sets
<1>1. TypeOK'
  <2>1. [d \in Nodes |-> IF d \in deps[n] THEN out[d] ELSE 0] \in [Nodes -> 0..MaxRuns]
    BY Bounds DEF TypeOK, NoContext
  <2>2. context' \in [Nodes -> [Nodes -> 0..MaxRuns]]
    BY <2>1 DEF TypeOK
  <2> QED
    BY <2>2, Bounds DEF TypeOK, Location, Partition, InFlight, Launching
<1>2. Partition'
  BY DEF TypeOK, Partition, InFlight, Launching
<1>3. Statuses'
  BY DEF TypeOK, Partition, Statuses, InFlight, Launching
<1>4. Dependencies'
  BY DEF TypeOK, Partition, Dependencies, Statuses, InFlight, Launching
<1>5. Tasks'
  <2>1. n \in started /\ deps[n] \subseteq completed /\ deps[n] \subseteq Nodes
    BY DEF TypeOK, Partition, Dependencies, InFlight, Launching
  <2>2. \A d \in deps[n] : context'[n][d] = run
    BY <2>1 DEF TypeOK, Statuses
  <2>3. \A m \in Nodes \ {n} : context'[m] = context[m] /\ task'[m] = task[m]
    BY DEF TypeOK
  <2> QED
    BY <2>1, <2>2, <2>3 DEF TypeOK, Tasks, Partition, Launching, TaskEnd
<1>6. Control'
  BY DEF TypeOK, Control
<1>7. Leftovers'
  BY DEF TypeOK, Leftovers, Fresh
<1> QED  BY <1>1, <1>2, <1>3, <1>4, <1>5, <1>6, <1>7 DEF IInv

(* A new pass starts over with the flag reset.                            *)
LEMMA NextPassKeeps ==
  ASSUME IInv, NextPass
  PROVE  IInv'
<1> USE DEF IInv, NextPass, BeginPass, AtEndOfPass, node, sets
<1>1. TypeOK'
  BY EngineAssumption, HandleType, BlankType, Bounds DEF TypeOK, Status, Final, Location, TaskEnd
<1>2. Partition'
  BY DEF TypeOK, Partition, InFlight, Launching
<1>3. Statuses'
  BY DEF TypeOK, Partition, Statuses, InFlight, Launching
<1>4. Dependencies'
  BY DEF TypeOK, Partition, Dependencies, Statuses, InFlight, Launching
<1>5. Tasks'
  BY DEF TypeOK, Partition, Tasks, InFlight, Launching, TaskEnd
<1>6. Control'
  BY DEF TypeOK, Control
<1>7. Leftovers'
  BY DEF TypeOK, Leftovers, Fresh
<1> QED  BY <1>1, <1>2, <1>3, <1>4, <1>5, <1>6, <1>7 DEF IInv

(* The engine sleeps with nothing left to schedule.                       *)
LEMMA WaitKeeps ==
  ASSUME IInv, Wait
  PROVE  IInv'
<1> USE DEF IInv, Wait, Settled, AtEndOfPass, node, sets
<1>1. TypeOK'
  BY EngineAssumption, HandleType, BlankType, Bounds DEF TypeOK, Status, Final, Location, TaskEnd
<1>2. Partition'
  BY DEF TypeOK, Partition, InFlight, Launching
<1>3. Statuses'
  BY DEF TypeOK, Partition, Statuses, InFlight, Launching
<1>4. Dependencies'
  BY DEF TypeOK, Partition, Dependencies, Statuses, InFlight, Launching
<1>5. Tasks'
  BY DEF TypeOK, Partition, Tasks, InFlight, Launching, TaskEnd
<1>6. Control'
  BY DEF TypeOK, Control, Nodes, Actionable, HasBlockedDep, DepsCompleted
<1>7. Leftovers'
  BY DEF TypeOK, Leftovers, Fresh
<1> QED  BY <1>1, <1>2, <1>3, <1>4, <1>5, <1>6, <1>7 DEF IInv

(* A schedule that has settled while nothing is in flight has started every*)
(* node: among the nodes left, one would depend on none of the others.     *)
LEMMA SettledMeansStarted ==
  ASSUME IInv, Settled, running = {}
  PROVE  started = Nodes
<1> DEFINE Left == Nodes \ started
<1>1. \A n \in Nodes : ~Actionable(n)
  BY DEF IInv, TypeOK, Control, Settled, AtEndOfPass, Nodes
<1>2. started = completed \cup blocked
  BY DEF IInv, TypeOK, Partition, InFlight, Launching, Settled, AtEndOfPass
<1>3. SUFFICES ASSUME Left # {} PROVE FALSE
  BY DEF IInv, TypeOK
<1>4. Acyclic(deps) /\ deps \in [Nodes -> SUBSET Nodes]
  BY EngineAssumption DEF IInv, TypeOK
<1>5. PICK n \in Left : deps[n] \cap Left = {}
  BY <1>3, <1>4, Left \in SUBSET Nodes DEF Acyclic
<1>6. deps[n] \subseteq completed \cup blocked
  BY <1>2, <1>4, <1>5
<1>7. Actionable(n)
  BY <1>5, <1>6 DEF Actionable, HasBlockedDep, DepsCompleted
<1> QED  BY <1>1, <1>5, <1>7

(* A run returns with every node started.                                 *)
LEMMA ReturnKeeps ==
  ASSUME IInv, Return
  PROVE  IInv'
<1> USE DEF IInv, Return, Settled, AtEndOfPass, node, sets
<1>1. TypeOK'
  BY EngineAssumption, HandleType, BlankType, Bounds DEF TypeOK, Status, Final, Location, TaskEnd
<1>2. Partition'
  BY DEF TypeOK, Partition, InFlight, Launching
<1>3. Statuses'
  BY DEF TypeOK, Partition, Statuses, InFlight, Launching
<1>4. Dependencies'
  BY DEF TypeOK, Partition, Dependencies, Statuses, InFlight, Launching
<1>5. Tasks'
  BY DEF TypeOK, Partition, Tasks, InFlight, Launching, TaskEnd
<1>6. Control'
  BY DEF TypeOK, Control
<1>7. Leftovers'
  BY SettledMeansStarted DEF Leftovers
<1> QED  BY <1>1, <1>2, <1>3, <1>4, <1>5, <1>6, <1>7 DEF IInv

(* The batch holds tasks that ended.                                      *)
LEMMA WakeKeeps ==
  ASSUME IInv, Wake
  PROVE  IInv'
<1> USE DEF IInv, Wake, Ended, node, sets
<1>1. TypeOK'
  BY EngineAssumption, HandleType, BlankType, Bounds DEF TypeOK, Status, Final, Location, TaskEnd
<1>2. Partition'
  BY DEF TypeOK, Partition, InFlight, Launching
<1>3. Statuses'
  BY DEF TypeOK, Partition, Statuses, InFlight, Launching
<1>4. Dependencies'
  BY DEF TypeOK, Partition, Dependencies, Statuses, InFlight, Launching
<1>5. Tasks'
  BY DEF TypeOK, Partition, Tasks, InFlight, Launching, TaskEnd
<1>6. Control'
  BY DEF TypeOK, Control
<1>7. Leftovers'
  BY DEF TypeOK, Leftovers, Fresh
<1> QED  BY <1>1, <1>2, <1>3, <1>4, <1>5, <1>6, <1>7 DEF IInv

(* A task that ended well moves its node to completed.                    *)
LEMMA CompleteKeeps ==
  ASSUME IInv, NEW n \in Nodes, Complete(n)
  PROVE  IInv'
<1> USE DEF IInv, Complete, Take, node, sets
<1>1. TypeOK'
  BY EngineAssumption, HandleType, BlankType, Bounds DEF TypeOK, Status, Final, Location, TaskEnd
<1>2. Partition'
  BY DEF TypeOK, Partition, InFlight, Launching
<1>3. Statuses'
  BY DEF TypeOK, Partition, Statuses, InFlight, Launching
<1>4. Dependencies'
  BY DEF TypeOK, Partition, Dependencies, Statuses, InFlight, Launching
<1>5. Tasks'
  BY DEF TypeOK, Partition, Tasks, InFlight, Launching, TaskEnd
<1>6. Control'
  BY DEF TypeOK, Control
<1>7. Leftovers'
  BY DEF TypeOK, Leftovers, Fresh
<1> QED  BY <1>1, <1>2, <1>3, <1>4, <1>5, <1>6, <1>7 DEF IInv

(* A task that raised moves its node to blocked.                          *)
LEMMA FailKeeps ==
  ASSUME IInv, NEW n \in Nodes, Fail(n)
  PROVE  IInv'
<1> USE DEF IInv, Fail, Take, AfterFailure, node, sets
<1>1. TypeOK'
  BY EngineAssumption, HandleType, BlankType, Bounds DEF TypeOK, Status, Final, Location, TaskEnd
<1>2. Partition'
  BY DEF TypeOK, Partition, InFlight, Launching
<1>3. Statuses'
  BY DEF TypeOK, Partition, Statuses, InFlight, Launching
<1>4. Dependencies'
  BY DEF TypeOK, Partition, Dependencies, Statuses, InFlight, Launching
<1>5. Tasks'
  BY DEF TypeOK, Partition, Tasks, InFlight, Launching, TaskEnd
<1>6. Control'
  BY DEF TypeOK, Control
<1>7. Leftovers'
  BY DEF TypeOK, Leftovers, Fresh
<1> QED  BY <1>1, <1>2, <1>3, <1>4, <1>5, <1>6, <1>7 DEF IInv

(* A CancelledError leaves run(), and a node in no set.                   *)
LEMMA RaiseKeeps ==
  ASSUME IInv, NEW n \in Nodes, Raise(n)
  PROVE  IInv'
<1> USE DEF IInv, Raise, Take, node, sets
<1>1. TypeOK'
  BY EngineAssumption, HandleType, BlankType, Bounds DEF TypeOK, Status, Final, Location, TaskEnd
<1>2. Partition'
  BY DEF TypeOK, Partition, InFlight, Launching
<1>3. Statuses'
  BY DEF TypeOK, Partition, Statuses, InFlight, Launching
<1>4. Dependencies'
  BY DEF TypeOK, Partition, Dependencies, Statuses, InFlight, Launching
<1>5. Tasks'
  BY DEF TypeOK, Partition, Tasks, InFlight, Launching, TaskEnd
<1>6. Control'
  BY DEF TypeOK, Control
<1>7. Leftovers'
  BY DEF TypeOK, Leftovers, Fresh
<1> QED  BY <1>1, <1>2, <1>3, <1>4, <1>5, <1>6, <1>7 DEF IInv

(* The batch is processed.                                                *)
LEMMA EndBatchKeeps ==
  ASSUME IInv, EndBatch
  PROVE  IInv'
<1> USE DEF IInv, EndBatch, BeginPass, node, sets
<1>1. TypeOK'
  BY EngineAssumption, HandleType, BlankType, Bounds DEF TypeOK, Status, Final, Location, TaskEnd
<1>2. Partition'
  BY DEF TypeOK, Partition, InFlight, Launching
<1>3. Statuses'
  BY DEF TypeOK, Partition, Statuses, InFlight, Launching
<1>4. Dependencies'
  BY DEF TypeOK, Partition, Dependencies, Statuses, InFlight, Launching
<1>5. Tasks'
  BY DEF TypeOK, Partition, Tasks, InFlight, Launching, TaskEnd
<1>6. Control'
  BY DEF TypeOK, Control
<1>7. Leftovers'
  BY DEF TypeOK, Leftovers, Fresh
<1> QED  BY <1>1, <1>2, <1>3, <1>4, <1>5, <1>6, <1>7 DEF IInv

(* Only a fail_fast engine aborts.                                        *)
LEMMA AbortKeeps ==
  ASSUME IInv, Abort
  PROVE  IInv'
<1> USE DEF IInv, Abort, node, sets
<1>1. TypeOK'
  BY EngineAssumption, HandleType, BlankType, Bounds DEF TypeOK, Status, Final, Location, TaskEnd
<1>2. Partition'
  BY DEF TypeOK, Partition, InFlight, Launching
<1>3. Statuses'
  BY DEF TypeOK, Partition, Statuses, InFlight, Launching
<1>4. Dependencies'
  BY DEF TypeOK, Partition, Dependencies, Statuses, InFlight, Launching
<1>5. Tasks'
  BY DEF TypeOK, Partition, Tasks, InFlight, Launching, TaskEnd
<1>6. Control'
  BY DEF TypeOK, Control
<1>7. Leftovers'
  BY DEF TypeOK, Leftovers, Fresh
<1> QED  BY <1>1, <1>2, <1>3, <1>4, <1>5, <1>6, <1>7 DEF IInv

(* The abort decides every node that was left without a final status.     *)
LEMMA ReapKeeps ==
  ASSUME IInv, Reap
  PROVE  IInv'
<1> USE DEF IInv, Reap, AllGathered, Unfinished, node, sets
<1>1. TypeOK'
  BY EngineAssumption, HandleType, BlankType, Bounds DEF TypeOK, Status, Final, Location, TaskEnd
<1>2. Partition'
  BY DEF TypeOK, Partition, Statuses, InFlight, Launching
<1>3. Statuses'
  BY DEF TypeOK, Partition, Statuses, InFlight, Launching
<1>4. Dependencies'
  BY DEF TypeOK, Control, Partition, Dependencies, Statuses, InFlight, Launching
<1>5. Tasks'
  BY DEF TypeOK, Partition, Tasks, InFlight, Launching, TaskEnd
<1>6. Control'
  BY DEF TypeOK, Control
<1>7. Leftovers'
  <2>1. FailFast
    BY DEF Control
  <2>2. run <= 1 => Nodes \ started \subseteq Unfinished
    BY DEF Leftovers
  <2>3. run <= 1 => started' = Nodes
    BY <2>2 DEF TypeOK
  <2> QED
    BY <2>1, <2>3 DEF TypeOK, Leftovers, Fresh
<1> QED  BY <1>1, <1>2, <1>3, <1>4, <1>5, <1>6, <1>7 DEF IInv

(* An executor that ends is still in `running`.                           *)
LEMMA FinishKeeps ==
  ASSUME IInv, NEW n \in Nodes, Finish(n)
  PROVE  IInv'
<1> USE DEF IInv, Finish, EndsWith, node, sets
<1>1. TypeOK'
  BY EngineAssumption, HandleType, BlankType, Bounds DEF TypeOK, Status, Final, Location, TaskEnd
<1>2. Partition'
  BY DEF TypeOK, Partition, InFlight, Launching
<1>3. Statuses'
  BY DEF TypeOK, Partition, Statuses, InFlight, Launching
<1>4. Dependencies'
  BY DEF TypeOK, Partition, Dependencies, Statuses, InFlight, Launching
<1>5. Tasks'
  BY EngineAssumption DEF TypeOK, Partition, Tasks, InFlight, Launching, TaskEnd
<1>6. Control'
  BY DEF TypeOK, Control, Actionable, HasBlockedDep, DepsCompleted
<1>7. Leftovers'
  BY DEF TypeOK, Leftovers, Fresh
<1> QED  BY <1>1, <1>2, <1>3, <1>4, <1>5, <1>6, <1>7 DEF IInv

LEMMA StutterKeeps == IInv /\ UNCHANGED vars => IInv'
BY DEF IInv, TypeOK, Partition, InFlight, Launching, Statuses, Dependencies, Tasks,
       Control, Actionable, HasBlockedDep, DepsCompleted, Leftovers, Fresh,
       vars, node, sets

LEMMA NextKeeps == IInv /\ [Next]_vars => IInv'
<1> SUFFICES ASSUME IInv, Next PROVE IInv'
  BY StutterKeeps
<1>1. CASE Start  BY <1>1, StartKeeps
<1>2. ASSUME NEW n \in Nodes, Schedule(n) PROVE IInv'
  BY <1>2, SkipKeeps, LaunchKeeps, CreateTaskKeeps DEF Schedule
<1>3. ASSUME NEW n \in Nodes, Process(n) PROVE IInv'
  BY <1>3, CompleteKeeps, FailKeeps, RaiseKeeps DEF Process
<1>4. CASE NextPass  BY <1>4, NextPassKeeps
<1>5. CASE Wait      BY <1>5, WaitKeeps
<1>6. CASE Return    BY <1>6, ReturnKeeps
<1>7. CASE Wake      BY <1>7, WakeKeeps
<1>8. CASE EndBatch  BY <1>8, EndBatchKeeps
<1>9. CASE Abort     BY <1>9, AbortKeeps
<1>10. CASE Reap     BY <1>10, ReapKeeps
<1>11. ASSUME NEW n \in Nodes, Finish(n) PROVE IInv'
  BY <1>11, FinishKeeps
<1>12. CASE Terminated  BY <1>12, StutterKeeps DEF Terminated
<1> QED
  BY <1>1, <1>2, <1>3, <1>4, <1>5, <1>6, <1>7, <1>8, <1>9, <1>10, <1>11, <1>12
  DEF Next, EngineStep

(* The inductive invariant holds of every behaviour of the engine.         *)
THEOREM Invariance == Spec => []IInv
<1>1. Init => IInv  BY InitIInv
<1>2. IInv /\ [Next]_vars => IInv'  BY NextKeeps
<1> QED  BY <1>1, <1>2, PTL DEF Spec

-----------------------------------------------------------------------------
(* The variables always have their types.                                  *)
THEOREM TypeCorrect == Spec => []TypeOK
<1>1. IInv => TypeOK  BY DEF IInv
<1> QED  BY <1>1, Invariance, PTL

(* An executor is given the outputs of this run, of dependencies that all  *)
(* completed in it.                                                        *)
THEOREM ContextIsFresh == Spec => []FreshContext
<1>1. IInv => FreshContext  BY DEF IInv, Tasks, FreshContext
<1> QED  BY <1>1, Invariance, PTL

(* The engine never sleeps while a node could be launched or skipped.      *)
THEOREM SleepsQuiescent == Spec => []Quiescent
<1>1. IInv => Quiescent  BY DEF IInv, Control, Quiescent
<1> QED  BY <1>1, Invariance, PTL

(* No executor outlives a run that returned.                               *)
THEOREM LeavesNoOrphan == Spec => []NoOrphan
<1>1. IInv => NoOrphan  BY DEF IInv, Control, Tasks, NoOrphan
<1> QED  BY <1>1, Invariance, PTL

(* A run that returns has decided every node, when the engine does not     *)
(* abort or the DAG is fresh.                                              *)
THEOREM NothingIsLost ==
  ASSUME ~FailFast \/ MaxRuns <= 1
  PROVE  Spec => []NothingLost
<1>1. ASSUME IInv, pc = "returned"
      PROVE  \A n \in Nodes : n \in started /\ status[n] \in Final
  <2>1. started = Nodes
    BY <1>1, EngineAssumption DEF IInv, TypeOK, Leftovers, Fresh
  <2>2. started \subseteq completed \cup blocked
    BY <1>1 DEF IInv, Partition, InFlight, Launching, Control
  <2> QED
    BY <1>1, <2>1, <2>2 DEF IInv, Statuses, Final
<1>2. IInv => NothingLost  BY <1>1 DEF NothingLost
<1> QED  BY <1>2, Invariance, PTL

-----------------------------------------------------------------------------
\* A node that was started for no executor was skipped.
SkippedOnly == \A n \in started \ Launching : task[n] = "none" => status[n] = "skipped"

LEMMA NextSkippedOnly == IInv /\ SkippedOnly /\ [Next]_vars => SkippedOnly'
<1> SUFFICES ASSUME IInv, SkippedOnly, [Next]_vars PROVE SkippedOnly'
  OBVIOUS
<1> USE DEF IInv, TypeOK, SkippedOnly, Launching, node, sets
<1>1. CASE UNCHANGED vars \/ Terminated
  BY <1>1 DEF Terminated, vars
<1>2. CASE Start
  BY <1>2 DEF Start, BeginPass
<1>3. ASSUME NEW n \in Nodes, Schedule(n) PROVE SkippedOnly'
  BY <1>3 DEF Schedule, Skip, Launch, CreateTask, At, Partition
<1>4. ASSUME NEW n \in Nodes, Process(n) PROVE SkippedOnly'
  BY <1>4 DEF Process, Complete, Fail, Raise, Take, AfterFailure, TaskEnd
<1>5. CASE NextPass \/ Wait \/ Return \/ Wake \/ EndBatch \/ Abort
  BY <1>5 DEF NextPass, Wait, Return, Wake, EndBatch, Abort, BeginPass, AtEndOfPass, Settled
<1>6. CASE Reap
  BY <1>6 DEF Reap, Unfinished
<1>7. ASSUME NEW n \in Nodes, Finish(n) PROVE SkippedOnly'
  BY <1>7, EngineAssumption DEF Finish, EndsWith
<1> QED
  BY <1>1, <1>2, <1>3, <1>4, <1>5, <1>6, <1>7 DEF Next, EngineStep

(* A node that a returned run created no executor for is returned skipped, *)
(* when the engine does not abort or the DAG is fresh.                     *)
THEOREM RestIsSkipped ==
  ASSUME ~FailFast \/ MaxRuns <= 1
  PROVE  Spec => []RestSkipped
<1>1. Init => SkippedOnly
  BY DEF Init, SkippedOnly
<1>2. IInv /\ SkippedOnly => RestSkipped
  <2> SUFFICES ASSUME IInv, SkippedOnly, pc = "returned" PROVE RestSkipped
    BY DEF RestSkipped
  <2>1. started = Nodes
    BY EngineAssumption DEF IInv, TypeOK, Leftovers, Fresh
  <2> QED  BY <2>1 DEF SkippedOnly, Launching, RestSkipped
<1> QED  BY <1>1, <1>2, NextSkippedOnly, Invariance, PTL DEF Spec

-----------------------------------------------------------------------------
(* A run decides a node once.                                              *)
THEOREM DecidesOnce == Spec => FinalStable
<1> DEFINE Stable == run' = run =>
             \A n \in Nodes : Decided(n) => Decided(n)' /\ status'[n] = status[n]
<1>1. ASSUME IInv, Next PROVE Stable
  <2> SUFFICES ASSUME run' = run, NEW n \in Nodes, Decided(n)
               PROVE  Decided(n)' /\ status'[n] = status[n]
    OBVIOUS
  <2> USE <1>1 DEF IInv, Decided, node, sets
  <2>0. run + 1 # run  BY EngineAssumption DEF TypeOK
  <2>1. CASE Start  BY <2>0, <2>1 DEF Start
  <2>2. ASSUME NEW m \in Nodes, Schedule(m)
        PROVE  Decided(n)' /\ status'[n] = status[n]
    BY <2>2 DEF Schedule, Skip, Launch, CreateTask, At, Actionable, TypeOK, Partition
  <2>3. ASSUME NEW m \in Nodes, Process(m)
        PROVE  Decided(n)' /\ status'[n] = status[n]
    BY <2>3 DEF Process, Complete, Fail, Raise, Take, TypeOK
  <2>4. CASE Reap
    BY <2>4 DEF Reap, Unfinished, Statuses, TypeOK
  <2>5. CASE NextPass \/ Wait \/ Return \/ Wake \/ EndBatch \/ Abort
    BY <2>5 DEF NextPass, Wait, Return, Wake, EndBatch, Abort, BeginPass
  <2>6. CASE (\E m \in Nodes : Finish(m)) \/ Terminated
    BY <2>6 DEF Finish, Terminated, vars
  <2> QED
    BY <1>1, <2>1, <2>2, <2>3, <2>4, <2>5, <2>6 DEF Next, EngineStep
<1>2. IInv /\ [Next]_vars => [Stable]_vars  BY <1>1
<1> QED  BY <1>2, Invariance, PTL DEF Spec, FinalStable

-----------------------------------------------------------------------------
(* The ancestors of a node are its dependencies and their ancestors.       *)
LEMMA AncestorStep ==
  ASSUME deps \in [Nodes -> SUBSET Nodes], NEW n \in Nodes, NEW d \in deps[n]
  PROVE  d \in Ancestors(n) /\ Ancestors(d) \subseteq Ancestors(n)
BY DEF Ancestors, Closed

(* A node whose dependencies, and theirs in turn, lie in a set that is     *)
(* closed under taking dependencies has all its ancestors in it.           *)
LEMMA AncestorsWithin ==
  ASSUME NEW n \in Nodes, NEW S \in SUBSET Nodes, Closed(S, n)
  PROVE  Ancestors(n) \subseteq S
BY DEF Ancestors

(* A node is skipped exactly when something it depends on failed.          *)
THEOREM SkipsExactly ==
  ASSUME ~FailFast
  PROVE  Spec => []SkipExact
<1>1. ASSUME IInv, pc = "returned", NEW n \in Nodes
      PROVE  status[n] = "skipped" <=> \E m \in Ancestors(n) : status[m] = "failed"
  <2> USE <1>1 DEF IInv
  <2>1. Nodes = completed \cup blocked
    BY DEF TypeOK, Partition, InFlight, Launching, Control, Leftovers, Fresh
  <2>2. Acyclic(deps) /\ deps \in [Nodes -> SUBSET Nodes]
    BY EngineAssumption DEF TypeOK
  <2>3. ASSUME NEW m \in Ancestors(n), status[m] = "failed", status[n] # "skipped"
        PROVE  FALSE
    <3>1. deps[n] \subseteq completed
      BY <2>1, <2>3 DEF Statuses, Dependencies
    <3>2. Closed(completed, n)
      BY <3>1 DEF Dependencies, Closed, InFlight
    <3>3. m \in completed
      BY <3>2, <2>3, AncestorsWithin DEF TypeOK
    <3> QED  BY <3>3, <2>3 DEF Statuses
  <2>4. \A x \in Nodes : status[x] = "skipped" => \E m \in Ancestors(x) : status[m] = "failed"
    <3> DEFINE Groundless == {x \in Nodes : /\ status[x] = "skipped"
                                            /\ \A m \in Ancestors(x) : status[m] # "failed"}
    <3>1. SUFFICES ASSUME Groundless # {} PROVE FALSE
      OBVIOUS
    <3>2. PICK x \in Groundless : deps[x] \cap Groundless = {}
      BY <2>2, <3>1, Groundless \in SUBSET Nodes DEF Acyclic
    <3>3. x \in blocked
      BY <2>1, <3>2 DEF Statuses
    <3>4. PICK d \in deps[x] : d \in blocked
      BY <3>2, <3>3 DEF Dependencies
    <3>5. d \in Nodes /\ d \in Ancestors(x) /\ Ancestors(d) \subseteq Ancestors(x)
      BY <2>2, <3>4, AncestorStep
    <3>6. status[d] = "skipped"
      BY <3>2, <3>4, <3>5 DEF Statuses
    <3>7. \A m \in Ancestors(d) : status[m] # "failed"
      BY <3>2, <3>5
    <3> QED  BY <3>2, <3>4, <3>5, <3>6, <3>7
  <2> QED  BY <2>3, <2>4
<1>2. IInv => SkipExact  BY <1>1 DEF SkipExact
<1> QED  BY <1>2, Invariance, PTL

-----------------------------------------------------------------------------
\* The tracker knows the status of every started node.
Shown ==
  /\ view.done <=> pc = "returned"
  /\ \A n \in started : view.status[n] = status[n]

(* What showing an event changes.                                          *)
LEMMA HandleEffect ==
  ASSUME NEW v \in Views, NEW n \in Nodes,
         NEW t \in {"node_running", "node_completed", "node_failed", "node_skipped"}
  PROVE  /\ Handle(v, NodeEvent(t, n)).done = v.done
         /\ Handle(v, NodeEvent(t, n)).status = [v.status EXCEPT ![n] = ShownAs(t)]
<1>1. Handle(v, NodeEvent(t, n)) = [v EXCEPT !.status[n] = ShownAs(t)]
  BY DEF Handle, NodeEvent
<1> QED  BY <1>1 DEF Views

(* Without fail_fast the tracker ends up showing what the nodes are.       *)
THEOREM TrackerAgrees ==
  ASSUME ~FailFast
  PROVE  Spec => []ViewAgrees
<1>1. Init => Shown
  BY DEF Init, Shown, BlankView
<1>2. IInv /\ Shown /\ [Next]_vars => Shown'
  <2> SUFFICES ASSUME IInv, Shown, [Next]_vars PROVE Shown'
    OBVIOUS
  <2> USE DEF IInv, TypeOK, Shown, node, sets
  <2>1. CASE UNCHANGED vars
    BY <2>1 DEF vars
  <2>2. CASE Start
    <3>1. view'.done = FALSE
      BY <2>2 DEF Start, BeginPass, Handle, DagStarted, BlankView
    <3> QED  BY <2>2, <3>1 DEF Start, BeginPass
  <2>0. ASSUME NEW n \in Nodes, NEW st,
               view'.done = view.done /\ view'.status = [view.status EXCEPT ![n] = st],
               status' = [status EXCEPT ![n] = st], started' \subseteq started \cup {n},
               pc' # "returned", pc # "returned"
        PROVE  Shown'
    BY <2>0 DEF Views
  <2>3. ASSUME NEW n \in Nodes, Skip(n) \/ Launch(n) PROVE Shown'
    <3>1. CASE Skip(n)
      <4>1. view' = Handle(view, NodeEvent("node_skipped", n))
        BY <3>1 DEF Skip
      <4>2. view'.done = view.done /\ view'.status = [view.status EXCEPT ![n] = "skipped"]
        BY <4>1, HandleEffect DEF ShownAs
      <4> QED  BY <3>1, <4>2, <2>0 DEF Skip, At
    <3>2. CASE Launch(n)
      <4>1. view' = Handle(view, NodeEvent("node_running", n))
        BY <3>2 DEF Launch
      <4>2. view'.done = view.done /\ view'.status = [view.status EXCEPT ![n] = "running"]
        BY <4>1, HandleEffect DEF ShownAs
      <4> QED  BY <3>2, <4>2, <2>0 DEF Launch, At
    <3> QED  BY <2>3, <3>1, <3>2
  <2>4. ASSUME NEW n \in Nodes, Complete(n) \/ Fail(n) PROVE Shown'
    <3>1. CASE Complete(n)
      <4>1. view' = Handle(view, NodeEvent("node_completed", n))
        BY <3>1 DEF Complete
      <4>2. view'.done = view.done /\ view'.status = [view.status EXCEPT ![n] = "completed"]
        BY <4>1, HandleEffect DEF ShownAs
      <4> QED  BY <3>1, <4>2, <2>0 DEF Complete, Take
    <3>2. CASE Fail(n)
      <4>1. view' = Handle(view, NodeEvent("node_failed", n))
        BY <3>2 DEF Fail
      <4>2. view'.done = view.done /\ view'.status = [view.status EXCEPT ![n] = "failed"]
        BY <4>1, HandleEffect DEF ShownAs
      <4> QED  BY <3>2, <4>2, <2>0 DEF Fail, Take, AfterFailure
    <3> QED  BY <2>4, <3>1, <3>2
  <2>5. CASE Return
    <3>1. view' = Handle(view, DagCompleted) /\ pc' = "returned"
      BY <2>5 DEF Return
    <3>2. view'.done /\ view'.status = view.status
      BY <3>1 DEF Handle, DagCompleted, Views
    <3> QED  BY <2>5, <3>1, <3>2 DEF Return
  <2>6. CASE Reap
    BY <2>6 DEF Reap, Control
  <2>7. CASE (\E n \in Nodes : CreateTask(n) \/ Raise(n) \/ Finish(n)) \/ Terminated
    BY <2>7 DEF CreateTask, Raise, Take, Finish, Terminated, vars
  <2>8. CASE NextPass \/ Wait \/ Wake \/ EndBatch \/ Abort
    BY <2>8 DEF NextPass, Wait, Wake, EndBatch, Abort, BeginPass, Settled, AtEndOfPass
  <2> QED
    BY <2>1, <2>2, <2>3, <2>4, <2>5, <2>6, <2>7, <2>8
    DEF Next, EngineStep, Schedule, Process
<1>3. IInv /\ Shown => ViewAgrees
  BY DEF IInv, TypeOK, Leftovers, Fresh, Shown, ViewAgrees
<1> QED  BY <1>1, <1>2, <1>3, Invariance, PTL DEF Spec

-----------------------------------------------------------------------------
(***************************************************************************)
(* The engine implements RunContract (safety): every step of the engine is *)
(* a step of the contract or leaves the contract's state as it is.         *)
(*                                                                         *)
(* Two facts beyond IInv are needed: no executor ends with CancelledError  *)
(* before an abort, so run() never raises, and an engine with fail_fast is *)
(* past its schedule once a node of the run has failed.                    *)
(***************************************************************************)
PastSchedule == {"abort", "gather", "returned"}
FailedNow    == \E n \in blocked : status[n] = "failed"

Unraised ==
  /\ pc # "raised"
  /\ \A n \in Nodes : task[n] = "cancelled" => pc \in {"gather", "returned"}
  /\ FailFast /\ FailedNow => pc \in PastSchedule
  /\ pc \in {"abort", "gather"} => FailedNow

\* The engine under which the contract is kept.
Orderly == Outcomes \subseteq {"ok", "err"} /\ (~FailFast \/ MaxRuns <= 1)

RInv == IInv /\ Unraised

LEMMA InitRInv == Init => RInv
BY InitIInv DEF Init, RInv, Unraised, FailedNow

(* Every action keeps the two facts.                                       *)
LEMMA NextRInv ==
  ASSUME Orderly
  PROVE  RInv /\ [Next]_vars => RInv'
<1> SUFFICES ASSUME RInv, [Next]_vars PROVE Unraised'
  BY NextKeeps DEF RInv
<1> USE Orderly DEF RInv, IInv, node, sets
<1>1. CASE UNCHANGED vars
  BY <1>1 DEF vars, Unraised, FailedNow
<1>2. CASE Start
  BY <1>2 DEF Start, BeginPass, Unraised, FailedNow
<1>3. ASSUME NEW n \in Nodes, Schedule(n) PROVE Unraised'
  BY <1>3 DEF Schedule, Skip, Launch, CreateTask, At, Actionable, HasBlockedDep,
     TypeOK, Partition, Unraised, FailedNow, PastSchedule
<1>4. ASSUME NEW n \in Nodes, Process(n) PROVE Unraised'
  BY <1>4 DEF Process, Complete, Fail, Raise, Take, AfterFailure, TypeOK, Partition,
     Unraised, FailedNow, PastSchedule
<1>5. CASE NextPass \/ Wait \/ Return \/ Wake \/ EndBatch \/ Abort
  BY <1>5 DEF NextPass, Wait, Return, Wake, EndBatch, Abort, BeginPass, AtEndOfPass,
     Settled, Unraised, FailedNow, PastSchedule
<1>6. CASE Reap
  BY <1>6 DEF Reap, Unfinished, TypeOK, Unraised, FailedNow, PastSchedule
<1>7. ASSUME NEW n \in Nodes, Finish(n) PROVE Unraised'
  BY <1>7 DEF Finish, EndsWith, Cancelling, Orderly, TypeOK, Unraised, FailedNow
<1>8. CASE Terminated
  BY <1>1, <1>8 DEF Terminated
<1> QED
  BY <1>1, <1>2, <1>3, <1>4, <1>5, <1>6, <1>7, <1>8 DEF Next, EngineStep

-----------------------------------------------------------------------------
\* The abstract state of the nodes.
AbsState == [n \in Nodes |-> IF n \in started THEN status[n] ELSE "pending"]

LEMMA InitRefines == Init => Contract!Init
BY DEF Init, Contract!Init

(* Each step of the engine, seen through the mapping.                      *)
LEMMA StepRefines ==
  ASSUME Orderly
  PROVE  RInv /\ RInv' /\ [Next]_vars => [Contract!Next]_(Contract!vars)
<1> SUFFICES ASSUME RInv, RInv', [Next]_vars PROVE [Contract!Next]_(Contract!vars)
  OBVIOUS
<1> USE Orderly DEF RInv, IInv, node, sets
<1>a. deps \in [Nodes -> SUBSET Nodes]
  BY EngineAssumption DEF TypeOK
<1>b. \A n \in Nodes : pc = "visit" => (FailFast => status[n] # "failed" \/ n \notin started)
  BY DEF Unraised, FailedNow, PastSchedule, Partition, Statuses, InFlight, Launching
<1>1. CASE UNCHANGED vars
  BY <1>1 DEF vars, Contract!vars
<1>2. CASE Start
  BY <1>2 DEF Start, BeginPass, Contract!Next, Contract!Start
<1>3. ASSUME NEW n \in Nodes, Skip(n) PROVE Contract!Skip(n)
  <2>1. PICK d \in deps[n] : d \in blocked
    BY <1>3 DEF Skip, HasBlockedDep
  <2>2. d \in Nodes /\ d \in started /\ status[d] \in {"failed", "skipped"}
    BY <1>a, <2>1 DEF Partition, Statuses
  <2> QED
    BY <1>b, <1>3, <2>1, <2>2
    DEF Skip, At, Actionable, TypeOK, Contract!Skip, Contract!Move, Contract!Aborting,
        Contract!Failed, Contract!Blocked
<1>4. ASSUME NEW n \in Nodes, Launch(n) PROVE Contract!Begin(n)
  <2>1. \A d \in deps[n] : d \in Nodes /\ d \in started /\ status[d] = "completed"
    BY <1>a, <1>4 DEF Launch, At, Actionable, DepsCompleted, Partition, Statuses
  <2> QED
    BY <1>b, <1>4, <2>1
    DEF Launch, At, Actionable, TypeOK, Contract!Begin, Contract!Move,
        Contract!Aborting, Contract!Failed
<1>5. ASSUME NEW n \in Nodes, CreateTask(n) PROVE UNCHANGED Contract!vars
  BY <1>5 DEF CreateTask, Contract!vars
<1>6. ASSUME NEW n \in Nodes, Complete(n) \/ Fail(n) PROVE Contract!End(n)
  <2>1. n \in started /\ status[n] = "running" /\ pc = "process"
    BY <1>6 DEF Complete, Fail, Take, TypeOK, Partition, Statuses, InFlight
  <2>2. \A m \in Nodes : FailFast => status[m] # "failed" \/ m \notin started
    BY <2>1 DEF Unraised, FailedNow, PastSchedule, Partition, Statuses, InFlight, Launching
  <2>3. status'[n] \in {"completed", "failed"}
    BY <1>6 DEF Complete, Fail, TypeOK
  <2>4. status' = [status EXCEPT ![n] = status'[n]] /\ UNCHANGED <<deps, started>>
    BY <1>6 DEF Complete, Fail, TypeOK
  <2>5. pc' \notin {"idle", "returned"}
    BY <1>6, <2>1 DEF Complete, Fail, AfterFailure
  <2>6. AbsState' = [AbsState EXCEPT ![n] = status'[n]] /\ AbsState[n] = "running"
    <3> DEFINE s == status'[n]
    <3>1. AbsState[n] = "running"
      BY <2>1 DEF AbsState
    <3>2. ASSUME NEW m \in Nodes
          PROVE  AbsState'[m] = IF m = n THEN s ELSE AbsState[m]
      <4>1. status'[m] = IF m = n THEN s ELSE status[m]
        BY <2>4 DEF TypeOK
      <4> QED  BY <4>1, <2>1, <2>4 DEF AbsState
    <3> HIDE DEF s
    <3>3. AbsState' = [AbsState EXCEPT ![n] = s]
      BY <3>2 DEF AbsState
    <3> QED  BY <3>1, <3>3 DEF s
  <2>7. ASSUME NEW r \in {"completed", "failed"}, r = status'[n]
        PROVE  Contract!Move(n, "running", r)
    BY <2>1, <2>2, <2>4, <2>5, <2>6, <2>7
    DEF AbsState, Contract!Move, Contract!Aborting, Contract!Failed
  <2> QED  BY <2>3, <2>7 DEF Contract!End
<1>7. ASSUME NEW n \in Nodes, Raise(n) PROVE FALSE
  BY <1>7 DEF Raise, Unraised
<1>8. CASE Return
  <2>1. started = Nodes /\ pc' = "returned" /\ pc = "visit"
    BY <1>8, EngineAssumption DEF Orderly, Return, Settled, AtEndOfPass, TypeOK, Leftovers, Fresh
  <2>2. \A n \in Nodes : status[n] \in {"completed", "failed", "skipped"}
    BY <1>8, <2>1 DEF Return, Partition, Statuses, InFlight, Launching
  <2> QED
    BY <1>b, <1>8, <2>1, <2>2
    DEF Return, Contract!Next, Contract!Advance, Contract!Return, Contract!Aborting,
        Contract!Failed, Contract!Decided
<1>9. CASE Reap
  <2>1. FailFast /\ started' = Nodes /\ pc = "gather" /\ pc' = "returned"
    BY <1>9, EngineAssumption DEF Orderly, Reap, Unraised, Control, TypeOK, Leftovers, Fresh
  <2>2. PICK f \in Nodes : f \in started /\ status[f] = "failed"
    BY <2>1 DEF Unraised, FailedNow, TypeOK, Partition
  <2>3. \A n \in Nodes : n \notin started => n \in Unfinished
    BY <1>9, <2>1 DEF Reap, TypeOK
  <2>4. \A n \in started : n \in Unfinished <=> status[n] \notin {"completed", "failed", "skipped"}
    BY DEF Unfinished, TypeOK, Status, Final
  <2> QED
    BY <1>9, <2>1, <2>2, <2>3, <2>4
    DEF Reap, TypeOK, Contract!Next, Contract!Advance, Contract!Abort,
        Contract!Aborting, Contract!Failed, Contract!Decided
<1>10. CASE NextPass \/ Wait \/ Wake \/ EndBatch \/ Abort
  BY <1>10 DEF NextPass, Wait, Wake, EndBatch, Abort, BeginPass, AtEndOfPass, Settled,
     Contract!vars
<1>11. CASE (\E n \in Nodes : Finish(n)) \/ Terminated
  BY <1>11 DEF Finish, Terminated, vars, Contract!vars
<1> QED
  BY <1>1, <1>2, <1>3, <1>4, <1>5, <1>6, <1>7, <1>8, <1>9, <1>10, <1>11
  DEF Next, EngineStep, Schedule, Process, Contract!Next, Contract!Advance

(* The engine keeps what run() promises: a node begins only when its       *)
(* dependencies have completed, is skipped only when one is blocked, ends  *)
(* once, and the run is over only when every node has been decided, or at  *)
(* once after a failure with fail_fast.                                    *)
THEOREM KeepsContractSafely ==
  ASSUME Orderly
  PROVE  Spec => Contract!Init /\ [][Contract!Next]_(Contract!vars)
<1>1. Init => RInv  BY InitRInv
<1>2. RInv /\ [Next]_vars => RInv'  BY NextRInv
<1>3. Init => Contract!Init  BY InitRefines
<1>4. RInv /\ RInv' /\ [Next]_vars => [Contract!Next]_(Contract!vars)  BY StepRefines
<1> QED  BY <1>1, <1>2, <1>3, <1>4, PTL DEF Spec
=============================================================================

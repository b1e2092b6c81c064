------------------------------- MODULE Engine -------------------------------
(***************************************************************************)
(* ExecutionEngine.run (omniord/core/engine.py): the coroutine that drives *)
(* a task DAG, and the asyncio tasks that run the nodes' executors.        *)
(*                                                                         *)
(* The engine is one process with a program counter; its actions are the   *)
(* stretches of code between two awaits at which another coroutine can     *)
(* run.  The executors are the other processes: here only their results    *)
(* matter (the Swarm module refines them).  A DAG can be run again on the  *)
(* same engine: run() builds fresh bookkeeping sets but finds the nodes as *)
(* the previous run left them.                                             *)
(*                                                                         *)
(* Nodes are numbered in the order of the dictionary dag.nodes.            *)
(***************************************************************************)
EXTENDS Progress, FiniteSets

CONSTANTS
  Graphs,      \* the dependency graphs considered, functions node -> set of nodes
  FailFast,    \* the engine's fail_fast flag
  MaxRuns,     \* bound: how many times the DAG is run
  Outcomes     \* how an executor may end of its own accord

\* Every nonempty set of nodes has one that depends on no other of the set.
Acyclic(g) ==
  \A S \in SUBSET Nodes : S # {} => \E n \in S : g[n] \cap S = {}

ASSUME EngineAssumption ==
  /\ N \in Nat
  /\ Graphs \subseteq {g \in [Nodes -> SUBSET Nodes] : Acyclic(g)}
  /\ FailFast \in BOOLEAN
  /\ MaxRuns \in Nat
  /\ Outcomes \subseteq {"ok", "err", "cancelled"}

VARIABLES
  deps,        \* dependencies of the nodes of the DAG, which validate() accepted
  status,      \* node.status
  out,         \* the run that assigned node.outputs, 0 for the default {}
  context,     \* what each executor was given: dependency -> the run of its outputs
  run,         \* how many times run() was entered
  completed, blocked, started,   \* the sets of the same name in run()
  running,     \* the nodes of the tasks in the dictionary `running`
  done,        \* the nodes of the tasks asyncio.wait returned, still to process
  task,        \* the asyncio task of each node in this run
  pc,          \* where the engine is
  pos,         \* schedule(): the first node the pass has not visited
  changed,     \* schedule(): the flag of the same name
  view         \* the progress tracker subscribed to the bus

sets  == <<completed, blocked, started, running, done>>
node  == <<status, out, context>>
vars  == <<deps, node, run, sets, task, pc, pos, changed, view>>

Final    == {"completed", "failed", "skipped"}
Status   == {"pending", "running"} \cup Final
TaskEnd  == {"ok", "err", "cancelled"}
Location == {"idle", "visit", "create", "wait", "process", "abort", "gather",
             "returned", "raised"}

TypeOK ==
  /\ deps \in Graphs
  /\ status \in [Nodes -> Status]
  /\ out \in [Nodes -> 0..MaxRuns]
  /\ context \in [Nodes -> [Nodes -> 0..MaxRuns]]
  /\ run \in 0..MaxRuns
  /\ completed \subseteq Nodes /\ blocked \subseteq Nodes /\ started \subseteq Nodes
  /\ running \subseteq started \ (completed \cup blocked) /\ done \subseteq running
  /\ task \in [Nodes -> {"none", "live"} \cup TaskEnd]
  /\ pc \in Location
  /\ pos \in 1..(N + 1)
  /\ pc = "create" => pos \in Nodes
  /\ changed \in BOOLEAN
  /\ view \in Views

NoContext == [d \in Nodes |-> 0]

Init ==
  /\ deps \in Graphs
  /\ status = [n \in Nodes |-> "pending"]
  /\ out = [n \in Nodes |-> 0]
  /\ context = [n \in Nodes |-> NoContext]
  /\ run = 0
  /\ completed = {} /\ blocked = {} /\ started = {} /\ running = {} /\ done = {}
  /\ task = [n \in Nodes |-> "none"]
  /\ pc = "idle"
  /\ pos = 1
  /\ changed = FALSE
  /\ view = BlankView

-----------------------------------------------------------------------------
(***************************************************************************)
(* Mutants: plausible mistakes in the definitions they are named after.    *)
(* Only the mutation runs listed in PROJECT.json use them.                 *)
(***************************************************************************)
\* `changed` is reset before the loop of schedule(), not at each pass.
BeginPass_KeepsChanged == pc' = "visit" /\ pos' = 1 /\ UNCHANGED changed

\* Only a failure blocks the dependents: skips do not cascade.
HasBlockedDep_OnlyFailed(n) == \E d \in deps[n] : status[d] = "failed"

\* A failure anywhere blocks every node that is left.
HasBlockedDep_Any(n) == blocked # {}

\* Completion is judged by the status a node carries, also from an old run.
DepsCompleted_ByStatus(n) == \A d \in deps[n] : status[d] = "completed"

\* A started node is looked at again.
Actionable_Again(n) == deps[n] \cap blocked # {} \/ deps[n] \subseteq completed

\* One pass is enough.
Settled_OnePass == pc = "visit" /\ \A m \in pos..N :
                     m \in started \/ ~(deps[m] \cap blocked # {} \/ deps[m] \subseteq completed)

\* The processed task is not popped from `running`.
Take_NoPop(n) == pc = "process" /\ n \in done /\ done' = done \ {n} /\ UNCHANGED running

\* _abort() does not wait for the tasks it cancels.
AllGathered_NoWait == TRUE

\* _abort() overrides failures and skips.
Unfinished_NotOk == {n \in Nodes : status[n] # "completed"}

-----------------------------------------------------------------------------
(***************************************************************************)
(* Entering run(): fresh sets, DAG_STARTED, and the first schedule().  The *)
(* nodes keep the status and outputs they have.  A run has a tracker of    *)
(* its own.                                                                *)
(***************************************************************************)
BeginPass == pc' = "visit" /\ pos' = 1 /\ changed' = FALSE

Start ==
  /\ pc \in {"idle", "returned"}
  /\ run < MaxRuns
  /\ run' = run + 1
  /\ completed' = {} /\ blocked' = {} /\ started' = {} /\ running' = {} /\ done' = {}
  /\ task' = [n \in Nodes |-> "none"]
  /\ view' = Handle(BlankView, DagStarted)
  /\ context' = [n \in Nodes |-> NoContext]
  /\ BeginPass
  /\ UNCHANGED <<deps, status, out>>

(***************************************************************************)
(* schedule(): passes over the nodes, in the order of the dictionary,      *)
(* until one changes nothing.  A pass suspends only where it publishes, so *)
(* it goes at once to the next node that it will skip or launch.           *)
(***************************************************************************)
HasBlockedDep(n) == deps[n] \cap blocked # {}
DepsCompleted(n) == deps[n] \subseteq completed

Actionable(n) == n \notin started /\ (HasBlockedDep(n) \/ DepsCompleted(n))

At(n) ==
  /\ pc = "visit"
  /\ n >= pos
  /\ Actionable(n)
  /\ \A m \in pos..(n - 1) : ~Actionable(m)

AtEndOfPass == pc = "visit" /\ \A m \in pos..N : ~Actionable(m)
Settled     == AtEndOfPass /\ ~changed

Skip(n) ==
  /\ At(n)
  /\ HasBlockedDep(n)
  /\ status' = [status EXCEPT ![n] = "skipped"]
  /\ started' = started \cup {n}
  /\ blocked' = blocked \cup {n}
  /\ view' = Handle(view, NodeEvent("node_skipped", n))
  /\ changed' = TRUE
  /\ pos' = n + 1
  /\ UNCHANGED <<deps, out, context, run, completed, running, done, task, pc>>

\* Up to the publication of NODE_RUNNING, which may suspend schedule().
Launch(n) ==
  /\ At(n)
  /\ ~HasBlockedDep(n)
  /\ status' = [status EXCEPT ![n] = "running"]
  /\ started' = started \cup {n}
  /\ view' = Handle(view, NodeEvent("node_running", n))
  /\ pc' = "create"
  /\ pos' = n
  /\ UNCHANGED <<deps, out, context, run, completed, blocked, running, done, task,
                 changed>>

\* The context is read from the dependencies' outputs and the task is created.
CreateTask(n) ==
  /\ pc = "create" /\ pos = n
  /\ context' = [context EXCEPT ![n] =
                   [d \in Nodes |-> IF d \in deps[n] THEN out[d] ELSE 0]]
  /\ task' = [task EXCEPT ![n] = "live"]
  /\ running' = running \cup {n}
  /\ changed' = TRUE
  /\ pos' = n + 1
  /\ pc' = "visit"
  /\ UNCHANGED <<deps, status, out, run, completed, blocked, started, done, view>>

NextPass ==
  /\ AtEndOfPass
  /\ changed
  /\ BeginPass
  /\ UNCHANGED <<deps, node, run, sets, task, view>>

(***************************************************************************)
(* The main loop: wait for a task to end, process every task that has      *)
(* ended by the time the engine resumes, in any order, and schedule again. *)
(***************************************************************************)
Wait ==
  /\ Settled
  /\ running # {}
  /\ pc' = "wait"
  /\ UNCHANGED <<deps, node, run, sets, task, pos, changed, view>>

Return ==
  /\ Settled
  /\ running = {}
  /\ pc' = "returned"
  /\ view' = Handle(view, DagCompleted)
  /\ UNCHANGED <<deps, node, run, sets, task, pos, changed>>

Ended == {n \in running : task[n] \in TaskEnd}

Wake ==
  /\ pc = "wait"
  /\ Ended # {}
  /\ done' = Ended
  /\ pc' = "process"
  /\ UNCHANGED <<deps, node, run, completed, blocked, started, running, task, pos,
                 changed, view>>

\* running.pop(task): one more task of the batch is taken.
Take(n) ==
  /\ pc = "process"
  /\ n \in done
  /\ done' = done \ {n}
  /\ running' = running \ {n}

Complete(n) ==
  /\ Take(n)
  /\ task[n] = "ok"
  /\ out' = [out EXCEPT ![n] = run]
  /\ status' = [status EXCEPT ![n] = "completed"]
  /\ completed' = completed \cup {n}
  /\ view' = Handle(view, NodeEvent("node_completed", n))
  /\ UNCHANGED <<deps, context, run, blocked, started, task, pc, pos, changed>>

\* Up to the publication of NODE_FAILED; with fail_fast the abort comes next.
AfterFailure == IF FailFast THEN "abort" ELSE "process"

Fail(n) ==
  /\ Take(n)
  /\ task[n] = "err"
  /\ status' = [status EXCEPT ![n] = "failed"]
  /\ blocked' = blocked \cup {n}
  /\ view' = Handle(view, NodeEvent("node_failed", n))
  /\ pc' = AfterFailure
  /\ UNCHANGED <<deps, out, context, run, completed, started, task, pos, changed>>

\* task.result() raises CancelledError, which `except Exception` lets through.
Raise(n) ==
  /\ Take(n)
  /\ task[n] = "cancelled"
  /\ pc' = "raised"
  /\ UNCHANGED <<deps, node, run, completed, blocked, started, task, pos, changed, view>>

EndBatch ==
  /\ pc = "process"
  /\ done = {}
  /\ BeginPass
  /\ UNCHANGED <<deps, node, run, sets, task, view>>

(***************************************************************************)
(* _abort(): cancel the tasks left in `running`, wait for them to end,     *)
(* then mark as skipped what has no final status, publishing DAG_COMPLETED *)
(* only.                                                                   *)
(***************************************************************************)
Abort ==
  /\ pc = "abort"
  /\ pc' = "gather"
  /\ UNCHANGED <<deps, node, run, sets, task, pos, changed, view>>

AllGathered == \A n \in running : task[n] \in TaskEnd

Unfinished == {n \in Nodes : status[n] \in {"pending", "running"}}

Reap ==
  /\ pc = "gather"
  /\ AllGathered
  /\ running' = {} /\ done' = {}
  /\ status' = [n \in Nodes |-> IF n \in Unfinished THEN "skipped" ELSE status[n]]
  /\ started' = started \cup Unfinished
  /\ blocked' = blocked \cup Unfinished
  /\ view' = Handle(view, DagCompleted)
  /\ pc' = "returned"
  /\ UNCHANGED <<deps, out, context, run, completed, task, pos, changed>>

-----------------------------------------------------------------------------
(***************************************************************************)
(* An executor ends: with outputs, with an exception, or with              *)
(* CancelledError, always possible once the engine has cancelled it.  A    *)
(* cancelled coroutine may also swallow the cancellation.                  *)
(***************************************************************************)
Cancelling == pc = "gather"

EndsWith(n, o) ==
  /\ task[n] = "live"
  /\ task' = [task EXCEPT ![n] = o]

Finish(n) ==
  /\ \E o \in Outcomes \cup (IF Cancelling THEN {"cancelled"} ELSE {}) : EndsWith(n, o)
  /\ UNCHANGED <<deps, node, run, sets, pc, pos, changed, view>>

Terminated == pc \in {"returned", "raised"} /\ UNCHANGED vars

Schedule(n) == Skip(n) \/ Launch(n) \/ CreateTask(n)
Process(n)  == Complete(n) \/ Fail(n) \/ Raise(n)

EngineStep ==
  \/ Start
  \/ \E n \in Nodes : Schedule(n) \/ Process(n)
  \/ NextPass \/ Wait \/ Return \/ Wake \/ EndBatch
  \/ Abort \/ Reap

Next == EngineStep \/ (\E n \in Nodes : Finish(n)) \/ Terminated

(***************************************************************************)
(* The event loop resumes a coroutine that can run, and an executor ends   *)
(* sooner or later (model calls and sandboxed runs have timeouts).         *)
(***************************************************************************)
Fairness ==
  /\ WF_vars(EngineStep)
  /\ \A n \in Nodes : WF_vars(Finish(n))

Spec == Init /\ [][Next]_vars /\ Fairness

-----------------------------------------------------------------------------
(***************************************************************************)
(* Properties.                                                             *)
(***************************************************************************)

(* An executor only ever exists when each dependency of its node completed *)
(* in this very run, and the context it was given holds the outputs of     *)
(* this run, not what an earlier run left in the nodes (engine.py:67-72).  *)
FreshContext ==
  \A n \in Nodes : task[n] # "none" =>
    \A d \in deps[n] : d \in completed /\ context[n][d] = run

(* When a run returns, every node has been decided: the schedule neither   *)
(* forgets a node nor waits for one that cannot come (engine.py:36, "return*)
(* the nodes with final state").                                           *)
NothingLost ==
  pc = "returned" => \A n \in Nodes : n \in started /\ status[n] \in Final

(* A node that a returned run created no executor for was skipped by that  *)
(* run, and is returned as skipped (engine.py:40, fail_fast "skips the rest *)
(* on the first failure"; engine.py:115, "mark everything unfinished as    *)
(* skipped").                                                              *)
RestSkipped ==
  pc = "returned" => \A n \in Nodes : task[n] = "none" => status[n] = "skipped"

(* The nodes that n depends on, directly or not: the least set that        *)
(* contains its dependencies and is closed under taking dependencies.      *)
Closed(S, n)  == deps[n] \subseteq S /\ \A x \in S : deps[x] \subseteq S
Ancestors(n)  == {m \in Nodes : \A S \in SUBSET Nodes : Closed(S, n) => m \in S}

(* Without fail_fast a failure takes down exactly what depends on it: in a *)
(* run that returned a node is skipped if and only if a node it depends on,*)
(* directly or not, failed (engine.py:38, "independent branches keep       *)
(* running").                                                              *)
SkipExact ==
  pc = "returned" =>
    \A n \in Nodes :
      status[n] = "skipped" <=> \E m \in Ancestors(n) : status[m] = "failed"

(* When the engine goes to sleep, every node that could be launched or     *)
(* skipped has been (engine.py:3, "launches each node as soon as all of its*)
(* dependencies have completed").                                          *)
Quiescent == pc = "wait" => \A n \in Nodes : ~Actionable(n)

(* A run decides a node once: what schedule(), the main loop or _abort()   *)
(* made final stays so until the DAG is run again.                         *)
Decided(n)  == n \in completed \cup blocked
FinalStable ==
  [][run' = run =>
       \A n \in Nodes : Decided(n) => Decided(n)' /\ status'[n] = status[n]]_vars

(* No executor outlives a run that returned: with fail_fast, _abort() has  *)
(* seen every task end, even one that swallowed its cancellation.          *)
NoOrphan == pc = "returned" => \A n \in Nodes : task[n] # "live"

(* Without fail_fast the tracker ends up showing what the nodes are, and   *)
(* says it is over exactly when it is.                                     *)
ViewAgrees ==
  /\ view.done <=> pc = "returned"
  /\ pc = "returned" => \A n \in Nodes : view.status[n] = status[n]

(* Whatever the executors do, a run comes to its end (engine.py:29, "Runs a*)
(* DAG to completion"): no schedule() pass repeats for ever and no task is *)
(* awaited for ever.                                                       *)
Termination == run > 0 ~> pc \in {"returned", "raised"}

-----------------------------------------------------------------------------
(***************************************************************************)
(* The engine implements what run() promises.  A node that the run has not *)
(* started is pending for the contract, whatever status it was left with.  *)
(***************************************************************************)
Contract == INSTANCE RunContract WITH
  state <- [n \in Nodes |-> IF n \in started THEN status[n] ELSE "pending"],
  phase <- CASE pc = "idle" -> "ready" [] pc = "returned" -> "over" [] OTHER -> "running"

(* Every step of the engine is a step of the contract or invisible to it,  *)
(* and the engine makes the progress the contract asks for.                *)
KeepsContract == Contract!Spec
=============================================================================

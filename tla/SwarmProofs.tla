----------------------------- MODULE SwarmProofs -----------------------------
(***************************************************************************)
(* The swarm's safety properties for every number of nodes, runs and       *)
(* retries, every set of actions and every assignment of agents.           *)
(*                                                                         *)
(* An executor touches the engine's state in one place only, the result of *)
(* its own task, so the engine's invariant IInv carries over.  To it       *)
(* SInv adds what the local state of one executor satisfies (Sound), how   *)
(* that state and its task go together, and what the engine's bookkeeping  *)
(* says of the working memory and of the agents torn down.                 *)
(***************************************************************************)
EXTENDS Swarm, EngineProofs

Before == {"begin", "act"}            \* an attempt is still to be made
Inside == {"act", "guard", "work"}    \* inside the try block

\* The local state r of the executor of n, at any point of execute().
Sound(n, r) ==
  /\ r \in Local
  /\ r.at = "none" => r = Idle
  /\ r.at = "begin" => r.attempt = 0
  /\ r.at \in Before => r.attempt <= MaxRetries
  /\ r.at \in Inside => r.attempt > 0
  /\ r.at \in Inside \cup {"begin"} => ~r.denied /\ r.result = "none"
  /\ r.at = "work" /\ Dangerous(r.action) => r.approved = r.attempt
  /\ r.at = "tear" => r.result \in TaskEnd
  /\ r.denied => r.result = "err"
  /\ r.result = "err" /\ ~r.denied => r.attempt = MaxRetries + 1
  /\ r.attempt > 0 => \A d \in deps[n] : r.snap[d] = run /\ context[n][d] = run

\* The executor of n and the task that the engine made for it.
TasksMatch ==
  \A n \in Nodes :
    /\ task[n] = "none" <=> x[n].at = "none"
    /\ task[n] = "live" <=> x[n].at \notin {"none", "ended"}
    /\ n \in Launching => task[n] = "none"
    /\ n \in cancel => task[n] = "live"
    /\ x[n].denied => task[n] # "ok"

\* Working memory holds outputs of this run for exactly the tasks that ended
\* well, which are those the engine completes.
Outputs ==
  /\ \A n \in Nodes :
       /\ memory[n] \in 0..run
       /\ task[n] = "ok" => memory[n] = run
       /\ run > 0 /\ memory[n] = run => task[n] = "ok"
  /\ \A n \in completed : task[n] = "ok"
  /\ \A n \in blocked : status[n] = "failed" => task[n] = "err"

\* Whose teardown began: the selector's agents are known by their run.
Teardowns ==
  \A n \in Nodes :
    /\ x[n].at = "tear" \/ (x[n].at = "ended" /\ x[n].attempt > 0) => Agent(n) \in torn
    /\ \A k \in Nat : k > run => <<n, k>> \notin torn
    /\ run = 0 => torn = {}
    /\ run > 0 /\ Unshared(n) /\ Agent(n) \in torn => x[n].at \in {"tear", "ended"}

Locals == x \in [Nodes -> Local] /\ \A n \in Nodes : Sound(n, x[n])

SInv ==
  /\ IInv
  /\ cancel \subseteq Nodes /\ memory \in [Nodes -> 0..MaxRuns]
  /\ Locals /\ TasksMatch /\ Outputs /\ Teardowns

-----------------------------------------------------------------------------
(* An executor that does not exist yet is in order.                        *)
LEMMA IdleIsSound ==
  /\ Idle \in Local
  /\ \A n \in Nodes : Sound(n, Idle)
  /\ NoMemory \in [Nodes -> 0..MaxRuns]
<1>1. 0 \in 0..MaxRuns /\ 0 \in 0..(MaxRetries + 1)
  BY EngineAssumption, SwarmAssumption
<1>2. NoMemory \in [Nodes -> 0..MaxRuns]
  BY <1>1 DEF NoMemory
<1>3. Idle \in Local
  BY <1>1, <1>2 DEF Idle, Local
<1>4. /\ Idle.at = "none" /\ Idle.attempt = 0 /\ Idle.result = "none" /\ Idle.denied = FALSE
  BY DEF Idle
<1>5. ASSUME NEW n \in Nodes PROVE Sound(n, Idle)
  BY <1>3, <1>4 DEF Sound, Before, Inside
<1> QED
  BY <1>2, <1>3, <1>5

(* The invariant holds before the first run.                               *)
LEMMA InitSInv == SwarmInit => SInv
<1> SUFFICES ASSUME SwarmInit PROVE SInv
  OBVIOUS
<1> USE DEF SwarmInit, Init
<1>1. IInv  BY InitIInv
<1>2. Locals  BY IdleIsSound DEF Locals
<1>3. TasksMatch  BY DEF TasksMatch, Launching, Idle
<1>4. Outputs  BY DEF Outputs, NoMemory
<1>5. Teardowns  BY DEF Teardowns, Idle
<1> QED  BY <1>1, <1>2, <1>3, <1>4, <1>5, IdleIsSound DEF SInv

-----------------------------------------------------------------------------
(* A step of the engine that makes no task and starts no run, and only     *)
(* completes or fails nodes whose tasks ended so, keeps the invariant.     *)
LEMMA EngineSideKeeps ==
  ASSUME SInv, IInv', UNCHANGED <<task, run, deps, context, x, memory, torn>>,
         \A n \in cancel' : n \in Nodes /\ task[n] = "live",
         \A n \in Launching' : task[n] = "none",
         \A n \in completed' : task[n] = "ok",
         \A n \in blocked' : status'[n] = "failed" => task[n] = "err"
  PROVE  SInv'
<1>1. Locals'  BY DEF SInv, Locals, Sound, Local, Idle, NoMemory
<1>2. TasksMatch'  BY DEF SInv, TasksMatch
<1>3. Outputs'  BY DEF SInv, Outputs
<1>4. Teardowns'  BY DEF SInv, Teardowns, Agent, Unshared
<1> QED  BY <1>1, <1>2, <1>3, <1>4 DEF SInv

(* A new run finds no executor, and all that memory holds is older.        *)
LEMMA SwarmStartKeeps ==
  ASSUME SInv, SwarmStart
  PROVE  SInv'
<1> USE DEF SInv, SwarmStart, Start, BeginPass
<1>1. IInv'  BY StartKeeps
<1>2. cancel = {}
  BY DEF IInv, TypeOK, Control, Tasks, TasksMatch
<1>3. run \in Nat /\ run' = run + 1
  BY EngineAssumption DEF IInv, TypeOK
<1>4. Locals'
  <2>1. x' \in [Nodes -> Local]  BY IdleIsSound
  <2>2. ASSUME NEW n \in Nodes PROVE Sound(n, x[n])'
    BY IdleIsSound DEF Sound, Idle, Before, Inside, NoMemory, Local
  <2> QED  BY <2>1, <2>2 DEF Locals
<1>5. TasksMatch'  BY <1>2 DEF TasksMatch, Launching, Idle
<1>6. Outputs'  BY <1>3 DEF Outputs
<1>7. Teardowns'
  <2>1. \A n \in Nodes : x'[n].at = "none"
    BY DEF Idle
  <2>2. \A k \in Nat : k > run' => k > run
    BY <1>3
  <2>3. run' \in Nat /\ run' > run
    BY <1>3
  <2>4. ASSUME NEW n \in Nodes, Unshared(n)' PROVE Agent(n)' \notin torn'
    <3>1. CASE n \in DOMAIN Assigned
      BY <1>3, <2>4, <3>1 DEF Unshared, Teardowns
    <3>2. CASE n \notin DOMAIN Assigned
      BY <2>3, <3>2 DEF Teardowns, Agent
    <3> QED  BY <3>1, <3>2
  <2>5. torn' = torn /\ \A n \in Nodes, k \in Nat : k > run' => <<n, k>> \notin torn
    BY <2>2 DEF Teardowns
  <2>6. run' # 0
    BY <1>3, <2>3
  <2> HIDE DEF SInv, SwarmStart, Start, BeginPass
  <2> QED  BY <2>1, <2>4, <2>5, <2>6 DEF Teardowns
<1> QED  BY <1>1, <1>2, <1>4, <1>5, <1>6, <1>7

(* The executor of a node whose task is created has not run yet.           *)
LEMMA SwarmCreateTaskKeeps ==
  ASSUME SInv, NEW n \in Nodes, SwarmCreateTask(n)
  PROVE  SInv'
<1> USE DEF SInv, SwarmCreateTask, CreateTask
<1>1. IInv'  BY CreateTaskKeeps
<1>2. x[n] = Idle /\ task[n] = "none" /\ n \notin completed \cup blocked
  BY DEF TasksMatch, Launching, Locals, Sound, IInv, Partition, InFlight
<1>3. x' = [x EXCEPT ![n] = [Idle EXCEPT !.at = "begin"]]
  BY <1>2 DEF Locals
<1>4. Sound(n, x[n])'
  <2>1. [Idle EXCEPT !.at = "begin"] \in Local
    BY IdleIsSound DEF Local
  <2>2. x'[n] = [Idle EXCEPT !.at = "begin"]
    BY <1>3 DEF Locals
  <2>3. /\ x'[n].at = "begin" /\ x'[n].attempt = 0 /\ x'[n].result = "none"
        /\ x'[n].denied = FALSE /\ x'[n] \in Local
    BY <2>1, <2>2 DEF Idle
  <2> QED  BY <2>3, SwarmAssumption DEF Sound, Before, Inside
<1>5. \A m \in Nodes \ {n} : x'[m] = x[m] /\ context'[m] = context[m] /\ task'[m] = task[m]
  BY <1>3 DEF IInv, TypeOK, Locals
<1>6. Locals'
  <2>1. x' \in [Nodes -> Local]
    BY <1>3, <1>4 DEF Locals, Sound
  <2>2. ASSUME NEW m \in Nodes, m # n PROVE Sound(m, x[m])'
    BY <1>5, <2>2 DEF Sound, Locals, Local, Idle, NoMemory
  <2> QED  BY <1>4, <2>1, <2>2 DEF Locals
<1>7. TasksMatch'
  <2>1. x'[n].at = "begin" /\ ~x'[n].denied /\ task'[n] = "live"
    <3>1. x'[n] = [Idle EXCEPT !.at = "begin"]
      BY <1>3 DEF Locals
    <3>2. task'[n] = "live"
      BY DEF IInv, TypeOK
    <3> QED  BY <3>1, <3>2 DEF Idle
  <2> QED  BY <1>5, <2>1 DEF TasksMatch, Launching
<1>8. Outputs'
  BY <1>2, <1>5 DEF Outputs, IInv, TypeOK
<1>9. Teardowns'
  BY <1>2, <1>3, <1>5 DEF Teardowns, Agent, Unshared, Idle, Locals
<1> QED  BY <1>1, <1>6, <1>7, <1>8, <1>9 DEF IInv, TypeOK

(* The other steps of the engine.                                          *)
LEMMA SwarmEngineStepKeeps ==
  ASSUME SInv, SwarmEngineStep
  PROVE  SInv'
<1> USE DEF executors
<1>1. CASE SwarmStart  BY <1>1, SwarmStartKeeps
<1>2. ASSUME NEW n \in Nodes, SwarmCreateTask(n) PROVE SInv'
  BY <1>2, SwarmCreateTaskKeeps
<1>3. CASE SwarmAbort
  BY <1>3, AbortKeeps, EngineSideKeeps
  DEF SwarmAbort, Abort, SInv, IInv, TypeOK, Outputs, Launching, node, sets
<1>4. CASE UNCHANGED executors /\ \E n \in Nodes : Skip(n) \/ Launch(n) \/ Process(n)
  <2>0. PICK n \in Nodes : Skip(n) \/ Launch(n) \/ Process(n)
    BY <1>4
  <2> USE <1>4 DEF SInv, Outputs, Launching, TasksMatch
  <2>1. CASE Skip(n)
    BY <2>1, SkipKeeps, EngineSideKeeps DEF Skip, At, Actionable, IInv, TypeOK
  <2>2. CASE Launch(n)
    BY <2>2, LaunchKeeps, EngineSideKeeps
    DEF Launch, At, Actionable, IInv, TypeOK, Tasks, Partition
  <2>3. CASE Complete(n)
    BY <2>3, CompleteKeeps, EngineSideKeeps DEF Complete, Take, IInv, TypeOK
  <2>4. CASE Fail(n)
    BY <2>4, FailKeeps, EngineSideKeeps DEF Fail, Take, AfterFailure, IInv, TypeOK
  <2>5. CASE Raise(n)
    BY <2>5, RaiseKeeps, EngineSideKeeps DEF Raise, Take, IInv, TypeOK, node
  <2> QED  BY <2>0, <2>1, <2>2, <2>3, <2>4, <2>5 DEF Process
<1>5. CASE UNCHANGED executors /\ (NextPass \/ Wait \/ Return \/ Wake \/ EndBatch \/ Reap)
  <2> USE <1>5 DEF SInv, Outputs, Launching, TasksMatch, node, sets
  <2>1. CASE NextPass
    BY <2>1, NextPassKeeps, EngineSideKeeps DEF NextPass, BeginPass
  <2>2. CASE Wait
    BY <2>2, WaitKeeps, EngineSideKeeps DEF Wait
  <2>3. CASE Return
    BY <2>3, ReturnKeeps, EngineSideKeeps DEF Return
  <2>4. CASE Wake
    BY <2>4, WakeKeeps, EngineSideKeeps DEF Wake
  <2>5. CASE EndBatch
    BY <2>5, EndBatchKeeps, EngineSideKeeps DEF EndBatch, BeginPass
  <2>6. CASE Reap
    BY <2>6, ReapKeeps, EngineSideKeeps DEF Reap, Unfinished, IInv, TypeOK
  <2> QED  BY <1>5, <2>1, <2>2, <2>3, <2>4, <2>5, <2>6
<1> QED  BY <1>1, <1>2, <1>3, <1>4, <1>5 DEF SwarmEngineStep
-----------------------------------------------------------------------------
\* What execute() leaves alone between creation and end of its task.
Apart == UNCHANGED <<engineVars, task, memory>>

(* What the tracker shows matters to no other variable of the engine.      *)
LEMMA ShowingKeeps ==
  ASSUME IInv, UNCHANGED <<engineVars, task>>, view' \in Views
  PROVE  IInv'
BY DEF IInv, TypeOK, Partition, InFlight, Launching, Statuses, Dependencies, Tasks,
       Control, Actionable, HasBlockedDep, DepsCompleted, Leftovers, Fresh,
       engineVars, node, sets

(* A step of a live executor that leaves it in order, and that tears its   *)
(* agent down if it leaves the try block, keeps the invariant.             *)
LEMMA MoveKeeps ==
  ASSUME SInv, NEW n \in Nodes, NEW r, Sound(n, r), Apart, cancel' \subseteq cancel,
         x[n].at \notin {"none", "ended"}, r.at \notin {"none", "ended"},
         x' = [x EXCEPT ![n] = r], view' \in Views,
         torn' = IF r.at = "tear" THEN torn \cup {Agent(n)} ELSE torn,
         x[n].at = "tear" => r.at = "tear"
  PROVE  SInv'
<1> USE DEF SInv, Apart, engineVars, node, sets
<1>1. IInv'  BY ShowingKeeps
<1>2. x'[n] = r /\ \A m \in Nodes \ {n} : x'[m] = x[m]
  BY DEF Locals
<1>3. Locals'
  <2>1. x' \in [Nodes -> Local]
    BY DEF Locals, Sound
  <2>2. Sound(n, x[n])'
    BY <1>2 DEF Sound, Local, Idle, NoMemory
  <2>3. ASSUME NEW m \in Nodes, m # n PROVE Sound(m, x[m])'
    BY <1>2, <2>3 DEF Locals, Sound, Local, Idle, NoMemory
  <2> QED  BY <2>1, <2>2, <2>3 DEF Locals
<1>4. TasksMatch'
  <2>1. task[n] = "live"
    BY DEF TasksMatch
  <2> QED  BY <1>2, <2>1 DEF TasksMatch, Launching
<1>5. Outputs'  BY DEF Outputs
<1>6. Teardowns'
  <2>1. run \in Nat /\ run > 0
    BY EngineAssumption DEF IInv, TypeOK, TasksMatch, Tasks, Control
  <2>2. ASSUME NEW m \in Nodes, NEW k \in Nat, k > run PROVE Agent(n) # <<m, k>>
    BY <2>1, <2>2 DEF Agent
  <2>3. ASSUME NEW m \in Nodes, m # n, Unshared(m) PROVE Agent(m) # Agent(n)
    BY <2>1, <2>3 DEF Agent, Unshared
  <2>4. UNCHANGED run /\ \A m \in Nodes : Unshared(m)' = Unshared(m) /\ Agent(m)' = Agent(m)
    BY DEF Unshared, Agent
  <2> QED  BY <1>2, <2>1, <2>2, <2>3, <2>4 DEF Teardowns
<1> QED  BY <1>1, <1>3, <1>4, <1>5, <1>6

(* The coroutine of a node ends with o.                                    *)
LEMMA EndKeeps ==
  ASSUME SInv, NEW n \in Nodes, NEW o \in TaskEnd, End(n, o), UNCHANGED engineVars,
         cancel' = cancel \ {n},
         x[n].at = "begin" \/ x[n].at = "tear",
         x[n].denied => o # "ok"
  PROVE  SInv'
<1> USE DEF SInv, End, EndsWith, Record, engineVars, node, sets
<1>1. x'[n] = [x[n] EXCEPT !.at = "ended"] /\ \A m \in Nodes \ {n} : x'[m] = x[m]
  BY DEF Locals
<1>2. task'[n] = o /\ \A m \in Nodes \ {n} : task'[m] = task[m]
  BY DEF IInv, TypeOK
<1>3. IInv'
  <2>1. TypeOK'  BY DEF IInv, TypeOK, TaskEnd
  <2>2. Tasks'   BY <1>2 DEF IInv, Tasks, TaskEnd
  <2>3. Control'
    BY DEF IInv, Control, Actionable, HasBlockedDep, DepsCompleted
  <2> QED
    BY <2>1, <2>2, <2>3
    DEF IInv, Partition, InFlight, Launching, Statuses, Dependencies, Leftovers, Fresh
<1>4. Locals'
  <2>0. x[n] \in Local /\ Sound(n, x[n])
    BY DEF Locals
  <2>1. /\ x'[n] \in Local
        /\ x'[n].at = "ended" /\ x'[n].attempt = x[n].attempt /\ x'[n].snap = x[n].snap
        /\ x'[n].denied = x[n].denied /\ x'[n].result = x[n].result
    BY <1>1, <2>0 DEF Local
  <2>2. Sound(n, x[n])'
    <3>1. x'[n].denied => x'[n].result = "err"
      BY <2>0, <2>1 DEF Sound
    <3>2. x'[n].result = "err" /\ ~x'[n].denied => x'[n].attempt = MaxRetries + 1
      BY <2>0, <2>1 DEF Sound
    <3>3. x'[n].attempt > 0 =>
            \A d \in deps'[n] : x'[n].snap[d] = run' /\ context'[n][d] = run'
      BY <2>0, <2>1 DEF Sound
    <3> QED  BY <2>1, <3>1, <3>2, <3>3 DEF Sound, Before, Inside
  <2>3. ASSUME NEW m \in Nodes, m # n PROVE Sound(m, x[m])'
    BY <1>1, <2>3 DEF Locals, Sound, Local, Idle, NoMemory
  <2>4. x' \in [Nodes -> Local]
    BY <2>1 DEF Locals
  <2> QED  BY <2>2, <2>3, <2>4 DEF Locals
<1>5. TasksMatch'
  <2>1. x'[n].at = "ended" /\ x'[n].denied = x[n].denied
    BY <1>1 DEF Locals, Local
  <2> QED  BY <1>1, <1>2, <2>1 DEF TasksMatch, TaskEnd, Launching
<1>6. Outputs'
  <2>0. task[n] = "live" /\ run \in 0..MaxRuns
    BY DEF IInv, TypeOK
  <2>1. run > 0 /\ run \in 0..run
    BY <2>0, EngineAssumption DEF IInv, TypeOK, Tasks, Control
  <2>2. memory'[n] = IF o = "ok" THEN run ELSE memory[n]
    OBVIOUS
  <2>3. \A m \in Nodes \ {n} : memory'[m] = memory[m]
    OBVIOUS
  <2> QED  BY <1>2, <2>0, <2>1, <2>2, <2>3 DEF Outputs, IInv, TypeOK
<1>7. Teardowns'
  <2>1. x'[n].at = "ended" /\ x'[n].attempt = x[n].attempt
    BY <1>1 DEF Locals, Local
  <2>2. x[n].at = "begin" => x[n].attempt = 0
    BY DEF Locals, Sound
  <2> QED  BY <1>1, <2>1, <2>2 DEF Teardowns, Agent, Unshared
<1>8. cancel' \subseteq Nodes /\ memory' \in [Nodes -> 0..MaxRuns]
  BY DEF IInv, TypeOK
<1> QED  BY <1>3, <1>4, <1>5, <1>6, <1>7, <1>8
-----------------------------------------------------------------------------
(* Showing a retry leaves the tracker's state well-formed.                 *)
LEMMA RetryType ==
  ASSUME NEW v \in Views, NEW n \in Nodes, NEW a \in Nat
  PROVE  Handle(v, NodeRetry(n, a)) \in Views
<1>1. Handle(v, NodeRetry(n, a)) =
        [v EXCEPT !.status[n] = "retrying", !.attempts[n] = a]
  BY DEF Handle, NodeRetry
<1>2. /\ [v.status EXCEPT ![n] = "retrying"] \in [Nodes -> ShownStatus]
      /\ [v.attempts EXCEPT ![n] = a] \in [Nodes -> Nat]
  BY DEF Views, ShownStatus
<1>3. Handle(v, NodeRetry(n, a)) =
        [v EXCEPT !.status   = [v.status EXCEPT ![n] = "retrying"],
                     !.attempts = [v.attempts EXCEPT ![n] = a]]
  BY <1>1 DEF Views
<1> QED  BY <1>2, <1>3 DEF Views

\* What an executor in order can be when an attempt of it is cut short: it
\* has made the attempt, and neither a denial nor a result is recorded yet.
Trying(n, r) == r.at \in {"begin", "act", "guard", "work"} /\ r.attempt > 0
                /\ ~r.denied /\ r.result = "none" /\ r \in Local
                /\ \A d \in deps[n] : r.snap[d] = run /\ context[n][d] = run

(* However the try block is left, the executor is in order.                *)
LEMMA LeavingIsSound ==
  ASSUME NEW n \in Nodes, NEW r, Trying(n, r)
  PROVE  /\ \A o \in {"ok", "cancelled"} :
              Sound(n, [r EXCEPT !.at = "tear", !.result = o])
         /\ OutOfRetries(r) => Sound(n, [r EXCEPT !.at = "tear", !.result = "err"])
         /\ ~OutOfRetries(r) => Sound(n, [r EXCEPT !.at = "act"])
         /\ Sound(n, [[r EXCEPT !.denied = TRUE] EXCEPT !.at = "tear", !.result = "err"])
<1> USE DEF Trying
<1>1. r.attempt \in Nat /\ r.attempt <= MaxRetries + 1 /\ MaxRetries \in Nat
  BY SwarmAssumption DEF Local
<1>2. ASSUME NEW o \in {"ok", "cancelled"}
      PROVE  Sound(n, [r EXCEPT !.at = "tear", !.result = o])
  <2> DEFINE t == [r EXCEPT !.at = "tear", !.result = o]
  <2>1. /\ t \in Local /\ t.at = "tear" /\ t.result = o /\ t.attempt = r.attempt
        /\ t.snap = r.snap /\ t.denied = r.denied
    BY DEF Local, TaskEnd
  <2> HIDE DEF t
  <2>2. ~t.denied  BY <2>1
  <2>3. Sound(n, t)  BY <2>1, <2>2 DEF Sound, TaskEnd, Before, Inside
  <2> QED  BY <2>3 DEF t
<1>3. ASSUME OutOfRetries(r) PROVE Sound(n, [r EXCEPT !.at = "tear", !.result = "err"])
  <2> DEFINE t == [r EXCEPT !.at = "tear", !.result = "err"]
  <2>1. /\ t \in Local /\ t.at = "tear" /\ t.result = "err" /\ t.attempt = r.attempt
        /\ t.snap = r.snap /\ t.denied = r.denied
    BY DEF Local, TaskEnd
  <2>2. t.attempt = MaxRetries + 1
    BY <1>1, <1>3, <2>1 DEF OutOfRetries
  <2> HIDE DEF t
  <2>3. Sound(n, t)  BY <2>1, <2>2 DEF Sound, TaskEnd, Before, Inside
  <2> QED  BY <2>3 DEF t
<1>4. ASSUME ~OutOfRetries(r) PROVE Sound(n, [r EXCEPT !.at = "act"])
  <2> DEFINE t == [r EXCEPT !.at = "act"]
  <2>1. /\ t \in Local /\ t.at = "act" /\ t.result = r.result /\ t.attempt = r.attempt
        /\ t.snap = r.snap /\ t.denied = r.denied
    BY DEF Local
  <2>2. t.attempt <= MaxRetries
    BY <1>1, <1>4, <2>1 DEF OutOfRetries
  <2> HIDE DEF t
  <2>3. ~t.denied  BY <2>1
  <2>4. Sound(n, t)  BY <2>1, <2>2, <2>3 DEF Sound, Before, Inside
  <2> QED  BY <2>4 DEF t
<1>5. Sound(n, [[r EXCEPT !.denied = TRUE] EXCEPT !.at = "tear", !.result = "err"])
  <2> DEFINE t == [[r EXCEPT !.denied = TRUE] EXCEPT !.at = "tear", !.result = "err"]
  <2>1. /\ t \in Local /\ t.at = "tear" /\ t.result = "err" /\ t.attempt = r.attempt
        /\ t.snap = r.snap /\ t.denied = TRUE
    BY DEF Local, TaskEnd
  <2> HIDE DEF t
  <2>2. Sound(n, t)  BY <2>1 DEF Sound, TaskEnd, Before, Inside
  <2> QED  BY <2>2 DEF t
<1> QED  BY <1>2, <1>3, <1>4, <1>5

(* The ways an attempt of a live executor ends keep the invariant.         *)
LEMMA LeaveKeeps ==
  ASSUME SInv, NEW n \in Nodes, NEW r, Trying(n, r),
         x[n].at \in {"begin", "act", "guard", "work"},
         UNCHANGED engineVars, cancel' \subseteq cancel,
         \/ Deny(n, r)
         \/ OnException(n, r)
         \/ \E o \in {"ok", "cancelled"} : Leave(n, r, o)
  PROVE  SInv'
<1> USE DEF Apart
<1>1. view \in Views
  BY DEF SInv, IInv, TypeOK
<1>2. ASSUME NEW s, NEW o, Leave(n, s, o), Sound(n, [s EXCEPT !.at = "tear", !.result = o]),
             s \in Local
      PROVE  SInv'
  <2> DEFINE t == [s EXCEPT !.at = "tear", !.result = o]
  <2>1. t.at = "tear"
    BY <1>2 DEF Local
  <2> QED  BY <1>1, <1>2, <2>1, MoveKeeps DEF Leave
<1>3. CASE Deny(n, r)
  <2>1. [r EXCEPT !.denied = TRUE] \in Local
    BY DEF Trying, Local
  <2> QED  BY <1>2, <1>3, <2>1, LeavingIsSound DEF Deny
<1>4. CASE OnException(n, r)
  <2>1. CASE OutOfRetries(r)
    BY <1>2, <1>4, <2>1, LeavingIsSound DEF OnException, Trying
  <2>2. CASE ~OutOfRetries(r)
    <3>1. r.attempt \in Nat /\ [r EXCEPT !.at = "act"].at = "act"
      BY SwarmAssumption DEF Trying, Local
    <3>2. view' \in Views
      BY <1>1, <1>4, <2>2, <3>1, RetryType DEF OnException, Retry
    <3> QED
      BY <1>4, <2>2, <3>1, <3>2, LeavingIsSound, MoveKeeps DEF OnException, Retry
  <2> QED  BY <2>1, <2>2
<1>5. ASSUME NEW o \in {"ok", "cancelled"}, Leave(n, r, o) PROVE SInv'
  BY <1>2, <1>5, LeavingIsSound DEF Trying
<1> QED  BY <1>3, <1>4, <1>5

(* An executor that has its task runs with this run's outputs.             *)
LEMMA LiveHasDeps ==
  ASSUME SInv, NEW n \in Nodes, task[n] # "none"
  PROVE  /\ deps[n] \subseteq Nodes
         /\ \A d \in deps[n] : memory[d] = run /\ context[n][d] = run
<1>1. deps[n] \subseteq completed
  BY DEF SInv, IInv, Tasks
<1>2. \A d \in deps[n] : d \in Nodes /\ context[n][d] = run
  BY <1>1 DEF SInv, IInv, Tasks, TypeOK
<1> QED  BY <1>1, <1>2 DEF SInv, Outputs

(* The next attempt is one more, with the snapshot taken by the first.     *)
LEMMA NextAttemptIsOne ==
  ASSUME SInv, NEW n \in Nodes, x[n].at \in Before
  PROVE  /\ \A a \in Actions : Trying(n, [NextAttempt(n) EXCEPT !.action = a])
         /\ Trying(n, NextAttempt(n))
<1> DEFINE r == NextAttempt(n)
<1>1. x[n] \in Local /\ Sound(n, x[n]) /\ task[n] # "none" /\ memory \in [Nodes -> 0..MaxRuns]
  BY DEF SInv, Locals, TasksMatch, Before
<1>2. x[n].attempt \in Nat /\ x[n].attempt <= MaxRetries /\ MaxRetries \in Nat
  BY <1>1, SwarmAssumption DEF Sound, Local
<1>3. x[n].attempt + 1 \in 0..(MaxRetries + 1) /\ x[n].attempt + 1 > 0
  BY <1>2
<1>4. /\ r \in Local /\ r.attempt = x[n].attempt + 1 /\ r.at = x[n].at
      /\ r.denied = x[n].denied /\ r.result = x[n].result
      /\ r.snap = IF x[n].at = "begin" THEN memory ELSE x[n].snap
  BY <1>1, <1>3 DEF NextAttempt, Local
<1>5. \A d \in deps[n] : r.snap[d] = run /\ context[n][d] = run
  <2>1. CASE x[n].at = "begin"
    BY <1>1, <1>4, <2>1, LiveHasDeps
  <2>2. CASE x[n].at = "act"
    <3>1. x[n].attempt > 0
      BY <1>1, <2>2 DEF Sound, Inside
    <3> QED  BY <1>1, <1>4, <2>2, <3>1 DEF Sound
  <2> QED  BY <2>1, <2>2 DEF Before
<1> HIDE DEF r
<1>6. ~r.denied /\ r.result = "none"
  BY <1>1, <1>4 DEF Sound, Before, Inside
<1>7. Trying(n, r)
  BY <1>3, <1>4, <1>5, <1>6 DEF Trying, Before
<1>8. ASSUME NEW a \in Actions PROVE Trying(n, [r EXCEPT !.action = a])
  <2>1. /\ [r EXCEPT !.action = a] \in Local /\ [r EXCEPT !.action = a].at = r.at
        /\ [r EXCEPT !.action = a].attempt = r.attempt
        /\ [r EXCEPT !.action = a].denied = r.denied
        /\ [r EXCEPT !.action = a].result = r.result
        /\ [r EXCEPT !.action = a].snap = r.snap
    BY <1>4, <1>8 DEF Local
  <2> QED  BY <1>7, <2>1 DEF Trying
<1> QED  BY <1>7, <1>8 DEF r
(* A step that goes on within the attempt keeps the invariant.             *)
LEMMA ContinueKeeps ==
  ASSUME SInv, NEW n \in Nodes, NEW r, Sound(n, r), Continue(n, r),
         UNCHANGED engineVars, cancel' \subseteq cancel,
         x[n].at \notin {"none", "ended"}, r.at \in Inside, x[n].at # "tear"
  PROVE  SInv'
<1>1. view \in Views
  BY DEF SInv, IInv, TypeOK
<1> QED  BY <1>1, MoveKeeps DEF Continue, Apart, Inside

(* Inside the try block the executor is at an attempt.                     *)
LEMMA InsideIsTrying ==
  ASSUME SInv, NEW n \in Nodes, x[n].at \in Inside
  PROVE  Trying(n, x[n]) /\ Sound(n, x[n])
BY DEF SInv, Locals, Sound, Inside, Trying

LEMMA AttemptKeeps ==
  ASSUME SInv, NEW n \in Nodes, Attempt(n)
  PROVE  SInv'
<1> USE DEF Attempt, Resumes
<1>1. x[n].at \in Before /\ cancel' = cancel /\ UNCHANGED engineVars
  BY DEF Before
<1>2. Trying(n, NextAttempt(n)) /\ \A a \in Actions : Trying(n, [NextAttempt(n) EXCEPT !.action = a])
  BY <1>1, NextAttemptIsOne
<1>3. CASE Throw(n, NextAttempt(n))
  BY <1>1, <1>2, <1>3, LeaveKeeps DEF Before, Throw
<1>4. ASSUME NEW a \in Actions, Deny(n, [NextAttempt(n) EXCEPT !.action = a]) PROVE SInv'
  BY <1>1, <1>2, <1>4, LeaveKeeps DEF Before
<1>5. ASSUME NEW a \in Actions, NEW w \in {"guard", "work"},
             w = "work" => ~NeedsConfirmation(a),
             Continue(n, [[NextAttempt(n) EXCEPT !.action = a] EXCEPT !.at = w])
      PROVE  SInv'
  <2> DEFINE s == [NextAttempt(n) EXCEPT !.action = a]
             t == [s EXCEPT !.at = w]
  <2>1. /\ t \in Local /\ t.at = w /\ t.attempt = s.attempt /\ t.snap = s.snap
        /\ t.denied = s.denied /\ t.result = s.result
    BY <1>2 DEF Trying, Local
  <2>2. t.action = a
    <3>1. NextAttempt(n) \in Local
      BY <1>2 DEF Trying
    <3> QED  BY <3>1 DEF Local
  <2>3. w = "work" => ~Dangerous(a)
    <3>1. ~Dangerous(NoAction)
      BY DEF Dangerous, NoAction
    <3>2. Assess(a) # "critical" => ~Dangerous(a)
      BY DEF Assess, Dangerous
    <3> QED  BY <1>5, <3>1, <3>2 DEF NeedsConfirmation
  <2>4. ~s.denied /\ s.result = "none" /\ s.attempt > 0
        /\ \A d \in deps[n] : s.snap[d] = run /\ context[n][d] = run
    BY <1>2 DEF Trying
  <2> HIDE DEF s
  <2>5. ~t.denied  BY <2>1, <2>4
  <2> HIDE DEF t
  <2>6. Sound(n, t)
    BY <2>1, <2>2, <2>3, <2>4, <2>5 DEF Sound, Before, Inside
  <2>7. Continue(n, t)  BY <1>5 DEF s, t
  <2> QED  BY <1>1, <2>1, <2>6, <2>7, ContinueKeeps DEF Before, Inside
<1> QED  BY <1>3, <1>4, <1>5

LEMMA ConfirmKeeps ==
  ASSUME SInv, NEW n \in Nodes, Confirm(n)
  PROVE  SInv'
<1> USE DEF Confirm, Resumes
<1>1. x[n].at = "guard" /\ cancel' = cancel /\ UNCHANGED engineVars
  OBVIOUS
<1>2. Trying(n, x[n])
  BY <1>1, InsideIsTrying DEF Inside
<1>3. CASE Deny(n, x[n]) \/ Throw(n, x[n])
  BY <1>1, <1>2, <1>3, LeaveKeeps DEF Throw
<1>4. CASE Continue(n, [x[n] EXCEPT !.at = "work", !.approved = x[n].attempt])
  <2> DEFINE t == [x[n] EXCEPT !.at = "work", !.approved = x[n].attempt]
  <2>1. /\ t \in Local /\ t.at = "work" /\ t.attempt = x[n].attempt /\ t.snap = x[n].snap
        /\ t.denied = x[n].denied /\ t.result = x[n].result /\ t.approved = t.attempt
    BY <1>2 DEF Trying, Local
  <2> HIDE DEF t
  <2>2. ~t.denied /\ t.result = "none" /\ t.attempt > 0
        /\ \A d \in deps[n] : t.snap[d] = run /\ context[n][d] = run
    BY <1>2, <2>1 DEF Trying
  <2>3. Sound(n, t)
    BY <2>1, <2>2 DEF Sound, Before, Inside
  <2>4. Continue(n, t)  BY <1>4 DEF t
  <2> QED  BY <1>1, <2>1, <2>3, <2>4, ContinueKeeps DEF Inside
<1> QED  BY <1>3, <1>4

LEMMA WorkKeeps ==
  ASSUME SInv, NEW n \in Nodes, Work(n)
  PROVE  SInv'
<1> USE DEF Work, Resumes
<1>1. x[n].at = "work" /\ cancel' = cancel /\ UNCHANGED engineVars
  OBVIOUS
<1>2. Trying(n, x[n])
  BY <1>1, InsideIsTrying DEF Inside
<1> QED  BY <1>1, <1>2, LeaveKeeps, EngineAssumption DEF Throw

LEMMA TearDownKeeps ==
  ASSUME SInv, NEW n \in Nodes, TearDown(n)
  PROVE  SInv'
<1> USE DEF TearDown, Resumes
<1>1. x[n].at = "tear" /\ n \notin cancel /\ cancel' = cancel /\ UNCHANGED engineVars
  OBVIOUS
<1>2. x[n].result \in TaskEnd /\ (x[n].denied => x[n].result = "err")
  BY <1>1 DEF SInv, Locals, Sound
<1>3. cancel' = cancel \ {n} /\ "err" \in TaskEnd
  BY <1>1 DEF TaskEnd
<1> QED  BY <1>1, <1>2, <1>3, EndKeeps

LEMMA CancelledKeeps ==
  ASSUME SInv, NEW n \in Nodes, Cancelled(n)
  PROVE  SInv'
<1> USE DEF Cancelled
<1>1. cancel' = cancel \ {n} /\ UNCHANGED engineVars /\ Sound(n, x[n])
  BY DEF SInv, Locals
<1>2. CASE x[n].at = "begin" /\ End(n, "cancelled")
  <2>1. "cancelled" \in TaskEnd  BY DEF TaskEnd
  <2> QED  BY <1>1, <1>2, <2>1, EndKeeps
<1>3. CASE x[n].at \in {"act", "guard", "work"} /\ Leave(n, x[n], "cancelled")
  BY <1>1, <1>3, InsideIsTrying, LeaveKeeps DEF Inside
<1>4. CASE x[n].at \in {"guard", "work"} /\ Throw(n, x[n])
  BY <1>1, <1>4, InsideIsTrying, LeaveKeeps DEF Inside, Throw
<1>5. CASE x[n].at \in {"act", "guard", "work"} /\ Continue(n, x[n])
  BY <1>1, <1>5, ContinueKeeps DEF Inside
<1>6. CASE x[n].at = "tear" /\ (End(n, "cancelled") \/ End(n, "err"))
  <2>1. "cancelled" \in TaskEnd /\ "err" \in TaskEnd  BY DEF TaskEnd
  <2> QED  BY <1>1, <1>6, <2>1, EndKeeps
<1>7. CASE x[n].at = "tear" /\ Continue(n, x[n])
  <2>1. torn = torn \cup {Agent(n)} /\ view \in Views
    BY <1>7 DEF SInv, Teardowns, IInv, TypeOK
  <2> QED  BY <1>1, <1>7, <2>1, MoveKeeps DEF Continue, Apart
<1> QED  BY <1>2, <1>3, <1>4, <1>5, <1>6, <1>7

LEMMA SwarmStutterKeeps == SInv /\ UNCHANGED swarmVars => SInv'
<1> SUFFICES ASSUME SInv, UNCHANGED swarmVars PROVE SInv'
  OBVIOUS
<1> USE DEF swarmVars, executors, vars, node, sets
<1>1. IInv'  BY StutterKeeps DEF SInv
<1> QED
  BY <1>1, EngineSideKeeps DEF SInv, IInv, TypeOK, TasksMatch, Outputs, Launching

LEMMA SwarmNextKeeps == SInv /\ [SwarmNext]_swarmVars => SInv'
<1> SUFFICES ASSUME SInv, SwarmNext PROVE SInv'
  BY SwarmStutterKeeps
<1>1. CASE SwarmEngineStep  BY <1>1, SwarmEngineStepKeeps
<1>2. ASSUME NEW n \in Nodes, Execute(n) PROVE SInv'
  BY <1>2, AttemptKeeps, ConfirmKeeps, WorkKeeps, TearDownKeeps, CancelledKeeps DEF Execute
<1>3. CASE Terminated /\ UNCHANGED executors
  BY <1>3, SwarmStutterKeeps DEF Terminated, swarmVars
<1> QED  BY <1>1, <1>2, <1>3 DEF SwarmNext

(* The inductive invariant holds of every behaviour of the swarm.          *)
THEOREM SwarmInvariance == SwarmSpec => []SInv
<1>1. SwarmInit => SInv  BY InitSInv
<1>2. SInv /\ [SwarmNext]_swarmVars => SInv'  BY SwarmNextKeeps
<1> QED  BY <1>1, <1>2, PTL DEF SwarmSpec

-----------------------------------------------------------------------------
(* The variables always have their types, and a task is live exactly while *)
(* its executor is between its first and its last step.                    *)
THEOREM SwarmTypeCorrect == SwarmSpec => []SwarmTypeOK
<1>1. SInv => SwarmTypeOK
  BY DEF SInv, IInv, Locals, TasksMatch, SwarmTypeOK
<1> QED  BY <1>1, SwarmInvariance, PTL

(* No agent works on a dangerous action that was not approved in this very *)
(* attempt.                                                                *)
THEOREM EveryAttemptReviewed == SwarmSpec => []Reviewed
<1>1. SInv => Reviewed
  BY DEF SInv, Locals, Sound, Reviewed
<1> QED  BY <1>1, SwarmInvariance, PTL

(* A denial is terminal; any other failure has used every attempt.         *)
THEOREM AttemptsAreExact == SwarmSpec => []AttemptsExact
<1>1. ASSUME SInv, NEW n \in Nodes, x[n].denied
      PROVE  x[n].at \in {"tear", "ended"} /\ x[n].result = "err" /\ task[n] # "ok"
  <2>1. x[n] \in Local /\ Sound(n, x[n])
    BY <1>1 DEF SInv, Locals
  <2>2. x[n].at # "none"
    BY <1>1, <2>1 DEF Sound, Idle
  <2>3. x[n].at \notin Inside \cup {"begin"} /\ x[n].result = "err"
    BY <1>1, <2>1 DEF Sound
  <2>4. x[n].at \in {"none", "begin", "act", "guard", "work", "tear", "ended"}
    BY <2>1 DEF Local
  <2> QED  BY <1>1, <2>2, <2>3, <2>4 DEF Inside, SInv, TasksMatch
<1>2. ASSUME SInv, NEW n \in Nodes, x[n].result = "err", ~x[n].denied
      PROVE  x[n].attempt = MaxRetries + 1
  BY <1>2 DEF SInv, Locals, Sound
<1>3. SInv => AttemptsExact
  BY <1>1, <1>2 DEF AttemptsExact
<1> QED  BY <1>3, SwarmInvariance, PTL

(* Agents are given this run's outputs of every dependency.                *)
THEOREM SnapshotsHaveDeps == SwarmSpec => []SnapshotHasDeps
<1>1. SInv => SnapshotHasDeps
  BY DEF SInv, Locals, Sound, SnapshotHasDeps
<1> QED  BY <1>1, SwarmInvariance, PTL

(* Working memory and the engine agree on what completed in this run.      *)
THEOREM MemoryAgrees == SwarmSpec => []MemoryMatches
<1>1. ASSUME SInv PROVE MemoryMatches
  <2>1. \A n \in completed \cup blocked : n \in Nodes /\ run > 0
    BY <1>1, EngineAssumption DEF SInv, IInv, TypeOK, Control, Partition
  <2> QED  BY <1>1, <2>1 DEF SInv, Outputs, MemoryMatches
<1> QED  BY <1>1, SwarmInvariance, PTL

(* When run() returns, every agent put to work has been torn down.         *)
THEOREM AgentsAreTornDown == SwarmSpec => []TornDown
<1>1. ASSUME SInv, pc = "returned", NEW n \in Nodes, x[n].attempt > 0
      PROVE  Agent(n) \in torn
  <2>1. x[n].at # "none"
    BY <1>1 DEF SInv, Locals, Sound, Idle
  <2>2. task[n] # "live"
    BY <1>1 DEF SInv, IInv, Control, Tasks
  <2>3. x[n].at = "ended"
    BY <1>1, <2>1, <2>2 DEF SInv, TasksMatch
  <2> QED  BY <1>1, <2>3 DEF SInv, Teardowns
<1>2. SInv => TornDown  BY <1>1 DEF TornDown
<1> QED  BY <1>2, SwarmInvariance, PTL

(* No agent is at work after its teardown began, unless it was assigned    *)
(* and serves another node or an earlier run as well.                      *)
THEOREM AgentsInUse == SwarmSpec => []NotTornInUse
<1>1. ASSUME SInv, NEW n \in Nodes, x[n].at \in {"guard", "work"}, Unshared(n)
      PROVE  Agent(n) \notin torn
  <2>1. task[n] = "live"
    BY <1>1 DEF SInv, TasksMatch
  <2>2. run > 0
    BY <2>1, EngineAssumption, <1>1 DEF SInv, IInv, TypeOK, Tasks, Control
  <2> QED  BY <1>1, <2>2 DEF SInv, Teardowns
<1>2. SInv => NotTornInUse  BY <1>1 DEF NotTornInUse
<1> QED  BY <1>2, SwarmInvariance, PTL
-----------------------------------------------------------------------------
(***************************************************************************)
(* The swarm implements the engine (safety).  A retry is invisible once    *)
(* the tracker's retries are hidden, because the node it is about was      *)
(* shown as running; and an executor ends in a way the engine allows for.  *)
(***************************************************************************)
ShowsInFlight == \A n \in InFlight : view.status[n] \in {"running", "retrying"}

EndsAllowed ==
  /\ cancel # {} => pc = "gather"
  /\ \A n \in Nodes : x[n].at = "tear" =>
       \/ x[n].result \in Outcomes \cup {"err"}
       \/ pc = "gather" /\ x[n].result = "cancelled"

(* The two facts hold before the first run.                                *)
LEMMA InitShowing == SwarmInit => ShowsInFlight /\ EndsAllowed
BY DEF SwarmInit, Init, ShowsInFlight, EndsAllowed, InFlight, Launching, Idle

(* What an event of a node shows of it.                                    *)
LEMMA NodeEventShows ==
  ASSUME NEW v \in Views, NEW n \in Nodes,
         NEW t \in {"node_running", "node_completed", "node_failed", "node_skipped"}
  PROVE  \A m \in Nodes : Handle(v, NodeEvent(t, n)).status[m] =
                            IF m = n THEN ShownAs(t) ELSE v.status[m]
<1>1. Handle(v, NodeEvent(t, n)) = [v EXCEPT !.status[n] = ShownAs(t)]
  BY DEF Handle, NodeEvent
<1>2. Handle(v, NodeEvent(t, n)).status = [v.status EXCEPT ![n] = ShownAs(t)]
  BY <1>1 DEF Views
<1> QED  BY <1>2 DEF Views

(* What a retry shows: the statuses and the attempts of one node change.   *)
LEMMA RetryShows ==
  ASSUME NEW v \in Views, NEW n \in Nodes, NEW a
  PROVE  /\ Handle(v, NodeRetry(n, a)).status = [v.status EXCEPT ![n] = "retrying"]
         /\ Handle(v, NodeRetry(n, a)).done = v.done
         /\ Handle(v, NodeRetry(n, a)).total = v.total
<1>1. Handle(v, NodeRetry(n, a)) = [v EXCEPT !.status[n] = "retrying", !.attempts[n] = a]
  BY DEF Handle, NodeRetry
<1>2. Handle(v, NodeRetry(n, a)) =
        [v EXCEPT !.status   = [v.status EXCEPT ![n] = "retrying"],
                  !.attempts = [v.attempts EXCEPT ![n] = a]]
  BY <1>1 DEF Views
<1> QED  BY <1>2 DEF Views

(* Every step keeps showing what is in flight as running, or retrying.     *)
LEMMA ShowingStays ==
  ASSUME SInv, ShowsInFlight, [SwarmNext]_swarmVars
  PROVE  ShowsInFlight'
<1> USE DEF SInv, IInv, ShowsInFlight, InFlight, node, sets
<1>0. view \in Views /\ running \subseteq Nodes /\ Launching \subseteq Nodes
  BY DEF TypeOK, Launching
<1>1. CASE UNCHANGED swarmVars
  BY <1>1 DEF swarmVars, vars, Launching
<1>2. CASE SwarmStart
  BY <1>2 DEF SwarmStart, Start, BeginPass, Launching
<1>3. ASSUME NEW n \in Nodes, SwarmCreateTask(n) PROVE ShowsInFlight'
  BY <1>3 DEF SwarmCreateTask, CreateTask, Launching
<1>4. ASSUME NEW n \in Nodes, Skip(n) PROVE ShowsInFlight'
  <2>1. view' = Handle(view, NodeEvent("node_skipped", n)) /\ n \notin InFlight
    BY <1>4 DEF Skip, At, Actionable, Partition
  <2>2. \A m \in Nodes \ {n} : view'.status[m] = view.status[m]
    BY <1>0, <2>1, NodeEventShows
  <2> QED  BY <1>0, <1>4, <2>1, <2>2 DEF Skip, At, Launching
<1>5. ASSUME NEW n \in Nodes, Launch(n) PROVE ShowsInFlight'
  <2>1. view' = Handle(view, NodeEvent("node_running", n))
    BY <1>5 DEF Launch
  <2>2. \A m \in Nodes : view'.status[m] = IF m = n THEN "running" ELSE view.status[m]
    BY <1>0, <2>1, NodeEventShows DEF ShownAs
  <2> QED  BY <1>0, <1>5, <2>2 DEF Launch, At, Launching
<1>6. ASSUME NEW n \in Nodes, Process(n) PROVE ShowsInFlight'
  <2>1. CASE Complete(n)
    <3>1. view' = Handle(view, NodeEvent("node_completed", n))
      BY <2>1 DEF Complete
    <3>2. \A m \in Nodes \ {n} : view'.status[m] = view.status[m]
      BY <1>0, <3>1, NodeEventShows
    <3> QED  BY <1>0, <2>1, <3>2 DEF Complete, Take, Launching
  <2>2. CASE Fail(n)
    <3>1. view' = Handle(view, NodeEvent("node_failed", n))
      BY <2>2 DEF Fail
    <3>2. \A m \in Nodes \ {n} : view'.status[m] = view.status[m]
      BY <1>0, <3>1, NodeEventShows
    <3> QED  BY <1>0, <2>2, <3>2 DEF Fail, Take, AfterFailure, Launching
  <2>3. CASE Raise(n)
    BY <2>3 DEF Raise, Take, Launching
  <2> QED  BY <1>6, <2>1, <2>2, <2>3 DEF Process
<1>7. CASE Return
  <2>1. view'.status = view.status
    BY <1>0, <1>7 DEF Return, Handle, DagCompleted, Views
  <2> QED  BY <1>7, <2>1 DEF Return, Launching
<1>8. CASE Reap
  BY <1>8 DEF Reap, Launching
<1>9. CASE NextPass \/ Wait \/ Wake \/ EndBatch \/ SwarmAbort
  BY <1>9 DEF NextPass, Wait, Wake, EndBatch, SwarmAbort, Abort, BeginPass, Launching
<1>10. ASSUME NEW n \in Nodes, Execute(n) PROVE ShowsInFlight'
  <2>1. UNCHANGED engineVars
    BY <1>10 DEF Execute, Attempt, Confirm, Work, TearDown, Cancelled, Resumes
  <2>2. view' = view \/ \E r : view' = Handle(view, NodeRetry(n, r.attempt))
    BY <1>10 DEF Execute, Attempt, Confirm, Work, TearDown, Cancelled, Continue, Deny,
       Throw, OnException, Leave, Retry, End
  <2>3. \A m \in Nodes : view'.status[m] = view.status[m] \/ view'.status[m] = "retrying"
    <3>1. ASSUME NEW r, view' = Handle(view, NodeRetry(n, r.attempt))
          PROVE  view'.status = [view.status EXCEPT ![n] = "retrying"]
      BY <1>0, <3>1, RetryShows
    <3> QED  BY <1>0, <2>2, <3>1 DEF Views
  <2> QED  BY <1>0, <2>1, <2>3 DEF engineVars, Launching
<1>11. CASE Terminated /\ UNCHANGED executors
  BY <1>1, <1>11 DEF Terminated, swarmVars
<1> QED
  BY <1>1, <1>2, <1>3, <1>4, <1>5, <1>6, <1>7, <1>8, <1>9, <1>10, <1>11
  DEF SwarmNext, SwarmEngineStep

(* Only a gathering engine has tasks that wait for a cancellation.         *)
LEMMA EndsStayAllowed ==
  ASSUME SInv, EndsAllowed, [SwarmNext]_swarmVars
  PROVE  EndsAllowed'
<1> USE DEF EndsAllowed, node, sets
<1>1. CASE UNCHANGED swarmVars
  BY <1>1 DEF swarmVars, vars, executors
<1>2. CASE SwarmStart
  <2>1. cancel = {} /\ cancel' = cancel
    BY <1>2 DEF SwarmStart, Start, SInv, IInv, Control, Tasks, TasksMatch, TypeOK
  <2> QED  BY <1>2, <2>1 DEF SwarmStart, Idle
<1>3. ASSUME NEW n \in Nodes, SwarmCreateTask(n) PROVE EndsAllowed'
  BY <1>3 DEF SwarmCreateTask, CreateTask, SInv, Locals
<1>4. CASE SwarmAbort
  BY <1>4 DEF SwarmAbort, Abort
<1>5. CASE Reap /\ UNCHANGED executors
  <2>1. cancel = {} /\ \A n \in Nodes : x[n].at # "tear"
    BY <1>5 DEF Reap, AllGathered, SInv, IInv, Tasks, TasksMatch, TaskEnd
  <2> QED  BY <1>5, <2>1 DEF executors
<1>6. CASE UNCHANGED executors /\ ((\E n \in Nodes : Skip(n) \/ Launch(n) \/ Process(n))
                                   \/ NextPass \/ Wait \/ Return \/ Wake \/ EndBatch)
  <2>1. pc # "gather"
    BY <1>6 DEF Skip, Launch, At, Process, Complete, Fail, Raise, Take, NextPass, Wait,
       Return, Wake, EndBatch, Settled, AtEndOfPass
  <2> QED  BY <1>6, <2>1 DEF executors
<1>7. ASSUME NEW n \in Nodes, Execute(n) PROVE EndsAllowed'
  <2>0. UNCHANGED pc /\ cancel' \subseteq cancel /\ x[n] \in Local /\ x \in [Nodes -> Local]
    BY <1>7 DEF Execute, Attempt, Confirm, Work, TearDown, Cancelled, Resumes, engineVars,
       SInv, Locals
  <2>1. ASSUME NEW r, x' = [x EXCEPT ![n] = r], r.at # "tear" PROVE EndsAllowed'
    BY <2>0, <2>1
  <2>2. ASSUME NEW r \in Local, NEW o, Leave(n, r, o),
               o \in Outcomes \cup {"err"} \/ (o = "cancelled" /\ pc = "gather")
        PROVE  EndsAllowed'
    <3> DEFINE t == [r EXCEPT !.at = "tear", !.result = o]
    <3>1. t.result = o /\ x' = [x EXCEPT ![n] = t]
      BY <2>2 DEF Leave, Local
    <3> HIDE DEF t
    <3> QED  BY <2>0, <2>2, <3>1
  <2>3. ASSUME NEW r \in Local, OnException(n, r) PROVE EndsAllowed'
    <3>1. CASE OutOfRetries(r)
      BY <2>2, <2>3, <3>1 DEF OnException
    <3>2. CASE ~OutOfRetries(r)
      <4>1. [r EXCEPT !.at = "act"].at # "tear"
        BY DEF Local
      <4> QED  BY <2>1, <2>3, <3>2, <4>1 DEF OnException, Retry
    <3> QED  BY <3>1, <3>2
  <2>4. ASSUME NEW r \in Local, Deny(n, r) PROVE EndsAllowed'
    <3>1. [r EXCEPT !.denied = TRUE] \in Local
      BY DEF Local
    <3> QED  BY <2>2, <2>4, <3>1 DEF Deny
  <2>5. ASSUME NEW o, End(n, o) PROVE EndsAllowed'
    <3>1. x' = [x EXCEPT ![n] = [x[n] EXCEPT !.at = "ended"]]
      BY <2>5 DEF End
    <3>2. [x[n] EXCEPT !.at = "ended"].at # "tear"
      BY <2>0 DEF Local
    <3> QED  BY <2>1, <3>1, <3>2
  <2>6. CASE Attempt(n)
    <3>1. x[n].at \in Before
      BY <2>6 DEF Attempt, Resumes, Before
    <3>2. NextAttempt(n) \in Local /\ \A a \in Actions : [NextAttempt(n) EXCEPT !.action = a] \in Local
      BY <3>1, NextAttemptIsOne DEF Trying
    <3>3. ASSUME NEW r \in Local, NEW w \in {"guard", "work"}, Continue(n, [r EXCEPT !.at = w])
          PROVE  EndsAllowed'
      <4>1. [r EXCEPT !.at = w].at # "tear"
        BY DEF Local
      <4> QED  BY <2>1, <3>3, <4>1 DEF Continue
    <3> QED  BY <2>3, <2>4, <2>6, <3>2, <3>3 DEF Attempt, Throw
  <2>7. CASE Confirm(n)
    <3>1. [x[n] EXCEPT !.at = "work", !.approved = x[n].attempt].at # "tear"
      BY <2>0 DEF Local
    <3> QED  BY <2>0, <2>1, <2>3, <2>4, <2>7, <3>1 DEF Confirm, Continue, Throw
  <2>8. CASE Work(n)
    BY <2>0, <2>2, <2>3, <2>4, <2>8 DEF Work, Throw
  <2>9. CASE TearDown(n)
    BY <2>5, <2>9 DEF TearDown
  <2>10. CASE Cancelled(n)
    <3>1. pc = "gather"
      BY <2>10 DEF Cancelled
    <3>2. CASE Continue(n, x[n])
      BY <2>0, <2>10, <3>1, <3>2 DEF Continue
    <3> QED  BY <2>0, <2>2, <2>3, <2>4, <2>5, <2>10, <3>1, <3>2 DEF Cancelled, Throw
  <2> QED  BY <1>7, <2>6, <2>7, <2>8, <2>9, <2>10 DEF Execute
<1>8. CASE Terminated /\ UNCHANGED executors
  BY <1>1, <1>8 DEF Terminated, swarmVars
<1> QED
  BY <1>1, <1>2, <1>3, <1>4, <1>5, <1>6, <1>7, <1>8 DEF SwarmNext, SwarmEngineStep

(* Updates of a record with the fields of a tracker's state.               *)
LEMMA StatusUpdate ==
  ASSUME NEW v, NEW t, NEW d, NEW s, NEW a, NEW y,
         v = [total |-> t, done |-> d, status |-> s, attempts |-> a]
  PROVE  [v EXCEPT !.status = y] = [total |-> t, done |-> d, status |-> y, attempts |-> a]
OBVIOUS

LEMMA AttemptsUpdate ==
  ASSUME NEW v, NEW t, NEW d, NEW s, NEW a, NEW y,
         v = [total |-> t, done |-> d, status |-> s, attempts |-> a]
  PROVE  [v EXCEPT !.attempts = y] = [total |-> t, done |-> d, status |-> s, attempts |-> y]
OBVIOUS

LEMMA DoneUpdate ==
  ASSUME NEW v, NEW t, NEW d, NEW s, NEW a, NEW y,
         v = [total |-> t, done |-> d, status |-> s, attempts |-> a]
  PROVE  [v EXCEPT !.done = y] = [total |-> t, done |-> y, status |-> s, attempts |-> a]
OBVIOUS

LEMMA TotalUpdate ==
  ASSUME NEW v, NEW t, NEW d, NEW s, NEW a, NEW y,
         v = [total |-> t, done |-> d, status |-> s, attempts |-> a]
  PROVE  [v EXCEPT !.total = y] = [total |-> y, done |-> d, status |-> s, attempts |-> a]
OBVIOUS

(* A record of that type is given by its fields.                           *)
LEMMA FieldsMakeRecord ==
  ASSUME NEW T, NEW D, NEW S, NEW A,
         NEW v \in [total : T, done : D, status : S, attempts : A]
  PROVE  v = [total |-> v.total, done |-> v.done, status |-> v.status,
              attempts |-> v.attempts]
OBVIOUS

(* The tracker's state with its retries hidden, field by field.            *)
QuietStatus(v) ==
  [n \in Nodes |-> IF v.status[n] = "retrying" THEN "running" ELSE v.status[n]]

LEMMA QuietForm ==
  ASSUME NEW v \in Views
  PROVE  Quiet(v) = [total |-> v.total, done |-> v.done, status |-> QuietStatus(v),
                     attempts |-> [n \in Nodes |-> 0]]
<1> DEFINE t == v.total
           d == v.done
           u == v.status
           w == v.attempts
           s == QuietStatus(v)
           z == [n \in Nodes |-> 0]
           v1 == [v EXCEPT !.status = s]
<1>1. Quiet(v) = [v1 EXCEPT !.attempts = z]
  BY DEF Quiet, QuietStatus
<1>2. v = [total |-> t, done |-> d, status |-> u, attempts |-> w]
  BY FieldsMakeRecord DEF Views
<1> HIDE DEF t, d, u, w, s, z
<1>3. v1 = [total |-> t, done |-> d, status |-> s, attempts |-> w]
  BY <1>2, StatusUpdate
<1> HIDE DEF v1
<1>4. [v1 EXCEPT !.attempts = z] =
        [total |-> t, done |-> d, status |-> s, attempts |-> z]
  BY <1>3, AttemptsUpdate
<1> QED  BY <1>1, <1>4 DEF t, d, s, z

(* Hiding the retries commutes with showing the events of the engine.      *)
LEMMA QuietNodeEvent ==
  ASSUME NEW v \in Views, NEW n \in Nodes,
         NEW t \in {"node_running", "node_completed", "node_failed", "node_skipped"}
  PROVE  Quiet(Handle(v, NodeEvent(t, n))) =
           Abstract!Handle(Quiet(v), Abstract!NodeEvent(t, n))
<1> DEFINE h == Handle(v, NodeEvent(t, n))
<1>1. h \in Views
  BY HandleType
<1>2. h = [v EXCEPT !.status = [v.status EXCEPT ![n] = ShownAs(t)]]
  BY DEF Handle, NodeEvent, Views
<1>3. h.total = v.total /\ h.done = v.done /\ h.status = [v.status EXCEPT ![n] = ShownAs(t)]
  BY <1>2 DEF Views
<1> HIDE DEF h
<1>4. ShownAs(t) # "retrying"
  BY DEF ShownAs
<1>5. QuietStatus(h) = [QuietStatus(v) EXCEPT ![n] = ShownAs(t)]
  BY <1>3, <1>4 DEF QuietStatus, Views
<1>6. Quiet(h) = [total |-> v.total, done |-> v.done,
                  status |-> [QuietStatus(v) EXCEPT ![n] = ShownAs(t)],
                  attempts |-> [m \in Nodes |-> 0]]
  BY <1>1, <1>3, <1>5, QuietForm
<1>7. Abstract!Handle(Quiet(v), Abstract!NodeEvent(t, n)) =
        [Quiet(v) EXCEPT !.status[n] = ShownAs(t)]
  BY DEF Abstract!Handle, Abstract!NodeEvent, Abstract!ShownAs, ShownAs
<1> QED  BY <1>6, <1>7, QuietForm DEF h

LEMMA QuietDagEvent ==
  ASSUME NEW v \in Views
  PROVE  /\ Quiet(BlankView) = Abstract!BlankView
         /\ Quiet(Handle(BlankView, DagStarted)) =
              Abstract!Handle(Abstract!BlankView, Abstract!DagStarted)
         /\ Quiet(Handle(v, DagCompleted)) = Abstract!Handle(Quiet(v), Abstract!DagCompleted)
<1>1. Quiet(BlankView) = Abstract!BlankView
  BY BlankType, QuietForm DEF BlankView, Abstract!BlankView, QuietStatus, Abstract!Nodes, Nodes
<1>2. Quiet(Handle(BlankView, DagStarted)) =
        Abstract!Handle(Abstract!BlankView, Abstract!DagStarted)
  <2>1. Handle(BlankView, DagStarted) \in Views
    BY BlankType, HandleType
  <2>2. Handle(BlankView, DagStarted) = [BlankView EXCEPT !.total = N]
    BY DEF Handle, DagStarted
  <2>3. Abstract!Handle(Abstract!BlankView, Abstract!DagStarted) =
          [Quiet(BlankView) EXCEPT !.total = N]
    BY <1>1 DEF Abstract!Handle, Abstract!DagStarted
  <2> DEFINE h == Handle(BlankView, DagStarted)
             z == [n \in Nodes |-> 0]
             s == [n \in Nodes |-> "absent"]
  <2>4. h.total = N /\ h.done = FALSE /\ h.status = s
    BY <2>2 DEF BlankView
  <2>5. QuietStatus(h) = s
    BY <2>4 DEF QuietStatus
  <2> HIDE DEF h
  <2>6. Quiet(h) = [total |-> N, done |-> FALSE, status |-> s, attempts |-> z]
    BY <2>1, <2>4, <2>5, QuietForm DEF h
  <2>7. Quiet(BlankView) = [total |-> 0, done |-> FALSE, status |-> s, attempts |-> z]
    <3>1. QuietStatus(BlankView) = s
      BY DEF QuietStatus, BlankView
    <3>2. BlankView.total = 0 /\ BlankView.done = FALSE
      BY DEF BlankView
    <3> QED  BY <3>1, <3>2, BlankType, QuietForm
  <2> DEFINE q == Quiet(BlankView)
             o == 0
             e == FALSE
  <2>8. q = [total |-> o, done |-> e, status |-> s, attempts |-> z]
    BY <2>7
  <2> HIDE DEF s, z, q, o, e
  <2>9. [q EXCEPT !.total = N] =
          [total |-> N, done |-> e, status |-> s, attempts |-> z]
    BY <2>8, TotalUpdate
  <2> QED  BY <2>3, <2>6, <2>9, Zenon DEF h, q, e
<1>3. Quiet(Handle(v, DagCompleted)) = Abstract!Handle(Quiet(v), Abstract!DagCompleted)
  <2>1. Handle(v, DagCompleted) \in Views
    BY HandleType
  <2>2. Handle(v, DagCompleted) = [v EXCEPT !.done = TRUE]
    BY DEF Handle, DagCompleted
  <2>3. Abstract!Handle(Quiet(v), Abstract!DagCompleted) = [Quiet(v) EXCEPT !.done = TRUE]
    BY DEF Abstract!Handle, Abstract!DagCompleted
  <2>4. QuietStatus(Handle(v, DagCompleted)) = QuietStatus(v)
    BY <2>2 DEF QuietStatus, Views
  <2>5. Handle(v, DagCompleted).total = v.total /\ Handle(v, DagCompleted).done = TRUE
    BY <2>2 DEF Views
  <2>6. Quiet(Handle(v, DagCompleted)) =
          [total |-> v.total, done |-> TRUE, status |-> QuietStatus(v),
           attempts |-> [n \in Nodes |-> 0]]
    BY <2>1, <2>4, <2>5, QuietForm
  <2> DEFINE t == v.total
             d == v.done
             s == QuietStatus(v)
             z == [n \in Nodes |-> 0]
             q == Quiet(v)
             e == TRUE
  <2>7. q = [total |-> t, done |-> d, status |-> s, attempts |-> z]
    BY QuietForm
  <2> HIDE DEF t, d, s, z, q, e
  <2>8. [q EXCEPT !.done = e] = [total |-> t, done |-> e, status |-> s, attempts |-> z]
    BY <2>7, DoneUpdate
  <2> QED  BY <2>3, <2>6, <2>8 DEF t, d, s, z, q, e
<1> QED  BY <1>1, <1>2, <1>3

(* A retry of a node that is shown as running is invisible.                *)
LEMMA QuietRetry ==
  ASSUME NEW v \in Views, NEW n \in Nodes, NEW a \in Nat,
         v.status[n] \in {"running", "retrying"}
  PROVE  Quiet(Handle(v, NodeRetry(n, a))) = Quiet(v)
<1> DEFINE h == Handle(v, NodeRetry(n, a))
<1>1. h \in Views
  BY RetryType
<1>2. h.total = v.total /\ h.done = v.done /\ h.status = [v.status EXCEPT ![n] = "retrying"]
  BY RetryShows
<1> HIDE DEF h
<1>3. QuietStatus(h) = QuietStatus(v)
  BY <1>2 DEF QuietStatus, Views
<1> QED  BY <1>1, <1>2, <1>3, QuietForm DEF h

LEMMA SwarmInitRefines == SwarmInit => Abstract!Init
BY QuietDagEvent, BlankType
DEF SwarmInit, Init, Abstract!Init, Abstract!Nodes, Nodes, Abstract!NoContext, NoContext
(* Each step of the engine's side is that step of the abstract engine.     *)
LEMMA EngineSideRefines ==
  ASSUME SInv, SwarmEngineStep
  PROVE  Abstract!EngineStep
<1> USE DEF node, sets, Abstract!node, Abstract!sets, Abstract!Nodes
<1>0. view \in Views /\ Nodes = 1..N
  BY DEF SInv, IInv, TypeOK, Nodes
<1>a. \A n \in Nodes : Skip(n) \/ Launch(n) => Abstract!At(n)
  BY <1>0 DEF Skip, Launch, At, Actionable, HasBlockedDep, DepsCompleted,
     Abstract!At, Abstract!Actionable, Abstract!HasBlockedDep, Abstract!DepsCompleted
<1>b. AtEndOfPass <=> Abstract!AtEndOfPass
  BY DEF AtEndOfPass, Actionable, HasBlockedDep, DepsCompleted, Abstract!AtEndOfPass,
     Abstract!Actionable, Abstract!HasBlockedDep, Abstract!DepsCompleted
<1>1. CASE SwarmStart
  <2>1. Quiet(view)' = Abstract!Handle(Abstract!BlankView, Abstract!DagStarted)
    BY <1>0, <1>1, QuietDagEvent DEF SwarmStart, Start
  <2>2. Abstract!Start
    BY <1>1, <2>1 DEF SwarmStart, Start, BeginPass, NoContext, Nodes,
       Abstract!Start, Abstract!BeginPass, Abstract!NoContext
  <2> QED  BY <2>2 DEF Abstract!EngineStep
<1>2. ASSUME NEW n \in Nodes, SwarmCreateTask(n) PROVE Abstract!EngineStep
  <2>1. Quiet(view)' = Quiet(view)
    BY <1>2 DEF SwarmCreateTask, CreateTask
  <2>2. Abstract!CreateTask(n)
    BY <1>0, <1>2, <2>1 DEF SwarmCreateTask, CreateTask, Abstract!CreateTask, Nodes
  <2> QED  BY <1>0, <2>2 DEF Abstract!EngineStep, Abstract!Schedule
<1>3. CASE SwarmAbort
  <2>1. Quiet(view)' = Quiet(view)
    BY <1>3 DEF SwarmAbort, Abort
  <2>2. Abstract!Abort
    BY <1>3, <2>1 DEF SwarmAbort, Abort, Abstract!Abort
  <2> QED  BY <2>2 DEF Abstract!EngineStep
<1>4. ASSUME NEW n \in Nodes, Skip(n) \/ Launch(n) PROVE Abstract!EngineStep
  <2>1. CASE Skip(n)
    <3>1. Quiet(view)' = Abstract!Handle(Quiet(view), Abstract!NodeEvent("node_skipped", n))
      BY <1>0, <2>1, QuietNodeEvent DEF Skip
    <3>2. Abstract!Skip(n)
      BY <1>a, <2>1, <3>1 DEF Skip, HasBlockedDep, Abstract!Skip, Abstract!HasBlockedDep
    <3> QED  BY <1>0, <3>2 DEF Abstract!EngineStep, Abstract!Schedule
  <2>2. CASE Launch(n)
    <3>1. Quiet(view)' = Abstract!Handle(Quiet(view), Abstract!NodeEvent("node_running", n))
      BY <1>0, <2>2, QuietNodeEvent DEF Launch
    <3>2. Abstract!Launch(n)
      BY <1>a, <2>2, <3>1 DEF Launch, HasBlockedDep, Abstract!Launch, Abstract!HasBlockedDep
    <3> QED  BY <1>0, <3>2 DEF Abstract!EngineStep, Abstract!Schedule
  <2> QED  BY <1>4, <2>1, <2>2
<1>5. ASSUME NEW n \in Nodes, Process(n) PROVE Abstract!EngineStep
  <2>1. CASE Complete(n)
    <3>1. Quiet(view)' = Abstract!Handle(Quiet(view), Abstract!NodeEvent("node_completed", n))
      BY <1>0, <2>1, QuietNodeEvent DEF Complete
    <3>2. Abstract!Complete(n)
      BY <2>1, <3>1 DEF Complete, Take, Abstract!Complete, Abstract!Take
    <3> QED  BY <1>0, <3>2 DEF Abstract!EngineStep, Abstract!Process
  <2>2. CASE Fail(n)
    <3>1. Quiet(view)' = Abstract!Handle(Quiet(view), Abstract!NodeEvent("node_failed", n))
      BY <1>0, <2>2, QuietNodeEvent DEF Fail
    <3>2. Abstract!Fail(n)
      BY <2>2, <3>1 DEF Fail, Take, AfterFailure, Abstract!Fail, Abstract!Take,
         Abstract!AfterFailure
    <3> QED  BY <1>0, <3>2 DEF Abstract!EngineStep, Abstract!Process
  <2>3. CASE Raise(n)
    <3>1. Quiet(view)' = Quiet(view)
      BY <2>3 DEF Raise
    <3>2. Abstract!Raise(n)
      BY <2>3, <3>1 DEF Raise, Take, Abstract!Raise, Abstract!Take
    <3> QED  BY <1>0, <3>2 DEF Abstract!EngineStep, Abstract!Process
  <2> QED  BY <1>5, <2>1, <2>2, <2>3 DEF Process
<1>6. CASE NextPass \/ Wait \/ Wake \/ EndBatch
  <2>1. Quiet(view)' = Quiet(view)
    BY <1>6 DEF NextPass, Wait, Wake, EndBatch
  <2>2. Abstract!NextPass \/ Abstract!Wait \/ Abstract!Wake \/ Abstract!EndBatch
    BY <1>b, <1>6, <2>1
    DEF NextPass, Wait, Wake, EndBatch, Settled, BeginPass, Ended, TaskEnd,
        Abstract!NextPass, Abstract!Wait, Abstract!Wake, Abstract!EndBatch,
        Abstract!Settled, Abstract!BeginPass, Abstract!Ended, Abstract!TaskEnd
  <2> QED  BY <2>2 DEF Abstract!EngineStep
<1>7. CASE Return
  <2>1. Quiet(view)' = Abstract!Handle(Quiet(view), Abstract!DagCompleted)
    BY <1>0, <1>7, QuietDagEvent DEF Return
  <2>2. Abstract!Return
    BY <1>b, <1>7, <2>1 DEF Return, Settled, Abstract!Return, Abstract!Settled
  <2> QED  BY <2>2 DEF Abstract!EngineStep
<1>8. CASE Reap
  <2>1. Quiet(view)' = Abstract!Handle(Quiet(view), Abstract!DagCompleted)
    BY <1>0, <1>8, QuietDagEvent DEF Reap
  <2>2. Abstract!Reap
    BY <1>8, <2>1 DEF Reap, AllGathered, Unfinished, TaskEnd, Nodes, Abstract!Reap,
       Abstract!AllGathered, Abstract!Unfinished, Abstract!TaskEnd
  <2> QED  BY <2>2 DEF Abstract!EngineStep
<1> QED
  BY <1>1, <1>2, <1>3, <1>4, <1>5, <1>6, <1>7, <1>8 DEF SwarmEngineStep

(* A step of an executor ends its task, as the engine allows, or is one    *)
(* the engine does not see.                                                *)
LEMMA ExecuteRefines ==
  ASSUME "err" \in Outcomes, SInv, ShowsInFlight, EndsAllowed,
         NEW n \in Nodes, Execute(n)
  PROVE  Abstract!Finish(n) \/ UNCHANGED Abstract!vars
<1> USE DEF engineVars, node, sets, Abstract!vars, Abstract!node, Abstract!sets
<1>0. view \in Views /\ UNCHANGED engineVars
  BY DEF SInv, IInv, TypeOK, Execute, Attempt, Confirm, Work, TearDown, Cancelled, Resumes
<1>1. ASSUME NEW o, End(n, o), o \in Outcomes \/ (o = "cancelled" /\ pc = "gather")
      PROVE  Abstract!Finish(n)
  <2>1. Quiet(view)' = Quiet(view)
    BY <1>1 DEF End
  <2>2. o \in Outcomes \cup (IF pc = "gather" THEN {"cancelled"} ELSE {})
    BY <1>1
  <2> QED
    BY <1>0, <1>1, <2>1, <2>2
    DEF End, EndsWith, Abstract!Finish, Abstract!EndsWith, Abstract!Cancelling
<1>2. ASSUME NEW r, NEW o, Leave(n, r, o) PROVE UNCHANGED Abstract!vars
  <2>1. Quiet(view)' = Quiet(view)
    BY <1>2 DEF Leave
  <2> QED  BY <1>0, <1>2, <2>1 DEF Leave
<1>3. ASSUME NEW r, Continue(n, r) PROVE UNCHANGED Abstract!vars
  <2>1. Quiet(view)' = Quiet(view)
    BY <1>3 DEF Continue
  <2> QED  BY <1>0, <1>3, <2>1 DEF Continue
<1>4. ASSUME NEW r \in Local, OnException(n, r), task[n] = "live"
      PROVE  UNCHANGED Abstract!vars
  <2>1. CASE OutOfRetries(r)
    BY <1>2, <1>4, <2>1 DEF OnException
  <2>2. CASE ~OutOfRetries(r)
    <3>1. Retry(n, r) /\ r.attempt \in Nat
      BY <1>4, <2>2, SwarmAssumption DEF OnException, Local
    <3>2. view.status[n] \in {"running", "retrying"}
      BY <1>4 DEF SInv, IInv, Tasks, ShowsInFlight, InFlight
    <3>3. Quiet(view)' = Quiet(view)
      BY <1>0, <3>1, <3>2, QuietRetry DEF Retry
    <3> QED  BY <1>0, <3>1, <3>3 DEF Retry
  <2> QED  BY <2>1, <2>2
<1>5. ASSUME NEW r, Deny(n, r) PROVE UNCHANGED Abstract!vars
  BY <1>2, <1>5 DEF Deny
<1>6. x[n] \in Local /\ (x[n].at \notin {"none", "ended"} => task[n] = "live")
  BY DEF SInv, Locals, TasksMatch
<1>7. CASE Attempt(n)
  <2>1. x[n].at \in Before
    BY <1>7 DEF Attempt, Resumes, Before
  <2>2. NextAttempt(n) \in Local
    BY <2>1, NextAttemptIsOne DEF Trying
  <2>3. task[n] = "live"
    BY <1>6, <2>1 DEF Before
  <2> QED  BY <1>3, <1>4, <1>5, <1>7, <2>2, <2>3 DEF Attempt, Throw
<1>8. CASE Confirm(n)
  BY <1>3, <1>4, <1>5, <1>6, <1>8 DEF Confirm, Resumes, Throw
<1>9. CASE Work(n)
  BY <1>2, <1>4, <1>5, <1>6, <1>9 DEF Work, Resumes, Throw
<1>10. CASE TearDown(n)
  <2>1. x[n].result \in Outcomes \/ (x[n].result = "cancelled" /\ pc = "gather")
    BY <1>10 DEF TearDown, Resumes, EndsAllowed
  <2> QED  BY <1>1, <1>10, <2>1 DEF TearDown
<1>11. CASE Cancelled(n)
  <2>1. pc = "gather"
    BY <1>11 DEF Cancelled, EndsAllowed
  <2> QED  BY <1>1, <1>2, <1>3, <1>4, <1>5, <1>6, <1>11, <2>1 DEF Cancelled, Throw
<1> QED  BY <1>7, <1>8, <1>9, <1>10, <1>11 DEF Execute

LEMMA SwarmStepRefines ==
  ASSUME "err" \in Outcomes, SInv, ShowsInFlight, EndsAllowed, [SwarmNext]_swarmVars
  PROVE  [Abstract!Next]_(Abstract!vars)
<1>1. CASE UNCHANGED swarmVars
  BY <1>1 DEF swarmVars, vars, node, sets, Abstract!vars, Abstract!node, Abstract!sets
<1>2. CASE SwarmEngineStep
  BY <1>2, EngineSideRefines DEF Abstract!Next
<1>3. ASSUME NEW n \in Nodes, Execute(n) PROVE [Abstract!Next]_(Abstract!vars)
  BY <1>3, ExecuteRefines DEF Abstract!Next, Abstract!Nodes, Nodes
<1>4. CASE Terminated /\ UNCHANGED executors
  BY <1>1, <1>4 DEF Terminated, swarmVars
<1> QED  BY <1>1, <1>2, <1>3, <1>4 DEF SwarmNext

(* The swarm is an engine whose executors end: what is shown of the engine *)
(* holds of the swarm, whatever agents, users and teardowns do.            *)
THEOREM SwarmRefinesEngine ==
  ASSUME "err" \in Outcomes
  PROVE  SwarmSpec => Abstract!Init /\ [][Abstract!Next]_(Abstract!vars)
<1> DEFINE Seen == SInv /\ ShowsInFlight /\ EndsAllowed
<1>1. SwarmInit => Seen /\ Abstract!Init
  BY InitSInv, InitShowing, SwarmInitRefines
<1>2. Seen /\ [SwarmNext]_swarmVars => Seen'
  BY SwarmNextKeeps, ShowingStays, EndsStayAllowed
<1>3. Seen /\ [SwarmNext]_swarmVars => [Abstract!Next]_(Abstract!vars)
  BY SwarmStepRefines
<1> QED  BY <1>1, <1>2, <1>3, PTL DEF SwarmSpec
=============================================================================

------------------------------- MODULE Swarm --------------------------------
(***************************************************************************)
(* Swarm.run (omniord/agents/swarm.py): the executor the swarm gives the   *)
(* engine.  Around each node it takes a snapshot of the working memory,    *)
(* has the guard review what the agent declares, runs the agent, retries,  *)
(* tears the agent down and records the outputs.                           *)
(*                                                                         *)
(* The engine's actions are those of Engine; its Finish(n) is replaced by  *)
(* the steps of the executor of n, which are the stretches of execute()    *)
(* between the awaits that may suspend: enforce (a confirmation), the      *)
(* agent's run, the publication of NODE_RETRY and the teardown.            *)
(***************************************************************************)
EXTENDS Engine, Guard

CONSTANTS
  Actions,        \* what agents declare: actions and NoAction
  Answers,        \* what the confirmation handler may do, {} without a handler
  MaxRetries,     \* the swarm's max_retries
  FragileAgents,  \* whether action_for and teardown may raise
  Assigned        \* assign(): a function from some nodes to agents

ASSUME SwarmAssumption ==
  /\ Actions \subseteq Action \cup {NoAction}
  /\ Answers \subseteq {"yes", "no", "raises"}
  /\ MaxRetries \in Nat
  /\ FragileAgents \in BOOLEAN
  /\ DOMAIN Assigned \subseteq Nodes

VARIABLES
  x,         \* the local state of execute() for each node
  cancel,    \* the nodes whose task was cancelled and has not resumed since
  memory,    \* the run whose outputs of a node working memory holds, 0 for none
  torn       \* the agents that were torn down

executors == <<x, cancel, memory, torn>>
swarmVars == <<vars, executors>>

NoMemory == [m \in Nodes |-> 0]

Idle == [at      |-> "none",        \* none, begin, act, guard, work, tear or ended
         attempt |-> 0,
         action  |-> NoAction,      \* the action declared in this attempt
         approved |-> 0,            \* the last attempt the user approved, and
         denied  |-> FALSE,         \* whether ActionDenied was raised (history)
         result  |-> "none",        \* how the try block was left
         snap    |-> NoMemory]      \* context["memory"]

Local == [at      : {"none", "begin", "act", "guard", "work", "tear", "ended"},
          attempt : 0..(MaxRetries + 1),
          action  : Actions \cup {NoAction},
          approved : 0..(MaxRetries + 1),
          denied  : BOOLEAN,
          result  : {"none"} \cup TaskEnd,
          snap    : [Nodes -> 0..MaxRuns]]

\* The selector makes a new agent for each call; an assigned agent is kept.
Agent_Kept(n) == <<n, 0>>     \* mutant: the selector's agent is kept for the next run
Agent(n) == IF n \in DOMAIN Assigned THEN <<Assigned[n], 0>> ELSE <<n, run>>

SwarmInit ==
  /\ Init
  /\ x = [n \in Nodes |-> Idle]
  /\ cancel = {}
  /\ memory = NoMemory
  /\ torn = {}

-----------------------------------------------------------------------------
(***************************************************************************)
(* The engine's side.  Working memory is not cleared by a new run.         *)
(***************************************************************************)
SwarmStart ==
  /\ Start
  /\ x' = [n \in Nodes |-> Idle]
  /\ UNCHANGED <<cancel, memory, torn>>

SwarmCreateTask(n) ==
  /\ CreateTask(n)
  /\ x' = [x EXCEPT ![n].at = "begin"]
  /\ UNCHANGED <<cancel, memory, torn>>

SwarmAbort ==
  /\ Abort
  /\ cancel' = {n \in running : task[n] = "live"}
  /\ UNCHANGED <<x, memory, torn>>

SwarmEngineStep ==
  \/ SwarmStart
  \/ \E n \in Nodes : SwarmCreateTask(n)
  \/ SwarmAbort
  \/ /\ \/ \E n \in Nodes : Skip(n) \/ Launch(n) \/ Process(n)
        \/ NextPass \/ Wait \/ Return \/ Wake \/ EndBatch \/ Reap
     /\ UNCHANGED executors

-----------------------------------------------------------------------------
(***************************************************************************)
(* How a step of execute() leaves the local state r of the node's executor.*)
(***************************************************************************)
engineVars == <<deps, node, run, sets, pc, pos, changed>>

Continue(n, r) ==
  /\ x' = [x EXCEPT ![n] = r]
  /\ UNCHANGED <<torn, view, task, memory>>

\* The finally clause: the teardown of the agent begins.
Leave_NoFinally(n, r, result) ==     \* mutant: no teardown when cancelled
  /\ x' = [x EXCEPT ![n] = [r EXCEPT !.at = "tear", !.result = result]]
  /\ torn' = IF result = "cancelled" THEN torn ELSE torn \cup {Agent(n)}
  /\ UNCHANGED <<view, task, memory>>

Leave(n, r, result) ==
  /\ x' = [x EXCEPT ![n] = [r EXCEPT !.at = "tear", !.result = result]]
  /\ torn' = torn \cup {Agent(n)}
  /\ UNCHANGED <<view, task, memory>>

Retry_RunsAgain(n, r) ==     \* mutant: the loop is around the agent's run only
  /\ x' = [x EXCEPT ![n] = [r EXCEPT !.at = "work", !.attempt = @ + 1]]
  /\ view' = Handle(view, NodeRetry(n, r.attempt))
  /\ UNCHANGED <<torn, task, memory>>

Retry_ShowsFailure(n, r) ==     \* mutant: a retry is published as a failure
  /\ x' = [x EXCEPT ![n] = [r EXCEPT !.at = "act"]]
  /\ view' = Handle(view, NodeEvent("node_failed", n))
  /\ UNCHANGED <<torn, task, memory>>

Retry(n, r) ==
  /\ x' = [x EXCEPT ![n] = [r EXCEPT !.at = "act"]]
  /\ view' = Handle(view, NodeRetry(n, r.attempt))
  /\ UNCHANGED <<torn, task, memory>>

OutOfRetries_OneShort(r) == r.attempt >= MaxRetries     \* mutants
OutOfRetries_OneMore(r)  == r.attempt > MaxRetries + 1
OutOfRetries(r) == r.attempt > MaxRetries

OnException(n, r) ==
  IF OutOfRetries(r) THEN Leave(n, r, "err") ELSE Retry(n, r)

\* Mutant: `except Exception` also catches ActionDenied.
Deny_Retried(n, r) == OnException(n, [r EXCEPT !.denied = TRUE])

\* ActionDenied is re-raised, whatever retries are left.
Deny(n, r) == Leave(n, [r EXCEPT !.denied = TRUE], "err")

\* Whatever is called in the try block may raise either kind of exception.
Throw(n, r) == OnException(n, r) \/ Deny(n, r)

\* Mutants: the outputs are recorded whatever happened, or never overwritten.
Record_Always(n, o) == memory' = [memory EXCEPT ![n] = run]
Record_Once(n, o)   == memory' = IF o = "ok" /\ memory[n] = 0
                                 THEN [memory EXCEPT ![n] = run] ELSE memory

\* The coroutine ends; outputs are recorded on the way out.
Record(n, o) == memory' = IF o = "ok" THEN [memory EXCEPT ![n] = run] ELSE memory

End(n, o) ==
  /\ EndsWith(n, o)
  /\ x' = [x EXCEPT ![n].at = "ended"]
  /\ Record(n, o)
  /\ UNCHANGED <<torn, view>>

-----------------------------------------------------------------------------
\* The executor of n can run, and no cancellation is waiting for it.
Resumes(n, at) == x[n].at = at /\ n \notin cancel /\ UNCHANGED <<engineVars, cancel>>

(***************************************************************************)
(* One more attempt: the agent declares its action from the context and    *)
(* the guard reviews it.  The first attempt takes the snapshot.            *)
(***************************************************************************)
NextAttempt(n) ==
  [x[n] EXCEPT !.attempt = @ + 1,
               !.snap    = IF x[n].at = "begin" THEN memory ELSE @]

Attempt(n) ==
  /\ Resumes(n, "begin") \/ Resumes(n, "act")
  /\ LET r == NextAttempt(n) IN
     \/ \E a \in Actions :
          LET ra == [r EXCEPT !.action = a] IN
          \/ /\ ~NeedsConfirmation(a)
             /\ Continue(n, [ra EXCEPT !.at = "work"])
          \/ /\ NeedsConfirmation(a) /\ Answers # {}
             /\ Continue(n, [ra EXCEPT !.at = "guard"])
          \/ /\ NeedsConfirmation(a) /\ Answers = {}
             /\ Deny(n, ra)
     \/ FragileAgents /\ Throw(n, r)

\* The confirmation handler answers; a refusal is terminal.
Confirm(n) ==
  /\ Resumes(n, "guard")
  /\ \E answer \in Answers :
       \/ /\ answer = "yes"
          /\ Continue(n, [x[n] EXCEPT !.at = "work", !.approved = x[n].attempt])
       \/ answer = "no"     /\ Deny(n, x[n])
       \/ answer = "raises" /\ Throw(n, x[n])

Work(n) ==
  /\ Resumes(n, "work")
  /\ \E o \in Outcomes :
       IF o = "err" THEN Throw(n, x[n]) ELSE Leave(n, x[n], o)

\* The teardown is over; one that raises replaces what the node would return.
TearDown(n) ==
  /\ Resumes(n, "tear")
  /\ \/ End(n, x[n].result)
     \/ FragileAgents /\ End(n, "err")

(***************************************************************************)
(* A cancelled task resumes with CancelledError: a coroutine that has not  *)
(* begun never does; the agent, the confirmation and the teardown let it   *)
(* through, turn it into another exception, or swallow it.  A handler that *)
(* NODE_RETRY is published to may do so too, but the bus drops exceptions. *)
(***************************************************************************)
Cancelled(n) ==
  /\ n \in cancel
  /\ cancel' = cancel \ {n}
  /\ UNCHANGED engineVars
  /\ \/ x[n].at = "begin" /\ End(n, "cancelled")
     \/ x[n].at \in {"act", "guard", "work"} /\ Leave(n, x[n], "cancelled")
     \/ x[n].at \in {"act", "guard", "work"} /\ Continue(n, x[n])
     \/ x[n].at \in {"guard", "work"} /\ Throw(n, x[n])
     \/ /\ x[n].at = "tear"
        /\ End(n, "cancelled") \/ End(n, "err") \/ Continue(n, x[n])

Execute(n) == Attempt(n) \/ Confirm(n) \/ Work(n) \/ TearDown(n) \/ Cancelled(n)

SwarmNext ==
  \/ SwarmEngineStep
  \/ \E n \in Nodes : Execute(n)
  \/ Terminated /\ UNCHANGED executors

(***************************************************************************)
(* Confirmations are answered, agents and teardowns return.                *)
(***************************************************************************)
SwarmSpec ==
  /\ SwarmInit /\ [][SwarmNext]_swarmVars
  /\ WF_swarmVars(SwarmEngineStep)
  /\ \A n \in Nodes : WF_swarmVars(Execute(n))

-----------------------------------------------------------------------------
(***************************************************************************)
(* Properties.                                                             *)
(***************************************************************************)
SwarmTypeOK ==
  /\ TypeOK
  /\ x \in [Nodes -> Local]
  /\ cancel \subseteq {n \in Nodes : task[n] = "live"}
  /\ memory \in [Nodes -> 0..MaxRuns]
  /\ \A n \in Nodes : task[n] = "live" <=> x[n].at \notin {"none", "ended"}

(* An agent works on a dangerous action only if the user approved it in    *)
(* this very attempt: an approval does not carry over to a retry, which    *)
(* declares its action anew, and a destructive command is dangerous        *)
(* whatever kind it goes by (swarm.py:80-86, guard.py:95-100).             *)
Dangerous(a) == a.kind = "critical" \/ a.command = "destructive"
Reviewed ==
  \A n \in Nodes :
    x[n].at = "work" /\ Dangerous(x[n].action) => x[n].approved = x[n].attempt

(* A node fails after exactly the attempts it is entitled to (swarm.py:77):*)
(* a denial is terminal, whatever retries are left, and any other failure  *)
(* uses them all up first, not one attempt more, not one less.             *)
AttemptsExact ==
  \A n \in Nodes :
    /\ x[n].denied => x[n].at \in {"tear", "ended"} /\ x[n].result = "err" /\ task[n] # "ok"
    /\ x[n].result = "err" /\ ~x[n].denied => x[n].attempt = MaxRetries + 1

(* The snapshot an agent works with has the outputs of every dependency,   *)
(* of this run: they are recorded before the engine can see the dependency *)
(* complete (swarm.py:74 and 99, working.py:5).                            *)
SnapshotHasDeps ==
  \A n \in Nodes : x[n].attempt > 0 =>
    \A d \in deps[n] : x[n].snap[d] = run /\ context[n][d] = run

(* What completed is in working memory, and what failed left nothing there *)
(* in this run, not even when only its teardown failed.                    *)
MemoryMatches ==
  /\ \A n \in completed : memory[n] = run
  /\ \A n \in blocked : status[n] = "failed" => memory[n] # run

(* Every agent that was put to work is torn down by the time run() returns,*)
(* also when its task was cancelled (swarm.py:97-98).                      *)
TornDown ==
  pc = "returned" => \A n \in Nodes : x[n].attempt > 0 => Agent(n) \in torn

(* No agent is at work after its teardown began, unless it was assigned    *)
(* and serves another node or an earlier run as well (base.py:46, "Called  *)
(* by the swarm after the node completes").                                *)
Unshared(n) ==
  n \in DOMAIN Assigned =>
    run = 1 /\ \A m \in DOMAIN Assigned \ {n} : Assigned[m] # Assigned[n]

NotTornInUse ==
  \A n \in Nodes : x[n].at \in {"guard", "work"} /\ Unshared(n) => Agent(n) \notin torn

(***************************************************************************)
(* With the retries hidden from the tracker, the swarm is an engine whose  *)
(* executors end: all that was shown of the engine holds of the swarm.     *)
(***************************************************************************)
Quiet(v) ==
  [v EXCEPT !.status   = [n \in Nodes |-> IF v.status[n] = "retrying" THEN "running"
                                          ELSE v.status[n]],
            !.attempts = [n \in Nodes |-> 0]]

Abstract == INSTANCE Engine WITH view <- Quiet(view)

(* Every executor ends, whatever the agent, the user and the teardown do,  *)
(* and each step of it is one the engine allows for.                       *)
ImplementsEngine == Abstract!Spec
=============================================================================

# OMNIORD in TLA+

A specification of the OMNIORD orchestration framework (`src/omniord`): a call of
the command line from the model's plan to the stored episode, the task-graph
engine and the swarm that runs agents in it, the graph algorithms, the event bus,
the model router, the memory store, and the tool factory with its sandbox and
registry. TLC checks every module on small instances; TLAPS proves the central
results for every size. `PROJECT.json` maps each definition to the lines it
models, each property to a mutation of the code it catches, and each hazard to
the properties about it.

## The system

One `omniord run` (`main.py:_orchestrate`) is one process with one asyncio event
loop. The planner asks the router for a plan; the plan becomes a DAG; the
orchestrator recalls earlier episodes from the memory store, has the swarm run
the DAG through the engine, and stores the outcome. The engine announces what it
does on the event bus, where the progress tracker listens.

    main -> Planner -> Router -> providers (HTTP)
         -> Orchestrator -> MemoryStore (SQLite, threads)
                         -> Swarm -> Engine -> EventBus -> ProgressTracker
                               |-> SafetyGuard (asks the user)
                               |-> agents -> Router
                               '-> WorkingMemory
    ToolFactory -> CodeGenerator (Router), AST checker, Sandbox (processes), ToolRegistry (files)

Concurrency is cooperative: a coroutine runs until an `await` that suspends. So
an action of these modules is a stretch of code between two such points, and
what lies in one action is atomic in the program too. Threads of the memory
store, processes in the sandbox, other processes on the same files, the HTTP
servers, the user and the death of the program run beside it.

| Component | State | Operations | What is hard | What makes it correct |
|---|---|---|---|---|
| engine (`core/engine.py`) | the nodes' status and outputs; `completed`, `blocked`, `started`, `running` of a run | `run`: schedule passes, wait, process, abort | tasks end in any order and while the engine schedules; several in one batch; abort; a second run of the same DAG | a node runs once, after its dependencies; skips exactly below failures; every run ends with every node decided and no task alive |
| tracker (`progress.py`) | order, status and attempts shown | `handle`, `render` | what is shown is rebuilt from events alone | agrees with the nodes at the end |
| bus (`core/events.py`) | the list of handlers; a queue per stream | `subscribe` and its token, `publish`, `stream` | handlers come and go while a publication awaits one of them; concurrent publications; cancellation | a handler hears an event as often as it is subscribed; the tracker is never behind |
| swarm (`agents/swarm.py`), agents (`agents/base.py`), working memory (`memory/working.py`) | assigned agents, shared memory, attempt of each node | `run`, `assign`, `execute` | retries, denials, failing teardown, cancellation at every await | nothing dangerous without approval in this attempt; teardown exactly after use; memory agrees with the nodes |
| guard (`safety/guard.py`) | none | `assess`, `enforce` | order of the rules | a destructive command is critical whatever kind it goes by |
| DAG (`core/dag.py`) | nodes in order of insertion | `add`, `validate`, `topological_order`, `layers` | unknown and repeated ids, insertion order, counters | sorts exactly the acyclic graphs, in order; layers are as early as possible |
| router (`router/router.py`), providers | the cached health verdict | `generate`, `stream`, `embed`, `aclose` | concurrent checks coming back out of order, the time to live, timeouts, undecodable answers | acts on recent verdicts; respects a forced tier; falls back |
| registry (`tools/registry.py`) | module files and `index.json` | `register`, `remove`, `get`, `list`, `load_source` | a crash between or inside the writes | what was registered can be retrieved |
| sandbox (`tools/sandbox.py`) | a process and a directory per run | `run` | the timeout races with the end of the process; cancellation | leaves nothing behind |
| tool factory (`tools/factory.py`) | attempt, code, last error of each build | `build` | concurrent builds of one name; the end of the retries | registers only proven code; every build ends; failures are honest |
| memory store (`memory/store.py`) | the rows of an SQLite file, an open transaction, the lock of each connection | `add`, `search`, `get`, `all`, `count`, `delete` | threads outlive cancelled calls; a commit that fails leaves the transaction open; several processes | what `add` returned stays; nobody waits for ever |
| orchestrator (`core/orchestrator.py`), command line (`main.py`) | a run in progress | `run`: recall, swarm, persist | errors, cancellation and death between the run and its persistence | an episode tells the truth about its run; similar earlier ones are recalled |
| planner (`core/planner.py`) | none | `plan`, `to_dag` | malformed items are dropped one by one | no step runs without the steps the answer made it depend on |

The configuration and the AST checker are pure; their results are constants and
choices of the models.

## The modules

**Progress** is the tracker's state as a record and `handle` as the operator
`Handle`. The tracker is synchronous and the first subscriber (`main.py:165`),
so publishing an event and showing it are one step of Engine and Swarm;
`TrackerIsCurrent` of EventBus is what justifies this. **Engine** is `run()`: a
process with a program counter `pc`. Its `visit` loop is `schedule()`, which
suspends only where it publishes: `Launch` goes up to the publication of
NODE_RUNNING and `CreateTask` on from there, so other tasks end in between.
`Wake` takes the set `asyncio.wait` returned; `Complete`, `Fail` and `Raise`
process its members in any order; `Abort` and `Reap` are `_abort()` before and
after `gather`. `Start` makes fresh sets but finds the nodes as the last run
left them. `Finish` is any executor's end. **RunContract** is what `run()`
promises in terms of nodes alone; `Engine!KeepsContract` says the engine
implements it, and **EngineProofs** prove its safety half.

**Guard** is the guard's decision. **Swarm** extends Engine and replaces
`Finish(n)` by `execute()` of each node, from one suspending await to the next:
`Attempt` (snapshot, `action_for`, assessment), `Confirm` (the user), `Work` (the
agent), `TearDown`, and `Cancelled`, the resumption with CancelledError, which
the called code may pass on, swallow or turn into an exception. Whatever is called
may raise any exception (`Throw`): ActionDenied ends the node wherever it comes
from, any other one is retried.
`ImplementsEngine` says that, with retries hidden from the tracker, this is an
Engine; **SwarmProofs** prove the safety half of it and the swarm's invariants,
so all that is proved of the engine's safety is about the swarm too.

**EventBus** is the bus with concurrent publishers. `publish()` gives the loop up
only where a handler's result is awaitable: `turn` is the publisher that has the
loop. `Publish` copies the list, `Deliver` calls the next handler, `Resume` comes
back from an awaited one, `Finish` and `Cancel` end the publication. `Subscribe`
and `Unsubscribe` belong to any coroutine while no publisher has the loop, and
to the handler being called while one has. A stream is a handler whose queue is
what it heard. The history of each event says who was due when its publication
began. **BusProofs** are about it.

**Dag** is the graph under construction and its three algorithms, one action per
loop iteration. **TopoSort** is what a sort promises, without counters;
`SortsTopologically` says Dag implements it. **DagProofs** prove that of every step,
and the rest of Dag's properties; **TopoSortProofs** prove that a sort of any graph
succeeds exactly when there is no cycle. That is the assumption `Acyclic` of Engine.

**Plan** has the planner's pure part: `Parse` keeps the well-formed items of an
answer, `PlanFor` falls back to the task as the only step, `Accepted` and `ToDag`
are `to_dag`. **MemoryStore** is the store. `Submit` hands a row to a thread;
`Insert` takes the lock and executes the statement, which opens the
connection's transaction (`writer`, and `draft`, the table as it sees it); `Commit`
succeeds, fails and rolls back, or fails and leaves the transaction open, where
the next commit on that connection writes it. A statement that fails
(`InsertFails`) may leave a transaction open too. `Abandon` is a cancelled `add()`,
`Stop` the end of a process at any moment. `Best` is `search()`: any list of the
`K` most similar rows, best first, older first among equals; a similarity of
texts and a length of vectors stand for the arithmetic. **Session** extends both:
each client is one call of `_orchestrate`, in one of several processes on one
file, through `Begin` (the plan), `Recall`, `Swarm` (the run, of which it takes
what RunContract allows to have completed, and the hand-over of the episode),
`Return`, or `Raise` and `Kill`. **SessionProofs** are about it.

**Providers** says what each backend method makes of its server's answer.
**Router** has concurrent requests from `_local_healthy` to the fallback;
**RouterProofs** prove its invariants for any number of callers.

**Sandbox** and **Registry** are components whose actions **ToolFactory**
composes: the builder that gets a good result starts `register()`, and since that
is synchronous nobody else runs (`Yielded`) until `Registering` has made both
writes, except that `Crash` may end the program at any point. A run's
directory may resist its removal, which the code ignores (`stuck`), and the kill
may find the process gone and raise (`KillFails`). Code is named
after its builder, build and revision, which makes "the code that was proven"
and "the error about this code" exact. **ToolsProofs** are about the three.

`MC...` modules only give constants values. Operators named
`Definition_SomeMistake` are the mutants of `Definition`; no specification uses
them.

## The runs

| Run | Instance | Shows |
|---|---|---|
| `engine_schedule` | all 543 DAGs of 4 nodes, one run, no fail_fast | types; `NothingLost`, `SkipExact`, `Quiescent`, `ViewAgrees`; refinement of RunContract with its liveness |
| `engine_rerun` | all DAGs of 3 nodes, fail_fast, two runs, executors may raise CancelledError | `FreshContext`, `NoOrphan`, `FinalStable`, `Termination` |
| `swarm_attempts` | all DAGs of 2 nodes run twice, fail_fast, one retry, harmless actions and ones critical by kind or by command, a user who agrees, refuses or fails, fragile agents, one node with an assigned agent and one without | `Reviewed`, `AttemptsExact`, `TornDown`, `SnapshotHasDeps`, `MemoryMatches`, `NotTornInUse`, refinement of Engine with its liveness |
| `dag_sort` | 3 ids and an unknown one, every insertion order, lists of at most 2 ids | `CycleIsExact`, `LayersAreTight`, refinement of TopoSort |
| `router` | 2 callers, time to live 2, clock up to 3, all settings, requests and answers | `VerdictIsRecent`, `TierRespected`, `FallsBack` |
| `tools` | 2 builders with one build each of up to 3 attempts, a valid and an invalid name, removals, cancellations, crashes | `CleanedUp`, `Retrievable`, `OnlyProven`, `HonestFailure`, `BuildsEnd` |
| `bus` | 2 publishers, 2 events, the tracker, a synchronous and an asynchronous handler and a stream, 4 calls of `subscribe` | `HeardOnce`, `TrackerIsCurrent` |
| `session` | 2 clients in one process or in two, one earlier row, 2 texts and the empty prompt, 2 vector lengths, K = 1, one deletion, 6 sorts of answer | `Durable`, `EpisodesTrue`, `RecallsEarlier`, `CallsEnd` |

Why the bounds are enough. Four nodes have every shape that matters to the
scheduler: chains, diamonds, independent branches, a node with several blocked
ancestors; a batch of tasks and a node launched during it. Two runs are one with
something left behind. In the swarm two nodes give a dependency or two
concurrent executors, one retry an attempt before and one after, and two runs
outputs and teardowns left over; the invariants are proved for any number of each.
Three ids give cycles with a tail, and every order of insertion. A verdict can be stale with two
overlapping checks, and the clock passes the time to live. Two builders give two
writers of one name, one before and one after a crash. Two publications overlap
while the asynchronous handler is awaited; four subscriptions are the tracker's,
two of one handler, and one that comes and goes meanwhile. Two clients give a
writer and a reader, two threads on one lock, two processes on one file, and a
commit that finishes the other's transaction; with K = 1 two similar episodes
compete for a place; the answers are an unreadable one, one that loses a leaf,
one that loses a root, a cycle, a repeated id and a repeated dependency. Bounds
on counters are the constants `MaxRuns`, `MaxTime`, `MaxBuilds`, `MaxEvents`,
`MaxTokens` and `MaxDeletes`; nothing else is cut off. Callers are
interchangeable in Router and publishers in EventBus, neither of which has
liveness, hence their SYMMETRY. `bus` and `session` do not check deadlock: a bus
nobody uses any more and clients whose calls are over stop for good.

### What the code does not keep

Each of these runs checks one property that a docstring states and finds it
violated.

- `engine_stale`: a DAG run a second time, when it aborts, returns nodes that this
  run created no executor for with the COMPLETED or FAILED of the earlier run, not
  SKIPPED: `_abort()` goes by the status it finds (`engine.py:122`). With node 2
  after node 1: both complete, or 2 fails; when 1 fails in the second run, 2 is
  returned as it was.
- `dag_repeated`: a dependency listed twice is counted twice and met once, so an
  acyclic graph is refused with CycleError (`dag.py:90`).
- `router_undecoded`: an answer of the local server that is not JSON escapes the
  fallback (`ollama.py:49`).
- `registry_crash`: a process that dies while `index.json` is rewritten loses every
  tool (`registry.py:49`).

Other things the models show on which no document takes a position, so that the
properties are stated around them:

- with fail_fast `_abort()` publishes no NODE_SKIPPED, so the tracker shows
  aborted nodes as running (`ViewAgrees` is checked without fail_fast);
- a CancelledError from an executor leaves `run()` with tasks alive (`Raise`;
  properties speak of runs that return);
- a sandbox run that is cancelled removes the directory under a process it leaves
  running (`CleanedUp` exempts it), and a directory that cannot be removed is left
  without a word (`CleanedUp` exempts it);
- an item of the plan that does not validate is dropped, and the run may succeed
  without its step (`EpisodesTrue` is about the steps that were kept);
- an agent assigned to two nodes, or used in a second run, which `main.py` never
  does, is torn down by one user and then used by another (`NotTornInUse` exempts
  it);
- nothing clears working memory between two runs, so an agent may be shown an
  earlier run's outputs of nodes it does not depend on (`working.py:1` calls it
  a scratchpad for a run; `main.py` runs each swarm once);
- calling an unsubscription token twice ends another subscription of the same
  handler (`HeardOnce` exempts such a handler from then on);
- an episode whose commit failed may still be written, by the next commit on
  the connection, although its run raised (it is a true one: `EpisodesTrue`).

## Fairness

`WF` on the engine's, the executors' and the builders' steps: the event loop
resumes every coroutine that can run, in FIFO order. That an executor ends is
an assumption about agents: local model calls have a latency limit, cloud calls
an HTTP timeout, sandboxed runs a timeout; the user is assumed to answer. In
ToolFactory a process that nobody kills may run for ever, only a killed one is
assumed to end; the timeout fires. In Session `WF` on each client's `Recall`,
`Swarm` and `Return`, on `Raise` once its thread has failed, and on each thread of
the store: the operating system runs threads, SQLite's wait for a locked file has
a timeout (`InsertFails`), and the swarm returns, which is `Termination` of the
engine. Weak fairness is enough for the lock because each caller inserts once. No
fairness is assumed of cancellations, crashes, removals, changes of the local
tier or the choice of an outcome; none of EventBus, whose handlers may await for
ever.

## What is proved

All for any values of the constants that satisfy the named assumptions.

- **EngineProofs**, from `EngineAssumption` (the graphs are acyclic functions on
  the nodes; constants have their types). The properties are not inductive:
  that a node's dependencies completed in this run says nothing of what the
  schedule did between marking it started and creating its task. `IInv` adds the
  account of the started nodes: they are completed, blocked, running or being
  launched, with no overlap (`Partition`); what each means for status and outputs
  (`Statuses`), for the dependencies (`Dependencies`) and for the task
  (`Tasks`); and what each location of the engine implies (`Control`). A
  lemma per action shows that it keeps `IInv`. From it follow `TypeCorrect`,
  `ContextIsFresh`, `SleepsQuiescent`, `LeavesNoOrphan`, `DecidesOnce`;
  `NothingIsLost` and `RestIsSkipped`, for one run or without fail_fast (with two
  runs and fail_fast the second is false, see `engine_stale`), the second from
  `SkippedOnly`, that a node without a task is final only as skipped; `SkipsExactly`, without fail_fast, by taking a minimal
  skipped node without a failed ancestor, which acyclicity provides; and
  `TrackerAgrees`, without fail_fast.
  Every step is a step of RunContract or invisible to it (`KeepsContractSafely`),
  when executors end with outputs or an error and a fail_fast engine is run once.
  It needs beyond `IInv` that an engine with a failed node is past its schedule.
- **SwarmProofs**, from `EngineAssumption` and `SwarmAssumption`. An executor
  touches the engine's state only by the result of its own task, so `IInv` carries
  over; `SInv` adds what one executor's local state satisfies at each point of
  `execute()` (`Sound`), how it and its task go together (`TasksMatch`), that memory
  holds outputs of this run for exactly the tasks that ended well (`Outputs`), and
  whose teardown has begun (`Teardowns`). All of the swarm's run properties follow:
  types, `Reviewed`, `AttemptsExact`, `SnapshotHasDeps`, `MemoryMatches`, `TornDown` and
  `NotTornInUse`. `SwarmRefinesEngine` maps every step to
  a step of Engine or a stutter, if executors may fail; it also needs that a node
  whose attempts are hidden is shown as running (`ShowsInFlight`) and that a task
  ends only in a way Engine allows (`EndsAllowed`).
- **SessionProofs**, from the four assumptions of Plan, MemoryStore and Session.
  `Durable` is not inductive: a commit replaces the file by the transaction's
  table, so that table must have every row that must stay, and agree with the
  file on those they share (`OpenTransactionKeeps`); a thread that writes holds the
  transaction with its row in it, one that is done has it in the file
  (`ThreadsProgress`); a row is new when it is handed over (`ClientsProgress`).
  `EpisodesTrue` needs the same said of rows in the transaction and rows still to
  be inserted (`RowsTell`), because a failed commit may be completed later. From
  `SessionInv`: `SessionTypeCorrect`, `PromisesKept`, `EpisodesTellTruth`,
  `EarlierRecalled`.
- **BusProofs**, from `BusAssumption`: types, and that the tracker is current whenever
  another coroutine can run. It is first in the list and in every copy of it, who
  awaits a handler is past it, and the one event it may lack belongs to the
  publisher that has the loop and calls it next. `HearsOnce` needs an account of
  every publication under way: as many times as a handler has heard its event, and
  as many as it stands in the rest of the copied list, are together what was due
  (`Publications`). For the next one to begin with the right number, a handler that
  lost no subscription to a token called twice stands in the list once for each
  token of its that is open (`ListMatches`); a publication that is over owes
  nothing (`Ended`).
- **DagProofs**, from `DagAssumption` (dependency lists name ids). What the loops
  keep is that a node's counter is the number of its predecessors not yet out, and
  the number of times its list repeats one (`Counted`): `dependents` has each node
  once, so repetitions are never taken away. Hence what is ready, and each layer,
  are the nodes whose predecessors are out and whose lists repeat none (`Kahn`,
  `Leveled`), and a counter is never taken below zero: `DagTypeCorrect`,
  `FillsLayersTightly`. When no list repeats an id, what is left when nothing is
  ready has a predecessor left for each node, so it is a cycle, and the places in a
  complete list rule one out: `CyclesExactly`. The hypothesis is needed, as
  `dag_repeated` shows. Under it every step is one of TopoSort's (`SortsSafely`). That
  a set of ids has a sorted list is proved by taking a smallest set that has none.
- **ToolsProofs**, from `RegistryAssumption` and `FactoryAssumption` (there is a
  name; the bounds are numbers; code is named after its builder, build and
  revision). A builder's own place says little about the files. `FInv` ties the three modules together: who has code in the sandbox whose
  process ended well has its code proven, who registers is the one the registry is
  writing for, with that name and code (`Builds`), and what is being written is
  proven (`WritesProven`). From it, with torn writes and crashes or without:
  `FactoryTypeCorrect`, `RunsLeaveNothing`, `RegistersProven`, `FailsHonestly`.
  `RetrievesTools` assumes `TornWrites = FALSE`, as the run does; without it
  `registry_crash` shows the property false. It needs that a registration between
  its two writes has its module on disk, that a name under removal is kept by
  nobody, and that the index and the modules agree on every other name (`DInv`).
- **TopoSortProofs**: what is emitted comes after its predecessors
  (`EmitsInOrder`), and a sort succeeds exactly on graphs without cycles
  (`SortsExactlyDags`). A set without a node free of the others has no first
  member to be emitted; a sort that is stuck leaves such a set. Nothing is assumed;
  graphs may be infinite.
- **RouterProofs**, from `RouterAssumption` (the bounds are numbers): types; that
  every cached verdict that would be used is recent; that a forced tier is
  respected; that a request which may use the cloud fails only as the code lets
  it. The invariant for verdicts says of each one, in the cache or on its way
  back, that it is wrong only if the tier changed after the check *began*: this is
  why `_local_healthy` takes the time before it awaits, and why an overtaken check
  does no harm. The one for routing says what each place of a request implies about
  the tiers it has contacted.

Every invariant and every action property of the passing runs is so proved, and the
safety halves of the three refinements. Only model-checked: liveness
(`Termination`, `BuildsEnd`, `CallsEnd`, the liveness halves of `KeepsContract`,
`ImplementsEngine` and `SortsTopologically`), which is under fairness or ENABLED and
beyond TLAPS. What a recursive definition or a fold computes for every input is out
of the prover's reach; none of the theorems needs it.

One caution about the prover. tlapm 1.4.5 tells its SMT solver that a value of
length n has the domain 1..n, and that every value has a length: together these make
every function a sequence (it accepts that `f \in [0..m -> S]` implies
`f \in Seq(S)`). The obligations that the solver discharged and that mention lengths
(BusProofs, DagProofs, SessionProofs) were therefore run again with the first fact
restricted to what holds, that a function with domain 1..n has length n. Every one
was proved again, a few of them only with another random seed.

## What is not modelled

- Embedding and similarity (arithmetic on reals), prompts, wire formats, rendering,
  the patterns of the guard and the AST checker's rules: their result is a choice
  or a member of a small set. So are the choice of a model for a task and the agent
  kind of a plan's step, which nothing reads after planning.
- The configuration (read once, pure) and `Router.aclose` (the program ends there).
- The CLI's commands other than `run`, and what it displays.
- Cancelling `Engine.run` from outside; two runs of one orchestrator or one engine at
  the same time: `main.py` makes one of each per call and ends with it. A swarm
  node without an agent, which raises before anything runs.
- `MemoryStore.close` as an operation: it is `Stop`, at a moment the code chooses.
- File systems that reorder writes: `TornWrites` cuts one write, in order.

## Plan

Done, in this order: Engine with Progress, RunContract and the proofs; Swarm with
Guard; Dag with TopoSort; Router with Providers; Sandbox, Registry, ToolFactory;
EventBus; Plan, MemoryStore and Session; the proofs about the swarm, the router's
requests, the bus and sessions; those about the tools, what handlers hear, and the
task graph.

Next: the theorems of Engine carried over to Swarm through `SwarmRefinesEngine`
(that a whole pass of the swarm keeps RunContract), and of Dag to Engine (that a
graph `validate` accepts is one that `EngineAssumption` allows, by name).

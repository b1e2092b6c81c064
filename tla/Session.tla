------------------------------ MODULE Session -------------------------------
(***************************************************************************)
(* _orchestrate (omniord/main.py) and Orchestrator.run                     *)
(* (omniord/core/orchestrator.py): a task is planned, earlier episodes are *)
(* recalled, the swarm runs the plan, and the outcome becomes an episode.  *)
(*                                                                         *)
(* Each client is one call, with a planner, an orchestrator and a swarm of *)
(* its own; clients of one process share its store, all share the file.    *)
(* The swarm is reduced to what the engine's model shows of a run: what    *)
(* completed contains the dependencies of its nodes.                       *)
(***************************************************************************)
EXTENDS Plan, MemoryStore

CONSTANTS
  Answers,     \* what the model may answer the planner
  NoTask,      \* the empty prompt
  Prompts      \* what the clients may be asked

ASSUME SessionAssumption ==
  /\ Answers \subseteq Seq(Items)
  /\ NoTask \notin Texts /\ Prompts \subseteq Texts \cup {NoTask}
  /\ [outcome : SUBSET Steps, succeeded : BOOLEAN] \subseteq Metadata

VARIABLES
  at,         \* where each client is
  task,       \* the prompt
  answer,     \* the model's answer
  recalled,   \* the episodes the swarm is given as "_recall"
  asked,      \* while the swarm runs: the length of the query's vector (history),
  before      \* and the episodes promised when the client began (history)

clientVars  == <<at, task, answer, recalled, asked, before>>
sessionVars == <<storeVars, clientVars>>

Active == {"recall", "swarm", "add"}
Over   == {"returned", "raised", "killed"}

Dag(c) == ToDag(PlanFor(answer[c]))

SessionTypeOK ==
  /\ StoreTypeOK
  /\ at \in [Callers -> {"idle"} \cup Active \cup Over]
  /\ task \in [Callers -> Texts \cup {NoTask}]
  /\ answer \in [Callers -> Answers \cup {<<>>}]
  /\ recalled \in [Callers -> Seq(Rows)]
  /\ asked \in [Callers -> Lengths \cup {0}]
  /\ before \in [Callers -> SUBSET RowIds]
  /\ \A c \in Callers : thread[c] # "none" => at[c] \in {"add", "returned", "raised"}
  /\ \A c \in Callers : at[c] = "add" => thread[c] # "none"

SessionInit ==
  /\ StoreInit
  /\ at = [c \in Callers |-> "idle"]
  /\ task = [c \in Callers |-> NoTask]
  /\ answer = [c \in Callers |-> <<>>]
  /\ recalled = [c \in Callers |-> <<>>]
  /\ asked = [c \in Callers |-> 0]
  /\ before = [c \in Callers |-> {}]

-----------------------------------------------------------------------------
\* Mutant: the outcome has every node that did not fail, the skipped ones too.
Outcome_NotFailed(g, D) == D \cup {n \in DOMAIN g : ~(g[n] \subseteq D)}

-----------------------------------------------------------------------------
Goto(c, place) == at' = [at EXCEPT ![c] = place]

\* The planner asks the model, and to_dag accepts what it makes of the answer.
Begin(c) ==
  /\ at[c] = "idle" /\ home[c] \notin stopped
  /\ \E a \in Answers : Accepted(PlanFor(a)) /\ answer' = [answer EXCEPT ![c] = a]
  /\ \E t \in Prompts : task' = [task EXCEPT ![c] = t]
  /\ before' = [before EXCEPT ![c] = promised]
  /\ Goto(c, "recall")
  /\ UNCHANGED <<storeVars, recalled, asked>>

\* No model can be reached, or to_dag refuses the plan.
BeginFails(c) ==
  /\ at[c] = "idle" /\ home[c] \notin stopped
  /\ Goto(c, "raised")
  /\ UNCHANGED <<storeVars, task, answer, recalled, asked, before>>

\* recall() and the assignment of "_recall"; without a task nothing is asked.
Search(c) ==
  /\ task[c] # NoTask /\ Free(home[c])
  /\ \E length \in Lengths :
       /\ asked' = [asked EXCEPT ![c] = length]
       /\ \E best \in Best(Table(home[c]), task[c], length) :
            recalled' = [recalled EXCEPT ![c] = best]

Recall(c) ==
  /\ at[c] = "recall"
  /\ Search(c) \/ (task[c] = NoTask /\ UNCHANGED <<asked, recalled>>)
  /\ Goto(c, "swarm")
  /\ UNCHANGED <<storeVars, task, answer, before>>

\* What may have completed when the swarm returns.
Ends(g) == {D \in SUBSET DOMAIN g : \A n \in D : g[n] \subseteq D}

Outcome(g, D)   == D
Succeeded(g, D) == D = DOMAIN g

Episode(c, D, length) ==
  [id |-> c, text |-> task[c], length |-> length,
   metadata |-> [outcome |-> Outcome(Dag(c), D), succeeded |-> Succeeded(Dag(c), D)]]

Forget(c) ==
  /\ recalled' = [recalled EXCEPT ![c] = <<>>]
  /\ asked' = [asked EXCEPT ![c] = 0]
  /\ before' = [before EXCEPT ![c] = {}]

\* The swarm returns; the outcome is embedded and handed to the store.
Persist(c) ==
  /\ task[c] # NoTask
  /\ \E D \in Ends(Dag(c)), length \in Lengths : Submit(c, Episode(c, D, length))
  /\ Goto(c, "add")

Swarm(c) ==
  /\ at[c] = "swarm"
  /\ Persist(c) \/ (task[c] = NoTask /\ Goto(c, "returned") /\ UNCHANGED storeVars)
  /\ Forget(c)
  /\ UNCHANGED <<task, answer>>

Return(c) ==
  /\ at[c] = "add"
  /\ Added(c)
  /\ Goto(c, "returned")
  /\ UNCHANGED <<task, answer, recalled, asked, before>>

\* An exception of the embedder, the store or the swarm ends the call, and so
\* does a cancellation, which leaves the store's thread behind.
Raise(c) ==
  /\ \/ at[c] \in {"recall", "swarm"} /\ UNCHANGED storeVars
     \/ at[c] = "add" /\ Abandon(c)
  /\ Goto(c, "raised")
  /\ Forget(c)
  /\ UNCHANGED <<task, answer>>

Kill(s) ==
  /\ Stop(s)
  /\ at' = [c \in Callers |-> IF home[c] = s /\ at[c] \in Active THEN "killed" ELSE at[c]]
  /\ UNCHANGED <<task, answer, recalled, asked, before>>

ClientStep(c) == Recall(c) \/ Swarm(c) \/ Return(c) \/ Raise(c)
StoreStep(c)  == Thread(c) /\ UNCHANGED clientVars

SessionNext ==
  \/ \E c \in Callers : Begin(c) \/ BeginFails(c) \/ ClientStep(c) \/ StoreStep(c)
  \/ \E s \in Stores : Kill(s) \/ (\E id \in RowIds : Delete(s, id) /\ UNCHANGED clientVars)

(***************************************************************************)
(* Coroutines and threads that can go on do; the swarm returns (Engine).   *)
(***************************************************************************)
SessionSpec ==
  /\ SessionInit /\ [][SessionNext]_sessionVars
  /\ \A c \in Callers :
       /\ WF_sessionVars(Recall(c) \/ Swarm(c) \/ Return(c)
                         \/ (thread[c] = "failed" /\ Raise(c)))
       /\ WF_sessionVars(StoreStep(c))

-----------------------------------------------------------------------------
(***************************************************************************)
(* Properties.                                                             *)
(***************************************************************************)
(* An episode tells the truth about its run, down to the model's answer:   *)
(* no step is in the outcome without the steps the answer made it depend   *)
(* on, and an episode is marked as succeeded exactly if every well-formed  *)
(* step of the answer is in it (planner.py:89, orchestrator.py:68, 85).    *)
Given(c) == {answer[c][i] : i \in {j \in DOMAIN answer[c] : answer[c][j].wellFormed}}

ToDo(c) == IF Given(c) = {} THEN {TaskStep} ELSE {item.id : item \in Given(c)}

TrueEpisode(r) ==
  LET outcome == r.metadata.outcome IN
  /\ \A item \in Given(r.id) : item.id \in outcome => ToSet(item.deps) \subseteq outcome
  /\ r.metadata.succeeded <=> ToDo(r.id) \subseteq outcome

EpisodesTrue ==
  \A i \in DOMAIN disk : disk[i].id \in Callers => TrueEpisode(disk[i])

(* A client recalls every similar episode that was returned before it      *)
(* began, by any process, and is not deleted, unless K at least as similar *)
(* ones displace it; an episode embedded by another model does not count   *)
(* (orchestrator.py:3, store.py:139).                                      *)
ScoreFor(c, r) == Score(r, task[c], asked[c])

RecallsEarlier ==
  \A c \in Callers : asked[c] # 0 =>
    \A i \in DOMAIN disk :
      LET r == disk[i] IN
      r.id \in before[c] \ deleted /\ ScoreFor(c, r) > 0 =>
        \/ r \in ToSet(recalled[c])
        \/ /\ Len(recalled[c]) = K
           /\ \A j \in 1..K : ScoreFor(c, recalled[c][j]) >= ScoreFor(c, r)

(* Every call comes to an end: no thread waits for ever for the store's    *)
(* lock, and a transaction somebody left open does not stop the others.    *)
CallsEnd == \A c \in Callers : at[c] \in Active ~> at[c] \in Over
=============================================================================

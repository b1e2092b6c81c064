---------------------------- MODULE ToolFactory -----------------------------
(***************************************************************************)
(* ToolFactory.build (omniord/tools/factory.py): generate, check, run in   *)
(* the sandbox, repair, register; by concurrent builders that share one    *)
(* sandbox and one registry, in a program that may die.                    *)
(*                                                                         *)
(* The code a builder holds is named by who asked for it, in which build   *)
(* and at which revision; what the AST checker finds in it is chosen when  *)
(* it is generated, what its process does each time it runs.               *)
(***************************************************************************)
EXTENDS Sandbox, Registry

CONSTANTS
  MaxRetries,   \* the factory's max_retries
  MaxBuilds,    \* bound: builds per builder
  ValidNames    \* the names register() accepts

ASSUME FactoryAssumption ==
  /\ MaxRetries \in Nat /\ MaxBuilds \in Nat
  /\ ValidNames \subseteq Names
  /\ Codes = [by : Clients, build : 1..MaxBuilds, rev : 1..(MaxRetries + 1)]

VARIABLES
  build,       \* the local state of build() for each builder
  proven       \* the checked code whose process ended with status 0 (history)

vars == <<sandbox, registry, build, proven>>

Build == [at      : {"none", "generate", "repair", "sandbox", "register", "over"},
          name    : Names,
          nth     : 0..MaxBuilds,
          attempt : 0..(MaxRetries + 1),
          rev     : 0..(MaxRetries + 2),   \* revisions asked of the generator
          error   : 0..(MaxRetries + 1),   \* the revision last_error is about
          outcome : {"none", "registered", "failed", "raised"}]

FactoryTypeOK ==
  /\ SandboxTypeOK /\ RegistryTypeOK
  /\ build \in [Clients -> Build]
  /\ proven \subseteq Codes
  /\ \A b \in Clients : box[b] # "out" <=> build[b].at = "sandbox"
  /\ writer.op = "register" =>
       \E b \in Clients : build[b].at = "register" /\ build[b].name = writer.name

FactoryInit ==
  /\ SandboxInit /\ RegistryInit
  /\ build = [b \in Clients |-> [at |-> "none", name |-> CHOOSE n \in Names : TRUE, nth |-> 0,
                                 attempt |-> 0, rev |-> 0, error |-> 0, outcome |-> "none"]]
  /\ proven = {}

Code(b, r) == [by |-> b, build |-> r.nth, rev |-> r.rev]

-----------------------------------------------------------------------------
\* No call on the registry is under way: another coroutine can run.
Yielded == writer = Idle

Becomes(b, r) == build' = [build EXCEPT ![b] = r]

Over(r, outcome) == [r EXCEPT !.at = "over", !.outcome = outcome]

RetriesLeft_OneMore(r)  == r.attempt <= MaxRetries + 1      \* mutant
RetriesLeft(r) == r.attempt <= MaxRetries

\* Mutant: the code is repaired also after the last attempt.
Repair_Always(r) ==
  IF r.attempt <= MaxRetries THEN [r EXCEPT !.at = "repair", !.error = r.rev]
  ELSE Over([r EXCEPT !.error = r.rev, !.rev = @ + 1], "failed")

\* last_error is set; then repair, or the end of the loop.
Repair(r) ==
  IF RetriesLeft(r) THEN [r EXCEPT !.at = "repair", !.error = r.rev]
  ELSE Over([r EXCEPT !.error = r.rev], "failed")

Start(b, n) ==
  /\ Yielded
  /\ build[b].at \in {"none", "over"} /\ build[b].nth < MaxBuilds
  /\ Becomes(b, [build[b] EXCEPT !.at = "generate", !.name = n, !.nth = @ + 1, !.attempt = 0,
                                 !.rev = 0, !.error = 0, !.outcome = "none"])
  /\ UNCHANGED <<sandbox, registry, proven>>

\* The generator returns new code, which is checked at once.
Generated(b) ==
  /\ Yielded
  /\ build[b].at \in {"generate", "repair"}
  /\ LET r == [build[b] EXCEPT !.attempt = @ + 1, !.rev = @ + 1] IN
     \/ Becomes(b, [r EXCEPT !.at = "sandbox"]) /\ Enter(b)
     \/ Becomes(b, Repair(r)) /\ UNCHANGED sandbox
  /\ UNCHANGED <<registry, proven>>

GeneratorRaises(b) ==
  /\ Yielded
  /\ build[b].at \in {"generate", "repair"}
  /\ Becomes(b, Over(build[b], "raised"))
  /\ UNCHANGED <<sandbox, registry, proven>>

Ok_NotTimedOut(b) == box[b] = "run"     \* mutant: only a timeout is a failure
Ok(b) == box[b] = "run" /\ proc[b] = "exit0"

\* The sandbox has run the code: register it or have it repaired.
SandboxReturns(b) ==
  /\ Yielded
  /\ Communicated(b) \/ Reaped(b)
  /\ LET r == build[b] IN
     \/ /\ Ok(b) /\ r.name \in ValidNames
        /\ Register(r.name, Code(b, r))
        /\ Becomes(b, [r EXCEPT !.at = "register"])
     \/ /\ Ok(b) /\ r.name \notin ValidNames
        /\ Becomes(b, Over(r, "raised")) /\ UNCHANGED registry
     \/ /\ ~Ok(b)
        /\ Becomes(b, Repair(r)) /\ UNCHANGED registry
  /\ UNCHANGED proven

SandboxRaises(b) ==
  /\ Yielded
  /\ SpawnFails(b) \/ KillFails(b)
  /\ Becomes(b, Over(build[b], "raised"))
  /\ UNCHANGED <<registry, proven>>

SandboxWaits(b) ==
  /\ Yielded
  /\ Spawn(b) \/ TimeOut(b)
  /\ UNCHANGED <<registry, build, proven>>

\* register() or remove() writes; the builder whose code it was returns.
Registering ==
  /\ \/ Write1 /\ UNCHANGED build
     \/ /\ Write2
        /\ build' = [b \in Clients |-> IF build[b].at = "register"
                                       THEN Over(build[b], "registered") ELSE build[b]]
  /\ UNCHANGED <<sandbox, proven>>

RemoveTool(n) == Remove(n) /\ UNCHANGED <<sandbox, build, proven>>

-----------------------------------------------------------------------------
\* The process of a builder ends.
Process(b) ==
  /\ \E code \in Exited : Exit(b, code)
  /\ proven' = IF proc'[b] = "exit0" /\ build[b].at = "sandbox"
               THEN proven \cup {Code(b, build[b])} ELSE proven
  /\ UNCHANGED <<registry, build>>

\* A builder is cancelled at whatever it awaits.
Cancel(b) ==
  /\ Yielded
  /\ build[b].at \in {"generate", "repair", "sandbox"}
  /\ Becomes(b, Over(build[b], "raised"))
  /\ IF build[b].at = "sandbox" THEN CancelRun(b) ELSE UNCHANGED sandbox
  /\ UNCHANGED <<registry, proven>>

Crash ==
  /\ Die /\ LoseRuns
  /\ build' = [b \in Clients |-> [build[b] EXCEPT !.at = "over", !.outcome = "none"]]
  /\ UNCHANGED proven

BuilderStep(b) ==
  \/ Generated(b) \/ GeneratorRaises(b)
  \/ SandboxWaits(b) \/ SandboxReturns(b) \/ SandboxRaises(b)

Next ==
  \/ \E b \in Clients : (\E n \in Names : Start(b, n)) \/ BuilderStep(b) \/ Process(b) \/ Cancel(b)
  \/ \E n \in Names : RemoveTool(n)
  \/ Registering \/ Crash

(***************************************************************************)
(* Coroutines that can run do, the generator answers, the timeout comes,   *)
(* and a killed process ends; one that is not killed may run for ever.     *)
(***************************************************************************)
Spec ==
  /\ FactoryInit /\ [][Next]_vars
  /\ WF_vars(Registering)
  /\ \A b \in Clients : WF_vars(BuilderStep(b)) /\ WF_vars(Process(b) /\ proc[b] = "dying")

-----------------------------------------------------------------------------
(***************************************************************************)
(* Properties.                                                             *)
(***************************************************************************)

(* Only code that passed the check and whose own run in the sandbox ended  *)
(* well is ever written to the registry, whatever other builders do and    *)
(* however the timeout races with the end of the process (factory.py:3-6). *)
OnlyProven == \A n \in Names : module[n] \in Codes => module[n] \in proven

(* A build that reports failure used every retry, and the error it reports *)
(* is that of the source it returns (factory.py:8-10).                     *)
HonestFailure ==
  \A b \in Clients : build[b].outcome = "failed" =>
    build[b].attempt = MaxRetries + 1 /\ build[b].error = build[b].rev

(* Every build comes to its end, even if the code under test never does.   *)
BuildsEnd ==
  \A b \in Clients : build[b].at = "generate" ~> build[b].at \in {"none", "over"}
=============================================================================

------------------------------ MODULE Sandbox -------------------------------
(***************************************************************************)
(* Sandbox.run (omniord/tools/sandbox.py): a process per run, watched by a *)
(* coroutine with a timeout, in a directory of its own.                    *)
(*                                                                         *)
(* A client is in one run at a time.  The coroutine waits for the process  *)
(* to be created, then for its output or the timeout, then, if it was      *)
(* killed, for its end.                                                    *)
(***************************************************************************)
CONSTANT Clients

VARIABLES
  box,         \* where run() is for each client
  proc,        \* the process of the client's last run
  dirs,        \* the clients the working directory of whose last run exists
  cut,         \* the clients whose last run was cancelled, could not create its
               \* process or lost the program (history)
  stuck        \* the clients whose last directory resisted its removal (history)

sandbox == <<box, proc, dirs, cut, stuck>>

Alive  == {"running", "dying"}             \* dying: killed, and not yet gone
Exited == {"exit0", "exit1", "killed"}

SandboxTypeOK ==
  /\ box \in [Clients -> {"out", "spawn", "run", "reap"}]
  /\ proc \in [Clients -> {"none"} \cup Alive \cup Exited]
  /\ dirs \subseteq Clients /\ cut \subseteq Clients /\ stuck \subseteq Clients
  /\ \A c \in Clients : box[c] = "run" => proc[c] # "none"

SandboxInit ==
  /\ box = [c \in Clients |-> "out"]
  /\ proc = [c \in Clients |-> "none"]
  /\ dirs = {} /\ cut = {} /\ stuck = {}

-----------------------------------------------------------------------------
\* mkdtemp, and the request for a process.
Enter(c) ==
  /\ box' = [box EXCEPT ![c] = "spawn"]
  /\ proc' = [proc EXCEPT ![c] = "none"]
  /\ dirs' = dirs \cup {c}
  /\ cut' = cut \ {c} /\ stuck' = stuck \ {c}

Spawn(c) ==
  /\ box[c] = "spawn"
  /\ box' = [box EXCEPT ![c] = "run"]
  /\ proc' = [proc EXCEPT ![c] = "running"]
  /\ UNCHANGED <<dirs, cut, stuck>>

\* An exception that is raised before the try: the directory stays.
SpawnFails(c) ==
  /\ box[c] = "spawn"
  /\ box' = [box EXCEPT ![c] = "out"]
  /\ cut' = cut \cup {c}
  /\ UNCHANGED <<proc, dirs, stuck>>

\* The process ends by itself, if ever, or because it was killed.
Exit(c, code) ==
  /\ \/ proc[c] = "running" /\ code \in {"exit0", "exit1"}
     \/ proc[c] = "dying" /\ code = "killed"
  /\ proc' = [proc EXCEPT ![c] = code]
  /\ UNCHANGED <<box, dirs, cut, stuck>>

\* The finally clause: a directory that cannot be removed is left, silently.
Leave(c) ==
  /\ box' = [box EXCEPT ![c] = "out"]
  /\ \/ dirs' = dirs \ {c} /\ UNCHANGED stuck
     \/ stuck' = stuck \cup {c} /\ UNCHANGED dirs

Communicated(c) ==
  /\ box[c] = "run" /\ proc[c] \in Exited
  /\ Leave(c)
  /\ UNCHANGED <<proc, cut>>

\* Mutant: the process is not killed.
Kill_Not(p) == p
Kill(p) == IF p = "running" THEN "dying" ELSE p

\* wait_for gives up, perhaps on a process that has just ended.
TimeOut(c) ==
  /\ box[c] = "run"
  /\ box' = [box EXCEPT ![c] = "reap"]
  /\ proc' = [proc EXCEPT ![c] = Kill(@)]
  /\ UNCHANGED <<dirs, cut, stuck>>

\* kill() raises ProcessLookupError if the end of the process has been noticed.
KillFails(c) ==
  /\ box[c] = "run" /\ proc[c] \in Exited
  /\ Leave(c)
  /\ UNCHANGED <<proc, cut>>

\* Mutant: nobody waits for the killed process.
Gone_NotAwaited(c) == TRUE
Gone(c) == proc[c] \in Exited

\* proc.wait returns.
Reaped(c) ==
  /\ box[c] = "reap" /\ Gone(c)
  /\ Leave(c)
  /\ UNCHANGED <<proc, cut>>

\* CancelledError is not a TimeoutError: nothing kills the process.
CancelRun(c) ==
  /\ IF box[c] = "spawn"
     THEN box' = [box EXCEPT ![c] = "out"] /\ UNCHANGED <<dirs, stuck>>
     ELSE Leave(c)
  /\ cut' = cut \cup {c}
  /\ UNCHANGED proc

\* The program dies: directories and processes stay.
LoseRuns ==
  /\ box' = [c \in Clients |-> "out"]
  /\ cut' = cut \cup {c \in Clients : box[c] # "out"}
  /\ UNCHANGED <<proc, dirs, stuck>>

-----------------------------------------------------------------------------
(* A run that was not cut short leaves neither a process nor a directory   *)
(* behind, however the timeout and the end of the process race (sandbox.py:*)
(* 4-6), save a directory that could not be removed (sandbox.py:77).       *)
CleanedUp ==
  \A c \in Clients : box[c] = "out" /\ c \notin cut =>
    proc[c] \notin Alive /\ (c \in dirs => c \in stuck)
=============================================================================

----------------------------- MODULE ToolsProofs -----------------------------
(***************************************************************************)
(* Proofs about ToolFactory with its sandbox and registry: for any number  *)
(* of builders, names, builds and retries, only proven code is registered, *)
(* failures are honest and runs leave nothing behind; and, if writes are   *)
(* atomic, what was registered can be retrieved whenever the program dies. *)
(***************************************************************************)
EXTENDS ToolFactory, TLAPS

USE RegistryAssumption, FactoryAssumption

-----------------------------------------------------------------------------
(***************************************************************************)
(* The inductive invariant.  A builder's revisions are its attempts, and   *)
(* it only reaches the sandbox within them; the code it has in the sandbox *)
(* is proven once its process has ended well; while it registers, the call *)
(* on the registry is its own; and that call writes proven code.           *)
(***************************************************************************)
InLoop   == {"generate", "repair"}
WithCode == {"sandbox", "register"}

Attempts(r) ==
  /\ r.rev = r.attempt
  /\ r.at \in InLoop => r.attempt <= MaxRetries
  /\ r.at \in InLoop \cup WithCode => r.nth > 0
  /\ r.at \in WithCode => r.attempt > 0
  /\ r.outcome = "failed" => r.at = "over"

Builds ==
  \A b \in Clients :
    /\ Attempts(build[b])
    /\ build[b].at = "sandbox" /\ proc[b] = "exit0" => Code(b, build[b]) \in proven
    /\ build[b].at = "register" =>
         writer = [op |-> "register", name |-> build[b].name,
                   code |-> Code(b, build[b]), step |-> writer.step]

WritesProven == writer.op = "register" => writer.code \in proven

FInv ==
  /\ FactoryTypeOK
  /\ CleanedUp
  /\ Builds
  /\ HonestFailure
  /\ WritesProven
  /\ OnlyProven

(***************************************************************************)
(* The inductive invariant of the registry when writes are atomic.  No     *)
(* file is ever torn.  Except for the name whose entry is being written, a *)
(* listed name has a module that loads unless a removal of it was cut, and *)
(* the one its entry describes unless any call on it was; a registration   *)
(* has written its module before its entry, and nothing being removed is   *)
(* kept.                                                                   *)
(***************************************************************************)
Between(n) == writer.step = "index" /\ writer.name = n

Consistent(n) ==
  index[n] # Nothing =>
    /\ <<"remove", n>> \notin halfway => module[n] \in Codes
    /\ halfway \cap ({"register", "remove"} \X {n}) = {} => module[n] = index[n]

DInv ==
  /\ index # NoIndex
  /\ \A n \in Names : ~Between(n) => Consistent(n)
  /\ writer.op = "register" /\ writer.step = "index" => module[writer.name] = writer.code
  /\ writer.op = "remove" => writer.name \notin kept
  /\ \A n \in kept : index[n] # Nothing /\ module[n] \in Codes

-----------------------------------------------------------------------------
(* A file that parses has an entry or nothing for each name.               *)
LEMMA LoadType ==
  ASSUME RegistryTypeOK
  PROVE  /\ Load \in [Names -> Codes \cup {Nothing}]
         /\ index # NoIndex => Load = index
BY DEF RegistryTypeOK, Load, NoEntries

LEMMA InitFInv == FactoryInit => FInv
<1> SUFFICES ASSUME FactoryInit PROVE FInv
  OBVIOUS
<1> USE DEF FactoryInit, SandboxInit, RegistryInit
<1>1. SandboxTypeOK  BY DEF SandboxTypeOK
<1>2. RegistryTypeOK  BY DEF RegistryTypeOK, NoEntries
<1>3. build \in [Clients -> Build]  BY DEF Build
<1>4. FactoryTypeOK  BY <1>1, <1>2, <1>3 DEF FactoryTypeOK, Idle
<1>5. CleanedUp  BY DEF CleanedUp, Alive
<1>6. Builds  BY DEF Builds, Attempts, InLoop, WithCode
<1>7. HonestFailure  BY DEF HonestFailure
<1>8. WritesProven  BY DEF WritesProven, Idle
<1>9. OnlyProven  BY DEF OnlyProven, NoEntries
<1> QED  BY <1>4, <1>5, <1>6, <1>7, <1>8, <1>9 DEF FInv

-----------------------------------------------------------------------------
(***************************************************************************)
(* Steps of a builder that leave the registry alone.                       *)
(***************************************************************************)
(* One builder goes on with r, whose sandbox is in order; nobody registers.*)
LEMMA BuilderKeeps ==
  ASSUME FInv, Yielded, UNCHANGED <<registry, proven>>, NEW b \in Clients, NEW r \in Build,
         Becomes(b, r), Attempts(r), r.at # "register",
         r.outcome = "failed" => r.attempt = MaxRetries + 1 /\ r.error = r.rev,
         SandboxTypeOK', CleanedUp',
         box'[b] # "out" <=> r.at = "sandbox",
         r.at = "sandbox" => proc'[b] # "exit0",
         \A c \in Clients \ {b} : box'[c] = box[c] /\ proc'[c] = proc[c]
  PROVE  FInv'
<1> USE DEF FInv, FactoryTypeOK, registry, disk
<1>1. build'[b] = r /\ \A c \in Clients \ {b} : build'[c] = build[c]
  BY DEF Becomes
<1>2. build' \in [Clients -> Build]
  BY DEF Becomes
<1>3. writer' = Idle /\ writer = Idle
  BY DEF Yielded
<1>4. FactoryTypeOK'
  BY <1>1, <1>2, <1>3 DEF RegistryTypeOK, Idle
<1>5. Builds'
  BY <1>1, <1>3 DEF Builds, Idle, Code, Attempts
<1>6. HonestFailure'
  BY <1>1 DEF HonestFailure
<1> QED  BY <1>3, <1>4, <1>5, <1>6 DEF WritesProven, OnlyProven, Idle
(* What Build says of its fields.                                          *)
LEMMA BuildFields ==
  ASSUME FInv, NEW b \in Clients
  PROVE  /\ build[b] \in Build /\ Attempts(build[b])
         /\ build[b].attempt \in 0..(MaxRetries + 1) /\ build[b].rev = build[b].attempt
         /\ build[b].outcome = "failed" =>
              build[b].attempt = MaxRetries + 1 /\ build[b].error = build[b].rev
BY DEF FInv, FactoryTypeOK, Builds, Attempts, HonestFailure, Build

(* Another revision, if any attempt is left, or the end.                   *)
LEMMA RepairAttempts ==
  ASSUME NEW r \in Build, r.rev = r.attempt, r.nth > 0, r.outcome # "failed"
  PROVE  LET q == Repair(r) IN
         /\ q \in Build /\ Attempts(q) /\ q.at \in {"repair", "over"}
         /\ q.outcome = "failed" => q.attempt = MaxRetries + 1 /\ q.error = q.rev
<1>1. r.attempt \in 0..(MaxRetries + 1)
  BY DEF Build
<1>2. CASE RetriesLeft(r)
  BY <1>1, <1>2 DEF Repair, RetriesLeft, Build, Attempts, InLoop, WithCode
<1>3. CASE ~RetriesLeft(r)
  <2> DEFINE q == [r EXCEPT !.error = r.rev, !.at = "over", !.outcome = "failed"]
  <2>1. Repair(r) = q
    BY <1>3 DEF Repair, Over
  <2>2. r.attempt = MaxRetries + 1 /\ r.rev = MaxRetries + 1
    BY <1>1, <1>3 DEF RetriesLeft
  <2>3. q \in Build
    BY <2>2 DEF Build
  <2>4. q.at = "over" /\ q.outcome = "failed" /\ q.attempt = r.attempt /\ q.rev = r.rev /\ q.error = r.rev
    BY DEF Build
  <2> QED  BY <2>1, <2>2, <2>3, <2>4 DEF Attempts, InLoop, WithCode
<1> QED  BY <1>2, <1>3

(* The state of a new build.                                               *)
LEMMA Begun ==
  ASSUME NEW r \in Build, NEW n \in Names, r.nth + 1 \in 0..MaxBuilds
  PROVE  [r EXCEPT !.at = "generate", !.name = n, !.nth = @ + 1, !.attempt = 0,
                   !.rev = 0, !.error = 0, !.outcome = "none"] \in Build
<1>1. 0 \in 0..(MaxRetries + 1) /\ 0 \in 0..(MaxRetries + 2)
  OBVIOUS
<1> HIDE FactoryAssumption, RegistryAssumption
<1> DEFINE p == [r EXCEPT !.at = "generate", !.name = n, !.nth = @ + 1]
           q == [p EXCEPT !.attempt = 0, !.rev = 0]
<1>2. p \in Build
  BY DEF Build
<1> HIDE DEF p
<1>3. q \in Build
  BY <1>1, <1>2 DEF Build
<1> HIDE DEF q
<1>4. [q EXCEPT !.error = 0, !.outcome = "none"] \in Build
  BY <1>1, <1>3 DEF Build
<1> QED  BY <1>4 DEF p, q

LEMMA StartKeeps ==
  ASSUME FInv, NEW b \in Clients, NEW n \in Names, Start(b, n)
  PROVE  FInv'
<1> DEFINE r == [build[b] EXCEPT !.at = "generate", !.name = n, !.nth = @ + 1, !.attempt = 0,
                                 !.rev = 0, !.error = 0, !.outcome = "none"]
<1> USE DEF Start, sandbox
<1>1. /\ r \in Build /\ Attempts(r)
      /\ r.at = "generate" /\ r.outcome = "none"
  <2>1. build[b] \in Build /\ build[b].nth \in 0..MaxBuilds /\ build[b].nth + 1 \in 0..MaxBuilds
    BY BuildFields DEF Build
  <2>2. r \in Build
    BY <2>1, Begun
  <2>3. /\ r.at = "generate" /\ r.outcome = "none" /\ r.attempt = 0 /\ r.rev = 0
        /\ r.nth = build[b].nth + 1
    BY <2>1 DEF Build
  <2> QED  BY <2>1, <2>2, <2>3 DEF Attempts, InLoop, WithCode
<1>2. SandboxTypeOK' /\ CleanedUp' /\ box[b] = "out"
  BY DEF FInv, FactoryTypeOK, SandboxTypeOK, CleanedUp
<1> HIDE DEF r
<1> QED  BY <1>1, <1>2, BuilderKeeps DEF r

(* Entering the sandbox, in which nobody's old run matters.                *)
LEMMA GeneratedKeeps ==
  ASSUME FInv, NEW b \in Clients, Generated(b)
  PROVE  FInv'
<1> DEFINE r == [build[b] EXCEPT !.attempt = @ + 1, !.rev = @ + 1]
<1> USE DEF Generated, FInv, FactoryTypeOK
<1>1. /\ r \in Build /\ r.rev = r.attempt /\ r.nth > 0 /\ r.attempt > 0
      /\ r.outcome # "failed"
  <2>1. /\ build[b] \in Build /\ build[b].attempt \in 0..MaxRetries
        /\ build[b].rev = build[b].attempt /\ build[b].nth > 0 /\ build[b].outcome # "failed"
    BY BuildFields DEF Attempts, InLoop
  <2>2. build[b].attempt + 1 \in 0..(MaxRetries + 1) /\ build[b].rev + 1 \in 0..(MaxRetries + 2)
    BY <2>1
  <2>3. r \in Build
    BY <2>1, <2>2 DEF Build
  <2>4. /\ r.attempt = build[b].attempt + 1 /\ r.rev = build[b].rev + 1
        /\ r.nth = build[b].nth /\ r.outcome = build[b].outcome
    BY <2>1 DEF Build
  <2> QED  BY <2>1, <2>3, <2>4
<1>2. box[b] = "out"
  OBVIOUS
<1> HIDE DEF r
<1>3. CASE Becomes(b, [r EXCEPT !.at = "sandbox"]) /\ Enter(b)
  <2> DEFINE q == [r EXCEPT !.at = "sandbox"]
  <2>1. /\ q \in Build /\ Attempts(q) /\ q.at = "sandbox" /\ q.outcome # "failed"
    BY <1>1 DEF Build, Attempts, InLoop, WithCode
  <2>2. /\ box'[b] = "spawn" /\ proc'[b] = "none" /\ dirs' = dirs \cup {b} /\ cut' = cut \ {b} /\ stuck' = stuck \ {b}
        /\ \A c \in Clients \ {b} : box'[c] = box[c] /\ proc'[c] = proc[c]
    BY <1>3 DEF Enter, SandboxTypeOK
  <2>3. SandboxTypeOK'
    BY <1>3 DEF Enter, SandboxTypeOK
  <2>4. CleanedUp'
    BY <2>2 DEF CleanedUp
  <2> HIDE DEF q
  <2> QED  BY <1>3, <2>1, <2>2, <2>3, <2>4, BuilderKeeps DEF q
<1>4. CASE Becomes(b, Repair(r)) /\ UNCHANGED sandbox
  <2>1. SandboxTypeOK' /\ CleanedUp' /\ UNCHANGED <<box, proc>>
    BY <1>4 DEF sandbox, SandboxTypeOK, CleanedUp
  <2>2. LET q == Repair(r) IN
         /\ q \in Build /\ Attempts(q) /\ q.at \in {"repair", "over"}
         /\ q.outcome = "failed" => q.attempt = MaxRetries + 1 /\ q.error = q.rev
    BY <1>1, RepairAttempts
  <2> QED  BY <1>2, <1>4, <2>1, <2>2, BuilderKeeps
<1> QED  BY <1>3, <1>4 DEF r

(* A build that is over without having failed.                             *)
LEMMA OverBuild ==
  ASSUME FInv, NEW b \in Clients, NEW outcome \in {"none", "registered", "raised"}
  PROVE  LET q == Over(build[b], outcome) IN
         q \in Build /\ Attempts(q) /\ q.at = "over" /\ q.outcome = outcome
BY BuildFields DEF Over, Build, Attempts, InLoop, WithCode

LEMMA GeneratorRaisesKeeps ==
  ASSUME FInv, NEW b \in Clients, GeneratorRaises(b)
  PROVE  FInv'
<1> USE DEF GeneratorRaises, sandbox
<1>1. SandboxTypeOK' /\ CleanedUp' /\ box[b] = "out"
  BY DEF FInv, FactoryTypeOK, SandboxTypeOK, CleanedUp
<1> QED  BY <1>1, OverBuild, BuilderKeeps

(* The sandbox after a run was cut short.                                  *)
LEMMA CutShort ==
  ASSUME SandboxTypeOK, CleanedUp, NEW b \in Clients, box[b] # "out",
         SpawnFails(b) \/ CancelRun(b)
  PROVE  /\ SandboxTypeOK' /\ CleanedUp' /\ box'[b] = "out" /\ UNCHANGED proc
         /\ \A c \in Clients \ {b} : box'[c] = box[c]
BY DEF SandboxTypeOK, CleanedUp, SpawnFails, CancelRun, Leave

(* The run is over: the process has ended, and the directory is gone or    *)
(* could not be removed.                                                   *)
LEMMA Returned ==
  ASSUME SandboxTypeOK, CleanedUp, NEW b \in Clients,
         Communicated(b) \/ Reaped(b) \/ KillFails(b)
  PROVE  /\ SandboxTypeOK' /\ CleanedUp' /\ box[b] # "out" /\ box'[b] = "out" /\ UNCHANGED proc
         /\ \A c \in Clients \ {b} : box'[c] = box[c]
BY DEF SandboxTypeOK, CleanedUp, Communicated, Reaped, KillFails, Gone, Leave, Alive, Exited

LEMMA SandboxRaisesKeeps ==
  ASSUME FInv, NEW b \in Clients, SandboxRaises(b)
  PROVE  FInv'
<1> USE DEF SandboxRaises
<1>1. SandboxTypeOK /\ CleanedUp /\ box[b] # "out"
  BY DEF FInv, FactoryTypeOK, SpawnFails, KillFails
<1>2. /\ SandboxTypeOK' /\ CleanedUp' /\ box'[b] = "out" /\ UNCHANGED proc
      /\ \A c \in Clients \ {b} : box'[c] = box[c]
  BY <1>1, CutShort, Returned
<1> QED  BY <1>2, OverBuild, BuilderKeeps

LEMMA CancelKeeps ==
  ASSUME FInv, NEW b \in Clients, Cancel(b)
  PROVE  FInv'
<1> USE DEF Cancel
<1>1. SandboxTypeOK /\ CleanedUp /\ (build[b].at = "sandbox" <=> box[b] # "out")
  BY DEF FInv, FactoryTypeOK
<1>2. /\ SandboxTypeOK' /\ CleanedUp' /\ box'[b] = "out" /\ UNCHANGED proc
      /\ \A c \in Clients \ {b} : box'[c] = box[c]
  <2>1. CASE build[b].at = "sandbox"
    BY <1>1, <2>1, CutShort
  <2>2. CASE build[b].at # "sandbox"
    BY <1>1, <2>2 DEF sandbox, SandboxTypeOK, CleanedUp
  <2> QED  BY <2>1, <2>2
<1> QED  BY <1>2, OverBuild, BuilderKeeps

-----------------------------------------------------------------------------
(***************************************************************************)
(* The registry's own steps.                                               *)
(***************************************************************************)
LEMMA RegisterType ==
  ASSUME RegistryTypeOK, NEW n \in Names, NEW code \in Codes, Register(n, code)
  PROVE  /\ RegistryTypeOK' /\ UNCHANGED <<module, index, kept, halfway>>
         /\ writer' = [op |-> "register", name |-> n, code |-> code, step |-> "module"]
BY DEF RegistryTypeOK, Register, RegisterSteps, disk, Call

LEMMA RemoveType ==
  ASSUME RegistryTypeOK, NEW n \in Names, Remove(n)
  PROVE  /\ RegistryTypeOK' /\ UNCHANGED <<module, index, halfway>>
         /\ writer' = [op |-> "remove", name |-> n, code |-> Load[n], step |-> "module"]
         /\ kept' = kept \ {n}
<1>1. Load[n] \in Codes
  BY LoadType DEF Remove, Listed
<1> QED  BY <1>1 DEF RegistryTypeOK, Remove, disk, Call

(* A call writes the module file, then the entry, and is over.             *)
LEMMA WriteSteps ==
  ASSUME RegistryTypeOK, Write1 \/ Write2
  PROVE  /\ RegistryTypeOK' /\ writer \in Call
         /\ \/ /\ Write1 /\ writer.step = "module" /\ UNCHANGED <<index, kept, halfway>>
               /\ writer' = [writer EXCEPT !.step = "index"]
               /\ module' = [module EXCEPT ![writer.name] = Written]
            \/ /\ Write2 /\ writer.step = "index" /\ UNCHANGED module
               /\ writer' = Idle
               /\ index' = [Load EXCEPT ![writer.name] = Written]
<1>1. writer \in Call
  BY DEF RegistryTypeOK, Write1, Write2
<1>2. Written \in Codes \cup {Nothing}
  BY <1>1 DEF Written, Call
<1>3. Steps = <<"module", "index">>
  BY DEF Steps, RegisterSteps
<1>4. CASE Write1
  <2>1. /\ writer.step = "module" /\ UNCHANGED <<index, kept, halfway>>
        /\ writer' = [writer EXCEPT !.step = "index"]
        /\ module' = [module EXCEPT ![writer.name] = Written]
    BY <1>3, <1>4 DEF Write1, WriteFile
  <2>2. writer' \in Call
    BY <1>1, <2>1 DEF Call
  <2>3. module' \in [Names -> Codes \cup {Nothing, Torn}]
    BY <1>1, <1>2, <2>1 DEF RegistryTypeOK, Call
  <2> QED  BY <1>1, <1>4, <2>1, <2>2, <2>3 DEF RegistryTypeOK
<1>5. CASE Write2
  <2>1. /\ writer.step = "index" /\ UNCHANGED module /\ writer' = Idle
        /\ index' = [Load EXCEPT ![writer.name] = Written]
    BY <1>3, <1>5 DEF Write2, WriteFile
  <2>2. index' \in [Names -> Codes \cup {Nothing}]
    BY <1>1, <1>2, <2>1, LoadType DEF Call
  <2>3. kept' \subseteq Names /\ halfway' \subseteq {"register", "remove"} \X Names
    BY <1>1, <1>5 DEF Write2, Call, RegistryTypeOK
  <2> QED  BY <1>1, <1>5, <2>1, <2>2, <2>3 DEF RegistryTypeOK
<1> QED  BY <1>4, <1>5

LEMMA DieType ==
  ASSUME RegistryTypeOK, Die
  PROVE  /\ RegistryTypeOK' /\ writer' = Idle
         /\ \A n \in Names : module'[n] \in {module[n], Torn}
<1>1. writer' = Idle /\ UNCHANGED kept
  BY DEF Die
<1>2. halfway' \subseteq {"register", "remove"} \X Names
  BY DEF RegistryTypeOK, Die, Call
<1>3. index' \in [Names -> Codes \cup {Nothing}] \cup {NoIndex}
  BY DEF RegistryTypeOK, Die, disk
<1>4. /\ module' \in [Names -> Codes \cup {Nothing, Torn}]
      /\ \A n \in Names : module'[n] \in {module[n], Torn}
  BY DEF RegistryTypeOK, Die, disk, Call
<1> QED  BY <1>1, <1>2, <1>3, <1>4 DEF RegistryTypeOK

-----------------------------------------------------------------------------
(***************************************************************************)
(* Steps of the sandbox and of the registry.                               *)
(***************************************************************************)
LEMMA SandboxWaitsKeeps ==
  ASSUME FInv, NEW b \in Clients, SandboxWaits(b)
  PROVE  FInv'
<1> USE DEF FInv, FactoryTypeOK, SandboxWaits, registry, disk
<1>1. /\ SandboxTypeOK' /\ box[b] # "out" /\ box'[b] # "out"
      /\ \A c \in Clients \ {b} : box'[c] = box[c] /\ proc'[c] = proc[c]
      /\ proc'[b] = "exit0" => proc[b] = "exit0" /\ box[b] # "spawn"
      /\ UNCHANGED <<dirs, cut, stuck>>
  BY DEF SandboxTypeOK, Spawn, TimeOut, Kill, Alive, Exited
<1>2. CleanedUp'
  BY <1>1 DEF CleanedUp
<1>3. RegistryTypeOK'
  BY DEF RegistryTypeOK
<1>4. FactoryTypeOK'
  BY <1>1, <1>3
<1>5. Builds'
  BY <1>1 DEF Builds, Code, Attempts
<1> QED  BY <1>2, <1>4, <1>5 DEF HonestFailure, WritesProven, OnlyProven

(* The code a builder has in the sandbox.                                  *)
LEMMA CodeType ==
  ASSUME FInv, NEW b \in Clients, build[b].at = "sandbox"
  PROVE  Code(b, build[b]) \in Codes
<1>1. build[b] \in Build /\ Attempts(build[b])
  BY BuildFields
<1>2. build[b].nth \in 1..MaxBuilds /\ build[b].rev \in 1..(MaxRetries + 1)
  BY <1>1 DEF Attempts, WithCode, Build
<1> QED  BY <1>2 DEF Code

LEMMA SandboxReturnsKeeps ==
  ASSUME FInv, NEW b \in Clients, SandboxReturns(b)
  PROVE  FInv'
<1> USE DEF SandboxReturns
<1>1. SandboxTypeOK /\ RegistryTypeOK /\ CleanedUp /\ writer = Idle
  BY DEF FInv, FactoryTypeOK, Yielded
<1>2. /\ SandboxTypeOK' /\ CleanedUp' /\ box[b] # "out" /\ box'[b] = "out" /\ UNCHANGED proc
      /\ \A c \in Clients \ {b} : box'[c] = box[c]
  BY <1>1, Returned
<1>3. build[b].at = "sandbox"
  BY <1>2 DEF FInv, FactoryTypeOK
<1>4. build[b] \in Build /\ Attempts(build[b])
  BY BuildFields
<1>5. CASE /\ Ok(b) /\ build[b].name \in ValidNames
           /\ Register(build[b].name, Code(b, build[b]))
           /\ Becomes(b, [build[b] EXCEPT !.at = "register"])
  <2> DEFINE r == [build[b] EXCEPT !.at = "register"]
  <2>1. r \in Build /\ Attempts(r) /\ r.at = "register" /\ r.name = build[b].name
        /\ Code(b, r) = Code(b, build[b]) /\ r.outcome # "failed"
    BY <1>3, <1>4 DEF Build, Attempts, InLoop, WithCode, Code
  <2>2. build[b].name \in Names /\ Code(b, build[b]) \in Codes
    BY <1>3, <1>4, CodeType DEF Build
  <2>3. /\ RegistryTypeOK' /\ UNCHANGED <<module, index, kept, halfway>>
        /\ writer' = [op |-> "register", name |-> r.name, code |-> Code(b, r), step |-> "module"]
    BY <1>1, <1>5, <2>1, <2>2, RegisterType
  <2>4. Code(b, r) \in proven /\ UNCHANGED proven
    BY <1>3, <1>5, <2>1 DEF FInv, Builds, Ok
  <2> HIDE DEF r
  <2>5. build'[b] = r /\ \A c \in Clients \ {b} : build'[c] = build[c]
    BY <1>5 DEF FInv, FactoryTypeOK, Becomes, r
  <2>6. build' \in [Clients -> Build]
    BY <1>5, <2>1 DEF FInv, FactoryTypeOK, Becomes, r
  <2>7. FactoryTypeOK'
    BY <1>2, <2>1, <2>3, <2>4, <2>5, <2>6 DEF FInv, FactoryTypeOK
  <2>8. Builds'
    <3> SUFFICES ASSUME NEW c \in Clients
                 PROVE  /\ Attempts(build'[c])
                        /\ build'[c].at = "sandbox" /\ proc'[c] = "exit0" =>
                             Code(c, build'[c]) \in proven'
                        /\ build'[c].at = "register" =>
                             writer' = [op |-> "register", name |-> build'[c].name,
                                        code |-> Code(c, build'[c]), step |-> writer'.step]
      BY DEF Builds, Code, Attempts
    <3>1. CASE c = b
      BY <2>1, <2>3, <2>5, <3>1
    <3>2. CASE c # b
      BY <1>1, <1>2, <2>4, <2>5, <3>2 DEF FInv, Builds, Idle
    <3> QED  BY <3>1, <3>2
  <2>9. HonestFailure'
    BY <2>1, <2>5 DEF FInv, HonestFailure
  <2>10. WritesProven' /\ OnlyProven'
    BY <2>3, <2>4 DEF FInv, WritesProven, OnlyProven
  <2> QED  BY <1>2, <2>7, <2>8, <2>9, <2>10 DEF FInv
<1>6. CASE Becomes(b, Over(build[b], "raised")) /\ UNCHANGED registry
  BY <1>2, <1>6, OverBuild, BuilderKeeps
<1>7. CASE Becomes(b, Repair(build[b])) /\ UNCHANGED registry
  <2>1. build[b].rev = build[b].attempt /\ build[b].nth > 0 /\ build[b].outcome # "failed"
    BY <1>3, <1>4 DEF Attempts, WithCode
  <2>2. LET q == Repair(build[b]) IN
         /\ q \in Build /\ Attempts(q) /\ q.at \in {"repair", "over"}
         /\ q.outcome = "failed" => q.attempt = MaxRetries + 1 /\ q.error = q.rev
    BY <1>4, <2>1, RepairAttempts
  <2> QED  BY <1>2, <1>7, <2>2, BuilderKeeps
<1> QED  BY <1>5, <1>6, <1>7

LEMMA RemoveToolKeeps ==
  ASSUME FInv, NEW n \in Names, RemoveTool(n)
  PROVE  FInv'
<1> USE DEF FInv, FactoryTypeOK, RemoveTool, sandbox
<1>1. /\ RegistryTypeOK' /\ UNCHANGED <<module, index, halfway>>
      /\ writer' = [op |-> "remove", name |-> n, code |-> Load[n], step |-> "module"]
  BY RemoveType
<1>2. writer = Idle
  BY DEF Remove
<1>3. FactoryTypeOK' /\ CleanedUp'
  BY <1>1 DEF SandboxTypeOK, CleanedUp
<1>4. Builds'
  BY <1>1, <1>2 DEF Builds, Idle, Code, Attempts
<1> QED  BY <1>1, <1>3, <1>4 DEF HonestFailure, WritesProven, OnlyProven

(* A write of register() writes proven code; the second ends its build.    *)
LEMMA RegisteringKeeps ==
  ASSUME FInv, Registering
  PROVE  FInv'
<1> USE DEF FInv, FactoryTypeOK, Registering, sandbox
<1>1. SandboxTypeOK' /\ CleanedUp' /\ UNCHANGED <<box, proc, proven>>
  BY DEF SandboxTypeOK, CleanedUp
<1>2. CASE Write1 /\ UNCHANGED build
  <2>1. /\ RegistryTypeOK' /\ writer \in Call
        /\ writer' = [writer EXCEPT !.step = "index"]
        /\ module' = [module EXCEPT ![writer.name] = Written]
    BY <1>2, WriteSteps DEF Write1, Write2, Steps, RegisterSteps
  <2>2. writer'.op = writer.op /\ writer'.name = writer.name /\ writer'.code = writer.code
    BY <2>1 DEF Call
  <2>3. FactoryTypeOK'
    BY <1>1, <1>2, <2>1, <2>2
  <2>4. Builds'
    BY <1>1, <1>2, <2>1, <2>2 DEF Builds, Code, Attempts
  <2>5. OnlyProven'
    <3>1. Written = Nothing \/ Written \in proven
      BY DEF Written, WritesProven
    <3> QED  BY <1>1, <2>1, <3>1 DEF OnlyProven, RegistryTypeOK
  <2> QED  BY <1>1, <1>2, <2>2, <2>3, <2>4, <2>5 DEF HonestFailure, WritesProven
<1>3. CASE /\ Write2
           /\ build' = [b \in Clients |-> IF build[b].at = "register"
                                          THEN Over(build[b], "registered") ELSE build[b]]
  <2>1. RegistryTypeOK' /\ UNCHANGED module /\ writer' = Idle
    BY <1>3, WriteSteps DEF Write1, Write2, Steps, RegisterSteps
  <2>2. \A b \in Clients :
          \/ build'[b] = build[b] /\ build[b].at # "register"
          \/ /\ build'[b] \in Build /\ Attempts(build'[b]) /\ build[b].at = "register"
             /\ build'[b].at = "over" /\ build'[b].outcome = "registered"
    <3> SUFFICES ASSUME NEW b \in Clients, build[b].at = "register"
                 PROVE  LET q == Over(build[b], "registered") IN
                        /\ q \in Build /\ Attempts(q)
                        /\ q.at = "over" /\ q.outcome = "registered"
      BY <1>3
    <3> QED  BY OverBuild
  <2>3. build' \in [Clients -> Build]
    BY <1>3, <2>2
  <2>4. FactoryTypeOK'
    BY <1>1, <2>1, <2>2, <2>3 DEF Idle
  <2>5. Builds'
    BY <1>1, <2>2 DEF Builds, Code, Attempts
  <2>6. HonestFailure'
    BY <2>2 DEF HonestFailure
  <2> QED  BY <1>1, <2>1, <2>4, <2>5, <2>6 DEF WritesProven, OnlyProven, Idle
<1> QED  BY <1>2, <1>3

LEMMA ProcessKeeps ==
  ASSUME FInv, NEW b \in Clients, Process(b)
  PROVE  FInv'
<1> USE DEF FInv, FactoryTypeOK, Process, registry, disk
<1>1. PICK code \in Exited : Exit(b, code)
  OBVIOUS
<1>2. /\ SandboxTypeOK' /\ CleanedUp' /\ proc'[b] = code /\ UNCHANGED box
      /\ \A c \in Clients \ {b} : proc'[c] = proc[c]
  BY <1>1 DEF SandboxTypeOK, CleanedUp, Exit, Alive, Exited
<1>3. RegistryTypeOK' /\ UNCHANGED <<build, writer, module>>
  BY DEF RegistryTypeOK
<1>4. /\ proven \subseteq proven' /\ proven' \subseteq Codes
      /\ build[b].at = "sandbox" /\ proc'[b] = "exit0" => Code(b, build[b]) \in proven'
  BY CodeType
<1>5. FactoryTypeOK'
  BY <1>2, <1>3, <1>4
<1>6. Builds'
  BY <1>2, <1>3, <1>4 DEF Builds, Code, Attempts
<1> QED  BY <1>2, <1>3, <1>4, <1>5, <1>6 DEF HonestFailure, WritesProven, OnlyProven

LEMMA CrashKeeps ==
  ASSUME FInv, Crash
  PROVE  FInv'
<1> USE DEF FInv, FactoryTypeOK, Crash
<1>1. /\ RegistryTypeOK' /\ writer' = Idle
      /\ \A n \in Names : module'[n] \in {module[n], Torn}
  BY DieType
<1>2. SandboxTypeOK' /\ CleanedUp' /\ \A c \in Clients : box'[c] = "out"
  BY DEF LoseRuns, SandboxTypeOK, CleanedUp
<1>3. \A b \in Clients :
        /\ build'[b] \in Build /\ Attempts(build'[b])
        /\ build'[b].at = "over" /\ build'[b].outcome = "none"
  <2> SUFFICES ASSUME NEW b \in Clients
               PROVE  LET q == [build[b] EXCEPT !.at = "over", !.outcome = "none"] IN
                      /\ q \in Build /\ Attempts(q) /\ q.at = "over" /\ q.outcome = "none"
    OBVIOUS
  <2> QED  BY OverBuild DEF Over
<1>4. build' \in [Clients -> Build]
  BY <1>3
<1>5. FactoryTypeOK'
  BY <1>1, <1>2, <1>3, <1>4 DEF Idle
<1>6. Builds' /\ HonestFailure'
  BY <1>3 DEF Builds, HonestFailure
<1>7. WritesProven'
  BY <1>1 DEF WritesProven, Idle
<1>8. OnlyProven'
  <2>1. Torn \notin Codes /\ proven' = proven
    OBVIOUS
  <2> QED  BY <1>1, <2>1 DEF OnlyProven
<1> QED  BY <1>2, <1>5, <1>6, <1>7, <1>8

LEMMA NextFInv == FInv /\ [Next]_vars => FInv'
<1> SUFFICES ASSUME FInv, [Next]_vars PROVE FInv'
  OBVIOUS
<1>1. ASSUME NEW b \in Clients, BuilderStep(b) PROVE FInv'
  BY <1>1, GeneratedKeeps, GeneratorRaisesKeeps, SandboxWaitsKeeps, SandboxReturnsKeeps,
     SandboxRaisesKeeps DEF BuilderStep
<1>2. ASSUME NEW b \in Clients, \/ \E n \in Names : Start(b, n)
                                \/ Process(b)
                                \/ Cancel(b)
      PROVE FInv'
  BY <1>2, StartKeeps, ProcessKeeps, CancelKeeps
<1>3. ASSUME NEW n \in Names, RemoveTool(n) PROVE FInv'
  BY <1>3, RemoveToolKeeps
<1>4. CASE Registering
  BY <1>4, RegisteringKeeps
<1>5. CASE Crash
  BY <1>5, CrashKeeps
<1>6. CASE UNCHANGED vars
  <2> USE <1>6 DEF vars, sandbox, registry, disk, FInv
  <2>1. FactoryTypeOK'
    BY DEF FactoryTypeOK, SandboxTypeOK, RegistryTypeOK
  <2> QED
    BY <2>1 DEF CleanedUp, Builds, HonestFailure, WritesProven, OnlyProven, Code, Attempts
<1> QED  BY <1>1, <1>2, <1>3, <1>4, <1>5, <1>6 DEF Next

LEMMA SpecFInv == Spec => []FInv
BY InitFInv, NextFInv, PTL DEF Spec

-----------------------------------------------------------------------------
(***************************************************************************)
(* Theorems, whether or not writes can be torn.                            *)
(***************************************************************************)
(* Every builder, run and call is in a state build(), run() and the        *)
(* registry can be in, and a call writes for a builder that waits for it.  *)
THEOREM FactoryTypeCorrect == Spec => []FactoryTypeOK
<1>1. FInv => FactoryTypeOK  BY DEF FInv
<1> QED  BY <1>1, SpecFInv, PTL

(* A run that nothing cut short leaves no process and no directory.        *)
THEOREM RunsLeaveNothing == Spec => []CleanedUp
<1>1. FInv => CleanedUp  BY DEF FInv
<1> QED  BY <1>1, SpecFInv, PTL

(* Only code that passed its check and its run is ever on disk as a tool.  *)
THEOREM RegistersProven == Spec => []OnlyProven
<1>1. FInv => OnlyProven  BY DEF FInv
<1> QED  BY <1>1, SpecFInv, PTL

(* A failed build has used every retry and reports its last revision.      *)
THEOREM FailsHonestly == Spec => []HonestFailure
<1>1. FInv => HonestFailure  BY DEF FInv
<1> QED  BY <1>1, SpecFInv, PTL

-----------------------------------------------------------------------------
(***************************************************************************)
(* The registry on disk, when writes are atomic.                           *)
(***************************************************************************)
(* What a step does to the registry.                                       *)
LEMMA RegistrySteps ==
  ASSUME FInv, [Next]_vars
  PROVE  \/ \E n \in Names, code \in Codes : Register(n, code)
         \/ \E n \in Names : Remove(n)
         \/ Write1 \/ Write2 \/ Die
         \/ UNCHANGED registry
<1>1. ASSUME NEW b \in Clients, SandboxReturns(b)
      PROVE  \/ \E n \in Names, code \in Codes : Register(n, code)
             \/ UNCHANGED registry
  <2>1. build[b].at = "sandbox"
    BY <1>1 DEF SandboxReturns, FInv, FactoryTypeOK, Communicated, Reaped
  <2>2. Code(b, build[b]) \in Codes /\ build[b].name \in Names
    BY <2>1, CodeType, BuildFields DEF Build
  <2> QED  BY <1>1, <2>2 DEF SandboxReturns
<1>2. ASSUME NEW b \in Clients, BuilderStep(b)
      PROVE  \/ \E n \in Names, code \in Codes : Register(n, code)
             \/ UNCHANGED registry
  BY <1>1, <1>2 DEF BuilderStep, Generated, GeneratorRaises, SandboxWaits, SandboxRaises
<1>3. ASSUME NEW b \in Clients, \/ \E n \in Names : Start(b, n)
                                \/ Process(b)
                                \/ Cancel(b)
      PROVE UNCHANGED registry
  BY <1>3 DEF Start, Process, Cancel
<1>4. CASE UNCHANGED vars
  BY <1>4 DEF vars
<1> QED  BY <1>2, <1>3, <1>4 DEF Next, RemoveTool, Registering, Crash

LEMMA InitDInv == FactoryInit => DInv
BY DEF FactoryInit, RegistryInit, DInv, Consistent, Between, NoEntries, NoIndex, Nothing, Torn, Idle


LEMMA RegisterKeepsD ==
  ASSUME RegistryTypeOK, DInv, NEW n \in Names, NEW code \in Codes, Register(n, code)
  PROVE  DInv'
BY RegisterType DEF DInv, Consistent, Between, Register, Idle

LEMMA RemoveKeepsD ==
  ASSUME RegistryTypeOK, DInv, NEW n \in Names, Remove(n)
  PROVE  DInv'
BY RemoveType DEF DInv, Consistent, Between, Remove, Idle

LEMMA Write1KeepsD ==
  ASSUME RegistryTypeOK, DInv, Write1
  PROVE  DInv'
<1> DEFINE m == writer.name
<1>1. /\ writer \in Call /\ writer.step = "module" /\ UNCHANGED <<index, kept, halfway>>
      /\ writer' = [writer EXCEPT !.step = "index"]
      /\ module' = [module EXCEPT ![m] = Written]
  BY WriteSteps DEF Write1, Write2, Steps, RegisterSteps
<1>2. /\ m \in Names /\ writer.code \in Codes
      /\ writer'.step = "index" /\ writer'.name = m /\ writer'.op = writer.op
      /\ writer'.code = writer.code
  BY <1>1 DEF Call
<1>3. module'[m] = Written /\ \A n \in Names \ {m} : module'[n] = module[n]
  BY <1>1, <1>2 DEF RegistryTypeOK
<1>4. \A n \in Names : ~Between(n)' => Consistent(n)'
  BY <1>1, <1>2, <1>3 DEF DInv, Between, Consistent
<1>5. writer.op = "register" => module'[m] = writer.code
  BY <1>3 DEF Written
<1>6. \A n \in kept : index[n] # Nothing /\ module'[n] \in Codes
  BY <1>1, <1>2, <1>3, <1>5 DEF DInv, RegistryTypeOK, Call
<1> QED  BY <1>1, <1>2, <1>4, <1>5, <1>6 DEF DInv

LEMMA Write2KeepsD ==
  ASSUME RegistryTypeOK, DInv, Write2
  PROVE  DInv'
<1>0. PICK m \in Names : m = writer.name
  BY WriteSteps DEF Call
<1>1. /\ writer \in Call /\ writer.step = "index" /\ UNCHANGED module
      /\ writer' = Idle /\ index' = [index EXCEPT ![m] = Written]
  BY <1>0, WriteSteps DEF Write1, Write2, Steps, RegisterSteps, DInv, Load
<1>2. /\ kept' = IF writer.op = "register" THEN kept \cup {m} ELSE kept
      /\ halfway' = halfway \ ({"register", "remove"} \X {m})
  BY <1>0 DEF Write2
<1>3. writer.code \in Codes /\ writer.op \in {"register", "remove"}
  BY <1>1 DEF Call
<1>4. index \in [Names -> Codes \cup {Nothing}]
  BY DEF RegistryTypeOK, DInv
<1>5. index'[m] = Written /\ \A n \in Names \ {m} : index'[n] = index[n]
  BY <1>1, <1>3, <1>4
<1>6. index' # NoIndex
  BY <1>3, <1>5 DEF NoIndex, Written, Nothing, Torn
<1>7. \A n \in Names \ {m} : Consistent(n)'
  <2> SUFFICES ASSUME NEW n \in Names \ {m} PROVE Consistent(n)'
    OBVIOUS
  <2>1. Consistent(n)
    BY <1>0 DEF DInv, Between
  <2>2. halfway' \cap ({"register", "remove"} \X {n}) = halfway \cap ({"register", "remove"} \X {n})
        /\ (<<"remove", n>> \in halfway' <=> <<"remove", n>> \in halfway)
    BY <1>2
  <2> QED  BY <1>1, <1>5, <2>1, <2>2 DEF Consistent
<1>8. Consistent(m)'
  <2>1. CASE writer.op = "register"
    <3>1. index'[m] = writer.code /\ module'[m] = writer.code
      BY <1>0, <1>1, <1>5, <2>1 DEF DInv, Written
    <3> QED  BY <1>3, <3>1 DEF Consistent
  <2>2. CASE writer.op = "remove"
    BY <1>5, <2>2 DEF Consistent, Written
  <2> QED  BY <1>3, <2>1, <2>2
<1>9. ASSUME NEW n \in kept' PROVE index'[n] # Nothing /\ module'[n] \in Codes
  <2>1. CASE n = m
    <3>1. writer.op = "register"
      BY <1>0, <1>2, <1>3, <2>1 DEF DInv
    <3>2. index'[m] = writer.code /\ module'[m] = writer.code
      BY <1>0, <1>1, <1>5, <3>1 DEF DInv, Written
    <3> QED  BY <1>3, <2>1, <3>2
  <2>2. CASE n # m
    <3>1. n \in kept /\ n \in Names
      BY <1>2, <2>2 DEF RegistryTypeOK
    <3> QED  BY <1>1, <1>5, <2>2, <3>1 DEF DInv
  <2> QED  BY <2>1, <2>2
<1>10. \A n \in Names : Consistent(n)'
  BY <1>7, <1>8
<1> QED  BY <1>1, <1>6, <1>9, <1>10 DEF DInv, Idle

LEMMA DieKeepsD ==
  ASSUME TornWrites = FALSE, RegistryTypeOK, DInv, Die
  PROVE  DInv'
<1>1. writer' = Idle /\ UNCHANGED <<module, index, kept>>
  BY DEF Die, disk
<1>2. halfway' = IF writer # Idle THEN halfway \cup {<<writer.op, writer.name>>} ELSE halfway
  BY DEF Die
<1>3. \A n \in Names : Consistent(n)'
  <2> SUFFICES ASSUME NEW n \in Names, index[n] # Nothing
               PROVE  /\ <<"remove", n>> \notin halfway' => module[n] \in Codes
                      /\ halfway' \cap ({"register", "remove"} \X {n}) = {} => module[n] = index[n]
    BY <1>1 DEF Consistent
  <2>1. CASE ~Between(n)
    BY <1>2, <2>1 DEF DInv, Consistent
  <2>2. CASE Between(n)
    <3>1. /\ writer # Idle /\ writer.name = n /\ writer.step = "index"
          /\ writer.op \in {"register", "remove"} /\ writer.code \in Codes
      BY <2>2 DEF Between, RegistryTypeOK, Call, Idle
    <3>2. <<writer.op, n>> \in halfway' \cap ({"register", "remove"} \X {n})
      BY <1>2, <3>1
    <3>3. CASE writer.op = "register"
      BY <3>1, <3>2, <3>3 DEF DInv
    <3>4. CASE writer.op = "remove"
      BY <3>2, <3>4
    <3> QED  BY <3>1, <3>3, <3>4
  <2> QED  BY <2>1, <2>2
<1> QED  BY <1>1, <1>3 DEF DInv, Idle

LEMMA NextDInv ==
  ASSUME TornWrites = FALSE
  PROVE  FInv /\ DInv /\ [Next]_vars => DInv'
<1> SUFFICES ASSUME FInv, DInv, [Next]_vars PROVE DInv'
  OBVIOUS
<1>1. RegistryTypeOK
  BY DEF FInv, FactoryTypeOK
<1>2. CASE UNCHANGED registry
  BY <1>2 DEF DInv, Consistent, Between, registry, disk
<1> QED
  BY <1>1, <1>2, RegistrySteps, RegisterKeepsD, RemoveKeepsD, Write1KeepsD, Write2KeepsD, DieKeepsD

(* What register() returned for is listed and loads until its removal      *)
(* begins, and between calls what is listed is what was written unless a   *)
(* crash cut a call on it: whenever the program dies, if its writes are    *)
(* atomic.  Without the assumption it is false (the run registry_crash).   *)
THEOREM RetrievesTools ==
  ASSUME TornWrites = FALSE
  PROVE  Spec => []Retrievable
<1>1. FInv /\ DInv => Retrievable
  <2> SUFFICES ASSUME FInv, DInv PROVE Retrievable
    OBVIOUS
  <2>1. Load = index
    BY DEF DInv, Load
  <2>2. kept \subseteq Loadable
    BY <2>1 DEF DInv, Loadable, Listed, FInv, FactoryTypeOK, RegistryTypeOK
  <2>3. ASSUME writer = Idle, NEW n \in Listed
        PROVE  /\ <<"remove", n>> \notin halfway => n \in Loadable
               /\ halfway \cap ({"register", "remove"} \X {n}) = {} => module[n] = Load[n]
    BY <2>1, <2>3 DEF DInv, Loadable, Listed, Between, Consistent, Idle
  <2> QED  BY <2>2, <2>3 DEF Retrievable
<1>2. Spec => []DInv
  BY InitDInv, NextDInv, SpecFInv, PTL DEF Spec
<1> QED  BY <1>1, <1>2, SpecFInv, PTL
=============================================================================

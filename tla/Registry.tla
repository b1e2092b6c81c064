------------------------------ MODULE Registry ------------------------------
(***************************************************************************)
(* ToolRegistry (omniord/tools/registry.py): tools kept on disk, each as a *)
(* module file and an entry of index.json, across crashes of the program.  *)
(*                                                                         *)
(* register() and remove() are synchronous: no other coroutine runs while  *)
(* they do, but the process may die between their writes, or in one of     *)
(* them when writes are not atomic.  (write_text truncates, then writes.)  *)
(***************************************************************************)
EXTENDS Naturals

CONSTANTS
  Names,       \* the names of tools
  Codes,       \* the module sources
  TornWrites   \* whether a crash may leave a file half written

Nothing == [by |-> "nobody"]     \* no file, no entry
Torn    == [by |-> "crash"]      \* a file cut short

NoEntries == [n \in Names |-> Nothing]
NoIndex   == [n \in Names |-> Torn]      \* an index that does not parse

ASSUME RegistryAssumption ==
  /\ Names # {} /\ TornWrites \in BOOLEAN
  /\ Nothing \notin Codes /\ Torn \notin Codes

VARIABLES
  module,      \* the file <name>.py of each name
  index,       \* index.json: the code each entry describes
  writer,      \* the register() or remove() under way
  kept,        \* the names registered and not removed since (history)
  halfway      \* the calls that a crash cut and none has completed since (history)

disk == <<module, index>>
registry == <<disk, writer, kept, halfway>>

Idle == [op |-> "none", name |-> Nothing, code |-> Nothing, step |-> "none"]
Call == [op : {"register", "remove"}, name : Names, code : Codes, step : {"module", "index"}]

RegistryTypeOK ==
  /\ module \in [Names -> Codes \cup {Nothing, Torn}]
  /\ index \in [Names -> Codes \cup {Nothing}] \cup {NoIndex}
  /\ writer \in Call \cup {Idle}
  /\ kept \subseteq Names /\ halfway \subseteq {"register", "remove"} \X Names

RegistryInit ==
  /\ module = NoEntries
  /\ index = NoEntries
  /\ writer = Idle
  /\ kept = {} /\ halfway = {}

-----------------------------------------------------------------------------
\* _load_index: an index that does not parse counts as empty.
Load == IF index = NoIndex THEN NoEntries ELSE index

\* list, get and load_source, as far as they succeed.
Listed       == {n \in Names : Load[n] # Nothing}
Loadable     == {n \in Listed : module[n] \in Codes}

\* Mutant: the entry is written first.
RegisterSteps_IndexFirst == <<"index", "module">>
RegisterSteps == <<"module", "index">>

Register(n, code) ==
  /\ writer = Idle
  /\ writer' = [op |-> "register", name |-> n, code |-> code, step |-> RegisterSteps[1]]
  /\ UNCHANGED <<disk, kept, halfway>>

\* A name that is not in the index is left alone, file and all.
Remove(n) ==
  /\ writer = Idle
  /\ n \in Listed
  /\ writer' = [op |-> "remove", name |-> n, code |-> Load[n], step |-> "module"]
  /\ kept' = kept \ {n}
  /\ UNCHANGED <<disk, halfway>>

Written == IF writer.op = "register" THEN writer.code ELSE Nothing
Steps   == IF writer.op = "register" THEN RegisterSteps ELSE <<"module", "index">>

WriteFile ==
  \/ /\ writer.step = "module"
     /\ module' = [module EXCEPT ![writer.name] = Written]
     /\ UNCHANGED index
  \/ /\ writer.step = "index"
     /\ index' = [Load EXCEPT ![writer.name] = Written]
     /\ UNCHANGED module

\* The first write; the second, with which the call returns.
Write1 ==
  /\ writer # Idle /\ writer.step = Steps[1]
  /\ WriteFile
  /\ writer' = [writer EXCEPT !.step = Steps[2]]
  /\ UNCHANGED <<kept, halfway>>

Write2 ==
  /\ writer # Idle /\ writer.step = Steps[2]
  /\ WriteFile
  /\ writer' = Idle
  /\ kept' = IF writer.op = "register" THEN kept \cup {writer.name} ELSE kept
  /\ halfway' = halfway \ ({"register", "remove"} \X {writer.name})

\* The process dies and starts again.
Die ==
  /\ writer' = Idle
  /\ halfway' = IF writer # Idle THEN halfway \cup {<<writer.op, writer.name>>} ELSE halfway
  /\ \/ UNCHANGED disk
     \/ /\ TornWrites /\ writer.step = "module" /\ writer.op = "register"
        /\ module' = [module EXCEPT ![writer.name] = Torn]
        /\ UNCHANGED index
     \/ /\ TornWrites /\ writer.step = "index"
        /\ index' = NoIndex
        /\ UNCHANGED module
  /\ UNCHANGED kept

-----------------------------------------------------------------------------
(* Tools "survive across sessions and can be retrieved later" (registry.   *)
(* py:4-5): what register() returned for, and nobody has begun to remove,  *)
(* is listed and loads, whenever the process dies.  Between calls, what is *)
(* listed loads unless a removal was cut, and a registration that was cut  *)
(* shows at most as new code under the old description.                    *)
Retrievable ==
  /\ kept \subseteq Loadable
  /\ writer = Idle => \A n \in Listed :
       /\ <<"remove", n>> \notin halfway => n \in Loadable
       /\ halfway \cap ({"register", "remove"} \X {n}) = {} => module[n] = Load[n]

(* The same promise, of the tools that no interrupted call was about.      *)
Survives ==
  \A n \in kept : halfway \cap ({"register", "remove"} \X {n}) = {} => n \in Loadable
=============================================================================

---------------------------- MODULE MemoryStore -----------------------------
(***************************************************************************)
(* MemoryStore (omniord/memory/store.py): episodes in an SQLite file.      *)
(*                                                                         *)
(* A store is one process's connection to the file, which several          *)
(* processes share; its lock makes the threads that add() and search()     *)
(* hand their work to take turns.  The statement and its commit are two    *)
(* steps: SQLite lets one connection at a time have an open transaction,   *)
(* whose table only that connection sees, and a commit may fail and leave  *)
(* it open.  Embeddings are abstracted to their length, which depends on   *)
(* the model that made them, and a similarity for each pair of texts.      *)
(***************************************************************************)
EXTENDS Naturals, SequencesExt, FiniteSets

CONSTANTS
  Callers,     \* coroutines that call add() and search(), add() once each
  Stores,      \* connections
  Homes,       \* the ways the callers may be spread over the connections
  Nobody,      \* no caller and no store
  Texts,
  Similarity,  \* of two texts: Texts -> (Texts -> Nat), 0 for none
  Lengths,     \* of the vectors the embedder may return
  K,           \* how many episodes a search returns
  MaxDeletes,  \* bound: how many ids delete() is called with
  Metadata,
  OldRows      \* the table when the system is first looked at

ASSUME StoreAssumption ==
  /\ Homes \subseteq [Callers -> Stores]
  /\ Nobody \notin Callers \cup Stores
  /\ Similarity \in [Texts -> [Texts -> Nat]]
  /\ K \in Nat /\ MaxDeletes \in Nat

OldIds == {OldRows[i].id : i \in DOMAIN OldRows}
RowIds == Callers \cup OldIds
Rows   == [id : RowIds, text : Texts, length : Lengths, metadata : Metadata]

ASSUME OldRowsAssumption ==
  /\ OldRows \in Seq(Rows) /\ OldIds \cap Callers = {}
  /\ \A i, j \in DOMAIN OldRows : OldRows[i].id = OldRows[j].id => i = j

VARIABLES
  home,       \* the connection of each caller
  disk,       \* the rows that were committed, in the order of insertion
  writer,     \* the connection that has a transaction open, or Nobody
  draft,      \* the table as that connection sees it
  lock,       \* self._lock of each store: the caller whose thread holds it
  thread,     \* the thread that inserts for each caller
  row,        \* what it will insert, until it executes the statement
  stopped,    \* the stores whose process has ended
  promised,   \* ids that add() returned (history)
  deleted     \* ids that delete() was called with (history)

table     == <<disk, writer, draft>>
storeVars == <<home, disk, writer, draft, lock, thread, row, stopped, promised, deleted>>

NoRow  == [id |-> Nobody]
Ids(t) == {t[i].id : i \in DOMAIN t}

Unique(t) == \A i, j \in DOMAIN t : t[i].id = t[j].id => i = j

StoreTypeOK ==
  /\ home \in Homes
  /\ disk \in Seq(Rows) /\ Unique(disk)
  /\ writer \in Stores \cup {Nobody} /\ writer \notin stopped
  /\ draft \in Seq(Rows) /\ Unique(draft)
  /\ lock \in [Stores -> Callers \cup {Nobody}]
  /\ thread \in [Callers -> {"none", "waiting", "writing", "done", "failed"}]
  /\ \A c \in Callers : thread[c] = "writing" <=> lock[home[c]] = c
  /\ row \in [Callers -> Rows \cup {NoRow}]
  /\ \A c \in Callers : thread[c] = "waiting" => row[c] \in Rows /\ row[c].id = c
  /\ stopped \subseteq Stores
  /\ promised \subseteq RowIds /\ deleted \subseteq RowIds

StoreInit ==
  /\ home \in Homes
  /\ disk = OldRows
  /\ writer = Nobody
  /\ draft = <<>>
  /\ lock = [s \in Stores |-> Nobody]
  /\ thread = [c \in Callers |-> "none"]
  /\ row = [c \in Callers |-> NoRow]
  /\ stopped = {}
  /\ promised = OldIds
  /\ deleted = {}

-----------------------------------------------------------------------------
(***************************************************************************)
(* Mutants.                                                                *)
(***************************************************************************)
\* The first K similar rows, not the best.
Best_First(rows, text, length) ==
  LET similar == SelectSeq(rows, LAMBDA r : r.length = length /\ Similarity[text][r.text] > 0)
  IN  {[k \in 1..Min({K, Len(similar)}) |-> similar[k]]}

\* _insert() does not commit.
CommitOk_Never(c) == lock' = [lock EXCEPT ![home[c]] = Nobody]
                     /\ thread' = [thread EXCEPT ![c] = "done"] /\ UNCHANGED table

\* The lock is not released when an exception is raised.
CommitFails_Locked(c) ==
  thread' = [thread EXCEPT ![c] = "failed"] /\ UNCHANGED <<table, lock>>

-----------------------------------------------------------------------------
(***************************************************************************)
(* search(): the rows are fetched under the lock, as the connection sees   *)
(* them, and the K most similar are returned, best first; vectors of       *)
(* different lengths have nothing in common.                               *)
(***************************************************************************)
Table(s) == IF writer = s THEN draft ELSE disk
Free(s)  == s \notin stopped /\ lock[s] = Nobody

Score(r, text, length) == IF r.length = length THEN Similarity[text][r.text] ELSE 0

Similar(rows, text, length) == {i \in DOMAIN rows : Score(rows[i], text, length) > 0}

\* The sort is stable.
Before(rows, text, length, i, j) ==
  LET S(k) == Score(rows[k], text, length)
  IN  S(i) > S(j) \/ (S(i) = S(j) /\ i < j)

\* The positions of the results: in order, and before whatever is left out.
Rankings(rows, text, length) ==
  LET similar == Similar(rows, text, length)
      n == Min({K, Cardinality(similar)})
  IN  {s \in [1..n -> similar] :
         /\ \A k, l \in 1..n : k < l => Before(rows, text, length, s[k], s[l])
         /\ \A k \in 1..n, j \in similar \ ToSet(s) : Before(rows, text, length, s[k], j)}

Best(rows, text, length) ==
  {[k \in DOMAIN s |-> rows[s[k]]] : s \in Rankings(rows, text, length)}

-----------------------------------------------------------------------------
(***************************************************************************)
(* add(): the row is handed to a thread, which takes the lock, executes    *)
(* the INSERT and commits.                                                 *)
(***************************************************************************)
Submit(c, r) ==
  /\ thread' = [thread EXCEPT ![c] = "waiting"]
  /\ row' = [row EXCEPT ![c] = r]
  /\ UNCHANGED <<home, table, lock, stopped, promised, deleted>>

Leaves(c, end) ==
  /\ thread' = [thread EXCEPT ![c] = end]
  /\ row' = [row EXCEPT ![c] = NoRow]

CanWrite(s) == writer \in {s, Nobody}

\* The lock is taken and the statement executed, which opens a transaction.
Insert(c) ==
  LET s == home[c] IN
  /\ thread[c] = "waiting" /\ Free(s)
  /\ CanWrite(s)
  /\ writer' = s
  /\ draft' = Append(Table(s), row[c])
  /\ lock' = [lock EXCEPT ![s] = c]
  /\ Leaves(c, "writing")
  /\ UNCHANGED <<home, disk, stopped, promised, deleted>>

NoTransaction == writer' = Nobody /\ draft' = <<>>

\* The metadata is no JSON, or the file is locked for longer than the timeout; or
\* the statement fails in the transaction, which stays open or is rolled back.
InsertFails(c) ==
  LET s == home[c] IN
  /\ thread[c] = "waiting" /\ Free(s)
  /\ \/ UNCHANGED <<writer, draft>>
     \/ CanWrite(s) /\ (NoTransaction \/ (writer' = s /\ draft' = Table(s)))
  /\ Leaves(c, "failed")
  /\ UNCHANGED <<home, disk, lock, stopped, promised, deleted>>

Unlock(c, end) ==
  /\ lock' = [lock EXCEPT ![home[c]] = Nobody]
  /\ thread' = [thread EXCEPT ![c] = end]

CommitOk(c)    == disk' = draft /\ NoTransaction /\ Unlock(c, "done")
CommitFails(c) ==
  /\ UNCHANGED table \/ (NoTransaction /\ UNCHANGED disk)
  /\ Unlock(c, "failed")

Commit(c) ==
  /\ thread[c] = "writing"
  /\ CommitOk(c) \/ CommitFails(c)
  /\ UNCHANGED <<home, row, stopped, promised, deleted>>

\* add() resumes and returns the id.
Added(c) ==
  /\ thread[c] = "done"
  /\ promised' = promised \cup {c}
  /\ UNCHANGED <<home, table, lock, thread, row, stopped, deleted>>

\* A cancelled add() leaves its thread to go on, unless it has not begun.
Abandon(c) ==
  /\ UNCHANGED <<thread, row>> \/ (thread[c] = "waiting" /\ Leaves(c, "none"))
  /\ UNCHANGED <<home, table, lock, stopped, promised, deleted>>

Thread(c) == Insert(c) \/ InsertFails(c) \/ Commit(c)

-----------------------------------------------------------------------------
\* An id is the primary key of at most one row.
Without(t, id) ==
  IF id \in Ids(t) THEN RemoveAt(t, CHOOSE i \in DOMAIN t : t[i].id = id) ELSE t

\* delete(): synchronous; its commit writes whatever transaction was open.
Delete(s, id) ==
  /\ Free(s) /\ CanWrite(s)
  /\ id \notin deleted /\ Cardinality(deleted) < MaxDeletes
  /\ deleted' = deleted \cup {id}
  /\ LET rest == Without(Table(s), id) IN
     \/ disk' = rest /\ NoTransaction
     \/ UNCHANGED disk /\ (NoTransaction \/ (writer' = s /\ draft' = rest))
  /\ UNCHANGED <<home, lock, thread, row, stopped, promised>>

\* The process of a store ends, at any time, and SQLite drops its transaction.
Stop(s) ==
  /\ s \notin stopped
  /\ stopped' = stopped \cup {s}
  /\ lock' = [lock EXCEPT ![s] = Nobody]
  /\ thread' = [c \in Callers |-> IF home[c] = s THEN "none" ELSE thread[c]]
  /\ row' = [c \in Callers |-> IF home[c] = s THEN NoRow ELSE row[c]]
  /\ IF writer = s THEN NoTransaction ELSE UNCHANGED <<writer, draft>>
  /\ UNCHANGED <<home, disk, promised, deleted>>

-----------------------------------------------------------------------------
(* What add() returned an id for is in the file until somebody deletes it: *)
(* whatever process ends and whichever commit fails (store.py:1, "Persist- *)
(* ent", and store.py:126).                                                *)
Durable == promised \ deleted \subseteq Ids(disk)
=============================================================================

--------------------------- MODULE SessionProofs ----------------------------
(***************************************************************************)
(* Proofs about Session: for any number of clients, processes and          *)
(* episodes, any answers of the model and any similarity of texts, what a  *)
(* client was promised is on disk, episodes tell the truth, and earlier    *)
(* ones are recalled.                                                      *)
(***************************************************************************)
EXTENDS Session, WellFoundedInduction, SequenceTheorems, FiniteSetTheorems,
        FunctionTheorems, TLAPS

USE PlanAssumption, StoreAssumption, OldRowsAssumption, SessionAssumption

-----------------------------------------------------------------------------
(***************************************************************************)
(* The inductive invariant.                                                *)
(*                                                                         *)
(* About the file: an open transaction has every row that must stay, and   *)
(* the rows it shares with the file are the same; a thread that writes has *)
(* the transaction, with its row in it; one that is done has its row on    *)
(* disk.                                                                   *)
(***************************************************************************)
OpenTransactionKeeps ==
  /\ writer # Nobody => Ids(disk) \ deleted \subseteq Ids(draft)
  /\ \A r \in ToSet(disk), q \in ToSet(draft) : r.id = q.id => r = q

ThreadsProgress ==
  \A c \in Callers :
    /\ thread[c] = "writing" => writer = home[c] /\ c \in Ids(draft)
    /\ thread[c] = "done" => c \in Ids(disk) \cup deleted

(***************************************************************************)
(* About the clients: a row is new when it is handed to its thread; what   *)
(* was promised is from a client that has returned; a client remembers     *)
(* what was promised, and what it asked, only while the swarm runs.        *)
(***************************************************************************)
Fresh(c) == at[c] \in {"idle", "recall", "swarm"} \/ thread[c] = "waiting"

Progresses(c) ==
  /\ Fresh(c) => c \notin Ids(disk) \cup Ids(draft)
  /\ at[c] = "returned" => thread[c] \in {"none", "done"}
  /\ c \in promised => at[c] = "returned"
  /\ before[c] \subseteq promised
  /\ asked[c] # 0 => at[c] \in {"swarm", "killed"}
  /\ at[c] \in Active => Accepted(PlanFor(answer[c]))

ClientsProgress == \A c \in Callers : Progresses(c)

(***************************************************************************)
(* Rows that are on disk, in the transaction or still to be inserted.      *)
(***************************************************************************)
Telling(r) == r.id \in Callers => TrueEpisode(r)

RowsTell ==
  /\ \A r \in ToSet(disk) \cup ToSet(draft) : Telling(r)
  /\ \A c \in Callers : thread[c] = "waiting" => Telling(row[c])

SessionInv ==
  /\ SessionTypeOK
  /\ OpenTransactionKeeps
  /\ ThreadsProgress
  /\ ClientsProgress
  /\ RowsTell
  /\ Durable
  /\ RecallsEarlier

-----------------------------------------------------------------------------
(***************************************************************************)
(* Tables.                                                                 *)
(***************************************************************************)
LEMMA IdsOfRows == \A t : Ids(t) = {r.id : r \in ToSet(t)}
BY DEF Ids, ToSet

LEMMA UniqueRows ==
  ASSUME NEW t, Unique(t), NEW r \in ToSet(t), NEW q \in ToSet(t), r.id = q.id
  PROVE  r = q
BY DEF Unique, ToSet

LEMMA AppendRow ==
  ASSUME NEW t \in Seq(Rows), Unique(t), NEW r \in Rows, r.id \notin Ids(t)
  PROVE  /\ Append(t, r) \in Seq(Rows) /\ Unique(Append(t, r))
         /\ ToSet(Append(t, r)) = ToSet(t) \cup {r}
<1>1. /\ Append(t, r) \in Seq(Rows) /\ Len(Append(t, r)) = Len(t) + 1
      /\ \A i \in 1..Len(t) : Append(t, r)[i] = t[i]
      /\ Append(t, r)[Len(t) + 1] = r
  BY AppendProperties
<1>2. ToSet(Append(t, r)) = ToSet(t) \cup {r}
  <2> DEFINE a == Append(t, r)
  <2>1. DOMAIN a = 1..(Len(t) + 1) /\ DOMAIN t = 1..Len(t) /\ Len(t) \in Nat
    BY <1>1
  <2>2. /\ \A i \in 1..Len(t) : a[i] = t[i]
        /\ a[Len(t) + 1] = r
    BY <1>1
  <2> HIDE DEF a
  <2>3. \A x \in ToSet(a) : x \in ToSet(t) \cup {r}
    BY <2>1, <2>2 DEF ToSet
  <2>4. \A x \in ToSet(t) : x \in ToSet(a)
    BY <2>1, <2>2 DEF ToSet
  <2>5. r \in ToSet(a)
    BY <2>1, <2>2 DEF ToSet
  <2> QED BY <2>3, <2>4, <2>5 DEF a
<1>3. Unique(Append(t, r))
  BY <1>1 DEF Unique, Ids
<1> QED BY <1>1, <1>2, <1>3

(* Removing an element shifts those behind it.                             *)
LEMMA RemoveAtProperties ==
  ASSUME NEW S, NEW s \in Seq(S), NEW k \in 1..Len(s)
  PROVE  /\ RemoveAt(s, k) \in Seq(S) /\ Len(RemoveAt(s, k)) = Len(s) - 1
         /\ \A i \in 1..(Len(s) - 1) : RemoveAt(s, k)[i] = s[IF i < k THEN i ELSE i + 1]
<1> DEFINE l == SubSeq(s, 1, k - 1)
           r == SubSeq(s, k + 1, Len(s))
<1>1. RemoveAt(s, k) = l \o r
  BY DEF RemoveAt
<1>2. /\ l \in Seq(S) /\ Len(l) = k - 1
      /\ \A i \in 1..(k - 1) : l[i] = s[i]
  BY SubSeqProperties
<1>3. /\ r \in Seq(S) /\ Len(r) = Len(s) - k
      /\ \A i \in 1..(Len(s) - k) : r[i] = s[k + i]
  BY SubSeqProperties
<1> HIDE DEF l, r
<1>4. l \o r \in Seq(S) /\ Len(l \o r) = Len(s) - 1
  <2>1. l \in Seq(S) /\ r \in Seq(S)
    BY <1>2, <1>3
  <2>2. l \o r \in Seq(S)
    BY <2>1, ConcatProperties
  <2>3. Len(l \o r) = Len(l) + Len(r)
    BY <2>1, ConcatProperties
  <2> QED BY <1>2, <1>3, <2>2, <2>3
<1>5. ASSUME NEW i \in 1..(Len(s) - 1)
      PROVE  (l \o r)[i] = s[IF i < k THEN i ELSE i + 1]
  <2>1. (l \o r)[i] = IF i <= Len(l) THEN l[i] ELSE r[i - Len(l)]
    BY <1>2, <1>3, <1>4, ConcatProperties
  <2>2. CASE i < k
    BY <1>2, <1>4, <2>1, <2>2
  <2>3. CASE ~(i < k)
    <3>1. i >= k
      BY <2>3
    <3> QED BY <1>2, <1>3, <1>4, <2>1, <3>1
  <2> QED BY <2>2, <2>3
<1> QED BY <1>1, <1>4, <1>5

LEMMA WithoutRow ==
  ASSUME NEW t \in Seq(Rows), Unique(t), NEW id
  PROVE  /\ Without(t, id) \in Seq(Rows) /\ Unique(Without(t, id))
         /\ ToSet(Without(t, id)) = {r \in ToSet(t) : r.id # id}
<1>1. CASE id \notin Ids(t)
  BY <1>1 DEF Without, Ids, ToSet
<1>2. CASE id \in Ids(t)
  <2> DEFINE k == CHOOSE i \in DOMAIN t : t[i].id = id
             w == RemoveAt(t, k)
  <2>1. k \in 1..Len(t) /\ t[k].id = id
    BY <1>2 DEF Ids
  <2>2. Without(t, id) = w
    BY <1>2 DEF Without
  <2> HIDE DEF k
  <2>3. /\ w \in Seq(Rows) /\ Len(w) = Len(t) - 1
        /\ \A i \in 1..(Len(t) - 1) : w[i] = t[IF i < k THEN i ELSE i + 1]
    BY <2>1, RemoveAtProperties
  <2> HIDE DEF w
  <2>4. \A i \in DOMAIN t : t[i].id = id <=> i = k
    BY <2>1 DEF Unique
  <2>5. ASSUME NEW i \in DOMAIN w
        PROVE  w[i] \in {r \in ToSet(t) : r.id # id}
    <3> DEFINE j == IF i < k THEN i ELSE i + 1
    <3>1. j \in DOMAIN t /\ j # k
      BY <2>1, <2>3
    <3> QED BY <2>3, <2>4, <3>1 DEF ToSet
  <2>6. ASSUME NEW r \in ToSet(t), r.id # id
        PROVE  r \in ToSet(w)
    <3>1. PICK j \in DOMAIN t : r = t[j]
      BY DEF ToSet
    <3> DEFINE i == IF j < k THEN j ELSE j - 1
    <3>2. j # k
      BY <2>1, <2>6, <3>1
    <3>3. i \in 1..(Len(t) - 1) /\ (IF i < k THEN i ELSE i + 1) = j
      BY <2>1, <3>2
    <3> HIDE DEF i
    <3>4. i \in DOMAIN w /\ w[i] = t[IF i < k THEN i ELSE i + 1]
      BY <2>3, <3>3
    <3> QED BY <3>1, <3>3, <3>4 DEF ToSet
  <2>7. Unique(w)
    <3> SUFFICES ASSUME NEW i \in DOMAIN w, NEW j \in DOMAIN w, w[i].id = w[j].id
                 PROVE  i = j
      BY DEF Unique
    <3> DEFINE At(n) == IF n < k THEN n ELSE n + 1
    <3>1. i \in 1..(Len(t) - 1) /\ j \in 1..(Len(t) - 1)
      BY <2>3
    <3>2. w[i] = t[At(i)] /\ w[j] = t[At(j)]
      BY <2>3, <3>1
    <3>3. At(i) \in DOMAIN t /\ At(j) \in DOMAIN t
      BY <2>1, <3>1
    <3>4. At(i) = At(j)
      BY <3>2, <3>3 DEF Unique
    <3> QED BY <2>1, <3>1, <3>4
  <2>8. ToSet(w) = {r \in ToSet(t) : r.id # id}
    BY <2>5, <2>6 DEF ToSet
  <2> QED BY <2>2, <2>3, <2>7, <2>8
<1> QED BY <1>1, <1>2

-----------------------------------------------------------------------------
(* The least of two numbers.                                               *)
LEMMA MinOfTwo ==
  ASSUME NEW m \in Nat, NEW n \in Nat
  PROVE  Min({m, n}) \in Nat /\ Min({m, n}) = IF m <= n THEN m ELSE n
<1> DEFINE l == IF m <= n THEN m ELSE n
<1>1. l \in {m, n} /\ \A i \in {m, n} : l <= i
  OBVIOUS
<1>2. Min({m, n}) \in {m, n} /\ \A i \in {m, n} : Min({m, n}) <= i
  BY <1>1 DEF Min
<1> QED BY <1>1, <1>2

(* A function on 1..m is a sequence.                                       *)
LEMMA FunctionIsSeq ==
  ASSUME NEW S, NEW m \in Nat, NEW f \in [1..m -> S]
  PROVE  f \in Seq(S)
<1>1. f \in UNION {[1..i -> S] : i \in Nat}
  BY Zenon
<1>2. Seq(S) = UNION {[1..i -> S] : i \in Nat}
  BY SeqDef
<1> QED BY <1>1, <1>2, Zenon

(***************************************************************************)
(* search(): what is similar and not returned is displaced by K results    *)
(* that are at least as similar, because as many results as there are      *)
(* similar rows would be all of them.                                      *)
(***************************************************************************)
LEMMA BestDisplaces ==
  ASSUME NEW rows \in Seq(Rows), NEW text \in Texts, NEW length \in Lengths,
         NEW best \in Best(rows, text, length)
  PROVE  /\ best \in Seq(Rows)
         /\ \A r \in ToSet(rows) : Score(r, text, length) > 0 =>
              \/ r \in ToSet(best)
              \/ /\ Len(best) = K
                 /\ \A k \in 1..K : Score(best[k], text, length) >= Score(r, text, length)
<1> DEFINE similar == Similar(rows, text, length)
           n == Min({K, Cardinality(similar)})
<1>1. similar \subseteq 1..Len(rows) /\ IsFiniteSet(similar) /\ Cardinality(similar) \in Nat
  <2>1. similar \subseteq 1..Len(rows)
    BY DEF Similar
  <2>2. IsFiniteSet(similar)
    <3>1. IsFiniteSet(1..Len(rows))
      BY FS_Interval
    <3> QED BY <2>1, <3>1, FS_Subset
  <2> QED BY <2>1, <2>2, FS_CardinalityType
<1>2. n \in Nat /\ n = IF K <= Cardinality(similar) THEN K ELSE Cardinality(similar)
  BY <1>1, MinOfTwo
<1>3. PICK s \in Rankings(rows, text, length) : best = [k \in DOMAIN s |-> rows[s[k]]]
  BY DEF Best
<1>4. /\ s \in [1..n -> similar]
      /\ \A k, l \in 1..n : k < l => Before(rows, text, length, s[k], s[l])
      /\ \A k \in 1..n, j \in similar \ ToSet(s) : Before(rows, text, length, s[k], j)
  BY DEF Rankings
<1> HIDE DEF n, similar
<1>5. \A r \in Rows : Score(r, text, length) \in Nat
  BY DEF Score, Rows
<1>6. \A i \in 1..Len(rows) : rows[i] \in Rows
  BY ElementOfSeq
<1>7. best \in Seq(Rows) /\ Len(best) = n /\ \A k \in 1..n : best[k] = rows[s[k]]
  <2>1. DOMAIN s = 1..n /\ \A k \in 1..n : rows[s[k]] \in Rows
    BY <1>1, <1>4, <1>6
  <2>2. best = [k \in 1..n |-> rows[s[k]]]
    BY <1>3, <2>1
  <2>3. best \in [1..n -> Rows]
    BY <2>1, <2>2
  <2>4. best \in Seq(Rows) /\ Len(best) = n
    <3>1. best \in Seq(Rows)
      <4> QED BY <1>2, <2>3, FunctionIsSeq, Zenon
    <3>2. DOMAIN best = 1..n
      BY <2>3
    <3> QED BY <1>2, <3>1, <3>2, LenProperties
  <2> QED BY <2>2, <2>4
<1>8. ASSUME NEW j \in similar \ ToSet(s)
      PROVE  n = K
  <2>1. \A k, l \in 1..n : k < l => s[k] # s[l]
    <3> SUFFICES ASSUME NEW k \in 1..n, NEW l \in 1..n, k < l, s[k] = s[l] PROVE FALSE
      OBVIOUS
    <3>1. Before(rows, text, length, s[k], s[k])
      BY <1>4
    <3>2. s[k] \in 1..Len(rows) /\ Score(rows[s[k]], text, length) \in Nat
      BY <1>1, <1>4, <1>5, <1>6
    <3> QED BY <3>1, <3>2 DEF Before
  <2>2. s \in Injection(1..n, similar)
    BY <1>2, <1>4, <2>1 DEF Injection, IsInjective
  <2>3. s \notin Surjection(1..n, similar)
    BY <1>4, <1>8 DEF Surjection, ToSet
  <2>4. Cardinality(1..n) # Cardinality(similar)
    BY <1>1, <2>2, <2>3, FS_Injection
  <2>5. Cardinality(1..n) = n
    <3>1. 1 \in Int /\ n \in Int
      BY <1>2
    <3>2. Cardinality(1..n) = IF 1 > n THEN 0 ELSE n - 1 + 1
      BY <3>1, FS_Interval, Zenon
    <3> QED BY <1>2, <3>2
  <2> QED BY <1>2, <2>4, <2>5
<1>9. ASSUME NEW r \in ToSet(rows), Score(r, text, length) > 0, r \notin ToSet(best)
      PROVE  /\ Len(best) = K
             /\ \A k \in 1..K : Score(best[k], text, length) >= Score(r, text, length)
  <2>1. PICK j \in similar : rows[j] = r
    BY <1>9 DEF similar, Similar, ToSet
  <2>2. j \notin ToSet(s)
    BY <1>4, <1>7, <1>9, <2>1 DEF ToSet
  <2>3. Len(best) = K
    BY <1>7, <1>8, <2>2
  <2>4. ASSUME NEW k \in 1..K
        PROVE  Score(best[k], text, length) >= Score(r, text, length)
    <3>1. Before(rows, text, length, s[k], j) /\ best[k] = rows[s[k]] /\ s[k] \in 1..Len(rows)
      BY <1>1, <1>4, <1>7, <2>2, <2>3
    <3>2. rows[s[k]] \in Rows /\ rows[j] \in Rows /\ j \in Nat /\ s[k] \in Nat
      BY <1>1, <1>6, <2>1, <3>1
    <3>3. Score(rows[s[k]], text, length) \in Nat /\ Score(rows[j], text, length) \in Nat
      BY <1>5, <3>2
    <3> QED BY <2>1, <3>1, <3>2, <3>3 DEF Before
  <2> QED BY <2>3, <2>4
<1> QED BY <1>7, <1>9

-----------------------------------------------------------------------------
(***************************************************************************)
(* The outcome of a run whose plan was accepted is a true episode: ids are *)
(* unique, so the node of an item has the dependencies of that item.       *)
(***************************************************************************)
LEMMA EpisodeTells ==
  ASSUME NEW c \in Callers, answer[c] \in Seq(Items), Accepted(PlanFor(answer[c])),
         NEW D \in Ends(Dag(c)), NEW length \in Lengths
  PROVE  /\ TrueEpisode(Episode(c, D, length))
         /\ task[c] \in Texts => Episode(c, D, length) \in Rows
<1> DEFINE a == answer[c]
           plan == PlanFor(a)
           r == Episode(c, D, length)
<1>1. r.id = c /\ r.metadata.outcome = D /\ r.metadata.succeeded = (D = IdsOf(plan))
  BY DEF Episode, Outcome, Succeeded, Dag, ToDag
<1> HIDE DEF r
<1>2. /\ D \subseteq IdsOf(plan)
      /\ \A n \in D : ToDag(plan)[n] \subseteq D
  BY DEF Ends, Dag, ToDag
<1>3. \A i \in DOMAIN a : a[i] \in Items
  BY ElementOfSeq
<1>4. \A item \in Items : item.id \in Steps
  BY DEF Items
<1>5. /\ IdsOf(plan) \subseteq Steps
      /\ ToDo(c) = IdsOf(plan)
      /\ \A item \in Given(c) : item.id \in D => ToSet(item.deps) \subseteq D
  <2>1. CASE Kept(a) = {}
    <3>1. IdsOf(plan) = {TaskStep}
      BY <2>1 DEF PlanFor, Fallback, IdsOf
    <3>2. Given(c) = {}
      BY <2>1 DEF Given, Kept
    <3>3. ToDo(c) = {TaskStep}
      BY <3>2 DEF ToDo
    <3> QED BY <3>1, <3>2, <3>3
  <2>2. CASE Kept(a) # {}
    <3>1. plan = [i \in Kept(a) |-> a[i]]
      BY <2>2 DEF PlanFor, Parse, Restrict
    <3> HIDE DEF plan
    <3>2. DOMAIN plan = Kept(a) /\ \A i \in Kept(a) : plan[i] = a[i]
      BY <3>1
    <3>3. Given(c) = {a[i] : i \in Kept(a)}
      BY DEF Given, Kept
    <3>4. Given(c) # {} /\ IdsOf(plan) = {item.id : item \in Given(c)}
      BY <2>2, <3>2, <3>3 DEF IdsOf
    <3>5. Given(c) \subseteq Items
      BY <1>3, <3>3 DEF Kept
    <3>6. ASSUME NEW item \in Given(c), item.id \in D
          PROVE  ToSet(item.deps) \subseteq D
      <4>1. PICK i \in DOMAIN plan : plan[i] = item
        BY <3>2, <3>3
      <4>2. \A j \in DOMAIN plan : plan[j].id = item.id => j = i
        BY <4>1 DEF Accepted, plan
      <4>3. (CHOOSE j \in DOMAIN plan : plan[j].id = item.id) = i
        BY <4>1, <4>2
      <4>4. ToDag(plan)[item.id] = ToSet(item.deps)
        BY <1>2, <3>6, <4>1, <4>3 DEF ToDag
      <4> QED BY <1>2, <3>6, <4>4
    <3>7. ToDo(c) = IdsOf(plan)
      BY <3>4 DEF ToDo
    <3>8. IdsOf(plan) \subseteq Steps
      BY <1>4, <3>4, <3>5
    <3> QED BY <3>6, <3>7, <3>8
  <2> QED BY <2>1, <2>2
<1>6. TrueEpisode(r) /\ D \subseteq Steps
  <2> HIDE DEF plan
  <2>1. \A item \in Given(r.id) : item.id \in r.metadata.outcome =>
          ToSet(item.deps) \subseteq r.metadata.outcome
    BY <1>1, <1>5
  <2>2. r.metadata.succeeded <=> ToDo(r.id) \subseteq r.metadata.outcome
    <3> DEFINE I == IdsOf(plan)
    <3>1. D \subseteq I /\ ToDo(c) = I
      BY <1>2, <1>5, Zenon
    <3> HIDE DEF I
    <3>2. D = I <=> I \subseteq D
      BY <3>1
    <3> QED BY <1>1, <3>1, <3>2, Zenon DEF I
  <2> QED BY <1>2, <1>5, <2>1, <2>2 DEF TrueEpisode
<1>7. [outcome |-> D, succeeded |-> D = IdsOf(plan)] \in Metadata
  BY <1>6
<1>8. task[c] \in Texts => r \in Rows
  BY <1>7 DEF r, Episode, Outcome, Succeeded, Dag, ToDag, Rows, RowIds
<1> QED BY <1>6, <1>8 DEF r

-----------------------------------------------------------------------------
(***************************************************************************)
(* Two facts every step needs.                                             *)
(***************************************************************************)
LEMMA TypesOfStore ==
  ASSUME StoreTypeOK
  PROVE  /\ home \in [Callers -> Stores]
         /\ \A c \in Callers : thread[c] = "writing" <=> lock[home[c]] = c
BY DEF StoreTypeOK

(* What a client recalled stays all there is to recall, if the file gets   *)
(* no new row under an id that was promised.                               *)
RecallsAll(c) ==
  asked[c] # 0 =>
    \A r \in ToSet(disk) :
      r.id \in before[c] \ deleted /\ Score(r, task[c], asked[c]) > 0 =>
        \/ r \in ToSet(recalled[c])
        \/ /\ Len(recalled[c]) = K
           /\ \A j \in 1..K :
                Score(recalled[c][j], task[c], asked[c]) >= Score(r, task[c], asked[c])

LEMMA RecallsAllIs ==
  /\ RecallsEarlier <=> \A c \in Callers : RecallsAll(c)
  /\ RecallsEarlier' <=> \A c \in Callers : RecallsAll(c)'
<1> USE DEF RecallsEarlier, RecallsAll, ScoreFor
<1>1. RecallsEarlier <=> \A c \in Callers : RecallsAll(c)
  <2>1. \A r : r \in ToSet(disk) <=> \E i \in DOMAIN disk : r = disk[i]
    BY DEF ToSet
  <2> QED BY <2>1
<1>2. RecallsEarlier' <=> \A c \in Callers : RecallsAll(c)'
  <2>1. \A r : r \in ToSet(disk)' <=> \E i \in DOMAIN disk' : r = disk'[i]
    BY DEF ToSet
  <2> QED BY <2>1
<1> QED BY <1>1, <1>2

LEMMA StillRecalled ==
  ASSUME SessionInv, deleted \subseteq deleted',
         \A r \in ToSet(disk') : r.id \in promised \ deleted' => r \in ToSet(disk),
         NEW c \in Callers,
         asked'[c] # 0 => /\ asked'[c] = asked[c] /\ before'[c] = before[c]
                          /\ task'[c] = task[c] /\ recalled'[c] = recalled[c]
  PROVE  RecallsAll(c)'
<1> SUFFICES ASSUME asked'[c] # 0, NEW r \in ToSet(disk'),
                    r.id \in before'[c] \ deleted', Score(r, task'[c], asked'[c]) > 0
             PROVE  \/ r \in ToSet(recalled'[c])
                    \/ /\ Len(recalled'[c]) = K
                       /\ \A j \in 1..K : Score(recalled'[c][j], task'[c], asked'[c])
                                          >= Score(r, task'[c], asked'[c])
  BY DEF RecallsAll
<1>1. r \in ToSet(disk) /\ r.id \in before[c] \ deleted
  BY DEF SessionInv, ClientsProgress, Progresses
<1>2. RecallsAll(c)
  BY RecallsAllIs DEF SessionInv
<1> QED BY <1>1, <1>2 DEF RecallsAll

LEMMA InitSession == SessionInit => SessionInv
<1> SUFFICES ASSUME SessionInit PROVE SessionInv
  OBVIOUS
<1>1. SessionTypeOK
  <2>1. StoreTypeOK
    <3>1. Unique(disk) /\ Unique(draft)
      BY DEF SessionInit, StoreInit, Unique
    <3>2. draft \in Seq(Rows)
      BY DEF SessionInit, StoreInit
    <3>3. home \in [Callers -> Stores]
      BY DEF SessionInit, StoreInit
    <3> QED BY <3>1, <3>2, <3>3 DEF SessionInit, StoreInit, StoreTypeOK, RowIds
  <2>2. recalled \in [Callers -> Seq(Rows)] /\ answer \in [Callers -> Answers \cup {<<>>}]
    BY DEF SessionInit
  <2> QED BY <2>1, <2>2 DEF SessionInit, StoreInit, SessionTypeOK
<1>2. ToSet(draft) = {} /\ Ids(draft) = {} /\ Ids(disk) = OldIds
  BY DEF SessionInit, StoreInit, ToSet, Ids, OldIds
<1>3. OpenTransactionKeeps /\ ThreadsProgress /\ Durable
  BY <1>2 DEF SessionInit, StoreInit, OpenTransactionKeeps, ThreadsProgress, Durable
<1>4. ClientsProgress
  BY <1>2 DEF SessionInit, StoreInit, ClientsProgress, Progresses, Active
<1>5. RowsTell
  <2>1. \A r \in ToSet(disk) : r.id \in OldIds
    BY DEF SessionInit, StoreInit, ToSet, OldIds
  <2> QED BY <1>2, <2>1 DEF SessionInit, StoreInit, RowsTell, Telling
<1>6. RecallsEarlier
  BY DEF SessionInit, RecallsEarlier
<1> QED BY <1>1, <1>3, <1>4, <1>5, <1>6 DEF SessionInv

(* Rows go on telling the truth, when no new one appears.                  *)
LEMMA StillTells ==
  ASSUME UNCHANGED answer, NEW r, Telling(r)
  PROVE  Telling(r)'
<1>1. Given(r.id)' = Given(r.id)
  BY DEF Given
<1>2. ToDo(r.id)' = ToDo(r.id)
  BY <1>1 DEF ToDo
<1> QED BY <1>1, <1>2 DEF Telling, TrueEpisode

LEMMA StillTell ==
  ASSUME SessionInv, UNCHANGED answer,
         ToSet(disk') \cup ToSet(draft') \subseteq ToSet(disk) \cup ToSet(draft),
         \A c \in Callers : thread'[c] = "waiting" => thread[c] = "waiting" /\ row'[c] = row[c]
  PROVE  RowsTell'
<1>1. ASSUME NEW r, Telling(r) PROVE Telling(r)'
  BY <1>1, StillTells
<1> QED BY <1>1 DEF SessionInv, RowsTell

-----------------------------------------------------------------------------
(***************************************************************************)
(* Steps of a client.                                                      *)
(***************************************************************************)
LEMMA BeginKeeps ==
  ASSUME SessionInv, NEW c \in Callers, Begin(c)
  PROVE  SessionInv'
<1>1. SessionTypeOK /\ UNCHANGED storeVars /\ at[c] = "idle" /\ at' = [at EXCEPT ![c] = "recall"]
      /\ UNCHANGED <<recalled, asked>> /\ before' = [before EXCEPT ![c] = promised]
  BY DEF SessionInv, Begin, Goto
<1>2. PICK a \in Answers : Accepted(PlanFor(a)) /\ answer' = [answer EXCEPT ![c] = a]
  BY DEF Begin
<1>3. PICK t \in Prompts : task' = [task EXCEPT ![c] = t]
  BY DEF Begin
<1>4. StoreTypeOK'
  BY <1>1 DEF SessionTypeOK, StoreTypeOK, storeVars, table, Unique
<1>5. SessionTypeOK'
  BY <1>1, <1>2, <1>3, <1>4 DEF SessionTypeOK, StoreTypeOK, storeVars, table, Active, Over
<1>6. OpenTransactionKeeps' /\ ThreadsProgress' /\ Durable'
  BY <1>1 DEF SessionInv, OpenTransactionKeeps, ThreadsProgress, Durable, Ids, storeVars, table
<1>7. thread[c] = "none" /\ c \notin Ids(disk) \cup Ids(draft) /\ asked[c] = 0
      /\ c \notin promised
  BY <1>1 DEF SessionInv, SessionTypeOK, ClientsProgress, Progresses, Fresh
<1>8. ClientsProgress'
  <2> SUFFICES ASSUME NEW d \in Callers PROVE Progresses(d)'
    BY DEF ClientsProgress
  <2>1. UNCHANGED <<thread, promised, asked>> /\ (Ids(disk) \cup Ids(draft))' = Ids(disk) \cup Ids(draft)
    BY <1>1 DEF storeVars, table, Ids
  <2>2. CASE d = c
    BY <1>1, <1>2, <1>7, <2>1, <2>2 DEF SessionTypeOK, Progresses, Fresh
  <2>3. CASE d # c
    <3>1. at'[d] = at[d] /\ answer'[d] = answer[d] /\ before'[d] = before[d]
      BY <1>1, <1>2, <2>3 DEF SessionTypeOK
    <3> QED BY <2>1, <3>1 DEF SessionInv, ClientsProgress, Progresses, Fresh
  <2> QED BY <2>2, <2>3
<1>9. ASSUME NEW r, Telling(r), r.id # c
      PROVE  Telling(r)'
  <2> SUFFICES ASSUME r.id \in Callers PROVE TrueEpisode(r)'
    BY DEF Telling
  <2>1. answer'[r.id] = answer[r.id]
    BY <1>1, <1>2, <1>9 DEF SessionTypeOK
  <2>2. Given(r.id)' = Given(r.id)
    BY <2>1 DEF Given
  <2>3. ToDo(r.id)' = ToDo(r.id)
    BY <2>2 DEF ToDo
  <2> QED BY <1>9, <2>2, <2>3 DEF Telling, TrueEpisode
<1>10. RowsTell'
  <2>1. \A r \in ToSet(disk) \cup ToSet(draft) : r.id # c
    BY <1>7, IdsOfRows
  <2>2. \A d \in Callers : thread[d] = "waiting" => d # c /\ row[d].id = d
    BY <1>1, <1>7 DEF SessionTypeOK, StoreTypeOK
  <2>3. UNCHANGED <<thread, row, disk, draft>>
    BY <1>1 DEF storeVars, table
  <2> QED BY <1>9, <2>1, <2>2, <2>3 DEF SessionInv, RowsTell, ToSet
<1>11. RecallsEarlier'
  <2> SUFFICES ASSUME NEW d \in Callers PROVE RecallsAll(d)'
    BY RecallsAllIs
  <2>1. UNCHANGED <<disk, deleted>>
    BY <1>1 DEF storeVars, table
  <2>2. asked'[d] # 0 => d # c
    BY <1>1, <1>7
  <2>3. d # c => before'[d] = before[d] /\ task'[d] = task[d]
    BY <1>1, <1>3 DEF SessionTypeOK
  <2> QED BY <1>1, <2>1, <2>2, <2>3, StillRecalled
<1> QED BY <1>5, <1>6, <1>8, <1>10, <1>11 DEF SessionInv

(* A client moves on and leaves the store and its own task alone.          *)
LEMMA MoveKeeps ==
  ASSUME SessionInv, NEW c \in Callers, NEW place \in Active \cup Over,
         Goto(c, place), UNCHANGED <<storeVars, task, answer>>,
         recalled' \in [Callers -> Seq(Rows)], asked' \in [Callers -> Lengths \cup {0}],
         before' \in [Callers -> SUBSET RowIds],
         \A d \in Callers \ {c} : asked'[d] = asked[d] /\ before'[d] = before[d],
         asked'[c] # 0 => place = "swarm", before'[c] \subseteq before[c],
         place \in Active => at[c] \in Active,
         place = "add" <=> at[c] = "add",
         thread[c] # "none" => place \in {"add", "raised"},
         place = "swarm" => at[c] = "recall",
         place # "recall", c \notin promised
  PROVE  /\ SessionTypeOK' /\ OpenTransactionKeeps' /\ ThreadsProgress' /\ Durable'
         /\ ClientsProgress' /\ RowsTell'
<1>1. SessionTypeOK /\ at \in [Callers -> {"idle"} \cup Active \cup Over]
      /\ at' = [at EXCEPT ![c] = place]
  BY DEF SessionInv, SessionTypeOK, Goto
<1>2. StoreTypeOK'
  BY <1>1 DEF SessionTypeOK, StoreTypeOK, storeVars, table, Unique
<1>3. UNCHANGED <<disk, draft, writer, thread, row, home, promised, deleted>>
  BY DEF storeVars, table
<1>4. at' \in [Callers -> {"idle"} \cup Active \cup Over]
  BY <1>1
<1>5. /\ \A d \in Callers : thread[d] # "none" => at'[d] \in {"add", "returned", "raised"}
      /\ \A d \in Callers : at'[d] = "add" => thread[d] # "none"
  BY <1>1 DEF SessionTypeOK
<1>6. SessionTypeOK'
  BY <1>1, <1>2, <1>3, <1>4, <1>5 DEF SessionTypeOK
<1>7. OpenTransactionKeeps' /\ ThreadsProgress' /\ Durable'
  <2>1. Ids(disk)' = Ids(disk) /\ Ids(draft)' = Ids(draft)
    BY <1>3 DEF Ids
  <2>2. OpenTransactionKeeps' /\ Durable'
    BY <1>3, <2>1 DEF SessionInv, OpenTransactionKeeps, Durable
  <2>3. ThreadsProgress'
    BY <1>3, <2>1 DEF SessionInv, ThreadsProgress
  <2> QED BY <2>2, <2>3
<1>8. ClientsProgress'
  <2> SUFFICES ASSUME NEW d \in Callers PROVE Progresses(d)'
    BY DEF ClientsProgress
  <2>1. Progresses(d)
    BY DEF SessionInv, ClientsProgress
  <2>2. CASE d = c
    <3>1. at'[d] = place
      BY <1>1, <2>2
    <3>2. Fresh(c)' => Fresh(c)
      BY <1>1, <1>3, <2>2, <3>1 DEF Fresh, Active, Over
    <3>3. Fresh(c)' => c \notin (Ids(disk) \cup Ids(draft))'
      BY <1>3, <2>1, <2>2, <3>2 DEF Progresses, Ids
    <3>4. place = "returned" => thread[c] = "none"
      OBVIOUS
    <3>5. place \in Active => Accepted(PlanFor(answer[c]))
      BY <2>1, <2>2 DEF Progresses
    <3> QED BY <1>3, <2>1, <2>2, <3>1, <3>3, <3>4, <3>5 DEF Progresses
  <2>3. CASE d # c
    <3>1. at'[d] = at[d]
      BY <1>1, <2>3
    <3> QED BY <1>3, <2>1, <2>3, <3>1 DEF Progresses, Fresh, Ids
  <2> QED BY <2>2, <2>3
<1>9. RowsTell'
  BY <1>3, StillTell
<1> QED BY <1>6, <1>7, <1>8, <1>9

LEMMA BeginFailsKeeps ==
  ASSUME SessionInv, NEW c \in Callers, BeginFails(c)
  PROVE  SessionInv'
<1>1. at[c] = "idle" /\ SessionTypeOK /\ Progresses(c)
  BY DEF SessionInv, ClientsProgress, BeginFails
<1>2. Goto(c, "raised") /\ UNCHANGED <<storeVars, task, answer, recalled, asked, before>>
  BY DEF BeginFails
<1>3. /\ recalled' \in [Callers -> Seq(Rows)] /\ asked' \in [Callers -> Lengths \cup {0}]
      /\ before' \in [Callers -> SUBSET RowIds]
      /\ asked'[c] = 0 /\ c \notin promised /\ thread[c] = "none"
  BY <1>1, <1>2 DEF SessionTypeOK, Progresses
<1>4. /\ SessionTypeOK' /\ OpenTransactionKeeps' /\ ThreadsProgress' /\ Durable'
      /\ ClientsProgress' /\ RowsTell'
  BY <1>1, <1>2, <1>3, MoveKeeps DEF Active, Over
<1>5. RecallsEarlier'
  <2>1. UNCHANGED <<disk, deleted>>
    BY <1>2 DEF storeVars, table
  <2>2. \A d \in Callers : RecallsAll(d)'
    BY <1>2, <2>1, StillRecalled
  <2> QED BY <2>2, RecallsAllIs
<1> QED BY <1>4, <1>5 DEF SessionInv

LEMMA RecallKeeps ==
  ASSUME SessionInv, NEW c \in Callers, Recall(c)
  PROVE  SessionInv'
<1>1. at[c] = "recall" /\ SessionTypeOK /\ StoreTypeOK /\ Progresses(c)
  BY DEF SessionInv, SessionTypeOK, ClientsProgress, Recall
<1>2. Goto(c, "swarm") /\ UNCHANGED <<storeVars, task, answer, before>>
  BY DEF Recall
<1>3. UNCHANGED <<disk, draft, writer, deleted, home>>
  BY <1>2 DEF storeVars, table
<1>4. /\ \A d \in Callers \ {c} : asked'[d] = asked[d] /\ recalled'[d] = recalled[d]
      /\ asked' \in [Callers -> Lengths \cup {0}] /\ recalled' \in [Callers -> Seq(Rows)]
      /\ RecallsAll(c)'
  <2>1. CASE Search(c)
    <3> DEFINE rows == Table(home[c])
    <3>0. PICK length \in Lengths :
            /\ asked' = [asked EXCEPT ![c] = length]
            /\ \E best \in Best(rows, task[c], length) :
                 recalled' = [recalled EXCEPT ![c] = best]
      BY <2>1 DEF Search
    <3>1. PICK best \in Best(rows, task[c], length) : recalled' = [recalled EXCEPT ![c] = best]
      BY <3>0
    <3>2. rows \in Seq(Rows) /\ task[c] \in Texts
      BY <1>1, <2>1 DEF StoreTypeOK, Table, SessionTypeOK, Search
    <3> HIDE DEF rows
    <3>3. /\ best \in Seq(Rows)
          /\ \A r \in ToSet(rows) : Score(r, task[c], length) > 0 =>
               \/ r \in ToSet(best)
               \/ /\ Len(best) = K
                  /\ \A k \in 1..K : Score(best[k], task[c], length) >= Score(r, task[c], length)
      BY <3>2, BestDisplaces
    <3>4. ASSUME NEW r \in ToSet(disk), r.id \in before[c] \ deleted
          PROVE  r \in ToSet(rows)
      <4>1. CASE writer = home[c]
        <5>1. rows = draft /\ writer # Nobody
          BY <1>1, <4>1, TypesOfStore DEF Table, rows
        <5>2. PICK q \in ToSet(draft) : q.id = r.id
          <6>1. r.id \in Ids(disk) \ deleted
            BY <3>4, IdsOfRows
          <6>2. r.id \in Ids(draft)
            BY <5>1, <6>1 DEF SessionInv, OpenTransactionKeeps
          <6> QED BY <6>2 DEF Ids, ToSet
        <5> QED BY <5>1, <5>2 DEF SessionInv, OpenTransactionKeeps
      <4>2. CASE writer # home[c]
        BY <4>2 DEF Table, rows
      <4> QED BY <4>1, <4>2
    <3>5. asked'[c] = length /\ recalled'[c] = best
      BY <1>1, <3>0, <3>1 DEF SessionTypeOK
    <3>6. RecallsAll(c)'
      BY <1>2, <1>3, <3>3, <3>4, <3>5 DEF RecallsAll
    <3> QED BY <1>1, <3>0, <3>1, <3>3, <3>6 DEF SessionTypeOK
  <2>2. CASE task[c] = NoTask /\ UNCHANGED <<asked, recalled>>
    BY <1>1, <2>2 DEF SessionTypeOK, Progresses, RecallsAll
  <2> QED BY <2>1, <2>2 DEF Recall
<1>5. c \notin promised /\ thread[c] = "none"
  BY <1>1 DEF SessionTypeOK, Progresses
<1>6. /\ SessionTypeOK' /\ OpenTransactionKeeps' /\ ThreadsProgress' /\ Durable'
      /\ ClientsProgress' /\ RowsTell'
  <2>1. before' \in [Callers -> SUBSET RowIds] /\ \A d \in Callers : before'[d] = before[d]
    BY <1>1, <1>2 DEF SessionTypeOK
  <2> QED BY <1>1, <1>2, <1>4, <1>5, <2>1, MoveKeeps DEF Active, Over
<1>7. RecallsEarlier'
  <2>1. \A d \in Callers \ {c} : RecallsAll(d)'
    BY <1>2, <1>3, <1>4, StillRecalled
  <2> QED BY <1>4, <2>1, RecallsAllIs
<1> QED BY <1>6, <1>7 DEF SessionInv

(* What Forget does to the client's record.                                *)
LEMMA Forgets ==
  ASSUME SessionTypeOK, NEW c \in Callers, Forget(c)
  PROVE  /\ recalled' \in [Callers -> Seq(Rows)] /\ asked' \in [Callers -> Lengths \cup {0}]
         /\ before' \in [Callers -> SUBSET RowIds]
         /\ asked'[c] = 0 /\ before'[c] = {}
         /\ \A d \in Callers \ {c} : asked'[d] = asked[d] /\ before'[d] = before[d]
                                     /\ recalled'[d] = recalled[d]
<1>1. <<>> \in Seq(Rows)
  OBVIOUS
<1> QED BY <1>1 DEF SessionTypeOK, Forget

LEMMA GiveUpKeeps ==
  ASSUME SessionInv, NEW c \in Callers, NEW place \in {"returned", "raised"},
         at[c] \in {"recall", "swarm"}, Goto(c, place), Forget(c),
         UNCHANGED <<storeVars, task, answer>>
  PROVE  SessionInv'
<1>1. SessionTypeOK /\ Progresses(c)
  BY DEF SessionInv, ClientsProgress
<1>2. c \notin promised /\ thread[c] = "none"
  BY <1>1 DEF SessionTypeOK, Progresses
<1>3. /\ SessionTypeOK' /\ OpenTransactionKeeps' /\ ThreadsProgress' /\ Durable'
      /\ ClientsProgress' /\ RowsTell'
  BY <1>1, <1>2, Forgets, MoveKeeps DEF Active, Over
<1>4. RecallsEarlier'
  <2>1. UNCHANGED <<disk, deleted>>
    BY DEF storeVars, table
  <2>2. \A d \in Callers : RecallsAll(d)'
    BY <1>1, <2>1, Forgets, StillRecalled
  <2> QED BY <2>2, RecallsAllIs
<1> QED BY <1>3, <1>4 DEF SessionInv

LEMMA PersistKeeps ==
  ASSUME SessionInv, NEW c \in Callers, at[c] = "swarm", Persist(c), Forget(c),
         UNCHANGED <<task, answer>>
  PROVE  SessionInv'
<1>1. /\ SessionTypeOK /\ StoreTypeOK /\ Progresses(c)
      /\ thread[c] = "none" /\ c \notin promised /\ task[c] \in Texts
  <2>1. SessionTypeOK /\ StoreTypeOK /\ Progresses(c)
    BY DEF SessionInv, SessionTypeOK, ClientsProgress
  <2>2. thread[c] = "none" /\ task[c] \in Texts
    BY <2>1 DEF SessionTypeOK, Persist
  <2>3. c \notin promised
    BY <2>1 DEF Progresses
  <2> QED BY <2>1, <2>2, <2>3
<1>2. PICK D \in Ends(Dag(c)), length \in Lengths : Submit(c, Episode(c, D, length))
  BY DEF Persist
<1> DEFINE r == Episode(c, D, length)
<1>3. TrueEpisode(r) /\ r \in Rows /\ r.id = c
  <2>1. Accepted(PlanFor(answer[c])) /\ answer[c] \in Seq(Items)
    <3>1. <<>> \in Seq(Items)
      OBVIOUS
    <3>2. answer[c] \in Answers \cup {<<>>}
      BY <1>1 DEF SessionTypeOK
    <3> QED BY <1>1, <3>1, <3>2 DEF Progresses, Active
  <2> QED BY <1>1, <2>1, EpisodeTells DEF Episode
<1>4. /\ thread' = [thread EXCEPT ![c] = "waiting"] /\ row' = [row EXCEPT ![c] = r]
      /\ UNCHANGED <<home, disk, writer, draft, lock, stopped, promised, deleted>>
      /\ at' = [at EXCEPT ![c] = "add"]
  BY <1>2 DEF Submit, table, Persist, Goto
<1> HIDE DEF r
<1>5. thread'[c] = "waiting" /\ at'[c] = "add" /\ row'[c] = r
      /\ \A d \in Callers \ {c} : thread'[d] = thread[d] /\ at'[d] = at[d] /\ row'[d] = row[d]
  BY <1>1, <1>4 DEF SessionTypeOK, StoreTypeOK
<1>6. StoreTypeOK'
  <2>1. \A d \in Callers : thread'[d] = "waiting" => row'[d] \in Rows /\ row'[d].id = d
    <3> SUFFICES ASSUME NEW d \in Callers, thread'[d] = "waiting"
                 PROVE  row'[d] \in Rows /\ row'[d].id = d
      OBVIOUS
    <3>1. CASE d # c
      BY <1>1, <1>5, <3>1 DEF StoreTypeOK
    <3> QED BY <1>3, <1>5, <3>1
  <2> QED BY <1>1, <1>4, <1>5, <2>1 DEF StoreTypeOK, Unique
<1>7. SessionTypeOK'
  BY <1>1, <1>4, <1>5, <1>6, Forgets DEF SessionTypeOK, Active
<1>8. OpenTransactionKeeps' /\ ThreadsProgress' /\ Durable'
  <2>1. Ids(disk)' = Ids(disk) /\ Ids(draft)' = Ids(draft)
    BY <1>4 DEF Ids
  <2>2. OpenTransactionKeeps' /\ Durable'
    BY <1>4, <2>1 DEF SessionInv, OpenTransactionKeeps, Durable
  <2>3. ThreadsProgress'
    BY <1>4, <1>5, <2>1 DEF SessionInv, ThreadsProgress
  <2> QED BY <2>2, <2>3
<1>9. ClientsProgress'
  <2> SUFFICES ASSUME NEW d \in Callers PROVE Progresses(d)'
    BY DEF ClientsProgress
  <2>1. Progresses(d)
    BY DEF SessionInv, ClientsProgress
  <2>2. CASE d = c
    <3>1. Fresh(c) /\ Accepted(PlanFor(answer[c]))
      BY <1>1 DEF Progresses, Fresh, Active
    <3> QED BY <1>1, <1>4, <1>5, <2>1, <2>2, <3>1, Forgets DEF Progresses, Ids
  <2>3. CASE d # c
    <3>1. asked'[d] = asked[d] /\ before'[d] = before[d] /\ thread'[d] = thread[d]
          /\ at'[d] = at[d]
      BY <1>1, <1>5, <2>3, Forgets
    <3> QED BY <1>4, <2>1, <3>1 DEF Progresses, Fresh, Ids
  <2> QED BY <2>2, <2>3
<1>10. RowsTell'
  <2>1. ASSUME NEW q, Telling(q) PROVE Telling(q)'
    BY <2>1, StillTells
  <2>2. row'[c] = r /\ Telling(r)
    BY <1>3, <1>5 DEF Telling
  <2> QED BY <1>4, <1>5, <2>1, <2>2 DEF SessionInv, RowsTell
<1>11. RecallsEarlier'
  <2>1. \A d \in Callers : RecallsAll(d)'
    BY <1>1, <1>4, Forgets, StillRecalled
  <2> QED BY <2>1, RecallsAllIs
<1> QED BY <1>7, <1>8, <1>9, <1>10, <1>11 DEF SessionInv

LEMMA SwarmKeeps ==
  ASSUME SessionInv, NEW c \in Callers, Swarm(c)
  PROVE  SessionInv'
BY PersistKeeps, GiveUpKeeps DEF Swarm

LEMMA ReturnKeeps ==
  ASSUME SessionInv, NEW c \in Callers, Return(c)
  PROVE  SessionInv'
<1>1. SessionTypeOK /\ StoreTypeOK /\ Progresses(c) /\ thread[c] = "done" /\ at[c] = "add"
  BY DEF SessionInv, SessionTypeOK, ClientsProgress, Return, Added
<1>2. /\ promised' = promised \cup {c}
      /\ UNCHANGED <<home, disk, writer, draft, lock, thread, row, stopped, deleted>>
      /\ at' = [at EXCEPT ![c] = "returned"]
      /\ UNCHANGED <<task, answer, recalled, asked, before>>
  BY DEF Return, Added, Goto, table
<1>3. at'[c] = "returned" /\ \A d \in Callers \ {c} : at'[d] = at[d]
  BY <1>1, <1>2 DEF SessionTypeOK
<1>4. StoreTypeOK'
  BY <1>1, <1>2 DEF StoreTypeOK, Unique, RowIds
<1>5. SessionTypeOK'
  BY <1>1, <1>2, <1>3, <1>4 DEF SessionTypeOK, Over
<1>6. OpenTransactionKeeps' /\ ThreadsProgress' /\ Durable'
  <2>1. Ids(disk)' = Ids(disk) /\ Ids(draft)' = Ids(draft)
    BY <1>2 DEF Ids
  <2>2. c \in Ids(disk) \cup deleted
    BY <1>1 DEF SessionInv, ThreadsProgress
  <2> QED BY <1>2, <2>1, <2>2 DEF SessionInv, OpenTransactionKeeps, ThreadsProgress, Durable, Ids
<1>7. ClientsProgress'
  <2> SUFFICES ASSUME NEW d \in Callers PROVE Progresses(d)'
    BY DEF ClientsProgress
  <2>1. Progresses(d)
    BY DEF SessionInv, ClientsProgress
  <2>2. CASE d = c
    BY <1>1, <1>2, <1>3, <2>1, <2>2 DEF Progresses, Fresh, Active
  <2>3. CASE d # c
    BY <1>1, <1>2, <1>3, <2>1, <2>3 DEF Progresses, Fresh, Ids
  <2> QED BY <2>2, <2>3
<1>8. RowsTell'
  BY <1>2, StillTell
<1>9. RecallsEarlier'
  <2>1. \A d \in Callers : RecallsAll(d)'
    BY <1>2, StillRecalled
  <2> QED BY <2>1, RecallsAllIs
<1> QED BY <1>5, <1>6, <1>7, <1>8, <1>9 DEF SessionInv

(* Raise while the insertion is under way.                                 *)
LEMMA AbandonKeeps ==
  ASSUME SessionInv, NEW c \in Callers, at[c] = "add", Abandon(c), Goto(c, "raised"),
         Forget(c), UNCHANGED <<task, answer>>
  PROVE  SessionInv'
<1>1. SessionTypeOK /\ StoreTypeOK /\ Progresses(c)
  BY DEF SessionInv, SessionTypeOK, ClientsProgress
<1>2. /\ UNCHANGED <<home, disk, writer, draft, lock, stopped, promised, deleted>>
      /\ at' = [at EXCEPT ![c] = "raised"]
  BY DEF Abandon, table, Goto
<1>3. at'[c] = "raised" /\ \A d \in Callers \ {c} : at'[d] = at[d]
  BY <1>1, <1>2 DEF SessionTypeOK
<1>4. /\ thread' \in [Callers -> {"none", "waiting", "writing", "done", "failed"}]
      /\ \A d \in Callers \ {c} : thread'[d] = thread[d] /\ row'[d] = row[d]
      /\ \/ thread'[c] = thread[c] /\ row'[c] = row[c]
         \/ thread[c] = "waiting" /\ thread'[c] = "none"
  <2>1. CASE UNCHANGED <<thread, row>>
    BY <1>1, <2>1 DEF StoreTypeOK
  <2>2. CASE thread[c] = "waiting" /\ Leaves(c, "none")
    BY <1>1, <2>2 DEF StoreTypeOK, Leaves
  <2> QED BY <2>1, <2>2 DEF Abandon
<1>5. StoreTypeOK'
  <2>1. row' \in [Callers -> Rows \cup {NoRow}]
    <3>1. row' = row \/ row' = [row EXCEPT ![c] = NoRow]
      BY DEF Abandon, Leaves
    <3> QED BY <1>1, <3>1 DEF StoreTypeOK
  <2>2. /\ \A d \in Callers : thread'[d] = "waiting" =>
             thread[d] = "waiting" /\ row'[d] = row[d]
        /\ \A d \in Callers : thread'[d] = "writing" <=> thread[d] = "writing"
    BY <1>4
  <2>3. /\ \A d \in Callers : thread'[d] = "writing" <=> lock'[home'[d]] = d
        /\ \A d \in Callers : thread'[d] = "waiting" => row'[d] \in Rows /\ row'[d].id = d
    BY <1>1, <1>2, <2>2 DEF StoreTypeOK
  <2> QED BY <1>1, <1>2, <1>4, <2>1, <2>3 DEF StoreTypeOK, Unique
<1>6. SessionTypeOK'
  <2>1. at' \in [Callers -> {"idle"} \cup Active \cup Over]
    BY <1>1, <1>2 DEF SessionTypeOK, Over
  <2>2. /\ \A d \in Callers : thread'[d] # "none" => at'[d] \in {"add", "returned", "raised"}
        /\ \A d \in Callers : at'[d] = "add" => thread'[d] # "none"
    <3> SUFFICES ASSUME NEW d \in Callers
                 PROVE  /\ thread'[d] # "none" => at'[d] \in {"add", "returned", "raised"}
                        /\ at'[d] = "add" => thread'[d] # "none"
      OBVIOUS
    <3>1. CASE d = c
      BY <1>3, <3>1
    <3>2. CASE d # c
      BY <1>1, <1>3, <1>4, <3>2 DEF SessionTypeOK
    <3> QED BY <3>1, <3>2
  <2> QED BY <1>1, <1>5, <2>1, <2>2, Forgets DEF SessionTypeOK
<1>7. OpenTransactionKeeps' /\ ThreadsProgress' /\ Durable'
  <2>1. \A d \in Callers : thread'[d] \in {"writing", "done"} => thread'[d] = thread[d]
    BY <1>4
  <2>2. Ids(disk)' = Ids(disk) /\ Ids(draft)' = Ids(draft)
    BY <1>2 DEF Ids
  <2>3. ThreadsProgress'
    BY <1>2, <2>1, <2>2 DEF SessionInv, ThreadsProgress
  <2> QED BY <1>2, <2>2, <2>3 DEF SessionInv, OpenTransactionKeeps, Durable
<1>8. ClientsProgress'
  <2> SUFFICES ASSUME NEW d \in Callers PROVE Progresses(d)'
    BY DEF ClientsProgress
  <2>1. Progresses(d)
    BY DEF SessionInv, ClientsProgress
  <2>2. CASE d = c
    BY <1>1, <1>2, <1>3, <1>4, <2>1, <2>2, Forgets DEF Progresses, Fresh, Ids, Active
  <2>3. CASE d # c
    <3>1. asked'[d] = asked[d] /\ before'[d] = before[d] /\ thread'[d] = thread[d]
          /\ at'[d] = at[d]
      BY <1>1, <1>3, <1>4, <2>3, Forgets
    <3> QED BY <1>2, <2>1, <3>1 DEF Progresses, Fresh, Ids
  <2> QED BY <2>2, <2>3
<1>9. RowsTell'
  BY <1>2, <1>4, StillTell
<1>10. RecallsEarlier'
  <2>1. \A d \in Callers : RecallsAll(d)'
    BY <1>1, <1>2, Forgets, StillRecalled
  <2> QED BY <2>1, RecallsAllIs
<1> QED BY <1>6, <1>7, <1>8, <1>9, <1>10 DEF SessionInv

LEMMA RaiseKeeps ==
  ASSUME SessionInv, NEW c \in Callers, Raise(c)
  PROVE  SessionInv'
BY AbandonKeeps, GiveUpKeeps DEF Raise

-----------------------------------------------------------------------------
(***************************************************************************)
(* Steps of a thread.                                                      *)
(***************************************************************************)
(* A free store has no thread that writes, and neither has any other, if   *)
(* this one may write.                                                     *)
LEMMA NobodyWrites ==
  ASSUME SessionInv, NEW s \in Stores, Free(s), CanWrite(s)
  PROVE  \A d \in Callers : thread[d] # "writing"
<1> SUFFICES ASSUME NEW d \in Callers, thread[d] = "writing" PROVE FALSE
  OBVIOUS
<1>1. writer = home[d] /\ lock[home[d]] = d /\ home[d] \in Stores
  BY TypesOfStore DEF SessionInv, SessionTypeOK, StoreTypeOK, ThreadsProgress
<1>2. home[d] = s
  BY <1>1 DEF CanWrite
<1> QED BY <1>1, <1>2 DEF Free

LEMMA InsertKeeps ==
  ASSUME SessionInv, NEW c \in Callers, Insert(c), UNCHANGED clientVars
  PROVE  SessionInv'
<1> DEFINE s == home[c]
           T == Table(s)
<1>1. SessionTypeOK /\ StoreTypeOK /\ Progresses(c) /\ s \in Stores
  BY TypesOfStore DEF SessionInv, SessionTypeOK, ClientsProgress
<1>2. /\ thread[c] = "waiting" /\ Free(s) /\ CanWrite(s) /\ writer' = s
      /\ draft' = Append(T, row[c]) /\ lock' = [lock EXCEPT ![s] = c]
      /\ thread' = [thread EXCEPT ![c] = "writing"] /\ row' = [row EXCEPT ![c] = NoRow]
      /\ UNCHANGED <<home, disk, stopped, promised, deleted>>
  BY DEF Insert, Leaves
<1>3. UNCHANGED <<at, task, answer, recalled, asked, before>>
  BY DEF clientVars
<1>4. /\ row[c] \in Rows /\ row[c].id = c
      /\ T \in Seq(Rows) /\ Unique(T) /\ c \notin Ids(T)
      /\ ToSet(T) \subseteq ToSet(disk) \cup ToSet(draft)
  BY <1>1, <1>2 DEF StoreTypeOK, Table, Progresses, Fresh
<1>5. /\ Ids(disk) \ deleted \subseteq Ids(T)
      /\ \A r \in ToSet(disk), q \in ToSet(T) : r.id = q.id => r = q
  <2>1. CASE writer = s
    BY <1>1, <2>1 DEF SessionInv, OpenTransactionKeeps, Table
  <2>2. CASE writer # s
    BY <1>1, <2>2, UniqueRows DEF StoreTypeOK, Table
  <2> QED BY <2>1, <2>2
<1> HIDE DEF T
<1>6. /\ draft' \in Seq(Rows) /\ Unique(draft') /\ ToSet(draft') = ToSet(T) \cup {row[c]}
      /\ Ids(draft') = Ids(T) \cup {c}
  <2>1. draft' \in Seq(Rows) /\ Unique(draft') /\ ToSet(draft') = ToSet(T) \cup {row[c]}
    BY <1>2, <1>4, AppendRow
  <2> QED BY <1>4, <2>1, IdsOfRows
<1>7. \A d \in Callers : thread[d] # "writing"
  BY <1>1, <1>2, NobodyWrites
<1>8. thread'[c] = "writing" /\ \A d \in Callers \ {c} : thread'[d] = thread[d] /\ row'[d] = row[d]
  BY <1>1, <1>2 DEF StoreTypeOK
<1>9. \A d \in Callers : thread'[d] = "writing" <=> lock'[home'[d]] = d
  <2> SUFFICES ASSUME NEW d \in Callers PROVE thread'[d] = "writing" <=> lock'[home[d]] = d
    BY <1>2
  <2>1. CASE d = c
    BY <1>1, <1>2, <1>8, <2>1 DEF StoreTypeOK
  <2>2. CASE d # c
    BY <1>1, <1>2, <1>7, <1>8, <2>2, TypesOfStore DEF StoreTypeOK
  <2> QED BY <2>1, <2>2
<1>10. StoreTypeOK'
  <2>1. writer' \in Stores /\ writer' \notin stopped'
    BY <1>1, <1>2 DEF Free
  <2>2. \A d \in Callers : thread'[d] = "waiting" => row'[d] \in Rows /\ row'[d].id = d
    BY <1>1, <1>8 DEF StoreTypeOK
  <2>3. row' \in [Callers -> Rows \cup {NoRow}] /\ lock' \in [Stores -> Callers \cup {Nobody}]
        /\ thread' \in [Callers -> {"none", "waiting", "writing", "done", "failed"}]
    BY <1>1, <1>2 DEF StoreTypeOK
  <2> QED BY <1>1, <1>2, <1>6, <1>9, <2>1, <2>2, <2>3 DEF StoreTypeOK, Unique
<1>11. SessionTypeOK'
  BY <1>1, <1>2, <1>3, <1>8, <1>10 DEF SessionTypeOK
<1>12. OpenTransactionKeeps'
  <2>1. \A r \in ToSet(disk) : r.id = c => FALSE
    BY <1>1, <1>2, IdsOfRows DEF Progresses, Fresh
  <2>2. Ids(disk)' \ deleted' \subseteq Ids(draft')
    <3>1. Ids(disk)' = Ids(disk)
      BY <1>2 DEF Ids
    <3> QED BY <1>2, <1>5, <1>6, <3>1
  <2> QED BY <1>2, <1>4, <1>5, <1>6, <2>1, <2>2 DEF OpenTransactionKeeps
<1>13. ThreadsProgress' /\ Durable'
  <2>1. Ids(disk)' = Ids(disk)
    BY <1>2 DEF Ids
  <2> QED BY <1>2, <1>6, <1>7, <1>8, <2>1 DEF SessionInv, ThreadsProgress, Durable
<1>14. ClientsProgress'
  <2> SUFFICES ASSUME NEW d \in Callers PROVE Progresses(d)'
    BY DEF ClientsProgress
  <2>1. Progresses(d)
    BY DEF SessionInv, ClientsProgress
  <2>2. Ids(disk)' = Ids(disk) /\ Ids(T) \subseteq Ids(disk) \cup Ids(draft)
    BY <1>2 DEF Ids, T, Table
  <2>3. CASE d = c
    BY <1>1, <1>2, <1>3, <1>8, <2>1, <2>3 DEF Progresses, Fresh, SessionTypeOK
  <2>4. CASE d # c
    BY <1>2, <1>3, <1>6, <1>8, <2>1, <2>2, <2>4 DEF Progresses, Fresh
  <2> QED BY <2>3, <2>4
<1>15. RowsTell'
  <2>1. ASSUME NEW r, Telling(r) PROVE Telling(r)'
    BY <1>3, <2>1, StillTells
  <2>2. Telling(row[c])
    BY <1>2 DEF SessionInv, RowsTell
  <2> QED BY <1>2, <1>4, <1>6, <1>8, <2>1, <2>2 DEF SessionInv, RowsTell
<1>16. RecallsEarlier'
  <2>1. \A d \in Callers : RecallsAll(d)'
    BY <1>2, <1>3, StillRecalled
  <2> QED BY <2>1, RecallsAllIs
<1> QED BY <1>11, <1>12, <1>13, <1>14, <1>15, <1>16 DEF SessionInv

(* A thread whose statement or whose commit has failed, the transaction    *)
(* being left open or not; one may have been opened for the statement.     *)
LEMMA FailKeeps ==
  ASSUME SessionInv, NEW c \in Callers, UNCHANGED clientVars,
         thread[c] \in {"waiting", "writing"}, thread' = [thread EXCEPT ![c] = "failed"],
         row' = row \/ row' = [row EXCEPT ![c] = NoRow],
         lock' = IF thread[c] = "writing" THEN [lock EXCEPT ![home[c]] = Nobody] ELSE lock,
         \/ UNCHANGED <<writer, draft>>
         \/ thread[c] = "writing" /\ NoTransaction
         \/ /\ Free(home[c]) /\ CanWrite(home[c])
            /\ NoTransaction \/ (writer' = home[c] /\ draft' = Table(home[c])),
         UNCHANGED <<home, disk, stopped, promised, deleted>>
  PROVE  SessionInv'
<1>1. SessionTypeOK /\ StoreTypeOK /\ Progresses(c)
      /\ UNCHANGED <<at, task, answer, recalled, asked, before>>
  BY DEF SessionInv, SessionTypeOK, ClientsProgress, clientVars
<1>2. /\ thread'[c] = "failed" /\ \A d \in Callers \ {c} : thread'[d] = thread[d]
      /\ \A d \in Callers \ {c} : row'[d] = row[d]
      /\ thread' \in [Callers -> {"none", "waiting", "writing", "done", "failed"}]
  BY <1>1 DEF StoreTypeOK
<1>3. ASSUME NEW d \in Callers, thread'[d] = "writing"
      PROVE  UNCHANGED <<writer, draft>>
  <2>1. thread[d] = "writing" /\ d # c
    BY <1>2, <1>3
  <2>2. thread[c] = "writing" => home[d] = home[c]
    BY <2>1 DEF SessionInv, ThreadsProgress
  <2>3. thread[c] # "writing"
    BY <1>1, <2>1, <2>2, TypesOfStore
  <2>4. ~(Free(home[c]) /\ CanWrite(home[c]))
    BY <1>1, <2>1, NobodyWrites, TypesOfStore
  <2> QED BY <2>3, <2>4
<1>4. \A d \in Callers : thread'[d] = "writing" <=> lock'[home'[d]] = d
  <2> SUFFICES ASSUME NEW d \in Callers PROVE thread'[d] = "writing" <=> lock'[home[d]] = d
    OBVIOUS
  <2>1. lock \in [Stores -> Callers \cup {Nobody}] /\ home[d] \in Stores /\ home[c] \in Stores
        /\ (thread[d] = "writing" <=> lock[home[d]] = d)
        /\ (thread[c] = "writing" <=> lock[home[c]] = c)
    BY <1>1, TypesOfStore DEF StoreTypeOK
  <2>2. CASE thread[c] = "writing"
    BY <1>2, <2>1, <2>2
  <2>3. CASE thread[c] # "writing"
    BY <1>2, <2>1, <2>3
  <2> QED BY <2>2, <2>3
<1>5. /\ draft' \in Seq(Rows) /\ Unique(draft')
      /\ ToSet(draft') \subseteq ToSet(disk) \cup ToSet(draft)
      /\ Ids(draft') \subseteq Ids(disk) \cup Ids(draft)
      /\ writer' \in Stores \cup {Nobody} /\ writer' \notin stopped
      /\ (writer' # Nobody => Ids(disk) \ deleted \subseteq Ids(draft'))
      /\ \A r \in ToSet(disk), q \in ToSet(draft') : r.id = q.id => r = q
  <2>1. CASE UNCHANGED <<writer, draft>>
    BY <1>1, <2>1 DEF StoreTypeOK, SessionInv, OpenTransactionKeeps
  <2>2. CASE writer' = Nobody /\ draft' = <<>>
    <3>1. ToSet(draft') = {} /\ Ids(draft') = {} /\ Unique(draft') /\ draft' \in Seq(Rows)
      BY <2>2 DEF ToSet, Ids, Unique
    <3>2. Nobody \notin stopped
      BY <1>1, StoreAssumption DEF StoreTypeOK
    <3> QED BY <2>2, <3>1, <3>2
  <2>3. CASE /\ Free(home[c]) /\ CanWrite(home[c])
             /\ writer' = home[c] /\ draft' = Table(home[c])
    <3>1. home[c] \in Stores /\ home[c] \notin stopped
      BY <1>1, <2>3, TypesOfStore DEF Free
    <3>2. CASE writer = home[c]
      <4>1. UNCHANGED <<writer, draft>>
        BY <2>3, <3>2 DEF Table
      <4> QED BY <2>1, <4>1
    <3>3. CASE writer # home[c]
      <4>1. draft' = disk
        BY <2>3, <3>3 DEF Table
      <4>2. disk \in Seq(Rows) /\ Unique(disk)
        BY <1>1 DEF StoreTypeOK
      <4>3. \A r, q \in ToSet(disk) : r.id = q.id => r = q
        BY <4>2, UniqueRows
      <4> QED BY <2>3, <3>1, <4>1, <4>2, <4>3
    <3> QED BY <3>2, <3>3
  <2> QED BY <2>1, <2>2, <2>3 DEF NoTransaction
<1>6. StoreTypeOK'
  <2>1. \A d \in Callers : thread'[d] = "waiting" => row'[d] \in Rows /\ row'[d].id = d
    BY <1>1, <1>2 DEF StoreTypeOK
  <2>2. row' \in [Callers -> Rows \cup {NoRow}] /\ lock' \in [Stores -> Callers \cup {Nobody}]
    BY <1>1 DEF StoreTypeOK
  <2>3. writer' \in Stores \cup {Nobody} /\ writer' \notin stopped /\ Unique(disk')
    BY <1>1, <1>5 DEF StoreTypeOK
  <2> QED BY <1>1, <1>2, <1>4, <1>5, <2>1, <2>2, <2>3 DEF StoreTypeOK, Unique
<1>7. SessionTypeOK'
  BY <1>1, <1>2, <1>6 DEF SessionTypeOK
<1>8. OpenTransactionKeeps' /\ ThreadsProgress' /\ Durable'
  <2>1. Ids(disk)' = Ids(disk) /\ Ids(draft)' = Ids(draft')
    BY DEF Ids
  <2>2. OpenTransactionKeeps'
    BY <1>5, <2>1 DEF OpenTransactionKeeps
  <2>3. ThreadsProgress'
    <3> SUFFICES ASSUME NEW d \in Callers
                 PROVE  /\ thread'[d] = "writing" => writer' = home'[d] /\ d \in Ids(draft)'
                        /\ thread'[d] = "done" => d \in Ids(disk)' \cup deleted'
      BY DEF ThreadsProgress
    <3>1. thread'[d] \in {"writing", "done"} => thread'[d] = thread[d]
      BY <1>2
    <3>2. thread'[d] = "writing" => writer' = writer /\ draft' = draft
      BY <1>3
    <3> QED BY <2>1, <3>1, <3>2 DEF SessionInv, ThreadsProgress, Ids
  <2> QED BY <2>1, <2>2, <2>3 DEF SessionInv, Durable
<1>9. ClientsProgress'
  <2> SUFFICES ASSUME NEW d \in Callers PROVE Progresses(d)'
    BY DEF ClientsProgress
  <2>1. Progresses(d)
    BY DEF SessionInv, ClientsProgress
  <2>2. Fresh(d)' => Fresh(d)
    BY <1>1, <1>2 DEF Fresh
  <2>3. at[d] = "returned" => d # c
    BY <1>1 DEF Progresses
  <2>4. Ids(disk)' = Ids(disk) /\ Ids(draft)' \subseteq Ids(disk) \cup Ids(draft)
    <3>1. Ids(draft)' = Ids(draft')
      BY DEF Ids
    <3>2. Ids(disk)' = Ids(disk)
      BY DEF Ids
    <3> QED BY <1>5, <3>1, <3>2
  <2> QED BY <1>1, <1>2, <2>1, <2>2, <2>3, <2>4 DEF Progresses
<1>10. RowsTell'
  <2>1. \A d \in Callers : thread'[d] = "waiting" => thread[d] = "waiting" /\ row'[d] = row[d]
    BY <1>2
  <2> QED BY <1>1, <1>5, <2>1, StillTell
<1>11. RecallsEarlier'
  <2>1. \A d \in Callers : RecallsAll(d)'
    BY <1>1, StillRecalled
  <2> QED BY <2>1, RecallsAllIs
<1> QED BY <1>7, <1>8, <1>9, <1>10, <1>11 DEF SessionInv

LEMMA CommitOkKeeps ==
  ASSUME SessionInv, NEW c \in Callers, UNCHANGED clientVars,
         thread[c] = "writing", CommitOk(c),
         UNCHANGED <<home, row, stopped, promised, deleted>>
  PROVE  SessionInv'
<1>1. /\ SessionTypeOK /\ StoreTypeOK /\ Progresses(c)
      /\ UNCHANGED <<at, task, answer, recalled, asked, before>>
      /\ home[c] \in Stores /\ lock[home[c]] = c /\ writer = home[c] /\ c \in Ids(draft)
  BY TypesOfStore DEF SessionInv, SessionTypeOK, ClientsProgress, clientVars, ThreadsProgress
<1>2. /\ disk' = draft /\ writer' = Nobody /\ draft' = <<>>
      /\ thread' = [thread EXCEPT ![c] = "done"] /\ lock' = [lock EXCEPT ![home[c]] = Nobody]
  BY DEF CommitOk, NoTransaction, Unlock
<1>3. /\ thread'[c] = "done" /\ \A d \in Callers \ {c} : thread'[d] = thread[d]
      /\ thread' \in [Callers -> {"none", "waiting", "writing", "done", "failed"}]
  BY <1>1, <1>2 DEF StoreTypeOK
<1>4. \A d \in Callers \ {c} : thread[d] # "writing"
  <2> SUFFICES ASSUME NEW d \in Callers, d # c, thread[d] = "writing" PROVE FALSE
    OBVIOUS
  <2>1. home[d] = home[c] /\ lock[home[d]] = d
    BY <1>1, TypesOfStore DEF SessionInv, ThreadsProgress
  <2> QED BY <1>1, <2>1
<1>5. \A d \in Callers : thread'[d] # "writing" /\ lock'[home'[d]] # d
  <2> SUFFICES ASSUME NEW d \in Callers PROVE thread'[d] # "writing" /\ lock'[home[d]] # d
    OBVIOUS
  <2>1. lock \in [Stores -> Callers \cup {Nobody}] /\ home[d] \in Stores
        /\ (thread[d] = "writing" <=> lock[home[d]] = d)
    BY <1>1, TypesOfStore DEF StoreTypeOK
  <2> QED BY <1>1, <1>2, <1>3, <1>4, <2>1
<1>6. Ids(disk') = Ids(draft) /\ Ids(draft') = {} /\ ToSet(disk') = ToSet(draft) /\ ToSet(draft') = {}
  BY <1>2 DEF Ids, ToSet
<1>7. Ids(disk) \ deleted \subseteq Ids(draft)
      /\ \A r \in ToSet(disk), q \in ToSet(draft) : r.id = q.id => r = q
  BY <1>1 DEF SessionInv, OpenTransactionKeeps
<1>8. StoreTypeOK'
  <2>1. lock' \in [Stores -> Callers \cup {Nobody}] /\ Unique(draft') /\ draft' \in Seq(Rows)
    BY <1>1, <1>2 DEF StoreTypeOK, Unique
  <2>2. \A d \in Callers : thread'[d] = "waiting" => row'[d] \in Rows /\ row'[d].id = d
    BY <1>1, <1>3 DEF StoreTypeOK
  <2>3. Nobody \notin stopped
    BY <1>1 DEF StoreTypeOK
  <2>4. disk' \in Seq(Rows) /\ Unique(disk')
    BY <1>1, <1>2 DEF StoreTypeOK, Unique
  <2> QED BY <1>1, <1>2, <1>3, <1>5, <2>1, <2>2, <2>3, <2>4 DEF StoreTypeOK, Unique
<1>9. SessionTypeOK'
  BY <1>1, <1>3, <1>8 DEF SessionTypeOK
<1>10. OpenTransactionKeeps' /\ ThreadsProgress' /\ Durable'
  <2>1. OpenTransactionKeeps'
    BY <1>2, <1>6 DEF OpenTransactionKeeps
  <2>2. ThreadsProgress'
    BY <1>1, <1>3, <1>5, <1>6, <1>7 DEF SessionInv, ThreadsProgress
  <2> QED BY <1>6, <1>7, <2>1, <2>2 DEF SessionInv, Durable
<1>11. ClientsProgress'
  <2> SUFFICES ASSUME NEW d \in Callers PROVE Progresses(d)'
    BY DEF ClientsProgress
  <2>1. Progresses(d)
    BY DEF SessionInv, ClientsProgress
  <2>2. Fresh(d)' => Fresh(d)
    BY <1>1, <1>3 DEF Fresh
  <2>3. at[d] = "returned" => thread'[d] \in {"none", "done"}
    BY <1>3, <2>1 DEF Progresses
  <2> QED BY <1>1, <1>6, <2>1, <2>2, <2>3 DEF Progresses
<1>12. RowsTell'
  BY <1>1, <1>3, <1>6, StillTell
<1>13. RecallsEarlier'
  <2>1. ASSUME NEW r \in ToSet(disk'), r.id \in promised \ deleted'
        PROVE  r \in ToSet(disk)
    <3>1. r \in ToSet(draft) /\ r.id \in Ids(disk)
      BY <1>6, <2>1 DEF SessionInv, Durable
    <3> QED BY <1>7, <3>1, IdsOfRows
  <2>2. \A d \in Callers : RecallsAll(d)'
    BY <1>1, <2>1, StillRecalled
  <2> QED BY <2>2, RecallsAllIs
<1> QED BY <1>9, <1>10, <1>11, <1>12, <1>13 DEF SessionInv

LEMMA StoreStepKeeps ==
  ASSUME SessionInv, NEW c \in Callers, StoreStep(c)
  PROVE  SessionInv'
<1>1. CASE Insert(c)
  BY <1>1, InsertKeeps DEF StoreStep
<1>2. CASE InsertFails(c)
  <2>1. /\ thread[c] = "waiting" /\ thread' = [thread EXCEPT ![c] = "failed"]
        /\ row' = [row EXCEPT ![c] = NoRow] /\ lock' = lock /\ UNCHANGED clientVars
        /\ \/ UNCHANGED <<writer, draft>>
           \/ /\ Free(home[c]) /\ CanWrite(home[c])
              /\ NoTransaction \/ (writer' = home[c] /\ draft' = Table(home[c]))
        /\ UNCHANGED <<home, disk, stopped, promised, deleted>>
    BY <1>2 DEF StoreStep, InsertFails, Leaves
  <2> QED BY <2>1, FailKeeps
<1>3. CASE thread[c] = "writing" /\ CommitOk(c) /\ UNCHANGED <<home, row, stopped, promised, deleted>>
  BY <1>3, CommitOkKeeps DEF StoreStep
<1>4. CASE thread[c] = "writing" /\ CommitFails(c) /\ UNCHANGED <<home, row, stopped, promised, deleted>>
  <2>1. /\ thread' = [thread EXCEPT ![c] = "failed"] /\ row' = row
        /\ lock' = [lock EXCEPT ![home[c]] = Nobody]
        /\ UNCHANGED <<writer, draft>> \/ NoTransaction
        /\ UNCHANGED clientVars /\ UNCHANGED <<home, disk, stopped, promised, deleted>>
    BY <1>4 DEF StoreStep, CommitFails, Unlock, table
  <2> QED BY <1>4, <2>1, FailKeeps
<1> QED BY <1>1, <1>2, <1>3, <1>4 DEF StoreStep, Thread, Commit

-----------------------------------------------------------------------------
(***************************************************************************)
(* Deletions, and the end of a process.                                    *)
(***************************************************************************)
LEMMA DeleteKeeps ==
  ASSUME SessionInv, NEW s \in Stores, NEW id \in RowIds, Delete(s, id), UNCHANGED clientVars
  PROVE  SessionInv'
<1> DEFINE T == Table(s)
           rest == Without(T, id)
<1>1. /\ SessionTypeOK /\ StoreTypeOK /\ Free(s) /\ CanWrite(s)
      /\ UNCHANGED <<at, task, answer, recalled, asked, before>>
      /\ UNCHANGED <<home, lock, thread, row, stopped, promised>>
      /\ deleted' = deleted \cup {id}
  BY DEF SessionInv, SessionTypeOK, Delete, clientVars
<1>2. \/ disk' = rest /\ writer' = Nobody /\ draft' = <<>>
      \/ disk' = disk /\ writer' = Nobody /\ draft' = <<>>
      \/ disk' = disk /\ writer' = s /\ draft' = rest
  BY DEF Delete, NoTransaction
<1>3. T \in Seq(Rows) /\ Unique(T) /\ ToSet(T) \subseteq ToSet(disk) \cup ToSet(draft)
  BY <1>1 DEF StoreTypeOK, Table
<1>4. /\ Ids(disk) \ deleted \subseteq Ids(T)
      /\ \A r \in ToSet(disk), q \in ToSet(T) : r.id = q.id => r = q
  <2>1. CASE writer = s
    BY <1>1, <2>1 DEF SessionInv, OpenTransactionKeeps, Table
  <2>2. CASE writer # s
    BY <1>1, <2>2, UniqueRows DEF StoreTypeOK, Table
  <2> QED BY <2>1, <2>2
<1> HIDE DEF T
<1>5. /\ rest \in Seq(Rows) /\ Unique(rest) /\ ToSet(rest) = {r \in ToSet(T) : r.id # id}
      /\ Ids(rest) = Ids(T) \ {id}
  <2>1. rest \in Seq(Rows) /\ Unique(rest) /\ ToSet(rest) = {r \in ToSet(T) : r.id # id}
    BY <1>3, WithoutRow
  <2>2. Ids(rest) = {r.id : r \in ToSet(rest)} /\ Ids(T) = {r.id : r \in ToSet(T)}
    BY IdsOfRows
  <2> QED BY <2>1, <2>2
<1> HIDE DEF rest
<1>6. \A d \in Callers : thread[d] # "writing"
  BY <1>1, NobodyWrites
<1>7. <<>> \in Seq(Rows) /\ Unique(<<>>) /\ ToSet(<<>>) = {} /\ Ids(<<>>) = {}
  BY DEF Unique, ToSet, Ids
<1>8. /\ disk' \in Seq(Rows) /\ Unique(disk') /\ draft' \in Seq(Rows) /\ Unique(draft')
      /\ writer' \in {s, Nobody} /\ writer' \notin stopped
      /\ (writer' # Nobody => Ids(disk') \ deleted' \subseteq Ids(draft'))
      /\ \A r \in ToSet(disk'), q \in ToSet(draft') : r.id = q.id => r = q
      /\ ToSet(disk') \cup ToSet(draft') \subseteq ToSet(disk) \cup ToSet(draft)
      /\ Ids(disk) \ deleted' \subseteq Ids(disk')
      /\ \A r \in ToSet(disk') : r.id \in Ids(disk) => r \in ToSet(disk)
  <2>1. disk \in Seq(Rows) /\ Unique(disk) /\ Nobody \notin stopped /\ s \notin stopped
    BY <1>1 DEF StoreTypeOK, Free
  <2>2. CASE disk' = rest /\ writer' = Nobody /\ draft' = <<>>
    <3>1. \A r \in ToSet(rest) : r.id \in Ids(disk) => r \in ToSet(disk)
      <4>1. Ids(disk) = {r.id : r \in ToSet(disk)}
        BY IdsOfRows
      <4>2. ASSUME NEW r \in ToSet(rest), r.id \in Ids(disk)
            PROVE  r \in ToSet(disk)
        <5>1. PICK q \in ToSet(disk) : q.id = r.id
          BY <4>1, <4>2
        <5>2. r \in ToSet(T)
          BY <1>5, <4>2
        <5> QED BY <1>4, <5>1, <5>2
      <4> QED BY <4>2
    <3> QED BY <1>1, <1>3, <1>4, <1>5, <1>7, <2>1, <2>2, <3>1
  <2>3. CASE disk' = disk /\ writer' = Nobody /\ draft' = <<>>
    BY <1>7, <2>1, <2>3
  <2>4. CASE disk' = disk /\ writer' = s /\ draft' = rest
    BY <1>1, <1>3, <1>4, <1>5, <2>1, <2>4
  <2> QED BY <1>2, <2>2, <2>3, <2>4
<1>9. Ids(disk)' = Ids(disk') /\ Ids(draft)' = Ids(draft')
      /\ Ids(disk') \cup Ids(draft') \subseteq Ids(disk) \cup Ids(draft)
  <2>1. Ids(disk)' = Ids(disk') /\ Ids(draft)' = Ids(draft')
    BY DEF Ids
  <2> QED BY <1>8, <2>1, IdsOfRows
<1>10. StoreTypeOK'
  <2>1. \A d \in Callers : thread'[d] = "writing" <=> lock'[home'[d]] = d
    BY <1>1, TypesOfStore
  <2> QED BY <1>1, <1>8, <2>1 DEF StoreTypeOK, Unique
<1>11. SessionTypeOK'
  BY <1>1, <1>10 DEF SessionTypeOK
<1>12. OpenTransactionKeeps'
  BY <1>8, <1>9 DEF OpenTransactionKeeps
<1>13. ThreadsProgress' /\ Durable'
  BY <1>1, <1>6, <1>8, <1>9 DEF SessionInv, ThreadsProgress, Durable
<1>14. ClientsProgress'
  <2> SUFFICES ASSUME NEW d \in Callers PROVE Progresses(d)'
    BY DEF ClientsProgress
  <2>1. Progresses(d)
    BY DEF SessionInv, ClientsProgress
  <2> QED BY <1>1, <1>9, <2>1 DEF Progresses, Fresh
<1>15. RowsTell'
  BY <1>1, <1>8, StillTell
<1>16. RecallsEarlier'
  <2>1. \A r \in ToSet(disk') : r.id \in promised \ deleted' => r \in ToSet(disk)
    BY <1>1, <1>8 DEF SessionInv, Durable
  <2>2. \A d \in Callers : RecallsAll(d)'
    BY <1>1, <2>1, StillRecalled
  <2> QED BY <2>2, RecallsAllIs
<1> QED BY <1>11, <1>12, <1>13, <1>14, <1>15, <1>16 DEF SessionInv

LEMMA KillKeeps ==
  ASSUME SessionInv, NEW s \in Stores, Kill(s)
  PROVE  SessionInv'
<1>1. /\ SessionTypeOK /\ StoreTypeOK
      /\ UNCHANGED <<home, disk, promised, deleted, task, answer, recalled, asked, before>>
      /\ stopped' = stopped \cup {s} /\ lock' = [lock EXCEPT ![s] = Nobody]
      /\ thread' = [c \in Callers |-> IF home[c] = s THEN "none" ELSE thread[c]]
      /\ row' = [c \in Callers |-> IF home[c] = s THEN NoRow ELSE row[c]]
      /\ at' = [c \in Callers |-> IF home[c] = s /\ at[c] \in Active THEN "killed" ELSE at[c]]
  BY DEF SessionInv, SessionTypeOK, Kill, Stop
<1>2. IF writer = s THEN writer' = Nobody /\ draft' = <<>> ELSE writer' = writer /\ draft' = draft
  BY DEF Kill, Stop, NoTransaction
<1>3. /\ draft' \in Seq(Rows) /\ Unique(draft') /\ writer' \in Stores \cup {Nobody}
      /\ writer' \notin stopped' /\ (writer' # Nobody => draft' = draft)
      /\ ToSet(draft') \subseteq ToSet(draft) /\ Ids(draft') \subseteq Ids(draft)
  <2>1. <<>> \in Seq(Rows) /\ Unique(<<>>) /\ ToSet(<<>>) = {} /\ Ids(<<>>) = {}
    BY DEF Unique, ToSet, Ids
  <2>2. draft \in Seq(Rows) /\ Unique(draft) /\ writer \in Stores \cup {Nobody}
        /\ writer \notin stopped /\ stopped \subseteq Stores
    BY <1>1 DEF StoreTypeOK
  <2> QED BY <1>1, <1>2, <2>1, <2>2
<1>4. ASSUME NEW d \in Callers
      PROVE  /\ IF home[d] = s THEN thread'[d] = "none" ELSE thread'[d] = thread[d] /\ row'[d] = row[d]
             /\ IF home[d] = s /\ at[d] \in Active THEN at'[d] = "killed" ELSE at'[d] = at[d]
  BY <1>1
<1>5. StoreTypeOK'
  <2>1. \A d \in Callers : thread'[d] = "writing" <=> lock'[home'[d]] = d
    <3> SUFFICES ASSUME NEW d \in Callers PROVE thread'[d] = "writing" <=> lock'[home[d]] = d
      BY <1>1
    <3>1. lock \in [Stores -> Callers \cup {Nobody}] /\ home[d] \in Stores
          /\ (thread[d] = "writing" <=> lock[home[d]] = d)
      BY <1>1, TypesOfStore DEF StoreTypeOK
    <3> QED BY <1>1, <1>4, <3>1
  <2>2. \A d \in Callers : thread'[d] = "waiting" => row'[d] \in Rows /\ row'[d].id = d
    BY <1>1, <1>4 DEF StoreTypeOK
  <2>3. /\ thread' \in [Callers -> {"none", "waiting", "writing", "done", "failed"}]
        /\ row' \in [Callers -> Rows \cup {NoRow}]
        /\ lock' \in [Stores -> Callers \cup {Nobody}]
    BY <1>1 DEF StoreTypeOK
  <2> QED BY <1>1, <1>3, <2>1, <2>2, <2>3 DEF StoreTypeOK, Unique
<1>6. SessionTypeOK'
  <2>1. at' \in [Callers -> {"idle"} \cup Active \cup Over]
    BY <1>1 DEF SessionTypeOK, Over
  <2>2. ASSUME NEW d \in Callers
        PROVE  /\ thread'[d] # "none" => at'[d] \in {"add", "returned", "raised"}
               /\ at'[d] = "add" => thread'[d] # "none"
    BY <1>1, <1>4 DEF SessionTypeOK, Active
  <2> QED BY <1>1, <1>5, <2>1, <2>2 DEF SessionTypeOK
<1>7. Ids(disk)' = Ids(disk) /\ Ids(draft)' = Ids(draft')
  BY <1>1 DEF Ids
<1>8. OpenTransactionKeeps'
  <2>1. writer' # Nobody => writer # Nobody /\ draft' = draft
    BY <1>2
  <2>2. \A r \in ToSet(disk'), q \in ToSet(draft') : r.id = q.id => r = q
    BY <1>1, <1>3 DEF SessionInv, OpenTransactionKeeps
  <2> QED BY <1>1, <1>7, <2>1, <2>2 DEF SessionInv, OpenTransactionKeeps
<1>9. ThreadsProgress'
  <2> SUFFICES ASSUME NEW d \in Callers
               PROVE  /\ thread'[d] = "writing" => writer' = home'[d] /\ d \in Ids(draft)'
                      /\ thread'[d] = "done" => d \in Ids(disk)' \cup deleted'
    BY DEF ThreadsProgress
  <2>1. CASE home[d] = s
    BY <1>4, <2>1
  <2>2. CASE home[d] # s
    BY <1>1, <1>2, <1>4, <1>7, <2>2 DEF SessionInv, ThreadsProgress
  <2> QED BY <2>1, <2>2
<1>10. Durable'
  BY <1>1, <1>7 DEF SessionInv, Durable
<1>11. ClientsProgress'
  <2> SUFFICES ASSUME NEW d \in Callers PROVE Progresses(d)'
    BY DEF ClientsProgress
  <2>1. Progresses(d)
    BY DEF SessionInv, ClientsProgress
  <2>2. Fresh(d)' => Fresh(d)
    BY <1>4 DEF Fresh
  <2>3. at'[d] = "returned" <=> at[d] = "returned"
    BY <1>4 DEF Active
  <2>4. at[d] \in {"swarm", "killed"} => at'[d] \in {"swarm", "killed"}
    BY <1>4
  <2>5. at'[d] \in Active => at[d] \in Active
    BY <1>4 DEF Active
  <2> QED BY <1>1, <1>3, <1>4, <1>7, <2>1, <2>2, <2>3, <2>4, <2>5 DEF Progresses
<1>12. RowsTell'
  <2>1. \A d \in Callers : thread'[d] = "waiting" => thread[d] = "waiting" /\ row'[d] = row[d]
    BY <1>4
  <2> QED BY <1>1, <1>3, <2>1, StillTell
<1>13. RecallsEarlier'
  <2>1. \A d \in Callers : RecallsAll(d)'
    BY <1>1, StillRecalled
  <2> QED BY <2>1, RecallsAllIs
<1> QED BY <1>6, <1>8, <1>9, <1>10, <1>11, <1>12, <1>13 DEF SessionInv

-----------------------------------------------------------------------------
LEMMA SessionNextKeeps == SessionInv /\ [SessionNext]_sessionVars => SessionInv'
<1> SUFFICES ASSUME SessionInv, [SessionNext]_sessionVars PROVE SessionInv'
  OBVIOUS
<1>1. ASSUME NEW c \in Callers, Begin(c) \/ BeginFails(c) PROVE SessionInv'
  BY <1>1, BeginKeeps, BeginFailsKeeps
<1>2. ASSUME NEW c \in Callers, ClientStep(c) PROVE SessionInv'
  BY <1>2, RecallKeeps, SwarmKeeps, ReturnKeeps, RaiseKeeps DEF ClientStep
<1>3. ASSUME NEW c \in Callers, StoreStep(c) PROVE SessionInv'
  BY <1>3, StoreStepKeeps
<1>4. ASSUME NEW s \in Stores, Kill(s) PROVE SessionInv'
  BY <1>4, KillKeeps
<1>5. ASSUME NEW s \in Stores, NEW id \in RowIds, Delete(s, id), UNCHANGED clientVars
      PROVE  SessionInv'
  BY <1>5, DeleteKeeps
<1>6. CASE UNCHANGED sessionVars
  <2>1. UNCHANGED <<home, disk, writer, draft, lock, thread, row, stopped, promised, deleted,
                    at, task, answer, recalled, asked, before>>
    BY <1>6 DEF sessionVars, storeVars, clientVars, table
  <2>2. SessionTypeOK'
    BY <2>1 DEF SessionInv, SessionTypeOK, StoreTypeOK, Unique
  <2>3. OpenTransactionKeeps' /\ ThreadsProgress' /\ Durable'
    BY <2>1 DEF SessionInv, OpenTransactionKeeps, ThreadsProgress, Durable, Ids
  <2>4. ClientsProgress'
    BY <2>1 DEF SessionInv, ClientsProgress, Progresses, Fresh, Ids
  <2>5. RowsTell'
    BY <2>1, StillTell
  <2>6. RecallsEarlier'
    <3>1. \A d \in Callers : RecallsAll(d)'
      BY <2>1, StillRecalled
    <3> QED BY <3>1, RecallsAllIs
  <2> QED BY <2>2, <2>3, <2>4, <2>5, <2>6 DEF SessionInv
<1> QED BY <1>1, <1>2, <1>3, <1>4, <1>5, <1>6 DEF SessionNext

LEMMA SessionAlways == SessionSpec => []SessionInv
BY InitSession, SessionNextKeeps, PTL DEF SessionSpec

-----------------------------------------------------------------------------
(* The clients, the store and its threads keep their types.                *)
THEOREM SessionTypeCorrect == SessionSpec => []SessionTypeOK
<1>1. SessionInv => SessionTypeOK
  BY DEF SessionInv
<1> QED BY <1>1, SessionAlways, PTL

(* What add() returned an id for is on disk until it is deleted: an open   *)
(* transaction always has every such row, so whichever commit comes next   *)
(* keeps them, and one that never comes has lost none (store.py:126).      *)
THEOREM PromisesKept == SessionSpec => []Durable
<1>1. SessionInv => Durable
  BY DEF SessionInv
<1> QED BY <1>1, SessionAlways, PTL

(* Episodes tell the truth about their runs, whatever the model answered   *)
(* and wherever the row was when something failed (orchestrator.py:68).    *)
THEOREM EpisodesTellTruth == SessionSpec => []EpisodesTrue
<1>1. SessionInv => EpisodesTrue
  BY DEF SessionInv, RowsTell, Telling, EpisodesTrue, ToSet
<1> QED BY <1>1, SessionAlways, PTL

(* A client recalls the similar episodes of those that came before it,     *)
(* unless K better ones displace them (orchestrator.py:51, store.py:136).  *)
THEOREM EarlierRecalled == SessionSpec => []RecallsEarlier
<1>1. SessionInv => RecallsEarlier
  BY DEF SessionInv
<1> QED BY <1>1, SessionAlways, PTL
=============================================================================

----------------------------- MODULE DagProofs ------------------------------
(***************************************************************************)
(* Proofs about Dag: for any number of nodes and any dependency lists, the *)
(* counters of both algorithms never go below zero and what they return is *)
(* in order; and, if no list names an id twice, CycleError is raised       *)
(* exactly for the graphs with a cycle, and each step is one of TopoSort.  *)
(***************************************************************************)
EXTENDS Dag, WellFoundedInduction, FiniteSetTheorems, FunctionTheorems, SequenceTheorems,
        TLAPS

USE DagAssumption

-----------------------------------------------------------------------------
(***************************************************************************)
(* The inductive invariant.  A node's counter is the number of its         *)
(* predecessors that are not yet out, and the number of times a list       *)
(* repeats one of them, which nothing ever takes away.  So what is ready,  *)
(* and each layer, are the nodes whose predecessors are out and whose      *)
(* lists repeat none.                                                      *)
(***************************************************************************)
Extra(n) == Indegree(n) - Cardinality(Preds(n))

FreeAfter(E) == {n \in Known \ E : Extra(n) = 0 /\ Preds(n) \subseteq E}
Counted(E)   == \A n \in Known : indegree[n] = Extra(n) + Cardinality(Preds(n) \ E)

Kahn ==
  /\ IsInjective(order) /\ IsInjective(ready)
  /\ ToSet(ready) = FreeAfter(ToSet(order))
  /\ \A i \in DOMAIN order : Preds(order[i]) \subseteq {order[j] : j \in 1..(i - 1)}
  /\ Counted(ToSet(order))

Below(k) == UNION {layers[j] : j \in 1..(k - 1)}

Leveled ==
  /\ \A k \in DOMAIN layers : layers[k] # {} /\ layers[k] = FreeAfter(Below(k))
  /\ result = "running" => Counted(Below(Len(layers)))

Sorts == {"topological_order", "validate"}

Calls ==
  /\ result \in {"running", "ok", "cycle", "missing"} => op \in Sorts \cup {"layers"}
  /\ op \in {"topological_order", "layers"} => result \in {"running", "ok", "cycle"}
  /\ op \notin Sorts => order = <<>> /\ ready = <<>>
  /\ op # "layers" => layers = <<>>

Validated ==
  op = "validate" =>
    /\ result \in {"running", "ok"} => Bads = {}
    /\ result = "missing" => \E n \in Known : ~(DepSet(n) \subseteq Known)
    /\ result = "cycle" /\ Bads # {} => \E n \in Known : n \in Preds(n)

Sorting ==
  op \in Sorts /\ result \in {"running", "ok", "cycle"} /\ (op = "validate" => Bads = {}) =>
    /\ Kahn
    /\ result # "running" => ready = <<>>
    /\ result = "ok" => ToSet(order) = Known
    /\ result = "cycle" => ToSet(order) # Known

Layering ==
  op = "layers" /\ result \in {"running", "ok", "cycle"} =>
    /\ Leveled
    /\ result # "running" => FreeAfter(Layered) = {}
    /\ result = "ok" => Layered = Known
    /\ result = "cycle" => Layered # Known

DagInv == TypeOK /\ Calls /\ Validated /\ Sorting /\ Layering

-----------------------------------------------------------------------------
(***************************************************************************)
(* Sequences and the sets of their elements.                               *)
(***************************************************************************)
LEMMA SetOf ==
  ASSUME NEW S, NEW s \in Seq(S)
  PROVE  ToSet(s) \subseteq S /\ \A x : x \in ToSet(s) <=> \E i \in 1..Len(s) : s[i] = x
BY DEF ToSet

LEMMA SetOfAppend ==
  ASSUME NEW S, NEW s \in Seq(S), NEW x \in S
  PROVE  /\ ToSet(Append(s, x)) = ToSet(s) \cup {x}
         /\ IsInjective(s) /\ x \notin ToSet(s) => IsInjective(Append(s, x))
<1>1. /\ DOMAIN Append(s, x) = 1..(Len(s) + 1) /\ Append(s, x)[Len(s) + 1] = x
      /\ \A i \in 1..Len(s) : Append(s, x)[i] = s[i]
      /\ 1..(Len(s) + 1) = 1..Len(s) \cup {Len(s) + 1}
  BY AppendProperties
<1>2. ToSet(Append(s, x)) = ToSet(s) \cup {x}
  BY <1>1 DEF ToSet
<1>3. ASSUME IsInjective(s), x \notin ToSet(s) PROVE IsInjective(Append(s, x))
  BY <1>1, <1>3 DEF IsInjective, ToSet
<1> QED  BY <1>2, <1>3

LEMMA SetOfConcat ==
  ASSUME NEW S, NEW s \in Seq(S), NEW t \in Seq(S)
  PROVE  /\ s \o t \in Seq(S) /\ ToSet(s \o t) = ToSet(s) \cup ToSet(t)
         /\ IsInjective(s) /\ IsInjective(t) /\ ToSet(s) \cap ToSet(t) = {} =>
              IsInjective(s \o t)
<1> DEFINE m == Len(s)
           n == Len(t)
<1>1. /\ s \o t \in Seq(S) /\ m \in Nat /\ n \in Nat /\ DOMAIN (s \o t) = 1..(m + n)
      /\ \A i \in 1..m : (s \o t)[i] = s[i]
      /\ \A i \in 1..(m + n) : i > m => (s \o t)[i] = t[i - m]
  BY ConcatProperties
<1>2. \A i \in 1..n : i + m \in 1..(m + n) /\ i + m > m /\ (i + m) - m = i
  BY <1>1
<1>3. \A i \in 1..(m + n) : i \in 1..m \/ (i > m /\ i - m \in 1..n)
  BY <1>1
<1>4. \A i \in 1..n : (s \o t)[i + m] = t[i]
  BY <1>1, <1>2
<1>5. ToSet(s \o t) = ToSet(s) \cup ToSet(t)
  <2>1. ASSUME NEW x \in ToSet(s \o t) PROVE x \in ToSet(s) \cup ToSet(t)
    BY <1>1, <1>3 DEF ToSet
  <2>2. ASSUME NEW x \in ToSet(s) PROVE x \in ToSet(s \o t)
    BY <1>1 DEF ToSet
  <2>3. ASSUME NEW x \in ToSet(t) PROVE x \in ToSet(s \o t)
    <3>1. PICK i \in 1..n : t[i] = x
      BY DEF ToSet
    <3>2. i + m \in DOMAIN (s \o t) /\ (s \o t)[i + m] = x
      BY <1>1, <1>2, <1>4, <3>1
    <3> QED  BY <3>2 DEF ToSet
  <2> QED  BY <2>1, <2>2, <2>3
<1>6. ASSUME IsInjective(s), IsInjective(t), ToSet(s) \cap ToSet(t) = {}
      PROVE  IsInjective(s \o t)
  <2> SUFFICES ASSUME NEW i \in 1..(m + n), NEW j \in 1..(m + n), (s \o t)[i] = (s \o t)[j]
               PROVE  i = j
    BY <1>1 DEF IsInjective
  <2>1. CASE i <= m /\ j <= m
    BY <1>1, <1>6, <2>1 DEF IsInjective
  <2>2. CASE i > m /\ j > m
    <3>1. i - m \in 1..n /\ j - m \in 1..n /\ t[i - m] = t[j - m]
      BY <1>1, <1>3, <2>2
    <3> QED  BY <1>1, <1>6, <3>1 DEF IsInjective
  <2>3. \A k, l \in 1..(m + n) : k <= m /\ l > m => (s \o t)[k] # (s \o t)[l]
    <3> SUFFICES ASSUME NEW k \in 1..(m + n), NEW l \in 1..(m + n), k <= m, l > m
                 PROVE  (s \o t)[k] # (s \o t)[l]
      OBVIOUS
    <3>1. (s \o t)[k] = s[k] /\ k \in DOMAIN s
      BY <1>1
    <3>2. (s \o t)[l] = t[l - m] /\ l - m \in DOMAIN t
      BY <1>1, <1>3
    <3>3. s[k] \in ToSet(s) /\ t[l - m] \in ToSet(t)
      BY <3>1, <3>2 DEF ToSet
    <3> QED  BY <1>6, <3>1, <3>2, <3>3
  <2> QED  BY <1>1, <2>1, <2>2, <2>3
<1> QED  BY <1>1, <1>5, <1>6

LEMMA SetOfTail ==
  ASSUME NEW S, NEW s \in Seq(S), s # <<>>
  PROVE  /\ Head(s) \in S /\ Tail(s) \in Seq(S) /\ ToSet(s) = {Head(s)} \cup ToSet(Tail(s))
         /\ IsInjective(s) => IsInjective(Tail(s)) /\ Head(s) \notin ToSet(Tail(s))
<1>1. /\ Len(s) \in Nat \ {0} /\ Head(s) = s[1] /\ Head(s) \in S
      /\ Tail(s) \in Seq(S) /\ DOMAIN Tail(s) = 1..(Len(s) - 1)
      /\ \A i \in 1..(Len(s) - 1) : Tail(s)[i] = s[i + 1]
  BY HeadTailProperties
<1>2. \A i \in 2..Len(s) : i - 1 \in 1..(Len(s) - 1) /\ (i - 1) + 1 = i
  BY <1>1
<1>3. ToSet(s) = {Head(s)} \cup ToSet(Tail(s))
  <2>1. ASSUME NEW i \in 1..Len(s) PROVE s[i] \in {Head(s)} \cup ToSet(Tail(s))
    <3>1. CASE i = 1
      BY <1>1, <3>1
    <3>2. CASE i # 1
      <4>1. i - 1 \in DOMAIN Tail(s) /\ Tail(s)[i - 1] = s[i]
        BY <1>1, <1>2, <3>2
      <4> QED  BY <4>1 DEF ToSet
    <3> QED  BY <3>1, <3>2
  <2>2. ASSUME NEW i \in 1..(Len(s) - 1) PROVE Tail(s)[i] \in ToSet(s)
    <3>1. i + 1 \in 1..Len(s)
      BY <1>1
    <3> QED  BY <1>1, <3>1 DEF ToSet
  <2>3. Head(s) \in ToSet(s)
    BY <1>1 DEF ToSet
  <2>4. \A x \in ToSet(s) : x \in {Head(s)} \cup ToSet(Tail(s))
    BY <2>1 DEF ToSet
  <2>5. \A x \in ToSet(Tail(s)) : x \in ToSet(s)
    BY <1>1, <2>2 DEF ToSet
  <2> QED  BY <2>3, <2>4, <2>5
<1>4. ASSUME IsInjective(s) PROVE IsInjective(Tail(s)) /\ Head(s) \notin ToSet(Tail(s))
  BY <1>1, <1>4 DEF IsInjective, ToSet
<1> QED  BY <1>1, <1>3, <1>4

(* As many as its elements are, if none occurs twice.                      *)
LEMMA CardinalityOfSet ==
  ASSUME NEW S, NEW s \in Seq(S), IsInjective(s)
  PROVE  IsFiniteSet(ToSet(s)) /\ Cardinality(ToSet(s)) = Len(s)
<1>1. s \in Bijection(1..Len(s), ToSet(s))
  <2>1. s \in [1..Len(s) -> ToSet(s)]
    BY DEF ToSet
  <2> QED  BY <2>1, Fun_IsBij DEF IsInjective, ToSet
<1>2. IsFiniteSet(1..Len(s)) /\ Cardinality(1..Len(s)) = Len(s)
  <2>1. Len(s) \in Nat
    OBVIOUS
  <2>2. IsFiniteSet(1..Len(s))
        /\ Cardinality(1..Len(s)) = IF 1 > Len(s) THEN 0 ELSE Len(s) - 1 + 1
    BY <2>1, FS_Interval
  <2> QED  BY <2>1, <2>2
<1> QED  BY <1>1, <1>2, FS_Bijection DEF ExistsBijection

-----------------------------------------------------------------------------
(***************************************************************************)
(* A set of ids can be put in order: a smallest one that could not would   *)
(* lose its greatest element to a set that can.                            *)
(***************************************************************************)
LEMMA Least ==
  ASSUME NEW T \in SUBSET Nat, T # {}
  PROVE  \E x \in T : \A y \in T : x <= y
<1>1. PICK x \in T : \A y \in T : ~(<<y, x>> \in OpToRel(<, Nat))
  BY NatLessThanWellFounded, WFMin
<1>2. \A y \in T : ~(y < x)
  BY <1>1 DEF OpToRel
<1> QED  BY <1>2

LEMMA Greatest ==
  ASSUME NEW T \in SUBSET Ids, T # {}
  PROVE  \E x \in T : \A y \in T : y <= x
<1> DEFINE D == {N - x : x \in T}
<1>1. \A x \in T : x \in Nat /\ x <= N /\ N - x \in Nat
  BY DEF Ids
<1>2. D \in SUBSET Nat /\ D # {}
  BY <1>1
<1>3. PICK d \in D : \A e \in D : d <= e
  BY <1>2, Least
<1>4. PICK x \in T : d = N - x
  OBVIOUS
<1>5. ASSUME NEW y \in T PROVE y <= x
  <2>1. N - x <= N - y
    BY <1>3, <1>4
  <2>2. x \in Nat /\ y \in Nat /\ N \in Nat
    BY <1>1
  <2> QED  BY <2>1, <2>2
<1> QED  BY <1>5

Ascends(s, T) ==
  /\ s \in [1..Cardinality(T) -> T]
  /\ \A i, j \in 1..Cardinality(T) : i < j => s[i] < s[j]

LEMMA FiniteIds ==
  ASSUME NEW T \in SUBSET Ids
  PROVE  IsFiniteSet(T) /\ Cardinality(T) \in Nat
<1>1. IsFiniteSet(Ids)
  BY FS_Interval DEF Ids
<1>2. IsFiniteSet(T)
  BY <1>1, FS_Subset
<1> QED  BY <1>2, FS_CardinalityType

LEMMA CanBeSorted ==
  ASSUME NEW S \in SUBSET Ids
  PROVE  \E s : Ascends(s, S)
<1> SUFFICES ASSUME ~ \E s : Ascends(s, S) PROVE FALSE
  OBVIOUS
<1> DEFINE Unsorted == {T \in SUBSET Ids : ~ \E s : Ascends(s, T)}
           Sizes    == {Cardinality(T) : T \in Unsorted}
<1>1. Sizes \in SUBSET Nat /\ Sizes # {}
  BY FiniteIds
<1>2. PICK k \in Sizes : \A l \in Sizes : k <= l
  BY <1>1, Least
<1>3. PICK T \in Unsorted : Cardinality(T) = k
  BY <1>2
<1>4. k \in Nat /\ IsFiniteSet(T) /\ T \in SUBSET Ids
  BY <1>1, <1>3, FiniteIds
<1>5. T # {}
  <2> SUFFICES ASSUME T = {} PROVE FALSE
    OBVIOUS
  <2>1. Cardinality(T) = 0
    BY FS_EmptySet
  <2>2. Ascends([i \in 1..0 |-> 0], T)
    BY <2>1 DEF Ascends
  <2> QED  BY <1>3, <2>2
<1>6. PICK m \in T : \A y \in T : y <= m
  BY <1>4, <1>5, Greatest
<1> DEFINE U == T \ {m}
<1>7. Cardinality(U) = k - 1 /\ k > 0 /\ U \in SUBSET Ids
  <2>1. k # 0
    BY <1>3, <1>4, <1>5, FS_EmptySet
  <2>2. Cardinality(U) = IF m \in T THEN Cardinality(T) - 1 ELSE Cardinality(T)
    BY <1>4, FS_RemoveElement
  <2> QED  BY <1>3, <1>4, <2>1, <2>2
<1>8. U \notin Unsorted
  BY <1>2, <1>4, <1>7
<1>9. PICK s : Ascends(s, U)
  BY <1>7, <1>8
<1> DEFINE t == [i \in 1..k |-> IF i < k THEN s[i] ELSE m]
<1>10. s \in [1..(k - 1) -> U] /\ \A i, j \in 1..(k - 1) : i < j => s[i] < s[j]
  BY <1>7, <1>9 DEF Ascends
<1>11. \A i \in 1..k : i < k => i \in 1..(k - 1) /\ s[i] \in U
  BY <1>4, <1>10
<1>12. t \in [1..k -> T]
  BY <1>11
<1>13. \A i, j \in 1..k : i < j => t[i] < t[j]
  <2> SUFFICES ASSUME NEW i \in 1..k, NEW j \in 1..k, i < j PROVE t[i] < t[j]
    OBVIOUS
  <2>1. i < k /\ i \in 1..(k - 1) /\ t[i] = s[i] /\ s[i] \in U
    BY <1>4, <1>11
  <2>2. CASE j < k
    BY <1>10, <1>11, <2>1, <2>2
  <2>3. CASE ~(j < k)
    <3>1. t[j] = m /\ s[i] # m /\ s[i] <= m
      BY <1>6, <2>1, <2>3
    <3>2. s[i] \in Nat /\ m \in Nat
      <4>1. T \subseteq Nat
        BY <1>4 DEF Ids
      <4> QED  BY <2>1, <4>1
    <3> QED  BY <2>1, <3>1, <3>2
  <2> QED  BY <2>2, <2>3
<1>14. Ascends(t, T)
  BY <1>3, <1>12, <1>13 DEF Ascends
<1> QED  BY <1>3, <1>14

(* So InOrder lists the elements, each once.                               *)
LEMMA InOrderLists ==
  ASSUME NEW S \in SUBSET Ids
  PROVE  InOrder(S) \in Seq(S) /\ ToSet(InOrder(S)) = S /\ IsInjective(InOrder(S))
<1> DEFINE c == Cardinality(S)
           s == InOrder(S)
<1>1. c \in Nat /\ IsFiniteSet(S)
  BY FiniteIds
<1>2. Ascends(s, S)
  <2>1. \E q \in [1..c -> S] : \A i, j \in DOMAIN q : i < j => q[i] < q[j]
    BY CanBeSorted DEF Ascends
  <2>2. s \in [1..c -> S] /\ \A i, j \in DOMAIN s : i < j => s[i] < s[j]
    BY <2>1 DEF InOrder
  <2> QED  BY <2>2 DEF Ascends
<1> HIDE DEF s
<1>3. s \in [1..c -> S] /\ \A i, j \in 1..c : i < j => s[i] < s[j]
  BY <1>2 DEF Ascends
<1>4. \A i, j \in 1..c : s[i] = s[j] => i = j
  <2> SUFFICES ASSUME NEW i \in 1..c, NEW j \in 1..c, i # j PROVE s[i] # s[j]
    OBVIOUS
  <2>1. S \subseteq Nat /\ s[i] \in S /\ s[j] \in S
    BY <1>3 DEF Ids
  <2>2. i < j \/ j < i
    BY <1>1
  <2>3. s[i] \in Nat /\ s[j] \in Nat
    BY <2>1
  <2>4. s[i] < s[j] \/ s[j] < s[i]
    BY <1>3, <2>2
  <2> QED  BY <2>3, <2>4
<1>5. s \in Injection(1..c, S)
  BY <1>3, <1>4, Fun_IsInj
<1>6. Cardinality(1..c) = c
  <2>1. Cardinality(1..c) = IF 1 > c THEN 0 ELSE c - 1 + 1
    BY <1>1, FS_Interval
  <2> QED  BY <1>1, <2>1
<1>7. s \in Surjection(1..c, S)
  BY <1>1, <1>5, <1>6, FS_Injection
<1>8. \A x \in S : \E i \in 1..c : s[i] = x
  BY <1>7 DEF Surjection
<1>9. s \in Seq(S)
  BY <1>1, <1>3
<1>10. ToSet(s) = S /\ IsInjective(s)
  BY <1>3, <1>4, <1>8 DEF ToSet, IsInjective
<1> QED  BY <1>9, <1>10 DEF s

-----------------------------------------------------------------------------
(***************************************************************************)
(* What the counters count.                                                *)
(***************************************************************************)
LEMMA PredsType ==
  ASSUME TypeOK
  PROVE  /\ Known \subseteq Ids /\ IsFiniteSet(Known)
         /\ \A n \in Known : n \in Ids /\ Preds(n) = DepSet(n) \cap Known /\ Preds(n) \subseteq Known
                             /\ IsFiniteSet(Preds(n)) /\ Cardinality(Preds(n)) \in Nat
<1>1. Known \subseteq Ids
  BY SetOf DEF TypeOK, Known
<1>2. \A n \in Known : Preds(n) = DepSet(n) \cap Known /\ Preds(n) \in SUBSET Ids
  BY <1>1 DEF Preds
<1> QED  BY <1>1, <1>2, FiniteIds

(* A list names each predecessor once or more.                             *)
LEMMA ExtraIsNat ==
  ASSUME TypeOK, NEW n \in Known
  PROVE  /\ Indegree(n) \in Nat /\ Extra(n) \in Nat
         /\ Indegree(n) = Extra(n) + Cardinality(Preds(n))
         /\ IsInjective(deps[n]) => Extra(n) = 0
<1> DEFINE I == {i \in DOMAIN deps[n] : deps[n][i] \in Known}
           P == Preds(n)
           f == [i \in I |-> deps[n][i]]
<1>1. deps[n] \in Seq(0..N) /\ P = DepSet(n) \cap Known /\ Cardinality(P) \in Nat
  BY PredsType DEF TypeOK
<1>2. I \subseteq 1..Len(deps[n])
  BY <1>1
<1>3. IsFiniteSet(1..Len(deps[n]))
  <2>1. Len(deps[n]) \in Nat
    BY <1>1
  <2> QED  BY <2>1, FS_Interval
<1>4. IsFiniteSet(I) /\ Indegree(n) = Cardinality(I) /\ Cardinality(I) \in Nat
  <2>1. IsFiniteSet(I)
    BY <1>2, <1>3, FS_Subset
  <2> QED  BY <2>1, FS_CardinalityType DEF Indegree
<1>5. f \in [I -> P] /\ \A p \in P : \E i \in I : f[i] = p
  BY <1>1 DEF DepSet, ToSet
<1> HIDE DEF f, I, P
<1>6. f \in Surjection(I, P)
  BY <1>5, Fun_IsSurj
<1>7. Cardinality(P) <= Cardinality(I)
      /\ (Cardinality(P) = Cardinality(I) <=> f \in Injection(I, P))
  BY <1>4, <1>6, FS_Surjection
<1>8. ASSUME IsInjective(deps[n]) PROVE f \in Injection(I, P)
  <2>1. \A i, j \in I : f[i] = f[j] => i = j
    BY <1>8 DEF IsInjective, f, I
  <2> QED  BY <1>5, <2>1, Fun_IsInj
<1> QED  BY <1>1, <1>4, <1>7, <1>8 DEF Extra, P

(* Taking S out, of which nothing was out yet, takes from each counter the *)
(* predecessors in S.                                                      *)
LEMMA CountsDown ==
  ASSUME TypeOK, NEW E \in SUBSET Known, NEW S \in SUBSET Known, S \cap E = {}, Counted(E),
         NEW n \in Known
  PROVE  /\ Reached(n, S) = Cardinality(Preds(n) \cap S) /\ Reached(n, S) \in Nat
         /\ indegree[n] - Reached(n, S) = Extra(n) + Cardinality(Preds(n) \ (E \cup S))
         /\ indegree[n] - Reached(n, S) \in Nat
         /\ Reached(n, S) > 0 <=> Preds(n) \cap S # {}
         /\ indegree[n] = Reached(n, S) <=> Extra(n) = 0 /\ Preds(n) \subseteq E \cup S
<1> DEFINE P == Preds(n)
           R == P \cap S
           L == P \ (E \cup S)
<1>1. P = DepSet(n) \cap Known /\ IsFiniteSet(P) /\ Extra(n) \in Nat
  BY PredsType, ExtraIsNat
<1>2. Reached(n, S) = Cardinality(R)
  <2>1. {m \in S : n \in Dependents(m)} = R
    BY <1>1 DEF Dependents
  <2> QED  BY <2>1 DEF Reached
<1>3. IsFiniteSet(P \ E) /\ IsFiniteSet(R) /\ IsFiniteSet(L)
  BY <1>1, FS_Subset
<1>4. Cardinality(R) \in Nat /\ Cardinality(L) \in Nat /\ Cardinality(P \ E) \in Nat
  BY <1>3, FS_CardinalityType
<1>5. Cardinality(P \ E) = Cardinality(R) + Cardinality(L)
  <2>1. P \ E = R \cup L /\ R \cap L = {}
    OBVIOUS
  <2> HIDE DEF R, L
  <2>2. Cardinality(R \cup L) = Cardinality(R) + Cardinality(L) - Cardinality(R \cap L)
    BY <1>3, FS_Union
  <2>3. Cardinality(R \cap L) = 0
    BY <2>1, FS_EmptySet
  <2>4. Cardinality(P \ E) = Cardinality(R \cup L)
    BY <2>1
  <2> HIDE DEF P
  <2> QED  BY <1>4, <2>2, <2>3, <2>4
<1>6. indegree[n] = Extra(n) + Cardinality(P \ E)
  BY DEF Counted
<1>7. (Cardinality(R) = 0 <=> R = {}) /\ (Cardinality(L) = 0 <=> L = {})
  BY <1>3, FS_EmptySet
<1> HIDE DEF P, R, L
<1>8. indegree[n] - Cardinality(R) = Extra(n) + Cardinality(L)
  BY <1>1, <1>4, <1>5, <1>6
<1>9. indegree[n] = Cardinality(R) <=> Extra(n) = 0 /\ L = {}
  <2> DEFINE x == Extra(n)
             l == Cardinality(L)
             r == Cardinality(R)
  <2>1. x \in Nat /\ l \in Nat /\ r \in Nat /\ indegree[n] = x + (r + l)
    BY <1>1, <1>4, <1>5, <1>6
  <2> HIDE DEF x, l, r
  <2>2. indegree[n] = r <=> x = 0 /\ l = 0
    BY <2>1
  <2> QED  BY <1>7, <2>2 DEF x, l, r
<1>10. L = {} <=> P \subseteq E \cup S
  BY DEF L
<1> QED  BY <1>1, <1>2, <1>4, <1>7, <1>8, <1>9, <1>10 DEF P, R, L

(* What S releases is what becomes free with it, and was not before.       *)
LEMMA Releases ==
  ASSUME TypeOK, NEW E \in SUBSET Known, \A n \in E : Preds(n) \subseteq E, Counted(E),
         NEW S \in SUBSET FreeAfter(E)
  PROVE  /\ S \subseteq Known /\ S \cap E = {}
         /\ Released(S) \subseteq Known
         /\ Released(S) \cap FreeAfter(E) = {}
         /\ FreeAfter(E \cup S) = (FreeAfter(E) \ S) \cup Released(S)
<1>1. S \subseteq Known /\ S \cap E = {} /\ \A n \in S : Preds(n) \subseteq E
  BY DEF FreeAfter
<1>2. Released(S) = {n \in Known : /\ Preds(n) \cap S # {}
                                   /\ Extra(n) = 0 /\ Preds(n) \subseteq E \cup S}
  <2>1. ASSUME NEW n \in Known
        PROVE  /\ Reached(n, S) > 0 <=> Preds(n) \cap S # {}
               /\ indegree[n] = Reached(n, S) <=> Extra(n) = 0 /\ Preds(n) \subseteq E \cup S
    BY <1>1, CountsDown
  <2> QED  BY <2>1 DEF Released
<1> QED  BY <1>1, <1>2 DEF FreeAfter

(* The same, when one is taken out.                                        *)
LEMMA ReleasesOne ==
  ASSUME TypeOK, NEW E \in SUBSET Known, \A n \in E : Preds(n) \subseteq E, Counted(E),
         NEW h \in FreeAfter(E)
  PROVE  /\ h \in Known \ E /\ Preds(h) \subseteq E
         /\ Released({h}) \subseteq Known /\ Released({h}) \cap FreeAfter(E) = {}
         /\ FreeAfter(E \cup {h}) = (FreeAfter(E) \ {h}) \cup Released({h})
         /\ \A n \in Known :
              /\ indegree[n] - Reached(n, {h}) = Extra(n) + Cardinality(Preds(n) \ (E \cup {h}))
              /\ indegree[n] - Reached(n, {h}) \in Nat
<1> DEFINE S == {h}
<1>1. h \in Known \ E /\ Preds(h) \subseteq E /\ S \in SUBSET Known /\ S \cap E = {}
  BY DEF FreeAfter
<1>2. S \in SUBSET FreeAfter(E)
  OBVIOUS
<1> HIDE DEF S
<1>3. /\ Released(S) \subseteq Known /\ Released(S) \cap FreeAfter(E) = {}
      /\ FreeAfter(E \cup S) = (FreeAfter(E) \ S) \cup Released(S)
  BY <1>2, Releases
<1>4. ASSUME NEW n \in Known
      PROVE  /\ indegree[n] - Reached(n, S) = Extra(n) + Cardinality(Preds(n) \ (E \cup S))
             /\ indegree[n] - Reached(n, S) \in Nat
  BY <1>1, CountsDown
<1> QED  BY <1>1, <1>3, <1>4 DEF S

(* The sources are what is free at first.                                  *)
LEMMA AtFirst ==
  ASSUME TypeOK
  PROVE  /\ Sources = FreeAfter({}) /\ Sources \subseteq Known
         /\ \A n \in Known : Indegree(n) = Extra(n) + Cardinality(Preds(n) \ {})
         /\ Indegrees \in [Ids -> Nat]
<1>1. \A n \in Known : Indegree(n) = Extra(n) + Cardinality(Preds(n)) /\ Indegree(n) \in Nat
                       /\ Extra(n) \in Nat /\ Cardinality(Preds(n)) \in Nat
  BY ExtraIsNat, PredsType
<1>2. \A n \in Known : Cardinality(Preds(n)) = 0 <=> Preds(n) = {}
  BY PredsType, FS_EmptySet
<1>3. \A n \in Known : Indegree(n) = 0 <=> Extra(n) = 0 /\ Preds(n) = {}
  BY <1>1, <1>2
<1>4. Sources = FreeAfter({})
  BY <1>3 DEF Sources, FreeAfter
<1> QED  BY <1>1, <1>4 DEF Sources, Indegrees

-----------------------------------------------------------------------------
(***************************************************************************)
(* Graphs with and without cycles.                                         *)
(***************************************************************************)
NoRepeats == \A n \in Ids : IsInjective(deps[n])

(* When nothing is free and something is left, what is left is a cycle, if *)
(* no list repeats an id.                                                  *)
LEMMA StuckOnCycle ==
  ASSUME TypeOK, NoRepeats, NEW E \in SUBSET Known, E # Known, FreeAfter(E) = {}
  PROVE  Cyclic
<1>1. \A n \in Known : Extra(n) = 0 /\ Preds(n) \subseteq Known
  BY ExtraIsNat, PredsType DEF NoRepeats
<1>2. \A n \in Known \ E : Preds(n) \cap (Known \ E) # {}
  BY <1>1 DEF FreeAfter
<1> QED  BY <1>2 DEF Cyclic

(* When every node is out after its predecessors, there is no cycle.       *)
LEMMA RankedIsAcyclic ==
  ASSUME NEW place \in [Known -> Nat],
         \A n \in Known : \A d \in Preds(n) : place[d] < place[n]
  PROVE  ~Cyclic
<1> SUFFICES ASSUME NEW S \in SUBSET Known, S # {}, \A n \in S : Preds(n) \cap S # {}
             PROVE  FALSE
  BY DEF Cyclic
<1> DEFINE T == {place[n] : n \in S}
<1>1. T \in SUBSET Nat /\ T # {}
  OBVIOUS
<1>2. PICK x \in T : \A y \in T : x <= y
  BY <1>1, Least
<1>3. PICK n \in S : place[n] = x
  BY <1>2
<1>4. PICK d \in Preds(n) : d \in S
  OBVIOUS
<1>5. place[d] < place[n]
  BY <1>4
<1>6. place[n] <= place[d]
  BY <1>2, <1>3, <1>4
<1>7. place[d] \in Nat /\ place[n] \in Nat
  BY <1>4
<1> DEFINE p == place[d]
           q == place[n]
<1>8. p < q /\ q <= p /\ p \in Nat /\ q \in Nat
  BY <1>5, <1>6, <1>7
<1> HIDE DEF p, q
<1> QED  BY <1>8

-----------------------------------------------------------------------------
(***************************************************************************)
(* The steps.  All but Add leave the graph as it is, and what is defined   *)
(* from it.                                                                *)
(***************************************************************************)
LEMMA SameGraph ==
  ASSUME UNCHANGED graph
  PROVE  /\ Known' = Known /\ Bads' = Bads /\ Cyclic' = Cyclic /\ Sources' = Sources
         /\ \A n : /\ DepSet(n)' = DepSet(n) /\ Preds(n)' = Preds(n)
                   /\ Extra(n)' = Extra(n)
         /\ \A E : FreeAfter(E)' = FreeAfter(E)
<1>1. Known' = Known /\ \A n : DepSet(n)' = DepSet(n) /\ Indegree(n)' = Indegree(n)
  BY DEF graph, Known, DepSet, Indegree
<1>2. \A n : Preds(n)' = Preds(n)
  BY <1>1 DEF Preds
<1>3. \A n : Extra(n)' = Extra(n)
  BY <1>1, <1>2 DEF Extra
<1>4. \A E : FreeAfter(E)' = FreeAfter(E)
  BY <1>1, <1>2, <1>3 DEF FreeAfter
<1>5. Bads' = Bads
  BY <1>1 DEF Bads, Bad, graph
<1>6. Cyclic' = Cyclic
  BY <1>1, <1>2 DEF Cyclic
<1>7. Sources' = Sources
  BY <1>1 DEF Sources
<1> QED  BY <1>1, <1>2, <1>3, <1>4, <1>5, <1>6, <1>7

(* Before the first step of a sort, and of layers.                         *)
LEMMA Begins ==
  ASSUME TypeOK, indegree' = Indegrees, UNCHANGED graph
  PROVE  /\ (keys \in Seq(Ids) /\ IsInjective(keys) /\ deps \in [Ids -> Seq(0..N)])'
         /\ indegree' \in [Ids -> Nat] /\ Counted({})'
<1>1. \A n \in Known : indegree'[n] = Indegree(n)
  BY PredsType DEF Indegrees
<1>2. Counted({})'
  BY <1>1, AtFirst, SameGraph DEF Counted
<1> QED  BY <1>2, AtFirst DEF TypeOK, graph

LEMMA EmptyList == \A S : <<>> \in Seq(S) /\ ToSet(<<>>) = {} /\ IsInjective(<<>>)
BY DEF ToSet, IsInjective

LEMMA StartKeeps ==
  ASSUME TypeOK, NEW call \in Sorts, StartOrder(call), UNCHANGED graph
  PROVE  TypeOK' /\ Kahn'
<1> USE DEF StartOrder
<1>1. /\ Sources \in SUBSET Ids /\ Sources = FreeAfter({}) /\ Sources \subseteq Known
  BY AtFirst, PredsType
<1>2. ready' \in Seq(Sources) /\ ToSet(ready') = Sources /\ IsInjective(ready')
  BY <1>1, InOrderLists
<1>3. Known' = Known /\ FreeAfter({})' = FreeAfter({})
  BY SameGraph
<1>4. ready' \in Seq(Known)
  BY <1>1, <1>2
<1>5. TypeOK'
  BY Begins, <1>3, <1>4, EmptyList DEF TypeOK, Ops, Results, Sorts
<1>6. ToSet(ready)' = FreeAfter(ToSet(order))'
  BY <1>1, <1>2, <1>3, EmptyList
<1>7. Counted(ToSet(order))'
  BY Begins, EmptyList
<1>8. IsInjective(order)' /\ IsInjective(ready)' /\ DOMAIN order' = {}
  BY <1>2, EmptyList
<1> QED  BY <1>5, <1>6, <1>7, <1>8 DEF Kahn

LEMMA OrderKeeps ==
  ASSUME DagInv, TopologicalOrder
  PROVE  DagInv'
<1>1. TypeOK' /\ Kahn'
  BY StartKeeps DEF DagInv, TopologicalOrder, Sorts
<1>2. op' = "topological_order" /\ result' = "running" /\ layers' = <<>>
  BY DEF TopologicalOrder, StartOrder
<1> QED
  BY <1>1, <1>2 DEF DagInv, Calls, Validated, Sorting, Layering, Sorts

LEMMA LayersKeeps ==
  ASSUME DagInv, Layers
  PROVE  DagInv'
<1> USE DEF Layers
<1>1. /\ op' = "layers" /\ result' = "running"
      /\ ready' = <<>> /\ order' = <<>> /\ layers' = <<>>
  BY DEF Clear
<1>2. TypeOK'
  BY <1>1, Begins, EmptyList DEF DagInv, TypeOK, Ops, Results
<1>3. Leveled'
  <2>1. DOMAIN layers' = {} /\ Len(layers') = 0 /\ 1..(Len(layers') - 1) = {}
    BY <1>1
  <2>2. Below(Len(layers))' = {}
    BY <2>1 DEF Below
  <2> QED  BY <2>1, <2>2, Begins DEF Leveled, DagInv
<1> QED  BY <1>1, <1>2, <1>3 DEF DagInv, Calls, Validated, Sorting, Layering, Sorts

LEMMA AddKeeps ==
  ASSUME DagInv, NEW n \in Ids, NEW list \in DepLists, Add(n, list)
  PROVE  DagInv'
<1>1. /\ op' = "add" /\ result' \in {"duplicate", "none"}
      /\ ready' = <<>> /\ order' = <<>> /\ layers' = <<>> /\ indegree' = indegree
  BY DEF Add, Clear
<1>2. (keys \in Seq(Ids) /\ IsInjective(keys) /\ deps \in [Ids -> Seq(0..N)])'
  <2>1. CASE n \in Known
    BY <2>1 DEF Add, DagInv, TypeOK, graph
  <2>2. CASE n \notin Known
    <3>1. keys' = Append(keys, n) /\ deps' = [deps EXCEPT ![n] = list] /\ list \in Seq(0..N)
      BY <2>2 DEF Add
    <3>2. keys \in Seq(Ids) /\ IsInjective(keys) /\ n \notin ToSet(keys)
      BY <2>2 DEF Known, DagInv, TypeOK
    <3>3. IsInjective(keys') /\ keys' \in Seq(Ids)
      BY <3>1, <3>2, SetOfAppend
    <3> QED  BY <3>1, <3>3 DEF DagInv, TypeOK
  <2> QED  BY <2>1, <2>2
<1>3. TypeOK'
  BY <1>1, <1>2, EmptyList DEF DagInv, TypeOK, Ops, Results
<1> QED  BY <1>1, <1>3 DEF DagInv, Calls, Validated, Sorting, Layering, Sorts

(* Some bad name comes first, and validate tells its kind.                 *)
LEMMA FirstIsBad ==
  ASSUME TypeOK, Bads # {}
  PROVE  FirstBad \in Bads
<1>1. \A p \in Bads : p[1] \in Nat /\ p[2] \in Nat /\ p = <<p[1], p[2]>>
  <2>1. SUFFICES ASSUME NEW i \in DOMAIN keys, NEW p \in {i} \X DOMAIN deps[keys[i]]
                 PROVE  p[1] \in Nat /\ p[2] \in Nat /\ p = <<p[1], p[2]>>
    BY DEF Bads
  <2>2. keys[i] \in Ids /\ deps[keys[i]] \in Seq(0..N)
    BY DEF TypeOK
  <2>3. \A S, s : s \in Seq(S) => DOMAIN s \subseteq Nat
    OBVIOUS
  <2>4. DOMAIN keys \subseteq Nat /\ DOMAIN deps[keys[i]] \subseteq Nat
    BY <2>2, <2>3 DEF TypeOK
  <2> QED  BY <2>4
<1> DEFINE I == {p[1] : p \in Bads}
<1>2. PICK i \in I : \A k \in I : i <= k
  <2>1. I \in SUBSET Nat /\ I # {}
    BY <1>1
  <2> QED  BY <2>1, Least
<1> DEFINE J == {p[2] : p \in {q \in Bads : q[1] = i}}
<1>3. PICK j \in J : \A k \in J : j <= k
  <2>1. J \in SUBSET Nat /\ J # {}
    BY <1>1, <1>2
  <2> QED  BY <2>1, Least
<1>4. PICK p \in Bads : p[1] = i /\ p[2] = j
  BY <1>3
<1>5. \A q \in Bads : Before(p, q)
  <2> SUFFICES ASSUME NEW q \in Bads PROVE Before(p, q)
    OBVIOUS
  <2>1. i <= q[1] /\ (q[1] = i => j <= q[2])
    BY <1>2, <1>3
  <2> QED  BY <1>1, <1>4, <2>1 DEF Before
<1> QED  BY <1>5 DEF FirstBad

LEMMA BadNames ==
  ASSUME TypeOK
  PROVE  /\ \A p \in Bads : /\ keys[p[1]] \in Known
                            /\ deps[keys[p[1]]][p[2]] \in DepSet(keys[p[1]])
                            /\ \/ deps[keys[p[1]]][p[2]] \notin Known
                               \/ deps[keys[p[1]]][p[2]] = keys[p[1]]
         /\ Bads = {} => \A n \in Known : DepSet(n) \subseteq Known
<1>1. ASSUME NEW p \in Bads
      PROVE  /\ keys[p[1]] \in Known
             /\ deps[keys[p[1]]][p[2]] \in DepSet(keys[p[1]])
             /\ \/ deps[keys[p[1]]][p[2]] \notin Known
                \/ deps[keys[p[1]]][p[2]] = keys[p[1]]
  <2>1. PICK i \in DOMAIN keys : p \in {i} \X DOMAIN deps[keys[i]] /\ Bad(p[1], p[2])
    BY DEF Bads
  <2>2. p[1] = i /\ p[2] \in DOMAIN deps[keys[i]]
    BY <2>1
  <2>3. keys[i] \in Ids /\ deps[keys[i]] \in Seq(0..N)
    BY DEF TypeOK
  <2>4. keys[i] \in Known /\ deps[keys[i]][p[2]] \in DepSet(keys[i])
    BY <2>2, <2>3 DEF Known, DepSet, ToSet
  <2> QED  BY <2>1, <2>2, <2>4 DEF Bad
<1>2. ASSUME NEW n \in Known, NEW d \in DepSet(n), d \notin Known PROVE Bads # {}
  <2>1. PICK i \in DOMAIN keys : keys[i] = n
    BY DEF Known, ToSet
  <2>2. PICK j \in DOMAIN deps[n] : deps[n][j] = d
    BY DEF DepSet, ToSet
  <2>3. <<i, j>> \in Bads
    BY <1>2, <2>1, <2>2 DEF Bads, Bad
  <2> QED  BY <2>3
<1> QED  BY <1>1, <1>2

LEMMA ValidateKeeps ==
  ASSUME DagInv, Validate
  PROVE  DagInv'
<1>1. CASE Bads = {}
  <2>1. StartOrder("validate") /\ UNCHANGED graph
    BY <1>1 DEF Validate
  <2>2. TypeOK' /\ Kahn'
    BY <2>1, StartKeeps DEF DagInv, Sorts
  <2>3. op' = "validate" /\ result' = "running" /\ layers' = <<>> /\ Bads' = {}
    BY <1>1, <2>1, SameGraph DEF StartOrder
  <2> QED  BY <2>2, <2>3 DEF DagInv, Calls, Validated, Sorting, Layering, Sorts
<1>2. CASE Bads # {}
  <2> DEFINE n == keys[FirstBad[1]]
             d == deps[n][FirstBad[2]]
  <2>1. /\ op' = "validate" /\ result' = IF d \notin Known THEN "missing" ELSE "cycle"
        /\ ready' = <<>> /\ order' = <<>> /\ layers' = <<>> /\ indegree' = indegree
        /\ UNCHANGED graph /\ Bads' # {}
    BY <1>2, SameGraph DEF Validate, Clear
  <2>2. n \in Known /\ d \in DepSet(n) /\ (d \notin Known \/ d = n)
    BY <1>2, FirstIsBad, BadNames DEF DagInv
  <2>3. TypeOK'
    <3>1. result' \in {"missing", "cycle"}
      BY <2>1
    <3> HIDE DEF n, d
    <3> QED  BY <2>1, <3>1, EmptyList DEF DagInv, TypeOK, Ops, Results, graph
  <2>4. result' = "missing" => \E m \in Known' : ~(DepSet(m)' \subseteq Known')
    <3>1. result' = "missing" => ~(DepSet(n) \subseteq Known)
      BY <2>1, <2>2
    <3> HIDE DEF n, d
    <3> QED  BY <2>1, <2>2, <3>1, SameGraph
  <2>5. result' = "cycle" => \E m \in Known' : m \in Preds(m)'
    <3>1. result' = "cycle" => n \in Preds(n)
      BY <2>1, <2>2 DEF Preds
    <3> HIDE DEF n, d
    <3> QED  BY <2>1, <2>2, <3>1, SameGraph
  <2>6. result' \in {"missing", "cycle"}
    BY <2>1
  <2> HIDE DEF n, d
  <2> QED
    BY <2>1, <2>3, <2>4, <2>5, <2>6 DEF DagInv, Calls, Validated, Sorting, Layering, Sorts
<1> QED  BY <1>1, <1>2

(* Outside a running call's own loop, only the result changes.             *)
LEMMA IsSorting ==
  ASSUME DagInv, op \in Sorts, result = "running"
  PROVE  Kahn /\ layers = <<>> /\ (op = "validate" => Bads = {})
BY DEF DagInv, Calls, Validated, Sorting, Sorts

LEMMA Closed ==
  ASSUME TypeOK, Kahn
  PROVE  /\ ToSet(order) \in SUBSET Known
         /\ \A n \in ToSet(order) : Preds(n) \subseteq ToSet(order)
<1>1. order \in Seq(Known) /\ DOMAIN order = 1..Len(order) /\ Len(order) \in Nat
  BY DEF TypeOK
<1>2. ToSet(order) \in SUBSET Known
  BY <1>1, SetOf
<1>3. \A i \in DOMAIN order : {order[j] : j \in 1..(i - 1)} \subseteq ToSet(order)
  BY <1>1 DEF ToSet
<1>4. ASSUME NEW n \in ToSet(order) PROVE Preds(n) \subseteq ToSet(order)
  <2>1. PICK i \in DOMAIN order : order[i] = n
    BY DEF ToSet
  <2> QED  BY <1>3, <2>1 DEF Kahn
<1> QED  BY <1>2, <1>4

LEMMA PopKeeps ==
  ASSUME DagInv, Pop
  PROVE  DagInv'
<1> DEFINE h == Head(ready)
           E == ToSet(order)
           R == Released({h})
<1>1. TypeOK /\ Kahn /\ layers = <<>> /\ op \in Sorts /\ (op = "validate" => Bads = {})
  BY IsSorting DEF DagInv, Pop, Sorts
<1>2. /\ ready # <<>> /\ result = "running" /\ result' = "running"
      /\ order' = Append(order, h) /\ ready' = Tail(ready) \o InOrder(R)
      /\ Relax({h})
      /\ keys' = keys /\ deps' = deps /\ op' = op /\ layers' = <<>> /\ UNCHANGED graph
  BY <1>1 DEF Pop, graph
<1>3. E \in SUBSET Known /\ \A n \in E : Preds(n) \subseteq E
  BY <1>1, Closed
<1>4. /\ h \in Known /\ Tail(ready) \in Seq(Known) /\ FreeAfter(E) = {h} \cup ToSet(Tail(ready))
      /\ IsInjective(Tail(ready)) /\ h \notin ToSet(Tail(ready))
  <2>1. ready \in Seq(Known) /\ IsInjective(ready) /\ ToSet(ready) = FreeAfter(E)
    BY <1>1 DEF Kahn, TypeOK
  <2> QED  BY <1>2, <2>1, SetOfTail
<1> HIDE DEF h, E
<1>5. Counted(E) /\ h \in FreeAfter(E)
  <2>1. Counted(E)
    BY <1>1 DEF Kahn, E
  <2> QED  BY <1>4, <2>1
<1>6. /\ h \in Known \ E /\ Preds(h) \subseteq E
      /\ R \subseteq Known /\ R \cap FreeAfter(E) = {}
      /\ FreeAfter(E \cup {h}) = (FreeAfter(E) \ {h}) \cup R
      /\ \A n \in Known :
           /\ indegree[n] - Reached(n, {h}) = Extra(n) + Cardinality(Preds(n) \ (E \cup {h}))
           /\ indegree[n] - Reached(n, {h}) \in Nat
  BY <1>1, <1>3, <1>5, ReleasesOne
<1> HIDE DEF R
<1>7. order' \in Seq(Known) /\ ToSet(order') = E \cup {h} /\ IsInjective(order')
  <2>1. order \in Seq(Known) /\ IsInjective(order) /\ h \notin ToSet(order)
    BY <1>1, <1>6 DEF Kahn, TypeOK, E
  <2> QED  BY <1>2, <1>4, <2>1, SetOfAppend DEF E
<1>8. ready' \in Seq(Known) /\ ToSet(ready') = FreeAfter(E \cup {h}) /\ IsInjective(ready')
  <2>1. R \in SUBSET Ids
    BY <1>1, <1>6, PredsType
  <2>2. InOrder(R) \in Seq(Known) /\ ToSet(InOrder(R)) = R /\ IsInjective(InOrder(R))
    BY <1>6, <2>1, InOrderLists
  <2>3. ToSet(Tail(ready)) = FreeAfter(E) \ {h} /\ ToSet(Tail(ready)) \cap R = {}
    BY <1>4, <1>6
  <2> DEFINE t == Tail(ready)
             u == InOrder(R)
  <2>4. t \in Seq(Known) /\ u \in Seq(Known) /\ IsInjective(t) /\ IsInjective(u)
        /\ ToSet(t) \cap ToSet(u) = {}
    BY <1>4, <2>2, <2>3
  <2> HIDE DEF t, u
  <2>5. t \o u \in Seq(Known) /\ ToSet(t \o u) = ToSet(t) \cup ToSet(u) /\ IsInjective(t \o u)
    BY <2>4, SetOfConcat
  <2>6. ready' \in Seq(Known) /\ ToSet(ready') = ToSet(Tail(ready)) \cup ToSet(InOrder(R))
        /\ IsInjective(ready')
    BY <1>2, <2>5 DEF t, u
  <2> QED  BY <1>6, <2>2, <2>3, <2>6
<1>9. Known' = Known /\ \A n : Preds(n)' = Preds(n) /\ Extra(n)' = Extra(n)
  BY <1>2, SameGraph
<1>10. ToSet(ready)' = FreeAfter(ToSet(order))'
  <2>1. ToSet(ready') = {n \in Known \ (E \cup {h}) :
                           Extra(n) = 0 /\ Preds(n) \subseteq E \cup {h}}
    BY <1>8 DEF FreeAfter
  <2>2. FreeAfter(ToSet(order))' = {n \in Known' \ ToSet(order') :
                           Extra(n)' = 0 /\ Preds(n)' \subseteq ToSet(order')}
    BY DEF FreeAfter
  <2> QED  BY <1>7, <1>9, <2>1, <2>2
<1>11. \A n \in Known : /\ indegree'[n] = Extra(n) + Cardinality(Preds(n) \ (E \cup {h}))
                        /\ indegree'[n] \in Nat
  <2> SUFFICES ASSUME NEW n \in Known
               PROVE  /\ indegree'[n] = Extra(n) + Cardinality(Preds(n) \ (E \cup {h}))
                      /\ indegree'[n] \in Nat
    OBVIOUS
  <2>1. n \in Ids
    BY <1>1, PredsType
  <2>2. indegree'[n] = indegree[n] - Reached(n, {h})
    BY <1>2, <2>1 DEF Relax
  <2> QED  BY <1>6, <2>2
<1>12. indegree' \in [Ids -> Nat]
  <2>1. \A n \in Ids : indegree'[n] = IF n \in Known THEN indegree[n] - Reached(n, {h}) ELSE 0
    BY <1>2 DEF Relax
  <2>2. ASSUME NEW n \in Ids PROVE indegree'[n] \in Nat
    <3>1. CASE n \in Known
      BY <1>11, <3>1
    <3>2. CASE n \notin Known
      BY <2>1, <3>2
    <3> QED  BY <3>1, <3>2
  <2>3. indegree' = [n \in Ids |-> indegree'[n]]
    BY <1>2 DEF Relax
  <2> QED  BY <2>2, <2>3
<1>13. TypeOK'
  BY <1>1, <1>2, <1>7, <1>8, <1>9, <1>12, EmptyList DEF TypeOK
<1>14. ASSUME NEW i \in DOMAIN order'
       PROVE  Preds(order'[i]) \subseteq {order'[j] : j \in 1..(i - 1)}
  <2>1. /\ order \in Seq(Known) /\ Len(order) \in Nat /\ DOMAIN order = 1..Len(order)
        /\ DOMAIN order' = 1..(Len(order) + 1) /\ order'[Len(order) + 1] = h
        /\ \A j \in 1..Len(order) : order'[j] = order[j]
    BY <1>1, <1>2, <1>4, AppendProperties DEF TypeOK
  <2>2. CASE i \in 1..Len(order)
    <3>1. {order'[j] : j \in 1..(i - 1)} = {order[j] : j \in 1..(i - 1)}
      BY <2>1, <2>2
    <3> QED  BY <1>1, <2>1, <2>2, <3>1 DEF Kahn
  <2>3. CASE i = Len(order) + 1
    <3>1. E \subseteq {order[j] : j \in 1..Len(order)}
      BY <2>1 DEF E, ToSet
    <3>2. i - 1 = Len(order) /\ {order'[j] : j \in 1..(i - 1)} = {order[j] : j \in 1..Len(order)}
      BY <2>1, <2>3
    <3> QED  BY <1>6, <2>1, <2>3, <3>1, <3>2
  <2> QED  BY <2>1, <2>2, <2>3
<1>15. Kahn'
  <2>1. \A i \in DOMAIN order' : Preds(order[i])' \subseteq {order'[j] : j \in 1..(i - 1)}
    BY <1>9, <1>14
  <2>2. Counted(ToSet(order))'
    BY <1>7, <1>9, <1>11 DEF Counted
  <2> QED  BY <1>7, <1>8, <1>10, <2>1, <2>2 DEF Kahn
<1>16. Bads' = Bads
  BY <1>2, SameGraph
<1> QED
  BY <1>1, <1>2, <1>13, <1>15, <1>16 DEF DagInv, Calls, Validated, Sorting, Layering, Sorts

(* Every id is in order exactly when order is as long as keys.             *)
LEMMA AllMeansEvery ==
  ASSUME TypeOK, Kahn
  PROVE  AllOrdered <=> ToSet(order) = Known
<1>1. ToSet(order) \in SUBSET Known
  BY Closed
<1>2. IsFiniteSet(Known) /\ Cardinality(Known) = Len(keys)
  BY CardinalityOfSet DEF TypeOK, Known
<1>3. IsFiniteSet(ToSet(order)) /\ Cardinality(ToSet(order)) = Len(order)
  BY CardinalityOfSet DEF TypeOK, Kahn
<1>4. Cardinality(ToSet(order)) = Cardinality(Known) => ToSet(order) = Known
  BY <1>1, <1>2, FS_Subset
<1> QED  BY <1>2, <1>3, <1>4 DEF AllOrdered

LEMMA EndOrderKeeps ==
  ASSUME DagInv, EndOrder
  PROVE  DagInv'
<1>1. TypeOK /\ Kahn /\ layers = <<>> /\ op \in Sorts /\ (op = "validate" => Bads = {})
  BY IsSorting DEF DagInv, EndOrder, Sorts
<1>2. /\ ready = <<>> /\ UNCHANGED <<graph, op, indegree, ready, order, layers>>
      /\ result' = IF AllOrdered THEN "ok" ELSE "cycle"
  BY DEF EndOrder
<1>3. AllOrdered <=> ToSet(order) = Known
  BY <1>1, AllMeansEvery
<1>4. /\ Known' = Known /\ Bads' = Bads /\ \A n : Preds(n)' = Preds(n) /\ Extra(n)' = Extra(n)
      /\ \A E : FreeAfter(E)' = FreeAfter(E)
  BY <1>2, SameGraph
<1>5. TypeOK'
  BY <1>1, <1>2, <1>4 DEF TypeOK, graph, Results
<1>6. Kahn'
  <2>1. Counted(ToSet(order))'
    BY <1>1, <1>2, <1>4 DEF Kahn, Counted
  <2>2. FreeAfter(ToSet(order))' = FreeAfter(ToSet(order))
    BY <1>2, <1>4 DEF FreeAfter
  <2>3. ToSet(ready)' = ToSet(ready) /\ ToSet(order)' = ToSet(order)
    BY <1>2
  <2> QED  BY <1>1, <1>2, <1>4, <2>1, <2>2, <2>3 DEF Kahn
<1>7. ToSet(order)' = ToSet(order)
  BY <1>2
<1> QED
  BY <1>1, <1>2, <1>3, <1>4, <1>5, <1>6, <1>7
  DEF DagInv, Calls, Validated, Sorting, Layering, Sorts

-----------------------------------------------------------------------------
(* The layers out so far are closed under predecessors.                    *)
LEMMA LayersClosed ==
  ASSUME TypeOK, \A k \in DOMAIN layers : layers[k] = FreeAfter(Below(k)),
         NEW m \in 1..(Len(layers) + 1)
  PROVE  Below(m) \in SUBSET Known /\ \A n \in Below(m) : Preds(n) \subseteq Below(m)
<1>1. layers \in Seq(SUBSET Known) /\ Len(layers) \in Nat /\ DOMAIN layers = 1..Len(layers)
  BY DEF TypeOK
<1>2. \A j \in 1..(m - 1) : j \in DOMAIN layers /\ 1..(j - 1) \subseteq 1..(m - 1)
  BY <1>1
<1>3. \A j \in 1..(m - 1) : layers[j] \subseteq Known /\ Below(j) \subseteq Below(m)
  BY <1>1, <1>2 DEF Below
<1>4. \A j \in 1..(m - 1) : \A n \in layers[j] : Preds(n) \subseteq Below(j)
  BY <1>2 DEF FreeAfter
<1>5. \A n \in Below(m) : \E j \in 1..(m - 1) : n \in layers[j]
  BY DEF Below
<1> QED  BY <1>3, <1>4, <1>5

LEMMA LayeredIsBelow ==
  ASSUME TypeOK
  PROVE  /\ Layered = Below(Len(layers) + 1)
         /\ layers = <<>> => Layered = {}
         /\ layers # <<>> => /\ Layered = Below(Len(layers)) \cup Last(layers)
                             /\ Len(layers) \in DOMAIN layers /\ Last(layers) = layers[Len(layers)]
<1>1. layers \in Seq(SUBSET Known) /\ Len(layers) \in Nat /\ DOMAIN layers = 1..Len(layers)
  BY DEF TypeOK
<1>2. Layered = UNION {layers[j] : j \in 1..Len(layers)}
  BY <1>1 DEF Layered, ToSet
<1>3. Layered = Below(Len(layers) + 1)
  <2>1. (Len(layers) + 1) - 1 = Len(layers)
    BY <1>1
  <2> QED  BY <1>2, <2>1 DEF Below
<1>4. ASSUME layers = <<>> PROVE Layered = {}
  BY <1>2, <1>4
<1>5. ASSUME layers # <<>>
      PROVE  /\ Layered = Below(Len(layers)) \cup Last(layers)
             /\ Len(layers) \in DOMAIN layers /\ Last(layers) = layers[Len(layers)]
  <2>1. Len(layers) # 0
    BY <1>1, <1>5
  <2>2. 1..Len(layers) = 1..(Len(layers) - 1) \cup {Len(layers)}
    BY <1>1, <2>1
  <2>3. Last(layers) = layers[Len(layers)]
    BY DEF Last
  <2> QED  BY <1>1, <1>2, <2>1, <2>2, <2>3 DEF Below
<1> QED  BY <1>3, <1>4, <1>5

(* The next frontier is what the layers so far set free.                   *)
LEMMA Frontier ==
  ASSUME DagInv, op = "layers", result = "running", RelaxLayer
  PROVE  /\ Leveled /\ NextFrontier = FreeAfter(Layered) /\ Layered \subseteq Known
         /\ \A n \in Known : indegree'[n] = Extra(n) + Cardinality(Preds(n) \ Layered)
         /\ indegree' \in [Ids -> Nat]
<1>1. TypeOK /\ Leveled
  BY DEF DagInv, Layering
<1>2. CASE layers = <<>>
  <2>1. Layered = {} /\ Len(layers) = 0 /\ 1..(Len(layers) - 1) = {}
    BY <1>1, <1>2, LayeredIsBelow
  <2>2. Below(Len(layers)) = {}
    BY <2>1 DEF Below
  <2>3. NextFrontier = FreeAfter(Layered)
    BY <1>1, <1>2, <2>1, AtFirst DEF NextFrontier
  <2>4. indegree' = indegree
    BY <1>2 DEF RelaxLayer
  <2> QED  BY <1>1, <2>1, <2>2, <2>3, <2>4 DEF Leveled, Counted, TypeOK
<1>3. CASE layers # <<>>
  <2> DEFINE k == Len(layers)
             E == Below(k)
             S == Last(layers)
  <2>1. k \in DOMAIN layers /\ k \in 1..(k + 1) /\ S = layers[k] /\ Layered = E \cup S
    BY <1>1, <1>3, LayeredIsBelow
  <2>2. S = FreeAfter(E) /\ \A j \in DOMAIN layers : layers[j] = FreeAfter(Below(j))
    BY <1>1, <2>1 DEF Leveled
  <2>3. E \in SUBSET Known /\ \A n \in E : Preds(n) \subseteq E
    BY <1>1, <2>1, <2>2, LayersClosed
  <2>4. Counted(E)
    BY <1>1 DEF Leveled
  <2>5. NextFrontier = Released(S) /\ Relax(S)
    BY <1>3 DEF NextFrontier, RelaxLayer
  <2> HIDE DEF k, E, S
  <2>6. S \in SUBSET FreeAfter(E)
    BY <2>2
  <2>7. /\ S \in SUBSET Known /\ S \cap E = {}
        /\ FreeAfter(E \cup S) = (FreeAfter(E) \ S) \cup Released(S)
    BY <1>1, <2>3, <2>4, <2>6, Releases
  <2>8. NextFrontier = FreeAfter(Layered)
    BY <2>1, <2>2, <2>5, <2>7
  <2>9. ASSUME NEW n \in Known
        PROVE  /\ indegree[n] - Reached(n, S) = Extra(n) + Cardinality(Preds(n) \ (E \cup S))
               /\ indegree[n] - Reached(n, S) \in Nat
    BY <1>1, <2>3, <2>4, <2>7, CountsDown
  <2>10. /\ \A n \in Known : n \in Ids
         /\ \A n \in Ids : indegree'[n] = IF n \in Known THEN indegree[n] - Reached(n, S) ELSE 0
         /\ indegree' = [n \in Ids |-> indegree'[n]]
    BY <1>1, <2>5, PredsType DEF Relax
  <2>11. ASSUME NEW n \in Ids PROVE indegree'[n] \in Nat
    <3>1. CASE n \in Known
      BY <2>9, <2>10, <3>1
    <3>2. CASE n \notin Known
      BY <2>10, <3>2
    <3> QED  BY <3>1, <3>2
  <2>12. indegree' \in [Ids -> Nat]
    BY <2>10, <2>11
  <2>13. \A n \in Known : indegree'[n] = Extra(n) + Cardinality(Preds(n) \ Layered)
    BY <2>1, <2>9, <2>10
  <2> QED  BY <1>1, <2>1, <2>3, <2>7, <2>8, <2>12, <2>13
<1> QED  BY <1>2, <1>3

LEMMA NextLayerKeeps ==
  ASSUME DagInv, NextLayer
  PROVE  DagInv'
<1> DEFINE F == NextFrontier
           k == Len(layers)
<1>1. /\ op = "layers" /\ result = "running" /\ F # {} /\ RelaxLayer
      /\ layers' = Append(layers, F) /\ UNCHANGED <<graph, op, result, ready, order>>
  BY DEF NextLayer
<1>2. /\ TypeOK /\ Leveled /\ F = FreeAfter(Layered) /\ Layered \subseteq Known
      /\ \A n \in Known : indegree'[n] = Extra(n) + Cardinality(Preds(n) \ Layered)
      /\ indegree' \in [Ids -> Nat]
  BY <1>1, Frontier DEF DagInv
<1> HIDE DEF F
<1>3. F \in SUBSET Known /\ layers \in Seq(SUBSET Known)
  BY <1>2 DEF FreeAfter, TypeOK
<1>4. /\ k \in Nat /\ DOMAIN layers = 1..k /\ Len(layers') = k + 1 /\ DOMAIN layers' = 1..(k + 1)
      /\ layers' \in Seq(SUBSET Known) /\ layers'[k + 1] = F
      /\ \A j \in 1..k : layers'[j] = layers[j]
  BY <1>1, <1>3, AppendProperties
<1>5. /\ Known' = Known /\ \A n : Preds(n)' = Preds(n) /\ Extra(n)' = Extra(n)
      /\ \A E : FreeAfter(E)' = FreeAfter(E)
  BY <1>1, SameGraph
<1>6. \A j \in 1..(k + 1) : Below(j)' = Below(j)
  <2> SUFFICES ASSUME NEW j \in 1..(k + 1) PROVE Below(j)' = Below(j)
    OBVIOUS
  <2>1. \A i \in 1..(j - 1) : layers'[i] = layers[i]
    BY <1>4
  <2> QED  BY <2>1 DEF Below
<1>7. Below(k + 1) = Layered
  BY <1>2, LayeredIsBelow
<1>8. \A j \in 1..(k + 1) : layers'[j] # {} /\ layers'[j] = FreeAfter(Below(j))
  <2>1. \A j \in 1..k : layers'[j] # {} /\ layers'[j] = FreeAfter(Below(j))
    BY <1>2, <1>4 DEF Leveled
  <2>2. \A j \in 1..(k + 1) : j = k + 1 \/ j \in 1..k
    BY <1>4
  <2> QED  BY <1>1, <1>2, <1>4, <1>7, <2>1, <2>2
<1>9. Leveled'
  <2>1. \A j \in 1..(k + 1) : FreeAfter(Below(j))' = FreeAfter(Below(j))
    BY <1>5, <1>6 DEF FreeAfter
  <2>2. Below(Len(layers))' = Layered
    <3>1. Below(Len(layers))' = UNION {layers'[j] : j \in 1..(Len(layers') - 1)}
      BY DEF Below
    <3>2. Below(k + 1) = UNION {layers[j] : j \in 1..((k + 1) - 1)}
      BY DEF Below
    <3>3. (k + 1) - 1 = k
      BY <1>4
    <3>4. \A j \in 1..k : layers'[j] = layers[j]
      BY <1>4
    <3> HIDE DEF k
    <3> QED  BY <1>4, <1>7, <3>1, <3>2, <3>3, <3>4
  <2>3. Counted(Below(Len(layers)))'
    BY <1>2, <1>5, <2>2 DEF Counted
  <2> QED  BY <1>4, <1>8, <2>1, <2>3 DEF Leveled
<1>10. TypeOK'
  BY <1>1, <1>2, <1>4, <1>5 DEF TypeOK, graph
<1> QED  BY <1>1, <1>9, <1>10 DEF DagInv, Calls, Validated, Sorting, Layering, Sorts

LEMMA EndLayersKeeps ==
  ASSUME DagInv, EndLayers
  PROVE  DagInv'
<1>1. /\ op = "layers" /\ result = "running" /\ NextFrontier = {} /\ RelaxLayer
      /\ result' = IF Layered = Known THEN "ok" ELSE "cycle"
      /\ UNCHANGED <<graph, op, ready, order, layers>>
  BY DEF EndLayers
<1>2. TypeOK /\ Leveled /\ FreeAfter(Layered) = {} /\ indegree' \in [Ids -> Nat]
  BY <1>1, Frontier DEF DagInv
<1>3. /\ Known' = Known /\ Layered' = Layered /\ \A n : Preds(n)' = Preds(n) /\ Extra(n)' = Extra(n)
      /\ \A k : Below(k)' = Below(k)
  BY <1>1, SameGraph DEF Layered, Below
<1>4. result' \in {"ok", "cycle"} /\ layers' = layers
  BY <1>1
<1>5. Leveled'
  <2>1. \A k \in DOMAIN layers : FreeAfter(Below(k))' = FreeAfter(Below(k))
    BY <1>3 DEF FreeAfter
  <2> QED  BY <1>2, <1>4, <2>1 DEF Leveled
<1>6. FreeAfter(Layered)' = {}
  BY <1>2, <1>3 DEF FreeAfter
<1>7. TypeOK'
  BY <1>1, <1>2, <1>3, <1>4 DEF TypeOK, graph, Results
<1> QED
  BY <1>1, <1>3, <1>4, <1>5, <1>6, <1>7 DEF DagInv, Calls, Validated, Sorting, Layering, Sorts

-----------------------------------------------------------------------------
LEMMA InitDagInv == Init => DagInv
BY EmptyList
DEF Init, DagInv, TypeOK, Calls, Validated, Sorting, Layering, Sorts, Ops, Results

LEMMA StutterKeeps ==
  ASSUME DagInv, UNCHANGED vars
  PROVE  DagInv'
<1>1. /\ Known' = Known /\ Bads' = Bads /\ \A n : Preds(n)' = Preds(n) /\ Extra(n)' = Extra(n)
      /\ \A n : DepSet(n)' = DepSet(n)
  BY SameGraph DEF vars, graph
<1>2. TypeOK'
  BY <1>1 DEF DagInv, TypeOK, vars
<1>3. Calls' /\ Validated'
  BY <1>1 DEF DagInv, Calls, Validated, vars
<1>4. Kahn' = Kahn
  BY <1>1 DEF Kahn, FreeAfter, Counted, vars
<1>5. Leveled' = Leveled /\ FreeAfter(Layered)' = FreeAfter(Layered) /\ Layered' = Layered
  BY <1>1 DEF Leveled, FreeAfter, Counted, Below, Layered, vars
<1>6. Sorting'
  BY <1>1, <1>4 DEF DagInv, Sorting, vars
<1>7. Layering'
  BY <1>1, <1>5 DEF DagInv, Layering, vars
<1> QED  BY <1>2, <1>3, <1>6, <1>7 DEF DagInv

LEMMA NextDagInv == DagInv /\ [Next]_vars => DagInv'
BY AddKeeps, OrderKeeps, ValidateKeeps, LayersKeeps, PopKeeps, EndOrderKeeps, NextLayerKeeps,
   EndLayersKeeps, StutterKeeps
DEF Next, Work

-----------------------------------------------------------------------------
(***************************************************************************)
(* What the invariant gives.                                               *)
(***************************************************************************)
LEMMA DagInvariance == Spec => []DagInv
BY InitDagInv, NextDagInv, PTL DEF Spec

(* The counters of both algorithms stay at or above zero, and what is in   *)
(* the queue, the list and the layers are nodes of the graph (dag.py:98,   *)
(* 126), whatever the lists name.                                          *)
THEOREM DagTypeCorrect == Spec => []TypeOK
<1>1. DagInv => TypeOK
  BY DEF DagInv
<1> QED  BY <1>1, DagInvariance, PTL

(* A node is in the first layer that its dependencies allow (dag.py:109).  *)
LEMMA TightFromInv ==
  ASSUME DagInv
  PROVE  LayersAreTight
<1> SUFFICES ASSUME Returned({"layers"}), NEW n \in Known
             PROVE  \E k \in DOMAIN layers :
                      /\ \A j \in DOMAIN layers : InLayer(n, j) <=> j = k
                      /\ \A d \in Preds(n) : \E j \in 1..(k - 1) : InLayer(d, j)
                      /\ k > 1 => \E d \in Preds(n) : InLayer(d, k - 1)
  BY DEF LayersAreTight
<1>1. /\ TypeOK /\ Layered = Known
      /\ \A k \in DOMAIN layers : layers[k] = FreeAfter(Below(k))
  BY DEF Returned, DagInv, Layering, Leveled
<1>2. DOMAIN layers = 1..Len(layers) /\ Len(layers) \in Nat
  BY <1>1 DEF TypeOK
<1>3. PICK k \in DOMAIN layers : n \in layers[k]
  BY <1>1 DEF Layered, ToSet
<1>4. n \notin Below(k) /\ Preds(n) \subseteq Below(k) /\ Extra(n) = 0
  BY <1>1, <1>3 DEF FreeAfter
<1>5. \A i, j \in DOMAIN layers : i < j => i \in 1..(j - 1) /\ layers[i] \subseteq Below(j)
  BY <1>2 DEF Below
<1>6. ASSUME NEW j \in DOMAIN layers PROVE InLayer(n, j) <=> j = k
  <2>1. CASE j < k
    BY <1>3, <1>4, <1>5, <2>1 DEF InLayer
  <2>2. CASE k < j
    <3>1. n \in Below(j) /\ layers[j] = FreeAfter(Below(j))
      BY <1>1, <1>3, <1>5, <2>2
    <3> QED  BY <1>2, <2>2, <3>1 DEF FreeAfter, InLayer
  <2>3. CASE j = k
    BY <1>3, <2>3 DEF InLayer
  <2> QED  BY <1>2, <2>1, <2>2, <2>3
<1>7. ASSUME NEW d \in Preds(n) PROVE \E j \in 1..(k - 1) : InLayer(d, j)
  <2>1. PICK j \in 1..(k - 1) : d \in layers[j]
    BY <1>4 DEF Below
  <2> QED  BY <1>2, <2>1 DEF InLayer
<1>8. ASSUME k > 1 PROVE \E d \in Preds(n) : InLayer(d, k - 1)
  <2>1. k - 1 \in DOMAIN layers /\ k - 1 < k
    BY <1>2, <1>8
  <2>2. n \notin FreeAfter(Below(k - 1))
    BY <1>1, <1>4, <1>5, <2>1
  <2>3. n \notin Below(k - 1)
    <3>1. 1..((k - 1) - 1) \subseteq 1..(k - 1)
      BY <1>2
    <3>2. Below(k - 1) \subseteq Below(k)
      BY <3>1 DEF Below
    <3> QED  BY <1>4, <3>2
  <2>4. PICK d \in Preds(n) : d \notin Below(k - 1)
    BY <1>4, <2>2, <2>3 DEF FreeAfter
  <2>5. PICK j \in 1..(k - 1) : d \in layers[j]
    BY <1>4 DEF Below
  <2>6. j = k - 1
    <3> SUFFICES ASSUME j # k - 1 PROVE FALSE
      OBVIOUS
    <3>1. j \in DOMAIN layers /\ j < k - 1
      BY <1>2, <2>1
    <3> QED  BY <1>5, <2>1, <2>4, <2>5, <3>1
  <2> QED  BY <2>1, <2>5, <2>6 DEF InLayer
<1> QED  BY <1>6, <1>7, <1>8

THEOREM FillsLayersTightly == Spec => []LayersAreTight
BY TightFromInv, DagInvariance, PTL

(* If every node is out, in a list or in layers, there is no cycle.        *)
LEMMA ListIsAcyclic ==
  ASSUME TypeOK, Kahn, ToSet(order) = Known
  PROVE  ~Cyclic
<1> DEFINE place == [n \in Known |-> CHOOSE i \in DOMAIN order : order[i] = n]
<1>1. order \in Seq(Known) /\ DOMAIN order = 1..Len(order) /\ Len(order) \in Nat
  BY DEF TypeOK
<1>2. \A n \in Known : \E i \in DOMAIN order : order[i] = n
  BY DEF ToSet
<1>3. \A n \in Known : place[n] \in DOMAIN order /\ order[place[n]] = n
  BY <1>2
<1> HIDE DEF place
<1>4. ASSUME NEW n \in Known, NEW d \in Preds(n) PROVE place[d] < place[n]
  <2>1. PICK j \in 1..(place[n] - 1) : order[j] = d
    BY <1>3 DEF Kahn
  <2>2. j \in DOMAIN order /\ d \in Known
    BY <1>1, <1>3, <2>1, PredsType
  <2>3. place[d] = j
    BY <1>3, <2>1, <2>2 DEF Kahn, IsInjective
  <2> QED  BY <1>1, <1>3, <2>1, <2>3
<1>5. place \in [Known -> Nat]
  <2>1. \A n \in Known : place[n] \in Nat
    BY <1>1, <1>3
  <2> QED  BY <2>1 DEF place
<1> QED  BY <1>4, <1>5, RankedIsAcyclic

LEMMA LayersAreAcyclic ==
  ASSUME TypeOK, Leveled, Layered = Known
  PROVE  ~Cyclic
<1> DEFINE place == [n \in Known |-> CHOOSE k \in DOMAIN layers : n \in layers[k]]
<1>1. DOMAIN layers = 1..Len(layers) /\ Len(layers) \in Nat
  BY DEF TypeOK
<1>2. \A n \in Known : \E k \in DOMAIN layers : n \in layers[k]
  BY DEF Layered, ToSet
<1>3. \A n \in Known : place[n] \in DOMAIN layers /\ n \in layers[place[n]]
  BY <1>2
<1> HIDE DEF place
<1>4. ASSUME NEW n \in Known, NEW d \in Preds(n) PROVE place[d] < place[n]
  <2>1. Preds(n) \subseteq Below(place[n])
    BY <1>3 DEF Leveled, FreeAfter
  <2>2. PICK j \in 1..(place[n] - 1) : d \in layers[j]
    BY <2>1 DEF Below
  <2>3. d \in Known
    BY PredsType
  <2>4. layers[place[d]] = FreeAfter(Below(place[d]))
    BY <1>3, <2>3 DEF Leveled
  <2>5. d \notin Below(place[d])
    BY <1>3, <2>3, <2>4 DEF FreeAfter
  <2>6. ~(j < place[d])
    <3> SUFFICES ASSUME j < place[d] PROVE FALSE
      OBVIOUS
    <3>1. j \in 1..(place[d] - 1)
      BY <1>1, <1>3, <2>3
    <3> QED  BY <2>2, <2>5, <3>1 DEF Below
  <2> QED  BY <1>1, <1>3, <2>2, <2>3, <2>6
<1>5. place \in [Known -> Nat]
  <2>1. \A n \in Known : place[n] \in Nat
    BY <1>1, <1>3
  <2> QED  BY <2>1 DEF place
<1> QED  BY <1>4, <1>5, RankedIsAcyclic

LEMMA ExactFromInv ==
  ASSUME DagInv, NoRepeats
  PROVE  CycleIsExact
<1>1. TypeOK
  BY DEF DagInv
<1>2. CASE op \in Sorts /\ result \in {"ok", "cycle"} /\ (op = "validate" => Bads = {})
  <2>1. /\ Kahn /\ ready = <<>>
        /\ result = "ok" => ToSet(order) = Known
        /\ result = "cycle" => ToSet(order) # Known
    BY <1>2 DEF DagInv, Sorting
  <2>2. FreeAfter(ToSet(order)) = {} /\ ToSet(order) \in SUBSET Known
    BY <1>1, <2>1, EmptyList, Closed DEF Kahn
  <2>3. result = "cycle" <=> Cyclic
    BY <1>1, <1>2, <2>1, <2>2, ListIsAcyclic, StuckOnCycle
  <2>4. op = "validate" => \A n \in Known : DepSet(n) \subseteq Known
    BY <1>1, <1>2, BadNames
  <2> QED  BY <1>2, <2>3, <2>4 DEF CycleIsExact, Sorts
<1>3. CASE op = "layers" /\ result \in {"ok", "cycle"}
  <2>1. /\ Leveled /\ FreeAfter(Layered) = {}
        /\ result = "ok" => Layered = Known
        /\ result = "cycle" => Layered # Known
    BY <1>3 DEF DagInv, Layering
  <2>2. Layered \in SUBSET Known
    <3>1. \A k \in DOMAIN layers : layers[k] \subseteq Known
      BY <1>1 DEF TypeOK
    <3> QED  BY <3>1 DEF Layered, ToSet
  <2>3. result = "cycle" <=> Cyclic
    BY <1>1, <1>3, <2>1, <2>2, LayersAreAcyclic, StuckOnCycle
  <2> QED  BY <1>3, <2>3 DEF CycleIsExact
<1>4. CASE op = "validate" /\ Bads # {}
  <2>1. /\ result # "ok"
        /\ result = "missing" => \E n \in Known : ~(DepSet(n) \subseteq Known)
        /\ result = "cycle" => \E n \in Known : n \in Preds(n)
    BY <1>4 DEF DagInv, Validated
  <2>2. ASSUME NEW n \in Known, n \in Preds(n) PROVE Cyclic
    <3>1. {n} \in SUBSET Known /\ {n} # {} /\ \A m \in {n} : Preds(m) \cap {n} # {}
      BY <2>2
    <3> QED  BY <3>1 DEF Cyclic
  <2> QED  BY <1>4, <2>1, <2>2 DEF CycleIsExact
<1>5. CASE op = "validate" /\ Bads = {} /\ result = "missing"
  BY <1>5 DEF DagInv, Validated, CycleIsExact
<1> QED  BY <1>2, <1>3, <1>4, <1>5 DEF CycleIsExact, Sorts

LEMMA NoRepeatsInv ==
  ASSUME \A s \in DepLists : IsInjective(s)
  PROVE  /\ Init => NoRepeats
         /\ DagInv /\ NoRepeats /\ [Next]_vars => NoRepeats'
<1>1. Init => NoRepeats
  BY EmptyList DEF Init, NoRepeats
<1>2. ASSUME DagInv, NoRepeats, [Next]_vars PROVE NoRepeats'
  <2>1. deps' = deps \/ \E n \in Ids, list \in DepLists : deps' = [deps EXCEPT ![n] = list]
    BY <1>2 DEF Next, Add, TopologicalOrder, Validate, Layers, Work, Pop, EndOrder, NextLayer,
                EndLayers, graph, vars
  <2>2. deps \in [Ids -> Seq(0..N)]
    BY <1>2 DEF DagInv, TypeOK
  <2> QED  BY <1>2, <2>1, <2>2 DEF NoRepeats
<1> QED  BY <1>1, <1>2

(* If no dependency list names an id twice, CycleError is raised exactly   *)
(* for the graphs that no order can run (dag.py:41, 103, 131).             *)
THEOREM CyclesExactly ==
  ASSUME \A s \in DepLists : IsInjective(s)
  PROVE  Spec => []CycleIsExact
<1>1. Init => NoRepeats
  BY NoRepeatsInv
<1>2. DagInv /\ NoRepeats /\ [Next]_vars => NoRepeats'
  BY NoRepeatsInv
<1>3. DagInv /\ NoRepeats => CycleIsExact
  BY ExactFromInv
<1> QED  BY <1>1, <1>2, <1>3, DagInvariance, PTL DEF Spec

-----------------------------------------------------------------------------
(***************************************************************************)
(* Both algorithms are topological sorts.  The rank of a node is its place *)
(* in the list, or the number of its layer.                                *)
(***************************************************************************)
LEMMA Places ==
  ASSUME NEW S, NEW s \in Seq(S), NEW n
  PROVE  /\ PositionIn(s, n) \in Nat /\ (PositionIn(s, n) # 0 <=> n \in ToSet(s))
         /\ IsInjective(s) => \A i \in DOMAIN s : s[i] = n => PositionIn(s, n) = i
<1>1. DOMAIN s = 1..Len(s) /\ Len(s) \in Nat
  OBVIOUS
<1>2. CASE \E i \in DOMAIN s : s[i] = n
  <2> DEFINE p == PositionIn(s, n)
  <2>1. p = CHOOSE i \in DOMAIN s : s[i] = n
    BY <1>2 DEF PositionIn
  <2>2. p \in DOMAIN s /\ s[p] = n
    BY <1>2, <2>1
  <2> HIDE DEF p
  <2>3. p \in Nat /\ p # 0 /\ n \in ToSet(s)
    BY <1>1, <2>2 DEF ToSet
  <2>4. IsInjective(s) => \A i \in DOMAIN s : s[i] = n => p = i
    BY <2>2 DEF IsInjective
  <2> QED  BY <2>3, <2>4 DEF p
<1>3. CASE ~ \E i \in DOMAIN s : s[i] = n
  BY <1>3 DEF PositionIn, ToSet
<1> QED  BY <1>2, <1>3

LEMMA PlacesAppend ==
  ASSUME NEW S, NEW s \in Seq(S), IsInjective(s), NEW h \in S, h \notin ToSet(s), NEW n
  PROVE  PositionIn(Append(s, h), n) = IF n = h THEN Len(s) + 1 ELSE PositionIn(s, n)
<1> DEFINE t == Append(s, h)
<1>1. /\ t \in Seq(S) /\ Len(s) \in Nat /\ DOMAIN t = 1..(Len(s) + 1) /\ t[Len(s) + 1] = h
      /\ \A i \in 1..Len(s) : t[i] = s[i]
  BY AppendProperties
<1>2. IsInjective(t) /\ ToSet(t) = ToSet(s) \cup {h}
  BY SetOfAppend
<1> HIDE DEF t
<1>3. CASE n = h
  <2>1. Len(s) + 1 \in DOMAIN t /\ t[Len(s) + 1] = n
    BY <1>1, <1>3
  <2>2. PositionIn(t, n) = Len(s) + 1
    BY <1>1, <1>2, <2>1, Places
  <2> QED  BY <1>3, <2>2 DEF t
<1>4. CASE n # h /\ n \in ToSet(s)
  <2>1. PICK i \in 1..Len(s) : s[i] = n
    BY SetOf, <1>4
  <2>2. i \in DOMAIN s /\ i \in DOMAIN t /\ t[i] = n
    BY <1>1, <2>1
  <2>3. PositionIn(s, n) = i
    BY <2>1, <2>2, Places
  <2>4. PositionIn(t, n) = i
    BY <1>1, <1>2, <2>2, Places
  <2> QED  BY <1>4, <2>3, <2>4 DEF t
<1>5. CASE n # h /\ n \notin ToSet(s)
  <2>1. PositionIn(s, n) = 0
    BY <1>5, Places
  <2>2. n \notin ToSet(t)
    BY <1>2, <1>5
  <2>3. PositionIn(t, n) = 0
    BY <1>1, <2>2, Places
  <2> QED  BY <1>5, <2>1, <2>3 DEF t
<1> QED  BY <1>3, <1>4, <1>5

Disjoint == \A j, k \in DOMAIN layers : \A n : n \in layers[j] /\ n \in layers[k] => j = k

LEMMA LeveledDisjoint ==
  ASSUME TypeOK, Leveled
  PROVE  Disjoint
<1>1. DOMAIN layers = 1..Len(layers) /\ Len(layers) \in Nat
  BY DEF TypeOK
<1>2. ASSUME NEW j \in DOMAIN layers, NEW k \in DOMAIN layers, j < k, NEW n \in layers[j]
      PROVE  n \notin layers[k]
  <2>1. j \in 1..(k - 1) /\ layers[k] = FreeAfter(Below(k))
    BY <1>1, <1>2 DEF Leveled
  <2> QED  BY <2>1 DEF FreeAfter, Below
<1> QED  BY <1>1, <1>2 DEF Disjoint

LEMMA LayerRanks ==
  ASSUME TypeOK, Disjoint, NEW n
  PROVE  /\ LayerOf(n) \in Nat /\ (LayerOf(n) # 0 <=> n \in Layered)
         /\ \A k \in DOMAIN layers : n \in layers[k] => LayerOf(n) = k
<1>1. DOMAIN layers = 1..Len(layers) /\ Len(layers) \in Nat
  BY DEF TypeOK
<1>2. n \in Layered <=> \E k \in DOMAIN layers : n \in layers[k]
  BY DEF Layered, ToSet
<1>3. ASSUME NEW k \in DOMAIN layers, n \in layers[k] PROVE LayerOf(n) = k
  BY <1>3 DEF LayerOf, InLayer, Disjoint
<1>4. n \notin Layered => LayerOf(n) = 0
  BY <1>2 DEF LayerOf, InLayer
<1> QED  BY <1>1, <1>2, <1>3, <1>4

(* The abstract state: the ranked nodes are those in the list or a layer.  *)
Out == IF op = "layers" THEN Layered ELSE ToSet(order)

LEMMA SortState ==
  ASSUME DagInv
  PROVE  /\ [nodes |-> Known, preds |-> [n \in Ids |-> Preds(n)]] \in Sort!Inputs
         /\ Sort!Emitted = Out /\ Out \subseteq Known
         /\ \A n \in Known : Sort!Free(n) <=> n \notin Out /\ Preds(n) \subseteq Out
<1>1. TypeOK /\ Known \subseteq Ids /\ \A n \in Known : Preds(n) \subseteq Known
  BY PredsType DEF DagInv
<1>2. \A n \in Ids : Preds(n) \subseteq Known
  BY <1>1 DEF Preds
<1>3. [nodes |-> Known, preds |-> [n \in Ids |-> Preds(n)]] \in Sort!Inputs
  BY <1>1, <1>2 DEF Sort!Inputs
<1>4. Out \subseteq Known
  <2>1. order \in Seq(Known) /\ \A k \in DOMAIN layers : layers[k] \subseteq Known
    BY <1>1 DEF TypeOK
  <2> QED  BY <2>1, SetOf DEF Out, Layered, ToSet
<1>5. ASSUME NEW n \in Known
      PROVE  (IF op = "layers" THEN LayerOf(n) ELSE PositionIn(order, n)) # 0 <=> n \in Out
  <2>1. CASE op = "layers"
    <3>1. Disjoint
      BY <1>1, <2>1, LeveledDisjoint DEF DagInv, Layering, Calls
    <3> QED  BY <1>1, <2>1, <3>1, LayerRanks DEF Out
  <2>2. CASE op # "layers"
    <3>1. order \in Seq(Known)
      BY <1>1 DEF TypeOK
    <3> QED  BY <2>2, <3>1, Places DEF Out
  <2> QED  BY <2>1, <2>2
<1>6. Sort!Emitted = Out
  BY <1>1, <1>4, <1>5 DEF Sort!Emitted
<1>7. \A n \in Known : Sort!Free(n) <=> n \notin Out /\ Preds(n) \subseteq Out
  BY <1>1, <1>6 DEF Sort!Free
<1> QED  BY <1>3, <1>4, <1>6, <1>7

(* Between two sorts nothing is ranked.                                    *)
Unranked ==
  /\ \A n : (IF op = "layers" THEN LayerOf(n) ELSE PositionIn(order, n)) = 0
  /\ Len(order) + Len(layers) = 0

LEMMA NothingRanked == order = <<>> /\ layers = <<>> => Unranked
BY DEF Unranked, LayerOf, PositionIn, InLayer

LEMMA InitSorts == Init => Sort!Init
<1> SUFFICES ASSUME Init PROVE Sort!Init
  OBVIOUS
<1>1. DagInv /\ Unranked /\ result = "none"
  BY InitDagInv, NothingRanked DEF Init
<1> QED  BY <1>1, SortState DEF Sort!Init, Unranked

(* A call that starts no sort, and one that does.                          *)
LEMMA Edits ==
  ASSUME DagInv, DagInv', result # "running", order' = <<>>, layers' = <<>>,
         \/ result' \in {"none", "duplicate", "missing"}
         \/ result' = "cycle" /\ op' = "validate" /\ Bads' # {}
  PROVE  Sort!Edit
<1>1. Unranked'
  BY DEF Unranked, LayerOf, PositionIn, InLayer
<1>2. [nodes |-> Known', preds |-> [n \in Ids |-> Preds(n)']] \in Sort!Inputs
  <2>1. Known' \subseteq Ids
    <3>1. keys' \in Seq(Ids)
      BY DEF DagInv, TypeOK
    <3> QED  BY <3>1, SetOf DEF Known
  <2>2. \A n \in Ids : Preds(n)' \subseteq Known'
    BY DEF Preds
  <2> QED  BY <2>1, <2>2 DEF Sort!Inputs
<1> QED  BY <1>1, <1>2 DEF Sort!Edit, Sort!Clear, Unranked

LEMMA BeginsSort ==
  ASSUME DagInv, result # "running", order' = <<>>, layers' = <<>>, result' = "running",
         UNCHANGED graph
  PROVE  Sort!Begin
<1>1. Unranked'
  BY DEF Unranked, LayerOf, PositionIn, InLayer
<1>2. Known' = Known /\ \A n : Preds(n)' = Preds(n)
  BY SameGraph
<1> QED  BY <1>1, <1>2 DEF Sort!Begin, Sort!Clear, Unranked

LEMMA EndsSort ==
  ASSUME DagInv, NoRepeats, result = "running", UNCHANGED <<graph, op, order, layers>>,
         FreeAfter(Out) = {}, result' = IF Out = Known THEN "ok" ELSE "cycle",
         op = "validate" => Bads = {}
  PROVE  Sort!Sorted \/ Sort!Cycle
<1>1. Known' = Known /\ Bads' = Bads /\ \A n : Preds(n)' = Preds(n)
  BY SameGraph
<1>2. \A n : LayerOf(n)' = LayerOf(n) /\ PositionIn(order, n)' = PositionIn(order, n)
  BY DEF LayerOf, InLayer
<1>3. /\ Sort!Emitted = Out
      /\ \A n \in Known : Sort!Free(n) <=> n \notin Out /\ Preds(n) \subseteq Out
  BY SortState
<1>4. Sort!Stuck
  <2>1. \A n \in Known : Extra(n) = 0
    BY PredsType, ExtraIsNat DEF DagInv, NoRepeats
  <2>2. \A n \in Known : ~Sort!Free(n)
    BY <1>3, <2>1 DEF FreeAfter
  <2> QED  BY <2>2 DEF Sort!Stuck
<1>5. CASE Out = Known
  <2>1. result' = "ok"
    BY <1>5
  <2> QED  BY <1>1, <1>2, <1>3, <1>5, <2>1 DEF Sort!Sorted
<1>6. CASE Out # Known
  <2>1. result' = "cycle" /\ op' = op
    BY <1>6
  <2> QED  BY <1>1, <1>2, <1>3, <1>4, <1>6, <2>1 DEF Sort!Cycle
<1> QED  BY <1>5, <1>6

LEMMA PopEmits ==
  ASSUME DagInv, Pop
  PROVE  Sort!Emit
<1> DEFINE h == Head(ready)
<1>1. /\ TypeOK /\ Kahn /\ layers = <<>> /\ op \in Sorts /\ op # "layers" /\ Out = ToSet(order)
  BY IsSorting DEF DagInv, Pop, Sorts, Out
<1>2. /\ ready # <<>> /\ result = "running" /\ result' = "running"
      /\ order' = Append(order, h) /\ op' = op /\ layers' = layers /\ UNCHANGED graph
  BY DEF Pop, graph
<1>3. h \in Known /\ h \notin Out /\ Preds(h) \subseteq Out
  <2>1. ready \in Seq(Known) /\ ToSet(ready) = FreeAfter(Out)
    BY <1>1 DEF Kahn, TypeOK
  <2>2. h \in FreeAfter(Out)
    BY <1>2, <2>1, SetOfTail
  <2> QED  BY <2>2 DEF FreeAfter
<1> HIDE DEF h
<1>4. order \in Seq(Known) /\ IsInjective(order) /\ h \notin ToSet(order)
  BY <1>1, <1>3 DEF Kahn, TypeOK
<1>5. \A n : PositionIn(order', n) = IF n = h THEN Len(order) + 1 ELSE PositionIn(order, n)
  BY <1>2, <1>3, <1>4, PlacesAppend
<1>6. /\ Len(order') + Len(layers') = (Len(order) + Len(layers)) + 1
      /\ Len(order') + Len(layers') = Len(order) + 1
  BY <1>1, <1>2, <1>3, <1>4, AppendProperties
<1>7. Known' = Known /\ \A n : Preds(n)' = Preds(n)
  BY <1>2, SameGraph
<1>8. {h} \in SUBSET {n \in Known : Sort!Free(n)} /\ {h} # {}
  BY <1>3, SortState
<1>9. [n \in Ids |-> IF op' = "layers" THEN LayerOf(n)' ELSE PositionIn(order', n)] =
        [n \in Ids |-> IF n \in {h} THEN Len(order') + Len(layers') ELSE
                       [m \in Ids |-> IF op = "layers" THEN LayerOf(m)
                                                       ELSE PositionIn(order, m)][n]]
  BY <1>1, <1>2, <1>5, <1>6
<1> QED  BY <1>2, <1>6, <1>7, <1>8, <1>9 DEF Sort!Emit

LEMMA LayerEmits ==
  ASSUME DagInv, NextLayer
  PROVE  Sort!Emit
<1> DEFINE F == NextFrontier
           k == Len(layers)
<1>1. /\ op = "layers" /\ op' = op /\ result = "running" /\ result' = result /\ F # {}
      /\ RelaxLayer /\ layers' = Append(layers, F) /\ order' = order /\ UNCHANGED graph
  BY DEF NextLayer
<1>2. TypeOK /\ Leveled /\ F = FreeAfter(Layered) /\ Out = Layered /\ order = <<>>
  BY <1>1, Frontier DEF DagInv, Out, Calls, Sorts
<1> HIDE DEF F
<1>3. F \in SUBSET Known /\ layers \in Seq(SUBSET Known) /\ Disjoint
  BY <1>2, LeveledDisjoint DEF FreeAfter, TypeOK
<1>4. /\ k \in Nat /\ DOMAIN layers = 1..k /\ Len(layers') = k + 1 /\ DOMAIN layers' = 1..(k + 1)
      /\ layers'[k + 1] = F /\ \A j \in 1..k : layers'[j] = layers[j]
  BY <1>1, <1>3, AppendProperties
<1>5. ASSUME NEW n PROVE LayerOf(n)' = IF n \in F THEN k + 1 ELSE LayerOf(n)
  <2>1. /\ LayerOf(n) # 0 <=> n \in Layered
        /\ \A j \in DOMAIN layers : n \in layers[j] => LayerOf(n) = j
        /\ n \in Layered <=> \E j \in DOMAIN layers : n \in layers[j]
        /\ LayerOf(n) \in Nat
    BY <1>2, <1>3, LayerRanks DEF Layered, ToSet
  <2>2. n \in F => n \notin Layered
    BY <1>2 DEF FreeAfter
  <2>3. \A j \in DOMAIN layers' : InLayer(n, j)' <=> n \in layers'[j]
    BY DEF InLayer
  <2>4. CASE n \in F
    <3>1. \A j \in DOMAIN layers' : InLayer(n, j)' <=> j = k + 1
      BY <1>4, <2>1, <2>2, <2>3, <2>4
    <3> QED  BY <1>4, <2>4, <3>1 DEF LayerOf
  <2>5. CASE n \notin F /\ n \in Layered
    <3>1. PICK j \in DOMAIN layers : n \in layers[j] /\ LayerOf(n) = j
      BY <2>1, <2>5
    <3>2. \A i \in DOMAIN layers' : InLayer(n, i)' <=> i = j
      BY <1>3, <1>4, <2>1, <2>3, <2>5, <3>1 DEF Disjoint
    <3>3. j \in DOMAIN layers'
      BY <1>4, <3>1
    <3> QED  BY <2>5, <3>1, <3>2, <3>3 DEF LayerOf
  <2>6. CASE n \notin F /\ n \notin Layered
    <3>1. \A i \in DOMAIN layers' : ~InLayer(n, i)'
      BY <1>4, <2>1, <2>3, <2>6
    <3> QED  BY <2>1, <2>6, <3>1 DEF LayerOf
  <2> QED  BY <2>4, <2>5, <2>6
<1>6. /\ Len(order') + Len(layers') = (Len(order) + Len(layers)) + 1
      /\ Len(order') + Len(layers') = k + 1
  BY <1>1, <1>2, <1>4
<1>7. Known' = Known /\ \A n : Preds(n)' = Preds(n)
  BY <1>1, SameGraph
<1>8. F \in SUBSET {n \in Known : Sort!Free(n)}
  BY <1>2, <1>3, SortState DEF FreeAfter
<1>9. [n \in Ids |-> IF op' = "layers" THEN LayerOf(n)' ELSE PositionIn(order', n)] =
        [n \in Ids |-> IF n \in F THEN Len(order') + Len(layers') ELSE
                       [m \in Ids |-> IF op = "layers" THEN LayerOf(m)
                                                       ELSE PositionIn(order, m)][n]]
  BY <1>1, <1>5, <1>6
<1> QED  BY <1>1, <1>6, <1>7, <1>8, <1>9 DEF Sort!Emit

LEMMA StepSorts ==
  ASSUME DagInv, DagInv', NoRepeats, [Next]_vars
  PROVE  [Sort!Next]_(Sort!vars)
<1> USE DEF Sort!Next
<1>1. ASSUME NEW n \in Ids, NEW list \in DepLists, Add(n, list) PROVE Sort!Edit
  <2>1. /\ result # "running" /\ order' = <<>> /\ layers' = <<>>
        /\ result' \in {"none", "duplicate"}
    BY <1>1 DEF Add, Clear
  <2> QED  BY <2>1, Edits
<1>2. CASE TopologicalOrder \/ Layers
  <2>1. /\ result # "running" /\ order' = <<>> /\ layers' = <<>> /\ result' = "running"
        /\ UNCHANGED graph
    BY <1>2 DEF TopologicalOrder, StartOrder, Layers, Clear
  <2> QED  BY <2>1, BeginsSort
<1>3. CASE Validate
  <2>1. CASE Bads = {}
    <3>1. /\ result # "running" /\ order' = <<>> /\ layers' = <<>> /\ result' = "running"
          /\ UNCHANGED graph
      BY <1>3, <2>1 DEF Validate, StartOrder
    <3> QED  BY <3>1, BeginsSort
  <2>2. CASE Bads # {}
    <3>1. /\ result # "running" /\ order' = <<>> /\ layers' = <<>>
          /\ result' \in {"missing", "cycle"} /\ op' = "validate" /\ UNCHANGED graph
      BY <1>3, <2>2 DEF Validate, Clear
    <3>2. Bads' # {}
      BY <2>2, <3>1, SameGraph
    <3> QED  BY <3>1, <3>2, Edits
  <2> QED  BY <2>1, <2>2
<1>4. CASE Pop
  BY <1>4, PopEmits
<1>5. CASE NextLayer
  BY <1>5, LayerEmits
<1>6. CASE EndOrder
  <2>1. /\ TypeOK /\ Kahn /\ (op = "validate" => Bads = {}) /\ Out = ToSet(order)
    BY <1>6, IsSorting DEF DagInv, EndOrder, Sorts, Out
  <2>2. /\ result = "running" /\ ready = <<>> /\ UNCHANGED <<graph, op, order, layers>>
        /\ result' = IF Out = Known THEN "ok" ELSE "cycle"
    BY <1>6, <2>1, AllMeansEvery DEF EndOrder
  <2>3. FreeAfter(Out) = {}
    BY <2>1, <2>2, EmptyList DEF Kahn
  <2> QED  BY <2>1, <2>2, <2>3, EndsSort
<1>7. CASE EndLayers
  <2>1. /\ op = "layers" /\ result = "running" /\ NextFrontier = {} /\ RelaxLayer
        /\ Out = Layered /\ UNCHANGED <<graph, op, order, layers>>
        /\ result' = IF Out = Known THEN "ok" ELSE "cycle"
    BY <1>7 DEF EndLayers, Out
  <2>2. FreeAfter(Out) = {}
    BY <2>1, Frontier
  <2> QED  BY <2>1, <2>2, EndsSort
<1>8. CASE UNCHANGED vars
  <2>1. Known' = Known /\ Bads' = Bads /\ \A n : Preds(n)' = Preds(n)
    BY <1>8, SameGraph DEF vars, graph
  <2>2. \A n : LayerOf(n)' = LayerOf(n) /\ PositionIn(order, n)' = PositionIn(order, n)
    BY <1>8 DEF LayerOf, InLayer, vars
  <2> QED  BY <1>8, <2>1, <2>2 DEF Sort!vars, vars
<1> QED  BY <1>1, <1>2, <1>3, <1>4, <1>5, <1>6, <1>7, <1>8 DEF Next, Work

(* Step by step both algorithms, and validate's use of one, do what a      *)
(* topological sort may do: take out nodes whose predecessors are out, say *)
(* `sorted' when all are, and `cycle' when no more can be (dag.py:94-104,  *)
(* 120-132).  That they come to an end is left to the runs.                *)
THEOREM SortsSafely ==
  ASSUME \A s \in DepLists : IsInjective(s)
  PROVE  Spec => Sort!Init /\ [][Sort!Next]_(Sort!vars)
<1>1. Init => Sort!Init
  BY InitSorts
<1>2. Init => NoRepeats
  BY NoRepeatsInv
<1>3. DagInv /\ NoRepeats /\ [Next]_vars => NoRepeats'
  BY NoRepeatsInv
<1>4. DagInv /\ DagInv' /\ NoRepeats /\ [Next]_vars => [Sort!Next]_(Sort!vars)
  BY StepSorts
<1> QED  BY <1>1, <1>2, <1>3, <1>4, DagInvariance, PTL DEF Spec
=============================================================================

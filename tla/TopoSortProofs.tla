--------------------------- MODULE TopoSortProofs ---------------------------
(***************************************************************************)
(* A topological sort sorts exactly the graphs without cycles.  Whatever   *)
(* the size of the graph, a graph that was sorted is one that the engine   *)
(* assumes: every set of nodes has one that depends on none of the others, *)
(* the one that was emitted first.                                         *)
(***************************************************************************)
EXTENDS TopoSort, TLAPS, WellFoundedInduction

TypeOK ==
  /\ input \in Inputs
  /\ rank \in [Ids -> Nat]
  /\ clock \in Nat
  /\ verdict \in {"none", "sorting", "sorted", "cycle"}

Verdicts ==
  /\ \A n \in Ids : rank[n] <= clock
  /\ verdict = "sorted" => Emitted = input.nodes
  /\ verdict = "cycle"  => Emitted # input.nodes /\ \A n \in input.nodes : ~Free(n)

Inv == TypeOK /\ Ordered /\ Verdicts

(* A nonempty set of numbers has a least one.                              *)
LEMMA Least ==
  ASSUME NEW T \in SUBSET Nat, T # {}
  PROVE  \E x \in T : \A y \in T : x <= y
<1>1. PICK x \in T : \A y \in T : ~(<<y, x>> \in OpToRel(<, Nat))
  BY NatLessThanWellFounded, WFMin
<1>2. \A y \in T : ~(y < x)
  BY <1>1 DEF OpToRel
<1> QED  BY <1>2

LEMMA InitInv == Init => Inv
BY DEF Inputs, Init, Inv, TypeOK, Ordered, Verdicts, Emitted

LEMMA NextInv == Inv /\ [Next]_vars => Inv'
<1> SUFFICES ASSUME Inv, [Next]_vars PROVE Inv'
  OBVIOUS
<1> USE DEF Inv, TypeOK
<1>a. input.nodes \subseteq Ids /\ \A n \in input.nodes : input.preds[n] \subseteq input.nodes
  BY DEF Inputs
<1>1. CASE Edit \/ Begin
  <2>1. input' \in Inputs /\ input'.nodes \subseteq Ids
    BY <1>1 DEF Edit, Begin, Inputs
  <2>2. rank' = [n \in Ids |-> 0] /\ clock' = 0 /\ verdict' \in {"none", "sorting"}
    BY <1>1 DEF Edit, Begin, Clear
  <2> QED  BY <2>1, <2>2 DEF Ordered, Verdicts, Emitted
<1>2. CASE Emit
  <2>1. PICK S \in SUBSET {n \in input.nodes : Free(n)} :
          rank' = [n \in Ids |-> IF n \in S THEN clock' ELSE rank[n]]
    BY <1>2 DEF Emit
  <2>2. clock' = clock + 1 /\ UNCHANGED <<input, verdict>> /\ verdict = "sorting"
    BY <1>2 DEF Emit
  <2>3. TypeOK' /\ Verdicts'
    BY <2>1, <2>2 DEF Verdicts
  <2>4. Emitted' = Emitted \cup S
    BY <1>a, <2>1, <2>2 DEF Emitted, Free
  <2>5. ASSUME NEW n \in Emitted', NEW p \in input.preds[n]
        PROVE  p \in Emitted' /\ rank'[p] < rank'[n]
    <3>1. CASE n \in S
      <4>1. p \in Emitted /\ p \in Ids /\ p \notin S /\ n \in Ids
        BY <1>a, <3>1, <2>5 DEF Free, Emitted
      <4> QED  BY <4>1, <3>1, <2>1, <2>2, <2>4 DEF Verdicts
    <3>2. CASE n \notin S
      <4>1. n \in Emitted /\ p \in Emitted /\ rank[p] < rank[n]
        BY <2>4, <3>2, <2>5 DEF Ordered
      <4>2. p \notin S /\ p \in Ids /\ n \in Ids
        BY <1>a, <4>1 DEF Emitted, Free
      <4> QED  BY <4>1, <4>2, <3>2, <2>1, <2>4
    <3> QED  BY <3>1, <3>2
  <2>6. Ordered'
    BY <2>2, <2>5 DEF Ordered
  <2> QED  BY <2>3, <2>6
<1>3. CASE Sorted \/ Cycle
  BY <1>3 DEF Sorted, Cycle, Stuck, Ordered, Verdicts, Emitted, Free
<1>4. CASE UNCHANGED vars
  BY <1>4 DEF vars, Ordered, Verdicts, Emitted, Free
<1> QED  BY <1>1, <1>2, <1>3, <1>4 DEF Next

(* When all is emitted, the first of any set to come out depends on none   *)
(* of the set.                                                             *)
LEMMA AllEmittedIsAcyclic ==
  ASSUME Inv, Emitted = input.nodes
  PROVE  ~HasCycle
<1> SUFFICES ASSUME NEW S \in SUBSET input.nodes, S # {},
                    \A n \in S : input.preds[n] \cap S # {}
             PROVE  FALSE
  BY DEF HasCycle
<1> DEFINE Ranks == {rank[n] : n \in S}
<1>1. Ranks \in SUBSET Nat /\ Ranks # {}
  BY DEF Inv, TypeOK, Inputs
<1>2. PICK r \in Ranks : \A q \in Ranks : r <= q
  BY <1>1, Least
<1>3. PICK n \in S : rank[n] = r
  BY <1>2
<1>4. PICK p \in input.preds[n] : p \in S
  OBVIOUS
<1>5. rank[p] < rank[n]
  BY <1>4 DEF Inv, Ordered
<1>6. rank[n] <= rank[p]
  BY <1>2, <1>3, <1>4
<1>7. rank[n] \in Nat /\ rank[p] \in Nat
  BY <1>1, <1>4
<1> QED  BY <1>5, <1>6, <1>7

(* What is emitted comes after everything it depends on.                   *)
THEOREM EmitsInOrder == Spec => []Ordered
<1>1. Init => Inv  BY InitInv
<1>2. Inv /\ [Next]_vars => Inv'  BY NextInv
<1>3. Inv => Ordered  BY DEF Inv
<1> QED  BY <1>1, <1>2, <1>3, PTL DEF Spec

(* A sorted graph has no cycle, and one that was given up has one: the     *)
(* nodes that are left each depend on another of them.                     *)
THEOREM SortsExactlyDags == Spec => []VerdictIsRight
<1>1. Init => Inv  BY InitInv
<1>2. Inv /\ [Next]_vars => Inv'  BY NextInv
<1>3. ASSUME Inv, verdict = "cycle" PROVE HasCycle
  <2> DEFINE Left == input.nodes \ Emitted
  <2>1. Left # {} /\ Left \in SUBSET input.nodes
    BY <1>3 DEF Inv, Verdicts, Emitted
  <2>2. \A n \in Left : input.preds[n] \cap Left # {}
    BY <1>3 DEF Inv, TypeOK, Verdicts, Free, Inputs
  <2> QED  BY <2>1, <2>2 DEF HasCycle
<1>4. Inv => VerdictIsRight
  BY <1>3, AllEmittedIsAcyclic DEF Inv, Verdicts, VerdictIsRight
<1> QED  BY <1>1, <1>2, <1>4, PTL DEF Spec
=============================================================================

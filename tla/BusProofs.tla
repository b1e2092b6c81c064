----------------------------- MODULE BusProofs ------------------------------
(***************************************************************************)
(* Proofs about EventBus: for any handlers, publishers and number of       *)
(* events and subscriptions, the bus keeps its types and the tracker is    *)
(* never behind.                                                           *)
(***************************************************************************)
EXTENDS EventBus, WellFoundedInduction, SequenceTheorems,
        FiniteSetTheorems, FunctionTheorems, TLAPS

USE BusAssumption

-----------------------------------------------------------------------------
(***************************************************************************)
(* Sequences that lose an element.                                         *)
(***************************************************************************)
(* The least of some numbers is one of them.                               *)
LEMMA MinIsElement ==
  ASSUME NEW S \in SUBSET Nat, S # {}
  PROVE  Min(S) \in S /\ \A i \in S : Min(S) <= i
<1> DEFINE R == {ss \in Nat \X Nat : ss[1] < ss[2]}
<1>1. IsWellFoundedOn(R, Nat)
  BY NatLessThanWellFounded, Zenon DEF OpToRel
<1> HIDE DEF R
<1>2. PICK m \in S : \A i \in S : ~(<<i, m>> \in R)
  BY <1>1, WFMin, Zenon
<1>3. ASSUME NEW i \in S PROVE m <= i
  <2>1. i < m => <<i, m>> \in R
    BY SMT DEF R
  <2> QED BY <2>1, <1>2
<1> QED BY <1>3 DEF Min

(* Removing an element shifts those behind it.                             *)
LEMMA RemoveAtProperties ==
  ASSUME NEW S, NEW s \in Seq(S), NEW k \in 1..Len(s)
  PROVE  /\ RemoveAt(s, k) \in Seq(S) /\ Len(RemoveAt(s, k)) = Len(s) - 1
         /\ \A i \in 1..(Len(s) - 1) : RemoveAt(s, k)[i] = s[IF i < k THEN i ELSE i + 1]
<1> DEFINE l == SubSeq(s, 1, k - 1)
           r == SubSeq(s, k + 1, Len(s))
<1>1. RemoveAt(s, k) = l \o r
  BY DEF RemoveAt
<1>2. /\ l \in Seq(S) /\ Len(l) = k - 1
      /\ \A i \in 1..(k - 1) : l[i] = s[i]
  BY SubSeqProperties
<1>3. /\ r \in Seq(S) /\ Len(r) = Len(s) - k
      /\ \A i \in 1..(Len(s) - k) : r[i] = s[k + i]
  BY SubSeqProperties
<1> HIDE DEF l, r
<1>4. l \o r \in Seq(S) /\ Len(l \o r) = Len(s) - 1
  <2>1. l \in Seq(S) /\ r \in Seq(S)
    BY <1>2, <1>3
  <2>2. l \o r \in Seq(S)
    BY <2>1, ConcatProperties, Zenon
  <2>3. Len(l \o r) = Len(l) + Len(r)
    BY <2>1, ConcatProperties, Zenon
  <2> QED BY <1>2, <1>3, <2>2, <2>3
<1>5. ASSUME NEW i \in 1..(Len(s) - 1)
      PROVE  (l \o r)[i] = s[IF i < k THEN i ELSE i + 1]
  <2>1. (l \o r)[i] = IF i <= Len(l) THEN l[i] ELSE r[i - Len(l)]
    BY <1>2, <1>3, <1>4, ConcatProperties
  <2>2. CASE i < k
    BY <1>2, <1>4, <2>1, <2>2
  <2>3. CASE ~(i < k)
    <3>1. i >= k
      BY <2>3
    <3> QED BY <1>2, <1>3, <1>4, <2>1, <3>1
  <2> QED BY <2>2, <2>3
<1> QED BY <1>1, <1>4, <1>5

(* Removing the first occurrence of an element that is not the first.      *)
LEMMA RemoveFirstKeepsHead ==
  ASSUME NEW S, NEW s \in Seq(S), NEW e \in S, s # <<>>, s[1] # e
  PROVE  /\ RemoveFirst(s, e) \in Seq(S)
         /\ RemoveFirst(s, e) # <<>> /\ RemoveFirst(s, e)[1] = s[1]
         /\ \A i \in DOMAIN RemoveFirst(s, e) : i > 1 =>
              \E j \in DOMAIN s : j > 1 /\ RemoveFirst(s, e)[i] = s[j]
<1>1. CASE ~ \E i \in 1..Len(s) : s[i] = e
  BY <1>1 DEF RemoveFirst
<1>2. CASE \E i \in 1..Len(s) : s[i] = e
  <2> DEFINE I == {i \in 1..Len(s) : s[i] = e}
             k == Min(I)
             t == RemoveAt(s, k)
  <2>1. k \in I
    <3>1. I \in SUBSET Nat /\ I # {}
      BY <1>2
    <3> QED BY <3>1, MinIsElement
  <2>2. k \in 1..Len(s) /\ k > 1
    BY <2>1
  <2>3. RemoveFirst(s, e) = t
    BY <1>2 DEF RemoveFirst, SelectInSeq
  <2> HIDE DEF k
  <2>4. /\ t \in Seq(S) /\ Len(t) = Len(s) - 1
        /\ \A i \in 1..(Len(s) - 1) : t[i] = s[IF i < k THEN i ELSE i + 1]
    BY <2>2, RemoveAtProperties
  <2> HIDE DEF t
  <2>5. t # <<>> /\ t[1] = s[1]
    BY <2>2, <2>4
  <2>6. ASSUME NEW i \in 1..Len(t), i > 1
        PROVE  \E j \in DOMAIN s : j > 1 /\ t[i] = s[j]
    <3> DEFINE j == IF i < k THEN i ELSE i + 1
    <3>1. j \in DOMAIN s /\ j > 1
      BY <2>2, <2>4, <2>6
    <3> QED BY <3>1, <2>4
  <2> QED BY <2>3, <2>4, <2>5, <2>6
<1> QED BY <1>1, <1>2

-----------------------------------------------------------------------------
(***************************************************************************)
(* Where a value stands in a sequence, and how often.                      *)
(***************************************************************************)
Places(s, x) == {i \in DOMAIN s : s[i] = x}

(* They are finitely many.                                                 *)
LEMMA PlacesFinite ==
  ASSUME NEW S, NEW s \in Seq(S), NEW x
  PROVE  /\ Places(s, x) \subseteq 1..Len(s) /\ IsFiniteSet(Places(s, x))
         /\ Cardinality(Places(s, x)) \in Nat
<1>1. Places(s, x) \subseteq 1..Len(s)
  BY DEF Places
<1>2. IsFiniteSet(1..Len(s))
  BY FS_Interval
<1>3. IsFiniteSet(Places(s, x))
  BY <1>1, <1>2, FS_Subset
<1> QED BY <1>1, <1>3, FS_CardinalityType

(* One more stands at the end.                                             *)
LEMMA PlacesAppend ==
  ASSUME NEW S, NEW s \in Seq(S), NEW y \in S, NEW x
  PROVE  /\ Places(Append(s, y), x) = Places(s, x) \cup (IF x = y THEN {Len(s) + 1} ELSE {})
         /\ Cardinality(Places(Append(s, y), x)) =
              Cardinality(Places(s, x)) + (IF x = y THEN 1 ELSE 0)
<1> DEFINE P == Places(s, x)
           n == Len(s) + 1
<1>1. /\ Append(s, y) \in Seq(S) /\ Len(Append(s, y)) = n
      /\ Append(s, y)[n] = y /\ \A i \in 1..Len(s) : Append(s, y)[i] = s[i]
  BY AppendProperties
<1>2. Places(Append(s, y), x) = P \cup (IF x = y THEN {n} ELSE {})
  <2>1. DOMAIN Append(s, y) = 1..Len(s) \cup {n}
    BY <1>1
  <2> QED BY <1>1, <2>1 DEF Places
<1>3. IsFiniteSet(P) /\ n \notin P /\ Cardinality(P) \in Nat
  BY PlacesFinite
<1> HIDE DEF P
<1>4. Cardinality(P \cup {n}) = Cardinality(P) + 1
  BY <1>3, FS_AddElement
<1>5. CASE x = y
  BY <1>2, <1>4, <1>5 DEF P
<1>6. CASE x # y
  <2>1. Places(Append(s, y), x) = P
    BY <1>2, <1>6
  <2> QED BY <1>3, <1>6, <2>1 DEF P
<1> QED BY <1>5, <1>6

(* Without one place, the others are as many as they were.                 *)
LEMMA PlacesRemoveAt ==
  ASSUME NEW S, NEW s \in Seq(S), NEW k \in 1..Len(s), NEW x
  PROVE  Cardinality(Places(RemoveAt(s, k), x)) = Cardinality(Places(s, x) \ {k})
<1> DEFINE t == RemoveAt(s, k)
           A == Places(t, x)
           B == Places(s, x) \ {k}
           f == [i \in A |-> IF i < k THEN i ELSE i + 1]
<1>1. /\ t \in Seq(S) /\ Len(t) = Len(s) - 1
      /\ \A i \in 1..(Len(s) - 1) : t[i] = s[IF i < k THEN i ELSE i + 1]
  BY RemoveAtProperties
<1> HIDE DEF t
<1>2. A \subseteq 1..(Len(s) - 1) /\ IsFiniteSet(A)
  BY <1>1, PlacesFinite
<1>3. f \in [A -> B]
  BY <1>1, <1>2 DEF Places
<1>4. \A i, j \in A : f[i] = f[j] => i = j
  BY <1>2
<1>5. \A j \in B : \E i \in A : f[i] = j
  <2> SUFFICES ASSUME NEW j \in B PROVE \E i \in A : f[i] = j
    OBVIOUS
  <2>1. j \in 1..Len(s) /\ j # k /\ s[j] = x
    BY DEF Places
  <2>2. CASE j < k
    <3>1. j \in A
      BY <1>1, <2>1, <2>2 DEF Places
    <3> QED BY <2>2, <3>1
  <2>3. CASE j > k
    <3>1. j - 1 \in 1..(Len(s) - 1) /\ ~(j - 1 < k) /\ (j - 1) + 1 = j
      BY <2>1, <2>3
    <3>2. t[j - 1] = s[j] /\ j - 1 \in DOMAIN t
      BY <1>1, <3>1
    <3>3. j - 1 \in A
      BY <2>1, <3>2 DEF Places
    <3> QED BY <3>1, <3>3
  <2> QED BY <2>1, <2>2, <2>3
<1> HIDE DEF A, B, f
<1>6. f \in Bijection(A, B)
  BY <1>3, <1>4, <1>5, Fun_IsBij
<1>7. ExistsBijection(A, B)
  BY <1>6 DEF ExistsBijection
<1>8. Cardinality(B) = Cardinality(A)
  BY <1>2, <1>7, FS_Bijection
<1> QED BY <1>8 DEF A, B, t

(* Removing the first occurrence of e, if there is one, takes one place of *)
(* e and none of the others.                                               *)
LEMMA PlacesRemoveFirst ==
  ASSUME NEW S, NEW s \in Seq(S), NEW e \in S, NEW x
  PROVE  Cardinality(Places(RemoveFirst(s, e), x)) =
           IF x = e /\ Places(s, e) # {} THEN Cardinality(Places(s, x)) - 1
                                         ELSE Cardinality(Places(s, x))
<1>1. CASE Places(s, e) = {}
  <2>1. RemoveFirst(s, e) = s
    BY <1>1 DEF RemoveFirst, Places
  <2> QED BY <1>1, <2>1
<1>2. CASE Places(s, e) # {}
  <2> DEFINE k == Min(Places(s, e))
  <2>1. Places(s, e) \in SUBSET Nat
    BY PlacesFinite
  <2>2. k \in Places(s, e)
    BY <1>2, <2>1, MinIsElement
  <2>3. k \in 1..Len(s) /\ s[k] = e
    BY <2>2 DEF Places
  <2>4. RemoveFirst(s, e) = RemoveAt(s, k)
    <3>1. Places(s, e) = {i \in 1..Len(s) : s[i] = e}
      BY DEF Places
    <3>2. \E i \in 1..Len(s) : s[i] = e
      BY <1>2, <3>1
    <3> QED BY <3>1, <3>2 DEF RemoveFirst, SelectInSeq
  <2> HIDE DEF k
  <2>5. Cardinality(Places(RemoveFirst(s, e), x)) = Cardinality(Places(s, x) \ {k})
    BY <2>3, <2>4, PlacesRemoveAt
  <2>6. k \in Places(s, x) <=> x = e
    BY <2>3 DEF Places
  <2>7. Cardinality(Places(s, x) \ {k}) =
          IF k \in Places(s, x) THEN Cardinality(Places(s, x)) - 1 ELSE Cardinality(Places(s, x))
    BY PlacesFinite, FS_RemoveElement
  <2> QED BY <1>2, <2>5, <2>6, <2>7
<1> QED BY <1>1, <1>2

-----------------------------------------------------------------------------
(***************************************************************************)
(* The inductive invariant.  The tracker has the first place, and no       *)
(* other, in the list and in every copy of it; who awaits a handler is     *)
(* past the first place, because the tracker is not awaited; and the only  *)
(* event the tracker may lack is the last one, whose publisher has the     *)
(* loop and calls the first handler next.                                  *)
(***************************************************************************)
OnlyFirst(s) ==
  s # <<>> /\ s[1] = Tracker /\ \A i \in DOMAIN s : i > 1 => s[i] # Tracker

TrackerFirst ==
  /\ OnlyFirst(handlers)
  /\ \A p \in Publishers : pub[p].at # "idle" => OnlyFirst(pub[p].list)

AwaitsOther == \A p \in Publishers : pub[p].at = "awaiting" => pub[p].next > 1

UpTo(n) == [i \in 1..n |-> i]

Begun(p) == pub[p].next = 1 /\ pub[p].event = Len(events)

TrackerHears ==
  \/ /\ \A p \in Publishers : turn = p => pub[p].next > 1
     /\ heard[Tracker] = UpTo(Len(events))
  \/ \E p \in Publishers :
       turn = p /\ Begun(p) /\ heard[Tracker] = UpTo(Len(events) - 1)

BusInv == BusTypeOK /\ TrackerFirst /\ AwaitsOther /\ TrackerHears

-----------------------------------------------------------------------------
(***************************************************************************)
(* The number of subscriptions of a handler is one.                        *)
(***************************************************************************)
LEMMA SubscribedIsNat ==
  ASSUME tokens \in Seq([handler : Handlers, open : BOOLEAN]), NEW h \in Handlers
  PROVE  Subscribed(h) \in Nat
<1> DEFINE T == {t \in DOMAIN tokens : tokens[t] = [handler |-> h, open |-> TRUE]}
<1>1. IsFiniteSet(1..Len(tokens))
  BY FS_Interval
<1>2. T \subseteq 1..Len(tokens)
  OBVIOUS
<1>3. IsFiniteSet(T)
  BY <1>1, <1>2, FS_Subset
<1> QED BY <1>3, FS_CardinalityType DEF Subscribed

LEMMA InitBus == BusInit => BusInv
<1> SUFFICES ASSUME BusInit PROVE BusInv
  OBVIOUS
<1>1. BusTypeOK
  <2>1. handlers \in Seq(Handlers) /\ tokens \in Seq([handler : Handlers, open : BOOLEAN])
        /\ Len(tokens) <= MaxTokens
    BY DEF BusInit
  <2>2. events \in Seq(EventRecord) /\ Len(events) <= MaxEvents
    BY DEF BusInit
  <2>3. Idle \in PubState
    BY DEF Idle, NoEvent, PubState
  <2>4. pub \in [Publishers -> PubState] /\ \A p \in Publishers : pub[p].at = "idle"
    BY <2>3 DEF BusInit, Idle
  <2>5. heard \in [Handlers -> Seq(DOMAIN events)]
    BY DEF BusInit
  <2> QED BY <2>1, <2>2, <2>4, <2>5 DEF BusInit, BusTypeOK
<1>2. TrackerFirst /\ AwaitsOther
  BY DEF BusInit, TrackerFirst, OnlyFirst, AwaitsOther, Idle
<1>3. TrackerHears
  BY DEF BusInit, TrackerHears, UpTo, Idle
<1> QED BY <1>1, <1>2, <1>3 DEF BusInv

LEMMA SubscribeKeeps ==
  ASSUME BusInv, NEW h \in Handlers \ {Tracker}, Subscribe(h)
  PROVE  BusInv'
<1>1. BusTypeOK'
  BY DEF BusInv, BusTypeOK, Subscribe, Added
<1>2. OnlyFirst(handlers')
  <2>1. handlers \in Seq(Handlers) /\ OnlyFirst(handlers) /\ handlers' = Append(handlers, h)
    BY DEF BusInv, BusTypeOK, TrackerFirst, Subscribe, Added
  <2> QED BY <2>1, AppendProperties DEF OnlyFirst
<1>3. TrackerFirst' /\ AwaitsOther' /\ TrackerHears'
  BY <1>2 DEF BusInv, TrackerFirst, AwaitsOther, TrackerHears, Begun, OnlyFirst, Subscribe
<1> QED BY <1>1, <1>3 DEF BusInv

LEMMA UnsubscribeKeeps ==
  ASSUME BusInv, NEW t \in DOMAIN tokens, Unsubscribe(t)
  PROVE  BusInv'
<1> DEFINE h == tokens[t].handler
<1>1. BusTypeOK
  BY DEF BusInv
<1>2. /\ handlers \in Seq(Handlers) /\ handlers # <<>> /\ handlers[1] = Tracker
      /\ \A i \in DOMAIN handlers : i > 1 => handlers[i] # Tracker
  BY <1>1 DEF BusInv, BusTypeOK, TrackerFirst, OnlyFirst
<1>3. tokens[t] \in [handler : Handlers, open : BOOLEAN] /\ h \in Handlers
  <2>1. tokens[t] \in [handler : Handlers, open : BOOLEAN]
    <3>1. tokens \in Seq([handler : Handlers, open : BOOLEAN]) /\ t \in 1..Len(tokens)
      BY <1>1 DEF BusTypeOK
    <3> QED BY <3>1, ElementOfSeq, Zenon
  <2> QED BY <2>1 DEF h
<1>4. h # Tracker /\ handlers' = RemoveFirst(handlers, h)
  BY DEF Unsubscribe, Without
<1> HIDE DEF h
<1>5. handlers' \in Seq(Handlers) /\ OnlyFirst(handlers')
  BY <1>2, <1>3, <1>4, RemoveFirstKeepsHead DEF OnlyFirst
<1>6. /\ tokens' \in Seq([handler : Handlers, open : BOOLEAN]) /\ Len(tokens') = Len(tokens)
      /\ robbed' \subseteq Handlers
  <2>1. tokens' = [tokens EXCEPT ![t] = [tokens[t] EXCEPT !.open = FALSE]]
    BY DEF Unsubscribe
  <2>2. [tokens[t] EXCEPT !.open = FALSE] \in [handler : Handlers, open : BOOLEAN]
    BY <1>3
  <2>3. robbed' \subseteq Handlers
    BY <1>1, <1>3 DEF BusTypeOK, Unsubscribe, h
  <2> QED BY <1>1, <2>1, <2>2, <2>3, ExceptSeq DEF BusTypeOK
<1>7. BusTypeOK'
  BY <1>1, <1>5, <1>6 DEF BusTypeOK, Unsubscribe
<1>8. TrackerFirst' /\ AwaitsOther' /\ TrackerHears'
  BY <1>5 DEF BusInv, TrackerFirst, AwaitsOther, TrackerHears, Begun, OnlyFirst, Unsubscribe
<1> QED BY <1>7, <1>8 DEF BusInv

LEMMA PublishKeeps ==
  ASSUME BusInv, NEW p \in Publishers, Publish(p)
  PROVE  BusInv'
<1>1. BusTypeOK
  BY DEF BusInv
<1>2. Len(events') = Len(events) + 1 /\ DOMAIN events' = 1..(Len(events) + 1)
  BY <1>1 DEF BusTypeOK, Publish
<1>3. events' \in Seq(EventRecord)
  BY <1>1, SubscribedIsNat DEF BusTypeOK, Publish, EventRecord
<1>4. heard' \in [Handlers -> Seq(DOMAIN events')]
  BY <1>1, <1>2 DEF BusTypeOK, Publish
<1>5. pub'[p] = [at |-> "calling", event |-> Len(events) + 1, list |-> handlers, next |-> 1]
      /\ \A q \in Publishers \ {p} : pub'[q] = pub[q]
  BY <1>1 DEF BusTypeOK, Publish
<1>6. pub' \in [Publishers -> PubState]
  BY <1>1 DEF BusTypeOK, Publish, PubState
<1>7. BusTypeOK'
  BY <1>1, <1>2, <1>3, <1>4, <1>5, <1>6 DEF BusTypeOK, Publish
<1>8. TrackerFirst' /\ AwaitsOther'
  BY <1>5 DEF BusInv, TrackerFirst, OnlyFirst, AwaitsOther, Publish
<1>9. TrackerHears'
  BY <1>1, <1>2, <1>5 DEF BusInv, BusTypeOK, TrackerHears, Begun, Publish, UpTo
<1> QED BY <1>7, <1>8, <1>9 DEF BusInv

LEMMA DeliverKeeps ==
  ASSUME BusInv, NEW p \in Publishers, Deliver(p)
  PROVE  BusInv'
<1>1. BusTypeOK /\ pub[p] \in PubState /\ pub[p].at = "calling" /\ pub[p].event \in DOMAIN events
  BY DEF BusInv, BusTypeOK, Deliver
<1>2. /\ pub[p].list \in Seq(Handlers) /\ pub[p].next \in 1..Len(pub[p].list)
      /\ Called(p) = pub[p].list[pub[p].next] /\ Called(p) \in Handlers
  BY <1>1 DEF Deliver, Exhausted, Called, PubState
<1>3. Called(p) = Tracker <=> pub[p].next = 1
  BY <1>1, <1>2 DEF BusInv, TrackerFirst, OnlyFirst
<1>4. /\ \A q \in Publishers \ {p} : pub'[q] = pub[q]
      /\ pub' \in [Publishers -> PubState]
      /\ pub'[p].event = pub[p].event /\ pub'[p].list = pub[p].list
      /\ IF Called(p) \in Async
         THEN pub'[p].at = "awaiting" /\ pub'[p].next = pub[p].next /\ turn' = Nobody
         ELSE pub'[p].at = "calling" /\ pub'[p].next = pub[p].next + 1 /\ turn' = p
  <2>1. pub \in [Publishers -> PubState] /\ turn = p
    BY <1>1 DEF BusTypeOK, Deliver
  <2>2. CASE Called(p) \in Async
    <3>1. pub' = [pub EXCEPT ![p].at = "awaiting"] /\ turn' = Nobody
      BY <2>2 DEF Deliver
    <3> QED BY <2>1, <2>2, <3>1 DEF PubState
  <2>3. CASE Called(p) \notin Async
    <3>1. pub' = [pub EXCEPT ![p].next = @ + 1] /\ turn' = turn
      BY <2>3 DEF Deliver
    <3>2. pub[p].next + 1 \in Nat \ {0}
      BY <1>2
    <3> QED BY <1>1, <2>1, <2>3, <3>1, <3>2 DEF PubState
  <2> QED BY <2>2, <2>3
<1>5. /\ heard' \in [Handlers -> Seq(DOMAIN events)]
      /\ heard'[Tracker] = IF pub[p].next = 1 THEN Append(heard[Tracker], pub[p].event)
                                              ELSE heard[Tracker]
  <2>1. heard \in [Handlers -> Seq(DOMAIN events)] /\ Called(p) \in Handlers
        /\ heard' = [heard EXCEPT ![Called(p)] = Append(@, pub[p].event)]
    BY <1>1, <1>2 DEF BusTypeOK, Deliver
  <2> QED BY <1>1, <1>3, <2>1
<1>6. /\ UNCHANGED <<handlers, tokens, robbed, events>>
      /\ turn' \in Publishers \cup {Nobody}
  BY <1>4 DEF Deliver
<1>7. \A q \in Publishers : turn' = q <=> pub'[q].at = "calling"
  BY <1>1, <1>4 DEF BusTypeOK, Deliver
<1>8. \A q \in Publishers :
        /\ pub'[q].at # "idle" => pub'[q].event \in DOMAIN events
        /\ pub'[q].at = "calling" => pub'[q].next <= Len(pub'[q].list) + 1
        /\ pub'[q].at = "awaiting" => pub'[q].next <= Len(pub'[q].list)
  <2> SUFFICES ASSUME NEW q \in Publishers
               PROVE  /\ pub'[q].at # "idle" => pub'[q].event \in DOMAIN events
                      /\ pub'[q].at = "calling" => pub'[q].next <= Len(pub'[q].list) + 1
                      /\ pub'[q].at = "awaiting" => pub'[q].next <= Len(pub'[q].list)
    OBVIOUS
  <2>1. CASE q = p
    BY <2>1, <1>1, <1>2, <1>4
  <2>2. CASE q # p
    BY <2>2, <1>1, <1>4 DEF BusTypeOK
  <2> QED BY <2>1, <2>2
<1>9. BusTypeOK'
  BY <1>1, <1>4, <1>5, <1>6, <1>7, <1>8 DEF BusTypeOK
<1>10. TrackerFirst' /\ AwaitsOther'
  BY <1>1, <1>2, <1>3, <1>4, <1>6 DEF BusInv, TrackerFirst, OnlyFirst, AwaitsOther
<1>11. \A q \in Publishers : turn' = q => pub'[q].next > 1
  BY <1>2, <1>4
<1>12. heard'[Tracker] = UpTo(Len(events))
  <2>1. CASE pub[p].next = 1
    <3>1. heard[Tracker] = UpTo(Len(events) - 1) /\ pub[p].event = Len(events)
      BY <1>1, <2>1 DEF BusInv, BusTypeOK, TrackerHears, Begun, Deliver
    <3>2. Len(events) \in Nat \ {0}
      BY <1>1 DEF BusTypeOK
    <3> QED BY <1>5, <2>1, <3>1, <3>2 DEF UpTo
  <2>2. CASE pub[p].next > 1
    <3>1. turn = p /\ pub[p].next # 1
      BY <2>2 DEF Deliver
    <3> QED BY <1>5, <3>1 DEF BusInv, TrackerHears, Begun
  <2> QED BY <1>2, <2>1, <2>2
<1> QED BY <1>6, <1>9, <1>10, <1>11, <1>12 DEF BusInv, TrackerHears

LEMMA ResumeKeeps ==
  ASSUME BusInv, NEW p \in Publishers, Resume(p)
  PROVE  BusInv'
<1>1. BusTypeOK /\ pub \in [Publishers -> PubState] /\ pub[p].at = "awaiting" /\ turn = Nobody
      /\ \A q \in Publishers : pub[q].at # "calling"
  BY DEF BusInv, BusTypeOK, Resume
<1>2. /\ \A q \in Publishers \ {p} : pub'[q] = pub[q]
      /\ pub' \in [Publishers -> PubState]
      /\ pub'[p].event = pub[p].event /\ pub'[p].list = pub[p].list
      /\ pub'[p].at = "calling" /\ pub'[p].next = pub[p].next + 1 /\ turn' = p
  BY <1>1 DEF Resume, PubState
<1>3. \A q \in Publishers :
        /\ pub'[q].at # "idle" => pub'[q].event \in DOMAIN events
        /\ pub'[q].at = "calling" => pub'[q].next <= Len(pub'[q].list) + 1
        /\ pub'[q].at = "awaiting" => pub'[q].next <= Len(pub'[q].list)
  <2> SUFFICES ASSUME NEW q \in Publishers
               PROVE  /\ pub'[q].at # "idle" => pub'[q].event \in DOMAIN events
                      /\ pub'[q].at = "calling" => pub'[q].next <= Len(pub'[q].list) + 1
                      /\ pub'[q].at = "awaiting" => pub'[q].next <= Len(pub'[q].list)
    OBVIOUS
  <2>1. pub[p].list \in Seq(Handlers) /\ pub[p].next \in Nat
    BY <1>1 DEF PubState
  <2>2. pub[p].event \in DOMAIN events /\ pub[p].next <= Len(pub[p].list)
    BY <1>1 DEF BusTypeOK
  <2>3. CASE q = p
    BY <2>1, <2>2, <2>3, <1>2
  <2>4. CASE q # p
    BY <2>4, <1>1, <1>2 DEF BusTypeOK
  <2> QED BY <2>3, <2>4
<1>4. \A q \in Publishers : turn' = q <=> pub'[q].at = "calling"
  BY <1>1, <1>2
<1>5. BusTypeOK'
  BY <1>1, <1>2, <1>3, <1>4 DEF BusTypeOK, Resume
<1>6. TrackerFirst' /\ AwaitsOther'
  BY <1>1, <1>2 DEF BusInv, TrackerFirst, OnlyFirst, AwaitsOther, Resume
<1>7. TrackerHears'
  <2>1. \A q \in Publishers : turn' = q => pub'[q].next > 1
    BY <1>1, <1>2 DEF PubState
  <2> QED BY <1>1, <2>1 DEF BusInv, TrackerHears, Resume
<1> QED BY <1>5, <1>6, <1>7 DEF BusInv

(* A publication that is over or was cancelled.                            *)
LEMMA LeaveKeeps ==
  ASSUME BusInv, NEW p \in Publishers, NEW state \in {"over", "cut"},
         pub[p].next > 1, turn \in {p, Nobody}, pub[p].at # "idle",
         events' = [events EXCEPT ![pub[p].event].state = state], Left(p),
         UNCHANGED <<handlers, tokens, robbed, heard>>
  PROVE  BusInv'
<1>1. BusTypeOK /\ pub[p].event \in DOMAIN events
  BY DEF BusInv, BusTypeOK
<1>2. /\ \A q \in Publishers \ {p} : pub'[q] = pub[q]
      /\ pub' \in [Publishers -> PubState] /\ pub'[p].at = "idle" /\ turn' = Nobody
  BY <1>1 DEF BusTypeOK, Left, Idle, NoEvent, PubState
<1>3. events' \in Seq(EventRecord) /\ Len(events') = Len(events)
      /\ DOMAIN events' = DOMAIN events
  <2> DEFINE e == pub[p].event
  <2>1. events[e] \in EventRecord
    BY <1>1 DEF BusTypeOK
  <2>2. [events[e] EXCEPT !.state = state] \in EventRecord
    BY <2>1 DEF EventRecord
  <2>3. events' = [events EXCEPT ![e] = [events[e] EXCEPT !.state = state]]
    OBVIOUS
  <2> HIDE DEF e
  <2> QED BY <1>1, <2>2, <2>3, ExceptSeq DEF BusTypeOK, e
<1>4. \A q \in Publishers : pub'[q].at # "calling"
  BY <1>1, <1>2 DEF BusTypeOK
<1>5. BusTypeOK'
  BY <1>1, <1>2, <1>3, <1>4 DEF BusTypeOK
<1>6. TrackerFirst' /\ AwaitsOther'
  BY <1>2 DEF BusInv, TrackerFirst, OnlyFirst, AwaitsOther
<1>7. heard[Tracker] = UpTo(Len(events))
  BY DEF BusInv, BusTypeOK, TrackerHears, Begun
<1> QED BY <1>2, <1>3, <1>5, <1>6, <1>7 DEF BusInv, TrackerHears

LEMMA FinishKeeps ==
  ASSUME BusInv, NEW p \in Publishers, Finish(p)
  PROVE  BusInv'
<1>1. pub[p].next > 1
  BY DEF BusInv, BusTypeOK, TrackerFirst, OnlyFirst, PubState, Finish, Exhausted
<1>2. pub[p].at # "idle" /\ turn = p
  BY DEF BusInv, BusTypeOK, Finish
<1> QED BY <1>1, <1>2, LeaveKeeps DEF Finish

LEMMA CancelKeeps ==
  ASSUME BusInv, NEW p \in Publishers, Cancel(p)
  PROVE  BusInv'
BY LeaveKeeps DEF BusInv, AwaitsOther, Cancel

LEMMA BusNextKeeps == BusInv /\ [BusNext]_busVars => BusInv'
<1> SUFFICES ASSUME BusInv, [BusNext]_busVars PROVE BusInv'
  OBVIOUS
<1>1. ASSUME NEW h \in Handlers \ {Tracker}, Subscribe(h) PROVE BusInv'
  BY <1>1, SubscribeKeeps
<1>2. ASSUME NEW t \in DOMAIN tokens, Unsubscribe(t) PROVE BusInv'
  BY <1>2, UnsubscribeKeeps
<1>3. ASSUME NEW p \in Publishers, Step(p) PROVE BusInv'
  BY <1>3, PublishKeeps, DeliverKeeps, ResumeKeeps, FinishKeeps, CancelKeeps DEF Step
<1>4. CASE UNCHANGED busVars
  BY <1>4 DEF busVars, BusInv, BusTypeOK, TrackerFirst, OnlyFirst, AwaitsOther,
              TrackerHears, Begun
<1> QED BY <1>1, <1>2, <1>3, <1>4 DEF BusNext

-----------------------------------------------------------------------------
(* The bus keeps its types.                                                *)
THEOREM BusTypeCorrect == BusSpec => []BusTypeOK
<1>1. BusInv => BusTypeOK
  BY DEF BusInv
<1> QED BY InitBus, BusNextKeeps, <1>1, PTL DEF BusSpec

(* Whenever a coroutine other than a publisher can run, the tracker has    *)
(* heard every event, in order, however many handlers come and go and      *)
(* however many publications are under way or cancelled: no subscription   *)
(* is ever put before the first, and it alone is never awaited             *)
(* (events.py:54-64, main.py:165).                                         *)
THEOREM TrackerStaysCurrent == BusSpec => []TrackerIsCurrent
<1>1. BusInv => TrackerIsCurrent
  BY DEF BusInv, BusTypeOK, TrackerHears, TrackerIsCurrent, UpTo
<1> QED BY InitBus, BusNextKeeps, <1>1, PTL DEF BusSpec

-----------------------------------------------------------------------------
(***************************************************************************)
(* What each handler hears.  A handler stands in the list as often as it   *)
(* has open subscriptions, unless it was robbed of one.  Of every event    *)
(* being published, what a handler has heard and the calls still to come   *)
(* from its publisher's copy of the list make up what it was due; an event *)
(* is being published by one publisher as long as it is open.              *)
(***************************************************************************)
Open(h) == {t \in DOMAIN tokens : tokens[t] = [handler |-> h, open |-> TRUE]}

ListMatches ==
  \A h \in Handlers \ robbed : Cardinality(Places(handlers, h)) = Cardinality(Open(h))

NextCall(p)   == IF pub[p].at = "awaiting" THEN pub[p].next + 1 ELSE pub[p].next
StillDue(p, h) == {i \in Places(pub[p].list, h) : i >= NextCall(p)}

Publications ==
  \A p \in Publishers : pub[p].at # "idle" =>
    LET e == pub[p].event IN
    /\ events[e].state = "open"
    /\ \A q \in Publishers \ {p} : pub[q].at # "idle" => pub[q].event # e
    /\ \A h \in Handlers \ events[e].robbed :
         Cardinality(Places(heard[h], e)) + Cardinality(StillDue(p, h)) = events[e].due[h]

Ended ==
  \A e \in DOMAIN events :
    /\ events[e].state = "open" => \E p \in Publishers : pub[p].at # "idle" /\ pub[p].event = e
    /\ \A h \in Handlers \ events[e].robbed :
         /\ events[e].state = "over" => Cardinality(Places(heard[h], e)) = events[e].due[h]
         /\ events[e].state = "cut"  => Cardinality(Places(heard[h], e)) <= events[e].due[h]

HInv == BusInv /\ ListMatches /\ Publications /\ Ended

(* The numbers are numbers.                                                *)
LEMMA Counts ==
  ASSUME BusTypeOK
  PROVE  /\ \A h \in Handlers :
              /\ Places(handlers, h) \subseteq 1..Len(handlers)
              /\ Cardinality(Places(handlers, h)) \in Nat
         /\ \A h \in Handlers : IsFiniteSet(Open(h)) /\ Cardinality(Open(h)) \in Nat
         /\ \A h \in Handlers : \A e \in Nat : Cardinality(Places(heard[h], e)) \in Nat
         /\ \A p \in Publishers : \A h \in Handlers :
              IsFiniteSet(StillDue(p, h)) /\ Cardinality(StillDue(p, h)) \in Nat
<1>1. ASSUME NEW h \in Handlers
      PROVE  /\ Places(handlers, h) \subseteq 1..Len(handlers)
             /\ Cardinality(Places(handlers, h)) \in Nat
  BY PlacesFinite DEF BusTypeOK
<1>2. ASSUME NEW h \in Handlers PROVE IsFiniteSet(Open(h)) /\ Cardinality(Open(h)) \in Nat
  <2>1. IsFiniteSet(1..Len(tokens))
    BY FS_Interval DEF BusTypeOK
  <2>2. Open(h) \subseteq 1..Len(tokens)
    BY DEF Open, BusTypeOK
  <2>3. IsFiniteSet(Open(h))
    BY <2>1, <2>2, FS_Subset
  <2> QED BY <2>3, FS_CardinalityType
<1>3. ASSUME NEW h \in Handlers, NEW e \in Nat PROVE Cardinality(Places(heard[h], e)) \in Nat
  <2>1. heard[h] \in Seq(DOMAIN events)
    BY DEF BusTypeOK
  <2> QED BY <2>1, PlacesFinite
<1>4. ASSUME NEW p \in Publishers, NEW h \in Handlers
      PROVE  IsFiniteSet(StillDue(p, h)) /\ Cardinality(StillDue(p, h)) \in Nat
  <2>1. pub[p].list \in Seq(Handlers)
    BY DEF BusTypeOK, PubState
  <2>2. IsFiniteSet(Places(pub[p].list, h))
    BY <2>1, PlacesFinite
  <2>3. StillDue(p, h) \subseteq Places(pub[p].list, h)
    BY DEF StillDue
  <2>4. IsFiniteSet(StillDue(p, h))
    BY <2>2, <2>3, FS_Subset
  <2> QED BY <2>4, FS_CardinalityType
<1> QED BY <1>1, <1>2, <1>3, <1>4

LEMMA InitHeard == BusInit => HInv
<1> SUFFICES ASSUME BusInit PROVE HInv
  OBVIOUS
<1>1. BusInv
  BY InitBus
<1>2. ListMatches
  <2> SUFFICES ASSUME NEW h \in Handlers
               PROVE  Cardinality(Places(handlers, h)) = Cardinality(Open(h))
    BY DEF ListMatches
  <2>1. /\ DOMAIN handlers = {1} /\ handlers[1] = Tracker
        /\ DOMAIN tokens = {1} /\ tokens[1] = [handler |-> Tracker, open |-> TRUE]
    BY DEF BusInit
  <2>2. [handler |-> Tracker, open |-> TRUE] = [handler |-> h, open |-> TRUE] <=> h = Tracker
    OBVIOUS
  <2>3. Places(handlers, h) = Open(h)
    BY <2>1, <2>2 DEF Places, Open
  <2> QED BY <2>3
<1>3. Publications /\ Ended
  BY DEF BusInit, Publications, Ended, Idle
<1> QED BY <1>1, <1>2, <1>3 DEF HInv

(* Subscriptions come and go; publications go on with their copies.        *)
LEMMA CopiesStay ==
  ASSUME HInv, UNCHANGED <<events, pub, heard>>
  PROVE  Publications' /\ Ended'
BY DEF HInv, Publications, Ended, StillDue, NextCall, Places

LEMMA SubscribeHeard ==
  ASSUME HInv, NEW h \in Handlers \ {Tracker}, Subscribe(h)
  PROVE  HInv'
<1> DEFINE new == [handler |-> h, open |-> TRUE]
           Token == [handler : Handlers, open : BOOLEAN]
<1>1. BusTypeOK /\ ListMatches /\ BusInv'
  BY SubscribeKeeps DEF HInv, BusInv
<1>2. handlers \in Seq(Handlers) /\ handlers' = Append(handlers, h)
  BY <1>1 DEF BusTypeOK, Subscribe, Added
<1>3. tokens \in Seq(Token) /\ tokens' = Append(tokens, new) /\ new \in Token
  BY <1>1 DEF BusTypeOK, Subscribe
<1>4. ListMatches'
  <2> SUFFICES ASSUME NEW x \in Handlers \ robbed
               PROVE  Cardinality(Places(handlers', x)) = Cardinality(Open(x)')
    BY DEF ListMatches, Subscribe
  <2> DEFINE tok == [handler |-> x, open |-> TRUE]
  <2>1. Cardinality(Places(handlers', x)) =
          Cardinality(Places(handlers, x)) + (IF x = h THEN 1 ELSE 0)
    BY <1>2, PlacesAppend
  <2>2. tok = new <=> x = h
    OBVIOUS
  <2>3. Open(x) = Places(tokens, tok) /\ Open(x)' = Places(tokens', tok)
    BY DEF Open, Places
  <2> HIDE DEF tok, new, Token
  <2>4. Cardinality(Places(Append(tokens, new), tok)) =
          Cardinality(Places(tokens, tok)) + (IF tok = new THEN 1 ELSE 0)
    BY <1>3, PlacesAppend
  <2>5. Cardinality(Places(handlers, x)) = Cardinality(Open(x))
    BY <1>1 DEF ListMatches
  <2> QED BY <1>3, <2>1, <2>2, <2>3, <2>4, <2>5
<1>5. Publications' /\ Ended'
  BY CopiesStay DEF Subscribe
<1> QED BY <1>1, <1>4, <1>5 DEF HInv

LEMMA UnsubscribeHeard ==
  ASSUME HInv, NEW t \in DOMAIN tokens, Unsubscribe(t)
  PROVE  HInv'
<1> DEFINE Token == [handler : Handlers, open : BOOLEAN]
<1>1. BusTypeOK /\ ListMatches /\ BusInv'
  BY UnsubscribeKeeps DEF HInv, BusInv
<1>2. tokens \in Seq(Token) /\ tokens[t] \in Token
  <2>1. tokens \in Seq(Token) /\ t \in 1..Len(tokens)
    BY <1>1 DEF BusTypeOK
  <2> QED BY <2>1, ElementOfSeq, Zenon
<1>3. PICK h \in Handlers : h = tokens[t].handler
  BY <1>2
<1>4. /\ handlers \in Seq(Handlers) /\ handlers' = RemoveFirst(handlers, h)
      /\ tokens' = [tokens EXCEPT ![t].open = FALSE]
      /\ robbed' = IF tokens[t].open THEN robbed ELSE robbed \cup {h}
  BY <1>1, <1>3 DEF BusTypeOK, Unsubscribe, Without
<1>5. ASSUME NEW x \in Handlers
      PROVE  Open(x)' = IF x = h /\ tokens[t].open THEN Open(x) \ {t} ELSE Open(x)
  <2>1. DOMAIN tokens' = DOMAIN tokens
    BY <1>4
  <2>2. tokens'[t] # [handler |-> x, open |-> TRUE]
    BY <1>2, <1>4
  <2>3. \A u \in DOMAIN tokens \ {t} : tokens'[u] = tokens[u]
    BY <1>2, <1>4
  <2>4. tokens[t] = [handler |-> x, open |-> TRUE] <=> x = h /\ tokens[t].open
    BY <1>2, <1>3
  <2> QED BY <2>1, <2>2, <2>3, <2>4 DEF Open
<1>6. ListMatches'
  <2> SUFFICES ASSUME NEW x \in Handlers \ robbed'
               PROVE  Cardinality(Places(handlers', x)) = Cardinality(Open(x)')
    BY DEF ListMatches
  <2>1. x \notin robbed /\ (x = h => tokens[t].open)
    BY <1>4
  <2>2. Cardinality(Places(handlers, x)) = Cardinality(Open(x))
    BY <1>1, <2>1 DEF ListMatches
  <2>3. CASE x = h
    <3>1. t \in Open(x) /\ Open(x)' = Open(x) \ {t}
      BY <1>2, <1>3, <1>5, <2>1, <2>3 DEF Open
    <3>2. Cardinality(Open(x) \ {t}) = Cardinality(Open(x)) - 1
      BY <1>1, <3>1, Counts, FS_RemoveElement
    <3>3. Places(handlers, x) # {}
      BY <1>1, <2>2, <3>1, Counts, FS_EmptySet
    <3>4. Cardinality(Places(handlers', x)) = Cardinality(Places(handlers, x)) - 1
      BY <1>4, <2>3, <3>3, PlacesRemoveFirst
    <3> QED BY <2>2, <3>1, <3>2, <3>4
  <2>4. CASE x # h
    BY <1>4, <1>5, <2>2, <2>4, PlacesRemoveFirst
  <2> QED BY <2>3, <2>4
<1>7. Publications' /\ Ended'
  BY CopiesStay DEF Unsubscribe
<1> QED BY <1>1, <1>6, <1>7 DEF HInv

LEMMA PublishHeard ==
  ASSUME HInv, NEW p \in Publishers, Publish(p)
  PROVE  HInv'
<1> DEFINE n == Len(events) + 1
<1>1. BusTypeOK /\ ListMatches /\ Publications /\ Ended /\ BusInv'
  BY PublishKeeps DEF HInv, BusInv
<1>2. /\ n \in Nat /\ n \notin DOMAIN events /\ DOMAIN events' = DOMAIN events \cup {n}
      /\ \A e \in DOMAIN events : events'[e] = events[e] /\ e # n
      /\ events'[n] = [due |-> [h \in Handlers |-> Subscribed(h)], robbed |-> robbed,
                       state |-> "open"]
      /\ UNCHANGED <<handlers, tokens, robbed, heard>>
  <2>1. /\ Len(events) \in Nat /\ DOMAIN events = 1..Len(events)
        /\ events' = Append(events, [due    |-> [h \in Handlers |-> Subscribed(h)],
                                     robbed |-> robbed, state  |-> "open"])
    BY <1>1 DEF BusTypeOK, Publish
  <2> QED BY <2>1 DEF Publish
<1>3. pub[p].at = "idle"
      /\ pub'[p] = [at |-> "calling", event |-> n, list |-> handlers, next |-> 1]
      /\ \A q \in Publishers \ {p} : pub'[q] = pub[q]
  BY <1>1 DEF BusTypeOK, Publish
<1>4. \A q \in Publishers : pub[q].at # "idle" => pub[q].event \in DOMAIN events
  BY <1>1 DEF BusTypeOK
<1> HIDE DEF n
<1>5. ASSUME NEW h \in Handlers \ robbed
      PROVE  Cardinality(Places(heard[h], n)) + Cardinality(StillDue(p, h)') = events'[n].due[h]
  <2>1. Places(heard[h], n) = {}
    <3>1. heard[h] \in Seq(DOMAIN events)
      BY <1>1 DEF BusTypeOK
    <3>2. \A i \in DOMAIN heard[h] : heard[h][i] \in DOMAIN events
      BY <3>1
    <3> QED BY <1>2, <3>2 DEF Places
  <2>2. StillDue(p, h)' = Places(handlers, h)
    <3>1. pub'[p].list = handlers /\ NextCall(p)' = 1
      BY <1>3 DEF NextCall
    <3>2. Places(handlers, h) \subseteq 1..Len(handlers)
      BY <1>1, Counts
    <3> QED BY <3>1, <3>2 DEF StillDue, Places
  <2>3. events'[n].due[h] = Cardinality(Open(h))
    BY <1>2 DEF Open, Subscribed
  <2> QED BY <1>1, <2>1, <2>2, <2>3, FS_EmptySet, Counts DEF ListMatches
<1>6. ASSUME NEW q \in Publishers, q # p, pub[q].at # "idle"
      PROVE  /\ events'[pub[q].event] = events[pub[q].event] /\ pub[q].event # n
             /\ pub'[q] = pub[q] /\ \A h \in Handlers : StillDue(q, h)' = StillDue(q, h)
  BY <1>2, <1>3, <1>4, <1>6 DEF StillDue, NextCall, Places
<1>7. Publications'
  <2> SUFFICES ASSUME NEW q \in Publishers, pub'[q].at # "idle"
               PROVE  LET e == pub'[q].event IN
                      /\ events'[e].state = "open"
                      /\ \A r \in Publishers \ {q} : pub'[r].at # "idle" => pub'[r].event # e
                      /\ \A h \in Handlers \ events'[e].robbed :
                           Cardinality(Places(heard'[h], e)) + Cardinality(StillDue(q, h)')
                             = events'[e].due[h]
    BY DEF Publications
  <2>1. CASE q = p
    <3>1. events'[n].state = "open" /\ events'[n].robbed = robbed /\ pub'[q].event = n
      BY <1>2, <1>3, <2>1
    <3>2. \A r \in Publishers \ {q} : pub'[r].at # "idle" => pub'[r].event # n
      BY <1>3, <1>6, <2>1
    <3> QED BY <1>2, <1>5, <2>1, <3>1, <3>2
  <2>2. CASE q # p
    BY <1>1, <1>2, <1>3, <1>6, <2>2 DEF Publications
  <2> QED BY <2>1, <2>2
<1>8. Ended'
  <2> SUFFICES ASSUME NEW e \in DOMAIN events'
               PROVE  /\ events'[e].state = "open" =>
                           \E q \in Publishers : pub'[q].at # "idle" /\ pub'[q].event = e
                      /\ \A h \in Handlers \ events'[e].robbed :
                           /\ events'[e].state = "over" =>
                                Cardinality(Places(heard'[h], e)) = events'[e].due[h]
                           /\ events'[e].state = "cut"  =>
                                Cardinality(Places(heard'[h], e)) <= events'[e].due[h]
    BY DEF Ended
  <2>1. CASE e = n
    BY <1>2, <1>3, <2>1
  <2>2. CASE e # n
    BY <1>1, <1>2, <1>3, <1>6, <2>2 DEF Ended
  <2> QED BY <2>1, <2>2
<1> QED BY <1>1, <1>2, <1>7, <1>8 DEF HInv, ListMatches, Open

(* A call made is one call less to come.                                   *)
LEMMA DeliverHeard ==
  ASSUME HInv, NEW p \in Publishers, Deliver(p)
  PROVE  HInv'
<1>0. BusTypeOK /\ ListMatches /\ Publications /\ Ended /\ BusInv'
  BY DeliverKeeps DEF HInv, BusInv
<1>1. PICK e \in DOMAIN events : e = pub[p].event
  BY <1>0 DEF BusTypeOK, Deliver
<1>2. PICK k \in 1..Len(pub[p].list) : k = pub[p].next
  BY <1>0 DEF BusTypeOK, PubState, Deliver, Exhausted
<1>3. pub[p].list \in Seq(Handlers) /\ pub[p].at = "calling" /\ e \in Nat
  BY <1>0 DEF BusTypeOK, PubState, Deliver
<1>4. PICK c \in Handlers : c = pub[p].list[k] /\ c = Called(p)
  BY <1>2, <1>3 DEF Called
<1>5. /\ pub'[p].event = e /\ pub'[p].list = pub[p].list /\ pub'[p].at # "idle"
      /\ NextCall(p) = k /\ NextCall(p)' = k + 1
      /\ \A q \in Publishers \ {p} : pub'[q] = pub[q]
  <2>1. pub \in [Publishers -> PubState]
    BY <1>0 DEF BusTypeOK
  <2>2. \/ pub' = [pub EXCEPT ![p].at = "awaiting"]
        \/ pub' = [pub EXCEPT ![p].next = @ + 1]
    BY DEF Deliver
  <2>3. k + 1 \in Nat \ {0} /\ k \in Nat \ {0} /\ pub[p] \in PubState
    BY <1>2, <2>1
  <2>4. CASE pub' = [pub EXCEPT ![p].at = "awaiting"]
    <3>1. pub'[p] = [pub[p] EXCEPT !.at = "awaiting"]
      BY <2>1, <2>4
    <3> QED BY <1>1, <1>2, <1>3, <2>1, <2>3, <2>4, <3>1 DEF NextCall, PubState
  <2>5. CASE pub' = [pub EXCEPT ![p].next = @ + 1]
    <3>1. pub'[p] = [pub[p] EXCEPT !.next = k + 1]
      BY <1>2, <2>1, <2>5
    <3> QED BY <1>1, <1>2, <1>3, <2>1, <2>3, <2>5, <3>1 DEF NextCall, PubState
  <2> QED BY <2>2, <2>4, <2>5
<1>6. UNCHANGED <<handlers, tokens, robbed, events>>
      /\ heard' = [heard EXCEPT ![c] = Append(@, e)]
  BY <1>1, <1>4 DEF Deliver
<1>7. ASSUME NEW h \in Handlers, NEW d \in Nat
      PROVE  Cardinality(Places(heard'[h], d)) =
               Cardinality(Places(heard[h], d)) + (IF h = c /\ d = e THEN 1 ELSE 0)
  <2>1. heard[h] \in Seq(DOMAIN events) /\ heard \in [Handlers -> Seq(DOMAIN events)]
        /\ Cardinality(Places(heard[h], d)) \in Nat
    BY <1>0, Counts DEF BusTypeOK
  <2>2. CASE h = c
    <3>1. heard'[h] = Append(heard[h], e)
      BY <1>6, <2>1, <2>2
    <3> QED BY <2>1, <2>2, <3>1, PlacesAppend
  <2>3. CASE h # c
    BY <1>6, <2>1, <2>3
  <2> QED BY <2>2, <2>3
<1>8. ASSUME NEW h \in Handlers
      PROVE  Cardinality(StillDue(p, h)') =
               Cardinality(StillDue(p, h)) - (IF h = c THEN 1 ELSE 0)
  <2>1. Places(pub[p].list, h) \subseteq 1..Len(pub[p].list)
    BY <1>3, PlacesFinite
  <2>2. StillDue(p, h)' = StillDue(p, h) \ {k}
    BY <1>5, <2>1 DEF StillDue, Places
  <2>3. k \in StillDue(p, h) <=> h = c
    <3>1. k \in Nat /\ k >= k /\ k \in DOMAIN pub[p].list
      BY <1>2, <1>3
    <3> QED BY <1>4, <1>5, <3>1 DEF StillDue, Places
  <2>4. IsFiniteSet(StillDue(p, h)) /\ Cardinality(StillDue(p, h)) \in Nat
    BY <1>0, Counts
  <2>5. Cardinality(StillDue(p, h) \ {k}) =
          IF k \in StillDue(p, h) THEN Cardinality(StillDue(p, h)) - 1
                                  ELSE Cardinality(StillDue(p, h))
    BY <2>4, FS_RemoveElement
  <2> QED BY <2>2, <2>3, <2>4, <2>5
<1>9. Publications'
  <2> SUFFICES ASSUME NEW q \in Publishers, pub'[q].at # "idle"
               PROVE  LET d == pub'[q].event IN
                      /\ events'[d].state = "open"
                      /\ \A r \in Publishers \ {q} : pub'[r].at # "idle" => pub'[r].event # d
                      /\ \A h \in Handlers \ events'[d].robbed :
                           Cardinality(Places(heard'[h], d)) + Cardinality(StillDue(q, h)')
                             = events'[d].due[h]
    BY DEF Publications
  <2>1. \A r \in Publishers : pub'[r].event = pub[r].event
                              /\ (pub'[r].at # "idle" <=> pub[r].at # "idle")
    BY <1>1, <1>3, <1>5
  <2>2. pub[q].event \in DOMAIN events /\ pub[q].event \in Nat
    BY <1>0, <2>1 DEF BusTypeOK
  <2>3. ASSUME NEW h \in Handlers \ events[pub[q].event].robbed
        PROVE  Cardinality(Places(heard'[h], pub[q].event)) + Cardinality(StillDue(q, h)')
                 = events[pub[q].event].due[h]
    <3>1. Cardinality(Places(heard[h], pub[q].event)) + Cardinality(StillDue(q, h))
            = events[pub[q].event].due[h]
      BY <1>0, <2>1 DEF Publications
    <3>2. Cardinality(Places(heard[h], pub[q].event)) \in Nat
          /\ Cardinality(StillDue(q, h)) \in Nat
      BY <1>0, <2>2, Counts
    <3>3. CASE q = p
      BY <1>1, <1>7, <1>8, <2>2, <3>1, <3>2, <3>3
    <3>4. CASE q # p
      <4>1. pub[q].event # e
        BY <1>0, <1>1, <1>3, <2>1, <3>4 DEF Publications
      <4>2. StillDue(q, h)' = StillDue(q, h)
        BY <1>5, <3>4 DEF StillDue, NextCall, Places
      <4> QED BY <1>7, <2>2, <3>1, <3>2, <4>1, <4>2
    <3> QED BY <3>3, <3>4
  <2> QED BY <1>0, <1>6, <2>1, <2>3 DEF Publications
<1>10. Ended'
  <2> SUFFICES ASSUME NEW d \in DOMAIN events
               PROVE  /\ events[d].state = "open" =>
                           \E q \in Publishers : pub'[q].at # "idle" /\ pub'[q].event = d
                      /\ \A h \in Handlers \ events[d].robbed :
                           /\ events[d].state = "over" =>
                                Cardinality(Places(heard'[h], d)) = events[d].due[h]
                           /\ events[d].state = "cut"  =>
                                Cardinality(Places(heard'[h], d)) <= events[d].due[h]
    BY <1>6 DEF Ended
  <2>1. d \in Nat
    BY <1>0 DEF BusTypeOK
  <2>2. events[e].state = "open"
    BY <1>0, <1>1, <1>3 DEF Publications
  <2>3. ASSUME NEW h \in Handlers, d # e
        PROVE  Cardinality(Places(heard'[h], d)) = Cardinality(Places(heard[h], d))
    <3>1. Cardinality(Places(heard[h], d)) \in Nat
      BY <1>0, <2>1, Counts
    <3> QED BY <1>0, <1>7, <2>1, <2>3, <3>1
  <2> QED BY <1>0, <1>1, <1>3, <1>5, <2>2, <2>3 DEF Ended
<1> QED BY <1>0, <1>6, <1>9, <1>10 DEF HInv, ListMatches, Open

(* Coming back from an awaited handler leaves the calls to come.           *)
LEMMA ResumeHeard ==
  ASSUME HInv, NEW p \in Publishers, Resume(p)
  PROVE  HInv'
<1>1. BusTypeOK /\ ListMatches /\ Publications /\ Ended /\ BusInv'
  BY ResumeKeeps DEF HInv, BusInv
<1>2. UNCHANGED <<handlers, tokens, robbed, events, heard>>
  BY DEF Resume
<1>3. \A q \in Publishers :
        /\ pub'[q].event = pub[q].event /\ pub'[q].list = pub[q].list
        /\ pub'[q].at # "idle" <=> pub[q].at # "idle"
        /\ NextCall(q)' = NextCall(q)
  BY <1>1 DEF BusTypeOK, Resume, PubState, NextCall
<1>4. \A q \in Publishers : \A h \in Handlers : StillDue(q, h)' = StillDue(q, h)
  BY <1>3 DEF StillDue, Places
<1> QED BY <1>1, <1>2, <1>3, <1>4 DEF HInv, ListMatches, Open, Publications, Ended

(* An event that is over has no call to come; one that is cut may.         *)
LEMMA LeaveHeard ==
  ASSUME HInv, BusInv', NEW p \in Publishers, NEW state \in {"over", "cut"},
         pub[p].at # "idle",
         state = "over" => \A h \in Handlers : StillDue(p, h) = {},
         events' = [events EXCEPT ![pub[p].event].state = state], Left(p),
         UNCHANGED <<handlers, tokens, robbed, heard>>
  PROVE  HInv'
<1>1. BusTypeOK /\ ListMatches /\ Publications /\ Ended
  BY DEF HInv, BusInv
<1>2. PICK e \in DOMAIN events : e = pub[p].event
  BY <1>1 DEF BusTypeOK
<1>3. /\ DOMAIN events' = DOMAIN events
      /\ \A d \in DOMAIN events \ {e} : events'[d] = events[d]
      /\ events'[e].state = state /\ events'[e].due = events[e].due
      /\ events'[e].robbed = events[e].robbed
  <2>1. events \in Seq(EventRecord) /\ events[e] \in EventRecord
    BY <1>1 DEF BusTypeOK
  <2> QED BY <1>2, <2>1 DEF EventRecord
<1>4. pub'[p].at = "idle" /\ \A q \in Publishers \ {p} : pub'[q] = pub[q]
  BY <1>1 DEF BusTypeOK, Left, Idle
<1>5. Publications'
  <2> SUFFICES ASSUME NEW q \in Publishers, pub'[q].at # "idle"
               PROVE  LET d == pub'[q].event IN
                      /\ events'[d].state = "open"
                      /\ \A r \in Publishers \ {q} : pub'[r].at # "idle" => pub'[r].event # d
                      /\ \A h \in Handlers \ events'[d].robbed :
                           Cardinality(Places(heard[h], d)) + Cardinality(StillDue(q, h)')
                             = events'[d].due[h]
    BY DEF Publications
  <2>1. q # p /\ pub'[q] = pub[q] /\ pub[q].at # "idle"
    BY <1>4
  <2>2. pub[q].event \in DOMAIN events /\ pub[q].event # e
    BY <1>1, <1>2, <2>1 DEF BusTypeOK, Publications
  <2>3. \A h \in Handlers : StillDue(q, h)' = StillDue(q, h)
    BY <2>1 DEF StillDue, NextCall, Places
  <2> QED BY <1>1, <1>3, <1>4, <2>1, <2>2, <2>3 DEF Publications
<1>6. ASSUME NEW h \in Handlers \ events[e].robbed
      PROVE  /\ state = "over" => Cardinality(Places(heard[h], e)) = events[e].due[h]
             /\ Cardinality(Places(heard[h], e)) <= events[e].due[h]
  <2>1. Cardinality(Places(heard[h], e)) + Cardinality(StillDue(p, h)) = events[e].due[h]
    BY <1>1, <1>2 DEF Publications
  <2>2. Cardinality(Places(heard[h], e)) \in Nat /\ Cardinality(StillDue(p, h)) \in Nat
    <3>1. e \in Nat
      BY <1>1 DEF BusTypeOK
    <3> QED BY <1>1, <3>1, Counts
  <2>3. state = "over" => Cardinality(StillDue(p, h)) = 0
    BY FS_EmptySet
  <2> QED BY <2>1, <2>2, <2>3
<1>7. Ended'
  <2> SUFFICES ASSUME NEW d \in DOMAIN events
               PROVE  /\ events'[d].state = "open" =>
                           \E q \in Publishers : pub'[q].at # "idle" /\ pub'[q].event = d
                      /\ \A h \in Handlers \ events'[d].robbed :
                           /\ events'[d].state = "over" =>
                                Cardinality(Places(heard[h], d)) = events'[d].due[h]
                           /\ events'[d].state = "cut"  =>
                                Cardinality(Places(heard[h], d)) <= events'[d].due[h]
    BY <1>3 DEF Ended
  <2>1. CASE d = e
    BY <1>3, <1>6, <2>1
  <2>2. CASE d # e
    BY <1>1, <1>2, <1>3, <1>4, <2>2 DEF Ended
  <2> QED BY <2>1, <2>2
<1> QED BY <1>1, <1>5, <1>7 DEF HInv, ListMatches, Open

LEMMA FinishHeard ==
  ASSUME HInv, NEW p \in Publishers, Finish(p)
  PROVE  HInv'
<1>1. BusInv' /\ BusTypeOK
  BY FinishKeeps DEF HInv, BusInv
<1>2. pub[p].at = "calling" /\ pub[p].list \in Seq(Handlers) /\ pub[p].next \in Nat
      /\ pub[p].next > Len(pub[p].list)
  BY <1>1 DEF BusTypeOK, PubState, Finish, Exhausted
<1>3. \A h \in Handlers : StillDue(p, h) = {}
  BY <1>2 DEF StillDue, NextCall, Places
<1> QED BY <1>1, <1>2, <1>3, LeaveHeard DEF Finish

LEMMA CancelHeard ==
  ASSUME HInv, NEW p \in Publishers, Cancel(p)
  PROVE  HInv'
<1>1. BusInv' /\ pub[p].at # "idle"
  BY CancelKeeps DEF HInv, Cancel
<1> QED BY <1>1, LeaveHeard DEF Cancel

LEMMA NextHeard == HInv /\ [BusNext]_busVars => HInv'
<1> SUFFICES ASSUME HInv, [BusNext]_busVars PROVE HInv'
  OBVIOUS
<1>1. ASSUME NEW h \in Handlers \ {Tracker}, Subscribe(h) PROVE HInv'
  BY <1>1, SubscribeHeard
<1>2. ASSUME NEW t \in DOMAIN tokens, Unsubscribe(t) PROVE HInv'
  BY <1>2, UnsubscribeHeard
<1>3. ASSUME NEW p \in Publishers, Step(p) PROVE HInv'
  BY <1>3, PublishHeard, DeliverHeard, ResumeHeard, FinishHeard, CancelHeard DEF Step
<1>4. CASE UNCHANGED busVars
  <2>1. BusInv'
    BY <1>4, BusNextKeeps DEF HInv
  <2>2. ListMatches'
    BY <1>4 DEF busVars, HInv, ListMatches, Places, Open
  <2>3. Publications' /\ Ended'
    BY <1>4, CopiesStay DEF busVars
  <2> QED BY <2>1, <2>2, <2>3 DEF HInv
<1> QED BY <1>1, <1>2, <1>3, <1>4 DEF BusNext

(* However many publications overlap and whoever subscribes, leaves or is  *)
(* cancelled meanwhile, a handler hears an event exactly as often as it    *)
(* was subscribed when the publication began, or less if it was cut short. *)
THEOREM HearsOnce == BusSpec => []HeardOnce
<1>1. HInv => HeardOnce
  <2> SUFFICES ASSUME HInv, NEW e \in DOMAIN events, NEW h \in Handlers \ events[e].robbed
               PROVE  /\ Times(h, e) <= events[e].due[h]
                      /\ events[e].state = "over" => Times(h, e) = events[e].due[h]
    BY DEF HeardOnce
  <2>1. BusTypeOK /\ events[e] \in EventRecord
    BY DEF HInv, BusInv, BusTypeOK
  <2>2. Times(h, e) = Cardinality(Places(heard[h], e)) /\ Times(h, e) \in Nat
    <3>1. e \in Nat
      BY <2>1 DEF BusTypeOK
    <3>2. Cardinality(Places(heard[h], e)) \in Nat
      BY <2>1, <3>1, Counts
    <3> QED BY <3>2 DEF Times, Places
  <2>3. CASE events[e].state = "open"
    <3>1. PICK p \in Publishers : pub[p].at # "idle" /\ pub[p].event = e
      BY <2>3 DEF HInv, Ended
    <3>2. Times(h, e) + Cardinality(StillDue(p, h)) = events[e].due[h]
      BY <2>2, <3>1 DEF HInv, Publications
    <3>3. Cardinality(StillDue(p, h)) \in Nat
      BY <2>1, Counts
    <3> QED BY <2>2, <2>3, <3>2, <3>3
  <2>4. CASE events[e].state = "over"
    BY <2>2, <2>4 DEF HInv, Ended
  <2>5. CASE events[e].state = "cut"
    BY <2>2, <2>5 DEF HInv, Ended
  <2> QED BY <2>1, <2>3, <2>4, <2>5 DEF EventRecord
<1> QED BY <1>1, InitHeard, NextHeard, PTL DEF BusSpec
=============================================================================

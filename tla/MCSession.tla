----------------------------- MODULE MCSession -------------------------------
(***************************************************************************)
(* Two clients, of one process or of two, an episode of an earlier one,    *)
(* texts that resemble each other, and answers of every sort the planner   *)
(* tells apart.                                                            *)
(***************************************************************************)
EXTENDS Session

CONSTANTS n1, n2, c1, c2, old, s1, s2, t1, t2

OneOrTwo   == {c1 :> s1 @@ c2 :> s1, c1 :> s1 @@ c2 :> s2}
Resembling == (t1 :> (t1 :> 2 @@ t2 :> 1)) @@ (t2 :> (t1 :> 1 @@ t2 :> 2))
Episodes   == [outcome : SUBSET Steps, succeeded : BOOLEAN]
EarlierRow == <<[id |-> old, text |-> t2, length |-> 1,
                 metadata |-> [outcome |-> {}, succeeded |-> FALSE]]>>

Step(n, deps)   == [id |-> n, deps |-> deps, wellFormed |-> TRUE]
Malformed(n)    == [id |-> n, deps |-> <<>>, wellFormed |-> FALSE]

Unreadable == <<>>
LostLast   == <<Step(n1, <<>>), Step(n2, <<n1>>), Malformed(n2)>>
LostRoot   == <<Malformed(n1), Step(n2, <<n1>>)>>
Cycle      == <<Step(n1, <<n2>>), Step(n2, <<n1>>)>>
Twice      == <<Step(n1, <<>>), Step(n1, <<>>)>>
Repeated   == <<Step(n1, <<>>), Step(n2, <<n1, n1>>)>>

SomeAnswers == {Unreadable, LostLast, LostRoot, Cycle, Twice, Repeated}
=============================================================================

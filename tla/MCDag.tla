------------------------------- MODULE MCDag --------------------------------
(***************************************************************************)
(* Dag with short dependency lists: in ascending order, each id once, or   *)
(* with a repeated id.                                                     *)
(***************************************************************************)
EXTENDS Dag

Repeated  == UNION {[1..i -> 0..N] : i \in 0..2}
Ascending == {s \in Repeated : \A i, j \in DOMAIN s : i < j => s[i] < s[j]}
=============================================================================

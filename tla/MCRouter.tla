------------------------------ MODULE MCRouter ------------------------------
(***************************************************************************)
(* Router with interchangeable callers.                                    *)
(***************************************************************************)
EXTENDS Router, TLC

Symmetry == Permutations(Callers)
=============================================================================

----------------------------- MODULE MCEventBus ------------------------------
(***************************************************************************)
(* The bus with the tracker, a synchronous and an asynchronous handler, a  *)
(* stream and two publishers, which are interchangeable.                   *)
(***************************************************************************)
EXTENDS EventBus

Symmetry == Permutations(Publishers)
=============================================================================

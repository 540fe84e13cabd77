---------------------------- MODULE MCAccessKeys ----------------------------
(***************************************************************************)
(* AccessKeys with a handful of interchangeable requests.                  *)
(***************************************************************************)
EXTENDS AccessKeys, TLC

AnyOrder == Permutations(Calls)
=============================================================================

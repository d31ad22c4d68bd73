----------------------------- MODULE MCTtsTurn ------------------------------
(***************************************************************************)
(* Two turns that speak one text each, and callers that interrupt them.    *)
(***************************************************************************)
EXTENDS TtsTurn, TLC

Symmetry == Permutations(Turns) \cup Permutations(Callers)
=============================================================================

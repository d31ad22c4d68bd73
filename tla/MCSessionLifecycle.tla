------------------------- MODULE MCSessionLifecycle -------------------------
(***************************************************************************)
(* One manager, a few events: hellos that race with closes, listen starts, *)
(* exits, goodbyes and failures of the ASR.  Tasks are interchangeable.    *)
(***************************************************************************)
EXTENDS SessionLifecycle, TLC

Symmetry == Permutations(Tasks)
=============================================================================

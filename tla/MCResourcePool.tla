--------------------------- MODULE MCResourcePool ---------------------------
(***************************************************************************)
(* Two sessions, two of the four pools (a session that fails in the second *)
(* has a handle of the first to give back), two keys, one entry allowed in *)
(* each pool: the limit is met and can be passed.                          *)
(***************************************************************************)
EXTENDS ResourcePool, TLC

CONSTANTS s1, s2, asr, tts, k1, k2

MCSessions == {s1, s2}
MCPools == {asr, tts}
MCKeys == {k1, k2}
MCOrder == <<asr, tts>>

Symmetry == Permutations(MCSessions) \cup Permutations(MCKeys)
=============================================================================

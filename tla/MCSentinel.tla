----------------------------- MODULE MCSentinel -----------------------------
(* Two keys and two tests for the sentinel. *)
EXTENDS Sentinel, TLC

CONSTANTS k1, k2, t1, t2
MCKey == {k1, k2}
MCTest == {t1, t2}
MCSymmetry == Permutations(MCKey) \cup Permutations(MCTest)
=============================================================================

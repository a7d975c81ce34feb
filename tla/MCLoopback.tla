----------------------------- MODULE MCLoopback -----------------------------
(* Model values for Loopback: three ports of this worker and one of
   another, or two ports of a worker that runs alone.  The isolate VLANs
   are interchangeable. *)
EXTENDS Loopback, TLC

CONSTANTS p1, p2, p3, q1, v1, v2

MCPort == {p1, p2, p3, q1}
MCBlock == {p1, p2, p3}
MCTestPorts == {p1, p2, p3}
MCL3Ports == {p2, p3}
TwoBlock == {p1, p2}
MCIsoVids == {v1, v2}
MCListed == {2000, v1, v2}
Interchangeable == Permutations(MCIsoVids)
=============================================================================

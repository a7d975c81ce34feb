----------------------------- MODULE MCPortMode -----------------------------
(* Instances of PortMode for TLC: three role ports, one user VLAN.          *)
EXTENDS PortMode, TLC

CONSTANTS p1, p2, p3, v10, vlan1, vlan500

MCPort == {p1, p2, p3}
MCBase == {p2, p3}
MCUser == {v10}

\* The base ports are interchangeable.
MCSymmetry == Permutations(MCBase)
=============================================================================

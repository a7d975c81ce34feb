---------------------------- MODULE MCDlbInject -----------------------------
(* Model values for DlbInject: one group with two members, or two groups. *)
EXTENDS DlbInject

CONSTANTS g1, g2, m1, m2, n1, n2

MCGroup == {g1, g2}
MCMember == {m1, m2}
MCNextHop == {n1, n2}
MCSymmetry == Permutations({g1, g2}) \cup Permutations({m1, m2}) \cup Permutations({n1, n2})
=============================================================================

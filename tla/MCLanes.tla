------------------------------ MODULE MCLanes ------------------------------
(* Two workers with the pools of topology/profiles.yaml and the framework. *)
EXTENDS Lanes

CONSTANTS p1, p2, p3
MCPort == {p1, p2, p3}
MCWorker == {1, 2}
MCBlock == [w \in {0, 1, 2} |-> IF w = 2 THEN {p2, p3} ELSE {p1}]
MCPool == {110, 120} \cup (320..325) \cup {360, 361, 3960, 2510, 252, 2000, 2095, 2097}
          \cup (3990..3993)
MCFlushed == {110, 120, 2000}
MCUsed == {120, 3990}
MCOctets == {10, 80, 96, 99, 120, 250, 251, 252, 253}
MCHextets == {7, 131, 132, 593}    \* 7, 83, 84, 251 in hexadecimal
MCAsns == {65001, 65002}

\* These pools pass the audit.
ASSUME Pools == Audited
=============================================================================

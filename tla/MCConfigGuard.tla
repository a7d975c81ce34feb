---------------------------- MODULE MCConfigGuard ----------------------------
(* Small configuration models for ConfigGuard. *)
EXTENDS ConfigGuard

\* A chain of three, "svi" needs "member" needs "vlan"; "rif" excludes "member";
\* and a pair, "entry" needs "acl".
Objects == {"vlan", "member", "svi", "rif", "acl", "entry"}
LegalConfigs == {c \in SUBSET Objects :
                    /\ "member" \in c => "vlan" \in c /\ "rif" \notin c
                    /\ "svi" \in c => "member" \in c
                    /\ "entry" \in c => "acl" \in c}
Start == {"rif"}
Pair == {"acl", "entry"}
AllHabits == {[ordered |-> TRUE, lying |-> TRUE], [ordered |-> FALSE, lying |-> FALSE]}
=============================================================================

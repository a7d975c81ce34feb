------------------------------- MODULE Ledger -------------------------------
(***************************************************************************)
(* What the contamination report promises: a ledger of configuration keys. *)
(* A test that is over closes its account: keys that are new since the     *)
(* last closing are entered under its name, and keys that are gone leave   *)
(* the ledger with a note of who had made them and who removed them.       *)
(***************************************************************************)
CONSTANTS Key, Test, NoTest

VARIABLES
    seen,     \* the configuration keys at the last closing
    open,     \* keys entered and not removed since: key -> the test that made it
    moved     \* removals: <<key, the maker or NoTest, the remover>>

ledger == <<seen, open, moved>>

Maker(k) == IF k \in DOMAIN open THEN open[k] ELSE NoTest

Init ==
    /\ seen \in SUBSET Key
    /\ open = [k \in {} |-> NoTest]
    /\ moved = {}

Close(t, now) ==
    LET added == now \ seen
        removed == seen \ now
    IN /\ seen' = now
       /\ open' = [k \in (DOMAIN open \ removed) \cup added |->
                      IF k \in added THEN t ELSE open[k]]
       /\ moved' = moved \cup {<<k, Maker(k), t>> : k \in removed}

Next == \E t \in Test, now \in SUBSET Key : Close(t, now)

Spec == Init /\ [][Next]_ledger
=============================================================================

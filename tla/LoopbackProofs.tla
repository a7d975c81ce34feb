--------------------------- MODULE LoopbackProofs ---------------------------
(***************************************************************************)
(* Proofs about Loopback, for any set of ports, VLANs and any block.       *)
(*                                                                         *)
(* Four inductive invariants, each on top of TableInv:                     *)
(*   TableInv, under every fault and on both kinds of OS;                  *)
(*   LoopInv, as long as a group hold is never left with a loopback of a   *)
(*     test ("residue") nor with a half-built base ("gate");               *)
(*   HomeInv, for the chip-level OS and disciplined tests, which gives the *)
(*     PVID, VLAN and discard guarantees between tests;                    *)
(*   RestInv, on both kinds of OS and under every fault, which gives the   *)
(*     end of the session.                                                 *)
(***************************************************************************)
EXTENDS Loopback, TLAPS

\* The stages of a test between its setup and the guard.
Ending == {"dropVlan", "trafficDown", "guard"}
Running == {"vlan", "body", "edb"}

\* The group decides what is held.
HoldInv ==
    /\ group = "none" => held = {}
    /\ group = "l2mod" => held = {PIn}
    /\ group = "l3" => held = L3Ports
    /\ stage \in {"closed", "vlan", "ended"} => group = "none"

\* What holds whatever goes wrong: the types, a usable restore record, and the
\* _on table agreeing with the chip.
TableInv ==
    /\ TypeOK
    /\ \A p \in Port : iso[p] \in IsoVids => orig[p] \in Vid
    /\ TableIsChip

\* A loopback is in the table; between tests only the held ones are; and one
\* that the guard will have to clear has set _touched.
LoopInv ==
    /\ TableInv
    /\ HoldInv
    /\ stage = "idle" => on \subseteq held
    /\ stage \in Ending /\ held # {} => on \subseteq held
    /\ stage \in Running \cup Ending /\ held = {} /\ on # {} => touched = "yes"

\* Where the test VLAN may be up.
TestVlanInv ==
    /\ kind # "plain" /\ stage \in Running \cup Ending => group = "none"
    /\ stage \in {"vlan", "dropVlan"} => kind = "l2net"
    /\ group = "l2mod" => testVlan = "up"
    /\ testVlan = "up" =>
          \/ group = "l2mod"
          \/ kind = "l2net" /\ stage \in {"body", "edb", "dropVlan"}

\* Every isolation has its own VLAN and remembers a PVID that still exists.
IsoInv ==
    /\ \A p \in Port : iso[p] # NoVid => p \in Block /\ iso[p] \in IsoVids
    /\ \A p, q \in Port : p # q /\ iso[p] = iso[q] => iso[p] = NoVid
    /\ \A p \in Port : iso[p] # NoVid =>
          \/ orig[p] = DefaultVid
          \/ orig[p] = TestVid /\ testVlan = "up" /\ p \in TestPorts
    /\ stage \in {"closed", "idle", "dropVlan", "ended"} => \A p \in Port : iso[p] = NoVid
    /\ stage \in Ending /\ held # {} => \A p \in Port : iso[p] = NoVid
    /\ stage \in Running \cup Ending /\ held = {} =>
          \A p \in Port : iso[p] # NoVid => touched = "yes"

PvidInv ==
    /\ \A p \in Block :
          \/ pvid[p] = DefaultVid
          \/ pvid[p] = iso[p]
          \/ pvid[p] = TestVid /\ testVlan = "up" /\ p \in TestPorts
    /\ \A v \in Vid : v \in vlans <=>
          \/ v = DefaultVid
          \/ v = TestVid /\ testVlan = "up"
          \/ \E p \in Port : iso[p] = v
    /\ cfgVlans = {}

DiscardInv ==
    /\ discarding \subseteq onDiscard
    /\ stage = "edb" => onDiscard \subseteq {POut}
    /\ stage # "edb" => onDiscard = {}

HomeInv == LoopInv /\ TestVlanInv /\ IsoInv /\ PvidInv /\ DiscardInv

-----------------------------------------------------------------------------
USE PortAssumption, VidAssumption, ModeAssumption

\* The manager starts with empty tables.
LEMMA TableInvInit == Init => TableInv
BY DEF Init, TableInv, TypeOK, TableIsChip, InSession, NoIso, Vid, Stages, Kinds, Groups

\* Every step keeps the tables well formed and _on equal to the chip's loopbacks.
LEMMA TableInvStep ==
    ASSUME TableInv, [Next]_vars
    PROVE  TableInv'
<1> USE DEF vlanVars, histVars, TableInv, TypeOK, TableIsChip, InSession, Vid, Stages,
            Kinds, Groups
<1>1. CASE SessionStart
  BY <1>1 DEF SessionStart, ForceClearAll, RestoredPvid, RestoredVlans, NoIso
<1>2. CASE SessionEnd
  BY <1>2 DEF SessionEnd, HomePvid, ForwardingAgain, SetOn, NoIso
<1>3. CASE NextRun
  BY <1>3 DEF NextRun, NewProcess, chipVars, NoIso
<1>4. CASE Crash
  BY <1>4 DEF Crash, NewProcess, chipVars, NoIso
<1>5. CASE GroupUpL2
  BY <1>5 DEF GroupUpL2, TestVlanUp, Enable, SetOn
<1>6. CASE GroupUpL3
  BY <1>6 DEF GroupUpL3, SetOn
<1>7. CASE GroupDownL2
  BY <1>7 DEF GroupDownL2, TestVlanDown, Disable, SetOn
<1>8. CASE GroupDownL3
  BY <1>8 DEF GroupDownL3, SetOn
<1>9. CASE PlainSetup
  BY <1>9 DEF PlainSetup, chipVars, mgrVars
<1>10. ASSUME NEW k \in {"traffic", "l2net"}, TrafficSetup(k) PROVE TableInv'
  BY <1>10 DEF TrafficSetup, SetOn
<1>11. CASE UseTestVlan
  BY <1>11 DEF UseTestVlan, TestVlanUp, SetOn
<1>12. CASE L2netSkip
  BY <1>12 DEF L2netSkip, chipVars, mgrVars
<1>13. ASSUME NEW p \in Role, BodyEnable(p) PROVE TableInv'
  BY <1>13 DEF BodyEnable, Enable, pyVars
<1>14. ASSUME NEW p \in Role, BodyDisable(p) PROVE TableInv'
  BY <1>14 DEF BodyDisable, Disable, pyVars
<1>15. ASSUME NEW p \in Role, NEW v \in IsoVids, EnableFloodSafe(p, v)
      PROVE TableInv'
  BY <1>15 DEF EnableFloodSafe, MayIsolate, Enable, pyVars
<1>16. ASSUME NEW p \in Role, NEW v \in IsoVids, IsolatePvid(p, v)
      PROVE TableInv'
  BY <1>16 DEF IsolatePvid, MayIsolate, pyVars
<1>17. ASSUME NEW p \in Role, RestorePvid(p) PROVE TableInv'
  BY <1>17 DEF RestorePvid, RestoredPvid, RestoredVlans, pyVars
<1>18. ASSUME NEW p \in Role, DisableFloodSafe(p) PROVE TableInv'
  BY <1>18 DEF DisableFloodSafe, Disable, RestoredPvid, RestoredVlans, pyVars
<1>19. CASE EdbEnable
  BY <1>19 DEF EdbEnable
<1>20. CASE EdbFinally
  BY <1>20 DEF EdbFinally, Disable
<1>21. CASE EndBody
  BY <1>21 DEF EndBody, MayEndBody, Isolated, chipVars, mgrVars
<1>22. CASE DropTestVlan
  BY <1>22 DEF DropTestVlan, TestVlanDown, SetOn
<1>23. CASE TrafficDown
  BY <1>23 DEF TrafficDown, Disable
<1>24. CASE Guard
  BY <1>24 DEF Guard, ForceClearAll, RestoredPvid, RestoredVlans, Isolated, NoIso, chipVars
<1>25. ASSUME NEW p \in Block, PvidWriteback(p) PROVE TableInv'
  BY <1>25 DEF PvidWriteback, mgrVars, pyVars
<1>26. CASE UNCHANGED vars
  BY <1>26 DEF vars
<1> QED
  BY <1>1, <1>2, <1>3, <1>4, <1>5, <1>6, <1>7, <1>8, <1>9, <1>10, <1>11,
     <1>12, <1>13, <1>14, <1>15, <1>16, <1>17, <1>18, <1>19, <1>20, <1>21,
     <1>22, <1>23, <1>24, <1>25, <1>26
  DEF Next, Body

-----------------------------------------------------------------------------
\* Before the first session nothing is held and nothing is in _on.
LEMMA LoopInvInit == Init => LoopInv
BY TableInvInit DEF Init, LoopInv, HoldInv, Ending, Running

\* Every step keeps what the guard relies on: a loopback it must clear has set
\* _touched, and under a hold a finished test left only the held ones.
LEMMA LoopInvStep ==
    ASSUME "residue" \notin Faults, "gate" \notin Faults,
           LoopInv, [Next]_vars
    PROVE  LoopInv'
<1>0. TableInv'
  BY TableInvStep DEF LoopInv
<1> USE <1>0 DEF vlanVars, histVars, LoopInv, TableInv, TypeOK, TableIsChip,
                 InSession, HoldInv,
                 Ending, Running, Stages, Kinds, Groups
<1>1. CASE SessionStart
  BY <1>1 DEF SessionStart, ForceClearAll, RestoredPvid, RestoredVlans, NoIso
<1>2. CASE SessionEnd
  BY <1>2 DEF SessionEnd, HomePvid, ForwardingAgain, SetOn, NoIso
<1>3. CASE NextRun
  BY <1>3 DEF NextRun, NewProcess, chipVars, NoIso
<1>4. CASE Crash
  BY <1>4 DEF Crash, NewProcess, chipVars, NoIso
<1>5. CASE GroupUpL2
  BY <1>5 DEF GroupUpL2, TestVlanUp, Enable, SetOn
<1>6. CASE GroupUpL3
  BY <1>6 DEF GroupUpL3, SetOn
<1>7. CASE GroupDownL2
  BY <1>7 DEF GroupDownL2, TestVlanDown, Disable, SetOn
<1>8. CASE GroupDownL3
  BY <1>8 DEF GroupDownL3, SetOn
<1>9. CASE PlainSetup
  BY <1>9 DEF PlainSetup, chipVars, mgrVars
<1>10. ASSUME NEW k \in {"traffic", "l2net"}, TrafficSetup(k) PROVE LoopInv'
  BY <1>10 DEF TrafficSetup, SetOn
<1>11. CASE UseTestVlan
  BY <1>11 DEF UseTestVlan, TestVlanUp, SetOn
<1>12. CASE L2netSkip
  BY <1>12 DEF L2netSkip, chipVars, mgrVars
<1>13. ASSUME NEW p \in Role, BodyEnable(p) PROVE LoopInv'
  BY <1>13 DEF BodyEnable, Enable, pyVars
<1>14. ASSUME NEW p \in Role, BodyDisable(p) PROVE LoopInv'
  BY <1>14 DEF BodyDisable, Disable, pyVars
<1>15. ASSUME NEW p \in Role, NEW v \in IsoVids, EnableFloodSafe(p, v)
      PROVE LoopInv'
  BY <1>15 DEF EnableFloodSafe, MayIsolate, Enable, pyVars
<1>16. ASSUME NEW p \in Role, NEW v \in IsoVids, IsolatePvid(p, v)
      PROVE LoopInv'
  BY <1>16 DEF IsolatePvid, MayIsolate, pyVars
<1>17. ASSUME NEW p \in Role, RestorePvid(p) PROVE LoopInv'
  BY <1>17 DEF RestorePvid, RestoredPvid, RestoredVlans, pyVars
<1>18. ASSUME NEW p \in Role, DisableFloodSafe(p) PROVE LoopInv'
  BY <1>18 DEF DisableFloodSafe, Disable, RestoredPvid, RestoredVlans, pyVars
<1>19. CASE EdbEnable
  BY <1>19 DEF EdbEnable
<1>20. CASE EdbFinally
  BY <1>20 DEF EdbFinally, Disable
<1>21. CASE EndBody
  BY <1>21 DEF EndBody, MayEndBody, Isolated, chipVars, mgrVars
<1>22. CASE DropTestVlan
  BY <1>22 DEF DropTestVlan, TestVlanDown, SetOn
<1>23. CASE TrafficDown
  BY <1>23 DEF TrafficDown, Disable
<1>24. CASE Guard
  BY <1>24 DEF Guard, ForceClearAll, RestoredPvid, RestoredVlans, Isolated, NoIso, chipVars
<1>25. ASSUME NEW p \in Block, PvidWriteback(p) PROVE LoopInv'
  BY <1>25 DEF PvidWriteback, mgrVars, pyVars
<1>26. CASE UNCHANGED vars
  BY <1>26 DEF vars
<1> QED
  BY <1>1, <1>2, <1>3, <1>4, <1>5, <1>6, <1>7, <1>8, <1>9, <1>10, <1>11,
     <1>12, <1>13, <1>14, <1>15, <1>16, <1>17, <1>18, <1>19, <1>20, <1>21,
     <1>22, <1>23, <1>24, <1>25, <1>26
  DEF Next, Body

-----------------------------------------------------------------------------
\* Initially every PVID is home and no test VLAN exists.
LEMMA HomeInvInit == Init => HomeInv
<1> SUFFICES ASSUME Init PROVE HomeInv
  OBVIOUS
<1>1. LoopInv
  BY LoopInvInit
<1>2. TestVlanInv
  BY DEF Init, TestVlanInv, Ending, Running
<1>3. IsoInv
  BY DEF Init, IsoInv, NoIso, Ending, Running
<1>4. PvidInv
  BY DEF Init, PvidInv, NoIso, Vid
<1>5. DiscardInv
  BY DEF Init, DiscardInv
<1> QED
  BY <1>1, <1>2, <1>3, <1>4, <1>5 DEF HomeInv

\* With disciplined tests on the chip-level OS every step keeps each isolation
\* on a VLAN of its own with a live PVID to return to.
LEMMA HomeInvStep ==
    ASSUME Faults = {}, ~SwitchportOS, HomeInv, [Next]_vars
    PROVE  HomeInv'
<1>0. LoopInv'
  BY LoopInvStep DEF HomeInv
<1> USE <1>0 DEF vlanVars, histVars, HomeInv, LoopInv, TableInv, TypeOK, TableIsChip,
                 InSession, HoldInv,
                 TestVlanInv, IsoInv, PvidInv, DiscardInv, Ending, Running, Vid
<1>1. CASE SessionStart
  BY <1>1 DEF SessionStart, ForceClearAll, RestoredPvid, RestoredVlans, Isolated,
                  NoIso
<1>2. CASE SessionEnd
  BY <1>2 DEF SessionEnd, HomePvid, ForwardingAgain, SetOn, NoIso
<1>3. CASE NextRun
  BY <1>3 DEF NextRun, NewProcess, chipVars, NoIso
<1>4. CASE Crash
  BY <1>4 DEF Crash, NewProcess, chipVars, NoIso
<1>5. CASE GroupUpL2
  BY <1>5 DEF GroupUpL2, TestVlanUp, Enable, SetOn
<1>6. CASE GroupUpL3
  BY <1>6 DEF GroupUpL3, SetOn
<1>7. CASE GroupDownL2
  BY <1>7 DEF GroupDownL2, TestVlanDown, Disable, SetOn
<1>8. CASE GroupDownL3
  BY <1>8 DEF GroupDownL3, SetOn
<1>9. CASE PlainSetup
  BY <1>9 DEF PlainSetup, chipVars, mgrVars
<1>10. ASSUME NEW k \in {"traffic", "l2net"}, TrafficSetup(k) PROVE HomeInv'
  BY <1>10 DEF TrafficSetup, SetOn
<1>11. CASE UseTestVlan
  BY <1>11 DEF UseTestVlan, TestVlanUp, SetOn
<1>12. CASE L2netSkip
  BY <1>12 DEF L2netSkip, chipVars, mgrVars
<1>13. ASSUME NEW p \in Role, BodyEnable(p) PROVE HomeInv'
  BY <1>13 DEF BodyEnable, Enable, pyVars
<1>14. ASSUME NEW p \in Role, BodyDisable(p) PROVE HomeInv'
  BY <1>14 DEF BodyDisable, Disable, pyVars
<1>15. ASSUME NEW p \in Role, NEW v \in IsoVids, EnableFloodSafe(p, v)
      PROVE HomeInv'
  BY <1>15 DEF EnableFloodSafe, MayIsolate, Enable, pyVars
<1>16. ASSUME NEW p \in Role, NEW v \in IsoVids, IsolatePvid(p, v)
      PROVE HomeInv'
  BY <1>16 DEF IsolatePvid, MayIsolate, pyVars
<1>17. ASSUME NEW p \in Role, RestorePvid(p) PROVE HomeInv'
  BY <1>17 DEF RestorePvid, RestoredPvid, RestoredVlans, pyVars
<1>18. ASSUME NEW p \in Role, DisableFloodSafe(p) PROVE HomeInv'
  BY <1>18 DEF DisableFloodSafe, Disable, RestoredPvid, RestoredVlans, pyVars
<1>19. CASE EdbEnable
  BY <1>19 DEF EdbEnable
<1>20. CASE EdbFinally
  BY <1>20 DEF EdbFinally, Disable
<1>21. CASE EndBody
  BY <1>21 DEF EndBody, MayEndBody, Isolated, chipVars, mgrVars, Kinds
<1>22. CASE DropTestVlan
  BY <1>22 DEF DropTestVlan, TestVlanDown, SetOn
<1>23. CASE TrafficDown
  BY <1>23 DEF TrafficDown, Disable
<1>24. CASE Guard
  BY <1>24 DEF Guard, ForceClearAll, RestoredPvid, RestoredVlans, Isolated, NoIso, chipVars
<1>25. ASSUME NEW p \in Block, PvidWriteback(p) PROVE HomeInv'
  BY <1>25 DEF PvidWriteback, mgrVars, pyVars
<1>26. CASE UNCHANGED vars
  BY <1>26 DEF vars
<1> QED
  BY <1>1, <1>2, <1>3, <1>4, <1>5, <1>6, <1>7, <1>8, <1>9, <1>10, <1>11,
     <1>12, <1>13, <1>14, <1>15, <1>16, <1>17, <1>18, <1>19, <1>20, <1>21,
     <1>22, <1>23, <1>24, <1>25, <1>26
  DEF Next, Body

-----------------------------------------------------------------------------
\* What the end of the session rests on, under every fault: what may be held and
\* why; an isolation on record between tests is one that the guard did not clear;
\* only role ports ever leave the default VLAN; and the test VLAN exists outside a
\* test or a group only when it was lost.
HeldInv ==
    /\ group = "none" => held \subseteq L3Ports /\ (held # {} => gateFailed = "yes")
    /\ group = "l2mod" => /\ held \ {PIn} \subseteq L3Ports
                          /\ held \ {PIn} # {} => gateFailed = "yes"
    /\ group = "l3" => held = L3Ports
    /\ stage \in {"closed", "vlan", "ended"} => group = "none"

RecordInv ==
    /\ \A p \in Port : iso[p] # NoVid =>
          \/ p \in orphans
          \/ stage \in {"body", "edb"}
          \/ stage \in Ending /\ held = {} /\ touched = "yes"
    /\ stage \in {"closed", "ended"} => \A p \in Port : iso[p] = NoVid
    /\ \A p \in Port \ Role : iso[p] = NoVid /\ pvid[p] = DefaultVid

LostInv ==
    /\ DefaultVid \in vlans
    /\ lost = "no" /\ testVlan = "none" => TestVid \notin vlans /\ cfgVlans = {}

RestInv ==
    /\ TableInv
    /\ HeldInv
    /\ TestVlanInv
    /\ RecordInv
    /\ LostInv
    /\ SessionLeavesBaseline

LEMMA RestInvInit == Init => RestInv
BY TableInvInit DEF Init, RestInv, HeldInv, TestVlanInv, RecordInv, LostInv, NoIso,
                    Ending, Running, SessionLeavesBaseline

\* Every step keeps it, on both kinds of OS and under every fault.
LEMMA RestInvStep ==
    ASSUME RestInv, [Next]_vars
    PROVE  RestInv'
<1>0. TableInv'
  BY TableInvStep DEF RestInv
<1> USE <1>0 DEF RestInv, TableInv, TypeOK, TableIsChip, InSession, HeldInv, TestVlanInv,
                 RecordInv, LostInv, Ending, Running, Stages, Kinds, Groups, Vid,
                 SessionLeavesBaseline, vlanVars, histVars
<1>1. CASE SessionStart
  <2>1. stage = "closed" /\ stage' = "idle"
    BY <1>1 DEF SessionStart
  <2>2. Isolated = {}
    BY <2>1 DEF Isolated
  <2>3. vlans' = vlans /\ pvid' = pvid
    BY <1>1, <2>2 DEF SessionStart, ForceClearAll, RestoredVlans, RestoredPvid
  <2>4. \A p \in Port : iso'[p] = NoVid
    BY <1>1 DEF SessionStart, ForceClearAll, NoIso
  <2>5. UNCHANGED <<testVlan, held, touched, kind, group, cfgVlans, lost,
                    gateFailed, orphans>>
    BY <1>1 DEF SessionStart
  <2> QED
    BY <2>1, <2>3, <2>4, <2>5
<1>2. CASE SessionEnd
  BY <1>2 DEF SessionEnd, HomePvid, ForwardingAgain, SetOn, NoIso
<1>3. CASE NextRun
  BY <1>3 DEF NextRun, NewProcess, chipVars, NoIso
<1>4. CASE Crash
  BY <1>4 DEF Crash, NewProcess, chipVars, NoIso
<1>5. CASE GroupUpL2
  BY <1>5 DEF GroupUpL2, TestVlanUp, Enable, SetOn
<1>6. CASE GroupUpL3
  BY <1>6 DEF GroupUpL3, SetOn
<1>7. CASE GroupDownL2
  BY <1>7 DEF GroupDownL2, TestVlanDown, Disable, SetOn
<1>8. CASE GroupDownL3
  BY <1>8 DEF GroupDownL3, SetOn
<1>9. CASE PlainSetup
  BY <1>9 DEF PlainSetup, chipVars, mgrVars
<1>10. ASSUME NEW k \in {"traffic", "l2net"}, TrafficSetup(k) PROVE RestInv'
  BY <1>10 DEF TrafficSetup, SetOn
<1>11. CASE UseTestVlan
  BY <1>11 DEF UseTestVlan, TestVlanUp, SetOn
<1>12. CASE L2netSkip
  BY <1>12 DEF L2netSkip, chipVars, mgrVars
<1>13. ASSUME NEW p \in Role, BodyEnable(p) PROVE RestInv'
  BY <1>13 DEF BodyEnable, Enable, pyVars
<1>14. ASSUME NEW p \in Role, BodyDisable(p) PROVE RestInv'
  BY <1>14 DEF BodyDisable, Disable, pyVars
<1>15. ASSUME NEW p \in Role, NEW v \in IsoVids, EnableFloodSafe(p, v)
      PROVE RestInv'
  BY <1>15 DEF EnableFloodSafe, MayIsolate, Enable, pyVars
<1>16. ASSUME NEW p \in Role, NEW v \in IsoVids, IsolatePvid(p, v)
      PROVE RestInv'
  BY <1>16 DEF IsolatePvid, MayIsolate, pyVars
<1>17. ASSUME NEW p \in Role, RestorePvid(p) PROVE RestInv'
  BY <1>17 DEF RestorePvid, RestoredPvid, RestoredVlans, pyVars
<1>18. ASSUME NEW p \in Role, DisableFloodSafe(p) PROVE RestInv'
  BY <1>18 DEF DisableFloodSafe, Disable, RestoredPvid, RestoredVlans, pyVars
<1>19. CASE EdbEnable
  BY <1>19 DEF EdbEnable
<1>20. CASE EdbFinally
  BY <1>20 DEF EdbFinally, Disable
<1>21. CASE EndBody
  BY <1>21 DEF EndBody, MayEndBody, Isolated, chipVars, mgrVars
<1>22. CASE DropTestVlan
  BY <1>22 DEF DropTestVlan, TestVlanDown, SetOn
<1>23. CASE TrafficDown
  BY <1>23 DEF TrafficDown, Disable
<1>24. CASE Guard
  BY <1>24 DEF Guard, ForceClearAll, RestoredPvid, RestoredVlans, Isolated, NoIso, chipVars
<1>25. ASSUME NEW p \in Block, PvidWriteback(p) PROVE RestInv'
  BY <1>25 DEF PvidWriteback, mgrVars, pyVars
<1>26. CASE UNCHANGED vars
  BY <1>26 DEF vars
<1> QED
  BY <1>1, <1>2, <1>3, <1>4, <1>5, <1>6, <1>7, <1>8, <1>9, <1>10, <1>11,
     <1>12, <1>13, <1>14, <1>15, <1>16, <1>17, <1>18, <1>19, <1>20, <1>21,
     <1>22, <1>23, <1>24, <1>25, <1>26
  DEF Next, Body

-----------------------------------------------------------------------------
(* Theorems.                                                               *)

\* The manager's tables and the modelled chip state keep their types, whatever
\* tests, platform or faults.
THEOREM TypeCorrect == Spec => []TypeOK
<1>1. TableInv /\ [Next]_vars => TableInv'
  BY TableInvStep
<1>2. TableInv => TypeOK
  BY DEF TableInv
<1> QED
  BY TableInvInit, <1>1, <1>2, PTL DEF Spec

\* Whatever tests do and whatever fails, within a session a port of this worker
\* loops exactly when the manager's _on table says so.
THEOREM TableMatchesChip == Spec => []TableIsChip
<1>1. TableInv /\ [Next]_vars => TableInv'
  BY TableInvStep
<1>2. TableInv => TableIsChip
  BY DEF TableInv
<1> QED
  BY TableInvInit, <1>1, <1>2, PTL DEF Spec

\* On both kinds of OS, and although tests may die anywhere, isolate twice or
\* abandon the test VLAN and the process may crash, every test outside a group
\* starts with no looped port.
THEOREM TestsStartLoopFree ==
    ASSUME "residue" \notin Faults, "gate" \notin Faults
    PROVE  Spec => []LoopFree
<1>1. LoopInv /\ [Next]_vars => LoopInv'
  BY LoopInvStep
<1>2. LoopInv => LoopFree
  BY DEF LoopInv, TableInv, TableIsChip, InSession, HoldInv, LoopFree
<1> QED
  BY LoopInvInit, <1>1, <1>2, PTL DEF Spec

\* On the chip-level OS, disciplined tests may die anywhere in a traffic test:
\* drop_test_vlan and force_clear_all bring every PVID home and remove every
\* VLAN before the next test.
THEOREM PvidsComeHome ==
    ASSUME Faults = {}, ~SwitchportOS
    PROVE  Spec => []PvidHome
<1>1. HomeInv /\ [Next]_vars => HomeInv'
  BY HomeInvStep
<1>2. HomeInv => PvidHome
  <2> SUFFICES ASSUME HomeInv, stage = "idle", group = "none"
               PROVE  (\A p \in Block : pvid[p] = DefaultVid) /\ vlans = {DefaultVid}
    BY DEF PvidHome
  <2>1. \A p \in Port : iso[p] = NoVid
    BY DEF HomeInv, IsoInv
  <2>2. testVlan = "none"
    BY DEF HomeInv, LoopInv, TableInv, TypeOK, TestVlanInv
  <2>3. \A p \in Block : pvid[p] = DefaultVid
    BY <2>1, <2>2 DEF HomeInv, LoopInv, TableInv, TypeOK, PvidInv, Vid
  <2>4. vlans = {DefaultVid}
    BY <2>1, <2>2 DEF HomeInv, LoopInv, TableInv, TypeOK, PvidInv, Vid
  <2> QED
    BY <2>3, <2>4
<1> QED
  BY HomeInvInit, <1>1, <1>2, PTL DEF Spec

\* Under the same assumptions no port is left dropping its ingress frames.
THEOREM DiscardsAreUndone ==
    ASSUME Faults = {}, ~SwitchportOS
    PROVE  Spec => []DiscardOff
<1>1. HomeInv /\ [Next]_vars => HomeInv'
  BY HomeInvStep
<1>2. HomeInv => DiscardOff
  BY DEF HomeInv, DiscardInv, DiscardOff
<1> QED
  BY HomeInvInit, <1>1, <1>2, PTL DEF Spec

\* After the session's teardown the switch is as it was found but for the three named
\* exceptions (a base whose gate failed, an isolation the guard did not clear, a test
\* VLAN that was lost), on both kinds of OS, for any ports and VLANs, whether or not
\* the test VLAN is on suite_reset's list, and under every fault.
THEOREM SessionsEndClean == Spec => []SessionLeavesBaseline
<1>1. RestInv /\ [Next]_vars => RestInv'
  BY RestInvStep
<1>2. RestInv => SessionLeavesBaseline
  BY DEF RestInv
<1> QED
  BY RestInvInit, <1>1, <1>2, PTL DEF Spec

\* No step of this worker, under any fault, changes a loopback of the other
\* worker's ports.
THEOREM OtherWorkerSafe == Spec => OtherWorkerUntouched
<1>1. TableInv /\ [Next]_vars => TableInv'
  BY TableInvStep
<1>2. TableInv /\ [Next]_vars => [looped' \ Block = looped \ Block]_vars
  <2> SUFFICES ASSUME TableInv, Next PROVE looped' \ Block = looped \ Block
    BY DEF vars
  <2> USE DEF TableInv, TypeOK
  <2>1. CASE SessionStart \/ Guard
    BY <2>1 DEF SessionStart, Guard, ForceClearAll, chipVars
  <2>2. CASE SessionEnd \/ NextRun \/ Crash
    BY <2>2 DEF SessionEnd, NextRun, Crash, NewProcess, chipVars
  <2>3. CASE GroupUpL2 \/ GroupUpL3 \/ GroupDownL2 \/ GroupDownL3
    BY <2>3 DEF GroupUpL2, GroupUpL3, GroupDownL2, GroupDownL3, Enable, Disable
  <2>4. CASE \/ \E k \in {"traffic", "l2net"} : TrafficSetup(k)
             \/ PlainSetup \/ UseTestVlan \/ L2netSkip \/ EndBody
             \/ DropTestVlan \/ TrafficDown
             \/ \E p \in Block : PvidWriteback(p)
    BY <2>4 DEF TrafficSetup, PlainSetup, UseTestVlan, L2netSkip, EndBody,
                DropTestVlan, TrafficDown, PvidWriteback, Disable, chipVars
  <2>5. ASSUME NEW p \in Role, Body(p)
        PROVE  looped' \ Block = looped \ Block
    <3>1. looped' \in {looped, looped \cup {p}, looped \ {p}}
      BY <2>5 DEF Body, BodyEnable, BodyDisable, EnableFloodSafe, IsolatePvid,
                  RestorePvid, DisableFloodSafe, Enable, Disable
    <3> QED
      BY <3>1
  <2>6. CASE EdbEnable \/ EdbFinally
    BY <2>6 DEF EdbEnable, EdbFinally, Disable
  <2> QED
    BY <2>1, <2>2, <2>3, <2>4, <2>5, <2>6 DEF Next
<1> QED
  BY TableInvInit, <1>1, <1>2, PTL DEF Spec, OtherWorkerUntouched
=============================================================================

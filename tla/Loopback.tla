------------------------------ MODULE Loopback ------------------------------
(***************************************************************************)
(* The chip-loopback manager of the framework (framework/loopback.py) and  *)
(* the pytest fixtures that drive it (conftest.py).                        *)
(*                                                                         *)
(* A test opens internal loopbacks on ports, moves their ingress PVID into *)
(* isolate VLANs or into a dedicated test VLAN, and is expected to leave   *)
(* none of it behind, whether it passes, fails or dies.  The manager keeps *)
(* what it must undo in Python dictionaries; the truth is in the chip.     *)
(* This module models both, the manager's methods, and the order in which  *)
(* pytest runs the fixtures around a test body.                            *)
(*                                                                         *)
(* Everything is single-threaded except the switch software, which may     *)
(* write a port's PVID back to the default VLAN at any time, and a second  *)
(* worker process, which owns the ports outside Block.                     *)
(***************************************************************************)
EXTENDS FiniteSets

CONSTANTS
    Port,           \* the front-panel ports of the switch
    Block,          \* the ports of this worker (worker_pbm), all when not parallel
    Role,           \* the ports of the roles a..h, which tests use
    PIn, POut,      \* the two ports of the traffic fixture
    TestPorts,      \* the ports of the dedicated test VLAN (l2net, l2net_mod)
    L3Ports,        \* the ports of the module-level L3 base (l3net)
    DefaultVid,     \* the default VLAN of the ports
    TestVid,        \* the VLAN of use_test_vlan
    IsoVids,        \* the VLANs tests pass as isolate_vid
    Listed,         \* the VLANs suite_reset destroys at the chip
    NoVid,          \* "no entry" in the manager's tables
    ByDiscard,      \* the iso=None entry: isolation by discard=all
    SwitchportOS,   \* cli.is_switchport_os()
    Faults          \* what may go wrong: a subset of FaultKinds

FaultKinds ==
    { "reisolate",  \* a test isolates a port that is already isolated
      "abandon",    \* an l2net test dies with isolated ports
      "residue",    \* a test under a group hold dies with loopbacks open
      "gate",       \* l3net's unbridged gate fails after some ports are held
      "crash" }     \* the pytest process dies

ASSUME PortAssumption ==
    /\ Block \subseteq Port
    /\ PIn \in TestPorts /\ POut \in TestPorts
    /\ TestPorts \subseteq Role
    /\ L3Ports \subseteq Role
    /\ Role \subseteq Block

ASSUME VidAssumption ==
    /\ DefaultVid # TestVid
    /\ DefaultVid \notin IsoVids
    /\ TestVid \notin IsoVids
    /\ IsoVids \subseteq Listed /\ DefaultVid \notin Listed
    /\ NoVid \notin IsoVids \cup {DefaultVid, TestVid}
    /\ ByDiscard \notin IsoVids \cup {DefaultVid, TestVid, NoVid}

ASSUME ModeAssumption ==
    /\ SwitchportOS \in BOOLEAN
    /\ Faults \subseteq FaultKinds

Vid == IsoVids \cup {DefaultVid, TestVid}

VARIABLES
    looped,     \* chip: ports with lb # none
    discarding, \* chip: ports with discard=all
    pvid,       \* chip: ingress default VLAN of each port
    vlans,      \* chip: VLANs that exist
    cfgVlans,   \* CONFIG_DB: test VLANs that are configured (switchport OS)
    on,         \* manager: keys of _on
    onDiscard,  \* manager: keys of _on whose discard flag is set
    iso,        \* manager: isolate VLAN in _flood_safe, or NoVid, or ByDiscard
    orig,       \* manager: PVID to restore, in _flood_safe
    testVlan,   \* manager: "up" when _test_vlan is set
    held,       \* manager: keys of _held
    touched,    \* manager: _touched, as "yes" or "no"
    stage,      \* where the pytest session stands
    kind,       \* the fixtures the current test uses
    group,      \* the module-level base that is up
    lost,       \* history: the test VLAN was left, by a drop that gave up or by a crash
    gateFailed, \* history: a gate of l3net failed in this process
    orphans     \* history: ports a test left isolated for a guard that does not clear

chipVars == <<looped, discarding, pvid, vlans>>
isoVars == <<iso, orig>>
mgrVars == <<on, onDiscard, iso, orig, testVlan, held, touched>>
pyVars == <<stage, kind, group>>
histVars == <<gateFailed, orphans>>
vlanVars == <<cfgVlans, lost>>
vars == <<looped, discarding, pvid, vlans, on, onDiscard, iso, orig,
          testVlan, held, touched, stage, kind, group,
          cfgVlans, lost, gateFailed, orphans>>

Stages == { "closed", "idle", "vlan", "body", "edb", "dropVlan",
            "trafficDown", "guard", "ended" }
Kinds == {"plain", "traffic", "l2net"}
Groups == {"none", "l2mod", "l3"}

TypeOK ==
    /\ looped \subseteq Port
    /\ discarding \subseteq Role
    /\ pvid \in [Port -> Vid]
    /\ vlans \subseteq Vid
    /\ on \subseteq Block
    /\ onDiscard \subseteq on
    /\ iso \in [Port -> IsoVids \cup {NoVid, ByDiscard}]
    /\ orig \in [Port -> Vid \cup {NoVid}]
    /\ testVlan \in {"none", "up"}
    /\ held \subseteq Block
    /\ touched \in {"yes", "no"}
    /\ stage \in Stages
    /\ kind \in Kinds
    /\ group \in Groups
    /\ cfgVlans \subseteq {TestVid}
    /\ lost \in {"yes", "no"}
    /\ gateFailed \in {"yes", "no"}
    /\ orphans \subseteq Port

-----------------------------------------------------------------------------
(* State formulas shared by the actions.                                   *)

Isolated == {p \in Port : iso[p] # NoVid}
InUse == {iso[p] : p \in Port} \cap IsoVids

\* f with the value v on the ports of S.
SetOn(f, S, v) == [p \in Port |-> IF p \in S THEN v ELSE f[p]]

\* The PVIDs after `pvlan set bcm orig` for every entry of _flood_safe in S.
\* An entry made by discard=all has orig=None: the diag shell rejects it.
RestoredPvid(S) ==
    [p \in Port |-> IF p \in S /\ iso[p] \in IsoVids THEN orig[p] ELSE pvid[p]]

\* The VLANs after `vlan destroy iso` for the same entries.
RestoredVlans(S) == vlans \ {iso[p] : p \in S}

NoIso == [p \in Port |-> NoVid]

-----------------------------------------------------------------------------
(* Methods of LoopbackManager, as the effect each has on chip and tables.  *)

\* Slips that enable could have: the port is not recorded in _on; _touched is
\* not set.
Enable_Unrecorded(p) ==
    looped' = looped \cup {p} /\ on' = on /\ onDiscard' = onDiscard /\ touched' = "yes"

Enable_Untouched(p) ==
    /\ looped' = looped \cup {p} /\ on' = on \cup {p} /\ onDiscard' = onDiscard \ {p}
    /\ touched' = touched

\* enable(p), default mode.
Enable(p) ==
    /\ looped' = looped \cup {p}
    /\ on' = on \cup {p}
    /\ onDiscard' = onDiscard \ {p}
    /\ touched' = "yes"

\* disable(S): discard is reset only for ports whose _on entry says so.
Disable(S) ==
    /\ discarding' = discarding \ (S \cap onDiscard)
    /\ looped' = looped \ S
    /\ on' = on \ S
    /\ onDiscard' = onDiscard \ S

\* A slip that force_clear_all could have: it forgets the isolated ports without
\* restoring them.
ForceClearAll_Forgets ==
    /\ iso' = NoIso /\ orig' = NoIso
    /\ looped' = (looped \ Block) \cup held /\ on' = held /\ onDiscard' = {}
    /\ UNCHANGED <<pvid, vlans, discarding>>

\* force_clear_all(): restore isolations, lb=none on this worker's block,
\* forget _on, then reopen the held ports.  Discard is never touched.
ForceClearAll ==
    /\ pvid' = RestoredPvid(Isolated)
    /\ vlans' = RestoredVlans(Isolated)
    /\ iso' = NoIso
    /\ orig' = NoIso
    /\ looped' = (looped \ Block) \cup held
    /\ on' = held
    /\ onDiscard' = {}
    /\ UNCHANGED discarding

-----------------------------------------------------------------------------
(* The session.                                                            *)

Init ==
    /\ looped \in SUBSET Port      \* left by an earlier run or by a second worker
    /\ discarding = {}
    /\ pvid = [p \in Port |-> DefaultVid]
    /\ vlans = {DefaultVid}
    /\ on = {} /\ onDiscard = {}
    /\ iso = NoIso /\ orig = NoIso
    /\ testVlan = "none"
    /\ held = {}
    /\ touched = "no"
    /\ stage = "closed" /\ kind = "plain" /\ group = "none"
    /\ cfgVlans = {} /\ lost = "no" /\ gateFailed = "no" /\ orphans = {}

\* _lb setup: a new manager, and one force_clear_all.
SessionStart ==
    /\ stage = "closed"
    /\ ForceClearAll
    /\ stage' = "idle"
    /\ UNCHANGED <<testVlan, held, touched, kind, group, vlanVars, histVars>>

\* reset_port_to_l2 for every role port, in suite_reset: the PVID goes home ...
HomePvid_Skipped == pvid
HomePvid == SetOn(pvid, Role, DefaultVid)

\* ... and discard=none.
ForwardingAgain == discarding \ Role

\* Session teardown: suite_reset puts the role ports home and destroys the VLANs on
\* its list, at the chip only: a test VLAN that is not on the list stays, and one
\* that is on the list but left in CONFIG_DB is gone from the chip alone.  Then _lb
\* runs cleanup and force_clear_all.  cleanup replays what is still in _flood_safe,
\* after suite_reset has reset the PVID; force_clear_all reopens what is held.
SessionEnd ==
    /\ stage = "idle" /\ group = "none"
    /\ pvid' = [p \in Port |-> IF iso[p] \in IsoVids THEN orig[p] ELSE HomePvid[p]]
    /\ vlans' = vlans \ Listed
    /\ discarding' = ForwardingAgain
    /\ looped' = (looped \ Block) \cup held
    /\ on' = held
    /\ onDiscard' = {}
    /\ iso' = NoIso /\ orig' = NoIso
    /\ stage' = "ended"
    /\ UNCHANGED <<testVlan, held, touched, kind, group, vlanVars, histVars>>

\* A new pytest process: empty tables, the chip as it was left.
NewProcess ==
    /\ on' = {} /\ onDiscard' = {}
    /\ iso' = NoIso /\ orig' = NoIso
    /\ testVlan' = "none"
    /\ held' = {}
    /\ touched' = "no"
    /\ stage' = "closed" /\ kind' = "plain" /\ group' = "none"
    /\ lost' = IF testVlan = "up" THEN "yes" ELSE lost
    /\ gateFailed' = "no" /\ orphans' = {}
    /\ UNCHANGED <<chipVars, cfgVlans>>

NextRun == stage = "ended" /\ NewProcess

Crash ==
    /\ "crash" \in Faults
    /\ stage \notin {"closed", "ended"}
    /\ NewProcess

-----------------------------------------------------------------------------
(* Module-level bases.                                                     *)

\* use_test_vlan.  On the chip-level OS the VLAN is created and the PVIDs set at the
\* chip.  On a switchport OS both go through the config level, and orchagent ends up
\* with the same membership and PVID, except for a VLAN that is still configured but
\* was destroyed at the chip behind orchagent's back: adding it again is a no-op.
TestVlanUp ==
    /\ testVlan' = "up"
    /\ cfgVlans' = IF SwitchportOS THEN {TestVid} ELSE cfgVlans
    /\ \/ /\ TestVid \notin cfgVlans \ vlans
          /\ vlans' = vlans \cup {TestVid}
          /\ pvid' = SetOn(pvid, TestPorts, TestVid)
       \/ /\ TestVid \in cfgVlans \ vlans
          /\ pvid' \in {pvid, SetOn(pvid, TestPorts, TestVid)}
          /\ UNCHANGED vlans
    /\ UNCHANGED lost

\* drop_test_vlan.  On a switchport OS the VLAN may survive the six attempts to
\* delete it, with a warning; the manager has already forgotten it.
TestVlanDown ==
    /\ testVlan' = "none"
    /\ pvid' = SetOn(pvid, TestPorts, DefaultVid)
    /\ \/ /\ vlans' = vlans \ {TestVid}
          /\ cfgVlans' = {} /\ lost' = "no"
       \/ /\ SwitchportOS
          /\ lost' = "yes"
          /\ UNCHANGED <<vlans, cfgVlans>>

\* l2net_mod: test VLAN, loop the ingress port, hold it.
GroupUpL2 ==
    /\ stage = "idle" /\ group = "none"
    /\ TestVlanUp
    /\ Enable(PIn)
    /\ held' = held \cup {PIn}
    /\ group' = "l2mod"
    /\ UNCHANGED <<discarding, iso, orig, stage, kind, histVars>>

\* l3net: reset each port to L2, wait for the ASIC to unbridge it, loop, hold.
\* When the gate fails the fixture raises before its yield: the ports built so
\* far stay held and its teardown never runs.
GroupUpL3 ==
    /\ stage = "idle" /\ group = "none"
    /\ \E built \in SUBSET L3Ports :
          \E tried \in SUBSET (L3Ports \ built) :
          /\ built # L3Ports => "gate" \in Faults /\ Cardinality(tried) = 1
          /\ pvid' = SetOn(pvid, built \cup tried, DefaultVid)
          /\ discarding' = discarding \ (built \cup tried)
          /\ looped' = (looped \ tried) \cup built
          /\ on' = (on \ tried) \cup built
          /\ onDiscard' = onDiscard \ (built \cup tried)
          /\ touched' = IF built = {} THEN touched ELSE "yes"
          /\ held' = held \cup built
          /\ group' = IF built = L3Ports THEN "l3" ELSE "none"
          /\ gateFailed' = IF built = L3Ports THEN gateFailed ELSE "yes"
    /\ UNCHANGED <<vlans, iso, orig, testVlan, stage, kind, vlanVars, orphans>>

\* Teardown of l2net_mod: release, disable, drop_test_vlan.
GroupDownL2 ==
    /\ stage = "idle" /\ group = "l2mod"
    /\ Disable({PIn})
    /\ TestVlanDown
    /\ held' = held \ {PIn}
    /\ group' = "none"
    /\ UNCHANGED <<iso, orig, touched, stage, kind, histVars>>

\* Teardown of l3net: release, disable, reset_port_to_l2.
GroupDownL3 ==
    /\ stage = "idle" /\ group = "l3"
    /\ looped' = looped \ L3Ports
    /\ on' = on \ L3Ports
    /\ onDiscard' = onDiscard \ L3Ports
    /\ discarding' = discarding \ L3Ports
    /\ pvid' = SetOn(pvid, L3Ports, DefaultVid)
    /\ held' = held \ L3Ports
    /\ group' = "none"
    /\ UNCHANGED <<vlans, iso, orig, testVlan, touched, stage, kind,
                   vlanVars, histVars>>

-----------------------------------------------------------------------------
(* Fixtures of one test.                                                   *)

\* A test that takes _lb and no data-plane fixture.
PlainSetup ==
    /\ stage = "idle"
    /\ kind' = "plain" /\ stage' = "body"
    /\ UNCHANGED <<chipVars, mgrVars, group, vlanVars, histVars>>

\* traffic: pre-clean both ports, PVID home, loop the ingress port, smoke check.
\* A failed smoke check raises before the yield, so only the guard follows.
TrafficSetup(k) ==
    /\ stage = "idle" /\ group = "none"
    /\ kind' = k
    /\ discarding' = discarding \ ({PIn, POut} \cap onDiscard)
    /\ looped' = (looped \ {POut}) \cup {PIn}
    /\ on' = (on \ {POut}) \cup {PIn}
    /\ onDiscard' = onDiscard \ {PIn, POut}
    /\ pvid' = SetOn(pvid, {PIn, POut}, DefaultVid)
    /\ touched' = "yes"
    /\ \/ stage' = IF k = "l2net" THEN "vlan" ELSE "body"
       \/ stage' = "guard"
    /\ UNCHANGED <<vlans, iso, orig, testVlan, held, group, vlanVars, histVars>>

\* l2net: use_test_vlan on the four ports.
UseTestVlan ==
    /\ stage = "vlan"
    /\ TestVlanUp
    /\ touched' = "yes"
    /\ stage' = "body"
    /\ UNCHANGED <<looped, discarding, on, onDiscard, iso, orig, held, kind, group,
                   histVars>>

\* l2net skips when there are not four distinct ports; traffic is torn down.
L2netSkip ==
    /\ stage = "vlan"
    /\ stage' = "trafficDown"
    /\ UNCHANGED <<chipVars, mgrVars, kind, group, vlanVars, histVars>>

-----------------------------------------------------------------------------
(* What a test body does with the manager.                                 *)

BodyEnable(p) ==
    /\ stage = "body"
    /\ Enable(p)
    /\ UNCHANGED <<discarding, pvid, vlans, iso, orig, testVlan, held, pyVars,
                   vlanVars, histVars>>

BodyDisable(p) ==
    /\ stage = "body"
    /\ p \notin held
    /\ Disable({p})
    /\ UNCHANGED <<pvid, vlans, iso, orig, testVlan, held, touched, pyVars,
                   vlanVars, histVars>>

\* A test gives each isolated port its own VLAN, and isolates it once.
MayIsolate(p, v) ==
    /\ \A q \in Port \ {p} : iso[q] # v
    /\ iso[p] # NoVid => "reisolate" \in Faults

\* enable_flood_safe(p, v): loop, and ingress PVID into the isolate VLAN.  The
\* PVID to restore is the one the chip shows now.
EnableFloodSafe(p, v) ==
    /\ stage = "body"
    /\ MayIsolate(p, v)
    /\ vlans' = vlans \cup {v}
    /\ pvid' = [pvid EXCEPT ![p] = v]
    /\ iso' = [iso EXCEPT ![p] = v]
    /\ orig' = [orig EXCEPT ![p] = pvid[p]]
    /\ Enable(p)
    /\ UNCHANGED <<discarding, testVlan, held, pyVars, vlanVars, histVars>>

\* isolate_pvid(p, v) on a looped port.  _touched is left alone.
IsolatePvid(p, v) ==
    /\ stage = "body"
    /\ p \in looped
    /\ MayIsolate(p, v)
    /\ \/ /\ SwitchportOS
          /\ discarding' = discarding \cup {p}
          /\ iso' = [iso EXCEPT ![p] = ByDiscard]
          /\ orig' = [orig EXCEPT ![p] = NoVid]
          /\ UNCHANGED <<pvid, vlans>>
       \/ /\ ~SwitchportOS
          /\ vlans' = vlans \cup {v}
          /\ pvid' = [pvid EXCEPT ![p] = v]
          /\ iso' = [iso EXCEPT ![p] = v]
          /\ orig' = [orig EXCEPT ![p] = pvid[p]]
          /\ UNCHANGED discarding
    /\ UNCHANGED <<looped, on, onDiscard, testVlan, held, touched, pyVars,
                   vlanVars, histVars>>

\* restore_pvid(p): undo isolate_pvid, leave the loopback.
RestorePvid(p) ==
    /\ stage = "body"
    /\ iso[p] # NoVid
    /\ pvid' = RestoredPvid({p})
    /\ vlans' = RestoredVlans({p})
    /\ discarding' = IF iso[p] = ByDiscard THEN discarding \ {p} ELSE discarding
    /\ iso' = [iso EXCEPT ![p] = NoVid]
    /\ orig' = [orig EXCEPT ![p] = NoVid]
    /\ UNCHANGED <<looped, on, onDiscard, testVlan, held, touched, pyVars,
                   vlanVars, histVars>>

\* disable_flood_safe(p): restore, then disable; no case for iso=None.
DisableFloodSafe(p) ==
    /\ stage = "body"
    /\ p \notin held
    /\ pvid' = RestoredPvid({p})
    /\ vlans' = RestoredVlans({p})
    /\ iso' = [iso EXCEPT ![p] = NoVid]
    /\ orig' = [orig EXCEPT ![p] = NoVid]
    /\ Disable({p})
    /\ UNCHANGED <<testVlan, held, touched, pyVars, vlanVars, histVars>>

\* Traffic.forward_edb: loop both ports, discard on the egress one ...
EdbEnable ==
    /\ stage = "body"
    /\ {PIn, POut} \cap held = {}
    /\ looped' = looped \cup {PIn, POut}
    /\ on' = on \cup {PIn, POut}
    /\ onDiscard' = (onDiscard \ {PIn}) \cup {POut}
    /\ discarding' = discarding \cup {POut}
    /\ touched' = "yes"
    /\ stage' = "edb"
    /\ UNCHANGED <<pvid, vlans, iso, orig, testVlan, held, kind, group,
                   vlanVars, histVars>>

\* ... and its finally clause.
EdbFinally ==
    /\ stage = "edb"
    /\ Disable({PIn, POut})
    /\ stage' = "body"
    /\ UNCHANGED <<pvid, vlans, iso, orig, testVlan, held, touched, kind, group,
                   vlanVars, histVars>>

\* The body ends: it returns, an assertion fails, or an exception skips its
\* finally clauses.  What it may leave behind depends on the faults assumed.
MayEndBody ==
    /\ kind = "l2net" /\ "abandon" \notin Faults => Isolated = {}
    /\ held # {} /\ "residue" \notin Faults => Isolated = {} /\ on \subseteq held

EndBody ==
    /\ stage = "body"
    /\ MayEndBody
    /\ stage' = CASE kind = "l2net" -> "dropVlan"
                  [] kind = "traffic" -> "trafficDown"
                  [] kind = "plain" -> "guard"
    /\ orphans' = IF held = {} /\ touched = "yes" THEN orphans ELSE orphans \cup Isolated
    /\ UNCHANGED <<chipVars, mgrVars, kind, group, vlanVars, gateFailed>>

-----------------------------------------------------------------------------
(* Finalizers, in the order pytest runs them.                              *)

\* l2net: drop_test_vlan.
DropTestVlan ==
    /\ stage = "dropVlan"
    /\ TestVlanDown
    /\ stage' = "trafficDown"
    /\ UNCHANGED <<looped, discarding, on, onDiscard, iso, orig, held, touched,
                   kind, group, histVars>>

\* traffic: disable both ports.
TrafficDown ==
    /\ stage = "trafficDown"
    /\ Disable({PIn, POut})
    /\ stage' = "guard"
    /\ UNCHANGED <<pvid, vlans, iso, orig, testVlan, held, touched, kind, group,
                   vlanVars, histVars>>

\* _per_test_lb_guard, the last finalizer of every test.
Guard ==
    /\ stage = "guard"
    /\ touched' = "no"
    /\ stage' = "idle" /\ kind' = "plain"
    /\ \/ /\ held = {} /\ touched = "yes"
          /\ ForceClearAll
       \/ /\ held # {} \/ touched = "no"
          /\ UNCHANGED <<chipVars, on, onDiscard, iso, orig>>
    /\ UNCHANGED <<testVlan, held, group, vlanVars, histVars>>

\* vlanorch / portmgr write the chip PVID back asynchronously.
PvidWriteback(p) ==
    /\ pvid[p] # DefaultVid
    /\ pvid' = [pvid EXCEPT ![p] = DefaultVid]
    /\ UNCHANGED <<looped, discarding, vlans, mgrVars, pyVars, vlanVars, histVars>>

-----------------------------------------------------------------------------
Body(p) ==
    \/ BodyEnable(p)
    \/ BodyDisable(p)
    \/ \E v \in IsoVids : EnableFloodSafe(p, v) \/ IsolatePvid(p, v)
    \/ RestorePvid(p)
    \/ DisableFloodSafe(p)

Next ==
    \/ SessionStart \/ SessionEnd \/ NextRun \/ Crash
    \/ GroupUpL2 \/ GroupUpL3 \/ GroupDownL2 \/ GroupDownL3
    \/ PlainSetup
    \/ \E k \in {"traffic", "l2net"} : TrafficSetup(k)
    \/ UseTestVlan \/ L2netSkip
    \/ \E p \in Role : Body(p)
    \/ EdbEnable \/ EdbFinally \/ EndBody
    \/ DropTestVlan \/ TrafficDown \/ Guard
    \/ \E p \in Block : PvidWriteback(p)

Spec == Init /\ [][Next]_vars

-----------------------------------------------------------------------------
(* Properties.                                                             *)

InSession == stage \notin {"closed", "ended"}

\* The _on table is the truth about the chip: within a session a port of this
\* worker loops exactly when the manager has it in _on, so a cleanup driven by
\* the table misses no loopback.
TableIsChip == InSession => looped \cap Block = on

\* Outside a module-level base, every test starts with no looped port
\* (conftest.py _per_test_lb_guard: "every test starts from a clean loopback
\* baseline and leaves no residue for the next").
LoopFree == stage = "idle" /\ group = "none" => looped \cap Block = {}

\* Between tests of no group, every PVID is home and every VLAN a test made is
\* gone: drop_test_vlan and force_clear_all together undo use_test_vlan,
\* enable_flood_safe and isolate_pvid, in whatever order they run.
PvidHome ==
    stage = "idle" /\ group = "none" =>
        /\ \A p \in Block : pvid[p] = DefaultVid
        /\ vlans = {DefaultVid}

\* Between tests of no group, no port drops its ingress frames: the discard=all
\* of isolate_pvid (switchport OS) and of enable(discard=True) is undone.
DiscardOff == stage = "idle" /\ group = "none" => discarding = {}

\* After the session teardown the switch is as it was found, whatever tests did and
\* whatever went wrong (conftest.py _lb: "leaving no residue for the next run"),
\* with three exceptions that the code has and that this names exactly: a port keeps
\* its loopback only when a gate of l3net failed and left it held; a PVID is away
\* from home only where a test left its port isolated and the guard did not clear,
\* because of a hold or an unset _touched (cleanup replays that record after
\* suite_reset has put the PVID home); and the test VLAN is still in the chip or in
\* CONFIG_DB only when its last drop gave up or a process died with it.
SessionLeavesBaseline ==
    stage = "ended" =>
        /\ looped \cap Block = held
        /\ held # {} => gateFailed = "yes" /\ held \subseteq L3Ports
        /\ discarding = {}
        /\ \A p \in Block \ orphans : pvid[p] = DefaultVid
        /\ vlans \cap IsoVids = {}
        /\ lost = "no" => vlans = {DefaultVid} /\ cfgVlans = {}

\* No step of this worker changes the loopback of a port that belongs to the
\* other worker, not even the "clear everything" of force_clear_all.
OtherWorkerUntouched ==
    [][looped' \ Block = looped \ Block]_vars

=============================================================================

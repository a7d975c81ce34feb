------------------------------ MODULE PortMode ------------------------------
(***************************************************************************)
(* Switching ports between L2 and L3 on a switchport OS: the `_bridged`    *)
(* cache and the rewriting of commands in framework/cli.py, the way home   *)
(* of framework/hygiene.py, and the l3up fixture, the session baseline and *)
(* the self-heal guard of conftest.py.                                     *)
(*                                                                         *)
(* Ports of this OS are routed by default.  A session turns them into L2   *)
(* ports, tests turn them back and forth with whatever commands they like, *)
(* a guard after every test brings home the ones that are left routed, and *)
(* the end of the session makes every port routed again.  What a command   *)
(* does to a port is modelled from the comments in cli.py; a refused       *)
(* command leaves the port alone.  The ASIC follows the configuration      *)
(* later.                                                                  *)
(***************************************************************************)
CONSTANTS
    Port,        \* the role ports
    BasePorts,   \* the ports of the module-level L3 base (l3net)
    UserVid,     \* VLANs that tests make
    Berth,       \* Vlan1, where an access port parks
    Home,        \* topo.default_vlan: Berth, or the private VLAN of a worker >= 2
    StpLocked,   \* STP is on and cannot be turned off
    BerthDelOk   \* `vlan member del 1` is legal on this platform

ASSUME PortModeAssumption ==
    /\ BasePorts \subseteq Port
    /\ Berth \notin UserVid /\ Home \notin UserVid
    /\ StpLocked \in BOOLEAN /\ BerthDelOk \in BOOLEAN
    /\ StpLocked => ~BerthDelOk    \* _fixup (9): such a CLI rejects VLAN 1

Vlan == UserVid \cup {Berth, Home}

\* What CONFIG_DB holds about a port, and whether cli._bridged has it.
PortState ==
    [mode : {"route", "access", "hybrid"},  \* PORT.link_mode
     members : SUBSET Vlan,                 \* VLAN_MEMBER|*|port
     marker : BOOLEAN,                      \* a bare INTERFACE|port row
     addr : BOOLEAN,                        \* INTERFACE|port|ip rows
     vrf : BOOLEAN,                         \* vrf_name in the bare row
     cached : BOOLEAN]                      \* in _bridged

VARIABLES
    cfg,      \* the ports
    asic,     \* VLAN membership as programmed in the ASIC
    looped,   \* ports with an open loopback
    stage,    \* "closed", "idle", "test", "down", "guard" or "ended"
    pre,      \* the guard's record of ports routed before the test
    base,     \* ports of the module-level base that is up
    held,     \* _held of the loopback manager
    left,     \* ports that a failed l3net has left routed, until a test
              \* starts without them routed
    created,  \* ports that l3up has handed out
    job       \* the step l3up is in, and its port

vars == <<cfg, asic, looped, stage, pre, base, held, left, created, job>>

Steps == {"none", "detach", "address", "gate"}
NoJob == [step |-> "none", port |-> {}]

TypeOK ==
    /\ cfg \in [Port -> PortState]
    /\ asic \in [Port -> SUBSET Vlan]
    /\ looped \subseteq Port
    /\ stage \in {"closed", "idle", "test", "down", "guard", "ended"}
    /\ pre \subseteq Port /\ base \subseteq Port /\ held \subseteq Port
    /\ left \subseteq Port /\ created \subseteq Port
    /\ job \in [step : Steps, port : SUBSET Port]

Routed(c) == c.marker \/ c.addr

-----------------------------------------------------------------------------
(* What the commands of the switch do to a port.                           *)

\* config interface link-mode <port> route: the berth is left by itself.
LinkRoute(c) ==
    IF c.marker \/ c.mode = "hybrid" \/ c.members \ {Berth} # {} THEN c
    ELSE [c EXCEPT !.mode = "route", !.marker = TRUE, !.members = {}]

\* config interface link-mode <port> bridge: converts only a marked port.
LinkBridge(c) ==
    IF ~c.marker \/ c.addr \/ c.vrf THEN c
    ELSE [c EXCEPT !.mode = "access", !.marker = FALSE, !.members = {Berth}]

\* config switchport mode access / hybrid <port>
SwitchAccess(c) ==
    IF c.mode = "hybrid" THEN [c EXCEPT !.mode = "access", !.members = {Berth}] ELSE c
SwitchHybrid(c) ==
    IF c.mode = "access" /\ ~c.marker THEN [c EXCEPT !.mode = "hybrid"] ELSE c

\* config vlan member add <v> <port>: an access port moves, a hybrid port joins.
MemberAdd(c, v) ==
    IF c.marker \/ c.mode = "route" \/ v = Berth \/ (c.mode = "access" /\ StpLocked) THEN c
    ELSE [c EXCEPT !.members = IF c.mode = "hybrid" THEN @ \cup {v} ELSE {v}]

\* config vlan member del <v> <port>: an access port goes back to its berth.
MemberDel(c, v) ==
    IF v \notin c.members \/ (v = Berth /\ ~BerthDelOk) THEN c
    ELSE IF v = Berth \/ c.mode = "hybrid" THEN [c EXCEPT !.members = @ \ {v}]
    ELSE IF StpLocked THEN c ELSE [c EXCEPT !.members = {Berth}]

\* config interface ip add <port>: refused off route mode, and on an access
\* port the refusal plants a bare marker.
IpAdd(c) ==
    IF c.mode = "route" THEN [c EXCEPT !.addr = TRUE, !.marker = TRUE]
    ELSE IF c.mode = "access" THEN [c EXCEPT !.marker = TRUE] ELSE c

IpDel(c) == [c EXCEPT !.addr = FALSE]
VrfBind(c) == IF c.mode = "route" /\ c.marker THEN [c EXCEPT !.vrf = TRUE] ELSE c
VrfUnbind(c) == [c EXCEPT !.vrf = FALSE]

-----------------------------------------------------------------------------
(* framework/cli.py.                                                       *)

Uncache(c) == [c EXCEPT !.cached = FALSE]

\* _hybrid_ladder_add and _hybrid_ladder_del
LadderAdd(c, v) == Uncache(MemberAdd(SwitchHybrid(c), v))
LadderDel(c, v) == Uncache(SwitchAccess(MemberDel(c, v)))

\* config_raw("vlan member del <v> <port>"), after _fixup.
CliMemberDel(c, v) ==
    IF StpLocked /\ v # Berth /\ c.mode = "hybrid" THEN LadderDel(c, v)
                                                   ELSE MemberDel(c, v)

\* `vlan member del` for every VLAN_MEMBER row of the port.  Once a ladder
\* port is back in its berth the other rows are gone.
DelAllMembers(c) ==
    IF c.mode = "hybrid"
    THEN IF StpLocked /\ c.members \ {Berth} # {}
         THEN Uncache(SwitchAccess(c))
         ELSE [c EXCEPT !.members = IF BerthDelOk THEN {} ELSE @ \cap {Berth}]
    ELSE IF c.members = {} THEN c
    ELSE CliMemberDel(c, CHOOSE v \in c.members : TRUE)

IsPortL2(c) ==
    Berth \in c.members \/ (c.mode \in {"access", "hybrid"} /\ ~c.marker)

\* A slip: a hybrid port is not taken to access mode first.
RestoreBridgeHome_NoAccess(c) == LinkBridge(LinkRoute(VrfUnbind(IpDel(DelAllMembers(c)))))

\* _restore_bridge_home: members, addresses and VRF off; a hybrid port goes home
\* by itself; any other by route and bridge.
RestoreBridgeHome(c) ==
    LET bare == VrfUnbind(IpDel(DelAllMembers(c)))
        home == SwitchAccess(bare)
    IN IF bare.mode = "hybrid" /\ IsPortL2(home) THEN home
       ELSE LinkBridge(LinkRoute(home))

\* ensure_port_l2
EnsurePortL2(c) ==
    IF c.cached THEN c
    ELSE LET home == RestoreBridgeHome(c) IN [home EXCEPT !.cached = IsPortL2(home)]

\* restore_port_l3, with the repair of a port that carries a stale marker.
RestorePortL3(c) ==
    LET route == LinkRoute(DelAllMembers(c))
        wedged == Berth \in c.members /\ ~BerthDelOk /\ Berth \in route.members /\ route.marker
    IN Uncache(IF wedged THEN LinkRoute([route EXCEPT !.marker = FALSE]) ELSE route)

\* config_raw("vlan member add -u <v> <port>"), after _fixup.
CliAddUntagged(c, v) ==
    IF v = Berth
    THEN IF c.mode = "access" /\ Berth \in c.members THEN c ELSE RestoreBridgeHome(c)
    ELSE LET l2 == EnsurePortL2(c)
         IN IF l2.mode # "hybrid" /\ StpLocked THEN LadderAdd(l2, v) ELSE MemberAdd(l2, v)

\* config_raw("vlan member add <v> <port>"), after _fixup.
CliAddTagged(c, v) == MemberAdd(Uncache(SwitchHybrid(EnsurePortL2(c))), v)

\* config("interface ip add <port> ..."), after _fixup.
CliIpAdd(c) == IpAdd(RestorePortL3(c))
CliVrfBind(c) == VrfBind(RestorePortL3(c))

-----------------------------------------------------------------------------
(* framework/hygiene.py.                                                   *)

\* A slip: the port is not put into its default VLAN.
ResetPortToL2_NoHome(c) == EnsurePortL2(c)

\* reset_port_to_l2, configuration part.
ResetPortToL2(c) ==
    LET l2 == EnsurePortL2(c)
    IN IF Home \in l2.members THEN l2 ELSE CliAddUntagged(l2, Home)

ResetPorts(S) ==
    /\ cfg' = [p \in Port |-> IF p \in S THEN ResetPortToL2(cfg[p]) ELSE cfg[p]]
    /\ looped' = looped \ S

\* purge_orphan_l3_rows on one port: a bare row with no VRF is deleted.
PurgeOrphanRow(c) == IF c.addr \/ c.vrf THEN c ELSE [c EXCEPT !.marker = FALSE]

-----------------------------------------------------------------------------
(* The session.                                                            *)

\* A port as the device boots.
Default == [mode |-> "route", members |-> {}, marker |-> TRUE,
            addr |-> FALSE, vrf |-> FALSE, cached |-> FALSE]

\* A port that was given an address in access mode, by hand or by an earlier run.
Wedged == [Default EXCEPT !.mode = "access", !.members = {Berth}]

Init ==
    /\ cfg \in [Port -> {Default, Wedged}]
    /\ asic = [p \in Port |-> {}]
    /\ looped = {}
    /\ stage = "closed"
    /\ pre = {} /\ base = {} /\ held = {} /\ left = {} /\ created = {} /\ job = NoJob

\* _suite_baseline setup.  A worker >= 2 first moves its ports into its own VLAN
\* and gives up at the first that does not get there; then every role port is
\* homed.  _lb has cleared the loopbacks.
Moved(c) ==
    IF Home = Berth THEN c ELSE CliAddUntagged(CliMemberDel(c, Berth), Home)

SessionStart ==
    LET stuck == {p \in Port : Home # Berth /\ Home \notin Moved(cfg[p]).members}
    IN /\ stage = "closed"
       /\ looped' = {}
       /\ IF stuck = {}
          THEN /\ cfg' = [p \in Port |-> EnsurePortL2(Moved(cfg[p]))]
               /\ stage' = "idle"
          ELSE /\ \E q \in stuck, S \in SUBSET (Port \ stuck) :
                     cfg' = [p \in Port |-> IF p \in S \cup {q} THEN Moved(cfg[p]) ELSE cfg[p]]
               /\ stage' = "ended"
       /\ UNCHANGED <<asic, pre, base, held, left, created, job>>

\* A slip: ports are restored before suite_reset has made them L2 once more.
LeftAtEnd_Early(c) ==
    LET routed == IF c.cached THEN RestorePortL3(c) ELSE c IN ResetPortToL2(routed)

\* _suite_baseline teardown: suite_reset, out of the private VLAN, and every
\* port of _bridged back to route.
LeftAtEnd(c) ==
    LET reset == ResetPortToL2(c)
        l2 == IF Home = Berth THEN reset
              ELSE CliAddUntagged(CliMemberDel(reset, Home), Berth)
    IN IF l2.cached THEN RestorePortL3(l2) ELSE l2

SessionEnd ==
    /\ stage = "idle" /\ base = {}
    /\ cfg' = [p \in Port |-> LeftAtEnd(cfg[p])]
    /\ looped' = {}
    /\ stage' = "ended"
    /\ UNCHANGED <<asic, pre, base, held, left, created, job>>

\* The pytest process is gone, in good order or not, and another one starts.
NewProcess ==
    /\ stage # "closed"
    /\ cfg' = [p \in Port |-> Uncache(cfg[p])]
    /\ stage' = "closed"
    /\ pre' = {} /\ base' = {} /\ held' = {} /\ left' = {} /\ created' = {} /\ job' = NoJob
    /\ UNCHANGED <<asic, looped>>

\* l3up and l3net: leave the default VLAN, unless it is the berth; then the address.
Detach(c) == IF Home = Berth THEN c ELSE CliMemberDel(c, Home)
Addressed(c) == CliIpAdd(Detach(ResetPortToL2(c)))

\* l3net: every address is taken, and the gate of every port passes.
BaseUp ==
    /\ stage = "idle" /\ base = {} /\ BasePorts # {}
    /\ \A p \in BasePorts : Addressed(cfg[p]).addr /\ Addressed(cfg[p]).members = {}
    /\ cfg' = [p \in Port |-> IF p \in BasePorts THEN Addressed(cfg[p]) ELSE cfg[p]]
    /\ asic' = [p \in Port |-> IF p \in BasePorts THEN {} ELSE asic[p]]
    /\ looped' = looped \cup BasePorts
    /\ base' = BasePorts /\ held' = held \cup BasePorts /\ left' = left \ BasePorts
    /\ UNCHANGED <<stage, pre, created, job>>

\* l3net raises at port q, refused an address or still in a VLAN of the ASIC: it
\* has no teardown yet, and the ports in S stay held.
BaseFails(q) ==
    /\ stage = "idle" /\ base = {} /\ q \in BasePorts
    /\ ~Addressed(cfg[q]).addr \/ asic[q] # {}
    /\ \E S \in SUBSET (BasePorts \ {q}) :
          /\ \A p \in S : Addressed(cfg[p]).addr /\ Addressed(cfg[p]).members = {}
          /\ cfg' = [p \in Port |-> IF p \in S \cup {q} THEN Addressed(cfg[p]) ELSE cfg[p]]
          /\ asic' = [p \in Port |-> IF p \in S THEN {} ELSE asic[p]]
          /\ looped' = (looped \ {q}) \cup S
          /\ held' = held \cup S
          /\ left' = (left \ S) \cup {q}
    /\ UNCHANGED <<stage, pre, base, created, job>>

\* A fixture on top of l3net drops the address of a port and its bare row.
BasePurge(p) ==
    /\ stage = "idle" /\ p \in base
    /\ cfg' = [cfg EXCEPT ![p] = PurgeOrphanRow(IpDel(@))]
    /\ UNCHANGED <<asic, looped, stage, pre, base, held, left, created, job>>

\* l3net after its yield.
BaseDown ==
    /\ stage = "idle" /\ base # {}
    /\ ResetPorts(base)
    /\ base' = {} /\ held' = held \ base
    /\ UNCHANGED <<asic, stage, pre, left, created, job>>

-----------------------------------------------------------------------------
(* A test.                                                                 *)

\* _port_l2_baseline_guard before the yield.
TestStart ==
    /\ stage = "idle"
    /\ pre' = {p \in Port : Routed(cfg[p])}
    /\ left' = left \cap pre'
    /\ stage' = "test"
    /\ UNCHANGED <<cfg, asic, looped, base, held, created, job>>

\* The body runs a command on a port that no fixture has brought up.  Commands
\* pass through _fixup, which knows nothing of link-mode.
Commands(c) ==
    {CliAddUntagged(c, v) : v \in Vlan} \cup {CliAddTagged(c, v) : v \in UserVid}
    \cup {CliMemberDel(c, v) : v \in Vlan}
    \cup {CliIpAdd(c), IpDel(c), CliVrfBind(c), VrfUnbind(c)}
    \cup {LinkRoute(c), LinkBridge(c)}

Body(p) ==
    /\ stage = "test" /\ job = NoJob
    /\ p \notin held \cup created
    /\ \E c \in Commands(cfg[p]) : cfg' = [cfg EXCEPT ![p] = c]
    /\ UNCHANGED <<asic, looped, stage, pre, base, held, left, created, job>>

\* l3up(p): reset, detach, add the address, wait for the ASIC, open the loopback.
L3UpReset(p) ==
    /\ stage = "test" /\ job = NoJob
    /\ p \notin held \cup created
    /\ ResetPorts({p})
    /\ job' = [step |-> "detach", port |-> {p}]
    /\ UNCHANGED <<asic, stage, pre, base, held, left, created>>

L3UpDetach(p) ==
    /\ job = [step |-> "detach", port |-> {p}]
    /\ cfg' = [cfg EXCEPT ![p] = Detach(@)]
    /\ job' = [job EXCEPT !.step = "address"]
    /\ UNCHANGED <<asic, looped, stage, pre, base, held, left, created>>

\* A refused address raises: the test is over.
L3UpAddress(p) ==
    /\ job = [step |-> "address", port |-> {p}]
    /\ cfg' = [cfg EXCEPT ![p] = CliIpAdd(@)]
    /\ IF cfg'[p].addr THEN job' = [job EXCEPT !.step = "gate"] /\ UNCHANGED stage
                       ELSE job' = NoJob /\ stage' = "down"
    /\ UNCHANGED <<asic, looped, pre, base, held, left, created>>

\* A slip: the answer of wait_port_unbridged is not looked at.
L3UpEnable_Ungated(p) ==
    /\ job = [step |-> "gate", port |-> {p}]
    /\ looped' = looped \cup {p} /\ created' = created \cup {p} /\ job' = NoJob
    /\ UNCHANGED <<cfg, asic, stage, pre, base, held, left>>

\* wait_port_unbridged sees no VLAN membership.
L3UpEnable(p) ==
    /\ job = [step |-> "gate", port |-> {p}]
    /\ asic[p] = {}
    /\ looped' = looped \cup {p}
    /\ created' = created \cup {p}
    /\ job' = NoJob
    /\ UNCHANGED <<cfg, asic, stage, pre, base, held, left>>

\* It times out: the test fails with the port routed and not in `created`.
L3UpGateFails(p) ==
    /\ job = [step |-> "gate", port |-> {p}]
    /\ asic[p] # {}
    /\ job' = NoJob /\ stage' = "down"
    /\ UNCHANGED <<cfg, asic, looped, pre, base, held, left, created>>

\* The body returns or raises.
TestEnd ==
    /\ stage = "test" /\ job = NoJob
    /\ stage' = "down"
    /\ UNCHANGED <<cfg, asic, looped, pre, base, held, left, created, job>>

\* l3up teardown.
L3UpDown ==
    /\ stage = "down"
    /\ ResetPorts(created)
    /\ created' = {}
    /\ stage' = "guard"
    /\ UNCHANGED <<asic, pre, base, held, left, job>>

\* _port_l2_baseline_guard after the yield.
Drifted == {p \in Port : Routed(cfg[p])} \ (pre \cup held)

Guard ==
    /\ stage = "guard"
    /\ ResetPorts(Drifted)
    /\ pre' = {}
    /\ stage' = "idle"
    /\ UNCHANGED <<asic, base, held, left, created, job>>

\* orchagent catches up with the configuration of a port.
Program(p) ==
    /\ asic[p] # cfg[p].members
    /\ asic' = [asic EXCEPT ![p] = cfg[p].members]
    /\ UNCHANGED <<cfg, looped, stage, pre, base, held, left, created, job>>

Next ==
    \/ SessionStart \/ SessionEnd \/ NewProcess \/ BaseUp \/ BaseDown
    \/ TestStart \/ TestEnd \/ L3UpDown \/ Guard
    \/ \E p \in Port :
          \/ Body(p)
          \/ L3UpReset(p) \/ L3UpDetach(p) \/ L3UpAddress(p)
          \/ L3UpEnable(p) \/ L3UpGateFails(p)
          \/ BaseFails(p) \/ BasePurge(p) \/ Program(p)

Spec == Init /\ [][Next]_vars

-----------------------------------------------------------------------------
(* Properties.                                                             *)

\* Whatever commands a test has run and wherever it has died, after the guard no
\* role port is left routed, except held ports and those of a base that could not
\* be built (conftest.py: "even if a test fails / teardown is incomplete, the
\* environment returns to a clean baseline").
NotStranded ==
    stage = "idle" => \A p \in Port \ (held \cup left) : ~Routed(cfg[p])

\* A looped port that l3up or l3net has made a router port takes no part in any VLAN
\* of the ASIC, whatever orchagent still has to do: frames between two such ports
\* would be bridged for ever.
NoMixedLoop ==
    \A p \in created \cup held : p \in looped /\ Routed(cfg[p]) => asic[p] = {}

\* After the session every port is as the device ships, even if an earlier run
\* died with ports in any mode (conftest.py: "don't change the default config
\* after a run").
DefaultRestored ==
    stage = "ended" => \A p \in Port : Uncache(cfg[p]) = Default

\* l3up works on any port it is given: after its reset the port can take an
\* address, whichever mode earlier commands left it in.
L3UpNeverRefused ==
    \A p \in Port : job = [step |-> "address", port |-> {p}] => CliIpAdd(cfg[p]).addr
=============================================================================

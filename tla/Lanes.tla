------------------------------- MODULE Lanes -------------------------------
(***************************************************************************)
(* Several pytest processes on one switch (tools/run_lanes.sh): workers    *)
(* with their own ports and resources (framework/worker.py, dut.py,        *)
(* topology.py), an observing lane, and a serial tail.  Each worker shifts *)
(* VLAN ids, subnets and AS numbers by rules that are meant to keep the    *)
(* workers apart, and cleans up within its own share (hygiene.py and the   *)
(* session fixtures of conftest.py).                                       *)
(***************************************************************************)
EXTENDS Integers, FiniteSets

CONSTANTS
    Worker,        \* worker numbers, FVT_WORKER
    Port,          \* ports of the switch
    Block,         \* the profile's port block of a worker; Block[0]: a lone process
    Pool,          \* VLAN ids of the profile and the framework, before the shift
    Flushed,       \* those among them that flush_fdb clears
    Used,          \* those that the tests of the model use
    Octets,        \* second octets of the profile's 10.x subnets
    Hextets,       \* third hextets of its 2001:db8 subnets
    Asns,          \* AS numbers of the profile
    BaseVlan,      \* the default VLAN of the switch
    SwitchportOS

\* Lanes by number: the workers, 0 for the serial tail, Safe for the observer.
Safe == -1
Lane == Worker \cup {0, Safe}

\* The largest VLAN id and the largest hextet of an address.
MaxVid == 4094
MaxHextet == 65535

ASSUME WorkerAssumption ==
    /\ Worker \subseteq Nat \ {0}
    /\ Block \in [Worker \cup {0} -> SUBSET Port]
    /\ \A v, w \in Worker : v # w => Block[v] \cap Block[w] = {}
ASSUME VlanAssumption ==
    /\ Flushed \subseteq Pool /\ Used \subseteq Pool /\ Pool \subseteq 1..MaxVid
    /\ BaseVlan \in 1..MaxVid
ASSUME ViewAssumption ==
    /\ Octets \subseteq 0..255 /\ Hextets \subseteq 0..MaxHextet /\ Asns \subseteq Nat
ASSUME ModeAssumption == SwitchportOS \in BOOLEAN

VARIABLES
    phase,     \* of run_lanes.sh: "init", "parallel", "serial" or "done"
    lane,      \* where each process is
    home,      \* the default VLAN a port is an untagged member of, or Nowhere
    loops,     \* ports with a loopback
    fdb,       \* learned entries: VLAN and the lane whose test caused it
    static,    \* static entries, likewise
    qos        \* the lanes whose tests have FVT* QoS objects on the switch

chip == <<home, loops, fdb, static, qos>>
vars == <<phase, lane, chip>>

Nowhere == 0
Stages == {"waiting", "moving", "on", "home", "ended"}
Entry == [vid : Int, by : Lane]

TypeOK ==
    /\ phase \in {"init", "parallel", "serial", "done"}
    /\ lane \in [Lane -> Stages]
    /\ home \in [Port -> Int]
    /\ loops \subseteq Port
    /\ fdb \subseteq Entry /\ static \subseteq Entry
    /\ qos \subseteq Worker \cup {0}

-----------------------------------------------------------------------------
(* The resource view of a worker.                                          *)

IsParallel(w) == w > 0

remap_vid(w, v) ==
    IF w <= 1 THEN v
    ELSE IF v >= 3900 THEN v - 10 * (w - 1)
    ELSE v + 430 * (w - 1)

remap_default_vlan(w, dv) == IF w <= 1 THEN dv ELSE dv + 430 * (w - 1)

\* A slip: the overflow wraps around.
remap_ip4_Wrap(w, o) == (o + 100 * (w - 1)) % 256

\* The second octet of an address in 10.0.0.0/8; other addresses stay.
remap_ip4(w, o) ==
    LET up == o + 100 * (w - 1)
    IN IF w <= 1 THEN o ELSE IF up > 255 THEN o - 100 * (w - 1) ELSE up

remap_ip6(w, h) == IF w <= 1 THEN h ELSE h + 256 * (w - 1)

remap_asn(w, a) == IF w >= 2 THEN a + 10 * (w - 1) ELSE a

\* Topology.__init__: what the tests of a lane get to see.
Vids(w) == {remap_vid(w, v) : v \in Pool} \cup {remap_default_vlan(w, BaseVlan)}
Nets(w) == {<<"10", remap_ip4(w, o)>> : o \in Octets}
           \cup {<<"2001:db8", remap_ip6(w, h)>> : h \in Hextets}
AsNumbers(w) == {remap_asn(w, a) : a \in Asns}

\* worker_block: all ports when there is one process only.
Scope(w) == IF IsParallel(w) THEN Block[w] ELSE Port

\* The VLANs that flush_fdb and flush_dynamic clear, everything in a lone process.
Swept(w, E) ==
    IF IsParallel(w)
    THEN {e \in E : e.vid \in {remap_vid(w, v) : v \in Flushed}
                              \cup {remap_default_vlan(w, BaseVlan)}}
    ELSE E

-----------------------------------------------------------------------------
(* run_lanes.sh.                                                           *)

Init ==
    /\ phase = "init" /\ lane = [l \in Lane |-> "waiting"]
    /\ home = [p \in Port |-> BaseVlan]
    /\ loops \in SUBSET Port
    /\ fdb = {} /\ static = {} /\ qos = {}

\* Phase 0: all loopbacks off, dynamic entries cleared.
GlobalInit ==
    /\ phase = "init" /\ phase' = "parallel"
    /\ loops' = {} /\ fdb' = {}
    /\ UNCHANGED <<lane, home, static, qos>>

Move(l, s) == lane' = [lane EXCEPT ![l] = s]

\* wait for the three processes, then the tail.
StartSerial ==
    /\ phase = "parallel" /\ \A l \in Lane \ {0} : lane[l] = "ended"
    /\ phase' = "serial"
    /\ UNCHANGED <<lane, chip>>

Finish ==
    /\ phase = "serial" /\ lane[0] = "ended" /\ phase' = "done"
    /\ UNCHANGED <<lane, chip>>

MayStart(l) ==
    /\ lane[l] = "waiting"
    /\ phase = IF l = 0 THEN "serial" ELSE "parallel"

\* The observing lane leaves the chip alone.
SafeLane ==
    /\ MayStart(Safe) /\ Move(Safe, "ended")
    /\ UNCHANGED <<phase, chip>>

-----------------------------------------------------------------------------
(* The session of a worker or of the tail.                                 *)

\* _lb clears loopbacks; _suite_baseline clears entries in a lone process.
SessionStart(w) ==
    /\ MayStart(w)
    /\ Move(w, IF w >= 2 THEN "moving" ELSE "on")
    /\ loops' = loops \ Scope(w)
    /\ fdb' = IF IsParallel(w) THEN fdb ELSE {}
    /\ UNCHANGED <<phase, home, static, qos>>

\* A worker from 2 on moves its ports into its own flood domain, one by one.
MovePort(w, p) ==
    /\ lane[w] = "moving" /\ p \in Block[w] /\ home[p] = BaseVlan
    /\ home' = [home EXCEPT ![p] = remap_default_vlan(w, BaseVlan)]
    /\ UNCHANGED <<phase, lane, loops, fdb, static, qos>>

Moved(w) ==
    /\ lane[w] = "moving" /\ \A p \in Block[w] : home[p] = remap_default_vlan(w, BaseVlan)
    /\ Move(w, "on")
    /\ UNCHANGED <<phase, chip>>

\* The move of a port fails, after its removal or before it: pytest.exit, which
\* leaves only _lb to be torn down.
MoveFails(w, p) ==
    /\ lane[w] = "moving" /\ p \in Block[w] /\ home[p] = BaseVlan
    /\ Move(w, "ended")
    /\ \E v \in {BaseVlan, Nowhere} : home' = [home EXCEPT ![p] = v]
    /\ loops' = loops \ Scope(w)
    /\ UNCHANGED <<phase, fdb, static, qos>>

Loop(w, p) ==
    /\ lane[w] = "on" /\ p \in Block[w] /\ loops' = loops \cup {p}
    /\ UNCHANGED <<phase, lane, home, fdb, static, qos>>

Learn(w, v) ==
    /\ lane[w] = "on"
    /\ fdb' = fdb \cup {[vid |-> remap_vid(w, v), by |-> w]}
    /\ UNCHANGED <<phase, lane, home, loops, static, qos>>

StaticAdd(w, v) ==
    /\ lane[w] = "on"
    /\ static' = static \cup {[vid |-> remap_vid(w, v), by |-> w]}
    /\ UNCHANGED <<phase, lane, home, loops, fdb, qos>>

\* A test makes or undoes schedulers, WRED and buffer profiles; their names, FVT*,
\* are the same in every lane.
UseQos(w) ==
    /\ lane[w] = "on" /\ qos' \in {qos \cup {w}, qos \ {w}}
    /\ UNCHANGED <<phase, lane, home, loops, fdb, static>>

\* The body of a test runs `sonic-clear fdb all`, in the parallel phase too.
ClearFdb(w) ==
    /\ lane[w] = "on" /\ fdb' = {}
    /\ UNCHANGED <<phase, lane, home, loops, static, qos>>

\* A slip: the global clear, which is right for a lone process.
FlushFdb_All(w) ==
    /\ lane[w] = "on" /\ fdb' = {}
    /\ UNCHANGED <<phase, lane, home, loops, static, qos>>

\* The fixtures of a test clear what has been learned.
FlushFdb(w) ==
    /\ lane[w] = "on" /\ fdb' = fdb \ Swept(w, fdb)
    /\ UNCHANGED <<phase, lane, home, loops, static, qos>>

\* A slip: the ports go back before the loopbacks are off.
SuiteReset_Late(w) ==
    /\ lane[w] = "on" /\ Move(w, "home")
    /\ fdb' = fdb \ Swept(w, fdb)
    /\ static' = IF SwitchportOS THEN {} ELSE static
    /\ qos' \in SUBSET qos
    /\ UNCHANGED <<phase, home, loops>>

\* suite_reset; on a switchport OS it deletes every static entry there is, and on any
\* it sweeps the FVT* QoS objects, whoever made them; one that stays is warned about.
SuiteReset(w) ==
    /\ lane[w] = "on" /\ Move(w, "home")
    /\ loops' = loops \ Block[w]
    /\ fdb' = fdb \ Swept(w, fdb)
    /\ static' = IF SwitchportOS THEN {} ELSE static
    /\ qos' \in SUBSET qos
    /\ UNCHANGED <<phase, home>>

\* Back from the private VLAN, port by port; a refused add is only warned about.
MoveBack(w, p) ==
    /\ w >= 2 /\ lane[w] = "home" /\ p \in Block[w]
    /\ home[p] = remap_default_vlan(w, BaseVlan)
    /\ \E v \in {BaseVlan, Nowhere} : home' = [home EXCEPT ![p] = v]
    /\ UNCHANGED <<phase, lane, loops, fdb, static, qos>>

\* A slip: the teardown waits until every port is back.
SessionEnd_AllBack(w) ==
    /\ lane[w] = "home" /\ Move(w, "ended")
    /\ w < 2 \/ \A p \in Block[w] : home[p] = BaseVlan
    /\ loops' = loops \ Scope(w)
    /\ UNCHANGED <<phase, home, fdb, static, qos>>

\* The private VLAN is empty and goes; the last finalizer is _lb's.
SessionEnd(w) ==
    /\ lane[w] = "home" /\ Move(w, "ended")
    /\ w < 2 \/ \A p \in Block[w] : home[p] # remap_default_vlan(w, BaseVlan)
    /\ loops' = loops \ Scope(w)
    /\ UNCHANGED <<phase, home, fdb, static, qos>>

\* The process is killed.
Crash(w) ==
    /\ lane[w] \in {"moving", "on", "home"} /\ Move(w, "ended")
    /\ UNCHANGED <<phase, chip>>

Session(w) ==
    \/ SessionStart(w) \/ Moved(w)
    \/ \E p \in Port : MovePort(w, p) \/ MoveFails(w, p) \/ Loop(w, p) \/ MoveBack(w, p)
    \/ \E v \in Used : Learn(w, v) \/ StaticAdd(w, v)
    \/ UseQos(w) \/ ClearFdb(w) \/ FlushFdb(w) \/ SuiteReset(w) \/ SessionEnd(w) \/ Crash(w)

Next ==
    \/ GlobalInit \/ StartSerial \/ Finish \/ SafeLane
    \/ \E w \in Worker \cup {0} : Session(w)

\* run_lanes.sh goes on, and every process comes to its end.
Fairness ==
    /\ WF_vars(GlobalInit \/ StartSerial \/ Finish \/ SafeLane)
    /\ \A w \in Worker \cup {0} :
          /\ WF_vars(SessionStart(w) \/ Moved(w) \/ SuiteReset(w) \/ SessionEnd(w))
          /\ \A p \in Port : WF_vars(MovePort(w, p) \/ MoveBack(w, p))

Spec == Init /\ [][Next]_vars /\ Fairness

-----------------------------------------------------------------------------
(* Properties.                                                             *)

Live(w) == lane[w] \notin {"waiting", "ended"}

\* A running worker's VLAN ids, octets and hextets are legal values, and two workers
\* that run at the same time have none of them and no AS number in common (worker.py:
\* "statically audited as disjoint").
ViewsDisjoint ==
    /\ \A w \in Worker : Live(w) =>
          /\ Vids(w) \subseteq 1..MaxVid
          /\ Nets(w) \subseteq ({"10"} \X (0..255)) \cup ({"2001:db8"} \X (0..MaxHextet))
    /\ \A v, w \in Worker : Live(v) /\ Live(w) /\ v # w =>
          /\ Vids(v) \cap Vids(w) = {}
          /\ Nets(v) \cap Nets(w) = {}
          /\ AsNumbers(v) \cap AsNumbers(w) = {}

\* What the audit of a profile has to rule out for the two workers of run_lanes.sh:
\* two numbers at the distance of a shift, and a shift out of the range.
Audited ==
    LET ids == Pool \cup {BaseVlan}
        low == {v \in Pool : v < 3900} \cup {BaseVlan}
        high == {v \in Pool : v >= 3900}
    IN /\ \A a \in ids, b \in low : a # b + 430 /\ b + 430 <= MaxVid
       /\ \A a \in ids, b \in high : a # b - 10
       /\ \A a, b \in Octets : a # b + 100
       /\ \A a, b \in Hextets : a # b + 256 /\ b + 256 <= MaxHextet
       /\ \A a, b \in Asns : a # b + 10

\* No looped port of one lane shares its flood domain with a looped port of
\* another, whatever moves, teardowns and deaths overlap (conftest.py: "if two
\* bare loopback ports across processes share a VLAN, any kernel noise multicast
\* becomes a perpetual storm").
NoCrossStorm ==
    \A v, w \in Worker : \A p \in Block[v] \cap loops, q \in Block[w] \cap loops :
        phase = "parallel" /\ v # w => home[p] # home[q]

\* What the fixtures do when a session starts, between its tests and at its end, and
\* the death of a process.
Cleanup(u) ==
    \/ SessionStart(u) \/ FlushFdb(u) \/ SuiteReset(u) \/ SessionEnd(u) \/ Crash(u)
    \/ \E p \in Port : MoveFails(u, p)

\* The cleanup of one process takes nothing away that a test of another running one
\* has learned, looped or configured (worker.py: cleanup "narrowed to this group's
\* ports (so it does not disturb worker 2)"), but for what suite_reset does not
\* narrow: the sweep of the FVT* objects, and the static entries of a switchport OS.
OthersUntouched ==
    [][\A u, w \in Worker \cup {0} : u # w /\ Live(w) /\ Cleanup(u) =>
          /\ {e \in fdb : e.by = w} \subseteq fdb'
          /\ loops \cap Block[w] \subseteq loops'
          /\ {e \in static : e.by = w} \subseteq static' \/ (SwitchportOS /\ SuiteReset(u))
          /\ qos \cap {w} \subseteq qos' \/ SuiteReset(u)]_vars

\* A run comes to its end, even if processes die.
RunEnds == <>(phase = "done")
=============================================================================

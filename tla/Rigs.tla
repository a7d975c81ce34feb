-------------------------------- MODULE Rigs --------------------------------
(***************************************************************************)
(* The two-port topologies a test builds and takes down: the VLAN hairpin  *)
(* (topo/hairpin.py), the virtual link (topo/virtual_link.py) and the VRF  *)
(* hairpin (framework/vrfhairpin.py), with the net under them: the         *)
(* per-test loopback guard and suite_reset.  Standard SONiC; the           *)
(* switchport OS is the subject of PortMode.                               *)
(*                                                                         *)
(* A rig is a plan: configuration commands run one by one, each of which   *)
(* may register commands for the teardown.  The switch refuses what its    *)
(* rules forbid and, now and then, a command for no reason a test can see. *)
(***************************************************************************)
EXTENDS Naturals, Sequences, SequencesExt, FiniteSets

CONSTANTS
    p_in, p_out,   \* the two ports
    MaxFaults,     \* bound: commands refused for no visible reason
    MaxTries       \* _set_pvid(tries)

ASSUME RigAssumption == p_in # p_out /\ MaxFaults \in Nat /\ MaxTries \in Nat \ {0}

Pair == {p_in, p_out}
Rig == {"hairpin", "vlink", "vrf"}
Def == "default"
None == "-"

\* A fact of the switch: its kind, its VLAN or VRF, its port.
F(k, v, x) == [k |-> k, v |-> v, x |-> x]
Member(v, x) == F("member", v, x)
Vlan(v) == F("vlan", v, None)
Svi == F("svi", "B", None)
Ip(x) == F("ip", None, x)
Vrf(r) == F("vrf", r, None)
Bound(r, x) == F("bound", r, x)
Looped(x) == F("loop", None, x)
Pvid(v, x) == F("pvid", v, x)
Neigh(x) == F("neigh", None, x)
Fdb == F("fdb", "A", p_out)
Punt == F("punt", "B", p_out)

Fact == [k : {"member", "vlan", "svi", "ip", "vrf", "bound", "loop", "pvid", "neigh",
              "fdb", "punt"},
         v : {Def, "A", "B", "R", "S", None}, x : Pair \cup {None}]

\* Commands of the config CLI can be refused; the others go to chip or kernel.
Configured == {"member", "vlan", "svi", "ip", "vrf", "bound"}
On(f) == [to |-> "on", f |-> f]
Off(f) == [to |-> "off", f |-> f]
Command == [to : {"on", "off"}, f : Fact]

\* A step of a plan: what it registers for the teardown, whether only when it
\* succeeded, and whether a refusal raises.
Do(c, keep, ifok, strict) == [c |-> c, keep |-> keep, ifok |-> ifok, strict |-> strict]
Just(c) == Do(c, <<>>, TRUE, FALSE)
Step == [c : Command, keep : Seq(Command), ifok : BOOLEAN, strict : BOOLEAN]

VARIABLES
    sw,        \* the facts that hold on the switch
    busy,      \* how often vlanorch still has to write a port's PVID back
    rig, stage,
    plan,      \* steps still to run
    undo,      \* _undo, or _routes, _bound and _vrfs
    covered,   \* the try block of the test includes the setup
    torn,      \* the teardown has run
    failed,    \* the test has failed
    hit,       \* the phases in which a command was refused for no reason
    tries,     \* of _set_pvid, left
    hasty      \* history: ports confirmed while vlanorch still had to write back

rigVars == <<sw, busy, rig, stage, plan, undo, covered, torn, failed, hit, tries, hasty>>

Home == {Member(Def, x) : x \in Pair} \cup {Pvid(Def, x) : x \in Pair}

RigTypeOK ==
    /\ sw \subseteq Fact /\ busy \in [Pair -> Nat]
    /\ rig \in Rig
    /\ stage \in {"build", "ready", "setIn", "readIn", "setOut", "readOut", "send",
                  "down", "guard", "close", "closed"}
    /\ plan \in Seq(Step) /\ undo \in Seq(Command)
    /\ {covered, torn, failed} \subseteq BOOLEAN
    /\ hit \in Seq({"build", "down", "close"}) /\ Len(hit) <= MaxFaults
    /\ tries \in 0..MaxTries /\ hasty \subseteq Pair
    /\ \A x \in Pair : Cardinality({f \in sw : f.k = "pvid" /\ f.x = x}) = 1

-----------------------------------------------------------------------------
(* The switch.                                                             *)

Holds(s, k, x) == \E f \in s : f.k = k /\ f.x = x
InVlan(s, k, v) == \E f \in s : f.k = k /\ f.v = v

\* Whether SONiC accepts a configuration command.
Accepts(s, c) ==
    LET f == c.f
    IN IF c.to = "on"
       THEN /\ f \notin s
            /\ f.k \in {"member", "svi"} => f.v = Def \/ Vlan(f.v) \in s
            /\ f.k = "member" => \A k \in {"member", "ip", "bound"} : ~Holds(s, k, f.x)
            /\ f.k = "ip" => ~Holds(s, "member", f.x)
            /\ f.k = "bound" => Vrf(f.v) \in s
       ELSE /\ f \in s
            /\ f.k = "vlan" => \A k \in {"member", "svi"} : ~InVlan(s, k, f.v)

\* What goes with it: a port has one PVID, a change of VRF takes the address, a
\* VRF that is deleted lets its ports go.
Dropped(s, c) ==
    LET f == c.f
        Freed == {x \in Pair : Bound(f.v, x) \in s}
    IN IF f.k = "pvid" THEN {g \in s : g.k = "pvid" /\ g.x = f.x}
       ELSE IF f.k = "bound" THEN {Ip(f.x)}
       ELSE IF f.k = "vrf" THEN {Ip(x) : x \in Freed} \cup {Bound(f.v, x) : x \in Freed}
       ELSE {}

After(s, c) == (s \ (Dropped(s, c) \cup {c.f})) \cup (IF c.to = "on" THEN {c.f} ELSE {})

\* Membership and FDB commands make vlanorch program the port, PVID included.
Programs(c) ==
    [x \in Pair |-> IF c.f.k \in {"member", "fdb"} /\ c.f.x = x THEN busy[x] + 1 ELSE busy[x]]

WriteBack(x) ==
    /\ busy[x] > 0 /\ busy' = [busy EXCEPT ![x] = @ - 1]
    /\ sw' = After(sw, On(Pvid(Def, x)))
    /\ UNCHANGED <<rig, stage, plan, undo, covered, torn, failed, hit, tries, hasty>>

-----------------------------------------------------------------------------
(* The rigs.                                                               *)

\* Hairpin: _preclean, setup, fdb_to_out, punt_b_to_cpu.
HairpinPlan ==
    <<Just(On(Pvid(Def, p_in))), Just(On(Pvid(Def, p_out))),
      Do(On(Vlan("A")), <<Off(Vlan("A"))>>, FALSE, FALSE),
      Do(Off(Member(Def, p_in)), <<On(Member(Def, p_in))>>, FALSE, FALSE),
      Do(On(Member("A", p_in)), <<Off(Member("A", p_in))>>, FALSE, FALSE),
      Do(Off(Member(Def, p_out)), <<On(Member(Def, p_out))>>, FALSE, FALSE),
      Do(On(Member("A", p_out)), <<Off(Member("A", p_out))>>, FALSE, FALSE),
      Do(On(Vlan("B")), <<Off(Vlan("B"))>>, FALSE, FALSE),
      Do(On(Svi), <<Off(Svi)>>, FALSE, FALSE),
      Just(On(Looped(p_in))), Just(On(Looped(p_out))), Just(On(Fdb)), Just(On(Punt))>>

\* A slip: the loopbacks go off last, as a plain reversal would have it.
HairpinDown_Reverse ==
    <<Off(Punt), Off(Fdb), On(Pvid(Def, p_in)), On(Pvid(Def, p_out))>>
    \o Reverse(undo) \o <<Off(Looped(p_out)), Off(Looped(p_in))>>

\* teardown: chip entries, PVIDs and loopbacks first.
HairpinDown ==
    <<Off(Punt), Off(Fdb), On(Pvid(Def, p_in)), On(Pvid(Def, p_out)),
      Off(Looped(p_in)), Off(Looped(p_out))>> \o Reverse(undo)

\* VirtualLink.setup: cli.config raises when the address is refused.
VlinkPlan ==
    <<Do(Off(Member(Def, p_in)), <<On(Member(Def, p_in))>>, TRUE, FALSE),
      Do(On(Ip(p_in)), <<Off(Ip(p_in))>>, TRUE, TRUE),
      Just(On(Looped(p_in))), Just(On(Neigh(p_in)))>>

\* The undo commands; reset_port_to_l2 follows as an action of its own.
VlinkDown == <<Off(Neigh(p_in)), Off(Looped(p_in))>> \o Reverse(undo)

\* bind returns before it records the port when VRF or address is refused.
BindPlan(r, x) ==
    <<Just(Off(Member(Def, x))), Do(On(Bound(r, x)), <<>>, TRUE, TRUE),
      Do(On(Ip(x)), <<>>, TRUE, TRUE),
      Do(On(Looped(x)), <<On(Member(Def, x)), Off(Bound(r, x)), Off(Ip(x)), Off(Looped(x))>>,
         TRUE, FALSE)>>

\* add_vrf, bind of both ports, route.
VrfPlan ==
    <<Do(On(Vrf("R")), <<Off(Vrf("R"))>>, TRUE, TRUE),
      Do(On(Vrf("S")), <<Off(Vrf("S"))>>, TRUE, TRUE)>>
    \o BindPlan("R", p_in) \o BindPlan("S", p_out)
    \o <<Do(On(Neigh(p_out)), <<Off(Neigh(p_out))>>, TRUE, FALSE)>>

\* cleanup: routes, ports, VRFs, each in reverse order.
VrfDown == Reverse(undo)

DownPlan ==
    LET cs == CASE rig = "hairpin" -> HairpinDown
                [] rig = "vlink" -> VlinkDown
                [] rig = "vrf" -> VrfDown
    IN [i \in DOMAIN cs |-> Just(cs[i])]

RigInit ==
    /\ sw = Home /\ busy = [x \in Pair |-> 0]
    /\ \E r \in Rig : /\ rig = r
                      /\ plan = CASE r = "hairpin" -> HairpinPlan
                                  [] r = "vlink" -> VlinkPlan
                                  [] r = "vrf" -> VrfPlan
                      \* setup in the try of the test, or in the vlink fixture
                      /\ covered \in IF r = "vlink" THEN BOOLEAN ELSE {r = "vrf"}
    /\ stage = "build" /\ undo = <<>> /\ torn = FALSE /\ failed = FALSE
    /\ hit = <<>> /\ tries = 0 /\ hasty = {}

-----------------------------------------------------------------------------
(* Steps.                                                                  *)

\* What a command does: its effect, a refusal by the rules, or a fault.
Outcome(c, ok) ==
    \/ /\ c.f.k \notin Configured \/ Accepts(sw, c)
       /\ ok /\ sw' = After(sw, c) /\ busy' = Programs(c) /\ UNCHANGED hit
    \/ /\ c.f.k \in Configured /\ ~Accepts(sw, c)
       /\ ~ok /\ UNCHANGED <<sw, busy, hit>>
    \/ /\ c.f.k \in Configured /\ Len(hit) < MaxFaults
       /\ ~ok /\ hit' = Append(hit, stage) /\ UNCHANGED <<sw, busy>>

Build ==
    /\ stage = "build" /\ plan # <<>>
    /\ LET s == Head(plan)
       IN \E ok \in BOOLEAN :
             /\ Outcome(s.c, ok)
             /\ undo' = IF ok \/ ~s.ifok THEN undo \o s.keep ELSE undo
             /\ \/ (ok \/ ~s.strict) /\ plan' = Tail(plan) /\ UNCHANGED <<stage, failed, torn>>
                \/ ~ok /\ s.strict /\ failed' = TRUE /\ plan' = <<>>
                   /\ stage' = (IF covered THEN "down" ELSE "guard")
                   /\ torn' = FALSE
    /\ UNCHANGED <<rig, covered, tries, hasty>>

\* An exception or an interrupt before the try block.
Abandon ==
    /\ stage = "build" /\ ~covered /\ stage' = "guard"
    /\ plan' = <<>> /\ failed' = TRUE
    /\ UNCHANGED <<sw, busy, rig, undo, covered, torn, hit, tries, hasty>>

Built ==
    /\ stage = "build" /\ plan = <<>>
    /\ stage' = (IF rig = "hairpin" THEN "setIn" ELSE "send") /\ tries' = MaxTries
    /\ UNCHANGED <<sw, busy, rig, plan, undo, covered, torn, failed, hit, hasty>>

\* _set_pvid: set, wait 0.4 s, read.  The reading does not tell whether vlanorch is
\* done with the port.
SetPvid(from, to, v, x) ==
    /\ stage = from /\ stage' = to
    /\ sw' = After(sw, On(Pvid(v, x)))
    /\ UNCHANGED <<busy, rig, plan, undo, covered, torn, failed, hit, tries, hasty>>

Confirm(x) == hasty' = hasty \cup {y \in {x} : busy[y] > 0}

\* A slip: the set is not read back.
ReadPvid_Trusting(here, retry, next, v, x) ==
    /\ stage = here /\ stage' = next /\ tries' = MaxTries /\ Confirm(x)
    /\ UNCHANGED <<sw, busy, rig, plan, undo, covered, torn, failed, hit>>

\* A slip: it never gives up.
ReadPvid_Endless(here, retry, next, v, x) ==
    /\ stage = here
    /\ \/ Pvid(v, x) \in sw /\ Confirm(x) /\ stage' = next /\ tries' = MaxTries
       \/ Pvid(v, x) \notin sw /\ stage' = retry /\ tries' = tries - 1 /\ UNCHANGED hasty
    /\ UNCHANGED <<sw, busy, rig, plan, undo, covered, torn, failed, hit>>

ReadPvid(here, retry, next, v, x) ==
    /\ stage = here
    /\ \/ Pvid(v, x) \in sw /\ Confirm(x) /\ stage' = next /\ tries' = MaxTries /\ UNCHANGED failed
       \/ Pvid(v, x) \notin sw /\ tries > 1 /\ stage' = retry /\ tries' = tries - 1
          /\ UNCHANGED <<failed, hasty>>
       \/ Pvid(v, x) \notin sw /\ tries <= 1 /\ stage' = "down" /\ failed' = TRUE
          /\ UNCHANGED <<tries, hasty>>
    /\ UNCHANGED <<sw, busy, rig, plan, undo, covered, torn, hit>>

Arm ==
    \/ SetPvid("setIn", "readIn", "A", p_in)
    \/ ReadPvid("readIn", "setIn", "setOut", "A", p_in)
    \/ SetPvid("setOut", "readOut", "B", p_out)
    \/ ReadPvid("readOut", "setOut", "send", "B", p_out)

\* The body of the test is over: pass or failure.
Leave ==
    /\ stage = "send" /\ stage' = "down"
    /\ failed' \in {failed, TRUE}
    /\ UNCHANGED <<sw, busy, rig, plan, undo, covered, torn, hit, tries, hasty>>

StartDown ==
    /\ stage = "down" /\ ~torn
    /\ torn' = TRUE /\ plan' = DownPlan /\ undo' = <<>>
    /\ UNCHANGED <<sw, busy, rig, stage, covered, failed, hit, tries, hasty>>

Down ==
    /\ stage = "down" /\ torn /\ plan # <<>>
    /\ \E ok \in BOOLEAN : Outcome(Head(plan).c, ok)
    /\ plan' = Tail(plan)
    /\ UNCHANGED <<rig, stage, undo, covered, torn, failed, tries, hasty>>

\* A slip: the port is not put back into the default VLAN.
Reset_NoReturn(s, x, ok) ==
    After(s, On(Pvid(Def, x))) \ ({Looped(x), Ip(x)} \cup {Bound(r, x) : r \in {"R", "S"}})

\* reset_port_to_l2: the database rows of the port are deleted one way or another;
\* only the return into the default VLAN can be refused.
Reset(s, x, ok) ==
    LET bare == After(s, On(Pvid(Def, x)))
                \ ({Looped(x), Ip(x)} \cup {Bound(r, x) : r \in {"R", "S"}})
        back == On(Member(Def, x))
    IN IF ok /\ Accepts(bare, back) THEN After(bare, back) ELSE bare

\* A slip: only the undo commands, as before reset_port_to_l2 was added.
DownDone_NoReset ==
    /\ stage = "down" /\ torn /\ plan = <<>> /\ stage' = "guard"
    /\ UNCHANGED <<sw, busy, hit, rig, plan, undo, covered, torn, failed, tries, hasty>>

\* The virtual link ends with reset_port_to_l2 of its port.
DownDone ==
    /\ stage = "down" /\ torn /\ plan = <<>> /\ stage' = "guard"
    /\ IF rig = "vlink"
       THEN \/ sw' = Reset(sw, p_in, TRUE) /\ busy' = [busy EXCEPT ![p_in] = @ + 1] /\ UNCHANGED hit
            \/ /\ Len(hit) < MaxFaults /\ hit' = Append(hit, "close")
               /\ sw' = Reset(sw, p_in, FALSE) /\ UNCHANGED busy
       ELSE UNCHANGED <<sw, busy, hit>>
    /\ UNCHANGED <<rig, plan, undo, covered, torn, failed, tries, hasty>>

\* _per_test_lb_guard.
Guard ==
    /\ stage = "guard" /\ stage' = "close"
    /\ sw' = sw \ {Looped(x) : x \in Pair}
    /\ UNCHANGED <<busy, rig, plan, undo, covered, torn, failed, hit, tries, hasty>>

\* suite_reset: reset_ports, then the VLANs of the hairpin, as far as they are empty.
suite_reset ==
    /\ stage = "close" /\ stage' = "closed"
    /\ busy' = [x \in Pair |-> busy[x] + 1]
    /\ \E okp, okq \in BOOLEAN :
          /\ hit' = hit \o (IF okp THEN <<>> ELSE <<"close">>) \o (IF okq THEN <<>> ELSE <<"close">>)
          /\ Len(hit') <= MaxFaults
          /\ LET s == Reset(Reset(sw, p_in, okp), p_out, okq)
             IN sw' = s \ {c.f : c \in {d \in {Off(Vlan("A")), Off(Vlan("B"))} : Accepts(s, d)}}
    /\ UNCHANGED <<rig, plan, undo, covered, torn, failed, tries, hasty>>

RigNext ==
    \/ \E x \in Pair : WriteBack(x)
    \/ Build \/ Abandon \/ Built \/ Arm \/ Leave
    \/ StartDown \/ Down \/ DownDone \/ Guard \/ suite_reset

RigSpec == RigInit /\ [][RigNext]_rigVars

-----------------------------------------------------------------------------
(* Properties.                                                             *)

Quiet == \A x \in Pair : busy[x] = 0
Hit(phases) == \E i \in DOMAIN hit : hit[i] \in phases

\* Two looped ports never share a VLAN that both take in and send out, at any
\* point of building, arming and taking down (hairpin.py: "if both loopback ports
\* are in the same VLAN, any flood/return bounces back and forth between the two
\* ports into a storm").
NoStorm ==
    ~ \E v \in {Def, "A", "B"} : \A x \in Pair :
        {Looped(x), Pvid(v, x), Member(v, x)} \subseteq sw

\* While the test sends, frames enter by p_in into VLAN A and come back by p_out into
\* VLAN B (hairpin.py: arm sets and reads back "right before sending").  A port that
\* does not is back in the default VLAN, by a write-back that was under way when its
\* PVID was confirmed: nothing between the reading and the sending starts another.
SplitWhenSending ==
    stage = "send" /\ rig = "hairpin" =>
        \A a \in {Pvid("A", p_in), Pvid("B", p_out)} :
            a \in sw \/ (a.x \in hasty /\ Pvid(Def, a.x) \in sw)

\* A test that passes leaves the switch as it found it, even if commands of its
\* setup were refused; the virtual link also if commands of its undo list were.
PassLeavesHome ==
    stage = "close" /\ ~failed /\ Quiet
    /\ ~Hit(IF rig = "vlink" THEN {"close"} ELSE {"down", "close"}) => sw = Home

\* At the end of the session both ports are home, also after a rig whose setup
\* raised; excepted is a hairpin whose teardown was lost or refused, which
\* reset_port_to_l2 does not take out of its VLAN.
SessionHome ==
    stage = "closed" /\ Quiet /\ ~Hit({"close"})
    /\ (rig = "hairpin" => torn /\ ~Hit({"down"})) =>
        /\ Home \subseteq sw
        /\ \A x \in Pair, k \in {"loop", "ip", "bound"} : ~Holds(sw, k, x)
=============================================================================

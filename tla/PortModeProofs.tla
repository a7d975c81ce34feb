--------------------------- MODULE PortModeProofs ---------------------------
(***************************************************************************)
(* Proofs about PortMode, for any ports and VLANs.                         *)
(*                                                                         *)
(* Sane says what every command, legal or refused, keeps true of a port.   *)
(* It is what makes the way home work from wherever a port is: the lemma   *)
(* HomeIsL2, and from it the lemma ResetIsL2.                              *)
(***************************************************************************)
EXTENDS PortMode, TLAPS

\* A routed port is in no VLAN, only a routed port has an address or a VRF; an access
\* port is in at most one VLAN, which is the berth when STP is locked, and one that
\* has an INTERFACE row is not taken for converted; a hybrid port has no such row, and
\* is never in _bridged.
Sane(c) ==
    /\ c \in PortState
    /\ c.mode = "route" => c.members = {}
    /\ c.addr \/ c.vrf => c.mode = "route"
    /\ c.mode = "hybrid" => ~c.marker /\ ~c.cached
    /\ c.mode = "access" /\ c.marker => ~c.cached
    /\ c.mode = "access" => \A v, w \in c.members : v = w
    /\ c.mode = "access" /\ StpLocked => c.members \subseteq {Berth}

-----------------------------------------------------------------------------
(* Commands.                                                               *)

\* Every command of the switch keeps a port sane, `ip add` (see IpAddSane) and the
\* change to hybrid mode if the port is not in _bridged.
LEMMA CommandsSane ==
    ASSUME NEW c, Sane(c), NEW v \in Vlan
    PROVE  /\ Sane(LinkRoute(c)) /\ Sane(LinkBridge(c))
           /\ Sane(SwitchAccess(c)) /\ Sane(Uncache(SwitchHybrid(c)))
           /\ Sane(MemberAdd(c, v)) /\ Sane(MemberDel(c, v))
           /\ Sane(IpDel(c)) /\ Sane(VrfBind(c)) /\ Sane(VrfUnbind(c))
           /\ Sane(Uncache(c)) /\ Sane(PurgeOrphanRow(c))
<1>1. Sane(LinkRoute(c))
  BY DEF Sane, PortState, LinkRoute, Vlan
<1>2. Sane(LinkBridge(c))
  BY DEF Sane, PortState, LinkBridge, Vlan
<1>3. Sane(SwitchAccess(c)) /\ Sane(Uncache(SwitchHybrid(c)))
  BY DEF Sane, PortState, SwitchAccess, SwitchHybrid, Uncache, Vlan
<1>4. Sane(MemberAdd(c, v))
  BY DEF Sane, PortState, MemberAdd
<1>5. Sane(MemberDel(c, v))
  BY DEF Sane, PortState, MemberDel, Vlan
<1>6. Sane(IpDel(c)) /\ Sane(VrfUnbind(c)) /\ Sane(Uncache(c)) /\ Sane(PurgeOrphanRow(c))
  BY DEF Sane, PortState, IpDel, VrfUnbind, Uncache, PurgeOrphanRow
<1>7. Sane(VrfBind(c))
  BY DEF Sane, PortState, VrfBind
<1> QED
  BY <1>1, <1>2, <1>3, <1>4, <1>5, <1>6, <1>7

\* `ip add` keeps a port sane that is not in _bridged.
LEMMA IpAddSane ==
    ASSUME NEW c, Sane(c), ~c.cached
    PROVE  Sane(IpAdd(c))
BY DEF Sane, PortState, IpAdd

LEMMA LadderSane ==
    ASSUME NEW c, Sane(c), NEW v \in Vlan
    PROVE  Sane(LadderAdd(c, v)) /\ Sane(LadderDel(c, v)) /\ Sane(CliMemberDel(c, v))
<1>1. Sane(LadderAdd(c, v))
  <2>1. Sane(MemberAdd(Uncache(SwitchHybrid(c)), v))
    BY CommandsSane
  <2>2. LadderAdd(c, v) = MemberAdd(Uncache(SwitchHybrid(c)), v)
    BY DEF LadderAdd, MemberAdd, SwitchHybrid, Uncache, Sane, PortState
  <2> QED
    BY <2>1, <2>2
<1>2. Sane(LadderDel(c, v))
  <2>1. Sane(MemberDel(c, v))
    BY CommandsSane
  <2>2. Sane(SwitchAccess(MemberDel(c, v)))
    BY <2>1, CommandsSane
  <2> QED
    BY <2>2, CommandsSane DEF LadderDel
<1>3. Sane(MemberDel(c, v))
  BY CommandsSane
<1> QED
  BY <1>1, <1>2, <1>3 DEF CliMemberDel

\* A port that leaves its VLANs keeps its INTERFACE row; on an access port only the
\* berth remains, and only a hybrid port leaves _bridged.
LEMMA DelAllSane ==
    ASSUME NEW c, Sane(c)
    PROVE  /\ Sane(DelAllMembers(c))
           /\ DelAllMembers(c).mode = "access" => DelAllMembers(c).members \subseteq {Berth}
           /\ DelAllMembers(c).marker = c.marker
           /\ DelAllMembers(c).cached = c.cached
<1> DEFINE d == DelAllMembers(c)
<1>0. Berth \in Vlan /\ c \in PortState
  BY DEF Vlan, Sane
<1>1. CASE c.mode = "hybrid" /\ StpLocked /\ c.members \ {Berth} # {}
  <2>1. d = Uncache(SwitchAccess(c))
    BY <1>1 DEF DelAllMembers
  <2>2. Sane(SwitchAccess(c))
    BY <1>0, CommandsSane
  <2>3. Sane(d)
    BY <1>0, <2>1, <2>2, CommandsSane
  <2>4. d.members = {Berth} /\ d.marker = c.marker /\ d.cached = c.cached
    BY <1>1, <2>1 DEF SwitchAccess, Uncache, Sane, PortState
  <2> QED
    BY <2>3, <2>4
<1>2. CASE c.mode = "hybrid" /\ ~(StpLocked /\ c.members \ {Berth} # {})
  BY <1>2 DEF DelAllMembers, Sane, PortState
<1>3. CASE c.mode # "hybrid" /\ c.members = {}
  BY <1>3 DEF DelAllMembers
<1>4. CASE c.mode # "hybrid" /\ c.members # {}
  <2> DEFINE v == CHOOSE x \in c.members : TRUE
  <2>1. v \in Vlan /\ v \in c.members
    BY <1>0, <1>4 DEF PortState
  <2> HIDE DEF v
  <2>2. d = CliMemberDel(c, v)
    BY <1>4 DEF DelAllMembers, v
  <2>3. d = MemberDel(c, v)
    BY <1>4, <2>2 DEF CliMemberDel
  <2>4. Sane(d)
    BY <2>1, <2>2, LadderSane
  <2>5. c.mode = "access" /\ c.members = {v} /\ (StpLocked => v = Berth)
    BY <1>4, <2>1 DEF Sane, PortState
  <2>6. d.members \subseteq {Berth} /\ d.marker = c.marker /\ d.cached = c.cached
    BY <1>0, <2>1, <2>3, <2>5 DEF MemberDel, PortState
  <2> QED
    BY <2>4, <2>6
<1> QED
  BY <1>1, <1>2, <1>3, <1>4

-----------------------------------------------------------------------------
(* The way home.                                                           *)

\* An L2 port in its berth.
AtHome(c) == c.mode = "access" /\ c.members = {Berth} /\ ~Routed(c)

\* Whatever state a port is in, _restore_bridge_home takes it to its berth with no
\* INTERFACE row: a hybrid port by itself, any other by route and bridge.
LEMMA HomeIsL2 ==
    ASSUME NEW c, Sane(c)
    PROVE  /\ Sane(RestoreBridgeHome(c))
           /\ AtHome(RestoreBridgeHome(c))
           /\ RestoreBridgeHome(c).cached = c.cached
<1> DEFINE d == DelAllMembers(c)
           bare == VrfUnbind(IpDel(d))
           home == SwitchAccess(bare)
<1>0. Berth \in Vlan
  BY DEF Vlan
<1>1. /\ Sane(d) /\ d.cached = c.cached
      /\ d.mode = "access" => d.members \subseteq {Berth}
  BY DelAllSane
<1> HIDE DEF d
<1>2. /\ Sane(bare) /\ ~bare.addr /\ ~bare.vrf /\ bare.cached = c.cached
      /\ bare.mode = "access" => bare.members \subseteq {Berth}
  <2>1. Sane(IpDel(d))
    BY <1>0, <1>1, CommandsSane
  <2>2. Sane(bare)
    BY <1>0, <2>1, CommandsSane
  <2>3. /\ ~bare.addr /\ ~bare.vrf /\ bare.cached = d.cached
        /\ bare.mode = d.mode /\ bare.members = d.members
    BY <1>1 DEF Sane, PortState, VrfUnbind, IpDel
  <2> QED
    BY <1>1, <2>2, <2>3
<1> HIDE DEF bare
<1>3. /\ Sane(home) /\ home.mode # "hybrid" /\ ~home.addr /\ ~home.vrf
      /\ home.cached = c.cached /\ home.members \subseteq {Berth}
  <2>1. Sane(home)
    BY <1>0, <1>2, CommandsSane
  <2>2. /\ home.mode # "hybrid" /\ ~home.addr /\ ~home.vrf /\ home.cached = bare.cached
        /\ home.members \subseteq {Berth}
    BY <1>2 DEF Sane, PortState, SwitchAccess
  <2> QED
    BY <1>2, <2>1, <2>2
<1>4. bare.mode = "hybrid" => AtHome(home)
  BY <1>2 DEF Sane, PortState, SwitchAccess, AtHome, Routed
<1> HIDE DEF home
<1>5. LET back == LinkBridge(LinkRoute(home))
      IN  Sane(back) /\ AtHome(back) /\ back.cached = home.cached
  <2> DEFINE route == LinkRoute(home)
  <2>1. Sane(route)
    BY <1>0, <1>3, CommandsSane
  <2>2. ~route.addr /\ ~route.vrf /\ route.marker /\ route.cached = home.cached
    BY <1>3 DEF Sane, PortState, LinkRoute
  <2> HIDE DEF route
  <2>3. Sane(LinkBridge(route))
    BY <1>0, <2>1, CommandsSane
  <2>4. AtHome(LinkBridge(route)) /\ LinkBridge(route).cached = home.cached
    BY <2>1, <2>2 DEF Sane, PortState, LinkBridge, AtHome, Routed
  <2> QED
    BY <2>3, <2>4 DEF route
<1>6. RestoreBridgeHome(c) =
        IF bare.mode = "hybrid" /\ IsPortL2(home) THEN home ELSE LinkBridge(LinkRoute(home))
  BY DEF RestoreBridgeHome, d, bare, home
<1> QED
  BY <1>3, <1>4, <1>5, <1>6

\* ensure_port_l2 leaves a port of _bridged alone and takes any other to its berth and
\* into _bridged.
LEMMA EnsureSane ==
    ASSUME NEW c, Sane(c)
    PROVE  /\ Sane(EnsurePortL2(c)) /\ EnsurePortL2(c).cached
           /\ c.cached => EnsurePortL2(c) = c
           /\ ~c.cached => AtHome(EnsurePortL2(c))
<1> DEFINE home == RestoreBridgeHome(c)
           l2 == [home EXCEPT !.cached = IsPortL2(home)]
<1>1. Sane(home) /\ AtHome(home)
  BY HomeIsL2
<1> HIDE DEF home
<1>2. IsPortL2(home) = TRUE
  BY <1>1 DEF IsPortL2, AtHome
<1>3. Sane(l2) /\ AtHome(l2) /\ l2.cached
  BY <1>1, <1>2 DEF Sane, PortState, AtHome, Routed
<1>4. EnsurePortL2(c) = IF c.cached THEN c ELSE l2
  BY DEF EnsurePortL2, home
<1> QED
  BY <1>3, <1>4

\* restore_port_l3 keeps a port sane and takes it out of _bridged.
LEMMA RestoreSane ==
    ASSUME NEW c, Sane(c)
    PROVE  Sane(RestorePortL3(c)) /\ ~RestorePortL3(c).cached
<1> DEFINE route == LinkRoute(DelAllMembers(c))
           wedged == Berth \in c.members /\ ~BerthDelOk /\ Berth \in route.members /\ route.marker
           again == LinkRoute([route EXCEPT !.marker = FALSE])
<1>1. Berth \in Vlan
  BY DEF Vlan
<1>2. Sane(route)
  BY <1>1, DelAllSane, CommandsSane
<1> HIDE DEF route
<1>3. Sane([route EXCEPT !.marker = FALSE])
  BY <1>2 DEF Sane, PortState
<1>4. Sane(again)
  BY <1>1, <1>3, CommandsSane
<1> HIDE DEF again, wedged
<1>5. Sane(IF wedged THEN again ELSE route)
  BY <1>2, <1>4
<1>6. Sane(Uncache(IF wedged THEN again ELSE route)) /\ ~Uncache(IF wedged THEN again ELSE route).cached
  <2> DEFINE done == IF wedged THEN again ELSE route
  <2>1. Sane(done) /\ done \in PortState
    BY <1>5 DEF Sane
  <2> HIDE DEF done
  <2>2. Sane(Uncache(done)) /\ ~Uncache(done).cached
    BY <1>1, <2>1, CommandsSane DEF Uncache, PortState
  <2> QED
    BY <2>2 DEF done
<1>7. RestorePortL3(c) = Uncache(IF wedged THEN again ELSE route)
  BY DEF RestorePortL3, wedged, again, route
<1> QED
  BY <1>6, <1>7

LEMMA CliSane ==
    ASSUME NEW c, Sane(c), NEW v \in Vlan
    PROVE  /\ Sane(CliAddUntagged(c, v)) /\ Sane(CliAddTagged(c, v))
           /\ Sane(CliIpAdd(c)) /\ Sane(CliVrfBind(c))
<1>1. Sane(EnsurePortL2(c)) /\ Sane(RestoreBridgeHome(c))
  BY EnsureSane, HomeIsL2
<1>2. Sane(CliAddUntagged(c, v))
  <2>1. Sane(LadderAdd(EnsurePortL2(c), v)) /\ Sane(MemberAdd(EnsurePortL2(c), v))
    BY <1>1, LadderSane, CommandsSane
  <2> QED
    BY <1>1, <2>1 DEF CliAddUntagged
<1>3. Sane(CliAddTagged(c, v))
  <2>1. Sane(Uncache(SwitchHybrid(EnsurePortL2(c))))
    BY <1>1, CommandsSane
  <2> QED
    BY <2>1, CommandsSane DEF CliAddTagged
<1>4. Sane(CliIpAdd(c)) /\ Sane(CliVrfBind(c))
  BY RestoreSane, IpAddSane, CommandsSane DEF CliIpAdd, CliVrfBind
<1> QED
  BY <1>2, <1>3, <1>4

\* reset_port_to_l2 heals a port whatever it is like and whatever _bridged says of
\* it, when its default VLAN is the berth.
LEMMA ResetIsL2 ==
    ASSUME NEW c, Sane(c)
    PROVE  /\ Sane(ResetPortToL2(c))
           /\ Home = Berth => AtHome(ResetPortToL2(c)) /\ ResetPortToL2(c).cached
<1> DEFINE l2 == EnsurePortL2(c)
<1>1. Sane(l2) /\ l2.cached
  BY EnsureSane
<1>2. ResetPortToL2(c) = IF Home \in l2.members THEN l2 ELSE CliAddUntagged(l2, Home)
  BY DEF ResetPortToL2
<1>3. Home \in Vlan
  BY DEF Vlan
<1>4. Sane(ResetPortToL2(c))
  BY <1>1, <1>2, <1>3, CliSane
<1>5. CASE Home = Berth /\ Home \in l2.members
  <2>1. CASE c.cached
    <3>1. l2 = c
      BY <2>1 DEF EnsurePortL2
    <3>2. AtHome(c)
      BY <1>5, <2>1, <3>1 DEF Sane, PortState, Routed, AtHome
    <3> QED
      BY <1>1, <1>2, <1>5, <3>1, <3>2
  <2>2. CASE ~c.cached
    BY <1>1, <1>2, <1>5, <2>2, EnsureSane
  <2> QED
    BY <2>1, <2>2
<1>6. CASE Home = Berth /\ Home \notin l2.members
  <2>1. CliAddUntagged(l2, Home) = RestoreBridgeHome(l2)
    BY <1>6 DEF CliAddUntagged
  <2> QED
    BY <1>1, <1>2, <1>6, <2>1, HomeIsL2
<1> QED
  BY <1>4, <1>5, <1>6

LEMMA MoreSane ==
    ASSUME NEW c, Sane(c)
    PROVE  /\ Sane(Moved(c)) /\ Sane(LeftAtEnd(c))
           /\ Sane(Detach(c)) /\ Sane(Addressed(c))
           /\ Sane(PurgeOrphanRow(IpDel(c)))
<1>1. Home \in Vlan /\ Berth \in Vlan
  BY DEF Vlan
<1>2. Sane(Moved(c))
  BY <1>1, LadderSane, CliSane DEF Moved
<1>3. Sane(LeftAtEnd(c))
  <2> DEFINE reset == ResetPortToL2(c)
             l2 == IF Home = Berth THEN reset
                   ELSE CliAddUntagged(CliMemberDel(reset, Home), Berth)
  <2>1. Sane(reset)
    BY ResetIsL2
  <2> HIDE DEF reset
  <2>2. Sane(l2)
    BY <1>1, <2>1, LadderSane, CliSane
  <2> HIDE DEF l2
  <2>3. LeftAtEnd(c) = IF l2.cached THEN RestorePortL3(l2) ELSE l2
    BY DEF LeftAtEnd, l2, reset
  <2> QED
    BY <2>2, <2>3, RestoreSane
<1>4. Sane(Detach(c))
  BY <1>1, LadderSane DEF Detach
<1>5. Sane(Addressed(c))
  <2>1. Sane(ResetPortToL2(c))
    BY ResetIsL2
  <2>2. Sane(Detach(ResetPortToL2(c)))
    BY <1>1, <2>1, LadderSane DEF Detach
  <2> QED
    BY <1>1, <2>2, CliSane DEF Addressed
<1>6. Sane(PurgeOrphanRow(IpDel(c)))
  <2>1. Sane(IpDel(c))
    BY <1>1, CommandsSane
  <2> QED
    BY <1>1, <2>1, CommandsSane
<1> QED
  BY <1>2, <1>3, <1>4, <1>5, <1>6

\* No command that a test may run on a port makes it insane.
LEMMA BodySane ==
    ASSUME NEW c, Sane(c), NEW d \in Commands(c)
    PROVE  Sane(d)
<1>1. UserVid \subseteq Vlan /\ Berth \in Vlan
  BY DEF Vlan
<1>2. ASSUME NEW v \in Vlan, d = CliAddUntagged(c, v) \/ d = CliAddTagged(c, v) \/ d = CliMemberDel(c, v)
      PROVE  Sane(d)
  BY <1>2, CliSane, LadderSane
<1>3. CASE d \in {CliIpAdd(c), IpDel(c), CliVrfBind(c), VrfUnbind(c)} \cup {LinkRoute(c), LinkBridge(c)}
  BY <1>1, <1>3, CliSane, CommandsSane
<1> QED
  BY <1>1, <1>2, <1>3 DEF Commands

-----------------------------------------------------------------------------
(* Types.                                                                  *)

TypeInv == TypeOK /\ \A p \in Port : Sane(cfg[p])

LEMMA TypeInit == Init => TypeInv
<1> SUFFICES ASSUME Init PROVE TypeInv
  OBVIOUS
<1>1. Sane(Default) /\ Sane(Wedged)
  BY DEF Sane, PortState, Default, Wedged, Vlan
<1>2. cfg \in [Port -> {Default, Wedged}]
  BY DEF Init
<1>3. \A p \in Port : Sane(cfg[p])
  BY <1>1, <1>2
<1>4. cfg \in [Port -> PortState]
  BY <1>1, <1>2 DEF Sane
<1> QED
  BY <1>3, <1>4 DEF Init, TypeInv, TypeOK, NoJob, Steps

\* Whatever a step does to ports, they stay sane.
LEMMA CfgStep ==
    ASSUME TypeInv, [Next]_vars
    PROVE  cfg' \in [Port -> PortState] /\ \A p \in Port : Sane(cfg'[p])
<1>1. \A p \in Port : Sane(cfg[p])
  BY DEF TypeInv
<1>2. cfg \in [Port -> PortState]
  BY DEF TypeInv, TypeOK
<1>3. \A p \in Port : Sane(Uncache(cfg[p]))
  BY <1>1, CommandsSane DEF Vlan
<1>4. ASSUME NEW f, cfg' = [p \in Port |-> f[p]], \A p \in Port : Sane(f[p])
      PROVE  cfg' \in [Port -> PortState] /\ \A p \in Port : Sane(cfg'[p])
  BY <1>4 DEF Sane
<1>5. ASSUME NEW q \in Port, NEW d, Sane(d), cfg' = [cfg EXCEPT ![q] = d]
      PROVE  cfg' \in [Port -> PortState] /\ \A p \in Port : Sane(cfg'[p])
  BY <1>1, <1>2, <1>5 DEF Sane
<1>6. CASE UNCHANGED cfg
  BY <1>1, <1>2, <1>6
<1>7. ASSUME NEW S, ResetPorts(S)
      PROVE  cfg' \in [Port -> PortState] /\ \A p \in Port : Sane(cfg'[p])
  <2>1. \A p \in Port : Sane(ResetPortToL2(cfg[p]))
    BY <1>1, ResetIsL2
  <2> QED
    BY <1>1, <1>7, <2>1 DEF ResetPorts, Sane
<1>8. CASE SessionStart
  <2>1. \A p \in Port : Sane(Moved(cfg[p])) /\ Sane(EnsurePortL2(Moved(cfg[p])))
    BY <1>1, MoreSane, EnsureSane
  <2>2. CASE cfg' = [p \in Port |-> EnsurePortL2(Moved(cfg[p]))]
    BY <2>1, <2>2 DEF Sane
  <2>3. CASE \E T : cfg' = [p \in Port |-> IF p \in T THEN Moved(cfg[p]) ELSE cfg[p]]
    <3>1. PICK T : cfg' = [p \in Port |-> IF p \in T THEN Moved(cfg[p]) ELSE cfg[p]]
      BY <2>3
    <3>2. \A p \in Port : Sane(cfg'[p])
      BY <1>1, <2>1, <3>1
    <3> QED
      BY <3>1, <3>2 DEF Sane
  <2> QED
    BY <1>8, <2>2, <2>3 DEF SessionStart
<1>9. CASE SessionEnd
  <2>1. \A p \in Port : Sane(LeftAtEnd(cfg[p]))
    BY <1>1, MoreSane
  <2> QED
    BY <1>9, <2>1 DEF SessionEnd, Sane
<1>10. CASE NewProcess
  BY <1>3, <1>10 DEF NewProcess, Sane
<1>11. \A p \in Port : Sane(Addressed(cfg[p]))
  BY <1>1, MoreSane
<1>12. CASE BaseUp
  <2>1. \A p \in Port : Sane(cfg'[p])
    BY <1>1, <1>11, <1>12 DEF BaseUp
  <2> QED
    BY <1>12, <2>1 DEF BaseUp, Sane
<1>13. ASSUME NEW q \in Port, BaseFails(q)
       PROVE  cfg' \in [Port -> PortState] /\ \A p \in Port : Sane(cfg'[p])
  <2>1. PICK S : cfg' = [p \in Port |-> IF p \in S \cup {q} THEN Addressed(cfg[p]) ELSE cfg[p]]
    BY <1>13 DEF BaseFails
  <2>2. \A p \in Port : Sane(cfg'[p])
    BY <1>1, <1>11, <2>1
  <2> QED
    BY <2>1, <2>2 DEF Sane
<1>14. ASSUME NEW q \in Port, Body(q)
       PROVE  cfg' \in [Port -> PortState] /\ \A p \in Port : Sane(cfg'[p])
  <2>1. PICK d \in Commands(cfg[q]) : cfg' = [cfg EXCEPT ![q] = d]
    BY <1>14 DEF Body
  <2>2. Sane(d)
    BY <1>1, BodySane
  <2> QED
    BY <1>5, <2>1, <2>2
<1>15. ASSUME NEW q \in Port, BasePurge(q) \/ L3UpDetach(q) \/ L3UpAddress(q)
       PROVE  cfg' \in [Port -> PortState] /\ \A p \in Port : Sane(cfg'[p])
  <2>1. /\ Sane(PurgeOrphanRow(IpDel(cfg[q])))
        /\ Sane(Detach(cfg[q])) /\ Sane(CliIpAdd(cfg[q]))
    BY <1>1, MoreSane, CliSane DEF Vlan
  <2>2. PICK d : Sane(d) /\ cfg' = [cfg EXCEPT ![q] = d]
    BY <1>15, <2>1 DEF BasePurge, L3UpDetach, L3UpAddress
  <2> QED
    BY <1>5, <2>2
<1> QED
  BY <1>6, <1>7, <1>8, <1>9, <1>10, <1>12, <1>13, <1>14, <1>15
     DEF Next, vars, BaseDown, TestStart, TestEnd, L3UpDown, Guard, L3UpReset,
         L3UpEnable, L3UpGateFails, Program

LEMMA TypeStep == TypeInv /\ [Next]_vars => TypeInv'
<1> SUFFICES ASSUME TypeInv, [Next]_vars PROVE TypeInv'
  OBVIOUS
<1>1. cfg' \in [Port -> PortState] /\ \A p \in Port : Sane(cfg'[p])
  BY CfgStep
<1>2. asic' \in [Port -> SUBSET Vlan]
  BY DEF TypeInv, TypeOK, PortState, Next, vars, SessionStart, SessionEnd, NewProcess,
         BaseUp, BaseFails, BasePurge, BaseDown, TestStart, TestEnd, L3UpDown, Guard, Body,
         L3UpReset, L3UpDetach, L3UpAddress, L3UpEnable, L3UpGateFails, Program
<1>3. /\ looped' \subseteq Port
      /\ pre' \subseteq Port /\ base' \subseteq Port /\ held' \subseteq Port
      /\ left' \subseteq Port /\ created' \subseteq Port
  BY PortModeAssumption
     DEF TypeInv, TypeOK, Next, vars, SessionStart, SessionEnd, NewProcess, ResetPorts,
         BaseUp, BaseFails, BasePurge, BaseDown, TestStart, TestEnd, L3UpDown, Guard, Body,
         L3UpReset, L3UpDetach, L3UpAddress, L3UpEnable, L3UpGateFails, Program
<1>4. stage' \in {"closed", "idle", "test", "down", "guard", "ended"}
  BY DEF TypeInv, TypeOK, Next, vars, SessionStart, SessionEnd, NewProcess,
         BaseUp, BaseFails, BasePurge, BaseDown, TestStart, TestEnd, L3UpDown, Guard, Body,
         L3UpReset, L3UpDetach, L3UpAddress, L3UpEnable, L3UpGateFails, Program
<1>5. job' \in [step : Steps, port : SUBSET Port]
  <2>1. job \in [step : Steps, port : SUBSET Port] /\ NoJob \in [step : Steps, port : SUBSET Port]
    BY DEF TypeInv, TypeOK, NoJob, Steps
  <2>2. CASE UNCHANGED job \/ job' = NoJob
    BY <2>1, <2>2
  <2>3. CASE \E p \in Port : L3UpReset(p)
    BY <2>3 DEF L3UpReset, Steps
  <2>4. CASE \E p \in Port : L3UpDetach(p)
    BY <2>1, <2>4 DEF L3UpDetach, Steps
  <2>5. CASE \E p \in Port : L3UpAddress(p)
    BY <2>1, <2>5 DEF L3UpAddress, Steps
  <2> QED
    BY <2>2, <2>3, <2>4, <2>5
       DEF Next, vars, SessionStart, SessionEnd, NewProcess, BaseUp, BaseFails, BasePurge,
           BaseDown, TestStart, TestEnd, L3UpDown, Guard, Body, L3UpEnable, L3UpGateFails, Program
<1> QED
  BY <1>1, <1>2, <1>3, <1>4, <1>5 DEF TypeInv, TypeOK

\* Type correctness, for any default VLAN and platform.
THEOREM PortTypes == Spec => []TypeOK
<1>1. TypeInv => TypeOK
  BY DEF TypeInv
<1> QED
  BY TypeInit, TypeStep, <1>1, PTL DEF Spec

-----------------------------------------------------------------------------
(* No port is stranded.                                                    *)

\* What each stage of a session knows of the ports that are routed.
HealInv ==
    /\ TypeInv
    /\ NotStranded
    /\ stage = "closed" => \A p \in Port : ~cfg[p].cached
    /\ base \subseteq held
    /\ pre \subseteq held \cup left
    /\ stage \in {"closed", "idle", "ended"} => pre = {}
    /\ job # NoJob => stage = "test"

\* The guard heals every port it may: the base ports it leaves alone are held, and
\* those it found routed before the test had been left by a failed base.
LEMMA HealStep ==
    ASSUME Home = Berth, HealInv, [Next]_vars
    PROVE  HealInv'
<1> USE DEF HealInv
<1>1. TypeInv'
  BY TypeStep
<1>2. \A p \in Port : Sane(cfg[p]) /\ ~Routed(ResetPortToL2(cfg[p]))
  BY ResetIsL2 DEF TypeInv, AtHome
<1>3. CASE SessionStart
  <2>1. \A p \in Port : Moved(cfg[p]) = cfg[p] /\ ~Routed(EnsurePortL2(cfg[p]))
    BY <1>2, <1>3, EnsureSane DEF Moved, SessionStart, AtHome
  <2> QED
    BY <1>1, <1>3, <2>1 DEF SessionStart, NotStranded, NoJob
<1>4. CASE SessionEnd
  BY <1>1, <1>4 DEF SessionEnd, NotStranded
<1>5. CASE NewProcess
  <2>1. \A p \in Port : ~Uncache(cfg[p]).cached
    BY <1>2 DEF Uncache, Sane, PortState
  <2> QED
    BY <1>1, <1>5, <2>1 DEF NewProcess, NotStranded, NoJob
<1>6. CASE BaseUp
  BY <1>1, <1>6 DEF BaseUp, NotStranded
<1>7. CASE \E q \in Port : BaseFails(q)
  BY <1>1, <1>7 DEF BaseFails, NotStranded
<1>8. CASE \E q \in Port : BasePurge(q)
  BY <1>1, <1>8 DEF BasePurge, NotStranded, TypeInv, TypeOK
<1>9. CASE BaseDown
  <2>1. NotStranded'
    <3>1. \A p \in Port : cfg'[p] = IF p \in base THEN ResetPortToL2(cfg[p]) ELSE cfg[p]
      BY <1>9 DEF BaseDown, ResetPorts
    <3> QED
      BY <1>2, <1>9, <3>1 DEF BaseDown, NotStranded
  <2> QED
    BY <1>1, <1>9, <2>1 DEF BaseDown
<1>10. CASE TestStart
  BY <1>1, <1>10 DEF TestStart, NotStranded
<1>11. CASE TestEnd \/ L3UpDown
  BY <1>1, <1>11 DEF TestEnd, L3UpDown, ResetPorts, NotStranded, NoJob
<1>12. CASE Guard
  BY <1>1, <1>2, <1>12 DEF Guard, Drifted, ResetPorts, NotStranded
<1>13. CASE \E p \in Port : \/ Body(p) \/ L3UpReset(p) \/ L3UpDetach(p) \/ L3UpAddress(p)
                            \/ L3UpEnable(p) \/ L3UpGateFails(p)
  BY <1>1, <1>13 DEF Body, L3UpReset, L3UpDetach, L3UpAddress, L3UpEnable, L3UpGateFails,
                     ResetPorts, NotStranded, NoJob
<1>14. CASE UNCHANGED vars \/ \E p \in Port : Program(p)
  BY <1>1, <1>14 DEF Program, vars, NotStranded
<1> QED
  BY <1>3, <1>4, <1>5, <1>6, <1>7, <1>8, <1>9, <1>10, <1>11, <1>12, <1>13, <1>14 DEF Next

\* On a switchport OS whose default VLAN is the berth, the self-heal guard works for
\* any number of ports, whatever commands tests run, at whatever step l3up or l3net
\* fails and wherever the process dies, with STP locked or not.
THEOREM NoPortStranded ==
    ASSUME Home = Berth
    PROVE  Spec => []NotStranded
<1>1. Init => HealInv
  <2> SUFFICES ASSUME Init PROVE HealInv
    OBVIOUS
  <2>1. TypeInv
    BY TypeInit
  <2>2. \A p \in Port : ~cfg[p].cached
    <3>1. ~Default.cached /\ ~Wedged.cached
      BY DEF Default, Wedged
    <3> QED
      BY <3>1 DEF Init
  <2> QED
    BY <2>1, <2>2 DEF HealInv, Init, NotStranded, NoJob
<1>2. HealInv /\ [Next]_vars => HealInv'
  BY HealStep
<1>3. HealInv => NotStranded
  BY DEF HealInv
<1> QED
  BY <1>1, <1>2, <1>3, PTL DEF Spec

-----------------------------------------------------------------------------
(* No routed port loops while the ASIC bridges it.                         *)

\* A port that has been brought up is in no VLAN, neither in the configuration nor
\* in the ASIC, for as long as its loopback is open; one that l3up is working on has
\* no loopback, and has its address when the gate is reached.
UnbridgedInv ==
    /\ TypeInv
    /\ job # NoJob => stage = "test" /\ job.port \cap looped = {}
    /\ job.step = "gate" => \A p \in job.port : cfg[p].addr
    /\ \A p \in (created \cup held) \cap looped : cfg[p].members = {} /\ asic[p] = {}

LEMMA UnbridgedStep ==
    ASSUME UnbridgedInv, [Next]_vars
    PROVE  UnbridgedInv'
<1> USE DEF UnbridgedInv
<1>1. TypeInv'
  BY TypeStep
<1>2. \A p \in Port : Sane(cfg[p])
  BY DEF TypeInv
<1>3. created \subseteq Port /\ held \subseteq Port /\ looped \subseteq Port
      /\ cfg \in [Port -> PortState] /\ asic \in [Port -> SUBSET Vlan]
  BY DEF TypeInv, TypeOK
<1>4. NoJob.step = "none"
  BY DEF NoJob
<1>5. CASE SessionStart \/ SessionEnd \/ NewProcess
  BY <1>1, <1>4, <1>5 DEF SessionStart, SessionEnd, NewProcess
<1>6. CASE BaseUp
  <2>1. job = NoJob
    BY <1>6 DEF BaseUp
  <2>2. \A p \in (created' \cup held') \cap looped' : cfg'[p].members = {} /\ asic'[p] = {}
    <3> SUFFICES ASSUME NEW p \in (created' \cup held') \cap looped'
                 PROVE  cfg'[p].members = {} /\ asic'[p] = {}
      OBVIOUS
    <3>1. p \in Port
      BY <1>3, <1>6, PortModeAssumption DEF BaseUp
    <3>2. CASE p \in BasePorts
      BY <1>6, <3>1, <3>2 DEF BaseUp
    <3>3. CASE p \notin BasePorts
      BY <1>6, <3>1, <3>3 DEF BaseUp
    <3> QED
      BY <3>2, <3>3
  <2> QED
    BY <1>1, <1>4, <1>6, <2>1, <2>2 DEF BaseUp
<1>7. ASSUME NEW q \in Port, BaseFails(q)
      PROVE  UnbridgedInv'
  <2>1. job = NoJob /\ job' = job
    BY <1>7 DEF BaseFails
  <2>2. PICK S \in SUBSET (BasePorts \ {q}) :
           /\ \A p \in S : Addressed(cfg[p]).members = {}
           /\ cfg' = [p \in Port |-> IF p \in S \cup {q} THEN Addressed(cfg[p]) ELSE cfg[p]]
           /\ asic' = [p \in Port |-> IF p \in S THEN {} ELSE asic[p]]
           /\ looped' = (looped \ {q}) \cup S
           /\ held' = held \cup S
    BY <1>7 DEF BaseFails
  <2>3. \A p \in (created' \cup held') \cap looped' : cfg'[p].members = {} /\ asic'[p] = {}
    <3> SUFFICES ASSUME NEW p \in (created' \cup held') \cap looped'
                 PROVE  cfg'[p].members = {} /\ asic'[p] = {}
      OBVIOUS
    <3>1. p \in Port /\ p # q /\ created' = created
      BY <1>3, <1>7, <2>2, PortModeAssumption DEF BaseFails
    <3>2. CASE p \in S
      BY <2>2, <3>1, <3>2
    <3>3. CASE p \notin S
      BY <2>2, <3>1, <3>3
    <3> QED
      BY <3>2, <3>3
  <2> QED
    BY <1>1, <1>4, <2>1, <2>3
<1>8. ASSUME NEW q \in Port, BasePurge(q)
      PROVE  UnbridgedInv'
  <2>1. job = NoJob /\ job' = job
    BY <1>8 DEF BasePurge
  <2>2. PurgeOrphanRow(IpDel(cfg[q])).members = cfg[q].members
    BY <1>2 DEF PurgeOrphanRow, IpDel, Sane, PortState
  <2>3. \A p \in Port : cfg'[p].members = cfg[p].members
    BY <1>3, <1>8, <2>2 DEF BasePurge
  <2> QED
    BY <1>1, <1>3, <1>4, <1>8, <2>1, <2>3 DEF BasePurge
<1>9. ASSUME NEW S, ResetPorts(S), asic' = asic, created' \cup held' \subseteq created \cup held,
             job = NoJob, job' = NoJob
      PROVE  UnbridgedInv'
  BY <1>1, <1>3, <1>4, <1>9 DEF ResetPorts
<1>10. CASE BaseDown
  BY <1>9, <1>10 DEF BaseDown
<1>11. CASE L3UpDown \/ Guard
  BY <1>9, <1>11 DEF L3UpDown, Guard
<1>12. CASE TestStart \/ TestEnd
  BY <1>1, <1>12 DEF TestStart, TestEnd
<1>13. ASSUME NEW q \in Port, Body(q)
       PROVE  UnbridgedInv'
  <2>1. PICK d : cfg' = [cfg EXCEPT ![q] = d]
    BY <1>13 DEF Body
  <2>2. \A p \in created \cup held : cfg'[p] = cfg[p]
    BY <1>3, <1>13, <2>1 DEF Body
  <2> QED
    BY <1>1, <1>4, <1>13, <2>2 DEF Body
<1>14. ASSUME NEW q \in Port, L3UpReset(q)
       PROVE  UnbridgedInv'
  <2>1. job' = [step |-> "detach", port |-> {q}] /\ stage' = "test"
    BY <1>14 DEF L3UpReset
  <2>2. looped' = looped \ {q} /\ \A p \in Port \ {q} : cfg'[p] = cfg[p]
    BY <1>14 DEF L3UpReset, ResetPorts
  <2>3. \A p \in (created' \cup held') \cap looped' : cfg'[p].members = {} /\ asic'[p] = {}
    BY <1>3, <1>14, <2>2 DEF L3UpReset
  <2> QED
    BY <1>1, <2>1, <2>2, <2>3
<1>15. ASSUME NEW q \in Port, L3UpDetach(q) \/ L3UpAddress(q)
       PROVE  UnbridgedInv'
  <2>1. job.port = {q} /\ job.step # "none"
    BY <1>15 DEF L3UpDetach, L3UpAddress
  <2>2. q \notin looped /\ stage = "test"
    BY <1>4, <2>1
  <2>3. PICK d : cfg' = [cfg EXCEPT ![q] = d]
    BY <1>15 DEF L3UpDetach, L3UpAddress
  <2>4. \A p \in looped : cfg'[p] = cfg[p]
    BY <1>3, <2>2, <2>3
  <2>5. /\ UNCHANGED <<asic, looped, held, created>>
        /\ \/ job' = NoJob
           \/ job'.port = {q} /\ stage' = "test" /\ (job'.step = "gate" => cfg'[q].addr)
    BY <1>15, <2>2 DEF L3UpDetach, L3UpAddress
  <2> QED
    BY <1>1, <1>4, <2>2, <2>4, <2>5
<1>16. ASSUME NEW q \in Port, L3UpEnable(q)
       PROVE  UnbridgedInv'
  <2>1. cfg[q].addr
    BY <1>16 DEF L3UpEnable
  <2>2. cfg[q].members = {}
    BY <1>2, <2>1 DEF Sane
  <2> QED
    BY <1>1, <1>4, <1>16, <2>2 DEF L3UpEnable
<1>17. ASSUME NEW q \in Port, L3UpGateFails(q)
       PROVE  UnbridgedInv'
  BY <1>1, <1>4, <1>17 DEF L3UpGateFails
<1>18. ASSUME NEW q \in Port, Program(q)
       PROVE  UnbridgedInv'
  BY <1>1, <1>3, <1>18 DEF Program
<1>19. CASE UNCHANGED vars
  BY <1>1, <1>19 DEF vars
<1> QED
  BY <1>5, <1>6, <1>7, <1>8, <1>10, <1>11, <1>12, <1>13, <1>14, <1>15, <1>16, <1>17, <1>18, <1>19
     DEF Next

\* The gate of l3up and l3net is sufficient: for any ports, default VLAN and
\* platform, and however late orchagent is, a port they have brought up never loops
\* while the ASIC still bridges it.
THEOREM GateSuffices == Spec => []NoMixedLoop
<1>1. Init => UnbridgedInv
  <2> SUFFICES ASSUME Init PROVE UnbridgedInv
    OBVIOUS
  <2>1. TypeInv
    BY TypeInit
  <2> QED
    BY <2>1 DEF Init, UnbridgedInv, NoJob
<1>2. UnbridgedInv /\ [Next]_vars => UnbridgedInv'
  BY UnbridgedStep
<1>3. UnbridgedInv => NoMixedLoop
  BY DEF UnbridgedInv, NoMixedLoop
<1> QED
  BY <1>1, <1>2, <1>3, PTL DEF Spec

-----------------------------------------------------------------------------
(* l3up is never refused.                                                  *)

\* A port that can be routed: it is, or it is an access port without a stale marker.
Bare(c) == c.mode = "route" \/ (c.mode = "access" /\ ~c.marker)

\* A port as reset_port_to_l2 leaves it; on a ladder port only the way back into the
\* berth is left to do.
Ready(c) ==
    \/ Bare(c)
    \/ c.mode = "hybrid" /\ StpLocked /\ Home # Berth /\ c.members \subseteq {Berth, Home}
       /\ Home \in c.members

\* What the ladder and the move of an access port make of a port of _bridged.
LEMMA IntoHome ==
    ASSUME NEW c, Sane(c), c.cached, Home # Berth, Home \notin c.members
    PROVE  /\ Ready(CliAddUntagged(c, Home))
           /\ ~StpLocked => /\ CliAddUntagged(c, Home).cached
                            /\ \/ CliAddUntagged(c, Home).mode = "route"
                               \/ /\ CliAddUntagged(c, Home).mode = "access"
                                  /\ CliAddUntagged(c, Home).members = {Home}
                                  /\ ~CliAddUntagged(c, Home).marker
<1> DEFINE d == CliAddUntagged(c, Home)
<1>1. EnsurePortL2(c) = c /\ c.mode # "hybrid" /\ (c.mode = "access" => ~c.marker)
  BY EnsureSane DEF Sane
<1>2. d = IF StpLocked THEN LadderAdd(c, Home) ELSE MemberAdd(c, Home)
  BY <1>1 DEF CliAddUntagged
<1>3. CASE StpLocked
  <2>1. c.mode = "access" => c.members \subseteq {Berth}
    BY <1>3 DEF Sane
  <2>2. Ready(LadderAdd(c, Home))
    BY <1>1, <1>3, <2>1
       DEF LadderAdd, MemberAdd, SwitchHybrid, Uncache, Ready, Bare, Sane, PortState
  <2> QED
    BY <1>2, <1>3, <2>2
<1>4. CASE ~StpLocked
  <2>1. /\ MemberAdd(c, Home).cached
        /\ \/ MemberAdd(c, Home).mode = "route"
           \/ /\ MemberAdd(c, Home).mode = "access" /\ MemberAdd(c, Home).members = {Home}
              /\ ~MemberAdd(c, Home).marker
    BY <1>1, <1>4 DEF MemberAdd, Sane, PortState
  <2> QED
    BY <1>2, <1>4, <2>1 DEF Ready, Bare
<1> QED
  BY <1>3, <1>4

\* What reset_port_to_l2 makes of any port, when its default VLAN is not the berth.
LEMMA ResetIntoHome ==
    ASSUME NEW c, Sane(c), Home # Berth
    PROVE  /\ Ready(ResetPortToL2(c))
           /\ ~StpLocked => /\ ResetPortToL2(c).cached
                            /\ \/ ResetPortToL2(c).mode = "route"
                               \/ /\ ResetPortToL2(c).mode = "access"
                                  /\ ResetPortToL2(c).members = {Home}
                                  /\ ~ResetPortToL2(c).marker
<1> DEFINE l2 == EnsurePortL2(c)
<1>1. Sane(l2) /\ l2.cached
  BY EnsureSane
<1> HIDE DEF l2
<1>2. ResetPortToL2(c) = IF Home \in l2.members THEN l2 ELSE CliAddUntagged(l2, Home)
  BY DEF ResetPortToL2, l2
<1>3. CASE Home \in l2.members
  <2>1. l2.mode = "access" /\ l2.members = {Home} /\ ~l2.marker
    BY <1>1, <1>3 DEF Sane, PortState
  <2> QED
    BY <1>1, <1>2, <1>3, <2>1 DEF Ready, Bare
<1>4. CASE Home \notin l2.members
  BY <1>1, <1>2, <1>4, IntoHome
<1> QED
  BY <1>3, <1>4

LEMMA ResetIsReady ==
    ASSUME NEW c, Sane(c)
    PROVE  Ready(ResetPortToL2(c))
<1>1. CASE Home = Berth
  BY <1>1, ResetIsL2 DEF AtHome, Ready, Bare, Routed
<1>2. CASE Home # Berth
  BY <1>2, ResetIntoHome
<1> QED
  BY <1>1, <1>2

LEMMA DetachIsBare ==
    ASSUME NEW c, Sane(c), Ready(c)
    PROVE  Bare(Detach(c))
<1>1. CASE Home = Berth
  BY <1>1 DEF Detach, Ready
<1>2. CASE Home # Berth /\ Bare(c)
  <2>1. Detach(c) = MemberDel(c, Home)
    BY <1>2 DEF Detach, CliMemberDel, Bare
  <2> QED
    BY <1>2, <2>1 DEF MemberDel, Bare, Sane, PortState
<1>3. CASE Home # Berth /\ ~Bare(c)
  <2>1. Detach(c) = LadderDel(c, Home) /\ c.mode = "hybrid" /\ ~c.marker /\ Home \in c.members
    BY <1>3 DEF Detach, CliMemberDel, Ready, Sane
  <2> QED
    BY <1>3, <2>1 DEF LadderDel, MemberDel, SwitchAccess, Uncache, Bare, Sane, PortState
<1> QED
  BY <1>1, <1>2, <1>3

\* A port is as the device ships if each of its fields is.
LEMMA IsDefault ==
    ASSUME NEW c \in PortState,
           c.mode = "route", c.members = {}, c.marker, ~c.addr, ~c.vrf, ~c.cached
    PROVE  c = Default
<1>1. c = [mode |-> c.mode, members |-> c.members, marker |-> c.marker,
           addr |-> c.addr, vrf |-> c.vrf, cached |-> c.cached]
  BY DEF PortState
<1>2. c.marker = TRUE /\ c.addr = FALSE /\ c.vrf = FALSE /\ c.cached = FALSE
  BY DEF PortState
<1> QED
  BY <1>1, <1>2 DEF Default

\* An access port without a stale marker becomes a routed one.
LEMMA BareRoutes ==
    ASSUME NEW c, Sane(c), Bare(c)
    PROVE  /\ RestorePortL3(c).mode = "route"
           /\ AtHome(c) => RestorePortL3(c) = Default
<1> DEFINE d == DelAllMembers(c)
           route == LinkRoute(d)
<1>1. Sane(d) /\ d.marker = c.marker /\ (d.mode = "access" => d.members \subseteq {Berth})
  BY DelAllSane
<1>2. d.mode = c.mode /\ (c.mode = "route" => d = c) /\ d.addr = c.addr /\ d.vrf = c.vrf
  BY DEF DelAllMembers, CliMemberDel, MemberDel, Bare, Sane, PortState
<1> HIDE DEF d
<1>3. route.mode = "route" /\ route.members = {}
  BY <1>1, <1>2 DEF LinkRoute, Bare, Sane, PortState
<1>4. RestorePortL3(c) = Uncache(route)
  BY <1>3 DEF RestorePortL3, d
<1>5. ASSUME AtHome(c) PROVE Uncache(route) = Default
  <2>1. d.mode = "access" /\ ~d.marker /\ ~d.addr /\ ~d.vrf /\ d \in PortState
    BY <1>1, <1>2, <1>5 DEF AtHome, Routed, Sane, PortState
  <2>2. route = [d EXCEPT !.mode = "route", !.marker = TRUE, !.members = {}]
    BY <1>1, <2>1 DEF LinkRoute
  <2>3. Uncache(route) \in PortState /\ Default \in PortState
    BY <2>1, <2>2 DEF Uncache, Default, PortState
  <2>4. /\ Uncache(route).mode = "route" /\ Uncache(route).members = {}
        /\ Uncache(route).marker /\ ~Uncache(route).addr
        /\ ~Uncache(route).vrf /\ ~Uncache(route).cached
    BY <2>1, <2>2 DEF Uncache, PortState
  <2> QED
    BY <2>3, <2>4, IsDefault
<1>6. route \in PortState
  BY <1>1 DEF LinkRoute, Sane, PortState
<1> QED
  BY <1>3, <1>4, <1>5, <1>6 DEF Uncache, PortState

LEMMA BareTakesAddress ==
    ASSUME NEW c, Sane(c), Bare(c)
    PROVE  CliIpAdd(c).addr
<1>1. RestorePortL3(c).mode = "route" /\ RestorePortL3(c) \in PortState
  BY BareRoutes, RestoreSane DEF Sane
<1> QED
  BY <1>1 DEF CliIpAdd, IpAdd, PortState

\* While l3up works on a port, the port is as the step before left it, and nothing
\* else but orchagent takes a step.
JobInv ==
    /\ TypeInv
    /\ job # NoJob => stage = "test" /\ job.port \subseteq Port
    /\ job.step = "detach" => \A p \in job.port : Ready(cfg[p])
    /\ job.step = "address" => \A p \in job.port : Bare(cfg[p])

LEMMA JobStep ==
    ASSUME JobInv, [Next]_vars
    PROVE  JobInv'
<1> USE DEF JobInv
<1>1. TypeInv'
  BY TypeStep
<1>2. \A p \in Port : Sane(cfg[p])
  BY DEF TypeInv
<1>3. cfg \in [Port -> PortState] /\ job \in [step : Steps, port : SUBSET Port]
  BY DEF TypeInv, TypeOK
<1>4. NoJob.step = "none" /\ NoJob.port = {}
  BY DEF NoJob
<1>5. ASSUME NEW q \in Port, L3UpReset(q) PROVE JobInv'
  <2>1. job' = [step |-> "detach", port |-> {q}] /\ stage' = "test"
    BY <1>5 DEF L3UpReset
  <2>2. cfg'[q] = ResetPortToL2(cfg[q])
    BY <1>5 DEF L3UpReset, ResetPorts
  <2>3. Ready(cfg'[q])
    BY <1>2, <2>2, ResetIsReady
  <2> QED
    BY <1>1, <2>1, <2>3
<1>6. ASSUME NEW q \in Port, L3UpDetach(q) PROVE JobInv'
  <2>1. job.step = "detach" /\ job.port = {q} /\ job # NoJob /\ stage' = stage
    BY <1>4, <1>6 DEF L3UpDetach
  <2>2. job'.step = "address" /\ job'.port = {q}
    BY <1>3, <1>6 DEF L3UpDetach
  <2>3. cfg'[q] = Detach(cfg[q])
    BY <1>3, <1>6 DEF L3UpDetach
  <2>4. Bare(cfg'[q])
    BY <1>2, <2>1, <2>3, DetachIsBare
  <2> QED
    BY <1>1, <2>1, <2>2, <2>4
<1>7. ASSUME NEW q \in Port, L3UpAddress(q) PROVE JobInv'
  <2>1. job.port = {q} /\ job # NoJob
    BY <1>4, <1>7 DEF L3UpAddress
  <2>2. job' = NoJob \/ (job'.step = "gate" /\ job'.port = {q} /\ stage' = stage)
    BY <1>3, <1>7, <2>1 DEF L3UpAddress
  <2> QED
    BY <1>1, <1>4, <2>1, <2>2
<1>8. CASE \E q \in Port : L3UpEnable(q) \/ L3UpGateFails(q)
  BY <1>1, <1>4, <1>8 DEF L3UpEnable, L3UpGateFails
<1>9. ASSUME job = NoJob, job' = NoJob PROVE JobInv'
  BY <1>1, <1>4, <1>9
<1>10. CASE NewProcess
  BY <1>1, <1>4, <1>10 DEF NewProcess
<1>11. CASE \/ SessionStart \/ SessionEnd \/ BaseUp \/ BaseDown
            \/ TestStart \/ TestEnd \/ L3UpDown \/ Guard
            \/ \E q \in Port : Body(q) \/ BaseFails(q) \/ BasePurge(q)
  <2>1. job = NoJob /\ job' = NoJob
    BY <1>11 DEF SessionStart, SessionEnd, BaseUp, BaseDown, TestStart, TestEnd, L3UpDown,
                 Guard, Body, BaseFails, BasePurge
  <2> QED
    BY <1>9, <2>1
<1>12. CASE UNCHANGED vars \/ \E q \in Port : Program(q)
  BY <1>1, <1>12 DEF Program, vars
<1> QED
  BY <1>5, <1>6, <1>7, <1>8, <1>10, <1>11, <1>12 DEF Next

\* Whichever mode earlier commands left a port in, whatever the default VLAN and the
\* platform, and wherever an earlier run died, l3up gets its address.
THEOREM L3UpWorks == Spec => []L3UpNeverRefused
<1>1. Init => JobInv
  <2> SUFFICES ASSUME Init PROVE JobInv
    OBVIOUS
  <2>1. TypeInv
    BY TypeInit
  <2> QED
    BY <2>1 DEF Init, JobInv, NoJob
<1>2. JobInv /\ [Next]_vars => JobInv'
  BY JobStep
<1>3. JobInv => L3UpNeverRefused
  <2> SUFFICES ASSUME JobInv, NEW p \in Port, job = [step |-> "address", port |-> {p}]
               PROVE  CliIpAdd(cfg[p]).addr
    BY DEF L3UpNeverRefused
  <2>1. Sane(cfg[p]) /\ Bare(cfg[p])
    BY DEF JobInv, TypeInv
  <2> QED
    BY <2>1, BareTakesAddress
<1> QED
  BY <1>1, <1>2, <1>3, PTL DEF Spec

-----------------------------------------------------------------------------
(* The default configuration is restored.                                  *)

\* Wherever a port is when the session ends, it becomes routed again, unless the
\* worker has a VLAN of its own and STP is locked.
LEMMA LeftIsDefault ==
    ASSUME NEW c, Sane(c), Home = Berth \/ ~StpLocked
    PROVE  LeftAtEnd(c) = Default
<1> DEFINE reset == ResetPortToL2(c)
           moved == CliMemberDel(reset, Home)
           l2 == IF Home = Berth THEN reset ELSE CliAddUntagged(moved, Berth)
<1>0. Home \in Vlan
  BY DEF Vlan
<1>1. Sane(reset)
  BY ResetIsL2
<1>2. Sane(l2) /\ AtHome(l2) /\ l2.cached
  <2>1. CASE Home = Berth
    BY <1>1, <2>1, ResetIsL2
  <2>2. CASE Home # Berth
    <3>1. /\ reset.cached
          /\ \/ reset.mode = "route"
             \/ reset.mode = "access" /\ reset.members = {Home} /\ ~reset.marker
      BY <2>2, ResetIntoHome
    <3> HIDE DEF reset
    <3>2. Sane(moved)
      BY <1>0, <1>1, LadderSane
    <3>3. /\ moved.cached
          /\ \/ moved.mode = "route"
             \/ moved.mode = "access" /\ moved.members = {Berth} /\ ~moved.marker
      BY <1>1, <2>2, <3>1 DEF CliMemberDel, MemberDel, Sane, PortState
    <3> HIDE DEF moved
    <3>4. CASE moved.mode = "access" /\ Berth \in moved.members
      <4>1. l2 = moved /\ AtHome(moved)
        BY <2>2, <3>2, <3>3, <3>4 DEF CliAddUntagged, AtHome, Routed, Sane
      <4> QED
        BY <3>2, <3>3, <4>1
    <3>5. CASE ~(moved.mode = "access" /\ Berth \in moved.members)
      <4>1. l2 = RestoreBridgeHome(moved)
        BY <2>2, <3>5 DEF CliAddUntagged
      <4> QED
        BY <3>2, <3>3, <4>1, HomeIsL2
    <3> QED
      BY <3>4, <3>5
  <2> QED
    BY <2>1, <2>2
<1>3. LeftAtEnd(c) = IF l2.cached THEN RestorePortL3(l2) ELSE l2
  BY DEF LeftAtEnd
<1> HIDE DEF l2
<1>4. Bare(l2)
  BY <1>2 DEF Bare, AtHome, Routed
<1> QED
  BY <1>2, <1>3, <1>4, BareRoutes

\* The worker's ports all get into its own VLAN, and it does not give up.
LEMMA NoneStuck ==
    ASSUME NEW c, Sane(c), ~c.cached, Home # Berth, ~StpLocked
    PROVE  Home \in Moved(c).members
<1> DEFINE d == CliMemberDel(c, Berth)
           l2 == EnsurePortL2(d)
<1>1. Sane(d) /\ ~d.cached
  <2>1. Sane(d)
    BY LadderSane DEF Vlan
  <2>2. ~d.cached
    BY DEF CliMemberDel, MemberDel, Sane, PortState
  <2> QED
    BY <2>1, <2>2
<1> HIDE DEF d
<1>2. Sane(l2) /\ AtHome(l2) /\ l2.cached
  BY <1>1, EnsureSane
<1>3. CliAddUntagged(d, Home) = MemberAdd(l2, Home)
  BY DEF CliAddUntagged
<1> HIDE DEF l2
<1>4. MemberAdd(l2, Home).members = {Home}
  BY <1>2 DEF MemberAdd, AtHome, Routed, Sane, PortState
<1> QED
  BY <1>3, <1>4 DEF Moved, d

\* The ports are as the device ships from the end of a session to the next process.
EndInv ==
    /\ TypeInv
    /\ stage = "closed" => \A p \in Port : ~cfg[p].cached
    /\ job # NoJob => stage = "test"
    /\ DefaultRestored

LEMMA EndStep ==
    ASSUME Home = Berth \/ ~StpLocked, EndInv, [Next]_vars
    PROVE  EndInv'
<1> USE DEF EndInv
<1>1. TypeInv'
  BY TypeStep
<1>2. \A p \in Port : Sane(cfg[p])
  BY DEF TypeInv
<1>3. CASE SessionStart
  <2>1. Home # Berth => \A p \in Port : Home \in Moved(cfg[p]).members
    BY <1>2, <1>3, NoneStuck DEF SessionStart
  <2>2. stage' = "idle" /\ job' = job
    BY <1>3, <2>1 DEF SessionStart
  <2> QED
    BY <1>1, <1>3, <2>2 DEF DefaultRestored, SessionStart
<1>4. CASE SessionEnd
  <2>1. \A p \in Port : LeftAtEnd(cfg[p]) = Default
    BY <1>2, LeftIsDefault
  <2>2. Uncache(Default) = Default
    <3>1. Uncache(Default) \in PortState
      BY DEF Uncache, Default, PortState
    <3> QED
      BY <3>1, IsDefault DEF Uncache, Default
  <2>3. \A p \in Port : cfg'[p] = Default
    BY <1>4, <2>1 DEF SessionEnd
  <2>4. DefaultRestored'
    BY <2>2, <2>3 DEF DefaultRestored, Uncache
  <2> QED
    BY <1>1, <1>4, <2>4 DEF SessionEnd
<1>5. CASE NewProcess
  <2>1. \A p \in Port : ~Uncache(cfg[p]).cached
    BY <1>2 DEF Uncache, Sane, PortState
  <2> QED
    BY <1>1, <1>5, <2>1 DEF NewProcess, DefaultRestored
<1>6. ASSUME stage \in {"idle", "test", "down", "guard"},
             stage' \in {"idle", "test", "down", "guard"}, job' # NoJob => stage' = "test"
      PROVE  EndInv'
  BY <1>1, <1>6 DEF DefaultRestored
<1>7. CASE \/ BaseUp \/ BaseDown \/ TestStart \/ TestEnd \/ L3UpDown \/ Guard
           \/ \E p \in Port : Body(p) \/ BaseFails(p) \/ BasePurge(p)
  BY <1>6, <1>7 DEF BaseUp, BaseDown, TestStart, TestEnd, L3UpDown, Guard, Body, BaseFails,
                    BasePurge
<1>8. CASE \E p \in Port : \/ L3UpReset(p) \/ L3UpDetach(p) \/ L3UpAddress(p)
                           \/ L3UpEnable(p) \/ L3UpGateFails(p)
  <2>1. stage = "test"
    BY <1>8 DEF L3UpReset, L3UpDetach, L3UpAddress, L3UpEnable, L3UpGateFails, NoJob
  <2> QED
    BY <1>6, <1>8, <2>1 DEF L3UpReset, L3UpDetach, L3UpAddress, L3UpEnable, L3UpGateFails
<1>9. CASE UNCHANGED vars \/ \E p \in Port : Program(p)
  BY <1>1, <1>9 DEF Program, vars, DefaultRestored
<1> QED
  BY <1>3, <1>4, <1>5, <1>7, <1>8, <1>9 DEF Next

\* After a session every port is as the device ships, whatever modes tests and dead
\* runs have left; only a worker with its own VLAN under a locked STP may fail to.
THEOREM SessionRestoresDefault ==
    ASSUME Home = Berth \/ ~StpLocked
    PROVE  Spec => []DefaultRestored
<1>1. Init => EndInv
  <2> SUFFICES ASSUME Init PROVE EndInv
    OBVIOUS
  <2>1. TypeInv
    BY TypeInit
  <2>2. \A p \in Port : ~cfg[p].cached
    <3>1. ~Default.cached /\ ~Wedged.cached
      BY DEF Default, Wedged
    <3> QED
      BY <3>1 DEF Init
  <2> QED
    BY <2>1, <2>2 DEF EndInv, Init, DefaultRestored, NoJob
<1>2. EndInv /\ [Next]_vars => EndInv'
  BY EndStep
<1>3. EndInv => DefaultRestored
  BY DEF EndInv
<1> QED
  BY <1>1, <1>2, <1>3, PTL DEF Spec
=============================================================================

---------------------------- MODULE StormProofs ----------------------------
(***************************************************************************)
(* Proofs about Rigs and Lanes: no two looped ports share a flood domain,  *)
(* on one rig or across workers, and everyone cleans up after himself.     *)
(*                                                                         *)
(* Rigs: the plan is always a tail of the plan of its rig and what is      *)
(* registered for the teardown a prefix of the known list (PlanInv), so    *)
(* each command that runs has a known place.  Its effect is read off a     *)
(* table (HairSteps, VrfSteps, HairDownSteps...).  StormInv follows the    *)
(* ports out of the default VLAN and counts the refusals that keep them    *)
(* there; ArmInv says what has been confirmed; HomeInv says which commands *)
(* of the teardown have reached their effect, unless one was refused.      *)
(*                                                                         *)
(* Lanes: the run has an order; a looped port of a worker is in that       *)
(* worker's flood domain (FloodInv), since ports leave it only when the    *)
(* loopbacks are off; entries carry VLAN ids of the view of whoever caused *)
(* them (EntryInv).                                                        *)
(***************************************************************************)
EXTENDS Rigs, Lanes, FiniteSetTheorems, SequenceTheorems, TLAPS

-----------------------------------------------------------------------------
(* What a rig can put on the switch, and the commands of its teardown.     *)

HairFacts ==
    Home \cup {Pvid("A", p_in), Pvid("B", p_out), Vlan("A"), Vlan("B"), Member("A", p_in),
               Member("A", p_out), Svi, Looped(p_in), Looped(p_out), Fdb, Punt}
VlinkFacts == Home \cup {Ip(p_in), Looped(p_in), Neigh(p_in)}
VrfFacts ==
    Home \cup {Vrf("R"), Vrf("S"), Bound("R", p_in), Bound("S", p_out), Ip(p_in), Ip(p_out),
               Looped(p_in), Looped(p_out), Neigh(p_out)}

FactsOf(r) == IF r = "hairpin" THEN HairFacts ELSE IF r = "vlink" THEN VlinkFacts ELSE VrfFacts

HairUndo ==
    <<Off(Vlan("A")), On(Member(Def, p_in)), Off(Member("A", p_in)), On(Member(Def, p_out)),
      Off(Member("A", p_out)), Off(Vlan("B")), Off(Svi)>>
HairDown ==
    <<Off(Punt), Off(Fdb), On(Pvid(Def, p_in)), On(Pvid(Def, p_out)), Off(Looped(p_in)),
      Off(Looped(p_out)), Off(Svi), Off(Vlan("B")), Off(Member("A", p_out)),
      On(Member(Def, p_out)), Off(Member("A", p_in)), On(Member(Def, p_in)), Off(Vlan("A"))>>
VlinkUndo == {On(Member(Def, p_in)), Off(Ip(p_in))}
VrfUndo ==
    <<Off(Vrf("R")), Off(Vrf("S")),
      On(Member(Def, p_in)), Off(Bound("R", p_in)), Off(Ip(p_in)), Off(Looped(p_in)),
      On(Member(Def, p_out)), Off(Bound("S", p_out)), Off(Ip(p_out)), Off(Looped(p_out)),
      Off(Neigh(p_out))>>
VrfDownAll ==
    <<Off(Neigh(p_out)), Off(Looped(p_out)), Off(Ip(p_out)), Off(Bound("S", p_out)),
      On(Member(Def, p_out)), Off(Looped(p_in)), Off(Ip(p_in)), Off(Bound("R", p_in)),
      On(Member(Def, p_in)), Off(Vrf("S")), Off(Vrf("R"))>>

\* How many of them are registered when n steps of the plan are left.
HairKept(n) == IF n >= 11 THEN 0 ELSE IF n <= 4 THEN 7 ELSE 11 - n
VrfKept(n) ==
    IF n = 11 THEN 0 ELSE IF n = 10 THEN 1 ELSE IF n >= 6 THEN 2 ELSE IF n >= 2 THEN 6
    ELSE IF n = 1 THEN 10 ELSE 11

-----------------------------------------------------------------------------
(* The inductive invariant.                                                *)

Stage == {"build", "ready", "setIn", "readIn", "setOut", "readOut", "send", "down", "guard",
          "close", "closed"}
Arming == {"setIn", "readIn", "setOut", "readOut"}

\* Before the teardown has begun.
Early == stage \in {"build", "send"} \cup Arming \/ (stage = "down" /\ ~torn)
Taking == stage = "down" /\ torn

Post(s, c) == IF c.to = "on" THEN c.f \in s ELSE c.f \notin s
Left(L) == /\ Len(plan) <= Len(L)
           /\ \A i \in 1..Len(plan) : plan[i] = Just(L[Len(L) - Len(plan) + i])
Begun(P) == /\ Len(plan) <= Len(P)
            /\ \A i \in 1..Len(plan) : plan[i] = P[Len(P) - Len(plan) + i]
Kept(U, n) == Len(undo) = n /\ \A i \in 1..n : undo[i] = U[i]

\* The types, without what depends on the rig.
BaseInv ==
    /\ busy \in [Pair -> Nat] /\ rig \in Rig /\ stage \in Stage
    /\ covered \in BOOLEAN /\ torn \in BOOLEAN /\ failed \in BOOLEAN
    /\ hit \in Seq({"build", "down", "close"}) /\ Len(hit) <= MaxFaults
    /\ tries \in 0..MaxTries /\ hasty \subseteq Pair
    /\ plan \in Seq(Step) /\ undo \in Seq(Command)

\* The order of a test.
OrderInv ==
    /\ Early => ~torn
    /\ stage \in {"build", "send"} \cup Arming => ~failed
    /\ stage \in Arming => rig = "hairpin"
    /\ rig = "hairpin" => ~covered
    /\ rig = "vrf" => covered
    /\ stage \in {"guard", "close", "closed"} /\ ~failed => torn
    /\ stage # "build" /\ ~Taking => plan = <<>>

\* Each port has one PVID.
Pvids(s, x) == {f \in s : f.k = "pvid" /\ f.x = x}
PvidInv == \A x \in Pair : \E v : Pvids(sw, x) = {Pvid(v, x)}

FactsInv ==
    /\ sw \subseteq FactsOf(rig)
    /\ rig = "vlink" => Member(Def, p_out) \in sw
    /\ stage \in {"close", "closed"} => \A x \in Pair : Looped(x) \notin sw

\* Where the plan is.
PlanInv ==
    /\ rig = "hairpin" => /\ stage = "build" => Begun(HairpinPlan)
                          /\ Early => Kept(HairUndo, HairKept(Len(plan)))
                          /\ Taking => Left(HairDown)
    /\ rig = "vrf" => /\ stage = "build" => Begun(VrfPlan)
                      /\ Early => /\ Kept(VrfUndo, Len(undo)) /\ Len(undo) <= 11
                                  /\ ~failed => Len(undo) = VrfKept(Len(plan))
                      /\ Taking => Left(VrfDownAll)
    /\ rig = "vlink" => /\ stage = "build" => Begun(VlinkPlan)
                        /\ Early => undo \in Seq(VlinkUndo)
                        /\ Taking => \A i \in 1..Len(plan) :
                              /\ \E c \in {Off(Neigh(p_in)), Off(Looped(p_in))} \cup VlinkUndo :
                                    plan[i] = Just(c)
                        /\ Taking /\ Neigh(p_in) \in sw => plan # <<>> /\ plan[1] = Just(Off(Neigh(p_in)))

\* Two looped ports.
HairStorm ==
    LET both == \A x \in Pair : Member(Def, x) \in sw
    IN /\ Early /\ Looped(p_in) \in sw => Len(plan) <= 3
       /\ Early /\ Len(plan) <= 9 /\ Member(Def, p_in) \in sw => Len(hit) >= 1
       /\ Early /\ Len(plan) <= 7 /\ both => Len(hit) >= 2
       /\ Taking /\ Len(plan) <= 8 => Looped(p_in) \notin sw
       /\ Looped(p_in) \in sw /\ both => Len(hit) >= 2

VrfStorm ==
    /\ stage = "build" /\ Len(plan) <= 6 => Member(Def, p_in) \notin sw
    /\ stage = "build" /\ Len(plan) <= 2 => Member(Def, p_out) \notin sw
    /\ Early /\ Looped(p_in) \in sw => Len(undo) >= 6
    /\ Early /\ Looped(p_out) \in sw => Len(undo) >= 10
    /\ Taking /\ Len(plan) <= 9 => Looped(p_out) \notin sw
    /\ Taking /\ Len(plan) <= 5 => Looped(p_in) \notin sw
    /\ \A x \in Pair : Looped(x) \in sw => Member(Def, x) \notin sw

StormInv == (rig = "hairpin" => HairStorm) /\ (rig = "vrf" => VrfStorm)

\* What arm has confirmed stays, or goes home if vlanorch was not done with the port.
Confirmed(v, x) ==
    \/ Pvid(v, x) \in sw /\ busy[x] = 0
    \/ x \in hasty /\ (Pvid(v, x) \in sw \/ Pvid(Def, x) \in sw)

ArmInv ==
    rig = "hairpin" =>
       /\ stage \in {"setOut", "readOut", "send"} => Confirmed("A", p_in)
       /\ stage = "send" => Confirmed("B", p_out)

\* What the teardown has reached, unless one of its commands was refused.
Undone(L) == \A i \in 1..(Len(L) - Len(plan)) : Post(sw, L[i])
Regular == CASE rig = "hairpin" -> ~Hit({"down"})
             [] rig = "vrf" -> ~failed /\ ~Hit({"down"})
             [] rig = "vlink" -> ~Hit({"close"})
HomeInv ==
    /\ Taking /\ Regular /\ rig = "hairpin" => Undone(HairDown)
    /\ Taking /\ Regular /\ rig = "vrf" => Undone(VrfDownAll)
    /\ stage \in {"guard", "close"} /\ torn /\ Regular => sw = Home
    /\ stage = "closed" /\ ~Hit({"close"}) /\ (rig = "hairpin" => torn /\ ~Hit({"down"})) =>
          Home \subseteq sw /\ \A x \in Pair, k \in {"loop", "ip", "bound"} : ~Holds(sw, k, x)

RigInv == /\ BaseInv /\ OrderInv /\ PvidInv /\ FactsInv /\ PlanInv /\ StormInv /\ ArmInv
          /\ HomeInv

-----------------------------------------------------------------------------
(* The plans, step by step.                                                *)

LEMMA Facts ==
    /\ \A r \in Rig : FactsOf(r) \subseteq Fact
    /\ Home \subseteq HairFacts /\ Home \subseteq VlinkFacts /\ Home \subseteq VrfFacts
<1>1. Home \subseteq Fact
  BY DEF Home, Fact, Member, Pvid, F, Pair, Def
<1>2. HairFacts \subseteq Fact
  BY <1>1 DEF HairFacts, Fact, Member, Pvid, Vlan, Svi, Looped, Fdb, Punt, F, Pair, Def, None
<1>3. VlinkFacts \subseteq Fact
  BY <1>1 DEF VlinkFacts, Fact, Ip, Looped, Neigh, F, Pair, Def, None
<1>4. VrfFacts \subseteq Fact
  BY <1>1 DEF VrfFacts, Fact, Ip, Looped, Neigh, Vrf, Bound, F, Pair, Def, None
<1> QED
  BY <1>2, <1>3, <1>4 DEF FactsOf, HairFacts, VlinkFacts, VrfFacts

LEMMA Commands ==
    /\ \A f \in Fact : On(f) \in Command /\ Off(f) \in Command
    /\ \A f : On(f).f = f /\ On(f).to = "on" /\ Off(f).f = f /\ Off(f).to = "off"
    /\ \A f, g : (On(f) = On(g) => f = g) /\ On(f) # Off(g)
<1>1. \A f \in Fact : On(f) \in Command /\ Off(f) \in Command
  BY DEF On, Off, Command
<1>2. \A f : On(f).f = f /\ On(f).to = "on" /\ Off(f).f = f /\ Off(f).to = "off"
  BY DEF On, Off
<1>3. \A f, g : (On(f) = On(g) => f = g) /\ On(f) # Off(g)
  BY <1>2
<1> QED
  BY <1>1, <1>2, <1>3

LEMMA Justs ==
    \A c : /\ c \in Command => Just(c) \in Step
           /\ Just(c).c = c /\ Just(c).keep = <<>> /\ ~Just(c).strict
<1>1. \A c : Just(c).c = c /\ Just(c).keep = <<>> /\ ~Just(c).strict
  BY DEF Just, Do
<1>2. <<>> \in Seq(Command)
  OBVIOUS
<1>3. \A c \in Command, k \in Seq(Command) : Do(c, k, TRUE, FALSE) \in Step
  BY DEF Do, Step
<1>4. \A c \in Command : Just(c) \in Step
  BY <1>2, <1>3 DEF Just
<1> QED
  BY <1>1, <1>4

\* The elements of the plan of the hairpin.
LEMMA HairElements ==
    /\ Len(HairpinPlan) = 13 /\ HairpinPlan = [i \in 1..13 |-> HairpinPlan[i]]
    /\ HairpinPlan[1] = Just(On(Pvid(Def, p_in)))
    /\ HairpinPlan[2] = Just(On(Pvid(Def, p_out)))
    /\ HairpinPlan[3] = Do(On(Vlan("A")), <<Off(Vlan("A"))>>, FALSE, FALSE)
    /\ HairpinPlan[4] = Do(Off(Member(Def, p_in)), <<On(Member(Def, p_in))>>, FALSE, FALSE)
    /\ HairpinPlan[5] = Do(On(Member("A", p_in)), <<Off(Member("A", p_in))>>, FALSE, FALSE)
    /\ HairpinPlan[6] = Do(Off(Member(Def, p_out)), <<On(Member(Def, p_out))>>, FALSE, FALSE)
    /\ HairpinPlan[7] = Do(On(Member("A", p_out)), <<Off(Member("A", p_out))>>, FALSE, FALSE)
    /\ HairpinPlan[8] = Do(On(Vlan("B")), <<Off(Vlan("B"))>>, FALSE, FALSE)
    /\ HairpinPlan[9] = Do(On(Svi), <<Off(Svi)>>, FALSE, FALSE)
    /\ HairpinPlan[10] = Just(On(Looped(p_in)))
    /\ HairpinPlan[11] = Just(On(Looped(p_out)))
    /\ HairpinPlan[12] = Just(On(Fdb))
    /\ HairpinPlan[13] = Just(On(Punt))
    /\ HairUndo[1] = Off(Vlan("A")) /\ HairUndo[2] = On(Member(Def, p_in)) /\ HairUndo[3] = Off(Member("A", p_in))
    /\ HairUndo[4] = On(Member(Def, p_out)) /\ HairUndo[5] = Off(Member("A", p_out))
    /\ HairUndo[6] = Off(Vlan("B")) /\ HairUndo[7] = Off(Svi)
<1>1. Len(HairpinPlan) = 13 /\ HairpinPlan = [i \in 1..13 |-> HairpinPlan[i]]
  BY DEF HairpinPlan
<1>2. /\ HairpinPlan[1] = Just(On(Pvid(Def, p_in)))
      /\ HairpinPlan[2] = Just(On(Pvid(Def, p_out)))
      /\ HairpinPlan[3] = Do(On(Vlan("A")), <<Off(Vlan("A"))>>, FALSE, FALSE)
      /\ HairpinPlan[4] = Do(Off(Member(Def, p_in)), <<On(Member(Def, p_in))>>, FALSE, FALSE)
      /\ HairpinPlan[5] = Do(On(Member("A", p_in)), <<Off(Member("A", p_in))>>, FALSE, FALSE)
      /\ HairpinPlan[6] = Do(Off(Member(Def, p_out)), <<On(Member(Def, p_out))>>, FALSE, FALSE)
  BY DEF HairpinPlan
<1>3. /\ HairpinPlan[7] = Do(On(Member("A", p_out)), <<Off(Member("A", p_out))>>, FALSE, FALSE)
      /\ HairpinPlan[8] = Do(On(Vlan("B")), <<Off(Vlan("B"))>>, FALSE, FALSE)
      /\ HairpinPlan[9] = Do(On(Svi), <<Off(Svi)>>, FALSE, FALSE)
      /\ HairpinPlan[10] = Just(On(Looped(p_in)))
      /\ HairpinPlan[11] = Just(On(Looped(p_out)))
      /\ HairpinPlan[12] = Just(On(Fdb))
      /\ HairpinPlan[13] = Just(On(Punt))
  BY DEF HairpinPlan
<1>4. /\ HairUndo[1] = Off(Vlan("A")) /\ HairUndo[2] = On(Member(Def, p_in))
      /\ HairUndo[3] = Off(Member("A", p_in)) /\ HairUndo[4] = On(Member(Def, p_out))
      /\ HairUndo[5] = Off(Member("A", p_out))
      /\ HairUndo[6] = Off(Vlan("B")) /\ HairUndo[7] = Off(Svi)
  BY DEF HairUndo
<1> QED
  BY <1>1, <1>2, <1>3, <1>4, Zenon

LEMMA HairSteps ==
    /\ HairpinPlan \in Seq(Step) /\ Len(HairpinPlan) = 13
    /\ \A i \in 1..13 :
          LET s == HairpinPlan[i]
              c == s.c
          IN /\ c \in Command /\ ~s.strict
             /\ c.to = "on" => c.f \in HairFacts
             /\ c.f.k \notin {"bound", "vrf"}
             /\ c.f.k = "pvid" => c.to = "on"
             /\ (c.f.k = "member" /\ c.f.v = Def) => c.to = "off"
             /\ c = On(Looped(p_in)) => i = 10
             /\ i = 4 => c = Off(Member(Def, p_in))
             /\ i = 6 => c = Off(Member(Def, p_out))
             /\ i \in {1, 2, 10, 11, 12, 13} => s.keep = <<>>
             /\ i \in 3..9 => s.keep = <<HairUndo[i - 2]>> /\ ~s.ifok
<1> DEFINE OK(s, i) ==
              LET c == s.c
              IN /\ s \in Step /\ c \in Command /\ ~s.strict
                 /\ c.to = "on" => c.f \in HairFacts
                 /\ c.f.k \notin {"bound", "vrf"}
                 /\ c.f.k = "pvid" => c.to = "on"
                 /\ (c.f.k = "member" /\ c.f.v = Def) => c.to = "off"
                 /\ c = On(Looped(p_in)) => i = 10
                 /\ i = 4 => c = Off(Member(Def, p_in))
                 /\ i = 6 => c = Off(Member(Def, p_out))
                 /\ i \in {1, 2, 10, 11, 12, 13} => s.keep = <<>>
                 /\ i \in 3..9 => s.keep = <<HairUndo[i - 2]>> /\ ~s.ifok
<1>1. /\ HairFacts \subseteq Fact
      /\ \A v \in {"A", "B"} : Vlan(v) \in HairFacts
      /\ Svi \in HairFacts /\ Fdb \in HairFacts /\ Punt \in HairFacts
      /\ \A x \in {p_in, p_out} : /\ Pvid(Def, x) \in HairFacts /\ Member(Def, x) \in HairFacts
                                  /\ Member("A", x) \in HairFacts /\ Looped(x) \in HairFacts
  BY Facts DEF FactsOf, Rig, HairFacts, Home, Pair
<1>2. \A f \in HairFacts : On(f) \in Command /\ Off(f) \in Command
  BY <1>1, Commands
<1>3. p_in # p_out
  BY RigAssumption
<1> USE <1>1, <1>2 DEF Pvid, Member, Vlan, Svi, Looped, Fdb, Punt, F, Def, None
<1>4. OK(Just(On(Pvid(Def, p_in))), 1)
  BY <1>3, Commands, Justs
<1>5. OK(Just(On(Pvid(Def, p_out))), 2)
  BY <1>3, Commands, Justs
<1>6. OK(Do(On(Vlan("A")), <<Off(Vlan("A"))>>, FALSE, FALSE), 3)
  BY HairElements DEF Step, Do, On, Off
<1>7. OK(Do(Off(Member(Def, p_in)), <<On(Member(Def, p_in))>>, FALSE, FALSE), 4)
  BY HairElements DEF Step, Do, On, Off
<1>8. OK(Do(On(Member("A", p_in)), <<Off(Member("A", p_in))>>, FALSE, FALSE), 5)
  BY HairElements DEF Step, Do, On, Off
<1>9. OK(Do(Off(Member(Def, p_out)), <<On(Member(Def, p_out))>>, FALSE, FALSE), 6)
  BY HairElements DEF Step, Do, On, Off
<1>10. OK(Do(On(Member("A", p_out)), <<Off(Member("A", p_out))>>, FALSE, FALSE), 7)
  BY HairElements DEF Step, Do, On, Off
<1>11. OK(Do(On(Vlan("B")), <<Off(Vlan("B"))>>, FALSE, FALSE), 8)
  BY HairElements DEF Step, Do, On, Off
<1>12. OK(Do(On(Svi), <<Off(Svi)>>, FALSE, FALSE), 9)
  BY HairElements DEF Step, Do, On, Off
<1>13. OK(Just(On(Looped(p_in))), 10)
  BY <1>3, Commands, Justs
<1>14. OK(Just(On(Looped(p_out))), 11)
  BY <1>3, Commands, Justs
<1>15. OK(Just(On(Fdb)), 12)
  BY <1>3, Commands, Justs
<1>16. OK(Just(On(Punt)), 13)
  BY <1>3, Commands, Justs
<1> HIDE <1>1, <1>2 DEF OK, Pvid, Member, Vlan, Svi, Looped, Fdb, Punt, F, Def, None
<1>17. /\ OK(HairpinPlan[1], 1) /\ OK(HairpinPlan[2], 2) /\ OK(HairpinPlan[3], 3)
       /\ OK(HairpinPlan[4], 4) /\ OK(HairpinPlan[5], 5) /\ OK(HairpinPlan[6], 6)
       /\ OK(HairpinPlan[7], 7) /\ OK(HairpinPlan[8], 8) /\ OK(HairpinPlan[9], 9)
       /\ OK(HairpinPlan[10], 10) /\ OK(HairpinPlan[11], 11) /\ OK(HairpinPlan[12], 12)
       /\ OK(HairpinPlan[13], 13)
  BY <1>4, <1>5, <1>6, <1>7, <1>8, <1>9, <1>10, <1>11, <1>12, <1>13, <1>14, <1>15, <1>16,
     HairElements, Zenon
<1>18. \A i \in 1..13 : OK(HairpinPlan[i], i)
  BY <1>17
<1>19. \A i \in 1..13 : HairpinPlan[i] \in Step
  BY <1>18 DEF OK
<1>20. HairpinPlan \in Seq(Step)
  BY <1>19, HairElements
<1> QED
  BY <1>18, <1>20, HairElements DEF OK

\* The teardown of the hairpin; no two of its commands are about the same fact.
HairPos(f) ==
    CASE f.k = "punt" -> 1 [] f.k = "fdb" -> 2 [] f.k = "svi" -> 7
      [] f.k = "pvid" -> IF f.x = p_in THEN 3 ELSE 4
      [] f.k = "loop" -> IF f.x = p_in THEN 5 ELSE 6
      [] f.k = "vlan" -> IF f.v = "B" THEN 8 ELSE 13
      [] f.k = "member" -> IF f.x = p_in THEN (IF f.v = "A" THEN 11 ELSE 12)
                           ELSE (IF f.v = "A" THEN 9 ELSE 10)

LEMMA HairDownElements ==
    /\ Len(HairDown) = 13
    /\ HairDown[1] = Off(Punt) /\ HairDown[2] = Off(Fdb)
    /\ HairDown[3] = On(Pvid(Def, p_in)) /\ HairDown[4] = On(Pvid(Def, p_out))
    /\ HairDown[5] = Off(Looped(p_in)) /\ HairDown[6] = Off(Looped(p_out))
    /\ HairDown[7] = Off(Svi) /\ HairDown[8] = Off(Vlan("B"))
    /\ HairDown[9] = Off(Member("A", p_out)) /\ HairDown[10] = On(Member(Def, p_out))
    /\ HairDown[11] = Off(Member("A", p_in)) /\ HairDown[12] = On(Member(Def, p_in))
    /\ HairDown[13] = Off(Vlan("A"))
BY DEF HairDown

LEMMA HairDownSteps ==
    /\ \A i \in 1..13 :
          LET c == HairDown[i]
          IN /\ c \in Command
             /\ c.to = "on" => c.f \in Home /\ (c.f.k = "member" => i >= 10)
             /\ c.f.k = "pvid" => c.to = "on"
             /\ c.f.k \notin {"bound", "vrf"} /\ HairPos(c.f) = i
    /\ \A i, j \in 1..13 : HairDown[i].f = HairDown[j].f => i = j
<1> DEFINE OK(c, i) == /\ c \in Command
                       /\ c.to = "on" => c.f \in Home /\ (c.f.k = "member" => i >= 10)
                       /\ c.f.k = "pvid" => c.to = "on"
                       /\ c.f.k \notin {"bound", "vrf"} /\ HairPos(c.f) = i
<1>1. /\ {Vlan("A"), Vlan("B"), Svi, Fdb, Punt} \subseteq Fact
      /\ \A x \in {p_in, p_out} :
            {Pvid(Def, x), Member(Def, x), Member("A", x), Looped(x)} \subseteq Fact
      /\ \A x \in {p_in, p_out} : {Pvid(Def, x), Member(Def, x)} \subseteq Home
  BY Facts DEF FactsOf, Rig, HairFacts, Home, Pair
<1>2. p_in # p_out
  BY RigAssumption
<1> USE <1>1, <1>2, Commands DEF Pvid, Member, Vlan, Svi, Looped, Fdb, Punt, F, Def, None, HairPos
<1>3. OK(Off(Punt), 1)
  OBVIOUS
<1>4. OK(Off(Fdb), 2)
  OBVIOUS
<1>5. OK(On(Pvid(Def, p_in)), 3)
  OBVIOUS
<1>6. OK(On(Pvid(Def, p_out)), 4)
  OBVIOUS
<1>7. OK(Off(Looped(p_in)), 5)
  OBVIOUS
<1>8. OK(Off(Looped(p_out)), 6)
  OBVIOUS
<1>9. OK(Off(Svi), 7)
  OBVIOUS
<1>10. OK(Off(Vlan("B")), 8)
  OBVIOUS
<1>11. OK(Off(Member("A", p_out)), 9)
  OBVIOUS
<1>12. OK(On(Member(Def, p_out)), 10)
  OBVIOUS
<1>13. OK(Off(Member("A", p_in)), 11)
  OBVIOUS
<1>14. OK(On(Member(Def, p_in)), 12)
  OBVIOUS
<1>15. OK(Off(Vlan("A")), 13)
  OBVIOUS
<1> HIDE <1>1, <1>2, Commands DEF OK, Pvid, Member, Vlan, Svi, Looped, Fdb, Punt, F, Def, None, HairPos
<1>16. \A i \in 1..13 : OK(HairDown[i], i)
  BY <1>3, <1>4, <1>5, <1>6, <1>7, <1>8, <1>9, <1>10, <1>11, <1>12, <1>13, <1>14, <1>15, HairDownElements
<1>17. \A i \in 1..13 : HairPos(HairDown[i].f) = i
  BY <1>16 DEF OK
<1> QED
  BY <1>16, <1>17 DEF OK

\* The same of the VRF hairpin.
VrfPos(f) ==
    CASE f.k = "neigh" -> 1
      [] f.k = "loop" -> IF f.x = p_in THEN 6 ELSE 2
      [] f.k = "ip" -> IF f.x = p_in THEN 7 ELSE 3
      [] f.k = "bound" -> IF f.x = p_in THEN 8 ELSE 4
      [] f.k = "member" -> IF f.x = p_in THEN 9 ELSE 5
      [] f.k = "vrf" -> IF f.v = "S" THEN 10 ELSE 11

LEMMA VrfDownElements ==
    /\ Len(VrfDownAll) = 11
    /\ VrfDownAll[1] = Off(Neigh(p_out)) /\ VrfDownAll[2] = Off(Looped(p_out))
    /\ VrfDownAll[3] = Off(Ip(p_out)) /\ VrfDownAll[4] = Off(Bound("S", p_out))
    /\ VrfDownAll[5] = On(Member(Def, p_out)) /\ VrfDownAll[6] = Off(Looped(p_in))
    /\ VrfDownAll[7] = Off(Ip(p_in)) /\ VrfDownAll[8] = Off(Bound("R", p_in))
    /\ VrfDownAll[9] = On(Member(Def, p_in)) /\ VrfDownAll[10] = Off(Vrf("S"))
    /\ VrfDownAll[11] = Off(Vrf("R"))
BY DEF VrfDownAll

LEMMA VrfDownSteps ==
    /\ \A i \in 1..11 :
          LET c == VrfDownAll[i]
          IN /\ c \in Command
             /\ c.to = "on" => c.f \in Home /\ c.f.k = "member" /\ i \in {5, 9}
             /\ c.f.k \notin {"pvid", "vlan"} /\ VrfPos(c.f) = i
    /\ \A i, j \in 1..11 : VrfDownAll[i].f = VrfDownAll[j].f => i = j
<1> DEFINE OK(c, i) == /\ c \in Command
                       /\ c.to = "on" => c.f \in Home /\ c.f.k = "member" /\ i \in {5, 9}
                       /\ c.f.k \notin {"pvid", "vlan"} /\ VrfPos(c.f) = i
<1>1. /\ {Vrf("R"), Vrf("S"), Neigh(p_out), Bound("R", p_in), Bound("S", p_out)} \subseteq Fact
      /\ \A x \in {p_in, p_out} : {Ip(x), Member(Def, x), Looped(x)} \subseteq Fact
      /\ \A x \in {p_in, p_out} : Member(Def, x) \in Home
  BY Facts DEF FactsOf, Rig, VrfFacts, Home, Pair
<1>2. p_in # p_out
  BY RigAssumption
<1> USE <1>1, <1>2, Commands DEF Vrf, Neigh, Bound, Ip, Member, Looped, F, Def, None, VrfPos
<1>3. OK(Off(Neigh(p_out)), 1)
  OBVIOUS
<1>4. OK(Off(Looped(p_out)), 2)
  OBVIOUS
<1>5. OK(Off(Ip(p_out)), 3)
  OBVIOUS
<1>6. OK(Off(Bound("S", p_out)), 4)
  OBVIOUS
<1>7. OK(On(Member(Def, p_out)), 5)
  OBVIOUS
<1>8. OK(Off(Looped(p_in)), 6)
  OBVIOUS
<1>9. OK(Off(Ip(p_in)), 7)
  OBVIOUS
<1>10. OK(Off(Bound("R", p_in)), 8)
  OBVIOUS
<1>11. OK(On(Member(Def, p_in)), 9)
  OBVIOUS
<1>12. OK(Off(Vrf("S")), 10)
  OBVIOUS
<1>13. OK(Off(Vrf("R")), 11)
  OBVIOUS
<1> HIDE <1>1, <1>2, Commands DEF OK, Vrf, Neigh, Bound, Ip, Member, Looped, F, Def, None, VrfPos
<1>14. \A i \in 1..11 : OK(VrfDownAll[i], i)
  BY <1>3, <1>4, <1>5, <1>6, <1>7, <1>8, <1>9, <1>10, <1>11, <1>12, <1>13, VrfDownElements
<1>15. \A i \in 1..11 : VrfPos(VrfDownAll[i].f) = i
  BY <1>14 DEF OK
<1> QED
  BY <1>14, <1>15 DEF OK

\* Lists of steps, one after the other.
LEMMA Joined ==
    ASSUME NEW a \in Seq(Step), NEW b \in Seq(Step)
    PROVE  \E c \in Seq(Step) :
              /\ c = a \o b /\ Len(c) = Len(a) + Len(b)
              /\ \A i \in 1..(Len(a) + Len(b)) : c[i] = IF i <= Len(a) THEN a[i] ELSE b[i - Len(a)]
<1>1. /\ a \o b \in Seq(Step) /\ Len(a \o b) = Len(a) + Len(b)
      /\ \A i \in 1..(Len(a) + Len(b)) : (a \o b)[i] = IF i <= Len(a) THEN a[i] ELSE b[i - Len(a)]
  BY ConcatProperties
<1> QED
  BY <1>1, Zenon

LEMMA StepSorts ==
    \A c \in Command, k \in Seq(Command) :
        Do(c, k, TRUE, TRUE) \in Step /\ Do(c, k, TRUE, FALSE) \in Step
BY DEF Do, Step

LEMMA VrfLists ==
    /\ <<>> \in Seq(Command)
    /\ \A c \in Command : <<c>> \in Seq(Command)
    /\ \A c, d, e, f \in Command : <<c, d, e, f>> \in Seq(Command)
    /\ \A s, t, u, v \in Step : <<s>> \in Seq(Step) /\ <<s, t>> \in Seq(Step)
                                /\ <<s, t, u, v>> \in Seq(Step)
OBVIOUS

LEMMA Binds ==
    ASSUME NEW r \in {"R", "S"}, NEW x \in Pair
    PROVE  /\ BindPlan(r, x) \in Seq(Step) /\ Len(BindPlan(r, x)) = 4
           /\ BindPlan(r, x)[1] = Just(Off(Member(Def, x)))
           /\ BindPlan(r, x)[2] = Do(On(Bound(r, x)), <<>>, TRUE, TRUE)
           /\ BindPlan(r, x)[3] = Do(On(Ip(x)), <<>>, TRUE, TRUE)
           /\ BindPlan(r, x)[4] = Do(On(Looped(x)), <<On(Member(Def, x)), Off(Bound(r, x)), Off(Ip(x)),
                                                      Off(Looped(x))>>, TRUE, FALSE)
<1>1. {Member(Def, x), Bound(r, x), Ip(x), Looped(x)} \subseteq Fact
  BY DEF Member, Bound, Ip, Looped, F, Fact, Def, None
<1>2. \A f \in {Member(Def, x), Bound(r, x), Ip(x), Looped(x)} : On(f) \in Command /\ Off(f) \in Command
  BY <1>1, Commands
<1>3. /\ Just(Off(Member(Def, x))) \in Step
      /\ Do(On(Bound(r, x)), <<>>, TRUE, TRUE) \in Step
      /\ Do(On(Ip(x)), <<>>, TRUE, TRUE) \in Step
  BY <1>2, StepSorts, Justs, VrfLists
<1>4. Do(On(Looped(x)), <<On(Member(Def, x)), Off(Bound(r, x)), Off(Ip(x)), Off(Looped(x))>>, TRUE, FALSE)
         \in Step
  <2>1. <<On(Member(Def, x)), Off(Bound(r, x)), Off(Ip(x)), Off(Looped(x))>> \in Seq(Command)
    BY <1>2, VrfLists
  <2> QED
    BY <1>2, <2>1, StepSorts
<1>5. BindPlan(r, x) \in Seq(Step)
  BY <1>3, <1>4, VrfLists DEF BindPlan
<1> QED
  BY <1>5 DEF BindPlan

LEMMA VrfElements ==
    /\ VrfPlan \in Seq(Step) /\ Len(VrfPlan) = 11
    /\ VrfPlan[1] = Do(On(Vrf("R")), <<Off(Vrf("R"))>>, TRUE, TRUE)
    /\ VrfPlan[2] = Do(On(Vrf("S")), <<Off(Vrf("S"))>>, TRUE, TRUE)
    /\ VrfPlan[3] = Just(Off(Member(Def, p_in)))
    /\ VrfPlan[4] = Do(On(Bound("R", p_in)), <<>>, TRUE, TRUE)
    /\ VrfPlan[5] = Do(On(Ip(p_in)), <<>>, TRUE, TRUE)
    /\ VrfPlan[6] = Do(On(Looped(p_in)), <<On(Member(Def, p_in)), Off(Bound("R", p_in)), Off(Ip(p_in)),
                                    Off(Looped(p_in))>>, TRUE, FALSE)
    /\ VrfPlan[7] = Just(Off(Member(Def, p_out)))
    /\ VrfPlan[8] = Do(On(Bound("S", p_out)), <<>>, TRUE, TRUE)
    /\ VrfPlan[9] = Do(On(Ip(p_out)), <<>>, TRUE, TRUE)
    /\ VrfPlan[10] = Do(On(Looped(p_out)), <<On(Member(Def, p_out)), Off(Bound("S", p_out)), Off(Ip(p_out)),
                                    Off(Looped(p_out))>>, TRUE, FALSE)
    /\ VrfPlan[11] = Do(On(Neigh(p_out)), <<Off(Neigh(p_out))>>, TRUE, FALSE)
<1> DEFINE A == <<Do(On(Vrf("R")), <<Off(Vrf("R"))>>, TRUE, TRUE),
                  Do(On(Vrf("S")), <<Off(Vrf("S"))>>, TRUE, TRUE)>>
           B == BindPlan("R", p_in)
           C == BindPlan("S", p_out)
           D == <<Do(On(Neigh(p_out)), <<Off(Neigh(p_out))>>, TRUE, FALSE)>>
<1>1. {Vrf("R"), Vrf("S"), Neigh(p_out)} \subseteq Fact
  BY DEF Vrf, Neigh, F, Fact, None, Pair
<1>2. A \in Seq(Step) /\ Len(A) = 2 /\ D \in Seq(Step) /\ Len(D) = 1
  <2>1. \A f \in {Vrf("R"), Vrf("S"), Neigh(p_out)} : On(f) \in Command /\ <<Off(f)>> \in Seq(Command)
    BY <1>1, Commands, VrfLists
  <2>2. /\ Do(On(Vrf("R")), <<Off(Vrf("R"))>>, TRUE, TRUE) \in Step
        /\ Do(On(Vrf("S")), <<Off(Vrf("S"))>>, TRUE, TRUE) \in Step
        /\ Do(On(Neigh(p_out)), <<Off(Neigh(p_out))>>, TRUE, FALSE) \in Step
    BY <2>1, StepSorts
  <2> QED
    BY <2>2, VrfLists
<1>3. B \in Seq(Step) /\ Len(B) = 4 /\ C \in Seq(Step) /\ Len(C) = 4
  BY Binds DEF Pair
<1>4. /\ A[1] = Do(On(Vrf("R")), <<Off(Vrf("R"))>>, TRUE, TRUE)
      /\ A[2] = Do(On(Vrf("S")), <<Off(Vrf("S"))>>, TRUE, TRUE)
      /\ D[1] = Do(On(Neigh(p_out)), <<Off(Neigh(p_out))>>, TRUE, FALSE)
  OBVIOUS
<1> HIDE DEF A, B, C, D
<1>5. PICK a, b, c, d : a = A /\ b = B /\ c = C /\ d = D
  OBVIOUS
<1>6. /\ a \in Seq(Step) /\ b \in Seq(Step) /\ c \in Seq(Step) /\ d \in Seq(Step)
      /\ Len(a) = 2 /\ Len(b) = 4 /\ Len(c) = 4 /\ Len(d) = 1
  BY <1>2, <1>3, <1>5
<1>7. PICK ab \in Seq(Step) :
          /\ ab = a \o b /\ Len(ab) = Len(a) + Len(b)
          /\ \A i \in 1..(Len(a) + Len(b)) : ab[i] = IF i <= Len(a) THEN a[i] ELSE b[i - Len(a)]
  BY <1>6, Joined
<1>8. Len(ab) = 6 /\ \A i \in 1..6 : ab[i] = IF i <= 2 THEN a[i] ELSE b[i - 2]
  <2>1. Len(a) = 2 /\ Len(a) + Len(b) = 6
    BY <1>6
  <2> QED
    BY <2>1, <1>7
<1>9. /\ Len(ab) = 6
      /\ ab[1] = a[1] /\ ab[2] = a[2] /\ ab[3] = b[1] /\ ab[4] = b[2] /\ ab[5] = b[3] /\ ab[6] = b[4]
  BY <1>8
<1>10. PICK abc \in Seq(Step) :
          /\ abc = ab \o c /\ Len(abc) = Len(ab) + Len(c)
          /\ \A i \in 1..(Len(ab) + Len(c)) : abc[i] = IF i <= Len(ab) THEN ab[i] ELSE c[i - Len(ab)]
  BY <1>6, Joined
<1>11. Len(abc) = 10 /\ \A i \in 1..10 : abc[i] = IF i <= 6 THEN ab[i] ELSE c[i - 6]
  <2>1. Len(ab) = 6 /\ Len(ab) + Len(c) = 10
    BY <1>6, <1>8
  <2> QED
    BY <2>1, <1>10
<1>12. /\ Len(abc) = 10 /\ \A i \in 1..6 : abc[i] = ab[i]
      /\ abc[7] = c[1] /\ abc[8] = c[2] /\ abc[9] = c[3] /\ abc[10] = c[4]
  BY <1>11
<1>13. PICK all \in Seq(Step) :
          /\ all = abc \o d /\ Len(all) = Len(abc) + Len(d)
          /\ \A i \in 1..(Len(abc) + Len(d)) : all[i] = IF i <= Len(abc) THEN abc[i] ELSE d[i - Len(abc)]
  BY <1>6, Joined
<1>14. Len(all) = 11 /\ \A i \in 1..11 : all[i] = IF i <= 10 THEN abc[i] ELSE d[i - 10]
  <2>1. Len(abc) = 10 /\ Len(abc) + Len(d) = 11
    BY <1>6, <1>11
  <2> QED
    BY <2>1, <1>13
<1>15. Len(all) = 11 /\ all[11] = d[1] /\ \A i \in 1..10 : all[i] = abc[i]
  BY <1>14
<1>16. all = a \o b \o c \o d
  BY <1>7, <1>10, <1>13
<1>17. /\ all[1] = a[1] /\ all[2] = a[2] /\ all[3] = b[1] /\ all[4] = b[2]
              /\ all[5] = b[3] /\ all[6] = b[4] /\ all[7] = c[1] /\ all[8] = c[2]
              /\ all[9] = c[3] /\ all[10] = c[4] /\ all[11] = d[1]
  BY <1>9, <1>12, <1>15
<1>18. VrfPlan = all
  BY <1>5, <1>16 DEF VrfPlan, A, B, C, D
<1>19. /\ B[1] = Just(Off(Member(Def, p_in))) /\ C[1] = Just(Off(Member(Def, p_out)))
       /\ B[2] = Do(On(Bound("R", p_in)), <<>>, TRUE, TRUE)
       /\ C[2] = Do(On(Bound("S", p_out)), <<>>, TRUE, TRUE)
       /\ B[3] = Do(On(Ip(p_in)), <<>>, TRUE, TRUE)
       /\ C[3] = Do(On(Ip(p_out)), <<>>, TRUE, TRUE)
  BY Binds DEF B, C, Pair
<1>20. /\ B[4] = Do(On(Looped(p_in)), <<On(Member(Def, p_in)), Off(Bound("R", p_in)), Off(Ip(p_in)),
                                        Off(Looped(p_in))>>, TRUE, FALSE)
       /\ C[4] = Do(On(Looped(p_out)), <<On(Member(Def, p_out)), Off(Bound("S", p_out)), Off(Ip(p_out)),
                                         Off(Looped(p_out))>>, TRUE, FALSE)
  BY Binds DEF B, C, Pair
<1> QED
  BY <1>4, <1>5, <1>15, <1>17, <1>18, <1>19, <1>20, Zenon

LEMMA VrfUndoElements ==
    /\ VrfUndo[1] = Off(Vrf("R")) /\ VrfUndo[2] = Off(Vrf("S"))
    /\ VrfUndo[3] = On(Member(Def, p_in)) /\ VrfUndo[4] = Off(Bound("R", p_in))
    /\ VrfUndo[5] = Off(Ip(p_in)) /\ VrfUndo[6] = Off(Looped(p_in))
    /\ VrfUndo[7] = On(Member(Def, p_out)) /\ VrfUndo[8] = Off(Bound("S", p_out))
    /\ VrfUndo[9] = Off(Ip(p_out)) /\ VrfUndo[10] = Off(Looped(p_out))
    /\ VrfUndo[11] = Off(Neigh(p_out))
BY DEF VrfUndo

LEMMA VrfSteps ==
    \A i \in 1..11 :
          LET s == VrfPlan[i]
              c == s.c
          IN /\ c \in Command
             /\ c.to = "on" => c.f \in VrfFacts
             /\ c.f.k # "pvid" /\ (c.f.k = "member" => c.to = "off")
             /\ c = On(Looped(p_in)) => i = 6
             /\ c = On(Looped(p_out)) => i = 10
             /\ i = 5 => c = On(Ip(p_in))
             /\ i = 9 => c = On(Ip(p_out))
             /\ s.strict => s.ifok
             /\ c.f.k = "ip" => s.strict
             /\ ~s.strict /\ c.f.k \in Configured => s.keep = <<>>
             /\ s.keep \in Seq(Command) /\ Len(s.keep) = VrfKept(11 - i) - VrfKept(12 - i)
             /\ \A j \in 1..Len(s.keep) : s.keep[j] = VrfUndo[VrfKept(12 - i) + j]
<1> DEFINE OK(s, i) ==
          LET c == s.c
          IN /\ c \in Command
             /\ c.to = "on" => c.f \in VrfFacts
             /\ c.f.k # "pvid" /\ (c.f.k = "member" => c.to = "off")
             /\ c = On(Looped(p_in)) => i = 6
             /\ c = On(Looped(p_out)) => i = 10
             /\ i = 5 => c = On(Ip(p_in))
             /\ i = 9 => c = On(Ip(p_out))
             /\ s.strict => s.ifok
             /\ c.f.k = "ip" => s.strict
             /\ ~s.strict /\ c.f.k \in Configured => s.keep = <<>>
             /\ s.keep \in Seq(Command) /\ Len(s.keep) = VrfKept(11 - i) - VrfKept(12 - i)
             /\ \A j \in 1..Len(s.keep) : s.keep[j] = VrfUndo[VrfKept(12 - i) + j]
<1>1. /\ {Vrf("R"), Vrf("S"), Neigh(p_out), Bound("R", p_in), Bound("S", p_out)} \subseteq VrfFacts
      /\ \A x \in {p_in, p_out} : {Ip(x), Member(Def, x), Looped(x)} \subseteq VrfFacts
  BY DEF VrfFacts, Home, Pair
<1>2. \A f \in VrfFacts : On(f) \in Command /\ Off(f) \in Command
  BY Facts, Commands DEF FactsOf, Rig
<1>3. p_in # p_out
  BY RigAssumption
<1> USE <1>1, <1>2, <1>3 DEF Vrf, Neigh, Bound, Ip, Member, Looped, F, Def, None, Configured, VrfKept
<1>4. OK(Do(On(Vrf("R")), <<Off(Vrf("R"))>>, TRUE, TRUE), 1)
  BY VrfUndoElements DEF Do, On, Off
<1>5. OK(Do(On(Vrf("S")), <<Off(Vrf("S"))>>, TRUE, TRUE), 2)
  BY VrfUndoElements DEF Do, On, Off
<1>6. OK(Just(Off(Member(Def, p_in))), 3)
  <2>1. <<>> \in Seq(Command) /\ Len(<<>>) = 0
    OBVIOUS
  <2>2. PICK s : s = Just(Off(Member(Def, p_in)))
    OBVIOUS
  <2>3. /\ s.c = Off(Member(Def, p_in)) /\ s.keep = <<>> /\ ~s.strict
        /\ s.c.to = "off" /\ s.c.f.k = "member"
    BY <2>2, Justs, Commands
  <2>4. s.c # On(Looped(p_in)) /\ s.c # On(Looped(p_out)) /\ s.c \in Command
    BY <2>3, Commands
  <2>5. OK(s, 3)
    BY <2>1, <2>3, <2>4
  <2> QED
    BY <2>2, <2>5
<1>7. OK(Do(On(Bound("R", p_in)), <<>>, TRUE, TRUE), 4)
  BY VrfUndoElements DEF Do, On, Off
<1>8. OK(Do(On(Ip(p_in)), <<>>, TRUE, TRUE), 5)
  BY VrfUndoElements DEF Do, On, Off
<1>9. OK(Do(On(Looped(p_in)), <<On(Member(Def, p_in)), Off(Bound("R", p_in)), Off(Ip(p_in)),
             Off(Looped(p_in))>>, TRUE, FALSE), 6)
  <2>1. PICK K : K = <<On(Member(Def, p_in)), Off(Bound("R", p_in)), Off(Ip(p_in)), Off(Looped(p_in))>>
    OBVIOUS
  <2>2. K \in Seq(Command)
    BY <2>1, VrfLists
  <2>3. Len(K) = 4 /\ \A j \in 1..4 : K[j] = VrfUndo[2 + j]
    <3> HIDE DEF Bound, Ip, Member, Looped, F, Def, None
    <3>1. /\ Len(K) = 4 /\ K[1] = On(Member(Def, p_in)) /\ K[2] = Off(Bound("R", p_in))
          /\ K[3] = Off(Ip(p_in)) /\ K[4] = Off(Looped(p_in))
      BY <2>1
    <3> QED
      BY <3>1, VrfUndoElements
  <2>4. PICK s : s = Do(On(Looped(p_in)), K, TRUE, FALSE)
    OBVIOUS
  <2>5. s.c = On(Looped(p_in)) /\ s.keep = K /\ ~s.strict
    BY <2>4 DEF Do
  <2>6. /\ s.c \in Command /\ s.c.to = "on" /\ s.c.f = Looped(p_in) /\ s.c.f.k = "loop"
        /\ s.c.f.x = p_in
    BY <2>5, Commands
  <2>7. Looped(p_in) # Looped(p_out) /\ Looped(p_in) \in VrfFacts
    OBVIOUS
  <2>8. \A y \in {p_in, p_out} : s.c = On(Looped(y)) => y = p_in
    BY <2>5, <2>7, Commands
  <2>9. OK(s, 6)
    <3>1. VrfKept(6) = 2 /\ VrfKept(5) = 6
      OBVIOUS
    <3> HIDE <1>1, <1>2, <1>3 DEF Looped, Ip, Vrf, Neigh, Bound, Member, F, Def, None, VrfKept
    <3>2. 11 - 6 = 5 /\ 12 - 6 = 6 /\ 6 - 2 = 4
      OBVIOUS
    <3>3. /\ s.keep \in Seq(Command) /\ Len(s.keep) = VrfKept(11 - 6) - VrfKept(12 - 6)
          /\ \A j \in 1..Len(s.keep) : s.keep[j] = VrfUndo[VrfKept(12 - 6) + j]
      BY <2>2, <2>3, <2>5, <3>1, <3>2
    <3>4. /\ s.c = On(Looped(p_in)) => 6 = 6
          /\ s.c = On(Looped(p_out)) => 6 = 10
      BY <1>3, <2>8
    <3> QED
      BY <2>5, <2>6, <2>7, <3>3, <3>4
  <2> QED
    BY <2>1, <2>4, <2>9
<1>10. OK(Just(Off(Member(Def, p_out))), 7)
  <2>1. <<>> \in Seq(Command) /\ Len(<<>>) = 0
    OBVIOUS
  <2>2. PICK s : s = Just(Off(Member(Def, p_out)))
    OBVIOUS
  <2>3. /\ s.c = Off(Member(Def, p_out)) /\ s.keep = <<>> /\ ~s.strict
        /\ s.c.to = "off" /\ s.c.f.k = "member"
    BY <2>2, Justs, Commands
  <2>4. s.c # On(Looped(p_in)) /\ s.c # On(Looped(p_out)) /\ s.c \in Command
    BY <2>3, Commands
  <2>5. OK(s, 7)
    BY <2>1, <2>3, <2>4
  <2> QED
    BY <2>2, <2>5
<1>11. OK(Do(On(Bound("S", p_out)), <<>>, TRUE, TRUE), 8)
  BY VrfUndoElements DEF Do, On, Off
<1>12. OK(Do(On(Ip(p_out)), <<>>, TRUE, TRUE), 9)
  BY VrfUndoElements DEF Do, On, Off
<1>13. OK(Do(On(Looped(p_out)), <<On(Member(Def, p_out)), Off(Bound("S", p_out)), Off(Ip(p_out)),
             Off(Looped(p_out))>>, TRUE, FALSE), 10)
  <2>1. PICK K : K = <<On(Member(Def, p_out)), Off(Bound("S", p_out)), Off(Ip(p_out)), Off(Looped(p_out))>>
    OBVIOUS
  <2>2. K \in Seq(Command)
    BY <2>1, VrfLists
  <2>3. Len(K) = 4 /\ \A j \in 1..4 : K[j] = VrfUndo[6 + j]
    <3> HIDE DEF Bound, Ip, Member, Looped, F, Def, None
    <3>1. /\ Len(K) = 4 /\ K[1] = On(Member(Def, p_out)) /\ K[2] = Off(Bound("S", p_out))
          /\ K[3] = Off(Ip(p_out)) /\ K[4] = Off(Looped(p_out))
      BY <2>1
    <3> QED
      BY <3>1, VrfUndoElements
  <2>4. PICK s : s = Do(On(Looped(p_out)), K, TRUE, FALSE)
    OBVIOUS
  <2>5. s.c = On(Looped(p_out)) /\ s.keep = K /\ ~s.strict
    BY <2>4 DEF Do
  <2>6. /\ s.c \in Command /\ s.c.to = "on" /\ s.c.f = Looped(p_out) /\ s.c.f.k = "loop"
        /\ s.c.f.x = p_out
    BY <2>5, Commands
  <2>7. Looped(p_in) # Looped(p_out) /\ Looped(p_out) \in VrfFacts
    OBVIOUS
  <2>8. \A y \in {p_in, p_out} : s.c = On(Looped(y)) => y = p_out
    BY <2>5, <2>7, Commands
  <2>9. OK(s, 10)
    <3>1. VrfKept(2) = 6 /\ VrfKept(1) = 10
      OBVIOUS
    <3> HIDE <1>1, <1>2, <1>3 DEF Looped, Ip, Vrf, Neigh, Bound, Member, F, Def, None, VrfKept
    <3>2. 11 - 10 = 1 /\ 12 - 10 = 2 /\ 10 - 6 = 4
      OBVIOUS
    <3>3. /\ s.keep \in Seq(Command) /\ Len(s.keep) = VrfKept(11 - 10) - VrfKept(12 - 10)
          /\ \A j \in 1..Len(s.keep) : s.keep[j] = VrfUndo[VrfKept(12 - 10) + j]
      BY <2>2, <2>3, <2>5, <3>1, <3>2
    <3>4. /\ s.c = On(Looped(p_in)) => 10 = 6
          /\ s.c = On(Looped(p_out)) => 10 = 10
      BY <1>3, <2>8
    <3> QED
      BY <2>5, <2>6, <2>7, <3>3, <3>4
  <2> QED
    BY <2>1, <2>4, <2>9
<1>14. OK(Do(On(Neigh(p_out)), <<Off(Neigh(p_out))>>, TRUE, FALSE), 11)
  BY VrfUndoElements DEF Do, On, Off
<1> HIDE <1>1, <1>2, <1>3 DEF OK, Vrf, Neigh, Bound, Ip, Member, Looped, F, Def, None, Configured, VrfKept
<1>15. /\ OK(VrfPlan[1], 1) /\ OK(VrfPlan[2], 2) /\ OK(VrfPlan[3], 3) /\ OK(VrfPlan[4], 4)
       /\ OK(VrfPlan[5], 5) /\ OK(VrfPlan[6], 6) /\ OK(VrfPlan[7], 7) /\ OK(VrfPlan[8], 8)
       /\ OK(VrfPlan[9], 9) /\ OK(VrfPlan[10], 10) /\ OK(VrfPlan[11], 11)
  BY <1>4, <1>5, <1>6, <1>7, <1>8, <1>9, <1>10, <1>11, <1>12, <1>13, <1>14, VrfElements, Zenon
<1>16. \A i \in 1..11 : OK(VrfPlan[i], i)
  BY <1>15
<1> QED
  BY <1>16 DEF OK

\* The plan of the virtual link.
LEMMA VlinkSteps ==
    /\ VlinkPlan \in Seq(Step) /\ Len(VlinkPlan) = 4
    /\ \A i \in 1..4 :
          LET s == VlinkPlan[i]
              c == s.c
          IN /\ c \in Command
             /\ c.to = "on" => c.f \in VlinkFacts
             /\ c.f.k \notin {"pvid", "bound", "vrf"}
             /\ c.f.k = "member" => c = Off(Member(Def, p_in))
             /\ s.keep \in Seq(VlinkUndo)
<1> DEFINE OK(s) ==
          LET c == s.c
          IN /\ s \in Step /\ c \in Command
             /\ c.to = "on" => c.f \in VlinkFacts
             /\ c.f.k \notin {"pvid", "bound", "vrf"}
             /\ c.f.k = "member" => c = Off(Member(Def, p_in))
             /\ s.keep \in Seq(VlinkUndo)
<1>1. /\ VlinkPlan[1] = Do(Off(Member(Def, p_in)), <<On(Member(Def, p_in))>>, TRUE, FALSE)
      /\ VlinkPlan[2] = Do(On(Ip(p_in)), <<Off(Ip(p_in))>>, TRUE, TRUE)
      /\ VlinkPlan[3] = Just(On(Looped(p_in))) /\ VlinkPlan[4] = Just(On(Neigh(p_in)))
      /\ Len(VlinkPlan) = 4 /\ VlinkPlan = [i \in 1..4 |-> VlinkPlan[i]]
  BY DEF VlinkPlan
<1>2. {Ip(p_in), Member(Def, p_in), Looped(p_in), Neigh(p_in)} \subseteq VlinkFacts
  BY DEF VlinkFacts, Home, Pair
<1>3. \A f \in VlinkFacts : On(f) \in Command /\ Off(f) \in Command
  BY Facts, Commands DEF FactsOf, Rig
<1>4. /\ <<>> \in Seq(VlinkUndo) /\ <<On(Member(Def, p_in))>> \in Seq(VlinkUndo)
      /\ <<Off(Ip(p_in))>> \in Seq(VlinkUndo)
  BY DEF VlinkUndo
<1> USE <1>2, <1>3, <1>4 DEF Neigh, Ip, Member, Looped, F, Def, None
<1>5. OK(Do(Off(Member(Def, p_in)), <<On(Member(Def, p_in))>>, TRUE, FALSE))
  BY DEF Do, Step, On, Off
<1>6. OK(Do(On(Ip(p_in)), <<Off(Ip(p_in))>>, TRUE, TRUE))
  BY DEF Do, Step, On, Off
<1>7. ASSUME NEW f \in {Looped(p_in), Neigh(p_in)} PROVE OK(Just(On(f)))
  <2>1. f \in VlinkFacts /\ f.k \notin {"pvid", "bound", "vrf", "member"}
    OBVIOUS
  <2>2. PICK s : s = Just(On(f))
    OBVIOUS
  <2> HIDE DEF Neigh, Ip, Member, Looped, F, Def, None
  <2>3. On(f) \in Command /\ On(f).f = f
    BY <2>1, Commands
  <2>4. s \in Step /\ s.c = On(f) /\ s.keep = <<>>
    BY <2>2, <2>3, Justs
  <2>5. OK(s)
    BY <2>1, <2>3, <2>4
  <2> QED
    BY <2>2, <2>5
<1> HIDE <1>2, <1>3, <1>4 DEF OK, Neigh, Ip, Member, Looped, F, Def, None
<1>8. OK(VlinkPlan[1]) /\ OK(VlinkPlan[2]) /\ OK(VlinkPlan[3]) /\ OK(VlinkPlan[4])
  BY <1>1, <1>5, <1>6, <1>7, Zenon
<1>9. \A i \in 1..4 : OK(VlinkPlan[i])
  BY <1>8
<1>10. \A i \in 1..4 : VlinkPlan[i] \in Step
  BY <1>9 DEF OK
<1>11. VlinkPlan \in Seq(Step)
  BY <1>1, <1>10
<1> QED
  BY <1>1, <1>9, <1>11 DEF OK

-----------------------------------------------------------------------------
(* The list of what is to be undone.                                       *)

LEMMA JoinedCommands ==
    ASSUME NEW a \in Seq(Command), NEW b \in Seq(Command)
    PROVE  \E c \in Seq(Command) :
              /\ c = a \o b /\ Len(c) = Len(a) + Len(b)
              /\ \A i \in 1..(Len(a) + Len(b)) : c[i] = IF i <= Len(a) THEN a[i] ELSE b[i - Len(a)]
<1>1. /\ a \o b \in Seq(Command) /\ Len(a \o b) = Len(a) + Len(b)
      /\ \A i \in 1..(Len(a) + Len(b)) : (a \o b)[i] = IF i <= Len(a) THEN a[i] ELSE b[i - Len(a)]
  BY ConcatProperties
<1> QED
  BY <1>1, Zenon

LEMMA KeptGrows ==
    ASSUME undo \in Seq(Command), NEW CONSTANT U, NEW CONSTANT n \in Nat, Kept(U, n),
           NEW CONSTANT k \in Seq(Command), undo' = undo \o k,
           \A j \in 1..Len(k) : k[j] = U[n + j]
    PROVE  undo' \in Seq(Command) /\ Len(undo') = n + Len(k)
           /\ \A i \in 1..(n + Len(k)) : undo'[i] = U[i]
<1>1. PICK c \in Seq(Command) :
          /\ c = undo \o k /\ Len(c) = Len(undo) + Len(k)
          /\ \A i \in 1..(Len(undo) + Len(k)) :
                c[i] = IF i <= Len(undo) THEN undo[i] ELSE k[i - Len(undo)]
  BY JoinedCommands
<1>2. undo' = c /\ Len(undo) = n /\ Len(k) \in Nat /\ Len(c) = n + Len(k)
  BY <1>1 DEF Kept
<1>3. \A i \in 1..(n + Len(k)) : c[i] = U[i]
  <2>1. TAKE i \in 1..(n + Len(k))
  <2>2. i \in Int /\ 1 <= i /\ i <= n + Len(k) /\ c[i] = IF i <= n THEN undo[i] ELSE k[i - n]
    BY <1>1, <1>2
  <2>3. CASE i <= n
    BY <2>2, <2>3 DEF Kept
  <2>4. CASE i > n
    <3>1. i - n \in 1..Len(k) /\ n + (i - n) = i
      BY <1>2, <2>2, <2>4
    <3>2. k[i - n] = U[n + (i - n)]
      BY <3>1
    <3> QED
      BY <2>2, <2>4, <3>1, <3>2
  <2> QED
    BY <2>2, <2>3, <2>4
<1> QED
  BY <1>2, <1>3

LEMMA HairKeeps ==
    ASSUME NEW i \in 1..13
    PROVE  LET k == HairpinPlan[i].keep
           IN /\ k \in Seq(Command) /\ HairKept(14 - i) + Len(k) = HairKept(13 - i)
              /\ \A j \in 1..Len(k) : k[j] = HairUndo[HairKept(14 - i) + j]
<1> DEFINE s == HairpinPlan[i]
<1>1. s \in Step
  <2>1. HairpinPlan \in Seq(Step) /\ i \in 1..Len(HairpinPlan)
    BY HairSteps
  <2> QED
    BY <2>1
<1>2. s.keep \in Seq(Command)
  BY <1>1 DEF Step
<1>3. CASE i \in {1, 2, 10, 11, 12, 13}
  <2>1. s.keep = <<>> /\ Len(<<>>) = 0
    BY <1>3, HairSteps
  <2>2. HairKept(14 - i) = HairKept(13 - i) /\ HairKept(14 - i) \in Nat
    BY <1>3 DEF HairKept
  <2> QED
    BY <1>2, <2>1, <2>2
<1>4. CASE i \in 3..9
  <2>1. s.keep = <<HairUndo[i - 2]>>
    BY <1>4, HairSteps
  <2>2. Len(s.keep) = 1 /\ s.keep[1] = HairUndo[i - 2]
    BY <2>1
  <2>3. HairKept(14 - i) = i - 3 /\ HairKept(13 - i) = i - 2
    BY <1>4 DEF HairKept
  <2>4. HairKept(14 - i) + 1 = i - 2
    BY <1>4, <2>3
  <2> QED
    BY <1>2, <1>4, <2>2, <2>3, <2>4
<1> QED
  BY <1>3, <1>4

\* The teardown as a plan: one step for each command.
LEMMA Reversed ==
    ASSUME undo \in Seq(Command)
    PROVE  /\ Reverse(undo) \in Seq(Command) /\ Len(Reverse(undo)) = Len(undo)
           /\ \A i \in 1..Len(undo) : Reverse(undo)[i] = undo[(Len(undo) - i) + 1]
<1>1. Len(undo) \in Nat /\ \A i \in 1..Len(undo) : undo[(Len(undo) - i) + 1] \in Command
  OBVIOUS
<1> QED
  BY <1>1 DEF Reverse

LEMMA Planned ==
    ASSUME NEW cs \in Seq(Command)
    PROVE  LET p == [i \in DOMAIN cs |-> Just(cs[i])]
           IN /\ p \in Seq(Step) /\ Len(p) = Len(cs)
              /\ \A i \in 1..Len(cs) : p[i] = Just(cs[i])
<1>1. DOMAIN cs = 1..Len(cs) /\ Len(cs) \in Nat /\ \A i \in 1..Len(cs) : cs[i] \in Command
  OBVIOUS
<1>2. \A i \in 1..Len(cs) : Just(cs[i]) \in Step
  BY <1>1, Justs
<1> QED
  BY <1>1, <1>2

LEMMA HairDownPlan ==
    ASSUME rig = "hairpin", undo \in Seq(Command), Kept(HairUndo, 7)
    PROVE  /\ DownPlan \in Seq(Step) /\ Len(DownPlan) = 13
           /\ \A i \in 1..13 : DownPlan[i] = Just(HairDown[i])
<1>1. PICK a : a = <<Off(Punt), Off(Fdb), On(Pvid(Def, p_in)), On(Pvid(Def, p_out)),
                     Off(Looped(p_in)), Off(Looped(p_out))>>
  OBVIOUS
<1>2. Len(a) = 6 /\ \A i \in 1..6 : a[i] = HairDown[i]
  BY <1>1, HairDownElements
<1>3. a \in Seq(Command)
  <2>1. a = [i \in 1..6 |-> a[i]]
    BY <1>1
  <2>2. \A i \in 1..6 : a[i] \in Command
    BY <1>2, HairDownSteps
  <2> QED
    BY <2>1, <2>2
<1>4. PICK r \in Seq(Command) : r = Reverse(undo)
  BY Reversed
<1>5. Len(r) = 7 /\ \A i \in 1..7 : r[i] = HairDown[6 + i]
  <2>1. Len(r) = Len(undo) /\ \A i \in 1..Len(undo) : r[i] = undo[(Len(undo) - i) + 1]
    BY <1>4, Reversed
  <2>2. Len(undo) = 7 /\ \A i \in 1..7 : undo[i] = HairUndo[i]
    BY DEF Kept
  <2>3. \A i \in 1..7 : r[i] = HairUndo[8 - i]
    BY <2>1, <2>2
  <2> QED
    BY <2>1, <2>2, <2>3, HairElements, HairDownElements
<1>6. PICK c \in Seq(Command) :
          /\ c = a \o r /\ Len(c) = Len(a) + Len(r)
          /\ \A i \in 1..(Len(a) + Len(r)) : c[i] = IF i <= Len(a) THEN a[i] ELSE r[i - Len(a)]
  BY <1>3, JoinedCommands
<1>7. Len(c) = 13 /\ \A i \in 1..13 : c[i] = HairDown[i]
  <2>1. Len(a) = 6 /\ Len(a) + Len(r) = 13
    BY <1>2, <1>5
  <2>2. Len(c) = 13 /\ \A i \in 1..13 : c[i] = IF i <= 6 THEN a[i] ELSE r[i - 6]
    BY <1>6, <2>1
  <2>3. \A i \in 7..13 : i - 6 \in 1..7 /\ 6 + (i - 6) = i
    OBVIOUS
  <2>4. \A i \in 7..13 : c[i] = HairDown[i]
    BY <1>5, <2>2, <2>3
  <2>5. \A i \in 1..6 : c[i] = HairDown[i]
    BY <1>2, <2>2
  <2> QED
    BY <2>2, <2>4, <2>5
<1>8. DownPlan = [i \in DOMAIN c |-> Just(c[i])]
  BY <1>1, <1>4, <1>6 DEF DownPlan, HairpinDown
<1>9. PICK p : p = DownPlan
  OBVIOUS
<1>10. p \in Seq(Step) /\ Len(p) = Len(c) /\ \A i \in 1..Len(c) : p[i] = Just(c[i])
  BY <1>8, <1>9, Planned
<1> QED
  BY <1>7, <1>9, <1>10

LEMMA VrfDownPlan ==
    ASSUME rig = "vrf", undo \in Seq(Command), Kept(VrfUndo, Len(undo)), Len(undo) <= 11
    PROVE  /\ DownPlan \in Seq(Step) /\ Len(DownPlan) = Len(undo)
           /\ \A i \in 1..Len(undo) : DownPlan[i] = Just(VrfDownAll[11 - Len(undo) + i])
<1>1. PICK r \in Seq(Command) : r = Reverse(undo)
  BY Reversed
<1>2. PICK m \in 0..11 : m = Len(undo)
  <2>1. PICK n \in Nat : n = Len(undo)
    OBVIOUS
  <2>2. n <= 11
    BY <2>1, Zenon
  <2>3. n \in 0..11
    BY <2>2
  <2> QED
    BY <2>1, <2>3
<1>3. Len(r) = m /\ \A i \in 1..m : r[i] = undo[(m - i) + 1]
  BY <1>1, <1>2, Reversed
<1>4. \A i \in 1..m : r[i] = VrfUndo[(m - i) + 1]
  <2>1. \A i \in 1..m : undo[i] = VrfUndo[i]
    BY <1>2 DEF Kept
  <2>2. \A i \in 1..m : (m - i) + 1 \in 1..m
    BY <1>2
  <2> QED
    BY <1>3, <2>1, <2>2
<1>5. \A j \in 1..11 : VrfUndo[j] = VrfDownAll[12 - j]
  BY VrfUndoElements, VrfDownElements
<1>6. \A i \in 1..m : r[i] = VrfDownAll[11 - m + i]
  <2>1. TAKE i \in 1..m
  <2>2. (m - i) + 1 \in 1..11 /\ 12 - ((m - i) + 1) = 11 - m + i
    BY <1>2
  <2> QED
    BY <1>4, <1>5, <2>2
<1>7. DownPlan = [i \in DOMAIN r |-> Just(r[i])]
  BY <1>1 DEF DownPlan, VrfDown
<1>8. PICK p : p = DownPlan
  OBVIOUS
<1>9. p \in Seq(Step) /\ Len(p) = Len(r) /\ \A i \in 1..Len(r) : p[i] = Just(r[i])
  BY <1>7, <1>8, Planned
<1> QED
  BY <1>2, <1>3, <1>6, <1>8, <1>9

LEMMA VlinkDownPlan ==
    ASSUME rig = "vlink", undo \in Seq(VlinkUndo)
    PROVE  /\ DownPlan \in Seq(Step) /\ Len(DownPlan) >= 2 /\ DownPlan[1] = Just(Off(Neigh(p_in)))
           /\ \A i \in 1..Len(DownPlan) :
                 \E c \in {Off(Neigh(p_in)), Off(Looped(p_in))} \cup VlinkUndo : DownPlan[i] = Just(c)
<1> DEFINE All == {Off(Neigh(p_in)), Off(Looped(p_in))} \cup VlinkUndo
<1>1. All \subseteq Command
  <2>1. {Ip(p_in), Member(Def, p_in), Looped(p_in), Neigh(p_in)} \subseteq Fact
    BY DEF Ip, Member, Looped, Neigh, F, Fact, Pair, Def, None
  <2> QED
    BY <2>1, Commands DEF VlinkUndo
<1>2. undo \in Seq(Command)
  BY <1>1
<1>3. PICK a : a = <<Off(Neigh(p_in)), Off(Looped(p_in))>>
  OBVIOUS
<1>4. Len(a) = 2 /\ a[1] = Off(Neigh(p_in)) /\ a[2] = Off(Looped(p_in))
  BY <1>3
<1>5. a \in Seq(Command)
  <2>1. Off(Neigh(p_in)) \in Command /\ Off(Looped(p_in)) \in Command
    BY <1>1
  <2> QED
    BY <1>3, <2>1
<1>6. PICK r \in Seq(Command) : r = Reverse(undo)
  BY <1>2, Reversed
<1>7. Len(r) \in Nat /\ \A i \in 1..Len(r) : r[i] \in VlinkUndo
  <2>1. Len(r) = Len(undo) /\ \A i \in 1..Len(undo) : r[i] = undo[(Len(undo) - i) + 1]
    BY <1>2, <1>6, Reversed
  <2>2. Len(undo) \in Nat /\ \A i \in 1..Len(undo) : undo[i] \in VlinkUndo
    OBVIOUS
  <2>3. \A i \in 1..Len(undo) : (Len(undo) - i) + 1 \in 1..Len(undo)
    BY <2>2
  <2> QED
    BY <2>1, <2>2, <2>3
<1>8. PICK c \in Seq(Command) :
          /\ c = a \o r /\ Len(c) = Len(a) + Len(r)
          /\ \A i \in 1..(Len(a) + Len(r)) : c[i] = IF i <= Len(a) THEN a[i] ELSE r[i - Len(a)]
  BY <1>5, JoinedCommands
<1>9. /\ Len(c) = 2 + Len(r)
      /\ \A i \in 1..(2 + Len(r)) : c[i] = IF i <= 2 THEN a[i] ELSE r[i - 2]
  BY <1>4, <1>7, <1>8
<1>10. \A i \in 1..Len(c) : c[i] \in All
  <2>1. TAKE i \in 1..Len(c)
  <2>2. CASE i <= 2
    BY <1>4, <1>7, <1>9, <2>2
  <2>3. CASE i > 2
    <3>1. i - 2 \in 1..Len(r)
      BY <1>7, <1>9, <2>3
    <3> QED
      BY <1>7, <1>9, <2>3, <3>1
  <2> QED
    BY <1>7, <1>9, <2>2, <2>3
<1>11. c[1] = Off(Neigh(p_in)) /\ Len(c) >= 2
  BY <1>4, <1>7, <1>9
<1>12. DownPlan = [i \in DOMAIN c |-> Just(c[i])]
  BY <1>3, <1>6, <1>8 DEF DownPlan, VlinkDown
<1>13. PICK p : p = DownPlan
  OBVIOUS
<1>14. p \in Seq(Step) /\ Len(p) = Len(c) /\ \A i \in 1..Len(c) : p[i] = Just(c[i])
  BY <1>12, <1>13, Planned
<1> QED
  BY <1>10, <1>11, <1>13, <1>14

-----------------------------------------------------------------------------
(* What a command does.                                                    *)

\* What may go with a command on another fact.
Goes(c, g) ==
    \/ c.f.k = "pvid" /\ g.k = "pvid" /\ g.x = c.f.x
    \/ c.f.k = "bound" /\ g.k = "ip"
    \/ c.f.k = "vrf" /\ g.k \in {"ip", "bound"}

LEMMA AfterFacts ==
    ASSUME NEW s, NEW c \in Command
    PROVE  /\ \A g \in After(s, c) : g \in s \/ (g = c.f /\ c.to = "on")
           /\ \A g \in s : g \in After(s, c) \/ (g = c.f /\ c.to = "off") \/ Goes(c, g)
           /\ Post(After(s, c), c)
<1>1. c.to \in {"on", "off"}
  BY DEF Command
<1>2. \A g \in Dropped(s, c) : Goes(c, g)
  <2>1. \A x, r : Ip(x).k = "ip" /\ Bound(r, x).k = "bound"
    BY DEF Ip, Bound, F
  <2>2. CASE c.f.k = "pvid"
    BY <2>2 DEF Dropped, Goes
  <2>3. CASE c.f.k = "bound"
    BY <2>1, <2>3 DEF Dropped, Goes
  <2>4. CASE c.f.k = "vrf"
    BY <2>1, <2>4 DEF Dropped, Goes
  <2>5. CASE c.f.k \notin {"pvid", "bound", "vrf"}
    BY <2>5 DEF Dropped
  <2> QED
    BY <2>2, <2>3, <2>4, <2>5
<1>3. After(s, c) = (s \ (Dropped(s, c) \cup {c.f})) \cup (IF c.to = "on" THEN {c.f} ELSE {})
  BY DEF After
<1> QED
  BY <1>1, <1>2, <1>3 DEF Post

LEMMA AfterPvids ==
    ASSUME NEW s, NEW c \in Command, NEW x
    PROVE  /\ c.f.k # "pvid" => Pvids(After(s, c), x) = Pvids(s, x)
           /\ c.f.k = "pvid" /\ c.f.x # x => Pvids(After(s, c), x) = Pvids(s, x)
           /\ c.f.k = "pvid" /\ c.f.x = x /\ c.to = "on" => Pvids(After(s, c), x) = {c.f}
<1>1. \A g \in After(s, c) : g \in s \/ (g = c.f /\ c.to = "on")
  BY AfterFacts
<1>2. \A g \in s : g \in After(s, c) \/ (g = c.f /\ c.to = "off") \/ Goes(c, g)
  BY AfterFacts
<1>3. ASSUME c.f.k # "pvid" PROVE Pvids(After(s, c), x) = Pvids(s, x)
  BY <1>1, <1>2, <1>3 DEF Pvids, Goes
<1>4. ASSUME c.f.k = "pvid", c.f.x # x PROVE Pvids(After(s, c), x) = Pvids(s, x)
  BY <1>1, <1>2, <1>4 DEF Pvids, Goes
<1>5. ASSUME c.f.k = "pvid", c.f.x = x, c.to = "on" PROVE Pvids(After(s, c), x) = {c.f}
  BY <1>5 DEF Pvids, After, Dropped
<1> QED
  BY <1>3, <1>4, <1>5

\* A refusal without a reason is on record.
LEMMA HitGrows ==
    ASSUME hit \in Seq({"build", "down", "close"}), Len(hit) < MaxFaults,
           NEW CONSTANT w \in {"build", "down", "close"}, hit' = Append(hit, w)
    PROVE  /\ hit' \in Seq({"build", "down", "close"}) /\ Len(hit') <= MaxFaults
           /\ Len(hit') = Len(hit) + 1 /\ hit' # hit
           /\ (\E i \in DOMAIN hit' : hit'[i] = w) /\ \A P : Hit(P) => (\E i \in DOMAIN hit' : hit'[i] \in P)
<1>1. PICK n \in Nat : n = Len(hit)
  OBVIOUS
<1>2. MaxFaults \in Nat
  BY RigAssumption
<1>3. /\ hit' \in Seq({"build", "down", "close"}) /\ Len(hit') = n + 1 /\ hit'[n + 1] = w
      /\ \A i \in 1..n : hit'[i] = hit[i]
  BY <1>1
<1>4. DOMAIN hit = 1..n /\ DOMAIN hit' = 1..(n + 1)
  BY <1>1, <1>3
<1>5. n < MaxFaults
  BY <1>1, Zenon
<1>6. n + 1 <= MaxFaults /\ n + 1 # n
  BY <1>2, <1>5
<1>7. n + 1 \in DOMAIN hit'
  BY <1>3, <1>4
<1>8. \E i \in DOMAIN hit' : hit'[i] = w
  BY <1>3, <1>7
<1>9. \A P : Hit(P) => (\E i \in DOMAIN hit' : hit'[i] \in P)
  BY <1>3, <1>4 DEF Hit
<1> QED
  BY <1>1, <1>3, <1>6, <1>8, <1>9

\* A command of a plan.
LEMMA Effect ==
    ASSUME NEW CONSTANT c \in Command, NEW CONSTANT ok \in BOOLEAN, Outcome(c, ok),
           hit \in Seq({"build", "down", "close"}), Len(hit) <= MaxFaults,
           stage \in {"build", "down"}
    PROVE  /\ \A g \in sw' : g \in sw \/ (g = c.f /\ c.to = "on")
           /\ \A g \in sw : g \in sw' \/ (g = c.f /\ c.to = "off") \/ Goes(c, g)
           /\ \A x : c.f.k # "pvid" => Pvids(sw', x) = Pvids(sw, x)
           /\ c.f.k \notin Configured => ok /\ hit' = hit
           /\ ok => Post(sw', c) /\ (c.f.k \in Configured => Accepts(sw, c))
           /\ ~ok => sw' = sw /\ (hit' = hit => ~Accepts(sw, c))
           /\ hit' \in Seq({"build", "down", "close"}) /\ Len(hit') <= MaxFaults
           /\ Len(hit') \in {Len(hit), Len(hit) + 1}
           /\ hit' # hit => ~ok /\ Len(hit') = Len(hit) + 1 /\ \E i \in DOMAIN hit' : hit'[i] = stage
           /\ \A P : Hit(P) => (\E i \in DOMAIN hit' : hit'[i] \in P)
           /\ busy \in [Pair -> Nat] => busy' \in [Pair -> Nat]
<1>1. CASE /\ c.f.k \notin Configured \/ Accepts(sw, c)
           /\ ok /\ sw' = After(sw, c) /\ busy' = Programs(c) /\ UNCHANGED hit
  <2>1. busy \in [Pair -> Nat] => busy' \in [Pair -> Nat]
    BY <1>1 DEF Programs
  <2> QED
    BY <1>1, <2>1, AfterFacts, AfterPvids DEF Hit
<1>2. CASE /\ c.f.k \in Configured /\ ~Accepts(sw, c)
           /\ ~ok /\ UNCHANGED <<sw, busy, hit>>
  BY <1>2 DEF Hit
<1>3. CASE /\ c.f.k \in Configured /\ Len(hit) < MaxFaults
           /\ ~ok /\ hit' = Append(hit, stage) /\ UNCHANGED <<sw, busy>>
  <2>1. PICK w \in {"build", "down", "close"} : w = stage
    OBVIOUS
  <2>2. /\ hit' \in Seq({"build", "down", "close"}) /\ Len(hit') <= MaxFaults
        /\ Len(hit') = Len(hit) + 1 /\ hit' # hit
        /\ (\E i \in DOMAIN hit' : hit'[i] = w) /\ \A P : Hit(P) => (\E i \in DOMAIN hit' : hit'[i] \in P)
    BY <1>3, <2>1, HitGrows
  <2> QED
    BY <1>3, <2>1, <2>2
<1> QED
  BY <1>1, <1>2, <1>3 DEF Outcome

-----------------------------------------------------------------------------
(* The start, and what the invariant says.                                 *)

LEMMA HomeFacts ==
    /\ \A x \in Pair : Pvids(Home, x) = {Pvid(Def, x)}
    /\ \A f \in Home : f.k \in {"member", "pvid"} /\ f.v = Def /\ f.x \in Pair
    /\ \A x \in Pair : Member(Def, x) \in Home /\ Pvid(Def, x) \in Home
    /\ \A x : Looped(x) \notin Home
<1>1. \A f \in Home : f.k \in {"member", "pvid"} /\ f.v = Def /\ f.x \in Pair
  BY DEF Home, Member, Pvid, F
<1>2. \A x \in Pair : Pvid(Def, x) \in Home /\ Member(Def, x) \in Home
  BY DEF Home
<1>3. ASSUME NEW x \in Pair PROVE Pvids(Home, x) = {Pvid(Def, x)}
  BY <1>2 DEF Home, Pvids, Member, Pvid, F
<1>4. \A x : Looped(x) \notin Home
  BY <1>1 DEF Looped, F
<1> QED
  BY <1>1, <1>2, <1>3, <1>4

LEMMA RigStart == RigInit => RigInv
<1> SUFFICES ASSUME RigInit PROVE RigInv
  OBVIOUS
<1>1. PICK r \in Rig : /\ rig = r
                       /\ plan = CASE r = "hairpin" -> HairpinPlan
                                   [] r = "vlink" -> VlinkPlan
                                   [] r = "vrf" -> VrfPlan
                       /\ covered \in IF r = "vlink" THEN BOOLEAN ELSE {r = "vrf"}
  BY DEF RigInit
<1>2. /\ sw = Home /\ busy = [x \in Pair |-> 0] /\ stage = "build" /\ undo = <<>> /\ torn = FALSE
      /\ failed = FALSE /\ hit = <<>> /\ tries = 0 /\ hasty = {}
  BY DEF RigInit
<1>3. /\ rig = "hairpin" => plan = HairpinPlan /\ ~covered
      /\ rig = "vlink" => plan = VlinkPlan
      /\ rig = "vrf" => plan = VrfPlan /\ covered
      /\ covered \in BOOLEAN
  BY <1>1 DEF Rig
<1>4. plan \in Seq(Step) /\ undo \in Seq(Command) /\ undo \in Seq(VlinkUndo)
  BY <1>1, <1>2, <1>3, HairSteps, VrfElements, VlinkSteps DEF Rig
<1>5. /\ rig = "hairpin" => Len(plan) = 13
      /\ rig = "vrf" => Len(plan) = 11
  BY <1>3, HairSteps, VrfElements
<1>6. Len(undo) = 0 /\ Len(hit) = 0 /\ hit \in Seq({"build", "down", "close"})
  BY <1>2
<1>7. BaseInv
  <2>1. 0 \in 0..MaxTries /\ 0 <= MaxFaults
    BY RigAssumption
  <2> QED
    BY <1>1, <1>2, <1>3, <1>4, <1>6, <2>1 DEF BaseInv, Stage
<1>8. OrderInv
  BY <1>2, <1>3 DEF OrderInv, Early, Taking, Arming
<1>9. PvidInv
  BY <1>2, HomeFacts DEF PvidInv
<1>10. FactsInv
  BY <1>1, <1>2, Facts, HomeFacts DEF FactsInv, FactsOf, Pair
<1>11. PlanInv
  <2>1. HairKept(13) = 0 /\ VrfKept(11) = 0
    BY DEF HairKept, VrfKept
  <2>2. \A U : Kept(U, 0)
    BY <1>6 DEF Kept
  <2>3. \A P \in Seq(Step) : plan = P => Begun(P)
    BY DEF Begun
  <2>4. /\ rig = "hairpin" => Begun(HairpinPlan)
        /\ rig = "vrf" => Begun(VrfPlan)
        /\ rig = "vlink" => Begun(VlinkPlan)
    BY <1>3, <2>3, HairSteps, VrfElements, VlinkSteps
  <2>5. ~Taking /\ Len(undo) = 0 /\ 0 <= 11
    BY <1>2, <1>6 DEF Taking
  <2>6. CASE rig = "hairpin"
    <3>1. Kept(HairUndo, HairKept(Len(plan)))
      BY <1>5, <2>1, <2>2, <2>6, Zenon
    <3> QED
      BY <2>4, <2>5, <2>6, <3>1, Zenon DEF PlanInv
  <2>7. CASE rig = "vrf"
    <3>1. Len(undo) = VrfKept(Len(plan)) /\ Kept(VrfUndo, Len(undo))
      BY <1>5, <2>1, <2>2, <2>5, <2>7, Zenon
    <3>2. Len(undo) <= 11
      BY <2>5
    <3> QED
      BY <2>4, <2>5, <2>7, <3>1, <3>2, Zenon DEF PlanInv
  <2>8. CASE rig = "vlink"
    BY <1>4, <2>4, <2>5, <2>8, Zenon DEF PlanInv
  <2> QED
    BY <1>1, <2>6, <2>7, <2>8 DEF Rig
<1>12. StormInv
  <2>1. ~Taking /\ \A x : Looped(x) \notin sw
    BY <1>2, HomeFacts DEF Taking
  <2>2. ASSUME rig = "hairpin" PROVE HairStorm
    <3>1. ~(Len(plan) <= 9) /\ ~(Len(plan) <= 7)
      <4>1. Len(plan) = 13
        BY <1>5, <2>2
      <4>2. ~(13 <= 9) /\ ~(13 <= 7)
        OBVIOUS
      <4> QED
        BY <4>1, <4>2, Zenon
    <3> QED
      BY <2>1, <3>1, Zenon DEF HairStorm
  <2>3. ASSUME rig = "vrf" PROVE VrfStorm
    <3>1. ~(Len(plan) <= 6) /\ ~(Len(plan) <= 2)
      <4>1. Len(plan) = 11
        BY <1>5, <2>3
      <4>2. ~(11 <= 6) /\ ~(11 <= 2)
        OBVIOUS
      <4> QED
        BY <4>1, <4>2, Zenon
    <3> QED
      BY <2>1, <3>1, Zenon DEF VrfStorm
  <2> QED
    BY <2>2, <2>3 DEF StormInv
<1>13. ArmInv /\ HomeInv
  BY <1>2 DEF ArmInv, HomeInv, Taking
<1> QED
  BY <1>7, <1>8, <1>9, <1>10, <1>11, <1>12, <1>13 DEF RigInv

LEMMA RigTypes == RigInv => RigTypeOK
<1> SUFFICES ASSUME RigInv PROVE RigTypeOK
  OBVIOUS
<1>1. sw \subseteq Fact
  BY Facts DEF RigInv, BaseInv, FactsInv
<1>2. ASSUME NEW x \in Pair PROVE Cardinality({f \in sw : f.k = "pvid" /\ f.x = x}) = 1
  <2>1. PICK v : Pvids(sw, x) = {Pvid(v, x)}
    BY DEF RigInv, PvidInv
  <2>2. Cardinality({Pvid(v, x)}) = 1
    BY FS_Singleton
  <2> QED
    BY <2>1, <2>2 DEF Pvids
<1> QED
  BY <1>1, <1>2 DEF RigInv, BaseInv, RigTypeOK, Stage

LEMMA RigConcludes ==
    RigInv => SplitWhenSending /\ PassLeavesHome /\ SessionHome /\ (Len(hit) <= 1 => NoStorm)
<1> SUFFICES ASSUME RigInv PROVE SplitWhenSending /\ PassLeavesHome /\ SessionHome
                                  /\ (Len(hit) <= 1 => NoStorm)
  OBVIOUS
<1>1. SplitWhenSending
  <2>1. Pvid("A", p_in).x = p_in /\ Pvid("B", p_out).x = p_out
    BY DEF Pvid, F
  <2> QED
    BY <2>1 DEF RigInv, ArmInv, Confirmed, SplitWhenSending
<1>2. PassLeavesHome
  <2> SUFFICES ASSUME stage = "close", ~failed,
                      ~Hit(IF rig = "vlink" THEN {"close"} ELSE {"down", "close"})
               PROVE  sw = Home
    BY DEF PassLeavesHome
  <2>1. torn
    BY DEF RigInv, OrderInv
  <2>2. Regular
    <3>1. rig \in Rig
      BY DEF RigInv, BaseInv
    <3>2. rig # "vlink" => ~Hit({"down"})
      BY DEF Hit
    <3> QED
      BY <3>1, <3>2 DEF Regular, Rig
  <2> QED
    BY <2>1, <2>2 DEF RigInv, HomeInv
<1>3. SessionHome
  BY DEF RigInv, HomeInv, SessionHome
<1>4. ASSUME Len(hit) <= 1 PROVE NoStorm
  <2> SUFFICES ASSUME NEW v \in {Def, "A", "B"},
                      \A x \in Pair : {Looped(x), Pvid(v, x), Member(v, x)} \subseteq sw
               PROVE  FALSE
    BY DEF NoStorm
  <2>1. /\ Looped(p_in) \in sw /\ Looped(p_out) \in sw /\ Member(v, p_in) \in sw
        /\ Member(v, p_out) \in sw /\ Pvid(v, p_in) \in sw /\ Pvid(v, p_out) \in sw
    BY DEF Pair
  <2>2. p_in # p_out /\ sw \subseteq FactsOf(rig) /\ rig \in Rig /\ hit \in Seq({"build", "down", "close"})
    BY RigAssumption DEF RigInv, FactsInv, BaseInv
  <2>3. CASE rig = "vlink"
    <3>1. Looped(p_out) \notin VlinkFacts
      BY <2>2 DEF VlinkFacts, Home, Looped, Member, Pvid, Ip, Neigh, F
    <3> QED
      BY <2>1, <2>2, <2>3, <3>1 DEF FactsOf
  <2>4. CASE rig = "vrf"
    <3>1. v = Def
      <4>1. Member("A", p_in) \notin VrfFacts /\ Member("B", p_in) \notin VrfFacts
        BY DEF VrfFacts, Home, Looped, Member, Pvid, Ip, Neigh, Vrf, Bound, F, Def
      <4> QED
        BY <2>1, <2>2, <2>4, <4>1 DEF FactsOf
    <3> QED
      BY <2>1, <2>4, <3>1 DEF RigInv, StormInv, VrfStorm, Pair
  <2>5. CASE rig = "hairpin"
    <3>1. v = Def
      <4>1. Pvid("A", p_out) \notin HairFacts /\ Pvid("B", p_in) \notin HairFacts
        BY <2>2 DEF HairFacts, Home, Looped, Member, Pvid, Vlan, Svi, Fdb, Punt, F, Def
      <4> QED
        BY <2>1, <2>2, <2>5, <4>1 DEF FactsOf
    <3>2. Len(hit) >= 2
      BY <2>1, <2>5, <3>1 DEF RigInv, StormInv, HairStorm, Pair
    <3> QED
      BY <1>4, <2>2, <3>2
  <2> QED
    BY <2>2, <2>3, <2>4, <2>5 DEF Rig
<1> QED
  BY <1>1, <1>2, <1>3, <1>4

-----------------------------------------------------------------------------
(* Steps that leave the plan alone.                                        *)

\* The parts about the plan and the storm only forbid facts.
LEMMA Steady ==
    ASSUME PlanInv, StormInv, UNCHANGED <<rig, plan, undo, hit>>, failed => failed',
           Early' => Early, Taking' => Taking, stage' = "build" => stage = "build",
           \A g \in sw' : g \in sw \/ g.k = "pvid"
    PROVE  PlanInv' /\ StormInv'
<1>1. \A v, x : /\ (Member(v, x) \in sw' => Member(v, x) \in sw) /\ (Looped(x) \in sw' => Looped(x) \in sw)
                /\ (Neigh(x) \in sw' => Neigh(x) \in sw)
  BY DEF Member, Looped, Neigh, F
<1>2. \A U, n : Kept(U, n)' <=> Kept(U, n)
  BY DEF Kept
<1>3. \A L : (Left(L)' <=> Left(L)) /\ (Begun(L)' <=> Begun(L))
  BY DEF Left, Begun
<1>4. PlanInv'
  <2>1. CASE rig = "hairpin"
    BY <1>2, <1>3, <2>1 DEF PlanInv
  <2>2. CASE rig = "vrf"
    BY <1>2, <1>3, <2>2 DEF PlanInv
  <2>3. CASE rig = "vlink"
    BY <1>1, <1>3, <2>3 DEF PlanInv
  <2> QED
    BY <2>1, <2>2, <2>3 DEF PlanInv
<1>5. StormInv'
  <2>1. CASE rig = "hairpin"
    <3>1. HairStorm
      BY <2>1 DEF StormInv
    <3>2. HairStorm'
      BY <1>1, <3>1 DEF HairStorm
    <3> QED
      BY <2>1, <3>2 DEF StormInv
  <2>2. CASE rig = "vrf"
    <3>1. VrfStorm
      BY <2>2 DEF StormInv
    <3>2. VrfStorm'
      BY <1>1, <3>1 DEF VrfStorm
    <3> QED
      BY <2>2, <3>2 DEF StormInv
  <2> QED
    BY <2>1, <2>2 DEF StormInv
<1> QED
  BY <1>4, <1>5

\* A PVID is set.
LEMMA PvidSet ==
    ASSUME NEW CONSTANT v \in {Def, "A", "B"}, NEW CONSTANT x \in Pair,
           sw' = After(sw, On(Pvid(v, x)))
    PROVE  /\ PvidInv => PvidInv'
           /\ \A g : g.k # "pvid" \/ g.x # x => (g \in sw' <=> g \in sw)
           /\ Pvid(v, x) \in sw' /\ \A g \in sw' : g \in sw \/ g = Pvid(v, x)
           /\ v = Def /\ sw = Home => sw' = Home
<1>1. PICK c : c = On(Pvid(v, x))
  OBVIOUS
<1>2. c \in Command /\ c.f = Pvid(v, x) /\ c.to = "on" /\ c.f.k = "pvid" /\ c.f.x = x /\ c.f.v = v
  <2>1. Pvid(v, x) \in Fact /\ Pvid(v, x).k = "pvid" /\ Pvid(v, x).x = x /\ Pvid(v, x).v = v
    BY DEF Pvid, F, Fact
  <2> QED
    BY <1>1, <2>1, Commands
<1>3. /\ \A g \in sw' : g \in sw \/ g = c.f
      /\ \A g \in sw : g \in sw' \/ Goes(c, g)
      /\ c.f \in sw'
  BY <1>1, <1>2, AfterFacts DEF Post
<1>4. \A y \in Pair : y # x => Pvids(sw', y) = Pvids(sw, y)
  BY <1>1, <1>2, AfterPvids
<1>5. Pvids(sw', x) = {Pvid(v, x)}
  BY <1>1, <1>2, AfterPvids
<1>6. PvidInv => PvidInv'
  BY <1>4, <1>5 DEF PvidInv
<1>7. \A g : g.k # "pvid" \/ g.x # x => (g \in sw' <=> g \in sw)
  BY <1>2, <1>3 DEF Goes
<1>8. v = Def /\ sw = Home => sw' = Home
  <2> SUFFICES ASSUME v = Def, sw = Home PROVE sw' = Home
    OBVIOUS
  <2>1. sw' \subseteq Home
    BY <1>2, <1>3, HomeFacts
  <2>2. \A g \in Home : Goes(c, g) => g = c.f
    BY <1>2 DEF Goes, Home, Pvid, Member, F
  <2> QED
    BY <1>3, <2>1, <2>2
<1> QED
  BY <1>2, <1>3, <1>6, <1>7, <1>8

\* The teardown of a hairpin ends with the default PVIDs.
LEMMA UndoneSteady ==
    ASSUME NEW CONSTANT x \in Pair, sw' = After(sw, On(Pvid(Def, x))), UNCHANGED plan,
           plan \in Seq(Step)
    PROVE  /\ Undone(HairDown) => Undone(HairDown)'
           /\ Undone(VrfDownAll) => Undone(VrfDownAll)'
<1>1. /\ \A g : g.k # "pvid" \/ g.x # x => (g \in sw' <=> g \in sw)
      /\ Pvid(Def, x) \in sw' /\ \A g \in sw' : g \in sw \/ g = Pvid(Def, x)
  BY PvidSet
<1>2. PICK n \in Nat : n = Len(plan)
  OBVIOUS
<1>3. \A i \in 1..13 : HairDown[i].f.k = "pvid" => HairDown[i].to = "on" /\ HairDown[i].f \in Home
  <2>1. \A i \in 1..13 : i \notin {3, 4} => HairDown[i].f.k # "pvid"
    BY HairDownSteps, RigAssumption DEF HairPos
  <2>2. \A i \in {3, 4} : HairDown[i].to = "on"
    BY HairDownElements, Commands
  <2> QED
    BY <2>1, <2>2, HairDownSteps
<1>4. \A i \in 1..13 : Post(sw, HairDown[i]) => Post(sw', HairDown[i])
  <2>1. TAKE i \in 1..13
  <2>2. CASE HairDown[i].f.k # "pvid"
    BY <1>1, <2>2 DEF Post
  <2>3. CASE HairDown[i].f.k = "pvid"
    <3>1. HairDown[i].to = "on" /\ HairDown[i].f \in Home
      BY <1>3, <2>3
    <3>2. \A f \in Home : f.k = "pvid" /\ f.x = x => f = Pvid(Def, x)
      BY DEF Home, Pvid, Member, F
    <3> QED
      BY <1>1, <2>3, <3>1, <3>2 DEF Post
  <2> QED
    BY <2>2, <2>3
<1>5. \A i \in 1..11 : Post(sw, VrfDownAll[i]) => Post(sw', VrfDownAll[i])
  BY <1>1, VrfDownSteps DEF Post
<1>6. ASSUME Undone(HairDown) PROVE Undone(HairDown)'
  <2>1. \A i \in 1..(13 - n) : i \in 1..13
    BY <1>2
  <2>2. \A i \in 1..(13 - n) : Post(sw, HairDown[i])
    BY <1>2, <1>6, HairDownElements DEF Undone
  <2> QED
    BY <1>2, <1>4, <2>1, <2>2, HairDownElements DEF Undone
<1>7. ASSUME Undone(VrfDownAll) PROVE Undone(VrfDownAll)'
  <2>1. \A i \in 1..(11 - n) : i \in 1..11
    BY <1>2
  <2>2. \A i \in 1..(11 - n) : Post(sw, VrfDownAll[i])
    BY <1>2, <1>7, VrfDownElements DEF Undone
  <2> QED
    BY <1>2, <1>5, <2>1, <2>2, VrfDownElements DEF Undone
<1> QED
  BY <1>6, <1>7

LEMMA WriteBackStep ==
    ASSUME RigInv, NEW CONSTANT x \in Pair, WriteBack(x)
    PROVE  RigInv'
<1>1. /\ busy[x] > 0 /\ busy' = [busy EXCEPT ![x] = @ - 1]
      /\ sw' = After(sw, On(Pvid(Def, x)))
      /\ UNCHANGED <<rig, stage, plan, undo, covered, torn, failed, hit, tries, hasty>>
  BY DEF WriteBack
<1>2. /\ PvidInv'
      /\ \A g : g.k # "pvid" \/ g.x # x => (g \in sw' <=> g \in sw)
      /\ Pvid(Def, x) \in sw' /\ \A g \in sw' : g \in sw \/ g = Pvid(Def, x)
      /\ sw = Home => sw' = Home
  BY <1>1, PvidSet DEF RigInv
<1>3. Pvid(Def, x) \in Home /\ Pvid(Def, x).k = "pvid"
  BY HomeFacts DEF Pvid, F
<1>4. BaseInv'
  BY <1>1 DEF RigInv, BaseInv
<1>5. OrderInv'
  BY <1>1 DEF RigInv, OrderInv, Early, Taking
<1>6. FactsInv'
  <2>1. \A y : Looped(y).k # "pvid" /\ Member(Def, y).k # "pvid"
    BY DEF Looped, Member, F
  <2>2. Home \subseteq FactsOf(rig)
    BY Facts DEF FactsOf
  <2> QED
    BY <1>1, <1>2, <1>3, <2>1, <2>2 DEF RigInv, FactsInv
<1>7. PlanInv' /\ StormInv'
  BY <1>1, <1>2, <1>3, Steady DEF RigInv, Early, Taking
<1>8. ArmInv'
  <2>1. \A y \in Pair : busy[y] = 0 => y # x /\ busy'[y] = 0
    BY <1>1 DEF RigInv, BaseInv
  <2>2. \A v, y : y # x => (Pvid(v, y) \in sw' <=> Pvid(v, y) \in sw)
    BY <1>2 DEF Pvid, F
  <2>3. ASSUME NEW v, NEW y \in Pair, Confirmed(v, y)
        PROVE  Confirmed(v, y)'
    <3>1. CASE y = x
      BY <1>1, <1>2, <2>1, <2>3, <3>1 DEF Confirmed
    <3>2. CASE y # x
      BY <1>1, <2>1, <2>2, <2>3, <3>2 DEF Confirmed
    <3> QED
      BY <3>1, <3>2
  <2> QED
    BY <1>1, <2>3 DEF RigInv, ArmInv, Pair
<1>9. HomeInv'
  <2>1. Taking' = Taking /\ Regular' = Regular /\ \A P : Hit(P)' = Hit(P)
    BY <1>1 DEF Taking, Regular, Hit
  <2>2. /\ Undone(HairDown) => Undone(HairDown)'
        /\ Undone(VrfDownAll) => Undone(VrfDownAll)'
    BY <1>1, UndoneSteady DEF RigInv, BaseInv
  <2>3. Home \subseteq sw => Home \subseteq sw'
    <3>1. \A f \in Home : f.k = "pvid" /\ f.x = x => f = Pvid(Def, x)
      BY DEF Home, Pvid, Member, F
    <3> QED
      BY <1>2, <3>1
  <2>4. \A y \in Pair, k \in {"loop", "ip", "bound"} : Holds(sw', k, y) => Holds(sw, k, y)
    BY <1>2, <1>3 DEF Holds
  <2> QED
    BY <1>1, <1>2, <2>1, <2>2, <2>3, <2>4 DEF RigInv, HomeInv
<1> QED
  BY <1>2, <1>4, <1>5, <1>6, <1>7, <1>8, <1>9 DEF RigInv

\* Before the teardown only the earlier parts speak.
LEMMA EarlyHome == Early /\ ~torn => HomeInv
BY DEF Early, Arming, Taking, HomeInv

LEMMA AbandonStep == RigInv /\ Abandon => RigInv'
<1> SUFFICES ASSUME RigInv, Abandon PROVE RigInv'
  OBVIOUS
<1>1. /\ stage = "build" /\ ~covered /\ stage' = "guard" /\ plan' = <<>> /\ failed' = TRUE
      /\ UNCHANGED <<sw, busy, rig, undo, covered, torn, hit, tries, hasty>>
  BY DEF Abandon
<1>2. ~torn
  BY <1>1 DEF RigInv, OrderInv, Early
<1>3. ~Early' /\ ~Taking'
  BY <1>1 DEF Early, Taking, Arming
<1>4. BaseInv'
  <2>1. <<>> \in Seq(Step)
    OBVIOUS
  <2> QED
    BY <1>1, <2>1 DEF RigInv, BaseInv, Stage
<1>5. OrderInv'
  BY <1>1, <1>3 DEF RigInv, OrderInv, Arming
<1>6. PvidInv' /\ FactsInv'
  BY <1>1 DEF RigInv, PvidInv, FactsInv
<1>7. PlanInv'
  BY <1>1, <1>3 DEF PlanInv
<1>8. StormInv'
  BY <1>1, <1>3 DEF RigInv, StormInv, HairStorm, VrfStorm
<1>9. ArmInv' /\ HomeInv'
  BY <1>1, <1>2, <1>3 DEF ArmInv, HomeInv
<1> QED
  BY <1>4, <1>5, <1>6, <1>7, <1>8, <1>9 DEF RigInv

\* The plan of a rig is done, its PVIDs are set and read, the test is over.
LEMMA OnwardStep ==
    ASSUME RigInv, Early, ~torn, plan = <<>>, BaseInv', PvidInv', FactsInv',
           ArmInv', Early', UNCHANGED <<rig, plan, undo, covered, torn, hit>>,
           stage' # "build", stage' \in Arming => rig = "hairpin",
           failed => failed', stage' \in {"send"} \cup Arming => ~failed',
           \A g \in sw' : g \in sw \/ g.k = "pvid"
    PROVE  RigInv'
<1>1. ~Taking' /\ HomeInv'
  BY EarlyHome DEF Taking, HomeInv, Early, Arming
<1>2. OrderInv'
  BY <1>1 DEF RigInv, OrderInv, Early, Arming
<1>3. PlanInv' /\ StormInv'
  BY <1>1, Steady DEF RigInv
<1> QED
  BY <1>1, <1>2, <1>3 DEF RigInv

LEMMA BuiltStep == RigInv /\ Built => RigInv'
<1> SUFFICES ASSUME RigInv, Built PROVE RigInv'
  OBVIOUS
<1>1. /\ stage = "build" /\ plan = <<>>
      /\ stage' = (IF rig = "hairpin" THEN "setIn" ELSE "send") /\ tries' = MaxTries
      /\ UNCHANGED <<sw, busy, rig, plan, undo, covered, torn, failed, hit, hasty>>
  BY DEF Built
<1>2. Early /\ ~torn /\ ~failed /\ Early'
  BY <1>1 DEF RigInv, OrderInv, Early, Arming
<1>3. BaseInv'
  <2>1. MaxTries \in 0..MaxTries
    BY RigAssumption
  <2> QED
    BY <1>1, <2>1 DEF RigInv, BaseInv, Stage
<1>4. PvidInv' /\ FactsInv' /\ ArmInv'
  BY <1>1 DEF RigInv, PvidInv, FactsInv, ArmInv
<1>5. stage' \in {"setIn", "send"} /\ (stage' \in Arming => rig = "hairpin")
  BY <1>1 DEF Arming
<1> QED
  BY <1>1, <1>2, <1>3, <1>4, <1>5, OnwardStep

LEMMA SetStep ==
    ASSUME RigInv, NEW CONSTANT from, NEW CONSTANT to, NEW CONSTANT v, NEW CONSTANT x,
           <<from, to, v, x>> \in {<<"setIn", "readIn", "A", p_in>>, <<"setOut", "readOut", "B", p_out>>},
           SetPvid(from, to, v, x)
    PROVE  RigInv'
<1>1. /\ stage = from /\ stage' = to /\ sw' = After(sw, On(Pvid(v, x)))
      /\ UNCHANGED <<busy, rig, plan, undo, covered, torn, failed, hit, tries, hasty>>
  BY DEF SetPvid
<1>2. \/ from = "setIn" /\ to = "readIn" /\ v = "A" /\ x = p_in
      \/ from = "setOut" /\ to = "readOut" /\ v = "B" /\ x = p_out
  OBVIOUS
<1>3. Early /\ ~torn /\ ~failed /\ Early' /\ rig = "hairpin" /\ plan = <<>>
  BY <1>1, <1>2 DEF RigInv, OrderInv, Early, Arming, Taking
<1>4. x \in Pair /\ v \in {Def, "A", "B"} /\ Pvid(v, x) \in HairFacts
  BY <1>2 DEF Pair, HairFacts
<1>5. /\ PvidInv'
      /\ \A g : g.k # "pvid" \/ g.x # x => (g \in sw' <=> g \in sw)
      /\ Pvid(v, x) \in sw' /\ \A g \in sw' : g \in sw \/ g = Pvid(v, x)
  BY <1>1, <1>4, PvidSet DEF RigInv
<1>6. Pvid(v, x).k = "pvid" /\ Pvid(v, x).x = x /\ \A w, y : Pvid(w, y).x = y
  BY DEF Pvid, F
<1>7. BaseInv'
  BY <1>1, <1>2 DEF RigInv, BaseInv, Stage
<1>8. FactsInv'
  BY <1>1, <1>2, <1>3, <1>4, <1>5 DEF RigInv, FactsInv, FactsOf
<1>9. ArmInv'
  <2>1. CASE to = "readIn"
    BY <1>1, <2>1 DEF ArmInv
  <2>2. CASE to = "readOut"
    <3>1. Confirmed("A", p_in)
      BY <1>1, <1>2, <1>3, <2>2 DEF RigInv, ArmInv
    <3>2. \A w : Pvid(w, p_in) \in sw' <=> Pvid(w, p_in) \in sw
      BY <1>2, <1>5, <1>6, <2>2, RigAssumption
    <3>3. Confirmed("A", p_in)'
      BY <1>1, <3>1, <3>2 DEF Confirmed
    <3> QED
      BY <1>1, <2>2, <3>3 DEF ArmInv
  <2> QED
    BY <1>2, <2>1, <2>2
<1>10. /\ stage' # "build" /\ \A g \in sw' : g \in sw \/ g.k = "pvid"
  BY <1>1, <1>2, <1>5, <1>6
<1> QED
  BY <1>1, <1>3, <1>5, <1>7, <1>8, <1>9, <1>10, OnwardStep

LEMMA ReadStep ==
    ASSUME RigInv, NEW CONSTANT here, NEW CONSTANT retry, NEW CONSTANT next, NEW CONSTANT v,
           NEW CONSTANT x,
           <<here, retry, next, v, x>> \in {<<"readIn", "setIn", "setOut", "A", p_in>>,
                                            <<"readOut", "setOut", "send", "B", p_out>>},
           ReadPvid(here, retry, next, v, x)
    PROVE  RigInv'
<1>1. /\ stage = here
      /\ \/ Pvid(v, x) \in sw /\ Confirm(x) /\ stage' = next /\ tries' = MaxTries /\ UNCHANGED failed
         \/ Pvid(v, x) \notin sw /\ tries > 1 /\ stage' = retry /\ tries' = tries - 1
            /\ UNCHANGED <<failed, hasty>>
         \/ Pvid(v, x) \notin sw /\ tries <= 1 /\ stage' = "down" /\ failed' = TRUE
            /\ UNCHANGED <<tries, hasty>>
      /\ UNCHANGED <<sw, busy, rig, plan, undo, covered, torn, hit>>
  BY DEF ReadPvid
<1>2. \/ here = "readIn" /\ retry = "setIn" /\ next = "setOut" /\ v = "A" /\ x = p_in
      \/ here = "readOut" /\ retry = "setOut" /\ next = "send" /\ v = "B" /\ x = p_out
  OBVIOUS
<1>3. Early /\ ~torn /\ ~failed /\ rig = "hairpin" /\ plan = <<>>
  BY <1>1, <1>2 DEF RigInv, OrderInv, Early, Arming, Taking
<1>4. BaseInv'
  <2>1. MaxTries \in Nat /\ tries \in 0..MaxTries
    BY RigAssumption DEF RigInv, BaseInv
  <2>2. tries' \in 0..MaxTries
    BY <1>1, <2>1
  <2>3. stage' \in Stage
    BY <1>1, <1>2 DEF Stage
  <2>4. failed' \in BOOLEAN
    BY <1>1 DEF RigInv, BaseInv
  <2>5. hasty' \subseteq Pair
    BY <1>1, <1>2 DEF Confirm, RigInv, BaseInv, Pair
  <2> QED
    BY <1>1, <2>2, <2>3, <2>4, <2>5 DEF RigInv, BaseInv
<1>5. FactsInv' /\ PvidInv'
  BY <1>1, <1>2 DEF RigInv, FactsInv, PvidInv
<1>6. ArmInv'
  <2>1. hasty \subseteq hasty' /\ UNCHANGED <<sw, busy>>
    BY <1>1 DEF Confirm
  <2>2. ASSUME NEW w, NEW y, Confirmed(w, y) PROVE Confirmed(w, y)'
    BY <2>1, <2>2 DEF Confirmed
  <2>3. stage' = next => Confirmed(v, x)'
    <3>1. SUFFICES ASSUME stage' = next PROVE Confirmed(v, x)'
      OBVIOUS
    <3>2. Pvid(v, x) \in sw /\ Confirm(x)
      BY <1>1, <1>2, <3>1
    <3>3. x \in Pair /\ busy[x] \in Nat
      BY <1>2 DEF Pair, RigInv, BaseInv
    <3> QED
      BY <2>1, <3>2, <3>3 DEF Confirm, Confirmed
  <2> QED
    BY <1>1, <1>2, <1>3, <2>2, <2>3 DEF RigInv, ArmInv
<1>7. Early' /\ stage' # "build" /\ (stage' \in {"send"} \cup Arming => ~failed')
  BY <1>1, <1>2, <1>3 DEF Early, Arming
<1> QED
  BY <1>1, <1>3, <1>4, <1>5, <1>6, <1>7, OnwardStep

LEMMA LeaveStep == RigInv /\ Leave => RigInv'
<1> SUFFICES ASSUME RigInv, Leave PROVE RigInv'
  OBVIOUS
<1>1. /\ stage = "send" /\ stage' = "down" /\ failed' \in {failed, TRUE}
      /\ UNCHANGED <<sw, busy, rig, plan, undo, covered, torn, hit, tries, hasty>>
  BY DEF Leave
<1>2. Early /\ ~torn /\ ~failed /\ plan = <<>>
  BY <1>1 DEF RigInv, OrderInv, Early, Taking
<1>3. BaseInv'
  BY <1>1 DEF RigInv, BaseInv, Stage
<1>4. FactsInv' /\ PvidInv' /\ ArmInv'
  BY <1>1 DEF RigInv, FactsInv, PvidInv, ArmInv
<1>5. Early' /\ stage' \notin {"build", "send"} \cup Arming
  BY <1>1, <1>2 DEF Early, Arming
<1> QED
  BY <1>1, <1>2, <1>3, <1>4, <1>5, OnwardStep

LEMMA GuardStep == RigInv /\ Guard => RigInv'
<1> SUFFICES ASSUME RigInv, Guard PROVE RigInv'
  OBVIOUS
<1>1. /\ stage = "guard" /\ stage' = "close" /\ sw' = sw \ {Looped(x) : x \in Pair}
      /\ UNCHANGED <<busy, rig, plan, undo, covered, torn, failed, hit, tries, hasty>>
  BY DEF Guard
<1>2. ~Early /\ ~Taking /\ ~Early' /\ ~Taking'
  BY <1>1 DEF Early, Taking, Arming
<1>3. \A g : g.k # "loop" => (g \in sw' <=> g \in sw)
  BY <1>1 DEF Looped, F
<1>4. sw' \subseteq sw
  BY <1>1
<1>5. BaseInv'
  BY <1>1 DEF RigInv, BaseInv, Stage
<1>6. OrderInv'
  BY <1>1, <1>2 DEF RigInv, OrderInv, Arming
<1>7. PvidInv'
  <2>1. \A x : Pvids(sw', x) = Pvids(sw, x)
    BY <1>3 DEF Pvids
  <2> QED
    BY <2>1 DEF RigInv, PvidInv
<1>8. FactsInv'
  <2>1. rig = "vlink" => Member(Def, p_out) \in sw'
    BY <1>3 DEF RigInv, FactsInv, Member, F
  <2> QED
    BY <1>1, <1>4, <2>1 DEF RigInv, FactsInv
<1>9. PlanInv' /\ StormInv'
  BY <1>1, <1>2, <1>4, Steady DEF RigInv
<1>10. ArmInv'
  BY <1>1 DEF ArmInv
<1>11. HomeInv'
  <2>1. Regular' = Regular
    BY <1>1 DEF Regular, Hit
  <2>2. sw = Home => sw' = Home
    BY <1>1, HomeFacts
  <2> QED
    BY <1>1, <1>2, <2>1, <2>2 DEF RigInv, HomeInv
<1> QED
  BY <1>5, <1>6, <1>7, <1>8, <1>9, <1>10, <1>11 DEF RigInv

\* The teardown begins.
LEMMA StartDownStep == RigInv /\ StartDown => RigInv'
<1> SUFFICES ASSUME RigInv, StartDown PROVE RigInv'
  OBVIOUS
<1>1. /\ stage = "down" /\ ~torn /\ torn' = TRUE /\ plan' = DownPlan /\ undo' = <<>>
      /\ UNCHANGED <<sw, busy, rig, stage, covered, failed, hit, tries, hasty>>
  BY DEF StartDown
<1>2. Early /\ ~Taking /\ plan = <<>> /\ ~Early' /\ Taking'
  BY <1>1 DEF RigInv, OrderInv, Early, Taking, Arming
<1>3. Len(plan) = 0 /\ undo \in Seq(Command) /\ rig \in Rig
  BY <1>2 DEF RigInv, BaseInv
<1>4. HairKept(0) = 7 /\ VrfKept(0) = 11
  BY DEF HairKept, VrfKept
<1>5. ASSUME rig = "hairpin"
      PROVE  plan' \in Seq(Step) /\ Len(plan') = 13 /\ \A i \in 1..13 : plan'[i] = Just(HairDown[i])
  <2>1. Kept(HairUndo, HairKept(Len(plan)))
    BY <1>2, <1>5 DEF RigInv, PlanInv
  <2>2. Kept(HairUndo, 7)
    BY <1>3, <1>4, <2>1, Zenon
  <2> QED
    BY <1>1, <1>3, <1>5, <2>2, HairDownPlan
<1>6. PICK m \in Nat : m = Len(undo)
  BY <1>3
<1>7. ASSUME rig = "vrf"
      PROVE  /\ plan' \in Seq(Step) /\ m \in 0..11 /\ Len(plan') = m
             /\ \A i \in 1..m : plan'[i] = Just(VrfDownAll[11 - m + i])
             /\ ~failed => m = 11
             /\ Looped(p_in) \in sw => m >= 6
             /\ Looped(p_out) \in sw => m >= 10
  <2>1. /\ Kept(VrfUndo, Len(undo)) /\ Len(undo) <= 11
        /\ ~failed => Len(undo) = VrfKept(Len(plan))
    BY <1>2, <1>7 DEF RigInv, PlanInv
  <2>2. /\ plan' \in Seq(Step) /\ Len(plan') = Len(undo)
        /\ \A i \in 1..Len(undo) : plan'[i] = Just(VrfDownAll[11 - Len(undo) + i])
    BY <1>1, <1>3, <1>7, <2>1, VrfDownPlan
  <2>3. m \in 0..11
    <3>1. m <= 11
      BY <1>6, <2>1, Zenon
    <3> QED
      BY <3>1
  <2>4. ~failed => m = 11
    BY <1>3, <1>4, <1>6, <2>1, Zenon
  <2>5. /\ Looped(p_in) \in sw => m >= 6
        /\ Looped(p_out) \in sw => m >= 10
    BY <1>2, <1>6, <1>7 DEF RigInv, StormInv, VrfStorm
  <2>6. Len(plan') = m /\ \A i \in 1..m : plan'[i] = Just(VrfDownAll[11 - m + i])
    BY <1>6, <2>2
  <2> QED
    BY <2>2, <2>3, <2>4, <2>5, <2>6, Zenon
<1>8. ASSUME rig = "vlink"
      PROVE  /\ plan' \in Seq(Step) /\ Len(plan') >= 2 /\ plan'[1] = Just(Off(Neigh(p_in)))
             /\ \A i \in 1..Len(plan') :
                   \E c \in {Off(Neigh(p_in)), Off(Looped(p_in))} \cup VlinkUndo : plan'[i] = Just(c)
  BY <1>1, <1>2, <1>8, VlinkDownPlan DEF RigInv, PlanInv
<1>9. plan' \in Seq(Step)
  BY <1>3, <1>5, <1>7, <1>8 DEF Rig
<1>10. BaseInv'
  <2>1. <<>> \in Seq(Command)
    OBVIOUS
  <2> QED
    BY <1>1, <1>9, <2>1 DEF RigInv, BaseInv
<1>11. OrderInv'
  BY <1>1, <1>2 DEF RigInv, OrderInv, Arming
<1>12. PvidInv' /\ FactsInv' /\ ArmInv'
  BY <1>1 DEF RigInv, PvidInv, FactsInv, ArmInv
<1>13. PlanInv'
  <2>1. ASSUME rig = "hairpin" PROVE Left(HairDown)'
    <3>1. Len(plan') = 13 /\ Len(HairDown) = 13
      BY <1>5, <2>1, HairDownElements
    <3>2. 13 <= 13 /\ \A i \in 1..13 : 13 - 13 + i = i
      OBVIOUS
    <3>3. \A i \in 1..13 : plan'[i] = Just(HairDown[13 - 13 + i])
      BY <1>5, <2>1, <3>2, Zenon
    <3> QED
      BY <3>1, <3>2, <3>3, Zenon DEF Left
  <2>2. ASSUME rig = "vrf" PROVE Left(VrfDownAll)'
    <3>1. Len(VrfDownAll) = 11 /\ m \in 0..11 /\ Len(plan') = m
      BY <1>7, <2>2, VrfDownElements
    <3>2. m <= 11 /\ \A i \in 1..m : plan'[i] = Just(VrfDownAll[11 - m + i])
      BY <1>7, <2>2, <3>1
    <3> QED
      BY <3>1, <3>2 DEF Left
  <2>3. ASSUME rig = "vlink" PROVE plan' # <<>>
    BY <1>8, <2>3
  <2> QED
    BY <1>1, <1>2, <1>8, <2>1, <2>2, <2>3 DEF PlanInv
<1>14. StormInv'
  <2>1. ASSUME rig = "hairpin" PROVE HairStorm'
    <3>1. ~(Len(plan') <= 8)
      <4>1. Len(plan') = 13
        BY <1>5, <2>1
      <4>2. ~(13 <= 8)
        OBVIOUS
      <4> QED
        BY <4>1, <4>2, Zenon
    <3> QED
      BY <1>1, <1>2, <2>1, <3>1 DEF RigInv, StormInv, HairStorm
  <2>2. ASSUME rig = "vrf" PROVE VrfStorm'
    <3>1. Len(plan') = m /\ (Looped(p_in) \in sw => m >= 6) /\ (Looped(p_out) \in sw => m >= 10)
      BY <1>7, <2>2
    <3>2. /\ Len(plan') <= 9 => Looped(p_out) \notin sw
          /\ Len(plan') <= 5 => Looped(p_in) \notin sw
      BY <3>1
    <3> QED
      BY <1>1, <1>2, <2>2, <3>2 DEF RigInv, StormInv, VrfStorm
  <2> QED
    BY <1>1, <2>1, <2>2 DEF StormInv
<1>15. HomeInv'
  <2>1. ASSUME rig = "hairpin" PROVE Undone(HairDown)'
    <3>1. Len(HairDown) - Len(plan') = 0
      BY <1>5, <2>1, HairDownElements
    <3> QED
      BY <3>1 DEF Undone
  <2>2. ASSUME rig = "vrf", Regular' PROVE Undone(VrfDownAll)'
    <3>1. ~failed
      BY <1>1, <2>2 DEF Regular
    <3>2. Len(VrfDownAll) - Len(plan') = 0
      BY <1>7, <2>2, <3>1, VrfDownElements
    <3> QED
      BY <3>2 DEF Undone
  <2> QED
    BY <1>1, <2>1, <2>2 DEF HomeInv
<1> QED
  BY <1>10, <1>11, <1>12, <1>13, <1>14, <1>15 DEF RigInv

-----------------------------------------------------------------------------
(* A step of a plan.                                                       *)

LEMMA Moves ==
    ASSUME plan \in Seq(Step), plan # <<>>, plan' = Tail(plan)
    PROVE  /\ plan' \in Seq(Step) /\ Len(plan) \in Nat \ {0} /\ Len(plan') = Len(plan) - 1
           /\ Head(plan) = plan[1] /\ Head(plan) \in Step
           /\ \A i \in 1..(Len(plan) - 1) : plan'[i] = plan[i + 1]
OBVIOUS

LEMMA BegunMoves ==
    ASSUME plan \in Seq(Step), plan # <<>>, NEW CONSTANT P, NEW CONSTANT N \in Nat, Len(P) = N, Begun(P)
    PROVE  /\ Len(plan) \in 1..N /\ Head(plan) = P[N - Len(plan) + 1]
           /\ plan' = Tail(plan) => Begun(P)'
<1>1. PICK n \in Nat \ {0} : n = Len(plan)
  OBVIOUS
<1>2. n <= N /\ \A i \in 1..n : plan[i] = P[N - n + i]
  BY <1>1 DEF Begun
<1>3. Head(plan) = P[N - n + 1]
  <2>1. Head(plan) = plan[1] /\ 1 \in 1..n
    BY <1>1
  <2> QED
    BY <1>2, <2>1
<1>4. ASSUME plan' = Tail(plan) PROVE Begun(P)'
  <2>1. Len(plan') = n - 1 /\ \A i \in 1..(n - 1) : plan'[i] = plan[i + 1]
    BY <1>1, <1>4, Moves
  <2>2. \A i \in 1..(n - 1) : i + 1 \in 1..n /\ N - n + (i + 1) = N - (n - 1) + i
    BY <1>1
  <2>3. \A i \in 1..(n - 1) : plan'[i] = P[N - (n - 1) + i]
    BY <1>2, <2>1, <2>2
  <2>4. n - 1 <= N
    BY <1>1, <1>2
  <2> QED
    BY <2>1, <2>3, <2>4, Zenon DEF Begun
<1>5. n \in 1..N
  BY <1>1, <1>2
<1> QED
  BY <1>1, <1>3, <1>4, <1>5

LEMMA LeftMoves ==
    ASSUME plan \in Seq(Step), plan # <<>>, NEW CONSTANT L, NEW CONSTANT N \in Nat, Len(L) = N, Left(L),
           plan' = Tail(plan)
    PROVE  Len(plan) \in 1..N /\ Head(plan) = Just(L[N - Len(plan) + 1]) /\ Left(L)'
<1>1. PICK n \in Nat \ {0} : n = Len(plan)
  OBVIOUS
<1>2. n <= N /\ \A i \in 1..n : plan[i] = Just(L[N - n + i])
  BY <1>1 DEF Left
<1>3. Head(plan) = Just(L[N - n + 1])
  <2>1. Head(plan) = plan[1] /\ 1 \in 1..n
    BY <1>1
  <2> QED
    BY <1>2, <2>1
<1>4. Left(L)'
  <2>1. Len(plan') = n - 1 /\ \A i \in 1..(n - 1) : plan'[i] = plan[i + 1]
    BY <1>1, Moves
  <2>2. \A i \in 1..(n - 1) : i + 1 \in 1..n /\ N - n + (i + 1) = N - (n - 1) + i
    BY <1>1
  <2>3. \A i \in 1..(n - 1) : plan'[i] = Just(L[N - (n - 1) + i])
    BY <1>2, <2>1, <2>2
  <2>4. n - 1 <= N
    BY <1>1, <1>2
  <2> QED
    BY <2>1, <2>3, <2>4, Zenon DEF Left
<1>5. n \in 1..N
  BY <1>1, <1>2
<1> QED
  BY <1>1, <1>3, <1>4, <1>5

\* A command on a PVID is never refused; the others leave the PVIDs alone.
LEMMA OnePvid ==
    ASSUME NEW CONSTANT c \in Command, NEW CONSTANT ok \in BOOLEAN, Outcome(c, ok), PvidInv,
           c.f.k = "pvid" => c.to = "on"
    PROVE  PvidInv'
<1>1. CASE sw' = sw
  BY <1>1 DEF PvidInv
<1>2. CASE sw' = After(sw, c)
  <2>1. CASE c.f.k # "pvid"
    BY <1>2, <2>1, AfterPvids DEF PvidInv
  <2>2. CASE c.f.k = "pvid"
    <3>1. c.f = Pvid(c.f.v, c.f.x)
      BY <2>2 DEF Command, Fact, Pvid, F
    <3>2. \A x \in Pair : /\ x # c.f.x => Pvids(sw', x) = Pvids(sw, x)
                          /\ x = c.f.x => Pvids(sw', x) = {c.f}
      BY <1>2, <2>2, AfterPvids
    <3> QED
      BY <3>1, <3>2 DEF PvidInv
  <2> QED
    BY <2>1, <2>2
<1> QED
  BY <1>1, <1>2 DEF Outcome

\* What a command takes away is gone, unless it was refused without a reason.
LEMMA Takes ==
    ASSUME NEW CONSTANT c \in Command, NEW CONSTANT ok \in BOOLEAN, Outcome(c, ok),
           hit \in Seq({"build", "down", "close"}), Len(hit) <= MaxFaults,
           stage \in {"build", "down"}, c.to = "off", c.f.k # "vlan", c.f \in sw'
    PROVE  hit' # hit /\ Len(hit') = Len(hit) + 1
<1>1. /\ ok => Post(sw', c)
      /\ ~ok => sw' = sw /\ (hit' = hit => ~Accepts(sw, c))
      /\ hit' # hit => Len(hit') = Len(hit) + 1
  BY Effect
<1>2. ~ok
  BY <1>1 DEF Post
<1>3. Accepts(sw, c) <=> c.f \in sw
  BY DEF Accepts
<1> QED
  BY <1>1, <1>2, <1>3

LEMMA Means ==
    \A c \in Command : (c.to = "on" => c = On(c.f)) /\ (c.to = "off" => c = Off(c.f))
BY DEF Command, On, Off
-----------------------------------------------------------------------------
(* Building.                                                               *)

LEMMA BuildFrame ==
    ASSUME RigInv, NEW CONSTANT s \in Step, NEW CONSTANT ok \in BOOLEAN, Outcome(s.c, ok),
           stage = "build", UNCHANGED <<rig, covered, tries, hasty>>,
           plan' \in Seq(Step), undo' \in Seq(Command), stage' \in Stage,
           failed' \in BOOLEAN, torn' \in BOOLEAN
    PROVE  BaseInv' /\ Early /\ ~torn /\ ~failed /\ ~Taking
<1>1. s.c \in Command
  BY DEF Step
<1>2. hit \in Seq({"build", "down", "close"}) /\ Len(hit) <= MaxFaults /\ busy \in [Pair -> Nat]
  BY DEF RigInv, BaseInv
<1>3. /\ hit' \in Seq({"build", "down", "close"}) /\ Len(hit') <= MaxFaults
      /\ busy' \in [Pair -> Nat]
  BY <1>1, <1>2, Effect
<1>4. BaseInv'
  BY <1>3 DEF RigInv, BaseInv
<1> QED
  BY <1>4 DEF RigInv, OrderInv, Early, Taking

\* A step of the build that goes on to the next one.
LEMMA NextFrame ==
    ASSUME RigInv, stage = "build", Early, ~torn, ~failed,
           UNCHANGED <<rig, covered, tries, hasty, stage, failed, torn>>
    PROVE  OrderInv' /\ Early' /\ ~Taking' /\ ArmInv' /\ HomeInv'
<1>1. Early' /\ ~Taking' /\ stage' = "build" /\ ~torn'
  BY DEF Early, Taking
<1>2. OrderInv'
  BY <1>1 DEF RigInv, OrderInv, Arming
<1>3. ArmInv' /\ HomeInv'
  BY <1>1 DEF ArmInv, HomeInv
<1> QED
  BY <1>1, <1>2, <1>3

LEMMA HairBuild ==
    ASSUME RigInv, rig = "hairpin", stage = "build", plan # <<>>, NEW CONSTANT ok \in BOOLEAN,
           NEW CONSTANT s, s = Head(plan), Outcome(s.c, ok), UNCHANGED <<rig, covered, tries, hasty>>,
           undo' = IF ok \/ ~s.ifok THEN undo \o s.keep ELSE undo,
           \/ (ok \/ ~s.strict) /\ plan' = Tail(plan) /\ UNCHANGED <<stage, failed, torn>>
           \/ ~ok /\ s.strict
    PROVE  RigInv'
<1>1. plan \in Seq(Step) /\ undo \in Seq(Command) /\ hit \in Seq({"build", "down", "close"})
      /\ Len(hit) <= MaxFaults
  BY DEF RigInv, BaseInv
<1>2. Begun(HairpinPlan) /\ Len(HairpinPlan) = 13
  BY HairSteps DEF RigInv, PlanInv
<1>3. /\ Len(plan) \in 1..13 /\ s = HairpinPlan[13 - Len(plan) + 1]
      /\ plan' = Tail(plan) => Begun(HairpinPlan)'
  <2>1. PICK N \in Nat : N = 13
    OBVIOUS
  <2>2. Len(HairpinPlan) = N
    BY <1>2, <2>1
  <2>3. /\ Len(plan) \in 1..N /\ Head(plan) = HairpinPlan[N - Len(plan) + 1]
        /\ plan' = Tail(plan) => Begun(HairpinPlan)'
    BY <1>1, <1>2, <2>2, BegunMoves
  <2> QED
    BY <2>1, <2>3
<1>4. PICK n \in 1..13 : n = Len(plan)
  BY <1>3
<1>5. PICK i \in 1..13 : i = 14 - n
  <2>1. 14 - n \in 1..13
    OBVIOUS
  <2> QED
    BY <2>1
<1>6. s = HairpinPlan[i] /\ s \in Step
  <2>1. 13 - n + 1 = i
    BY <1>4, <1>5
  <2>2. s = HairpinPlan[i]
    BY <1>3, <1>4, <2>1
  <2> QED
    BY <1>1, <2>2, HairSteps
<1>7. PICK c \in Command : c = s.c
  BY <1>6 DEF Step
<1>8. /\ ~s.strict
      /\ c.to = "on" => c.f \in HairFacts
      /\ c.f.k \notin {"bound", "vrf"}
      /\ c.f.k = "pvid" => c.to = "on"
      /\ (c.f.k = "member" /\ c.f.v = Def) => c.to = "off"
      /\ c = On(Looped(p_in)) => i = 10
      /\ i = 4 => c = Off(Member(Def, p_in))
      /\ i = 6 => c = Off(Member(Def, p_out))
      /\ i \in {1, 2, 10, 11, 12, 13} => s.keep = <<>>
      /\ i \in 3..9 => ~s.ifok
  BY <1>6, <1>7, HairSteps
<1>9. plan' = Tail(plan) /\ UNCHANGED <<stage, failed, torn>>
  BY <1>8
<1>10. plan' \in Seq(Step) /\ Len(plan') = n - 1
  BY <1>1, <1>4, <1>9, Moves
<1>11. Kept(HairUndo, HairKept(n))
  BY <1>4 DEF RigInv, PlanInv, Early
<1>12. PICK k \in Seq(Command) : k = s.keep
  BY <1>6, HairKeeps
<1>13. undo' = undo \o k
  <2>1. CASE i \in 3..9
    BY <1>8, <1>12, <2>1
  <2>2. CASE i \in {1, 2, 10, 11, 12, 13}
    <3>1. undo \o <<>> = undo
      BY <1>1
    <3> QED
      BY <1>8, <1>12, <2>2, <3>1
  <2> QED
    BY <2>1, <2>2
<1>14. undo' \in Seq(Command) /\ Kept(HairUndo, HairKept(n - 1))'
  <2>1. 14 - i = n /\ 13 - i = n - 1
    BY <1>4, <1>5
  <2>2. HairKept(14 - i) + Len(k) = HairKept(13 - i) /\ \A j \in 1..Len(k) : k[j] = HairUndo[HairKept(14 - i) + j]
    BY <1>6, <1>12, HairKeeps
  <2>3. HairKept(n) + Len(k) = HairKept(n - 1) /\ \A j \in 1..Len(k) : k[j] = HairUndo[HairKept(n) + j]
    BY <2>1, <2>2
  <2>4. PICK m \in Nat : m = HairKept(n)
    <3>1. HairKept(n) \in Nat
      BY <1>4 DEF HairKept
    <3> QED
      BY <3>1
  <2>5. /\ undo' \in Seq(Command) /\ Len(undo') = m + Len(k)
        /\ \A j \in 1..(m + Len(k)) : undo'[j] = HairUndo[j]
    BY <1>1, <1>11, <1>13, <2>3, <2>4, KeptGrows
  <2> QED
    BY <2>3, <2>4, <2>5 DEF Kept
<1>15. BaseInv' /\ Early /\ ~torn /\ ~failed /\ ~Taking
  BY <1>6, <1>9, <1>10, <1>14, BuildFrame DEF RigInv, BaseInv
<1>16. OrderInv' /\ Early' /\ ~Taking' /\ ArmInv' /\ HomeInv'
  BY <1>9, <1>15, NextFrame
<1>17. /\ \A g \in sw' : g \in sw \/ (g = c.f /\ c.to = "on")
       /\ Len(hit') \in {Len(hit), Len(hit) + 1}
  BY <1>1, <1>7, Effect
<1>18. PvidInv'
  BY <1>7, <1>8, OnePvid DEF RigInv
<1>19. FactsInv'
  BY <1>8, <1>9, <1>17 DEF RigInv, FactsInv, FactsOf
<1>20. PlanInv'
  <2>1. Begun(HairpinPlan)' /\ Kept(HairUndo, HairKept(Len(plan)))'
    BY <1>3, <1>9, <1>10, <1>14
  <2> QED
    BY <1>16, <2>1 DEF PlanInv
<1>21. StormInv'
  <2>1. HairStorm
    BY DEF RigInv, StormInv
  <2>2. PICK h \in Nat : h = Len(hit)
    BY <1>1
  <2>3. PICK h2 \in Nat : h2 = Len(hit') /\ h2 \in {h, h + 1}
    BY <1>17, <2>2
  <2>4. \A x : Member(Def, x) \in sw' => Member(Def, x) \in sw
    <3>1. \A x : Member(Def, x).k = "member" /\ Member(Def, x).v = Def
      BY DEF Member, F
    <3> QED
      BY <1>8, <1>17, <3>1
  <2>5. Looped(p_in) \in sw' => n - 1 <= 3
    <3>1. CASE Looped(p_in) \in sw
      <4>1. n <= 3
        BY <1>4, <1>15, <2>1, <3>1 DEF HairStorm
      <4> QED
        BY <4>1
    <3>2. CASE Looped(p_in) = c.f /\ c.to = "on"
      <4>1. i = 10
        BY <1>8, <3>2, Means
      <4> QED
        BY <1>4, <1>5, <4>1
    <3> QED
      BY <1>17, <3>1, <3>2
  <2>6. ASSUME n - 1 <= 9, Member(Def, p_in) \in sw' PROVE h2 >= 1
    <3>1. CASE n <= 9
      <4>1. h >= 1
        BY <1>4, <1>15, <2>1, <2>2, <2>4, <2>6, <3>1 DEF HairStorm
      <4> QED
        BY <2>3, <4>1
    <3>2. CASE n = 10
      <4>1. c = Off(Member(Def, p_in))
        BY <1>5, <1>8, <3>2
      <4>2. c.to = "off" /\ c.f = Member(Def, p_in) /\ c.f.k # "vlan"
        BY <4>1, Commands DEF Member, F
      <4>3. Len(hit') = Len(hit) + 1
        BY <1>1, <1>7, <2>6, <4>2, Takes
      <4> QED
        BY <2>2, <2>3, <4>3
    <3> QED
      BY <1>4, <2>6, <3>1, <3>2
  <2>7. ASSUME n - 1 <= 7, Member(Def, p_in) \in sw', Member(Def, p_out) \in sw' PROVE h2 >= 2
    <3>1. Member(Def, p_in) \in sw /\ Member(Def, p_out) \in sw
      BY <2>4, <2>7
    <3>2. CASE n <= 7
      <4>1. h >= 2
        BY <1>4, <1>15, <2>1, <2>2, <3>1, <3>2 DEF HairStorm, Pair
      <4> QED
        BY <2>3, <4>1
    <3>3. CASE n = 8
      <4>1. c = Off(Member(Def, p_out))
        BY <1>5, <1>8, <3>3
      <4>2. c.to = "off" /\ c.f = Member(Def, p_out) /\ c.f.k # "vlan"
        BY <4>1, Commands DEF Member, F
      <4>3. Len(hit') = Len(hit) + 1
        BY <1>1, <1>7, <2>7, <4>2, Takes
      <4>4. n <= 9
        BY <3>3
      <4>5. h >= 1
        BY <1>4, <1>15, <2>1, <2>2, <3>1, <4>4 DEF HairStorm
      <4> QED
        BY <2>2, <2>3, <4>3, <4>5
    <3> QED
      BY <1>4, <2>7, <3>2, <3>3
  <2>8. n - 1 <= 3 => n - 1 <= 7
    BY <1>4
  <2>9. HairStorm'
    BY <1>10, <1>16, <2>3, <2>5, <2>6, <2>7, <2>8 DEF HairStorm, Pair
  <2> QED
    BY <2>9 DEF StormInv
<1> QED
  BY <1>15, <1>16, <1>18, <1>19, <1>20, <1>21 DEF RigInv

LEMMA VrfBuild ==
    ASSUME RigInv, rig = "vrf", stage = "build", plan # <<>>, NEW CONSTANT ok \in BOOLEAN,
           NEW CONSTANT s, s = Head(plan), Outcome(s.c, ok), UNCHANGED <<rig, covered, tries, hasty>>,
           undo' = IF ok \/ ~s.ifok THEN undo \o s.keep ELSE undo,
           \/ (ok \/ ~s.strict) /\ plan' = Tail(plan) /\ UNCHANGED <<stage, failed, torn>>
           \/ /\ ~ok /\ s.strict /\ failed' = TRUE /\ plan' = <<>>
              /\ stage' = (IF covered THEN "down" ELSE "guard") /\ torn' = FALSE
    PROVE  RigInv'
<1>1. plan \in Seq(Step) /\ undo \in Seq(Command) /\ hit \in Seq({"build", "down", "close"})
      /\ Len(hit) <= MaxFaults
  BY DEF RigInv, BaseInv
<1>2. Begun(VrfPlan) /\ Len(VrfPlan) = 11
  BY VrfElements DEF RigInv, PlanInv
<1>3. /\ Len(plan) \in 1..11 /\ s = VrfPlan[11 - Len(plan) + 1]
      /\ plan' = Tail(plan) => Begun(VrfPlan)'
  <2>1. PICK N \in Nat : N = 11
    OBVIOUS
  <2>2. Len(VrfPlan) = N
    BY <1>2, <2>1
  <2>3. /\ Len(plan) \in 1..N /\ Head(plan) = VrfPlan[N - Len(plan) + 1]
        /\ plan' = Tail(plan) => Begun(VrfPlan)'
    BY <1>1, <1>2, <2>2, BegunMoves
  <2> QED
    BY <2>1, <2>3
<1>4. PICK n \in 1..11 : n = Len(plan)
  BY <1>3
<1>5. PICK i \in 1..11 : i = 12 - n
  <2>1. 12 - n \in 1..11
    OBVIOUS
  <2> QED
    BY <2>1
<1>6. s = VrfPlan[i] /\ s \in Step
  <2>1. 11 - n + 1 = i
    BY <1>4, <1>5
  <2>2. s = VrfPlan[i]
    BY <1>3, <1>4, <2>1
  <2> QED
    BY <1>1, <2>2
<1>7. PICK c \in Command : c = s.c
  BY <1>6 DEF Step
<1>8. /\ c.to = "on" => c.f \in VrfFacts
      /\ c.f.k # "pvid" /\ (c.f.k = "member" => c.to = "off")
      /\ c = On(Looped(p_in)) => i = 6
      /\ c = On(Looped(p_out)) => i = 10
      /\ i = 5 => c = On(Ip(p_in))
      /\ i = 9 => c = On(Ip(p_out))
      /\ s.strict => s.ifok
      /\ c.f.k = "ip" => s.strict
      /\ ~s.strict /\ c.f.k \in Configured => s.keep = <<>>
  BY <1>6, <1>7, VrfSteps
<1>9. /\ \A g \in sw' : g \in sw \/ (g = c.f /\ c.to = "on")
      /\ c.f.k \notin Configured => ok
      /\ ok => (c.f.k \in Configured => Accepts(sw, c))
      /\ ~ok => sw' = sw
  BY <1>1, <1>7, Effect
<1>10. /\ Kept(VrfUndo, Len(undo)) /\ Len(undo) <= 11 /\ (~failed => Len(undo) = VrfKept(Len(plan)))
       /\ ~failed /\ VrfStorm /\ Early /\ ~torn /\ covered
  BY DEF RigInv, PlanInv, StormInv, OrderInv, Early
<1>11. PICK m \in 0..11 : m = Len(undo) /\ m = VrfKept(n)
  <2>1. PICK m \in Nat : m = Len(undo)
    BY <1>1
  <2>2. m = VrfKept(n)
    BY <1>4, <1>10, <2>1, Zenon
  <2>3. m <= 11
    BY <1>10, <2>1, Zenon
  <2> QED
    BY <2>1, <2>2, <2>3
<1>12. PvidInv'
  BY <1>7, <1>8, OnePvid DEF RigInv
<1>13. CASE (ok \/ ~s.strict) /\ plan' = Tail(plan) /\ UNCHANGED <<stage, failed, torn>>
  <2>1. plan' \in Seq(Step) /\ Len(plan') = n - 1
    BY <1>1, <1>4, <1>13, Moves
  <2>2. PICK k \in Seq(Command) : k = s.keep
    BY <1>6, VrfSteps
  <2>3. undo' = undo \o k
    <3>1. CASE ok
      BY <2>2, <3>1
    <3>2. CASE ~ok
      <4>1. k = <<>>
        BY <1>8, <1>9, <1>13, <2>2, <3>2
      <4>2. undo \o <<>> = undo
        BY <1>1
      <4> QED
        BY <2>2, <4>1, <4>2
    <3> QED
      BY <3>1, <3>2
  <2>4. /\ undo' \in Seq(Command) /\ VrfKept(n - 1) \in m..11 /\ Len(undo') = VrfKept(n - 1)
        /\ \A j \in 1..VrfKept(n - 1) : undo'[j] = VrfUndo[j]
    <3>1. 11 - i = n - 1 /\ 12 - i = n
      BY <1>4, <1>5
    <3>2. /\ Len(k) = VrfKept(11 - i) - VrfKept(12 - i)
          /\ \A j \in 1..Len(k) : k[j] = VrfUndo[VrfKept(12 - i) + j]
      <4>1. k = VrfPlan[i].keep
        BY <1>6, <2>2
      <4>2. /\ Len(VrfPlan[i].keep) = VrfKept(11 - i) - VrfKept(12 - i)
            /\ \A j \in 1..Len(VrfPlan[i].keep) : VrfPlan[i].keep[j] = VrfUndo[VrfKept(12 - i) + j]
        BY VrfSteps, Zenon
      <4> QED
        BY <4>1, <4>2, Zenon
    <3>3. /\ Len(k) = VrfKept(n - 1) - m
          /\ \A j \in 1..Len(k) : k[j] = VrfUndo[m + j]
      BY <1>11, <3>1, <3>2
    <3>4. Kept(VrfUndo, m)
      BY <1>10, <1>11
    <3>5. m \in Nat
      OBVIOUS
    <3>6. /\ undo' \in Seq(Command) /\ Len(undo') = m + Len(k)
          /\ \A j \in 1..(m + Len(k)) : undo'[j] = VrfUndo[j]
      BY <1>1, <2>3, <3>3, <3>4, <3>5, KeptGrows
    <3>7. VrfKept(n - 1) \in 0..11
      BY <1>4 DEF VrfKept
    <3>8. Len(k) \in Nat
      OBVIOUS
    <3>9. m + Len(k) = VrfKept(n - 1) /\ VrfKept(n - 1) \in m..11
      BY <3>3, <3>7, <3>8
    <3> QED
      BY <3>6, <3>9
  <2>5. BaseInv'
    BY <1>6, <1>13, <2>1, <2>4, BuildFrame DEF RigInv, BaseInv
  <2>6. OrderInv' /\ Early' /\ ~Taking' /\ ArmInv' /\ HomeInv'
    BY <1>10, <1>13, NextFrame
  <2>7. FactsInv'
    BY <1>8, <1>9, <1>13 DEF RigInv, FactsInv, FactsOf
  <2>8. PICK m2 \in m..11 : m2 = VrfKept(n - 1) /\ m2 = Len(undo')
    BY <2>4
  <2>9. PlanInv'
    <3>1. Begun(VrfPlan)'
      BY <1>3, <1>13
    <3>2. Kept(VrfUndo, Len(undo))'
      BY <2>4 DEF Kept
    <3>3. Len(undo') <= 11
      BY <2>8
    <3>4. Len(undo') = VrfKept(Len(plan'))
      BY <2>1, <2>4
    <3> QED
      BY <2>6, <3>1, <3>2, <3>3, <3>4 DEF PlanInv
  <2>10. StormInv'
    <3>1. \A x : Member(Def, x) \in sw' => Member(Def, x) \in sw
      <4>1. \A x : Member(Def, x).k = "member"
        BY DEF Member, F
      <4> QED
        BY <1>8, <1>9, <4>1
    <3>2. ASSUME n - 1 <= 6 PROVE Member(Def, p_in) \notin sw'
      <4>1. CASE n <= 6
        BY <1>4, <1>10, <3>1, <4>1 DEF VrfStorm
      <4>2. CASE n = 7
        <5>1. c = On(Ip(p_in))
          BY <1>5, <1>8, <4>2
        <5>2. c.f = Ip(p_in) /\ c.to = "on" /\ c.f.k = "ip" /\ c.f.x = p_in
          BY <5>1, Commands DEF Ip, F
        <5>3. Accepts(sw, c)
          BY <1>8, <1>9, <1>13, <5>2 DEF Configured
        <5>4. ~Holds(sw, "member", p_in)
          BY <5>2, <5>3 DEF Accepts
        <5> QED
          BY <3>1, <5>4 DEF Holds, Member, F
      <4> QED
        BY <3>2, <4>1, <4>2
    <3>3. ASSUME n - 1 <= 2 PROVE Member(Def, p_out) \notin sw'
      <4>1. CASE n <= 2
        BY <1>4, <1>10, <3>1, <4>1 DEF VrfStorm
      <4>2. CASE n = 3
        <5>1. c = On(Ip(p_out))
          BY <1>5, <1>8, <4>2
        <5>2. c.f = Ip(p_out) /\ c.to = "on" /\ c.f.k = "ip" /\ c.f.x = p_out
          BY <5>1, Commands DEF Ip, F
        <5>3. Accepts(sw, c)
          BY <1>8, <1>9, <1>13, <5>2 DEF Configured
        <5>4. ~Holds(sw, "member", p_out)
          BY <5>2, <5>3 DEF Accepts
        <5> QED
          BY <3>1, <5>4 DEF Holds, Member, F
      <4> QED
        BY <3>3, <4>1, <4>2
    <3>4. ASSUME Looped(p_in) \in sw' PROVE m2 >= 6 /\ Member(Def, p_in) \notin sw'
      <4>1. CASE Looped(p_in) \in sw
        <5>1. m >= 6 /\ Member(Def, p_in) \notin sw
          BY <1>10, <1>11, <4>1 DEF VrfStorm, Pair
        <5> QED
          BY <3>1, <5>1
      <4>2. CASE Looped(p_in) = c.f /\ c.to = "on"
        <5>1. i = 6
          BY <1>8, <4>2, Means
        <5>2. n = 6
          BY <1>5, <5>1
        <5>3. m2 = 6
          BY <2>8, <5>2 DEF VrfKept
        <5> QED
          BY <3>2, <5>2, <5>3
      <4> QED
        BY <1>9, <3>4, <4>1, <4>2
    <3>5. ASSUME Looped(p_out) \in sw' PROVE m2 >= 10 /\ Member(Def, p_out) \notin sw'
      <4>1. CASE Looped(p_out) \in sw
        <5>1. m >= 10 /\ Member(Def, p_out) \notin sw
          BY <1>10, <1>11, <4>1 DEF VrfStorm, Pair
        <5> QED
          BY <3>1, <5>1
      <4>2. CASE Looped(p_out) = c.f /\ c.to = "on"
        <5>1. i = 10
          BY <1>8, <4>2, Means
        <5>2. n = 2
          BY <1>5, <5>1
        <5>3. m2 = 10
          BY <2>8, <5>2 DEF VrfKept
        <5> QED
          BY <3>3, <5>2, <5>3
      <4> QED
        BY <1>9, <3>5, <4>1, <4>2
    <3>6. VrfStorm'
      BY <2>1, <2>6, <2>8, <3>2, <3>3, <3>4, <3>5 DEF VrfStorm, Pair
    <3> QED
      BY <3>6 DEF StormInv
  <2> QED
    BY <1>12, <2>5, <2>6, <2>7, <2>9, <2>10 DEF RigInv
<1>14. CASE ~ok /\ s.strict /\ failed' = TRUE /\ plan' = <<>> /\ stage' = "down" /\ torn' = FALSE
  <2>1. undo' = undo /\ sw' = sw
    BY <1>8, <1>9, <1>14
  <2>2. plan' \in Seq(Step) /\ Early' /\ ~Taking'
    BY <1>14 DEF Early, Taking
  <2>3. BaseInv'
    BY <1>1, <1>6, <1>14, <2>1, <2>2, BuildFrame DEF Stage
  <2>4. OrderInv'
    BY <1>10, <1>14 DEF RigInv, OrderInv, Arming
  <2>5. FactsInv' /\ ArmInv' /\ HomeInv'
    BY <1>14, <2>1, <2>2 DEF RigInv, FactsInv, ArmInv, HomeInv
  <2>6. PlanInv'
    <3>1. Kept(VrfUndo, Len(undo))' /\ Len(undo') <= 11
      BY <1>10, <2>1 DEF Kept
    <3> QED
      BY <1>14, <2>2, <3>1 DEF PlanInv
  <2>7. StormInv'
    <3>1. VrfStorm'
      BY <1>10, <1>14, <2>1, <2>2 DEF VrfStorm
    <3> QED
      BY <3>1 DEF StormInv
  <2> QED
    BY <1>12, <2>3, <2>4, <2>5, <2>6, <2>7 DEF RigInv
<1> QED
  BY <1>10, <1>13, <1>14

LEMMA VlinkBuild ==
    ASSUME RigInv, rig = "vlink", stage = "build", plan # <<>>, NEW CONSTANT ok \in BOOLEAN,
           NEW CONSTANT s, s = Head(plan), Outcome(s.c, ok), UNCHANGED <<rig, covered, tries, hasty>>,
           undo' = IF ok \/ ~s.ifok THEN undo \o s.keep ELSE undo,
           \/ (ok \/ ~s.strict) /\ plan' = Tail(plan) /\ UNCHANGED <<stage, failed, torn>>
           \/ /\ ~ok /\ s.strict /\ failed' = TRUE /\ plan' = <<>>
              /\ stage' = (IF covered THEN "down" ELSE "guard") /\ torn' = FALSE
    PROVE  RigInv'
<1>1. plan \in Seq(Step) /\ undo \in Seq(VlinkUndo) /\ hit \in Seq({"build", "down", "close"})
      /\ Len(hit) <= MaxFaults
  BY DEF RigInv, BaseInv, PlanInv, Early
<1>2. Begun(VlinkPlan) /\ Len(VlinkPlan) = 4
  BY VlinkSteps DEF RigInv, PlanInv
<1>3. PICK i \in 1..4 : s = VlinkPlan[i]
  <2>1. PICK N \in Nat : N = 4
    OBVIOUS
  <2>2. Len(VlinkPlan) = N
    BY <1>2, <2>1
  <2>3. Len(plan) \in 1..N /\ Head(plan) = VlinkPlan[N - Len(plan) + 1]
    BY <1>1, <1>2, <2>2, BegunMoves
  <2>4. PICK n \in 1..4 : n = Len(plan)
    BY <2>1, <2>3
  <2>5. 4 - n + 1 \in 1..4
    OBVIOUS
  <2> QED
    BY <2>1, <2>3, <2>4, <2>5
<1>4. plan' = Tail(plan) => Begun(VlinkPlan)'
  <2>1. PICK N \in Nat : N = 4
    OBVIOUS
  <2>2. Len(VlinkPlan) = N
    BY <1>2, <2>1
  <2> QED
    BY <1>1, <1>2, <2>2, BegunMoves
<1>5. s \in Step
  BY <1>1
<1>6. PICK c \in Command : c = s.c
  BY <1>5 DEF Step
<1>7. /\ c.to = "on" => c.f \in VlinkFacts
      /\ c.f.k \notin {"pvid", "bound", "vrf"}
      /\ c.f.k = "member" => c = Off(Member(Def, p_in))
      /\ s.keep \in Seq(VlinkUndo)
  BY <1>3, <1>6, VlinkSteps
<1>8. undo' \in Seq(VlinkUndo)
  BY <1>1, <1>7
<1>9. undo' \in Seq(Command)
  <2>1. VlinkUndo \subseteq Command
    <3>1. Member(Def, p_in) \in Fact /\ Ip(p_in) \in Fact
      BY DEF Ip, Member, F, Fact, Pair, Def, None
    <3> QED
      BY <3>1, Commands DEF VlinkUndo
  <2> QED
    BY <1>8, <2>1
<1>10. plan' \in Seq(Step)
  <2>1. CASE plan' = Tail(plan)
    BY <1>1, <2>1, Moves
  <2>2. CASE plan' = <<>>
    BY <2>2
  <2> QED
    BY <2>1, <2>2
<1>11. stage' \in {"build", "down", "guard"} /\ failed' \in BOOLEAN /\ torn' \in BOOLEAN
  BY DEF RigInv, BaseInv
<1>12. BaseInv' /\ Early /\ ~torn /\ ~failed /\ ~Taking
  BY <1>5, <1>9, <1>10, <1>11, BuildFrame DEF Stage
<1>13. PvidInv'
  BY <1>6, <1>7, OnePvid DEF RigInv
<1>14. FactsInv'
  <2>1. /\ \A g \in sw' : g \in sw \/ (g = c.f /\ c.to = "on")
        /\ \A g \in sw : g \in sw' \/ (g = c.f /\ c.to = "off") \/ Goes(c, g)
    BY <1>1, <1>6, Effect
  <2>2. Member(Def, p_out) \in sw'
    <3>1. Member(Def, p_out) \in sw
      BY DEF RigInv, FactsInv
    <3>2. Member(Def, p_out) # c.f
      BY <1>7, Commands, RigAssumption DEF Member, F
    <3>3. ~Goes(c, Member(Def, p_out))
      BY <1>7 DEF Goes
    <3> QED
      BY <2>1, <3>1, <3>2, <3>3
  <2>3. sw' \subseteq VlinkFacts
    BY <1>7, <2>1 DEF RigInv, FactsInv, FactsOf
  <2> QED
    BY <1>11, <2>2, <2>3 DEF FactsInv, FactsOf
<1>15. StormInv' /\ ArmInv'
  BY DEF StormInv, ArmInv
<1>16. CASE (ok \/ ~s.strict) /\ plan' = Tail(plan) /\ UNCHANGED <<stage, failed, torn>>
  <2>1. OrderInv' /\ Early' /\ ~Taking' /\ HomeInv'
    BY <1>12, <1>16, NextFrame
  <2>2. PlanInv'
    BY <1>4, <1>8, <1>16, <2>1 DEF PlanInv
  <2> QED
    BY <1>12, <1>13, <1>14, <1>15, <2>1, <2>2 DEF RigInv
<1>17. CASE /\ ~ok /\ s.strict /\ failed' = TRUE /\ plan' = <<>>
            /\ stage' = (IF covered THEN "down" ELSE "guard") /\ torn' = FALSE
  <2>1. ~Taking' /\ stage' \in {"down", "guard"}
    BY <1>17 DEF Taking
  <2>2. OrderInv'
    BY <1>17, <2>1 DEF RigInv, OrderInv, Arming
  <2>3. HomeInv'
    BY <1>17, <2>1 DEF HomeInv
  <2>4. PlanInv'
    BY <1>8, <2>1 DEF PlanInv
  <2> QED
    BY <1>12, <1>13, <1>14, <1>15, <2>2, <2>3, <2>4 DEF RigInv
<1> QED
  BY <1>16, <1>17

LEMMA BuildStep == RigInv /\ Build => RigInv'
<1> SUFFICES ASSUME RigInv, Build PROVE RigInv'
  OBVIOUS
<1>1. PICK s : s = Head(plan)
  OBVIOUS
<1>2. stage = "build" /\ plan # <<>> /\ UNCHANGED <<rig, covered, tries, hasty>>
  BY DEF Build
<1>3. PICK ok \in BOOLEAN :
         /\ Outcome(s.c, ok)
         /\ undo' = IF ok \/ ~s.ifok THEN undo \o s.keep ELSE undo
         /\ \/ (ok \/ ~s.strict) /\ plan' = Tail(plan) /\ UNCHANGED <<stage, failed, torn>>
            \/ ~ok /\ s.strict /\ failed' = TRUE /\ plan' = <<>>
               /\ stage' = (IF covered THEN "down" ELSE "guard")
               /\ torn' = FALSE
  BY <1>1 DEF Build
<1>4. rig \in Rig
  BY DEF RigInv, BaseInv
<1>5. CASE rig = "hairpin"
  BY <1>1, <1>2, <1>3, <1>5, HairBuild
<1>6. CASE rig = "vrf"
  BY <1>1, <1>2, <1>3, <1>6, VrfBuild
<1>7. CASE rig = "vlink"
  BY <1>1, <1>2, <1>3, <1>7, VlinkBuild
<1> QED
  BY <1>4, <1>5, <1>6, <1>7 DEF Rig

-----------------------------------------------------------------------------
(* Taking down.                                                            *)

LEMMA DownFrame ==
    ASSUME RigInv, Taking, plan # <<>>, plan' = Tail(plan), NEW CONSTANT c \in Command,
           NEW CONSTANT ok \in BOOLEAN, Outcome(c, ok),
           UNCHANGED <<rig, stage, undo, covered, torn, failed, tries, hasty>>
    PROVE  /\ BaseInv' /\ OrderInv' /\ ArmInv' /\ Taking' /\ ~Early'
           /\ Regular' /\ rig \in {"hairpin", "vrf"} => Regular /\ hit' = hit
<1>1. /\ plan \in Seq(Step) /\ hit \in Seq({"build", "down", "close"}) /\ Len(hit) <= MaxFaults
      /\ busy \in [Pair -> Nat] /\ stage = "down"
  BY DEF RigInv, BaseInv, Taking
<1>2. /\ hit' \in Seq({"build", "down", "close"}) /\ Len(hit') <= MaxFaults
      /\ busy' \in [Pair -> Nat]
      /\ hit' # hit => \E i \in DOMAIN hit' : hit'[i] = stage
      /\ \A P : Hit(P) => (\E i \in DOMAIN hit' : hit'[i] \in P)
  BY <1>1, Effect
<1>3. plan' \in Seq(Step)
  BY <1>1, Moves
<1>4. Taking' /\ ~Early' /\ Early' = Early
  BY DEF Taking, Early, Arming
<1>5. BaseInv'
  BY <1>2, <1>3 DEF RigInv, BaseInv
<1>6. OrderInv' /\ ArmInv'
  BY <1>1, <1>4 DEF RigInv, OrderInv, ArmInv, Arming
<1>7. ASSUME Regular', rig \in {"hairpin", "vrf"} PROVE Regular /\ hit' = hit
  <2>1. ~(\E i \in DOMAIN hit' : hit'[i] = "down")
    BY <1>7 DEF Regular, Hit
  <2>2. hit' = hit
    BY <1>1, <1>2, <2>1
  <2> QED
    BY <1>7, <2>2 DEF Regular, Hit
<1> QED
  BY <1>4, <1>5, <1>6, <1>7

\* What is left to take away when the rules refuse a command of the hairpin.
LEMMA HairRefused ==
    ASSUME sw \subseteq HairFacts, NEW CONSTANT i \in 1..13, ~Accepts(sw, HairDown[i]),
           \A j \in 1..(i - 1) : Post(sw, HairDown[j]), HairDown[i].f.k \in Configured
    PROVE  Post(sw, HairDown[i])
<1>1. PICK c \in Command : c = HairDown[i]
  BY HairDownSteps
<1>2. CASE c.to = "off" /\ c.f.k # "vlan"
  <2>1. Accepts(sw, c) <=> c.f \in sw
    BY <1>2 DEF Accepts
  <2> QED
    BY <1>1, <1>2, <2>1 DEF Post
<1>3. CASE c.f.k = "vlan"
  <2>1. HairPos(c.f) = i /\ HairPos(c.f) \in {8, 13}
    BY <1>1, <1>3, HairDownSteps DEF HairPos
  <2>2. CASE i = 8
    <3>1. c.to = "off" /\ c.f = Vlan("B")
      BY <1>1, <2>2, HairDownElements, Commands
    <3>2. Post(sw, HairDown[7])
      BY <2>2
    <3>3. Svi \notin sw
      BY <3>2, HairDownElements, Commands DEF Post
    <3>4. \A f \in HairFacts : f.k \in {"member", "svi"} /\ f.v = "B" => f = Svi
      BY DEF HairFacts, Home, Member, Pvid, Vlan, Svi, Looped, Fdb, Punt, F, Def
    <3>5. \A k \in {"member", "svi"} : ~InVlan(sw, k, "B")
      BY <3>3, <3>4 DEF InVlan
    <3>6. c.f.v = "B"
      BY <3>1 DEF Vlan, F
    <3>7. Accepts(sw, c) <=> c.f \in sw
      BY <3>1, <3>5, <3>6 DEF Accepts
    <3> QED
      BY <1>1, <3>1, <3>7 DEF Post
  <2>3. CASE i = 13
    <3>1. c.to = "off" /\ c.f = Vlan("A")
      BY <1>1, <2>3, HairDownElements, Commands
    <3>2. Post(sw, HairDown[9]) /\ Post(sw, HairDown[11])
      BY <2>3
    <3>3. Member("A", p_in) \notin sw /\ Member("A", p_out) \notin sw
      BY <3>2, HairDownElements, Commands DEF Post
    <3>4. \A f \in HairFacts : f.k \in {"member", "svi"} /\ f.v = "A" =>
                                  f \in {Member("A", p_in), Member("A", p_out)}
      BY DEF HairFacts, Home, Member, Pvid, Vlan, Svi, Looped, Fdb, Punt, F, Def
    <3>5. \A k \in {"member", "svi"} : ~InVlan(sw, k, "A")
      BY <3>3, <3>4 DEF InVlan
    <3>6. c.f.v = "A"
      BY <3>1 DEF Vlan, F
    <3>7. Accepts(sw, c) <=> c.f \in sw
      BY <3>1, <3>5, <3>6 DEF Accepts
    <3> QED
      BY <1>1, <3>1, <3>7 DEF Post
  <2> QED
    BY <2>1, <2>2, <2>3
<1>4. CASE c.to = "on"
  <2>1. c.f \in Home /\ c.f.k \in Configured
    BY <1>1, <1>4, HairDownSteps
  <2>2. PICK x \in Pair : c.f = Member(Def, x)
    BY <2>1 DEF Home, Pvid, F, Configured
  <2>3. c.f.k = "member" /\ c.f.v = Def /\ c.f.x = x
    BY <2>2 DEF Member, F
  <2>4. Member("A", x) \notin sw
    <3>1. HairPos(c.f) = i
      BY <1>1, HairDownSteps
    <3>2. CASE x = p_in
      <4>1. i = 12
        BY <2>3, <3>1, <3>2 DEF HairPos, Def
      <4>2. Post(sw, HairDown[11])
        BY <4>1
      <4> QED
        BY <3>2, <4>2, HairDownElements, Commands DEF Post
    <3>3. CASE x = p_out
      <4>1. i = 10
        BY <2>3, <3>1, <3>3, RigAssumption DEF HairPos, Def
      <4>2. Post(sw, HairDown[9])
        BY <4>1
      <4> QED
        BY <3>3, <4>2, HairDownElements, Commands DEF Post
    <3> QED
      BY <3>2, <3>3 DEF Pair
  <2>5. ASSUME c.f \notin sw PROVE Accepts(sw, c)
    <3>1. \A f \in HairFacts : f.k \in {"member", "ip", "bound"} /\ f.x = x =>
                                  f \in {Member("A", x), Member(Def, x)}
      BY DEF HairFacts, Home, Member, Pvid, Vlan, Svi, Looped, Fdb, Punt, F, Def, Pair
    <3>2. \A k \in {"member", "ip", "bound"} : ~Holds(sw, k, x)
      BY <2>2, <2>4, <2>5, <3>1 DEF Holds
    <3> QED
      BY <1>4, <2>3, <2>5, <3>2 DEF Accepts
  <2> QED
    BY <1>1, <1>4, <2>5 DEF Post
<1> QED
  BY <1>1, <1>2, <1>3, <1>4 DEF Command

LEMMA HairDownStep ==
    ASSUME RigInv, rig = "hairpin", Taking, plan # <<>>, plan' = Tail(plan),
           NEW CONSTANT ok \in BOOLEAN, Outcome(Head(plan).c, ok),
           UNCHANGED <<rig, stage, undo, covered, torn, failed, tries, hasty>>
    PROVE  RigInv'
<1>1. /\ plan \in Seq(Step) /\ hit \in Seq({"build", "down", "close"}) /\ Len(hit) <= MaxFaults
      /\ stage = "down" /\ Left(HairDown) /\ sw \subseteq HairFacts
  BY DEF RigInv, BaseInv, Taking, PlanInv, FactsInv, FactsOf
<1>2. Len(plan) \in 1..13 /\ Head(plan) = Just(HairDown[13 - Len(plan) + 1]) /\ Left(HairDown)'
  <2>1. PICK N \in Nat : N = 13
    OBVIOUS
  <2>2. Len(HairDown) = N
    BY <2>1, HairDownElements
  <2>3. Len(plan) \in 1..N /\ Head(plan) = Just(HairDown[N - Len(plan) + 1]) /\ Left(HairDown)'
    BY <1>1, <2>2, LeftMoves
  <2> QED
    BY <2>1, <2>3
<1>3. PICK n \in 1..13 : n = Len(plan)
  BY <1>2
<1>4. PICK i \in 1..13 : i = 14 - n
  <2>1. 14 - n \in 1..13
    OBVIOUS
  <2> QED
    BY <2>1
<1>5. PICK c \in Command : c = HairDown[i] /\ Head(plan).c = c
  <2>1. 13 - n + 1 = i
    BY <1>3, <1>4
  <2>2. Head(plan) = Just(HairDown[i])
    BY <1>2, <1>3, <2>1
  <2> QED
    BY <2>2, HairDownSteps, Justs
<1>6. Len(plan') = n - 1
  BY <1>1, <1>3, Moves
<1>7. /\ BaseInv' /\ OrderInv' /\ ArmInv' /\ Taking' /\ ~Early'
      /\ Regular' => Regular /\ hit' = hit
  BY <1>5, DownFrame
<1>8. /\ \A g \in sw' : g \in sw \/ (g = c.f /\ c.to = "on")
      /\ \A g \in sw : g \in sw' \/ (g = c.f /\ c.to = "off") \/ Goes(c, g)
      /\ c.f.k \notin Configured => ok
      /\ ok => Post(sw', c)
      /\ ~ok => sw' = sw /\ (hit' = hit => ~Accepts(sw, c))
      /\ Len(hit') \in {Len(hit), Len(hit) + 1}
  BY <1>1, <1>5, Effect
<1>9. /\ c.to = "on" => c.f \in Home /\ (c.f.k = "member" => i >= 10)
      /\ c.f.k = "pvid" => c.to = "on"
      /\ c.f.k \notin {"bound", "vrf"} /\ HairPos(c.f) = i
  BY <1>5, HairDownSteps
<1>10. PvidInv'
  BY <1>5, <1>9, OnePvid DEF RigInv
<1>11. FactsInv'
  BY <1>1, <1>8, <1>9, Facts DEF FactsInv, FactsOf
<1>12. PlanInv'
  BY <1>1, <1>2, <1>7 DEF PlanInv
<1>13. StormInv'
  <2>1. HairStorm
    BY DEF RigInv, StormInv
  <2>2. Looped(p_in) \in sw' => Looped(p_in) \in sw
    BY <1>8, <1>9, HomeFacts
  <2>3. ASSUME n - 1 <= 8 PROVE Looped(p_in) \notin sw'
    <3>1. CASE n <= 8
      BY <1>3, <2>1, <2>2, <3>1 DEF HairStorm
    <3>2. CASE n = 9
      <4>1. i = 5
        BY <1>4, <3>2
      <4>2. c = Off(Looped(p_in))
        BY <1>5, <4>1, HairDownElements
      <4>3. c.to = "off" /\ c.f = Looped(p_in) /\ c.f.k = "loop"
        BY <4>2, Commands DEF Looped, F
      <4> QED
        BY <1>8, <4>3 DEF Post, Configured
    <3> QED
      BY <2>3, <3>1, <3>2
  <2>4. PICK h \in Nat : h = Len(hit)
    BY <1>1
  <2>5. PICK h2 \in Nat : h2 = Len(hit') /\ h2 \in {h, h + 1}
    BY <1>8, <2>4
  <2>6. ASSUME Looped(p_in) \in sw', \A x \in Pair : Member(Def, x) \in sw' PROVE h2 >= 2
    <3>1. ~(n - 1 <= 8)
      BY <2>3, <2>6
    <3>2. ~(i >= 10)
      BY <1>4, <3>1
    <3>3. \A x \in Pair : Member(Def, x) \in sw
      BY <1>8, <1>9, <2>6, <3>2 DEF Member, F
    <3>4. h >= 2
      BY <2>1, <2>2, <2>4, <2>6, <3>3 DEF HairStorm
    <3> QED
      BY <2>5, <3>4
  <2>7. HairStorm'
    BY <1>6, <1>7, <2>3, <2>5, <2>6 DEF HairStorm
  <2> QED
    BY <2>7 DEF StormInv
<1>14. HomeInv'
  <2> SUFFICES ASSUME Regular' PROVE Undone(HairDown)'
    BY <1>1 DEF HomeInv
  <2>1. Regular /\ hit' = hit
    BY <1>7
  <2>2. \A j \in 1..(i - 1) : Post(sw, HairDown[j])
    <3>1. Undone(HairDown)
      BY <2>1 DEF RigInv, HomeInv
    <3>2. 13 - n = i - 1
      BY <1>4
    <3> QED
      BY <1>3, <3>1, <3>2, HairDownElements DEF Undone
  <2>3. ASSUME NEW j \in 1..(i - 1) PROVE Post(sw', HairDown[j])
    <3>1. j \in 1..13 /\ j # i
      OBVIOUS
    <3>2. PICK d \in Command : d = HairDown[j] /\ Post(sw, d)
      BY <2>2, <3>1, HairDownSteps
    <3>3. d.f # c.f /\ HairPos(d.f) = j /\ (d.to = "on" => d.f \in Home)
      BY <1>5, <3>1, <3>2, HairDownSteps
    <3>4. CASE d.to = "off"
      BY <1>8, <3>2, <3>3, <3>4 DEF Post
    <3>5. CASE d.to = "on"
      <4>1. ~Goes(c, d.f)
        <5>1. c.f.k = "pvid" /\ d.f.k = "pvid" /\ d.f.x = c.f.x => HairPos(d.f) = HairPos(c.f)
          BY DEF HairPos
        <5> QED
          BY <1>9, <3>1, <3>3, <5>1 DEF Goes
      <4> QED
        BY <1>8, <3>2, <3>3, <3>5, <4>1 DEF Post
    <3> QED
      BY <3>2, <3>4, <3>5 DEF Command
  <2>4. Post(sw', HairDown[i])
    <3>1. CASE ok
      BY <1>5, <1>8, <3>1
    <3>2. CASE ~ok
      <4>1. ~Accepts(sw, HairDown[i]) /\ HairDown[i].f.k \in Configured /\ sw' = sw
        BY <1>5, <1>8, <2>1, <3>2
      <4> QED
        BY <1>1, <2>2, <4>1, HairRefused
    <3> QED
      BY <3>1, <3>2
  <2>5. \A j \in 1..i : Post(sw', HairDown[j])
    BY <2>3, <2>4
  <2>6. 13 - (n - 1) = i
    BY <1>4
  <2> QED
    BY <1>6, <2>5, <2>6, HairDownElements DEF Undone
<1> QED
  BY <1>7, <1>10, <1>11, <1>12, <1>13, <1>14 DEF RigInv

LEMMA VrfRefused ==
    ASSUME sw \subseteq VrfFacts, NEW CONSTANT i \in 1..11, ~Accepts(sw, VrfDownAll[i]),
           \A j \in 1..(i - 1) : Post(sw, VrfDownAll[j])
    PROVE  Post(sw, VrfDownAll[i])
<1>1. PICK c \in Command : c = VrfDownAll[i]
  BY VrfDownSteps
<1>2. c.f.k # "vlan"
  BY <1>1, VrfDownSteps
<1>3. CASE c.to = "off"
  <2>1. Accepts(sw, c) <=> c.f \in sw
    BY <1>2, <1>3 DEF Accepts
  <2> QED
    BY <1>1, <1>3, <2>1 DEF Post
<1>4. CASE c.to = "on"
  <2>1. c.f \in Home /\ c.f.k = "member" /\ i \in {5, 9}
    BY <1>1, <1>4, VrfDownSteps
  <2>2. PICK x \in Pair : c.f = Member(Def, x)
    BY <2>1 DEF Home, Pvid, F
  <2>3. c.f.v = Def /\ c.f.x = x
    BY <2>2 DEF Member, F
  <2>4. \A k \in {"ip", "bound"} : ~Holds(sw, k, x)
    <3>1. CASE i = 5
      <4>1. x = p_out
        BY <1>1, <2>2, <3>1, VrfDownElements, Commands DEF Member, F
      <4>2. Post(sw, VrfDownAll[3]) /\ Post(sw, VrfDownAll[4])
        BY <3>1
      <4>3. Ip(p_out) \notin sw /\ Bound("S", p_out) \notin sw
        BY <4>2, VrfDownElements, Commands DEF Post
      <4>4. \A f \in VrfFacts : f.k \in {"ip", "bound"} /\ f.x = p_out => f \in {Ip(p_out), Bound("S", p_out)}
        BY RigAssumption DEF VrfFacts, Home, Member, Pvid, Vrf, Bound, Ip, Looped, Neigh, F
      <4> QED
        BY <4>1, <4>3, <4>4 DEF Holds
    <3>2. CASE i = 9
      <4>1. x = p_in
        BY <1>1, <2>2, <3>2, VrfDownElements, Commands DEF Member, F
      <4>2. Post(sw, VrfDownAll[7]) /\ Post(sw, VrfDownAll[8])
        BY <3>2
      <4>3. Ip(p_in) \notin sw /\ Bound("R", p_in) \notin sw
        BY <4>2, VrfDownElements, Commands DEF Post
      <4>4. \A f \in VrfFacts : f.k \in {"ip", "bound"} /\ f.x = p_in => f \in {Ip(p_in), Bound("R", p_in)}
        BY RigAssumption DEF VrfFacts, Home, Member, Pvid, Vrf, Bound, Ip, Looped, Neigh, F
      <4> QED
        BY <4>1, <4>3, <4>4 DEF Holds
    <3> QED
      BY <2>1, <3>1, <3>2
  <2>5. ASSUME c.f \notin sw PROVE Accepts(sw, c)
    <3>1. \A f \in VrfFacts : f.k = "member" /\ f.x = x => f = Member(Def, x)
      BY DEF VrfFacts, Home, Member, Pvid, Vrf, Bound, Ip, Looped, Neigh, F
    <3>2. ~Holds(sw, "member", x)
      BY <2>2, <2>5, <3>1 DEF Holds
    <3>3. \A k \in {"member", "ip", "bound"} : ~Holds(sw, k, x)
      BY <2>4, <3>2
    <3> QED
      BY <1>4, <2>1, <2>3, <2>5, <3>3 DEF Accepts
  <2> QED
    BY <1>1, <1>4, <2>5 DEF Post
<1> QED
  BY <1>1, <1>3, <1>4 DEF Command

LEMMA VrfDownStep ==
    ASSUME RigInv, rig = "vrf", Taking, plan # <<>>, plan' = Tail(plan),
           NEW CONSTANT ok \in BOOLEAN, Outcome(Head(plan).c, ok),
           UNCHANGED <<rig, stage, undo, covered, torn, failed, tries, hasty>>
    PROVE  RigInv'
<1>1. /\ plan \in Seq(Step) /\ hit \in Seq({"build", "down", "close"}) /\ Len(hit) <= MaxFaults
      /\ stage = "down" /\ Left(VrfDownAll) /\ sw \subseteq VrfFacts
  BY DEF RigInv, BaseInv, Taking, PlanInv, FactsInv, FactsOf
<1>2. Len(plan) \in 1..11 /\ Head(plan) = Just(VrfDownAll[11 - Len(plan) + 1]) /\ Left(VrfDownAll)'
  <2>1. PICK N \in Nat : N = 11
    OBVIOUS
  <2>2. Len(VrfDownAll) = N
    BY <2>1, VrfDownElements
  <2>3. Len(plan) \in 1..N /\ Head(plan) = Just(VrfDownAll[N - Len(plan) + 1]) /\ Left(VrfDownAll)'
    BY <1>1, <2>2, LeftMoves
  <2> QED
    BY <2>1, <2>3
<1>3. PICK n \in 1..11 : n = Len(plan)
  BY <1>2
<1>4. PICK i \in 1..11 : i = 12 - n
  <2>1. 12 - n \in 1..11
    OBVIOUS
  <2> QED
    BY <2>1
<1>5. PICK c \in Command : c = VrfDownAll[i] /\ Head(plan).c = c
  <2>1. 11 - n + 1 = i
    BY <1>3, <1>4
  <2>2. Head(plan) = Just(VrfDownAll[i])
    BY <1>2, <1>3, <2>1
  <2> QED
    BY <2>2, VrfDownSteps, Justs
<1>6. Len(plan') = n - 1
  BY <1>1, <1>3, Moves
<1>7. /\ BaseInv' /\ OrderInv' /\ ArmInv' /\ Taking' /\ ~Early'
      /\ Regular' => Regular /\ hit' = hit
  BY <1>5, DownFrame
<1>8. /\ \A g \in sw' : g \in sw \/ (g = c.f /\ c.to = "on")
      /\ \A g \in sw : g \in sw' \/ (g = c.f /\ c.to = "off") \/ Goes(c, g)
      /\ c.f.k \notin Configured => ok
      /\ ok => Post(sw', c)
      /\ ~ok => sw' = sw /\ (hit' = hit => ~Accepts(sw, c))
  BY <1>1, <1>5, Effect
<1>9. /\ c.to = "on" => c.f \in Home /\ c.f.k = "member" /\ i \in {5, 9}
      /\ c.f.k # "pvid"
  BY <1>5, VrfDownSteps
<1>10. PvidInv'
  BY <1>5, <1>9, OnePvid DEF RigInv
<1>11. FactsInv'
  BY <1>1, <1>8, <1>9, Facts DEF FactsInv, FactsOf
<1>12. PlanInv'
  BY <1>1, <1>2, <1>7 DEF PlanInv
<1>13. StormInv'
  <2>1. VrfStorm
    BY DEF RigInv, StormInv
  <2>2. \A x : Looped(x) \in sw' => Looped(x) \in sw
    BY <1>8, <1>9, HomeFacts
  <2>3. ASSUME n - 1 <= 9 PROVE Looped(p_out) \notin sw'
    <3>1. CASE n <= 9
      BY <1>3, <2>1, <2>2, <3>1 DEF VrfStorm
    <3>2. CASE n = 10
      <4>1. i = 2
        BY <1>4, <3>2
      <4>2. c = Off(Looped(p_out))
        BY <1>5, <4>1, VrfDownElements
      <4>3. c.to = "off" /\ c.f = Looped(p_out) /\ c.f.k = "loop"
        BY <4>2, Commands DEF Looped, F
      <4> QED
        BY <1>8, <4>3 DEF Post, Configured
    <3> QED
      BY <2>3, <3>1, <3>2
  <2>4. ASSUME n - 1 <= 5 PROVE Looped(p_in) \notin sw'
    <3>1. CASE n <= 5
      BY <1>3, <2>1, <2>2, <3>1 DEF VrfStorm
    <3>2. CASE n = 6
      <4>1. i = 6
        BY <1>4, <3>2
      <4>2. c = Off(Looped(p_in))
        BY <1>5, <4>1, VrfDownElements
      <4>3. c.to = "off" /\ c.f = Looped(p_in) /\ c.f.k = "loop"
        BY <4>2, Commands DEF Looped, F
      <4> QED
        BY <1>8, <4>3 DEF Post, Configured
    <3> QED
      BY <2>4, <3>1, <3>2
  <2>5. ASSUME NEW x \in Pair, Looped(x) \in sw' PROVE Member(Def, x) \notin sw'
    <3>1. Member(Def, x) \notin sw
      BY <2>1, <2>2, <2>5 DEF VrfStorm
    <3>2. ASSUME c.f = Member(Def, x), c.to = "on" PROVE FALSE
      <4>1. CASE i = 5
        <5>1. x = p_out
          BY <1>5, <3>2, <4>1, VrfDownElements, Commands DEF Member, F
        <5>2. n - 1 <= 9
          BY <1>4, <4>1
        <5> QED
          BY <2>3, <2>5, <5>1, <5>2
      <4>2. CASE i = 9
        <5>1. x = p_in
          BY <1>5, <3>2, <4>2, VrfDownElements, Commands DEF Member, F
        <5>2. n - 1 <= 5
          BY <1>4, <4>2
        <5> QED
          BY <2>4, <2>5, <5>1, <5>2
      <4> QED
        BY <1>9, <3>2, <4>1, <4>2
    <3> QED
      BY <1>8, <3>1, <3>2
  <2>6. VrfStorm'
    BY <1>1, <1>6, <1>7, <2>3, <2>4, <2>5 DEF VrfStorm
  <2> QED
    BY <2>6 DEF StormInv
<1>14. HomeInv'
  <2> SUFFICES ASSUME Regular' PROVE Undone(VrfDownAll)'
    BY <1>1 DEF HomeInv
  <2>1. Regular /\ hit' = hit
    BY <1>7
  <2>2. \A j \in 1..(i - 1) : Post(sw, VrfDownAll[j])
    <3>1. Undone(VrfDownAll)
      BY <2>1 DEF RigInv, HomeInv
    <3>2. 11 - n = i - 1
      BY <1>4
    <3> QED
      BY <1>3, <3>1, <3>2, VrfDownElements DEF Undone
  <2>3. ASSUME NEW j \in 1..(i - 1) PROVE Post(sw', VrfDownAll[j])
    <3>1. j \in 1..11 /\ j # i
      OBVIOUS
    <3>2. PICK d \in Command : d = VrfDownAll[j] /\ Post(sw, d)
      BY <2>2, <3>1, VrfDownSteps
    <3>3. d.f # c.f /\ (d.to = "on" => d.f.k = "member")
      <4>1. VrfDownAll[j].f # VrfDownAll[i].f
        BY <3>1, VrfDownSteps
      <4>2. VrfDownAll[j].to = "on" => VrfDownAll[j].f.k = "member"
        BY <3>1, VrfDownSteps
      <4> QED
        BY <1>5, <3>2, <4>1, <4>2
    <3>4. CASE d.to = "off"
      BY <1>8, <3>2, <3>3, <3>4 DEF Post
    <3>5. CASE d.to = "on"
      <4>1. ~Goes(c, d.f)
        BY <3>3, <3>5 DEF Goes
      <4> QED
        BY <1>8, <3>2, <3>3, <3>5, <4>1 DEF Post
    <3> QED
      BY <3>2, <3>4, <3>5 DEF Command
  <2>4. Post(sw', VrfDownAll[i])
    <3>1. CASE ok
      BY <1>5, <1>8, <3>1
    <3>2. CASE ~ok
      <4>1. ~Accepts(sw, VrfDownAll[i]) /\ sw' = sw
        BY <1>5, <1>8, <2>1, <3>2
      <4> QED
        BY <1>1, <2>2, <4>1, VrfRefused
    <3> QED
      BY <3>1, <3>2
  <2>5. \A j \in 1..i : Post(sw', VrfDownAll[j])
    BY <2>3, <2>4
  <2>6. 11 - (n - 1) = i
    BY <1>4
  <2> QED
    BY <1>6, <2>5, <2>6, VrfDownElements DEF Undone
<1> QED
  BY <1>7, <1>10, <1>11, <1>12, <1>13, <1>14 DEF RigInv

LEMMA VlinkDownStep ==
    ASSUME RigInv, rig = "vlink", Taking, plan # <<>>, plan' = Tail(plan),
           NEW CONSTANT ok \in BOOLEAN, Outcome(Head(plan).c, ok),
           UNCHANGED <<rig, stage, undo, covered, torn, failed, tries, hasty>>
    PROVE  RigInv'
<1> DEFINE All == {Off(Neigh(p_in)), Off(Looped(p_in))} \cup VlinkUndo
<1>1. /\ plan \in Seq(Step) /\ hit \in Seq({"build", "down", "close"}) /\ Len(hit) <= MaxFaults
      /\ stage = "down" /\ sw \subseteq VlinkFacts /\ Member(Def, p_out) \in sw
  BY DEF RigInv, BaseInv, Taking, FactsInv, FactsOf
<1>2. /\ \A i \in 1..Len(plan) : \E c \in All : plan[i] = Just(c)
      /\ Neigh(p_in) \in sw => plan[1] = Just(Off(Neigh(p_in)))
  BY DEF RigInv, PlanInv
<1>3. All \subseteq Command
  <2>1. {Ip(p_in), Member(Def, p_in), Looped(p_in), Neigh(p_in)} \subseteq Fact
    BY DEF Ip, Member, Looped, Neigh, F, Fact, Pair, Def, None
  <2> QED
    BY <2>1, Commands DEF VlinkUndo
<1>4. /\ plan' \in Seq(Step) /\ Len(plan) \in Nat \ {0} /\ Len(plan') = Len(plan) - 1
      /\ Head(plan) = plan[1] /\ \A i \in 1..(Len(plan) - 1) : plan'[i] = plan[i + 1]
  BY <1>1, Moves
<1>5. PICK c \in All : plan[1] = Just(c)
  BY <1>2, <1>4
<1>6. c \in Command /\ Head(plan).c = c
  BY <1>3, <1>4, <1>5, Justs
<1>7. /\ BaseInv' /\ OrderInv' /\ ArmInv' /\ Taking' /\ ~Early'
  BY <1>6, DownFrame
<1>8. /\ \A g \in sw' : g \in sw \/ (g = c.f /\ c.to = "on")
      /\ \A g \in sw : g \in sw' \/ (g = c.f /\ c.to = "off") \/ Goes(c, g)
      /\ c.f.k \notin Configured => ok
      /\ ok => Post(sw', c)
  BY <1>1, <1>6, Effect
<1>9. /\ c.f \in {Neigh(p_in), Looped(p_in), Ip(p_in), Member(Def, p_in)}
      /\ c.to = "on" => c.f = Member(Def, p_in)
  BY Commands DEF VlinkUndo
<1>10. c.f.k \in {"neigh", "loop", "ip", "member"} /\ c.f.x = p_in
  BY <1>9 DEF Neigh, Looped, Ip, Member, F
<1>11. PvidInv'
  BY <1>6, <1>10, OnePvid DEF RigInv
<1>12. FactsInv'
  <2>1. Member(Def, p_in) \in VlinkFacts
    BY Facts, HomeFacts DEF Pair
  <2>2. Member(Def, p_out) # c.f /\ ~Goes(c, Member(Def, p_out))
    BY <1>10, RigAssumption DEF Goes, Member, F
  <2> QED
    BY <1>1, <1>8, <1>9, <2>1, <2>2 DEF FactsInv, FactsOf
<1>13. PlanInv'
  <2>1. \A i \in 1..Len(plan') : \E d \in All : plan'[i] = Just(d)
    <3>1. PICK n \in Nat \ {0} : n = Len(plan)
      BY <1>4
    <3>2. \A i \in 1..(n - 1) : i + 1 \in 1..n
      BY <3>1
    <3> QED
      BY <1>2, <1>4, <3>1, <3>2
  <2>2. Neigh(p_in) \notin sw'
    <3>1. CASE Neigh(p_in) \in sw
      <4>1. Just(c) = Just(Off(Neigh(p_in)))
        BY <1>2, <1>5, <3>1
      <4>2. c = Off(Neigh(p_in))
        BY <4>1, Justs
      <4>3. c.to = "off" /\ c.f = Neigh(p_in) /\ c.f.k = "neigh"
        BY <4>2, Commands DEF Neigh, F
      <4> QED
        BY <1>8, <4>3 DEF Post, Configured
    <3>2. CASE Neigh(p_in) \notin sw
      BY <1>8, <1>9, <3>2 DEF Neigh, Member, F
    <3> QED
      BY <3>1, <3>2
  <2> QED
    BY <1>1, <1>7, <2>1, <2>2 DEF PlanInv
<1>14. StormInv' /\ HomeInv'
  BY <1>1 DEF StormInv, HomeInv
<1> QED
  BY <1>7, <1>11, <1>12, <1>13, <1>14 DEF RigInv

LEMMA DownStep == RigInv /\ Down => RigInv'
<1> SUFFICES ASSUME RigInv, Down PROVE RigInv'
  OBVIOUS
<1>1. /\ Taking /\ plan # <<>> /\ plan' = Tail(plan)
      /\ UNCHANGED <<rig, stage, undo, covered, torn, failed, tries, hasty>>
  BY DEF Down, Taking
<1>2. PICK ok \in BOOLEAN : Outcome(Head(plan).c, ok)
  BY DEF Down
<1>3. rig \in Rig
  BY DEF RigInv, BaseInv
<1>4. CASE rig = "hairpin"
  BY <1>1, <1>2, <1>4, HairDownStep
<1>5. CASE rig = "vrf"
  BY <1>1, <1>2, <1>5, VrfDownStep
<1>6. CASE rig = "vlink"
  BY <1>1, <1>2, <1>6, VlinkDownStep
<1> QED
  BY <1>3, <1>4, <1>5, <1>6 DEF Rig

-----------------------------------------------------------------------------
(* The end of a test and of the session.                                   *)

\* A teardown in which nothing was refused ends where the test began.
LEMMA HairHome ==
    ASSUME sw \subseteq HairFacts, PvidInv, \A i \in 1..13 : Post(sw, HairDown[i])
    PROVE  sw = Home
<1>1. /\ Post(sw, HairDown[1]) /\ Post(sw, HairDown[2]) /\ Post(sw, HairDown[3])
      /\ Post(sw, HairDown[4]) /\ Post(sw, HairDown[5]) /\ Post(sw, HairDown[6])
      /\ Post(sw, HairDown[7]) /\ Post(sw, HairDown[8]) /\ Post(sw, HairDown[9])
      /\ Post(sw, HairDown[10]) /\ Post(sw, HairDown[11]) /\ Post(sw, HairDown[12])
      /\ Post(sw, HairDown[13])
  OBVIOUS
<1>2. /\ Punt \notin sw /\ Fdb \notin sw /\ Looped(p_in) \notin sw /\ Looped(p_out) \notin sw
      /\ Svi \notin sw /\ Vlan("B") \notin sw /\ Vlan("A") \notin sw
      /\ Member("A", p_out) \notin sw /\ Member("A", p_in) \notin sw
  BY <1>1, HairDownElements, Commands DEF Post
<1>3. /\ Pvid(Def, p_in) \in sw /\ Pvid(Def, p_out) \in sw
      /\ Member(Def, p_in) \in sw /\ Member(Def, p_out) \in sw
  BY <1>1, HairDownElements, Commands DEF Post
<1>4. Home \subseteq sw
  BY <1>3 DEF Home, Pair
<1>5. Pvid("A", p_in) \notin sw /\ Pvid("B", p_out) \notin sw
  <2>1. \A x \in Pair : \A v, w : Pvid(v, x) \in sw /\ Pvid(w, x) \in sw => v = w
    BY DEF PvidInv, Pvids, Pvid, F
  <2> QED
    BY <1>3, <2>1 DEF Pair, Def
<1> QED
  BY <1>2, <1>4, <1>5 DEF HairFacts

LEMMA VrfHome ==
    ASSUME sw \subseteq VrfFacts, PvidInv, \A i \in 1..11 : Post(sw, VrfDownAll[i])
    PROVE  sw = Home
<1>1. /\ Post(sw, VrfDownAll[1]) /\ Post(sw, VrfDownAll[2]) /\ Post(sw, VrfDownAll[3])
      /\ Post(sw, VrfDownAll[4]) /\ Post(sw, VrfDownAll[5]) /\ Post(sw, VrfDownAll[6])
      /\ Post(sw, VrfDownAll[7]) /\ Post(sw, VrfDownAll[8]) /\ Post(sw, VrfDownAll[9])
      /\ Post(sw, VrfDownAll[10]) /\ Post(sw, VrfDownAll[11])
  OBVIOUS
<1>2. /\ Neigh(p_out) \notin sw /\ Looped(p_out) \notin sw /\ Looped(p_in) \notin sw
      /\ Ip(p_out) \notin sw /\ Ip(p_in) \notin sw /\ Bound("S", p_out) \notin sw
      /\ Bound("R", p_in) \notin sw /\ Vrf("S") \notin sw /\ Vrf("R") \notin sw
  BY <1>1, VrfDownElements, Commands DEF Post
<1>3. Member(Def, p_in) \in sw /\ Member(Def, p_out) \in sw
  BY <1>1, VrfDownElements, Commands DEF Post
<1>4. sw \subseteq Home
  BY <1>2 DEF VrfFacts
<1>5. ASSUME NEW x \in Pair PROVE Pvid(Def, x) \in sw
  <2>1. PICK v : Pvids(sw, x) = {Pvid(v, x)}
    BY DEF PvidInv
  <2>2. Pvid(v, x) \in Home /\ Pvid(v, x) \in sw
    BY <1>4, <2>1 DEF Pvids
  <2>3. v = Def
    BY <2>2, HomeFacts DEF Pvid, F
  <2> QED
    BY <2>2, <2>3
<1> QED
  BY <1>3, <1>4, <1>5 DEF Home, Pair

\* reset_port_to_l2 leaves the other port alone.
Resets(s, x, r) ==
    /\ \A g \in r : g \in s \/ g = Pvid(Def, x) \/ g = Member(Def, x)
    /\ \A g \in s : g \in r \/ g.x = x
    /\ \A y \in Pair : y # x => Pvids(r, y) = Pvids(s, y)
    /\ Pvids(r, x) = {Pvid(Def, x)}
    /\ Looped(x) \notin r /\ Ip(x) \notin r /\ Bound("R", x) \notin r /\ Bound("S", x) \notin r
    /\ \A v : Member(v, x) \in s => Member(v, x) \in r

LEMMA ResetFacts ==
    ASSUME NEW s, NEW x \in Pair, NEW ok \in BOOLEAN, NEW r, r = Reset(s, x, ok)
    PROVE  /\ Resets(s, x, r)
           /\ ok /\ ~Holds(s, "member", x)
              /\ (\A k \in {"ip", "bound"} : \A f \in s : f.k = k /\ f.x = x =>
                     f \in {Ip(x), Bound("R", x), Bound("S", x)}) => Member(Def, x) \in r
<1>1. PICK a : a = After(s, On(Pvid(Def, x)))
  OBVIOUS
<1>2. PICK b : b = a \ ({Looped(x), Ip(x)} \cup {Bound(w, x) : w \in {"R", "S"}})
  OBVIOUS
<1>3. PICK c : c = On(Member(Def, x))
  OBVIOUS
<1>4. r = IF ok /\ Accepts(b, c) THEN After(b, c) ELSE b
  BY <1>1, <1>2, <1>3 DEF Reset
<1>5. PICK d : d = On(Pvid(Def, x))
  OBVIOUS
<1>6. /\ c \in Command /\ c.f = Member(Def, x) /\ c.to = "on" /\ c.f.k = "member" /\ c.f.x = x /\ c.f.v = Def
      /\ d \in Command /\ d.f = Pvid(Def, x) /\ d.to = "on" /\ d.f.k = "pvid" /\ d.f.x = x
  <2>1. /\ Pvid(Def, x) \in Fact /\ Pvid(Def, x).k = "pvid" /\ Pvid(Def, x).x = x
        /\ Member(Def, x) \in Fact /\ Member(Def, x).k = "member" /\ Member(Def, x).x = x
        /\ Member(Def, x).v = Def
    BY DEF Pvid, Member, F, Fact
  <2> QED
    BY <1>3, <1>5, <2>1, Commands
<1>7. /\ \A g \in a : g \in s \/ g = Pvid(Def, x)
      /\ \A g \in s : g \in a \/ (g.k = "pvid" /\ g.x = x)
      /\ \A y \in Pair : y # x => Pvids(a, y) = Pvids(s, y)
      /\ Pvids(a, x) = {Pvid(Def, x)}
  <2>1. /\ \A g \in a : g \in s \/ g = d.f
        /\ \A g \in s : g \in a \/ Goes(d, g)
    BY <1>1, <1>5, <1>6, AfterFacts
  <2>2. \A g : Goes(d, g) => g.k = "pvid" /\ g.x = x
    BY <1>6 DEF Goes
  <2>3. /\ \A y : y # x => Pvids(a, y) = Pvids(s, y)
        /\ Pvids(a, x) = {Pvid(Def, x)}
    BY <1>1, <1>5, <1>6, AfterPvids
  <2> QED
    BY <1>6, <2>1, <2>2, <2>3
<1>8. /\ b \subseteq a /\ \A g \in a : g \in b \/ (g.x = x /\ g.k \in {"loop", "ip", "bound"})
      /\ Looped(x) \notin b /\ Ip(x) \notin b /\ Bound("R", x) \notin b /\ Bound("S", x) \notin b
  BY <1>2 DEF Looped, Ip, Bound, F
<1>9. \A y \in Pair : Pvids(b, y) = Pvids(a, y)
  BY <1>8 DEF Pvids
<1>10. /\ \A g \in r : g \in b \/ g = Member(Def, x)
       /\ b \subseteq r
       /\ \A y : Pvids(r, y) = Pvids(b, y)
  <2>1. CASE r = b
    BY <2>1
  <2>2. CASE r = After(b, c)
    <3>1. \A g : ~Goes(c, g)
      BY <1>6 DEF Goes
    <3>2. /\ \A g \in r : g \in b \/ g = Member(Def, x)
          /\ b \subseteq r
      BY <1>6, <2>2, <3>1, AfterFacts
    <3>3. \A y : Pvids(r, y) = Pvids(b, y)
      BY <1>6, <2>2, AfterPvids
    <3> QED
      BY <3>2, <3>3
  <2> QED
    BY <1>4, <2>1, <2>2
<1>11. \A v : Member(v, x) \in s => Member(v, x) \in r
  <2>1. \A v : Member(v, x).k = "member"
    BY DEF Member, F
  <2> QED
    BY <1>7, <1>8, <1>10, <2>1
<1>12. Looped(x) \notin r /\ Ip(x) \notin r /\ Bound("R", x) \notin r /\ Bound("S", x) \notin r
  BY <1>8, <1>10 DEF Looped, Ip, Bound, Member, F
<1>13. ASSUME ok, ~Holds(s, "member", x),
              \A k \in {"ip", "bound"} : \A f \in s : f.k = k /\ f.x = x =>
                  f \in {Ip(x), Bound("R", x), Bound("S", x)}
       PROVE  Member(Def, x) \in r
  <2>1. \A f \in b : f \in s \/ f.k = "pvid"
    BY <1>6, <1>7, <1>8
  <2>2. ~Holds(b, "member", x)
    BY <1>13, <2>1 DEF Holds
  <2>3. \A k \in {"ip", "bound"} : ~Holds(b, k, x)
    BY <1>8, <1>13, <2>1 DEF Holds
  <2>4. c.f \notin b
    BY <1>6, <2>2 DEF Holds
  <2>5. \A k \in {"member", "ip", "bound"} : ~Holds(b, k, x)
    BY <2>2, <2>3
  <2>6. Accepts(b, c)
    BY <1>6, <2>4, <2>5 DEF Accepts
  <2>7. r = After(b, c)
    BY <1>4, <1>13, <2>6
  <2> QED
    BY <1>6, <2>7, AfterFacts DEF Post
<1> QED
  BY <1>7, <1>8, <1>9, <1>10, <1>11, <1>12, <1>13 DEF Resets

\* The ports know no VLAN but the default one.
Plain(s) ==
    \A f \in s : /\ f.k = "member" => f = Member(Def, f.x)
                 /\ f.k \in {"ip", "bound"} => f \in {Ip(f.x), Bound("R", f.x), Bound("S", f.x)}
                 /\ f.k = "loop" => f = Looped(f.x)

LEMMA PlainFacts == Plain(VlinkFacts) /\ Plain(VrfFacts) /\ Plain(Home)
<1>1. Plain(Home)
  BY DEF Plain, Home, Member, Pvid, F
<1>2. Plain(VlinkFacts)
  BY <1>1 DEF Plain, VlinkFacts, Member, Ip, Bound, Looped, Neigh, F
<1>3. Plain(VrfFacts)
  BY <1>1 DEF Plain, VrfFacts, Member, Ip, Bound, Looped, Neigh, Vrf, F
<1> QED
  BY <1>1, <1>2, <1>3

Returns(s, x, r) ==
    /\ Plain(r) /\ Member(Def, x) \in r /\ Pvid(Def, x) \in r
    /\ \A k \in {"loop", "ip", "bound"} : ~Holds(r, k, x)
    /\ \A y \in Pair, k \in {"loop", "ip", "bound"} : Holds(r, k, y) => Holds(s, k, y)
    /\ \A y \in Pair : y # x /\ Member(Def, y) \in s => Member(Def, y) \in r
    /\ \A y \in Pair : y # x /\ Pvid(Def, y) \in s => Pvid(Def, y) \in r

LEMMA ResetPlain ==
    ASSUME NEW s, Plain(s), NEW x \in Pair, NEW ok \in BOOLEAN, ok, NEW r, r = Reset(s, x, ok)
    PROVE  Returns(s, x, r)
<1>1. /\ \A g \in r : g \in s \/ g = Pvid(Def, x) \/ g = Member(Def, x)
      /\ \A g \in s : g \in r \/ g.x = x
      /\ Pvids(r, x) = {Pvid(Def, x)}
      /\ Looped(x) \notin r /\ Ip(x) \notin r /\ Bound("R", x) \notin r /\ Bound("S", x) \notin r
      /\ \A v : Member(v, x) \in s => Member(v, x) \in r
  <2>1. Resets(s, x, r)
    BY ResetFacts, Zenon
  <2> QED
    BY <2>1 DEF Resets
<1>2. /\ Pvid(Def, x).k = "pvid" /\ Member(Def, x).k = "member" /\ Member(Def, x).x = x
      /\ \A y : Member(Def, y).x = y /\ Pvid(Def, y).x = y
  BY DEF Pvid, Member, F
<1>3. Plain(r)
  <2>1. ASSUME NEW f \in r
        PROVE  /\ f.k = "member" => f = Member(Def, f.x)
               /\ f.k \in {"ip", "bound"} => f \in {Ip(f.x), Bound("R", f.x), Bound("S", f.x)}
               /\ f.k = "loop" => f = Looped(f.x)
    BY <1>1, <1>2 DEF Plain
  <2> QED
    BY <2>1 DEF Plain
<1>4. Pvid(Def, x) \in r
  BY <1>1 DEF Pvids
<1>5. Member(Def, x) \in r
  <2>1. CASE Holds(s, "member", x)
    <3>1. PICK f \in s : f.k = "member" /\ f.x = x
      BY <2>1 DEF Holds
    <3>2. f = Member(Def, x)
      BY <3>1 DEF Plain
    <3> QED
      BY <1>1, <3>2
  <2>2. CASE ~Holds(s, "member", x)
    <3>1. \A k \in {"ip", "bound"} : \A f \in s : f.k = k /\ f.x = x =>
             f \in {Ip(x), Bound("R", x), Bound("S", x)}
      BY DEF Plain
    <3> QED
      BY <2>2, <3>1, ResetFacts
  <2> QED
    BY <2>1, <2>2
<1>6. ASSUME NEW k \in {"loop", "ip", "bound"} PROVE ~Holds(r, k, x)
  <2> SUFFICES ASSUME NEW f \in r, f.k = k, f.x = x PROVE FALSE
    BY DEF Holds
  <2>1. f \in {Looped(x), Ip(x), Bound("R", x), Bound("S", x)}
    BY <1>3 DEF Plain
  <2> QED
    BY <1>1, <2>1
<1>7. ASSUME NEW y \in Pair, NEW k \in {"loop", "ip", "bound"}, Holds(r, k, y) PROVE Holds(s, k, y)
  <2>1. PICK f \in r : f.k = k /\ f.x = y
    BY <1>7 DEF Holds
  <2>2. f \in s
    BY <1>1, <1>2, <2>1
  <2> QED
    BY <2>1, <2>2 DEF Holds
<1> QED
  BY <1>1, <1>2, <1>3, <1>4, <1>5, <1>6, <1>7 DEF Returns

\* The teardown is over; the virtual link also resets its port.
LEMMA DownDoneStep == RigInv /\ DownDone => RigInv'
<1> SUFFICES ASSUME RigInv, DownDone PROVE RigInv'
  OBVIOUS
<1>1. /\ stage = "down" /\ torn /\ plan = <<>> /\ stage' = "guard"
      /\ UNCHANGED <<rig, plan, undo, covered, torn, failed, tries, hasty>>
  BY DEF DownDone
<1>2. Taking /\ ~Early' /\ ~Taking' /\ Len(plan) = 0
  BY <1>1 DEF Taking, Early, Arming
<1>3. OrderInv' /\ ArmInv' /\ PlanInv'
  BY <1>1, <1>2 DEF RigInv, OrderInv, ArmInv, PlanInv, Arming
<1>4. CASE rig # "vlink"
  <2>1. UNCHANGED <<sw, busy, hit>>
    BY <1>4 DEF DownDone
  <2>2. BaseInv'
    BY <1>1, <2>1 DEF RigInv, BaseInv, Stage
  <2>3. PvidInv' /\ FactsInv'
    BY <1>1, <2>1 DEF RigInv, PvidInv, FactsInv
  <2>4. StormInv'
    BY <1>1, <1>2, <2>1, Steady DEF RigInv
  <2>5. HomeInv'
    <3>1. Regular' = Regular
      BY <1>1, <2>1 DEF Regular, Hit
    <3>2. ASSUME rig = "hairpin", Regular PROVE sw = Home
      <4>1. Undone(HairDown) /\ sw \subseteq HairFacts /\ PvidInv
        BY <1>2, <3>2 DEF RigInv, HomeInv, FactsInv, FactsOf
      <4>2. Len(HairDown) - Len(plan) = 13
        BY <1>2, HairDownElements
      <4>3. \A i \in 1..13 : Post(sw, HairDown[i])
        BY <4>1, <4>2 DEF Undone
      <4> QED
        BY <4>1, <4>3, HairHome
    <3>3. ASSUME rig = "vrf", Regular PROVE sw = Home
      <4>1. Undone(VrfDownAll) /\ sw \subseteq VrfFacts /\ PvidInv
        BY <1>2, <3>3 DEF RigInv, HomeInv, FactsInv, FactsOf
      <4>2. Len(VrfDownAll) - Len(plan) = 11
        BY <1>2, VrfDownElements
      <4>3. \A i \in 1..11 : Post(sw, VrfDownAll[i])
        BY <4>1, <4>2 DEF Undone
      <4> QED
        BY <4>1, <4>3, VrfHome
    <3>4. rig \in {"hairpin", "vrf"}
      BY <1>4 DEF RigInv, BaseInv, Rig
    <3> QED
      BY <1>1, <1>2, <2>1, <3>1, <3>2, <3>3, <3>4 DEF HomeInv
  <2> QED
    BY <1>3, <2>2, <2>3, <2>4, <2>5 DEF RigInv
<1>5. CASE rig = "vlink"
  <2>1. PICK ok \in BOOLEAN :
          /\ sw' = Reset(sw, p_in, ok)
          /\ \/ ok = TRUE /\ busy' = [busy EXCEPT ![p_in] = @ + 1] /\ UNCHANGED hit
             \/ /\ ok = FALSE /\ Len(hit) < MaxFaults /\ hit' = Append(hit, "close") /\ UNCHANGED busy
    BY <1>5 DEF DownDone
  <2>2. p_in \in Pair /\ p_out \in Pair /\ p_in # p_out
    BY RigAssumption DEF Pair
  <2>3. /\ \A g \in sw' : g \in sw \/ g = Pvid(Def, p_in) \/ g = Member(Def, p_in)
        /\ \A g \in sw : g \in sw' \/ g.x = p_in
        /\ \A y \in Pair : y # p_in => Pvids(sw', y) = Pvids(sw, y)
        /\ Pvids(sw', p_in) = {Pvid(Def, p_in)}
        /\ Looped(p_in) \notin sw' /\ Ip(p_in) \notin sw'
    <3>1. Resets(sw, p_in, sw')
      BY <2>1, <2>2, ResetFacts, Zenon
    <3> QED
      BY <3>1 DEF Resets
  <2>4. BaseInv'
    <3>1. hit \in Seq({"build", "down", "close"}) /\ Len(hit) <= MaxFaults /\ busy \in [Pair -> Nat]
      BY DEF RigInv, BaseInv
    <3>2. hit' \in Seq({"build", "down", "close"}) /\ Len(hit') <= MaxFaults
      BY <2>1, <3>1, HitGrows
    <3>3. busy' \in [Pair -> Nat]
      BY <2>1, <2>2, <3>1
    <3> QED
      BY <1>1, <3>2, <3>3 DEF RigInv, BaseInv, Stage
  <2>5. PvidInv'
    BY <2>3 DEF RigInv, PvidInv
  <2>6. FactsInv'
    <3>1. Member(Def, p_out) \in sw /\ sw \subseteq VlinkFacts
      BY <1>5 DEF RigInv, FactsInv, FactsOf
    <3>2. Member(Def, p_out).x # p_in
      BY <2>2 DEF Member, F
    <3>3. Home \subseteq VlinkFacts /\ Pvid(Def, p_in) \in Home /\ Member(Def, p_in) \in Home
      BY <2>2, Facts, HomeFacts
    <3> QED
      BY <1>1, <1>5, <2>3, <3>1, <3>2, <3>3 DEF FactsInv, FactsOf
  <2>7. StormInv'
    BY <1>1, <1>5 DEF StormInv
  <2>8. HomeInv'
    <3> SUFFICES ASSUME Regular' PROVE sw' = Home
      BY <1>1, <1>2 DEF HomeInv
    <3>1. ok = TRUE
      <4>1. ~(\E i \in DOMAIN hit' : hit'[i] = "close")
        BY <1>1, <1>5 DEF Regular, Hit
      <4>2. hit \in Seq({"build", "down", "close"})
        BY DEF RigInv, BaseInv
      <4> QED
        BY <2>1, <4>1, <4>2, HitGrows
    <3>2. Plain(sw)
      BY <1>5, PlainFacts DEF RigInv, FactsInv, FactsOf, Plain
    <3>3. Member(Def, p_in) \in sw' /\ Pvid(Def, p_in) \in sw'
      <4>1. Returns(sw, p_in, sw')
        BY <2>1, <2>2, <3>1, <3>2, ResetPlain, Zenon
      <4> QED
        BY <4>1 DEF Returns
    <3>4. Neigh(p_in) \notin sw'
      <4>1. Neigh(p_in) \notin sw
        BY <1>1, <1>2, <1>5 DEF RigInv, PlanInv
      <4> QED
        BY <2>3, <4>1 DEF Neigh, Pvid, Member, F
    <3>5. sw' \subseteq Home
      BY <1>1, <1>5, <2>3, <2>6, <3>4 DEF FactsInv, FactsOf, VlinkFacts
    <3>6. Pvid(Def, p_out) \in sw'
      <4>1. PICK v : Pvids(sw', p_out) = {Pvid(v, p_out)}
        BY <2>2, <2>5 DEF PvidInv
      <4>2. Pvid(v, p_out) \in sw'
        BY <4>1 DEF Pvids
      <4>3. v = Def
        BY <3>5, <4>2, HomeFacts DEF Pvid, F
      <4> QED
        BY <4>2, <4>3
    <3>7. Member(Def, p_out) \in sw'
      BY <1>1, <1>5, <2>6 DEF FactsInv
    <3> QED
      BY <3>3, <3>5, <3>6, <3>7 DEF Home, Pair
  <2> QED
    BY <1>3, <2>4, <2>5, <2>6, <2>7, <2>8 DEF RigInv
<1> QED
  BY <1>4, <1>5

LEMMA ResetStep == RigInv /\ suite_reset => RigInv'
<1> SUFFICES ASSUME RigInv, suite_reset PROVE RigInv'
  OBVIOUS
<1>1. /\ stage = "close" /\ stage' = "closed" /\ busy' = [x \in Pair |-> busy[x] + 1]
      /\ UNCHANGED <<rig, plan, undo, covered, torn, failed, tries, hasty>>
  BY DEF suite_reset
<1>2. PICK okp \in BOOLEAN, okq \in BOOLEAN :
        /\ hit' = hit \o (IF okp THEN <<>> ELSE <<"close">>) \o (IF okq THEN <<>> ELSE <<"close">>)
        /\ Len(hit') <= MaxFaults
        /\ LET s == Reset(Reset(sw, p_in, okp), p_out, okq)
           IN sw' = s \ {c.f : c \in {d \in {Off(Vlan("A")), Off(Vlan("B"))} : Accepts(s, d)}}
  BY DEF suite_reset
<1>3. PICK r : r = Reset(sw, p_in, okp)
  OBVIOUS
<1>4. PICK s : s = Reset(r, p_out, okq)
  OBVIOUS
<1>5. sw' = s \ {c.f : c \in {d \in {Off(Vlan("A")), Off(Vlan("B"))} : Accepts(s, d)}}
  BY <1>2, <1>3, <1>4
<1>6. sw' \subseteq s /\ \A g \in s : g \in sw' \/ g.k = "vlan"
  <2>1. Off(Vlan("A")).f = Vlan("A") /\ Off(Vlan("B")).f = Vlan("B")
    BY Commands
  <2>2. Vlan("A").k = "vlan" /\ Vlan("B").k = "vlan"
    BY DEF Vlan, F
  <2> QED
    BY <1>5, <2>1, <2>2
<1>7. p_in \in Pair /\ p_out \in Pair /\ p_in # p_out
  BY RigAssumption DEF Pair
<1>8. ~Early' /\ ~Taking' /\ ~Taking
  BY <1>1 DEF Early, Taking, Arming
<1>9. /\ \A g \in r : g \in sw \/ g = Pvid(Def, p_in) \/ g = Member(Def, p_in)
      /\ \A g \in sw : g \in r \/ g.x = p_in
      /\ Pvids(r, p_out) = Pvids(sw, p_out) /\ Pvids(r, p_in) = {Pvid(Def, p_in)}
      /\ Looped(p_in) \notin r
  <2>1. Resets(sw, p_in, r)
    BY <1>3, <1>7, ResetFacts, Zenon
  <2> QED
    BY <1>7, <2>1 DEF Resets
<1>10. /\ \A g \in s : g \in r \/ g = Pvid(Def, p_out) \/ g = Member(Def, p_out)
       /\ Pvids(s, p_in) = Pvids(r, p_in) /\ Pvids(s, p_out) = {Pvid(Def, p_out)}
       /\ Looped(p_out) \notin s
       /\ \A v : Member(v, p_out) \in r => Member(v, p_out) \in s
  <2>1. Resets(r, p_out, s)
    BY <1>4, <1>7, ResetFacts, Zenon
  <2> QED
    BY <1>7, <2>1 DEF Resets
<1>11. BaseInv'
  <2>1. hit \in Seq({"build", "down", "close"}) /\ busy \in [Pair -> Nat]
    BY DEF RigInv, BaseInv
  <2>2. hit' \in Seq({"build", "down", "close"})
    <3>1. <<>> \in Seq({"build", "down", "close"}) /\ <<"close">> \in Seq({"build", "down", "close"})
      OBVIOUS
    <3>2. PICK a \in Seq({"build", "down", "close"}) : a = IF okp THEN <<>> ELSE <<"close">>
      BY <3>1
    <3>3. PICK b \in Seq({"build", "down", "close"}) : b = IF okq THEN <<>> ELSE <<"close">>
      BY <3>1
    <3>4. hit' = hit \o a \o b
      BY <1>2, <3>2, <3>3, Zenon
    <3> QED
      BY <2>1, <3>4
  <2>3. Len(hit') <= MaxFaults
    BY <1>2, Zenon
  <2>4. busy' \in [Pair -> Nat]
    BY <1>1, <2>1
  <2> QED
    BY <1>1, <2>2, <2>3, <2>4 DEF RigInv, BaseInv, Stage
<1>12. OrderInv' /\ ArmInv' /\ PlanInv'
  BY <1>1, <1>8 DEF RigInv, OrderInv, ArmInv, PlanInv, Arming
<1>13. PvidInv'
  <2>1. \A x : Pvids(sw', x) = Pvids(s, x)
    BY <1>6 DEF Pvids
  <2> QED
    BY <1>9, <1>10, <2>1 DEF PvidInv, Pair
<1>14. Looped(p_in) \notin sw' /\ Looped(p_out) \notin sw'
  BY <1>6, <1>9, <1>10 DEF Looped, Pvid, Member, F
<1>15. FactsInv'
  <2>1. Home \subseteq FactsOf(rig) /\ \A x \in Pair : Pvid(Def, x) \in Home /\ Member(Def, x) \in Home
    BY Facts, HomeFacts DEF FactsOf
  <2>2. sw' \subseteq FactsOf(rig)
    BY <1>6, <1>7, <1>9, <1>10, <2>1 DEF RigInv, FactsInv
  <2>3. ASSUME rig = "vlink" PROVE Member(Def, p_out) \in sw'
    <3>1. Member(Def, p_out) \in sw /\ Member(Def, p_out).x = p_out /\ Member(Def, p_out).k # "vlan"
      BY <2>3 DEF RigInv, FactsInv, Member, F
    <3> QED
      BY <1>6, <1>7, <1>9, <1>10, <3>1
  <2> QED
    BY <1>1, <1>14, <2>2, <2>3 DEF FactsInv, Pair
<1>16. StormInv'
  BY <1>1, <1>8, <1>14 DEF StormInv, HairStorm, VrfStorm, Pair
<1>17. HomeInv'
  <2> SUFFICES ASSUME ~Hit({"close"})', rig = "hairpin" => torn /\ ~Hit({"down"})'
               PROVE  Home \subseteq sw' /\ \A x \in Pair, k \in {"loop", "ip", "bound"} : ~Holds(sw', k, x)
    BY <1>1, <1>8 DEF HomeInv
  <2>1. okp = TRUE /\ okq = TRUE /\ hit' = hit
    <3>1. ~(\E i \in DOMAIN hit' : hit'[i] = "close") /\ hit \in Seq({"build", "down", "close"})
      BY DEF Hit, RigInv, BaseInv
    <3>2. PICK n \in Nat : n = Len(hit)
      BY <3>1
    <3>3. ASSUME okp = FALSE PROVE FALSE
      <4>1. hit' = hit \o <<"close">> \o (IF okq THEN <<>> ELSE <<"close">>)
        BY <1>2, <3>3
      <4>2. n + 1 \in DOMAIN hit' /\ hit'[n + 1] = "close"
        BY <3>1, <3>2, <4>1
      <4> QED
        BY <3>1, <4>2
    <3>4. ASSUME okp = TRUE, okq = FALSE PROVE FALSE
      <4>1. hit' = hit \o <<>> \o <<"close">>
        BY <1>2, <3>4
      <4>2. n + 1 \in DOMAIN hit' /\ hit'[n + 1] = "close"
        BY <3>1, <3>2, <4>1
      <4> QED
        BY <3>1, <4>2
    <3>5. okp = TRUE /\ okq = TRUE
      BY <3>3, <3>4
    <3>6. hit' = hit \o <<>> \o <<>>
      BY <1>2, <3>5
    <3> QED
      BY <3>1, <3>5, <3>6
  <2>2. Plain(sw)
    <3>1. CASE rig = "hairpin"
      <4>1. Regular /\ torn
        BY <2>1, <3>1 DEF Regular, Hit
      <4>2. sw = Home
        BY <1>1, <4>1 DEF RigInv, HomeInv
      <4> QED
        BY <4>2, PlainFacts
    <3>2. CASE rig = "vlink"
      BY <3>2, PlainFacts DEF RigInv, FactsInv, FactsOf, Plain
    <3>3. CASE rig = "vrf"
      BY <3>3, PlainFacts DEF RigInv, FactsInv, FactsOf, Plain
    <3> QED
      BY <3>1, <3>2, <3>3 DEF RigInv, BaseInv, Rig
  <2>4. /\ Plain(r) /\ Member(Def, p_in) \in r /\ Pvid(Def, p_in) \in r
        /\ \A k \in {"loop", "ip", "bound"} : ~Holds(r, k, p_in)
    <3>1. Returns(sw, p_in, r)
      BY <1>3, <1>7, <2>1, <2>2, ResetPlain, Zenon
    <3> QED
      BY <3>1 DEF Returns
  <2>5. /\ Member(Def, p_out) \in s /\ Pvid(Def, p_out) \in s
        /\ Member(Def, p_in) \in s /\ Pvid(Def, p_in) \in s
        /\ \A x \in Pair, k \in {"loop", "ip", "bound"} : ~Holds(s, k, x)
    <3>1. Returns(r, p_out, s)
      BY <1>4, <1>7, <2>1, <2>4, ResetPlain, Zenon
    <3> QED
      BY <1>7, <2>4, <3>1 DEF Returns, Pair
  <2>6. Home \subseteq sw'
    BY <1>6, <2>5, HomeFacts DEF Home, Pair
  <2>7. \A x \in Pair, k \in {"loop", "ip", "bound"} : ~Holds(sw', k, x)
    BY <1>6, <2>5 DEF Holds
  <2> QED
    BY <2>6, <2>7
<1> QED
  BY <1>11, <1>12, <1>13, <1>15, <1>16, <1>17 DEF RigInv

-----------------------------------------------------------------------------
(* The rigs.                                                               *)

LEMMA RigStep == RigInv /\ [RigNext]_rigVars => RigInv'
<1> SUFFICES ASSUME RigInv, [RigNext]_rigVars PROVE RigInv'
  OBVIOUS
<1>1. ASSUME NEW CONSTANT x \in Pair, WriteBack(x) PROVE RigInv'
  BY <1>1, WriteBackStep
<1>2. CASE Build
  BY <1>2, BuildStep
<1>3. CASE Abandon
  BY <1>3, AbandonStep
<1>4. CASE Built
  BY <1>4, BuiltStep
<1>5. CASE Arm
  <2>1. CASE SetPvid("setIn", "readIn", "A", p_in)
    BY <2>1, SetStep
  <2>2. CASE ReadPvid("readIn", "setIn", "setOut", "A", p_in)
    BY <2>2, ReadStep
  <2>3. CASE SetPvid("setOut", "readOut", "B", p_out)
    BY <2>3, SetStep
  <2>4. CASE ReadPvid("readOut", "setOut", "send", "B", p_out)
    BY <2>4, ReadStep
  <2> QED
    BY <1>5, <2>1, <2>2, <2>3, <2>4 DEF Arm
<1>6. CASE Leave
  BY <1>6, LeaveStep
<1>7. CASE StartDown
  BY <1>7, StartDownStep
<1>8. CASE Down
  BY <1>8, DownStep
<1>9. CASE DownDone
  BY <1>9, DownDoneStep
<1>10. CASE Guard
  BY <1>10, GuardStep
<1>11. CASE suite_reset
  BY <1>11, ResetStep
<1>12. CASE UNCHANGED rigVars
  <2>1. UNCHANGED <<sw, busy, rig, stage, plan, undo, covered, torn, failed, hit, tries, hasty>>
    BY <1>12 DEF rigVars
  <2>2. Early' = Early /\ Taking' = Taking /\ Regular' = Regular /\ \A P : Hit(P)' = Hit(P)
    BY <2>1 DEF Early, Taking, Regular, Hit
  <2>3. BaseInv' /\ OrderInv' /\ PvidInv' /\ FactsInv' /\ ArmInv'
    BY <2>1, <2>2 DEF RigInv, BaseInv, OrderInv, PvidInv, FactsInv, ArmInv, Confirmed
  <2>4. PlanInv' /\ StormInv'
    BY <2>1, <2>2, Steady DEF RigInv
  <2>5. HomeInv'
    <3>1. \A L : Undone(L)' = Undone(L)
      BY <2>1 DEF Undone
    <3> QED
      BY <2>1, <2>2, <3>1 DEF RigInv, HomeInv
  <2> QED
    BY <2>3, <2>4, <2>5 DEF RigInv
<1> QED
  BY <1>1, <1>2, <1>3, <1>4, <1>5, <1>6, <1>7, <1>8, <1>9, <1>10, <1>11, <1>12 DEF RigNext

LEMMA RigInvariant == RigSpec => []RigInv
<1> QED
  BY RigStart, RigStep, PTL DEF RigSpec

\* The switch holds facts of the rig only, each port has exactly one PVID, and no more
\* commands are refused without a reason than the bound allows.
THEOREM RigsTyped == RigSpec => []RigTypeOK
<1> QED
  BY RigInvariant, RigTypes, PTL

\* Two looped ports share a VLAN only after two refusals without a reason: neither a
\* refusal of the rules nor any single one brings the storm of hairpin.py about, whatever
\* the order of the write-backs, the build and the teardown.
THEOREM StormTakesTwo == RigSpec => [](Len(hit) <= 1 => NoStorm)
<1> QED
  BY RigInvariant, RigConcludes, PTL

\* A switch that refuses at most one command without a reason sees no storm.
THEOREM OneRefusalNoStorm == MaxFaults <= 1 => (RigSpec => []NoStorm)
<1> SUFFICES ASSUME MaxFaults <= 1 PROVE RigSpec => []NoStorm
  OBVIOUS
<1>1. RigInv => NoStorm
  <2> SUFFICES ASSUME RigInv PROVE NoStorm
    OBVIOUS
  <2>1. PICK h \in Nat : h = Len(hit)
    BY DEF RigInv, BaseInv
  <2>2. h <= MaxFaults
    BY <2>1, Zenon DEF RigInv, BaseInv
  <2>3. h <= 1
    BY <2>2, RigAssumption
  <2> QED
    BY <2>1, <2>3, RigConcludes, Zenon
<1> QED
  BY <1>1, RigInvariant, PTL

\* arm (hairpin.py): while the test sends, the confirmed PVIDs are the split ones,
\* however many write-backs of vlanorch came before.
THEOREM SendingIsSplit == RigSpec => []SplitWhenSending
<1> QED
  BY RigInvariant, RigConcludes, PTL

\* The teardown of a test that passed (hairpin.py, virtual_link.py, vrfhairpin.py) ends where
\* the test began, whatever was refused while the rig was built.
THEOREM PassesGoHome == RigSpec => []PassLeavesHome
<1> QED
  BY RigInvariant, RigConcludes, PTL

\* suite_reset brings the ports home, also after a setup that raised.
THEOREM SessionEndsHome == RigSpec => []SessionHome
<1> QED
  BY RigInvariant, RigConcludes, PTL

-----------------------------------------------------------------------------
(* Lanes: several workers on one switch.                                   *)

Session0 == Worker \cup {0}

LEMMA LaneFacts ==
    /\ Worker \subseteq Nat \ {0} /\ Session0 \subseteq Lane /\ Safe \notin Session0
    /\ Block \in [Session0 -> SUBSET Port] /\ BaseVlan \in Int
    /\ Pool \subseteq Int /\ Used \subseteq Pool /\ Flushed \subseteq Pool
<1>1. Worker \subseteq Nat \ {0} /\ Block \in [Session0 -> SUBSET Port]
  BY WorkerAssumption DEF Session0
<1>2. BaseVlan \in Int /\ Pool \subseteq Int /\ Used \subseteq Pool /\ Flushed \subseteq Pool
  BY VlanAssumption
<1>3. Session0 \subseteq Lane
  BY DEF Session0, Lane
<1>4. Safe \notin Session0
  BY <1>1 DEF Session0, Safe
<1> QED
  BY <1>1, <1>2, <1>3, <1>4

\* The shifts yield numbers, and no two workers have the same default VLAN.
LEMMA Shifts ==
    /\ \A w \in Session0, v \in Pool : remap_vid(w, v) \in Int
    /\ \A w \in Session0 : remap_default_vlan(w, BaseVlan) \in Int
    /\ \A v, w \in Worker : v # w =>
          remap_default_vlan(v, BaseVlan) # remap_default_vlan(w, BaseVlan)
BY LaneFacts DEF remap_vid, remap_default_vlan, Session0

-----------------------------------------------------------------------------
(* Types.                                                                  *)

LEMMA TypeInit == Init => TypeOK
BY LaneFacts DEF Init, TypeOK, Stages, Lane

LEMMA TypeStep == TypeOK /\ [Next]_vars => TypeOK'
<1> SUFFICES ASSUME TypeOK, [Next]_vars PROVE TypeOK'
  OBVIOUS
<1> USE LaneFacts
<1>1. CASE GlobalInit \/ StartSerial \/ Finish
  BY <1>1 DEF TypeOK, GlobalInit, StartSerial, Finish, chip
<1>2. CASE SafeLane
  BY <1>2 DEF TypeOK, SafeLane, Move, Stages, Safe, Lane, chip
<1>3. ASSUME NEW w \in Session0, SessionStart(w) \/ Moved(w) \/ SuiteReset(w) \/ SessionEnd(w) \/ Crash(w)
      PROVE  TypeOK'
  <2>1. /\ \E s \in Stages : Move(w, s)
        /\ home' = home /\ phase' = phase /\ loops' \subseteq loops
        /\ fdb' \subseteq fdb /\ static' \subseteq static /\ qos' \subseteq qos
    BY <1>3 DEF SessionStart, Moved, SuiteReset, SessionEnd, Crash, Stages, chip, Swept
  <2> QED
    BY <2>1, <1>3 DEF TypeOK, Move
<1>4. ASSUME NEW w \in Session0, NEW p \in Port, MovePort(w, p) \/ MoveBack(w, p)
      PROVE  TypeOK'
  <2>1. home' \in [Port -> Int]
    BY <1>4, Shifts DEF TypeOK, MovePort, MoveBack, Nowhere
  <2> QED
    BY <1>4, <2>1 DEF TypeOK, MovePort, MoveBack
<1>5. ASSUME NEW w \in Session0, NEW p \in Port, MoveFails(w, p)
      PROVE  TypeOK'
  BY <1>5, Shifts DEF TypeOK, MoveFails, Move, Stages, Nowhere
<1>6. ASSUME NEW w \in Session0, NEW p \in Port, Loop(w, p)
      PROVE  TypeOK'
  BY <1>6 DEF TypeOK, Loop
<1>7. ASSUME NEW w \in Session0, NEW v \in Used, Learn(w, v) \/ StaticAdd(w, v)
      PROVE  TypeOK'
  <2>1. [vid |-> remap_vid(w, v), by |-> w] \in Entry
    BY Shifts DEF Entry
  <2> QED
    BY <1>7, <2>1 DEF TypeOK, Learn, StaticAdd
<1>8. ASSUME NEW w \in Session0, UseQos(w) \/ ClearFdb(w) \/ FlushFdb(w)
      PROVE  TypeOK'
  BY <1>8 DEF TypeOK, UseQos, ClearFdb, FlushFdb, Session0
<1>9. CASE UNCHANGED vars
  BY <1>9 DEF TypeOK, vars, chip
<1> QED
  BY <1>1, <1>2, <1>3, <1>4, <1>5, <1>6, <1>7, <1>8, <1>9 DEF Next, Session, Session0

\* Type correctness, for any workers, ports and pools of VLAN ids.
THEOREM LaneTypes == Spec => []TypeOK
BY TypeInit, TypeStep, PTL DEF Spec

-----------------------------------------------------------------------------
(* Flood domains.                                                          *)

\* While the workers run, a port in a worker's block loops only in that worker's
\* flood domain; a port moves only in the session of a worker that has it, while
\* nothing loops; and worker 1, whose domain is the default VLAN, never moves.
FloodInv ==
    /\ phase = "init" => \A l \in Lane : lane[l] = "waiting"
    /\ phase = "parallel" => lane[0] = "waiting"
    /\ \A w \in Session0 : w < 2 => lane[w] # "moving"
    /\ \A w \in Worker : w < 2 => \A p \in Block[w] : home[p] = BaseVlan
    /\ phase = "parallel" => \A w \in Worker :
          /\ lane[w] \in {"waiting", "moving", "home"} => loops \cap Block[w] = {}
          /\ lane[w] = "on" => \A p \in Block[w] : home[p] = remap_default_vlan(w, BaseVlan)
          /\ \A p \in Block[w] \cap loops : home[p] = remap_default_vlan(w, BaseVlan)

LEMMA FloodInit == Init => FloodInv
<1> SUFFICES ASSUME Init PROVE FloodInv
  OBVIOUS
<1> QED
  BY WorkerAssumption, LaneFacts DEF Init, FloodInv, Lane, Session0

LEMMA FloodStep == TypeOK /\ FloodInv /\ [Next]_vars => FloodInv'
<1> SUFFICES ASSUME TypeOK, FloodInv, [Next]_vars PROVE FloodInv'
  OBVIOUS
<1> USE LaneFacts
<1>0. \A v, w \in Worker : v # w => Block[v] \cap Block[w] = {}
  BY WorkerAssumption
<1>1. CASE GlobalInit
  BY <1>1 DEF FloodInv, GlobalInit, TypeOK, Session0, Lane
<1>2. CASE StartSerial \/ Finish
  BY <1>2 DEF FloodInv, StartSerial, Finish, chip
<1>3. CASE SafeLane
  BY <1>3 DEF FloodInv, TypeOK, SafeLane, MayStart, Move, Session0, Safe, chip
<1>4. ASSUME NEW w \in Session0, SessionStart(w) PROVE FloodInv'
  BY <1>4 DEF FloodInv, TypeOK, SessionStart, MayStart, Move, Session0, Scope, IsParallel,
     remap_default_vlan
<1>5. ASSUME NEW w \in Session0, Moved(w) PROVE FloodInv'
  BY <1>5 DEF FloodInv, TypeOK, Moved, Move, Session0, chip
<1>6. ASSUME NEW w \in Session0, NEW p \in Port, MovePort(w, p) PROVE FloodInv'
  BY <1>0, <1>6 DEF FloodInv, TypeOK, MovePort, Session0
<1>7. ASSUME NEW w \in Session0, NEW p \in Port, MoveFails(w, p) PROVE FloodInv'
  BY <1>0, <1>7 DEF FloodInv, TypeOK, MoveFails, Move, Session0
<1>8. ASSUME NEW w \in Session0, NEW p \in Port, Loop(w, p) PROVE FloodInv'
  BY <1>0, <1>8 DEF FloodInv, TypeOK, Loop, Session0
<1>9. ASSUME NEW w \in Session0, NEW p \in Port, MoveBack(w, p) PROVE FloodInv'
  BY <1>0, <1>9 DEF FloodInv, TypeOK, MoveBack, Session0
<1>10. ASSUME NEW w \in Session0, SuiteReset(w) \/ SessionEnd(w) \/ Crash(w) PROVE FloodInv'
  BY <1>10 DEF FloodInv, TypeOK, SuiteReset, SessionEnd, Crash, Move, Session0, chip
<1>11. ASSUME NEW w \in Session0, NEW v \in Used, Learn(w, v) \/ StaticAdd(w, v)
       PROVE  FloodInv'
  BY <1>11 DEF FloodInv, Learn, StaticAdd
<1>12. ASSUME NEW w \in Session0, UseQos(w) \/ ClearFdb(w) \/ FlushFdb(w) PROVE FloodInv'
  BY <1>12 DEF FloodInv, UseQos, ClearFdb, FlushFdb
<1>13. CASE UNCHANGED vars
  BY <1>13 DEF FloodInv, vars, chip
<1> QED
  BY <1>1, <1>2, <1>3, <1>4, <1>5, <1>6, <1>7, <1>8, <1>9, <1>10, <1>11, <1>12, <1>13
     DEF Next, Session, Session0

\* Loopbacks of two workers never share a flood domain, for any number of workers
\* whose blocks are disjoint, whatever moves, failures and deaths overlap.
THEOREM NoStormAcrossWorkers == Spec => []NoCrossStorm
<1>1. TypeOK /\ FloodInv => NoCrossStorm
  BY LaneFacts, Shifts DEF FloodInv, NoCrossStorm, Session0
<1> QED
  BY <1>1, TypeInit, TypeStep, FloodInit, FloodStep, PTL DEF Spec

-----------------------------------------------------------------------------
(* Views.                                                                  *)

\* Two workers with an audited profile see different VLAN ids, subnets and AS numbers.
LEMMA ViewsApart ==
    ASSUME Audited
    PROVE  /\ Vids(1) \cap Vids(2) = {} /\ Nets(1) \cap Nets(2) = {}
           /\ AsNumbers(1) \cap AsNumbers(2) = {}
<1>1. /\ Pool \subseteq 1..MaxVid /\ BaseVlan \in 1..MaxVid
      /\ Octets \subseteq 0..255 /\ Hextets \subseteq 0..MaxHextet /\ Asns \subseteq Nat
  BY VlanAssumption, ViewAssumption
<1>2. Vids(1) \cap Vids(2) = {}
  <2>1. \A e \in Vids(1) : e \in Pool \/ e = BaseVlan
    BY <1>1 DEF Vids, remap_vid, remap_default_vlan
  <2>2. \A e \in Vids(2) : \/ \E v \in Pool : v < 3900 /\ e = v + 430
                           \/ \E v \in Pool : v >= 3900 /\ e = v - 10
                           \/ e = BaseVlan + 430
    BY <1>1 DEF Vids, remap_vid, remap_default_vlan
  <2> QED
    BY <2>1, <2>2 DEF Audited
<1>3. \A a, b \in Octets : remap_ip4(1, a) # remap_ip4(2, b)
  BY <1>1 DEF Audited, remap_ip4
<1>4. \A a, b \in Hextets : remap_ip6(1, a) # remap_ip6(2, b)
  BY <1>1 DEF Audited, remap_ip6
<1>5. Nets(1) \cap Nets(2) = {}
  BY <1>3, <1>4 DEF Nets
<1>6. AsNumbers(1) \cap AsNumbers(2) = {}
  BY <1>1 DEF Audited, AsNumbers, remap_asn
<1> QED
  BY <1>2, <1>5, <1>6

\* The numbers stay legal: the octet because it goes down where it cannot go up.
LEMMA ViewsLegal ==
    ASSUME Audited, NEW w \in {1, 2}
    PROVE  /\ Vids(w) \subseteq 1..MaxVid
           /\ Nets(w) \subseteq ({"10"} \X (0..255)) \cup ({"2001:db8"} \X (0..MaxHextet))
<1>1. /\ Pool \subseteq 1..MaxVid /\ BaseVlan \in 1..MaxVid
      /\ Octets \subseteq 0..255 /\ Hextets \subseteq 0..MaxHextet
  BY VlanAssumption, ViewAssumption
<1>2. Vids(w) \subseteq 1..MaxVid
  <2>1. ASSUME NEW v \in Pool
        PROVE  remap_vid(w, v) \in 1..MaxVid
    <3>1. v \in Int /\ 1 <= v /\ v <= MaxVid /\ (v < 3900 => v + 430 <= MaxVid)
      BY <1>1 DEF Audited
    <3> QED
      BY <3>1 DEF remap_vid, MaxVid
  <2>2. remap_default_vlan(w, BaseVlan) \in 1..MaxVid
    <3>1. BaseVlan \in Int /\ 1 <= BaseVlan /\ BaseVlan <= MaxVid /\ BaseVlan + 430 <= MaxVid
      BY <1>1 DEF Audited
    <3> QED
      BY <3>1 DEF remap_default_vlan
  <2> QED
    BY <2>1, <2>2 DEF Vids
<1>3. \A o \in Octets : remap_ip4(w, o) \in 0..255
  BY <1>1 DEF remap_ip4
<1>4. \A h \in Hextets : remap_ip6(w, h) \in 0..MaxHextet
  BY <1>1 DEF Audited, remap_ip6
<1> QED
  BY <1>2, <1>3, <1>4 DEF Nets

\* For the two workers of run_lanes.sh it is enough that no two numbers of a profile are
\* a shift apart: then all that worker.py hands out is legal and seen by one worker only.
THEOREM ViewsNeverMeet ==
    ASSUME Worker \subseteq {1, 2}, Audited
    PROVE  Spec => []ViewsDisjoint
<1>1. ViewsDisjoint
  BY ViewsApart, ViewsLegal DEF ViewsDisjoint
<1> QED
  BY <1>1, PTL

-----------------------------------------------------------------------------
(* Cleanup.                                                                *)

\* Entries carry a VLAN id of the view of the lane that caused them, and the run has
\* an order: the tail runs alone.
EntryInv ==
    /\ \A e \in fdb \cup static : e.by \in Worker => e.vid \in Vids(e.by)
    /\ phase = "init" => \A l \in Lane : lane[l] = "waiting"
    /\ phase \in {"init", "parallel"} => lane[0] = "waiting"
    /\ phase \in {"serial", "done"} => \A w \in Worker : lane[w] = "ended"

LEMMA EntryInit == Init => EntryInv
BY LaneFacts DEF Init, EntryInv, Session0

LEMMA EntryStep == TypeOK /\ EntryInv /\ [Next]_vars => EntryInv'
<1> SUFFICES ASSUME TypeOK, EntryInv, [Next]_vars PROVE EntryInv'
  OBVIOUS
<1> USE LaneFacts
<1>1. CASE GlobalInit \/ StartSerial \/ Finish
  BY <1>1 DEF EntryInv, TypeOK, GlobalInit, StartSerial, Finish, Session0, Lane, Safe, chip
<1>2. CASE SafeLane
  BY <1>2 DEF EntryInv, TypeOK, SafeLane, MayStart, Move, Session0, chip
<1>3. ASSUME NEW w \in Session0, SessionStart(w) PROVE EntryInv'
  BY <1>3 DEF EntryInv, TypeOK, SessionStart, MayStart, Move, Session0
<1>4. ASSUME NEW w \in Session0, Moved(w) \/ SuiteReset(w) \/ SessionEnd(w) \/ Crash(w)
      PROVE  EntryInv'
  BY <1>4 DEF EntryInv, TypeOK, Moved, SuiteReset, SessionEnd, Crash, Move, Session0, chip
<1>5. ASSUME NEW w \in Session0, NEW p \in Port,
             MovePort(w, p) \/ MoveFails(w, p) \/ MoveBack(w, p) \/ Loop(w, p)
      PROVE  EntryInv'
  BY <1>5 DEF EntryInv, TypeOK, MovePort, MoveFails, MoveBack, Loop, Move, Session0
<1>6. ASSUME NEW w \in Session0, NEW v \in Used, Learn(w, v) \/ StaticAdd(w, v)
      PROVE  EntryInv'
  <2> DEFINE e == [vid |-> remap_vid(w, v), by |-> w]
  <2>1. e.by = w /\ (w \in Worker => e.vid \in Vids(w))
    BY DEF Vids
  <2>2. (fdb \cup static)' = (fdb \cup static) \cup {e}
    BY <1>6 DEF Learn, StaticAdd
  <2> HIDE DEF e
  <2> QED
    BY <1>6, <2>1, <2>2 DEF EntryInv, Learn, StaticAdd
<1>7. ASSUME NEW w \in Session0, UseQos(w) \/ ClearFdb(w) \/ FlushFdb(w) PROVE EntryInv'
  BY <1>7 DEF EntryInv, UseQos, ClearFdb, FlushFdb
<1>8. CASE UNCHANGED vars
  BY <1>8 DEF EntryInv, vars, chip
<1> QED
  BY <1>1, <1>2, <1>3, <1>4, <1>5, <1>6, <1>7, <1>8 DEF Next, Session, Session0

\* What a sweep of one worker takes was not caused by another.
LEMMA SweptIsOwn ==
    ASSUME NEW w \in Worker, NEW u \in Worker, u # w, Vids(w) \cap Vids(u) = {},
           EntryInv, NEW e \in Swept(w, fdb)
    PROVE  e.by # u
BY LaneFacts DEF Swept, IsParallel, EntryInv, Vids, Session0

\* What OthersUntouched says of a cleanup by u and another running process w.
Spared(u, w) ==
    /\ {e \in fdb : e.by = w} \subseteq fdb'
    /\ loops \cap Block[w] \subseteq loops'
    /\ {e \in static : e.by = w} \subseteq static' \/ (SwitchportOS /\ SuiteReset(u))
    /\ qos \cap {w} \subseteq qos' \/ SuiteReset(u)

\* Where the views are disjoint, a cleanup spares every other running process: the
\* sweeps by the VLAN ids, the loopbacks by the blocks, and the tail runs alone.
LEMMA SparedStep ==
    ASSUME \A v, w \in Worker : v # w => Vids(v) \cap Vids(w) = {},
           TypeOK, EntryInv, NEW u \in Session0, NEW w \in Session0, u # w,
           Live(w), Cleanup(u)
    PROVE  Spared(u, w)
<1> USE LaneFacts
<1>0. \A v, x \in Worker : v # x => Block[v] \cap Block[x] = {}
  BY WorkerAssumption
<1>1. CASE u \in Worker /\ w \in Worker
  <2>1. loops \cap Block[w] \subseteq loops'
    BY <1>0, <1>1 DEF Cleanup, SessionStart, SuiteReset, SessionEnd, Crash, FlushFdb,
       MoveFails, Scope, IsParallel, chip
  <2>2. static' = static \/ (SwitchportOS /\ SuiteReset(u))
    BY DEF Cleanup, SessionStart, SuiteReset, SessionEnd, Crash, FlushFdb, MoveFails, chip
  <2>3. fdb' = fdb \/ fdb' = fdb \ Swept(u, fdb)
    BY <1>1 DEF Cleanup, SessionStart, SuiteReset, SessionEnd, Crash, FlushFdb,
       MoveFails, IsParallel, chip
  <2>4. \A e \in Swept(u, fdb) : e.by # w
    BY <1>1, SweptIsOwn
  <2>5. qos' = qos \/ SuiteReset(u)
    BY DEF Cleanup, SessionStart, SessionEnd, Crash, FlushFdb, MoveFails, chip
  <2> QED
    BY <2>1, <2>2, <2>3, <2>4, <2>5 DEF Spared
<1>2. CASE u = 0 \/ w = 0
  BY <1>2 DEF Cleanup, SessionStart, MayStart, SuiteReset, SessionEnd, Crash, FlushFdb,
     MoveFails, EntryInv, TypeOK, Live, Session0
<1> QED
  BY <1>1, <1>2 DEF Session0

\* No cleanup, start or death of a process takes away what a test of another running
\* process has looped, learned or configured, for any number of workers whose VLAN ids
\* and blocks are disjoint (worker.py, hygiene.py), but for the FVT* objects and, on a
\* switchport OS, the static entries, which suite_reset does not narrow.
THEOREM CleanupStaysHome ==
    ASSUME \A v, w \in Worker : v # w => Vids(v) \cap Vids(w) = {}
    PROVE  Spec => OthersUntouched
<1>1. TypeOK /\ EntryInv /\ [Next]_vars =>
        [\A u, w \in Worker \cup {0} : u # w /\ Live(w) /\ Cleanup(u) => Spared(u, w)]_vars
  BY SparedStep DEF Session0
<1> QED
  BY <1>1, TypeInit, TypeStep, EntryInit, EntryStep, PTL DEF Spec, OthersUntouched, Spared

\* In particular for the two workers of run_lanes.sh with an audited profile.
COROLLARY AuditedWorkersSpared ==
    ASSUME Worker \subseteq {1, 2}, Audited
    PROVE  Spec => OthersUntouched
<1>1. \A v, w \in Worker : v # w => Vids(v) \cap Vids(w) = {}
  BY ViewsApart
<1> QED
  BY <1>1, CleanupStaysHome
=============================================================================

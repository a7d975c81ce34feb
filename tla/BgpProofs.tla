----------------------------- MODULE BgpProofs -----------------------------
(***************************************************************************)
(* Proofs about BgpSpeaker, for any prefixes, windows and behaviour of the *)
(* switch.  WireInv ties the connection to what is in flight on it, and    *)
(* AnnounceInv follows an advertised prefix from the list to the switch.   *)
(***************************************************************************)
EXTENDS BgpSpeaker, SequenceTheorems, TLAPS

-----------------------------------------------------------------------------
(* Messages.                                                               *)

LEMMA Messages ==
    /\ <<"open">> \in Message /\ <<"keepalive">> \in Message /\ <<"fin">> \in Message
    /\ <<"torn">> \in Message
    /\ \A p \in Prefix : <<"announce", p>> \in Message /\ <<"withdraw", p>> \in Message
BY DEF Message

LEMMA MessageKinds ==
    ASSUME NEW p
    PROVE  /\ <<"open">> # <<"withdraw", p>> /\ <<"keepalive">> # <<"withdraw", p>>
           /\ <<"fin">> # <<"withdraw", p>> /\ <<"torn">> # <<"withdraw", p>>
           /\ \A q : <<"announce", q>> # <<"withdraw", p>>
<1>1. <<"withdraw", p>>[1] = "withdraw"
  OBVIOUS
<1>2. <<"open">>[1] = "open" /\ <<"keepalive">>[1] = "keepalive" /\ <<"fin">>[1] = "fin"
      /\ <<"torn">>[1] = "torn"
  OBVIOUS
<1>3. \A q : <<"announce", q>>[1] = "announce"
  OBVIOUS
<1> QED
  BY <1>1, <1>2, <1>3

-----------------------------------------------------------------------------
(* Types.                                                                  *)

\* What the sockets carry; the others are plain.
WireTypes ==
    /\ toDut \in Seq(Message)
    /\ Len(toDut) <= Window + 2
    /\ conn = "up" => Len(toDut) <= Window + 1
    /\ conn = "none" => toDut = <<>>
    /\ toSpeaker \in Seq({"open", "keepalive", "notification", "fin"})

PlainTypes ==
    /\ tpc \in {"connect", "assign", "open", "first", "loop", "recv", "reply",
                "snapshot", "announce", "clear", "close", "dead"}
    /\ conn \in {"none", "up", "down"}
    /\ attr \in {"None", "set"}
    /\ todo \subseteq Prefix /\ advertise \subseteq Prefix /\ rib \subseteq Prefix
    /\ mpc \in {"wait", "idle", "check", "send", "stop", "shut", "join", "exited"}
    /\ update \in Message
    /\ commands \in 0..MaxCommands
    /\ line \in {"none", "ESTABLISHED", "FAILED"}
    /\ ppc \in {"none", "start", "ready", "quit", "gone"}
    /\ dut \in {"idle", "open", "established", "closed"}
    /\ dropped \subseteq Prefix

Unconnected == tpc = "connect" => conn = "none"
BoolTypes == gotOpen \in BOOLEAN /\ established \in BOOLEAN /\ stop \in BOOLEAN

Types == WireTypes /\ PlainTypes /\ BoolTypes /\ Unconnected

LEMMA TypesSuffice == Types => TypeOK
BY DEF Types, WireTypes, PlainTypes, BoolTypes, TypeOK

LEMMA TypeInit == Init => Types
<1> SUFFICES ASSUME Init PROVE Types
  OBVIOUS
<1>1. WireTypes
  <2>1. toDut = <<>> /\ toSpeaker = <<>> /\ conn = "none"
    BY DEF Init
  <2> QED
    BY <2>1, SpeakerAssumption DEF WireTypes
<1>2. PlainTypes
  <2>1. commands \in 0..MaxCommands /\ update \in Message
    BY SpeakerAssumption, Messages DEF Init
  <2>2. todo \subseteq Prefix /\ advertise \subseteq Prefix /\ rib \subseteq Prefix
        /\ dropped \subseteq Prefix
    BY SpeakerAssumption DEF Init
  <2> QED
    BY <2>1, <2>2 DEF Init, PlainTypes
<1>3. BoolTypes
  BY DEF Init, BoolTypes
<1>4. Unconnected
  BY DEF Init, Unconnected
<1> QED
  BY <1>1, <1>2, <1>3, <1>4 DEF Types

\* What a step may do to the way to the switch.
Pushes(m) == conn = "up" /\ Len(toDut) <= Window /\ toDut' = Append(toDut, m) /\ conn' = conn
Closes == conn = "up" /\ conn' = "down" /\ toDut' = Append(toDut, <<"fin">>)
Keeps == toDut' = toDut /\ conn' = conn
Opens == toDut' = toDut /\ conn = "none"

LEMMA WirePush ==
    ASSUME WireTypes, NEW m \in Message, Pushes(m), toSpeaker' = toSpeaker
    PROVE  WireTypes'
<1>1. toDut' \in Seq(Message) /\ Len(toDut') = Len(toDut) + 1
  BY DEF WireTypes, Pushes
<1>2. Len(toDut) \in Nat /\ Window \in Nat
  BY SpeakerAssumption DEF WireTypes
<1>3. Len(toDut') <= Window + 1
  BY <1>1, <1>2 DEF Pushes
<1>4. conn' = "up"
  BY DEF Pushes
<1> QED
  BY <1>1, <1>2, <1>3, <1>4 DEF WireTypes

LEMMA WireClose ==
    ASSUME WireTypes, Closes, toSpeaker' = toSpeaker
    PROVE  WireTypes'
<1>1. toDut' \in Seq(Message) /\ Len(toDut') = Len(toDut) + 1
  BY Messages DEF WireTypes, Closes
<1>2. Len(toDut) \in Nat /\ Window \in Nat
  BY SpeakerAssumption DEF WireTypes
<1>3. Len(toDut') <= Window + 2
  BY <1>1, <1>2 DEF Closes, WireTypes
<1> QED
  BY <1>1, <1>3 DEF WireTypes, Closes

LEMMA WireKeep ==
    ASSUME WireTypes, Keeps \/ Opens,
           toSpeaker' \in Seq({"open", "keepalive", "notification", "fin"})
    PROVE  WireTypes'
<1>1. CASE Keeps
  BY <1>1 DEF WireTypes, Keeps
<1>2. CASE Opens
  <2>1. toDut' = <<>> /\ Len(toDut') = 0 /\ Window \in Nat
    BY <1>2, SpeakerAssumption DEF WireTypes, Opens
  <2> QED
    BY <2>1 DEF WireTypes
<1> QED
  BY <1>1, <1>2

\* The switch reads.
Takes == toDut # <<>> /\ toDut' = Tail(toDut) /\ conn' = conn

LEMMA WireTake ==
    ASSUME WireTypes, Takes, toSpeaker' \in Seq({"open", "keepalive", "notification", "fin"})
    PROVE  WireTypes'
<1>1. toDut' \in Seq(Message) /\ Len(toDut') = Len(toDut) - 1
  BY DEF WireTypes, Takes
<1>2. Len(toDut) \in Nat /\ Window \in Nat
  BY SpeakerAssumption DEF WireTypes
<1> QED
  BY <1>1, <1>2 DEF WireTypes, Takes

\* The steps of the session thread, of the caller and its parent, and of the switch.
Caller ==
    \/ WaitDone \/ WaitTimeout \/ CheckEstablished \/ SendUpdate \/ Quit \/ StopSet \/ StopShut
    \/ Join(TRUE) \/ Join(FALSE)
    \/ FirstLine \/ StopSpeaker \/ ParentReaps \/ ParentKills
    \/ \E p \in Prefix : Announce(p) \/ Withdraw(p)
Switch == DutRecv \/ DutKeepalive \/ DutNotify

LEMMA Steps == [Next]_vars => Thread \/ Caller \/ Switch \/ UNCHANGED vars
BY DEF Next, Main, Caller, Switch

LEMMA CloseKinds == CloseSocket => Closes \/ Keeps
<1> SUFFICES ASSUME CloseSocket PROVE Closes \/ Keeps
  OBVIOUS
<1>1. CASE conn = "up"
  BY <1>1 DEF CloseSocket, Closes
<1>2. CASE conn # "up"
  BY <1>2 DEF CloseSocket, Keeps
<1> QED
  BY <1>1, <1>2

LEMMA SendKinds ==
    ASSUME WireTypes, NEW m, Send(m) \/ SendRaises, conn' = conn
    PROVE  Pushes(m) \/ Pushes(<<"torn">>) \/ Keeps
<1>1. Len(toDut) \in Nat /\ Window \in Nat
  BY SpeakerAssumption DEF WireTypes
<1>2. CASE Send(m)
  BY <1>1, <1>2 DEF Send, Pushes
<1>3. CASE SendFails
  BY <1>3 DEF SendFails, Keeps
<1>4. CASE SendTimesOut
  BY <1>1, <1>4 DEF SendTimesOut, Pushes, Keeps
<1> QED
  BY <1>2, <1>3, <1>4 DEF SendRaises

\* A step does one thing to the wire; only the switch's reading does two.
Wire ==
    \/ /\ (\E m \in Message : Pushes(m)) \/ Closes
       /\ toSpeaker' = toSpeaker
    \/ /\ Keeps \/ Opens \/ Takes
       /\ toSpeaker' \in Seq({"open", "keepalive", "notification", "fin"})

LEMMA ThreadWire == Types /\ Thread => Wire
<1> SUFFICES ASSUME WireTypes, PlainTypes, Unconnected, Thread PROVE Wire
  BY DEF Types
<1>1. toSpeaker \in Seq({"open", "keepalive", "notification", "fin"})
  BY DEF WireTypes
<1>2. ASSUME NEW m \in Message, Pushes(m) \/ Closes \/ Keeps \/ Opens, toSpeaker' = toSpeaker
      PROVE  Wire
  BY <1>1, <1>2 DEF Wire
<1>3. CASE Connect
  <2>1. toSpeaker' = toSpeaker /\ toDut' = toDut /\ tpc = "connect"
    BY <1>3 DEF Connect
  <2>2. Opens
    BY <2>1 DEF Unconnected, Opens
  <2> QED
    BY <1>1, <2>1, <2>2 DEF Wire
<1>4. CASE AssignSock \/ RecvNothing \/ Snapshot \/ ClearEstablished
  <2>1. Keeps /\ toSpeaker' = toSpeaker
    BY <1>4 DEF AssignSock, RecvNothing, Snapshot, ClearEstablished, Keeps, sockVars
  <2> QED
    BY <1>1, <2>1 DEF Wire
<1>5. CASE SendOpen \/ Reply
  <2>1. toSpeaker' = toSpeaker /\ conn' = conn
    BY <1>5 DEF SendOpen, Reply
  <2>2. \E m \in Message : Send(m) \/ SendRaises
    BY <1>5, Messages DEF SendOpen, Reply
  <2> QED
    BY <1>2, <2>1, <2>2, SendKinds, Messages
<1>6. CASE LoopTop
  <2>1. toSpeaker' = toSpeaker /\ conn' = conn
    BY <1>6 DEF LoopTop
  <2>2. Send(<<"keepalive">>) \/ SendRaises \/ Keeps
    BY <1>6 DEF LoopTop, Keeps
  <2> QED
    BY <1>2, <2>1, <2>2, SendKinds, Messages
<1>7. CASE Recv
  <2>1. Keeps
    BY <1>7 DEF Recv, Keeps
  <2>2. toSpeaker # <<>> /\ toSpeaker' = Tail(toSpeaker)
    BY <1>7 DEF Recv
  <2>3. toSpeaker' \in Seq({"open", "keepalive", "notification", "fin"})
    BY <1>1, <2>2
  <2> QED
    BY <2>1, <2>3 DEF Wire
<1>8. CASE AnnounceNext
  <2>1. toSpeaker' = toSpeaker /\ conn' = conn
    BY <1>8 DEF AnnounceNext
  <2>2. CASE toDut' = toDut
    BY <1>1, <2>1, <2>2 DEF Wire, Keeps
  <2>3. ASSUME NEW p \in todo, SendSwallowed(<<"announce", p>>)
        PROVE  Wire
    <3>1. <<"announce", p>> \in Message
      BY Messages DEF PlainTypes
    <3>2. Send(<<"announce", p>>) \/ SendRaises
      BY <2>3 DEF SendSwallowed, SendRaises
    <3> QED
      BY <1>2, <2>1, <3>1, <3>2, SendKinds, Messages
  <2> QED
    BY <1>8, <2>2, <2>3 DEF AnnounceNext
<1>9. CASE CloseAndDie
  <2>1. toSpeaker' = toSpeaker /\ (CloseSocket \/ Keeps)
    BY <1>9 DEF CloseAndDie, Keeps
  <2> QED
    BY <1>2, <2>1, CloseKinds, Messages
<1> QED
  BY <1>3, <1>4, <1>5, <1>6, <1>7, <1>8, <1>9 DEF Thread

LEMMA CallerWire == Types /\ Caller => Wire
<1> SUFFICES ASSUME WireTypes, PlainTypes, Caller PROVE Wire
  BY DEF Types
<1>1. toSpeaker \in Seq({"open", "keepalive", "notification", "fin"}) /\ update \in Message
  BY DEF WireTypes, PlainTypes
<1>2. toSpeaker' = toSpeaker
  BY DEF Caller, WaitDone, WaitTimeout, CheckEstablished, SendUpdate, Quit, StopSet, StopShut, Join,
     FirstLine, StopSpeaker, ParentReaps, ParentKills, Announce, Withdraw, Command
<1>3. ASSUME NEW m \in Message, Pushes(m) \/ Closes \/ Keeps
      PROVE  Wire
  BY <1>1, <1>2, <1>3 DEF Wire
<1>4. CASE SendUpdate
  <2>1. conn' = conn /\ (Send(update) \/ SendRaises)
    BY <1>4 DEF SendUpdate, SendSwallowed, SendRaises
  <2> QED
    BY <1>1, <1>3, <2>1, SendKinds, Messages
<1>5. CASE StopShut \/ Join(TRUE) \/ Join(FALSE) \/ ParentKills
  <2>1. CloseSocket \/ Keeps
    BY <1>5 DEF StopShut, Join, ParentKills, ProcessGone, Keeps
  <2> QED
    BY <1>3, <2>1, CloseKinds, Messages
<1>6. CASE WaitDone \/ WaitTimeout \/ CheckEstablished \/ Quit \/ StopSet \/ FirstLine \/ StopSpeaker
           \/ ParentReaps \/ \E p \in Prefix : Announce(p) \/ Withdraw(p)
  <2>1. Keeps
    BY <1>6 DEF WaitDone, WaitTimeout, CheckEstablished, Quit, StopSet, FirstLine, StopSpeaker,
       ParentReaps, Announce, Withdraw, Command, Keeps, sockVars
  <2> QED
    BY <1>3, <2>1, Messages
<1> QED
  BY <1>4, <1>5, <1>6 DEF Caller

LEMMA SwitchWire == Types /\ Switch => Wire
<1> SUFFICES ASSUME WireTypes, Switch PROVE Wire
  BY DEF Types
<1>1. toSpeaker \in Seq({"open", "keepalive", "notification", "fin"})
  BY DEF WireTypes
<1>2. CASE DutRecv
  <2>1. Takes
    BY <1>2 DEF DutRecv, Takes
  <2>2. \/ toSpeaker' = toSpeaker
        \/ toSpeaker' = toSpeaker \o <<"open", "keepalive">>
        \/ toSpeaker' = toSpeaker \o <<"notification", "fin">>
    BY <1>2 DEF DutRecv
  <2>3. toSpeaker \o <<"open", "keepalive">> \in Seq({"open", "keepalive", "notification", "fin"})
    BY <1>1
  <2>4. toSpeaker \o <<"notification", "fin">> \in Seq({"open", "keepalive", "notification", "fin"})
    BY <1>1
  <2> QED
    BY <1>1, <2>1, <2>2, <2>3, <2>4 DEF Wire
<1>3. CASE DutKeepalive
  <2>1. Keeps /\ toSpeaker' = <<"keepalive">>
    BY <1>3 DEF DutKeepalive, Keeps, sockVars
  <2>2. <<"keepalive">> \in Seq({"open", "keepalive", "notification", "fin"})
    OBVIOUS
  <2> QED
    BY <2>1, <2>2 DEF Wire
<1>4. CASE DutNotify
  <2>1. Keeps /\ toSpeaker' = toSpeaker \o <<"notification", "fin">>
    BY <1>4 DEF DutNotify, Keeps, sockVars
  <2>2. toSpeaker \o <<"notification", "fin">> \in Seq({"open", "keepalive", "notification", "fin"})
    BY <1>1
  <2> QED
    BY <2>1, <2>2 DEF Wire
<1> QED
  BY <1>2, <1>3, <1>4 DEF Switch

LEMMA WireStep == WireTypes /\ Wire => WireTypes'
BY WirePush, WireClose, WireKeep, WireTake DEF Wire

LEMMA PlainThread == Types /\ Thread => PlainTypes' /\ BoolTypes' /\ Unconnected'
<1> SUFFICES ASSUME Types, Thread PROVE PlainTypes' /\ BoolTypes' /\ Unconnected'
  OBVIOUS
<1>1. UNCHANGED <<advertise, stop, mpc, update, commands, line, ppc, dut, rib>>
  BY DEF Thread, Connect, AssignSock, SendOpen, LoopTop, RecvNothing, Recv, Reply, Snapshot,
     AnnounceNext, ClearEstablished, CloseAndDie, mainVars
<1>2. /\ tpc' \in {"assign", "open", "first", "loop", "recv", "reply",
                  "snapshot", "announce", "clear", "close", "dead"}
  BY DEF Thread, Connect, AssignSock, SendOpen, LoopTop, RecvNothing, Recv, Reply, Snapshot,
     AnnounceNext, ClearEstablished, CloseAndDie
<1>3. conn' \in {"none", "up", "down"} /\ attr' \in {"None", "set"}
  BY DEF Thread, Connect, AssignSock, SendOpen, LoopTop, RecvNothing, Recv, Reply, Snapshot,
     AnnounceNext, ClearEstablished, CloseAndDie, CloseSocket, sockVars, Types, PlainTypes
<1>4. todo' \subseteq Prefix
  BY DEF Thread, Connect, AssignSock, SendOpen, LoopTop, RecvNothing, Recv, Reply, Snapshot,
     AnnounceNext, ClearEstablished, CloseAndDie, Types, PlainTypes
<1>6. dropped' \subseteq Prefix
  <2>1. dropped' = dropped \/ \E p \in todo : SendSwallowed(<<"announce", p>>)
    BY DEF Thread, Connect, AssignSock, SendOpen, LoopTop, RecvNothing, Recv, Reply, Snapshot,
       AnnounceNext, ClearEstablished, CloseAndDie
  <2> QED
    BY <2>1 DEF SendSwallowed, Told, Types, PlainTypes
<1>5. BoolTypes'
  BY <1>1 DEF Thread, Connect, AssignSock, SendOpen, LoopTop, RecvNothing, Recv, Reply, Snapshot,
     AnnounceNext, ClearEstablished, CloseAndDie, Types, BoolTypes
<1> QED
  BY <1>1, <1>2, <1>3, <1>4, <1>5, <1>6 DEF Types, PlainTypes, Unconnected

LEMMA PlainCaller == Types /\ Caller => PlainTypes' /\ BoolTypes' /\ Unconnected'
<1> SUFFICES ASSUME Types, Caller PROVE PlainTypes' /\ BoolTypes' /\ Unconnected'
  OBVIOUS
<1> USE DEF Caller, WaitDone, WaitTimeout, CheckEstablished, SendUpdate, Quit, StopSet, StopShut, Join,
     FirstLine, StopSpeaker, ParentReaps, ParentKills, Announce, Withdraw, Command
<1>1. UNCHANGED <<attr, gotOpen, todo, established, dut, rib>>
  BY DEF threadVars, sockVars
<1>2. tpc' \in {tpc, "dead"} /\ conn' \in {conn, "down"} /\ (conn = "none" => conn' = "none")
  BY DEF threadVars, sockVars, ProcessGone, CloseSocket
<1>3. mpc' \in {"wait", "idle", "check", "send", "stop", "shut", "join", "exited"}
  BY DEF mainVars, ProcessGone, Types, PlainTypes
<1>4. /\ line' \in {"none", "ESTABLISHED", "FAILED"} /\ stop' \in BOOLEAN
      /\ ppc' \in {"none", "start", "ready", "quit", "gone"}
  BY DEF mainVars, ProcessGone, Types, PlainTypes, BoolTypes
<1>5. update' \in Message
  BY Messages DEF mainVars, Types, PlainTypes
<1>6. commands' \in 0..MaxCommands
  <2>1. commands' = commands \/ (commands < MaxCommands /\ commands' = commands + 1)
    BY DEF mainVars
  <2> QED
    BY <2>1, SpeakerAssumption DEF Types, PlainTypes
<1>7. advertise' \subseteq Prefix
  BY DEF Types, PlainTypes
<1>8. Types
  OBVIOUS
<1>9. dropped' \subseteq Prefix
  <2>1. dropped' = dropped \/ SendSwallowed(update)
    OBVIOUS
  <2> QED
    BY <2>1 DEF SendSwallowed, Told, Types, PlainTypes
<1> HIDE DEF Caller
<1> QED
  BY <1>1, <1>2, <1>3, <1>4, <1>5, <1>6, <1>7, <1>8, <1>9 DEF Types, PlainTypes, BoolTypes, Unconnected

LEMMA PlainSwitch == Types /\ Switch => PlainTypes' /\ BoolTypes' /\ Unconnected'
<1> SUFFICES ASSUME Types, Switch PROVE PlainTypes' /\ BoolTypes' /\ Unconnected'
  OBVIOUS
<1>1. UNCHANGED <<tpc, gotOpen, todo, conn, attr, advertise, established, stop, mpc, update, commands,
                  line, ppc, dropped>>
  BY DEF Switch, DutRecv, DutKeepalive, DutNotify, threadVars, sockVars, mainVars
<1>2. dut' \in {"idle", "open", "established", "closed"}
  BY DEF Switch, DutRecv, DutKeepalive, DutNotify, Types, PlainTypes
<1>3. rib' \subseteq Prefix
  <2>1. CASE DutRecv
    <3>1. Head(toDut) \in Message
      BY <2>1 DEF DutRecv, Types, WireTypes
    <3>2. Head(toDut)[1] = "announce" => Head(toDut)[2] \in Prefix
      BY <3>1 DEF Message
    <3> QED
      BY <2>1, <3>2 DEF DutRecv, Types, PlainTypes
  <2>2. CASE DutKeepalive \/ DutNotify
    BY <2>2 DEF DutKeepalive, DutNotify, Types, PlainTypes
  <2> QED
    BY <2>1, <2>2 DEF Switch
<1> QED
  BY <1>1, <1>2, <1>3 DEF Types, PlainTypes, BoolTypes, Unconnected

LEMMA TypeStep == Types /\ [Next]_vars => Types'
<1> SUFFICES ASSUME Types, [Next]_vars PROVE Types'
  OBVIOUS
<1>1. CASE UNCHANGED vars
  BY <1>1 DEF Types, WireTypes, PlainTypes, BoolTypes, Unconnected, vars
<1>2. CASE Thread \/ Caller \/ Switch
  <2>1. Wire
    BY <1>2, ThreadWire, CallerWire, SwitchWire
  <2>2. WireTypes'
    BY <2>1, WireStep DEF Types
  <2>3. PlainTypes' /\ BoolTypes' /\ Unconnected'
    BY <1>2, PlainThread, PlainCaller, PlainSwitch
  <2> QED
    BY <2>2, <2>3 DEF Types
<1> QED
  BY <1>1, <1>2, Steps

\* Type correctness, for any prefixes, window and behaviour of the switch.
THEOREM SpeakerTypes == Spec => []TypeOK
BY TypeInit, TypeStep, TypesSuffice, PTL DEF Spec

-----------------------------------------------------------------------------
(* A dead session.                                                         *)

\* A socket that was opened is closed by whoever ends the thread; once it is down, a
\* FIN is the last thing on its way, or the switch has seen it.
WireInv ==
    /\ conn = "none" => /\ attr = "None" /\ dut = "idle"
                        /\ tpc \in {"connect", "clear", "close", "dead"}
    /\ tpc = "dead" => conn # "up"
    /\ attr = "None" => /\ tpc \in {"connect", "assign", "clear", "close", "dead"}
                        /\ conn # "none" => tpc \in {"assign", "dead"}
    /\ conn = "down" => dut = "closed" \/ (toDut # <<>> /\ toDut[Len(toDut)] = <<"fin">>)
    /\ dut # "established" => rib = {}

LEMMA WireThread == Types /\ WireInv /\ Thread => WireInv'
<1> SUFFICES ASSUME Types, WireInv, Thread PROVE WireInv'
  OBVIOUS
<1>0. UNCHANGED <<dut, rib>>
  BY DEF Thread, Connect, AssignSock, SendOpen, LoopTop, RecvNothing, Recv, Reply, Snapshot,
     AnnounceNext, ClearEstablished, CloseAndDie
<1>1. CASE Connect
  BY <1>0, <1>1 DEF Connect, WireInv
<1>2. CASE AssignSock \/ RecvNothing \/ Snapshot \/ ClearEstablished \/ Recv
  <2>1. UNCHANGED <<conn, toDut>> /\ (attr' = attr \/ AssignSock)
    BY <1>2 DEF AssignSock, RecvNothing, Snapshot, ClearEstablished, Recv, sockVars
  <2>2. tpc \in {"assign", "recv", "snapshot", "clear"} /\ tpc' # "dead"
        /\ (tpc = "assign" => attr' = "set")
        /\ (tpc = "clear" => tpc' = "close")
    BY <1>2 DEF AssignSock, RecvNothing, Snapshot, ClearEstablished, Recv
  <2>3. AssignSock => tpc = "assign" /\ attr' = "set"
    BY DEF AssignSock
  <2> QED
    BY <1>0, <2>1, <2>2, <2>3 DEF WireInv, Types, PlainTypes
<1>3. CASE SendOpen \/ LoopTop \/ Reply \/ AnnounceNext
  <2>1. UNCHANGED <<conn, attr>> /\ (toDut' = toDut \/ conn = "up")
    BY <1>3 DEF SendOpen, LoopTop, Reply, AnnounceNext, Send, SendFails, SendTimesOut, SendRaises,
       SendSwallowed
  <2>2. tpc \in {"open", "first", "loop", "reply", "announce"} /\ tpc' # "dead"
    BY <1>3 DEF SendOpen, LoopTop, Reply, AnnounceNext
  <2> QED
    BY <1>0, <2>1, <2>2 DEF WireInv
<1>4. CASE CloseAndDie
  <2>1. CASE attr = "set" /\ conn = "up"
    <3>1. conn' = "down" /\ toDut' = Append(toDut, <<"fin">>) /\ tpc' = "dead" /\ attr' = attr
      BY <1>4, <2>1 DEF CloseAndDie, CloseSocket
    <3>2. toDut' # <<>> /\ toDut'[Len(toDut')] = <<"fin">>
      BY <3>1 DEF Types, WireTypes
    <3> QED
      BY <1>0, <2>1, <3>1, <3>2 DEF WireInv
  <2>2. CASE attr # "set" \/ conn # "up"
    <3>1. UNCHANGED <<conn, toDut, attr>> /\ tpc = "close" /\ tpc' = "dead"
      BY <1>4, <2>2 DEF CloseAndDie, CloseSocket
    <3> QED
      BY <1>0, <2>2, <3>1 DEF WireInv, Types, PlainTypes
  <2> QED
    BY <2>1, <2>2
<1> QED
  BY <1>1, <1>2, <1>3, <1>4 DEF Thread

LEMMA WireCaller == Types /\ WireInv /\ Caller => WireInv'
<1> SUFFICES ASSUME Types, WireInv, Caller PROVE WireInv'
  OBVIOUS
<1>0. UNCHANGED <<attr, dut, rib>>
  BY DEF Caller, WaitDone, WaitTimeout, CheckEstablished, SendUpdate, Quit, StopSet, StopShut, Join,
     FirstLine, StopSpeaker, ParentReaps, ParentKills, Announce, Withdraw, Command, sockVars
<1>1. ASSUME CloseSocket, tpc' \in {tpc, "dead"}
      PROVE  WireInv'
  <2>1. CASE conn = "up"
    <3>1. conn' = "down" /\ toDut' = Append(toDut, <<"fin">>)
      BY <1>1, <2>1 DEF CloseSocket
    <3>2. toDut' # <<>> /\ toDut'[Len(toDut')] = <<"fin">>
      BY <3>1 DEF Types, WireTypes
    <3> QED
      BY <1>0, <1>1, <2>1, <3>1, <3>2 DEF WireInv
  <2>2. CASE conn # "up"
    <3>1. UNCHANGED <<conn, toDut>>
      BY <1>1, <2>2 DEF CloseSocket
    <3> QED
      BY <1>0, <1>1, <2>2, <3>1 DEF WireInv
  <2> QED
    BY <2>1, <2>2
<1>2. ASSUME UNCHANGED <<tpc, conn, toDut>>
      PROVE  WireInv'
  BY <1>0, <1>2 DEF WireInv
<1>3. CASE SendUpdate
  <2>1. UNCHANGED <<tpc, conn>> /\ (toDut' = toDut \/ conn = "up")
    BY <1>3 DEF SendUpdate, SendSwallowed, Send, SendFails, SendTimesOut, threadVars
  <2> QED
    BY <1>0, <2>1 DEF WireInv
<1>4. CASE StopShut \/ Join(TRUE) \/ Join(FALSE) \/ ParentKills
  <2>1. (CloseSocket /\ tpc' \in {tpc, "dead"}) \/ UNCHANGED <<tpc, conn, toDut>>
    BY <1>4 DEF StopShut, Join, ParentKills, ProcessGone, threadVars
  <2> QED
    BY <1>1, <1>2, <2>1
<1>5. CASE WaitDone \/ WaitTimeout \/ CheckEstablished \/ Quit \/ StopSet \/ FirstLine \/ StopSpeaker
           \/ ParentReaps \/ \E p \in Prefix : Announce(p) \/ Withdraw(p)
  <2>1. UNCHANGED <<tpc, conn, toDut>>
    BY <1>5 DEF WaitDone, WaitTimeout, CheckEstablished, Quit, StopSet, FirstLine, StopSpeaker,
       ParentReaps, Announce, Withdraw, Command, sockVars, threadVars
  <2> QED
    BY <1>2, <2>1
<1> QED
  BY <1>3, <1>4, <1>5 DEF Caller

\* Lengths, away from the sequences they measure.
LEMMA Lengths ==
    /\ \A n \in Nat \ {0} : n # 1 => n > 1
    /\ \A n \in Nat : n > 1 => n - 1 # 0
OBVIOUS

\* Taking the first of several messages leaves the last one where it is.
LEMMA TailLast ==
    ASSUME NEW S, NEW s \in Seq(S), Len(s) > 1
    PROVE  Tail(s) # <<>> /\ Tail(s)[Len(Tail(s))] = s[Len(s)]
<1>1. Len(Tail(s)) = Len(s) - 1 /\ Len(s) - 1 \in 1..Len(s)
  OBVIOUS
<1>2. Tail(s)[Len(s) - 1] = s[(Len(s) - 1) + 1]
  BY <1>1
<1>3. (Len(s) - 1) + 1 = Len(s)
  OBVIOUS
<1>6. Len(<<>>) = 0
  OBVIOUS
<1>4. Len(s) \in Nat
  OBVIOUS
<1>7. Len(s) - 1 # 0
  BY <1>4, Lengths, Zenon
<1>5. Tail(s) # <<>>
  BY <1>1, <1>6, <1>7, Zenon
<1> QED
  BY <1>1, <1>2, <1>3, <1>5

LEMMA WireSwitch == Types /\ WireInv /\ Switch => WireInv'
<1> SUFFICES ASSUME Types, WireInv, Switch PROVE WireInv'
  OBVIOUS
<1>0. UNCHANGED <<tpc, conn, attr>>
  BY DEF Switch, DutRecv, DutKeepalive, DutNotify, threadVars, sockVars
<1>1. CASE DutRecv
  <2>1. conn # "none" /\ toDut # <<>> /\ toDut' = Tail(toDut)
    BY <1>1 DEF DutRecv, Types, WireTypes
  <2>2. dut' # "established" => rib' = {}
    BY <1>1 DEF DutRecv, WireInv
  <2>3. dut = "closed" \/ Head(toDut)[1] = "fin" => dut' = "closed"
    BY <1>1 DEF DutRecv
  <2>4. CASE Len(toDut) = 1
    <3>1. toDut[Len(toDut)] = Head(toDut)
      BY <2>1, <2>4 DEF Types, WireTypes
    <3>2. toDut[Len(toDut)] = <<"fin">> => Head(toDut)[1] = "fin"
      BY <3>1
    <3> QED
      BY <1>0, <2>1, <2>2, <2>3, <3>2 DEF WireInv
  <2>5. CASE Len(toDut) # 1
    <3>a. toDut \in Seq(Message)
      BY DEF Types, WireTypes
    <3>b. Len(toDut) > 1
      <4>0. toDut # <<>>
        BY <2>1
      <4>1. Len(toDut) \in Nat \ {0}
        BY <4>0, <3>a, EmptySeq, Zenon
      <4> QED
        BY <2>5, <4>1, Lengths, Zenon
    <3>1. toDut' # <<>> /\ toDut'[Len(toDut')] = toDut[Len(toDut)]
      BY <2>1, <3>a, <3>b, TailLast
    <3> QED
      BY <1>0, <2>1, <2>2, <2>3, <3>1 DEF WireInv
  <2> QED
    BY <2>4, <2>5
<1>2. CASE DutKeepalive
  BY <1>0, <1>2 DEF DutKeepalive, WireInv, sockVars
<1>3. CASE DutNotify
  BY <1>0, <1>3 DEF DutNotify, WireInv, sockVars
<1> QED
  BY <1>1, <1>2, <1>3 DEF Switch

LEMMA WireInvStep == Types /\ WireInv /\ [Next]_vars => WireInv'
<1>1. WireInv /\ UNCHANGED vars => WireInv'
  BY DEF WireInv, vars
<1> QED
  BY <1>1, WireThread, WireCaller, WireSwitch, Steps

LEMMA WireInvInit == Init => WireInv
BY DEF Init, WireInv

\* A dead thread leaves no route, whichever of the thread, stop(), the end of the
\* process and a kill closed the socket, and in whatever order.
THEOREM DeadSessionsClear == Spec => []DeadMeansCleared
<1>1. Types /\ WireInv => DeadMeansCleared
  BY DEF Types, PlainTypes, WireInv, DeadMeansCleared
<1> QED
  BY <1>1, TypeInit, TypeStep, WireInvInit, WireInvStep, PTL DEF Spec
-----------------------------------------------------------------------------
(* An advertised prefix on its way.                                        *)

\* Either x holds and no w is in s, or an a is in s with no w behind it.
Lands(x, s, a, w) ==
    \E i \in 0..Len(s) :
       /\ IF i = 0 THEN x ELSE s[i] = a
       /\ \A j \in 1..Len(s) : j > i => s[j] # w

\* What the switch has read and what it has still to read leave it with p.
Landing(p) == Lands(p \in rib, toDut, <<"announce", p>>, <<"withdraw", p>>)

\* The thread or the caller has still to send p, or p was sent, or its send timed out.
Followed(p) ==
    \/ tpc = "announce" /\ p \in todo
    \/ mpc \in {"check", "send"} /\ update = <<"announce", p>>
    \/ Landing(p)
    \/ p \in dropped

\* The session is ending, or the thread has not copied the list yet.
Over == conn = "down" \/ tpc \in {"clear", "close", "dead"} \/ dut = "closed"
Early == tpc = "snapshot" \/ ~established

\* Between the copy and the end, every advertised prefix is followed; a prefix
\* the caller is about to withdraw is off the list already.
AnnounceInv ==
    /\ tpc \in {"snapshot", "announce"} => established
    /\ tpc \in {"connect", "assign"} => ~established
    /\ mpc \in {"check", "send"} =>
          \A p \in Prefix : update = <<"withdraw", p>> => p \notin advertise
    /\ Over \/ Early \/ \A p \in advertise : Followed(p)

LEMMA LandsAppend ==
    ASSUME NEW S, NEW s \in Seq(S), NEW m \in S, NEW x, NEW a, NEW w, m # w, Lands(x, s, a, w)
    PROVE  Lands(x, Append(s, m), a, w)
<1>1. PICK i \in 0..Len(s) :
         (IF i = 0 THEN x ELSE s[i] = a) /\ \A j \in 1..Len(s) : j > i => s[j] # w
  BY DEF Lands
<1>2. Len(Append(s, m)) = Len(s) + 1 /\ Len(s) \in Nat
  OBVIOUS
<1>3. \A j \in 1..Len(s) : Append(s, m)[j] = s[j]
  OBVIOUS
<1>4. Append(s, m)[Len(s) + 1] = m
  OBVIOUS
<1>5. IF i = 0 THEN x ELSE Append(s, m)[i] = a
  BY <1>1, <1>3
<1>6. \A j \in 1..(Len(s) + 1) : j > i => Append(s, m)[j] # w
  <2> TAKE j \in 1..(Len(s) + 1)
  <2>1. CASE j = Len(s) + 1
    BY <2>1, <1>4
  <2>2. CASE j # Len(s) + 1
    <3>1. j \in 1..Len(s)
      BY <1>2, <2>2
    <3> QED
      BY <3>1, <1>1, <1>3
  <2> QED
    BY <2>1, <2>2
<1>7. i \in 0..(Len(s) + 1)
  BY <1>2
<1> QED
  BY <1>2, <1>5, <1>6, <1>7 DEF Lands

LEMMA LandsSent ==
    ASSUME NEW S, NEW s \in Seq(S), NEW a \in S, NEW x, NEW w
    PROVE  Lands(x, Append(s, a), a, w)
<1> DEFINE n == Len(s) + 1
<1>1. Len(Append(s, a)) = n /\ n \in 0..n /\ n # 0 /\ Append(s, a)[n] = a
  OBVIOUS
<1>2. \A j \in 1..n : ~(j > n)
  OBVIOUS
<1> HIDE DEF n
<1> QED
  BY <1>1, <1>2 DEF Lands

LEMMA LandsTail ==
    ASSUME NEW S, NEW s \in Seq(S), s # <<>>, NEW x, NEW y, NEW a, NEW w, Lands(x, s, a, w),
           x /\ Head(s) # w => y, Head(s) = a => y
    PROVE  Lands(y, Tail(s), a, w)
<1>1. PICK i \in 0..Len(s) :
         (IF i = 0 THEN x ELSE s[i] = a) /\ \A j \in 1..Len(s) : j > i => s[j] # w
  BY DEF Lands
<1> DEFINE n == Len(s)
           t == Tail(s)
<1>2. n \in Nat \ {0}
  BY EmptySeq, Zenon
<1>3. Len(t) = n - 1 /\ \A j \in 1..(n - 1) : t[j] = s[j + 1]
  BY <1>2
<1>4. Head(s) = s[1]
  OBVIOUS
<1>5. \A j \in 1..n : j > i => s[j] # w
  BY <1>1
<1>6. IF i = 0 THEN x ELSE s[i] = a
  BY <1>1
<1>7. i \in 0..n
  OBVIOUS
<1> HIDE DEF n, t
<1>8. \A j \in 1..(n - 1) : j > i - 1 => t[j] # w
  BY <1>2, <1>3, <1>5, <1>7
<1>9. CASE i > 1
  <2>1. i - 1 \in 0..(n - 1) /\ i - 1 # 0 /\ t[i - 1] = a
    BY <1>2, <1>3, <1>6, <1>7, <1>9
  <2>2. Lands(y, t, a, w)
    BY <1>3, <1>8, <2>1 DEF Lands
  <2> QED
    BY <2>2 DEF t
<1>10. CASE i = 0 \/ i = 1
  <2>1. y
    <3>1. CASE i = 0
      BY <3>1, <1>2, <1>4, <1>5, <1>6
    <3>2. CASE i = 1
      BY <3>2, <1>4, <1>6
    <3> QED
      BY <1>10, <3>1, <3>2
  <2>2. \A j \in 1..(n - 1) : j > 0 => t[j] # w
    BY <1>2, <1>8, <1>10
  <2>3. 0 \in 0..(n - 1)
    BY <1>2
  <2>4. Lands(y, t, a, w)
    BY <1>3, <2>1, <2>2, <2>3 DEF Lands
  <2> QED
    BY <2>4 DEF t
<1> QED
  BY <1>7, <1>9, <1>10

\* A message that does not withdraw p leaves it on its way ...
LEMMA LandingKept ==
    ASSUME Types, NEW p, Landing(p), rib' = rib, NEW m \in Message, m # <<"withdraw", p>>,
           toDut' = toDut \/ toDut' = Append(toDut, m)
    PROVE  Landing(p)'
<1>1. toDut \in Seq(Message)
  BY DEF Types, WireTypes
<1>2. CASE toDut' = toDut
  BY <1>2 DEF Landing
<1>3. CASE toDut' = Append(toDut, m)
  BY <1>1, <1>3, LandsAppend DEF Landing
<1> QED
  BY <1>2, <1>3

\* ... and its own announcement puts it there.
LEMMA LandingSent ==
    ASSUME Types, NEW p \in Prefix, toDut' = Append(toDut, <<"announce", p>>)
    PROVE  Landing(p)'
BY LandsSent, Messages DEF Landing, Types, WireTypes

\* Swallowed or not, the send of an update on a live connection keeps p on its way or
\* on record as dropped, and puts it there when the update announces it.
Settled(p) == Landing(p) \/ p \in dropped

LEMMA SwallowedSettles ==
    ASSUME Types, NEW m \in Message, SendSwallowed(m), ~SendFails, rib' = rib,
           NEW p \in Prefix, m # <<"withdraw", p>>, Settled(p) \/ m = <<"announce", p>>
    PROVE  Settled(p)'
<1>1. CASE Send(m) /\ dropped' = dropped \ Told(m)
  <2>0. toDut' = Append(toDut, m)
    BY <1>1 DEF Send
  <2>1. CASE m = <<"announce", p>>
    BY <2>0, <2>1, LandingSent DEF Settled
  <2>2. CASE m # <<"announce", p>>
    <3>1. p \notin Told(m)
      BY <2>2 DEF Told
    <3>2. Landing(p) => Landing(p)'
      BY <2>0, LandingKept
    <3> QED
      BY <1>1, <2>2, <3>1, <3>2 DEF Settled
  <2> QED
    BY <2>1, <2>2
<1>2. CASE SendTimesOut /\ dropped' = dropped \cup Told(m)
  <2>1. toDut' = toDut \/ toDut' = Append(toDut, <<"torn">>)
    BY <1>2 DEF SendTimesOut
  <2>2. Landing(p) => Landing(p)'
    BY <2>1, LandingKept, Messages, MessageKinds
  <2>3. m = <<"announce", p>> => p \in Told(m)
    BY DEF Told
  <2> QED
    BY <1>2, <2>2, <2>3 DEF Settled
<1> QED
  BY <1>1, <1>2 DEF SendSwallowed

\* The end of a session is final.
LEMMA OverStays == Types /\ Over /\ (Thread \/ Caller \/ Switch) => Over'
<1>1. Types /\ Over /\ Thread => Over'
  <2>1. Thread => dut' = dut /\ (tpc \in {"clear", "close"} => tpc' \in {"close", "dead"}) /\ tpc # "dead"
    BY DEF Thread, Connect, AssignSock, SendOpen, LoopTop, RecvNothing, Recv, Reply, Snapshot,
       AnnounceNext, ClearEstablished, CloseAndDie
  <2>2. Unconnected /\ Thread /\ conn = "down" => conn' = "down"
    BY DEF Unconnected, Thread, Connect, AssignSock, SendOpen, LoopTop, RecvNothing, Recv, Reply,
       Snapshot, AnnounceNext, ClearEstablished, CloseAndDie, CloseSocket, sockVars
  <2> QED
    BY <2>1, <2>2 DEF Over, Types
<1>2. Over /\ Caller => Over'
  BY DEF Over, Caller, WaitDone, WaitTimeout, CheckEstablished, SendUpdate, Quit, StopSet, StopShut,
     Join, FirstLine, StopSpeaker, ParentReaps, ParentKills, Announce, Withdraw, Command, ProcessGone,
     CloseSocket, sockVars, threadVars
<1>3. Over /\ Switch => Over'
  BY DEF Over, Switch, DutRecv, DutKeepalive, DutNotify, sockVars, threadVars
<1> QED
  BY <1>1, <1>2, <1>3

\* A send fails only when the session is over or not established.
LEMMA FailsOver == Types /\ WireInv /\ AnnounceInv /\ SendFails => Over \/ ~established
BY DEF Types, PlainTypes, WireInv, AnnounceInv, SendFails, Over

LEMMA AnnounceThread == Types /\ WireInv /\ AnnounceInv /\ Thread => AnnounceInv'
<1> SUFFICES ASSUME Types, WireInv, AnnounceInv, Thread PROVE AnnounceInv'
  OBVIOUS
<1>0. UNCHANGED <<advertise, mpc, update, dut, rib>>
  BY DEF Thread, Connect, AssignSock, SendOpen, LoopTop, RecvNothing, Recv, Reply, Snapshot,
     AnnounceNext, ClearEstablished, CloseAndDie, mainVars
<1>1. /\ tpc' \in {"snapshot", "announce"} => established'
      /\ tpc' \in {"connect", "assign"} => ~established'
  <2>0. /\ tpc \in {"snapshot", "announce"} => established
        /\ tpc \in {"connect", "assign"} => ~established
    BY DEF AnnounceInv
  <2>1. CASE Connect
    BY <2>0, <2>1 DEF Connect
  <2>2. CASE Snapshot \/ AnnounceNext
    BY <2>0, <2>2 DEF Snapshot, AnnounceNext
  <2>3. CASE Recv
    <3>1. tpc' \in {"reply", "loop", "clear"} \/ (tpc' = "snapshot" /\ established' = TRUE)
      BY <2>3 DEF Recv
    <3> QED
      BY <3>1
  <2>4. CASE ~Connect /\ ~Snapshot /\ ~AnnounceNext /\ ~Recv
    <3>1. tpc' \notin {"snapshot", "announce", "connect", "assign"}
      BY <2>4 DEF Thread, AssignSock, SendOpen, LoopTop, RecvNothing, Reply, ClearEstablished, CloseAndDie
    <3> QED
      BY <3>1
  <2> QED
    BY <2>1, <2>2, <2>3, <2>4
<1>2. mpc' \in {"check", "send"} =>
         \A p \in Prefix : update' = <<"withdraw", p>> => p \notin advertise'
  BY <1>0 DEF AnnounceInv
<1>3. Over' \/ Early' \/ \A p \in advertise : Followed(p)'
  <2>1. CASE Over
    BY <2>1, OverStays
  <2>2. CASE ~Over /\ Early
    <3>1. CASE Snapshot
      BY <3>1, <1>0 DEF Snapshot, Followed
    <3>2. CASE ~Snapshot
      BY <2>2, <3>2 DEF Over, Early, Thread, Connect, AssignSock, SendOpen, LoopTop, RecvNothing, Recv,
         Reply, AnnounceNext, ClearEstablished, CloseAndDie, Snapshot, AnnounceInv
    <3> QED
      BY <3>1, <3>2
  <2>3. CASE ~Over /\ ~Early
    <3>1. \A p \in advertise : Followed(p)
      BY <2>3 DEF AnnounceInv
    <3>2. CASE AnnounceNext
      <4>1. CASE todo = {} /\ UNCHANGED <<toDut, dropped>>
        <5>1. ASSUME NEW p \in advertise PROVE Followed(p)'
          <6>1. (mpc \in {"check", "send"} /\ update = <<"announce", p>>) \/ Settled(p)
            BY <3>1, <4>1 DEF Followed, Settled
          <6>2. Settled(p) => Settled(p)'
            BY <1>0, <4>1 DEF Landing, Settled
          <6> QED
            BY <1>0, <6>1, <6>2 DEF Followed, Settled
        <5> QED
          BY <5>1
      <4>2. CASE \E q \in todo : /\ SendSwallowed(<<"announce", q>>)
                                 /\ todo' = todo \ {q} /\ UNCHANGED tpc
        <5>1. PICK q \in todo : /\ SendSwallowed(<<"announce", q>>)
                                /\ todo' = todo \ {q} /\ UNCHANGED tpc
          BY <4>2
        <5>2. q \in Prefix /\ <<"announce", q>> \in Message
          BY Messages DEF Types, PlainTypes
        <5>3. ~SendFails
          BY <2>3, FailsOver DEF Early
        <5>4. \A p \in Prefix : Settled(p) \/ p = q => Settled(p)'
          BY <1>0, <5>1, <5>2, <5>3, SwallowedSettles, MessageKinds
        <5>5. ASSUME NEW p \in advertise PROVE Followed(p)'
          <6>0. p \in Prefix
            BY DEF Types, PlainTypes
          <6>1. CASE tpc = "announce" /\ p \in todo /\ p # q
            BY <6>1, <5>1 DEF Followed
          <6>2. CASE mpc \in {"check", "send"} /\ update = <<"announce", p>>
            BY <6>2, <1>0 DEF Followed
          <6>3. CASE Settled(p) \/ p = q
            <7>1. Settled(p)'
              BY <6>0, <6>3, <5>4
            <7> QED
              BY <7>1 DEF Followed, Settled
          <6> QED
            BY <3>1, <6>1, <6>2, <6>3 DEF Followed, Settled
        <5> QED
          BY <5>5
      <4> QED
        BY <3>2, <4>1, <4>2 DEF AnnounceNext
    <3>3. CASE SendOpen \/ LoopTop \/ Reply \/ AssignSock \/ RecvNothing \/ Recv
      <4>1. tpc \notin {"announce", "snapshot"} /\ dropped' = dropped
        BY <3>3 DEF SendOpen, LoopTop, Reply, AssignSock, RecvNothing, Recv
      <4>2. \E m \in {<<"open">>, <<"keepalive">>, <<"torn">>} : toDut' = toDut \/ toDut' = Append(toDut, m)
        BY <3>3 DEF SendOpen, LoopTop, Reply, AssignSock, RecvNothing, Recv, Send, SendRaises, SendFails,
           SendTimesOut
      <4>3. PICK m \in {<<"open">>, <<"keepalive">>, <<"torn">>} : toDut' = toDut \/ toDut' = Append(toDut, m)
        BY <4>2
      <4>4. ASSUME NEW p \in advertise PROVE Followed(p)'
        <5>1. m \in Message /\ m # <<"withdraw", p>>
          BY Messages, MessageKinds
        <5>2. Landing(p) => Landing(p)'
          BY <1>0, <4>3, <5>1, LandingKept
        <5> QED
          BY <1>0, <3>1, <4>1, <5>2 DEF Followed
      <4> QED
        BY <4>4
    <3>4. CASE Connect \/ Snapshot \/ ClearEstablished \/ CloseAndDie
      BY <2>3, <3>4 DEF Over, Early, Connect, Snapshot, ClearEstablished, CloseAndDie, AnnounceInv
    <3> QED
      BY <3>2, <3>3, <3>4 DEF Thread
  <2> QED
    BY <2>1, <2>2, <2>3
<1> QED
  BY <1>0, <1>1, <1>2, <1>3 DEF AnnounceInv

LEMMA AnnounceCaller == Types /\ WireInv /\ AnnounceInv /\ Caller => AnnounceInv'
<1> SUFFICES ASSUME Types, WireInv, AnnounceInv, Caller PROVE AnnounceInv'
  OBVIOUS
<1>0. UNCHANGED <<attr, todo, established, dut, rib>> /\ tpc' \in {tpc, "dead"}
  BY DEF Caller, WaitDone, WaitTimeout, CheckEstablished, SendUpdate, Quit, StopSet, StopShut, Join,
     FirstLine, StopSpeaker, ParentReaps, ParentKills, Announce, Withdraw, Command, ProcessGone,
     sockVars, threadVars
<1>1. /\ tpc' \in {"snapshot", "announce"} => established'
      /\ tpc' \in {"connect", "assign"} => ~established'
  BY <1>0 DEF AnnounceInv
<1>2. mpc' \in {"check", "send"} =>
         \A p \in Prefix : update' = <<"withdraw", p>> => p \notin advertise'
  <2>1. CASE \E q \in Prefix : Announce(q)
    <3>1. PICK q \in Prefix : Announce(q)
      BY <2>1
    <3>2. update' = <<"announce", q>>
      BY <3>1 DEF Announce, Command
    <3> QED
      BY <3>2, MessageKinds
  <2>2. CASE \E q \in Prefix : Withdraw(q)
    <3>1. PICK q \in Prefix : Withdraw(q)
      BY <2>2
    <3>2. update' = <<"withdraw", q>> /\ q \notin advertise'
      BY <3>1 DEF Withdraw, Command
    <3>3. \A p : <<"withdraw", p>> = <<"withdraw", q>> => p = q
      OBVIOUS
    <3> QED
      BY <3>2, <3>3
  <2>3. CASE ~\E q \in Prefix : Announce(q) \/ Withdraw(q)
    <3>1. UNCHANGED <<update, advertise>> /\ (mpc' \in {"check", "send"} => mpc \in {"check", "send"})
      BY <2>3 DEF Caller, WaitDone, WaitTimeout, CheckEstablished, SendUpdate, Quit, StopSet, StopShut,
         Join, FirstLine, StopSpeaker, ParentReaps, ParentKills, ProcessGone, mainVars
    <3> QED
      BY <3>1 DEF AnnounceInv
  <2> QED
    BY <2>1, <2>2, <2>3
<1>3. Over' \/ Early' \/ \A p \in advertise' : Followed(p)'
  <2>1. CASE Over
    BY <2>1, OverStays
  <2>2. CASE Early
    BY <2>2, <1>0 DEF Early, Over
  <2>3. CASE ~Over /\ ~Early
    <3>1. \A p \in advertise : Followed(p)
      BY <2>3 DEF AnnounceInv
    <3>2. CASE SendUpdate
      <4>1. ~SendFails
        BY <2>3, FailsOver DEF Early
      <4>2. SendSwallowed(update) /\ UNCHANGED <<tpc, advertise>> /\ mpc = "send"
        BY <3>2 DEF SendUpdate, threadVars
      <4>3. ASSUME NEW p \in advertise PROVE Followed(p)'
        <5>1. p \in Prefix /\ update \in Message
          BY DEF Types, PlainTypes
        <5>2. update # <<"withdraw", p>>
          BY <4>2, <5>1 DEF AnnounceInv
        <5>3. Settled(p) \/ update = <<"announce", p>> => Settled(p)'
          BY <1>0, <4>1, <4>2, <5>1, <5>2, SwallowedSettles
        <5> QED
          BY <1>0, <3>1, <4>2, <5>3 DEF Followed, Settled
      <4> QED
        BY <4>2, <4>3
    <3>3. CASE CheckEstablished
      <4>1. established
        BY <2>3 DEF Early
      <4>2. attr = "set"
        BY <2>3, <4>1 DEF Types, PlainTypes, WireInv, AnnounceInv, Over
      <4>3. mpc' = "send" /\ UNCHANGED <<tpc, advertise, update, toDut, dropped>>
        BY <3>3, <4>1, <4>2 DEF CheckEstablished, threadVars, sockVars
      <4>4. ASSUME NEW p \in advertise PROVE Followed(p)'
        <5>1. Landing(p) => Landing(p)'
          BY <1>0, <4>3 DEF Landing
        <5> QED
          BY <1>0, <3>1, <4>3, <5>1 DEF Followed
      <4> QED
        BY <4>3, <4>4
    <3>4. CASE \E q \in Prefix : Announce(q) \/ Withdraw(q)
      <4>1. PICK q \in Prefix : Announce(q) \/ Withdraw(q)
        BY <3>4
      <4>2. mpc = "idle" /\ mpc' = "check" /\ UNCHANGED <<tpc, toDut, dropped>>
        BY <4>1 DEF Announce, Withdraw, Command, threadVars, sockVars
      <4>3. \/ advertise' \subseteq advertise
            \/ advertise' = advertise \cup {q} /\ update' = <<"announce", q>>
        BY <4>1 DEF Announce, Withdraw, Command
      <4>4. ASSUME NEW p \in advertise' PROVE Followed(p)'
        <5>1. CASE p \in advertise
          <6>1. Landing(p) => Landing(p)'
            BY <1>0, <4>2 DEF Landing
          <6> QED
            BY <1>0, <3>1, <4>2, <5>1, <6>1 DEF Followed
        <5>2. CASE p \notin advertise
          BY <4>2, <4>3, <5>2 DEF Followed
        <5> QED
          BY <5>1, <5>2
      <4> QED
        BY <4>4
    <3>5. CASE StopShut \/ Join(TRUE) \/ Join(FALSE) \/ ParentKills
      <4>1. \/ tpc' = "dead"
            \/ /\ UNCHANGED <<advertise, dropped>> /\ mpc \notin {"check", "send"}
               /\ Over' \/ UNCHANGED <<tpc, toDut>>
        BY <3>5 DEF StopShut, Join, ParentKills, ProcessGone, CloseSocket, Over, threadVars
      <4>2. CASE tpc' = "dead" \/ Over'
        BY <4>2 DEF Over
      <4>3. CASE ~(tpc' = "dead" \/ Over')
        <5>1. ASSUME NEW p \in advertise PROVE Followed(p)'
          <6>1. Landing(p) => Landing(p)'
            BY <1>0, <4>1, <4>3 DEF Landing
          <6> QED
            BY <1>0, <3>1, <4>1, <4>3, <6>1 DEF Followed
        <5> QED
          BY <4>1, <4>3, <5>1
      <4> QED
        BY <4>2, <4>3
    <3>6. CASE WaitDone \/ WaitTimeout \/ Quit \/ StopSet \/ FirstLine \/ StopSpeaker \/ ParentReaps
      <4>1. UNCHANGED <<tpc, toDut, advertise, update, dropped>>
            /\ (mpc \in {"check", "send"} => mpc' = mpc)
        BY <3>6 DEF WaitDone, WaitTimeout, Quit, StopSet, FirstLine, StopSpeaker, ParentReaps,
           mainVars, sockVars, threadVars
      <4>2. ASSUME NEW p \in advertise PROVE Followed(p)'
        <5>1. Landing(p) => Landing(p)'
          BY <1>0, <4>1 DEF Landing
        <5> QED
          BY <1>0, <3>1, <4>1, <5>1 DEF Followed
      <4> QED
        BY <4>1, <4>2
    <3> QED
      BY <3>2, <3>3, <3>4, <3>5, <3>6 DEF Caller
  <2> QED
    BY <2>1, <2>2, <2>3
<1> QED
  BY <1>1, <1>2, <1>3 DEF AnnounceInv

LEMMA AnnounceSwitch == Types /\ WireInv /\ AnnounceInv /\ Switch => AnnounceInv'
<1> SUFFICES ASSUME Types, WireInv, AnnounceInv, Switch PROVE AnnounceInv'
  OBVIOUS
<1>1. UNCHANGED <<tpc, todo, conn, advertise, established, mpc, update, dropped>>
  BY DEF Switch, DutRecv, DutKeepalive, DutNotify, threadVars, sockVars, mainVars
<1>2. Over' \/ Early' \/ \A p \in advertise : Followed(p)'
  <2>1. CASE Over
    BY <2>1, OverStays
  <2>2. CASE Early
    BY <2>2, <1>1 DEF Early
  <2>3. CASE ~Over /\ ~Early /\ dut' # "closed"
    <3>1. \A p \in advertise : Followed(p)
      BY <2>3 DEF AnnounceInv
    <3>2. ASSUME NEW p \in advertise PROVE Landing(p) => Landing(p)'
      <4>1. CASE DutKeepalive \/ DutNotify
        <5>1. UNCHANGED <<toDut, rib>>
          BY <2>3, <4>1 DEF DutKeepalive, DutNotify, sockVars
        <5> QED
          BY <5>1 DEF Landing
      <4>2. CASE DutRecv
        <5>1. toDut \in Seq(Message) /\ toDut # <<>> /\ toDut' = Tail(toDut)
          BY <4>2 DEF DutRecv, Types, WireTypes
        <5>2. \/ rib' = rib /\ Head(toDut)[1] # "announce"
              \/ rib' = rib \cup {Head(toDut)[2]} /\ Head(toDut)[1] = "announce"
              \/ rib' = rib \ {Head(toDut)[2]} /\ Head(toDut)[1] = "withdraw"
          BY <2>3, <4>2 DEF DutRecv, Over
        <5>3. Head(toDut) = <<"announce", p>> => p \in rib'
          BY <5>2
        <5>4. p \in rib /\ Head(toDut) # <<"withdraw", p>> => p \in rib'
          <6>1. Head(toDut) \in Message
            BY <5>1
          <6>2. Head(toDut)[1] = "withdraw" => Head(toDut) = <<"withdraw", Head(toDut)[2]>>
            BY <6>1 DEF Message
          <6> QED
            BY <5>2, <6>2
        <5>5. Lands(p \in rib, toDut, <<"announce", p>>, <<"withdraw", p>>) =>
              Lands(p \in rib', Tail(toDut), <<"announce", p>>, <<"withdraw", p>>)
          BY <5>1, <5>3, <5>4, LandsTail
        <5> QED
          BY <5>1, <5>5 DEF Landing
      <4> QED
        BY <4>1, <4>2 DEF Switch
    <3> QED
      BY <1>1, <3>1, <3>2 DEF Followed
  <2>4. CASE dut' = "closed"
    BY <2>4 DEF Over
  <2> QED
    BY <2>1, <2>2, <2>3, <2>4
<1> QED
  BY <1>1, <1>2 DEF AnnounceInv

LEMMA AnnounceStep == Types /\ WireInv /\ AnnounceInv /\ [Next]_vars => AnnounceInv'
<1>1. AnnounceInv /\ UNCHANGED vars => AnnounceInv'
  BY DEF AnnounceInv, Over, Early, Followed, Landing, vars
<1> QED
  BY <1>1, AnnounceThread, AnnounceCaller, AnnounceSwitch, Steps

LEMMA AnnounceInit == Init => AnnounceInv
BY DEF Init, AnnounceInv, Early

\* Nothing in flight and nobody busy: a prefix that is followed has landed.
LEMMA AnnounceSuffices == Types /\ WireInv /\ AnnounceInv => NoLostAnnounce
<1> SUFFICES ASSUME Types, WireInv, AnnounceInv, Quiescent, NEW p \in advertise \ dropped
             PROVE  p \in rib
  BY DEF NoLostAnnounce
<1>1. tpc = "recv" /\ established /\ mpc = "idle" /\ toDut = <<>> /\ dut = "established"
  BY DEF Quiescent
<1>2. ~Over /\ ~Early
  BY <1>1 DEF Over, Early, WireInv
<1>3. Landing(p)
  BY <1>1, <1>2 DEF AnnounceInv, Followed
<1>4. \E i \in 0..Len(<<>>) : IF i = 0 THEN p \in rib ELSE <<>>[i] = <<"announce", p>>
  BY <1>1, <1>3 DEF Landing, Lands
<1>5. Len(<<>>) = 0 /\ 0..0 = {0}
  OBVIOUS
<1> QED
  BY <1>4, <1>5

\* Once the session is established and quiet, the switch has every prefix on the list,
\* whether it was announced before, during or after the handshake, but for one whose
\* latest announcement ran into the send timeout.
THEOREM AnnouncementsArrive == Spec => []NoLostAnnounce
BY AnnounceSuffices, AnnounceInit, AnnounceStep, TypeInit, TypeStep, WireInvInit, WireInvStep, PTL
   DEF Spec
=============================================================================

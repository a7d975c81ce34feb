----------------------------- MODULE BgpSpeaker -----------------------------
(***************************************************************************)
(* The standard-library BGP peer (servers/bgp_speaker.py) and the process  *)
(* that drives it from a test (topo/netns_peer.py).                        *)
(*                                                                         *)
(* A session thread connects to the switch, shakes hands and announces     *)
(* what is in `advertise`; the caller's thread announces, withdraws and    *)
(* stops.  They share the list, the socket and two Events; the lock is     *)
(* taken by the caller's side only.  In serve mode the caller's thread is  *)
(* the command loop of a subprocess whose parent waits for its first line, *)
(* sends commands one at a time, and ends it with quit, a wait and a kill. *)
(* The switch is modelled from what the speaker relies on.                 *)
(***************************************************************************)
EXTENDS Naturals, Sequences

CONSTANTS
    Prefix,       \* the prefixes of a test
    InitAdv,      \* the `advertise` argument
    Window,       \* bound: messages in flight to the switch before a send blocks
    MaxCommands,  \* bound: announce and withdraw calls
    DutQuits      \* the switch may refuse the connection or end the session

ASSUME SpeakerAssumption ==
    /\ InitAdv \subseteq Prefix
    /\ Window \in Nat \ {0}
    /\ MaxCommands \in Nat
    /\ DutQuits \in BOOLEAN

VARIABLES
    tpc,         \* session thread: where it is in _run
    conn,        \* the TCP connection as the speaker's socket sees it
    attr,        \* self._sock: "None" or "set"
    gotOpen,     \* local got_open of _run
    todo,        \* what _send_all_announce has still to send
    advertise,   \* self.advertise
    established, \* self._established
    stop,        \* self._stop
    mpc,         \* caller's thread: where it is in wait/announce/withdraw/stop
    update,      \* the update that announce or withdraw is about to send
    commands,    \* announce and withdraw calls made
    line,        \* first line of the subprocess
    ppc,         \* parent process, "none" when PyBgpPeer is used in process
    toDut,       \* bytes to the switch, by message
    toSpeaker,   \* bytes to the speaker, by message
    dut,         \* session state in the switch
    rib,         \* prefixes learned from the peer
    dropped      \* history: prefixes whose latest announcement timed out in sendall

threadVars == <<tpc, gotOpen, todo>>
sockVars == <<conn, attr, toDut>>
mainVars == <<mpc, update, commands, line>>
vars == <<tpc, conn, attr, gotOpen, todo, advertise, established, stop, mpc,
          update, commands, line, ppc, toDut, toSpeaker, dut, rib, dropped>>

Message == {<<"open">>, <<"keepalive">>, <<"fin">>, <<"torn">>}
               \cup ({"announce", "withdraw"} \X Prefix)

TypeOK ==
    /\ tpc \in {"connect", "assign", "open", "first", "loop", "recv", "reply",
                "snapshot", "announce", "clear", "close", "dead"}
    /\ conn \in {"none", "up", "down"}
    /\ attr \in {"None", "set"}
    /\ gotOpen \in BOOLEAN /\ established \in BOOLEAN /\ stop \in BOOLEAN
    /\ todo \subseteq Prefix /\ advertise \subseteq Prefix /\ rib \subseteq Prefix
    /\ mpc \in {"wait", "idle", "check", "send", "stop", "shut", "join", "exited"}
    /\ update \in Message
    /\ commands \in 0..MaxCommands
    /\ line \in {"none", "ESTABLISHED", "FAILED"}
    /\ ppc \in {"none", "start", "ready", "quit", "gone"}
    /\ toDut \in Seq(Message) /\ Len(toDut) <= Window + 2
    /\ toSpeaker \in Seq({"open", "keepalive", "notification", "fin"})
    /\ dut \in {"idle", "open", "established", "closed"}
    /\ dropped \subseteq Prefix

Init ==
    /\ tpc = "connect" /\ conn = "none" /\ attr = "None"
    /\ gotOpen = FALSE /\ established = FALSE /\ stop = FALSE
    /\ todo = {} /\ advertise = InitAdv /\ rib = {}
    /\ update = <<"open">> /\ commands = 0 /\ line = "none"
    /\ \/ mpc = "wait" /\ ppc = "start"
       \/ mpc = "idle" /\ ppc = "none"
    /\ toDut = <<>> /\ toSpeaker = <<>>
    /\ dut = "idle" /\ dropped = {}

\* The caller's thread is the command loop of a --serve subprocess.
ServeMode == ppc # "none"

-----------------------------------------------------------------------------
(* The socket.                                                             *)

\* sendall goes through: the connection is up and the window has room.
Send(m) == conn = "up" /\ Len(toDut) < Window /\ toDut' = Append(toDut, m)

\* sendall raises OSError: the socket is closed or was never connected ...
SendFails == conn # "up" /\ UNCHANGED toDut

\* ... or the five seconds of settimeout ran out with the connection up and the
\* window full; by then nothing or a part of the message is on its way.
SendTimesOut ==
    /\ conn = "up" /\ Len(toDut) >= Window
    /\ \/ UNCHANGED toDut
       \/ Len(toDut) = Window /\ toDut' = Append(toDut, <<"torn">>)

SendRaises == SendFails \/ SendTimesOut

\* The prefix that the update m announces.
Told(m) == {p \in Prefix : m = <<"announce", p>>}

\* An update whose failure is swallowed (except OSError: pass).
SendSwallowed(m) ==
    \/ Send(m) /\ dropped' = dropped \ Told(m)
    \/ SendFails /\ UNCHANGED dropped
    \/ SendTimesOut /\ dropped' = dropped \cup Told(m)

\* Closing (or shutting down) the socket: the switch gets a FIN, once.
CloseSocket ==
    /\ conn' = IF conn = "up" THEN "down" ELSE conn
    /\ toDut' = IF conn = "up" THEN Append(toDut, <<"fin">>) ELSE toDut

-----------------------------------------------------------------------------
(* The session thread: _run.                                               *)

Connect ==
    /\ tpc = "connect"
    /\ \/ conn' = "up" /\ tpc' = "assign"
       \/ DutQuits /\ tpc' = "clear" /\ UNCHANGED conn
    /\ UNCHANGED <<attr, gotOpen, todo, advertise, established, stop, mainVars,
                   ppc, toDut, toSpeaker, dut, rib, dropped>>

AssignSock ==
    /\ tpc = "assign"
    /\ attr' = "set" /\ tpc' = "open"
    /\ UNCHANGED <<conn, gotOpen, todo, advertise, established, stop, mainVars,
                   ppc, toDut, toSpeaker, dut, rib, dropped>>

SendOpen ==
    /\ tpc = "open"
    /\ \/ Send(<<"open">>) /\ tpc' = "first"
       \/ SendRaises /\ tpc' = "clear"
    /\ UNCHANGED <<conn, attr, gotOpen, todo, advertise, established, stop,
                   mainVars, ppc, toSpeaker, dut, rib, dropped>>

\* Top of the loop: leave on _stop; a keepalive when one is due, always due on
\* the first pass (last_ka = 0).
LoopTop ==
    /\ tpc \in {"first", "loop"}
    /\ \/ stop /\ tpc' = "clear" /\ UNCHANGED toDut
       \/ ~stop /\ Send(<<"keepalive">>) /\ tpc' = "recv"
       \/ ~stop /\ SendRaises /\ tpc' = "clear"
       \/ ~stop /\ tpc = "loop" /\ tpc' = "recv" /\ UNCHANGED toDut
    /\ UNCHANGED <<conn, attr, gotOpen, todo, advertise, established, stop,
                   mainVars, ppc, toSpeaker, dut, rib, dropped>>

\* _recv_msg returns None: the socket was closed here or by the switch.
RecvNothing ==
    /\ tpc = "recv"
    /\ conn = "down" \/ (toSpeaker # <<>> /\ Head(toSpeaker) = "fin")
    /\ tpc' = "clear"
    /\ UNCHANGED <<conn, attr, gotOpen, todo, advertise, established, stop,
                   mainVars, ppc, toDut, toSpeaker, dut, rib, dropped>>

\* A message; a timeout of the socket only retries the same read.
Recv ==
    /\ tpc = "recv" /\ conn = "up" /\ toSpeaker # <<>>
    /\ toSpeaker' = Tail(toSpeaker)
    /\ \/ /\ Head(toSpeaker) = "open"
          /\ gotOpen' = TRUE /\ tpc' = "reply"
          /\ UNCHANGED established
       \/ /\ Head(toSpeaker) = "keepalive"
          /\ IF gotOpen /\ ~established
             THEN established' = TRUE /\ tpc' = "snapshot"
             ELSE tpc' = "loop" /\ UNCHANGED established
          /\ UNCHANGED gotOpen
       \/ /\ Head(toSpeaker) = "notification"
          /\ tpc' = "clear"
          /\ UNCHANGED <<gotOpen, established>>
    /\ UNCHANGED <<conn, attr, todo, advertise, stop, mainVars, ppc, toDut,
                   dut, rib, dropped>>

\* The keepalive that answers the OPEN.
Reply ==
    /\ tpc = "reply"
    /\ \/ Send(<<"keepalive">>) /\ tpc' = "loop"
       \/ SendRaises /\ tpc' = "clear"
    /\ UNCHANGED <<conn, attr, gotOpen, todo, advertise, established, stop,
                   mainVars, ppc, toSpeaker, dut, rib, dropped>>

\* A slip: the constructor's list is announced, not the current one.
Snapshot_Stale ==
    /\ tpc = "snapshot"
    /\ todo' = InitAdv /\ tpc' = "announce"
    /\ UNCHANGED <<conn, attr, gotOpen, advertise, established, stop, mainVars,
                   ppc, toDut, toSpeaker, dut, rib, dropped>>

\* _send_all_announce copies the list ...
Snapshot ==
    /\ tpc = "snapshot"
    /\ todo' = advertise /\ tpc' = "announce"
    /\ UNCHANGED <<conn, attr, gotOpen, advertise, established, stop, mainVars,
                   ppc, toDut, toSpeaker, dut, rib, dropped>>

\* ... and sends an update for each entry, ignoring OSError.
AnnounceNext ==
    /\ tpc = "announce"
    /\ \/ /\ todo = {} /\ tpc' = "loop"
          /\ UNCHANGED <<todo, toDut, dropped>>
       \/ \E p \in todo :
             /\ SendSwallowed(<<"announce", p>>)
             /\ todo' = todo \ {p} /\ UNCHANGED tpc
    /\ UNCHANGED <<conn, attr, gotOpen, advertise, established, stop, mainVars,
                   ppc, toSpeaker, dut, rib>>

\* finally: clear the event ...
ClearEstablished ==
    /\ tpc = "clear"
    /\ established' = FALSE /\ tpc' = "close"
    /\ UNCHANGED <<sockVars, gotOpen, todo, advertise, stop, mainVars, ppc,
                   toSpeaker, dut, rib, dropped>>

\* A slip: the thread leaves without closing.
CloseAndDie_Leaks ==
    /\ tpc = "close" /\ tpc' = "dead"
    /\ UNCHANGED <<sockVars, gotOpen, todo, advertise, established, stop,
                   mainVars, ppc, toSpeaker, dut, rib, dropped>>

\* ... and close the socket.
CloseAndDie ==
    /\ tpc = "close"
    /\ IF attr = "set" THEN CloseSocket ELSE UNCHANGED <<conn, toDut>>
    /\ tpc' = "dead"
    /\ UNCHANGED <<attr, gotOpen, todo, advertise, established, stop, mainVars,
                   ppc, toSpeaker, dut, rib, dropped>>

Thread ==
    \/ Connect \/ AssignSock \/ SendOpen \/ LoopTop \/ RecvNothing \/ Recv
    \/ Reply \/ Snapshot \/ AnnounceNext \/ ClearEstablished \/ CloseAndDie

-----------------------------------------------------------------------------
(* The caller's thread: _serve_main, or a test that uses PyBgpPeer.        *)

\* wait_established(25) returns True.
WaitDone ==
    /\ mpc = "wait" /\ established
    /\ line' = "ESTABLISHED" /\ mpc' = "idle"
    /\ UNCHANGED <<threadVars, sockVars, advertise, established, stop, update,
                   commands, ppc, toSpeaker, dut, rib, dropped>>

\* A slip: failure is not reported on stdout.
WaitTimeout_Mute ==
    /\ mpc = "wait" /\ ~established /\ mpc' = "idle"
    /\ UNCHANGED <<threadVars, sockVars, advertise, established, stop, update,
                   commands, line, ppc, toSpeaker, dut, rib, dropped>>

\* wait_established(25) runs out.
WaitTimeout ==
    /\ mpc = "wait" /\ ~established
    /\ line' = "FAILED" /\ mpc' = "stop"
    /\ UNCHANGED <<threadVars, sockVars, advertise, established, stop, update,
                   commands, ppc, toSpeaker, dut, rib, dropped>>

Command(u) ==
    /\ mpc = "idle" /\ ppc \in {"none", "ready"}
    /\ commands < MaxCommands
    /\ commands' = commands + 1
    /\ update' = u /\ mpc' = "check"
    /\ UNCHANGED <<threadVars, sockVars, established, stop, line, ppc,
                   toSpeaker, dut, rib, dropped>>

Announce(p) ==
    /\ Command(<<"announce", p>>)
    /\ advertise' = advertise \cup {p}

Withdraw(p) ==
    /\ Command(<<"withdraw", p>>)
    /\ advertise' = advertise \ {p}

\* if self._sock and self._established.is_set()
CheckEstablished ==
    /\ mpc = "check"
    /\ mpc' = IF attr = "set" /\ established THEN "send" ELSE "idle"
    /\ UNCHANGED <<threadVars, sockVars, advertise, established, stop, update,
                   commands, line, ppc, toSpeaker, dut, rib, dropped>>

SendUpdate ==
    /\ mpc = "send"
    /\ SendSwallowed(update)
    /\ mpc' = "idle"
    /\ UNCHANGED <<threadVars, conn, attr, advertise, established, stop, update,
                   commands, line, ppc, toSpeaker, dut, rib>>

\* The command loop ends (quit in serve mode), or the caller calls stop().
Quit ==
    /\ mpc = "idle"
    /\ ServeMode => ppc = "quit"
    /\ mpc' = "stop"
    /\ UNCHANGED <<threadVars, sockVars, advertise, established, stop, update,
                   commands, line, ppc, toSpeaker, dut, rib, dropped>>

StopSet ==
    /\ mpc = "stop"
    /\ stop' = TRUE /\ mpc' = "shut"
    /\ UNCHANGED <<threadVars, sockVars, advertise, established, update,
                   commands, line, ppc, toSpeaker, dut, rib, dropped>>

\* A slip: stop() only sets the event, and the thread stays in its read.
StopShut_FlagOnly ==
    /\ mpc = "shut" /\ mpc' = "join"
    /\ UNCHANGED <<threadVars, sockVars, advertise, established, stop, update,
                   commands, line, ppc, toSpeaker, dut, rib, dropped>>

\* shutdown and close, if the thread has published its socket.
StopShut ==
    /\ mpc = "shut"
    /\ IF attr = "set" THEN CloseSocket ELSE UNCHANGED <<conn, toDut>>
    /\ mpc' = "join"
    /\ UNCHANGED <<threadVars, attr, advertise, established, stop, update,
                   commands, line, ppc, toSpeaker, dut, rib, dropped>>

\* The subprocess is gone, and the daemon thread and the socket with it.
ProcessGone ==
    /\ mpc' = "exited" /\ tpc' = "dead"
    /\ CloseSocket

\* join(timeout=3), then the process exits in serve mode.  The timeout can run
\* out only while the thread is still alive.
Join(expired) ==
    /\ mpc = "join"
    /\ IF expired THEN tpc # "dead" ELSE tpc = "dead"
    /\ IF ServeMode THEN ProcessGone
                    ELSE mpc' = "exited" /\ UNCHANGED <<tpc, conn, toDut>>
    /\ UNCHANGED <<attr, gotOpen, todo, advertise, established, stop, update,
                   commands, line, ppc, toSpeaker, dut, rib, dropped>>

-----------------------------------------------------------------------------
(* The parent: NetnsBgpPeer.                                               *)

\* start_speaker: the first line arrives.  A test whose session failed goes to
\* its finally clause, which calls stop_speaker; so may any other at any time.
FirstLine ==
    /\ ppc = "start" /\ line # "none"
    /\ ppc' = IF line = "ESTABLISHED" THEN "ready" ELSE "quit"
    /\ UNCHANGED <<threadVars, sockVars, advertise, established, stop, mainVars,
                   toSpeaker, dut, rib, dropped>>

\* stop_speaker: write quit (commands are synchronous, so the loop is idle).
StopSpeaker ==
    /\ ppc = "ready" /\ mpc = "idle"
    /\ ppc' = "quit"
    /\ UNCHANGED <<threadVars, sockVars, advertise, established, stop, mainVars,
                   toSpeaker, dut, rib, dropped>>

\* wait(timeout=3) returns ...
ParentReaps ==
    /\ ppc = "quit" /\ mpc = "exited"
    /\ ppc' = "gone"
    /\ UNCHANGED <<threadVars, sockVars, advertise, established, stop, mainVars,
                   toSpeaker, dut, rib, dropped>>

\* ... or expires, and the subprocess is killed.
ParentKills ==
    /\ ppc = "quit" /\ mpc # "exited"
    /\ ProcessGone
    /\ ppc' = "gone"
    /\ UNCHANGED <<attr, gotOpen, todo, advertise, established, stop, update,
                   commands, line, toSpeaker, dut, rib, dropped>>

-----------------------------------------------------------------------------
(* The switch, as the speaker relies on it.                                *)

\* It reads a message.  After a torn one it finds no marker where a header should be
\* (or its hold timer runs out), and ends the session.
DutRecv ==
    /\ toDut # <<>>
    /\ toDut' = Tail(toDut)
    /\ LET m == Head(toDut)
       IN \/ /\ dut = "closed" \/ (m[1] = "keepalive" /\ dut = "established")
             /\ UNCHANGED <<toSpeaker, dut, rib>>
          \/ /\ m[1] = "open" /\ dut = "idle"
             /\ toSpeaker' = toSpeaker \o <<"open", "keepalive">>
             /\ dut' = "open" /\ UNCHANGED rib
          \/ /\ m[1] = "keepalive" /\ dut = "open"
             /\ dut' = "established" /\ UNCHANGED <<toSpeaker, rib>>
          \/ /\ m[1] = "announce" /\ dut = "established"
             /\ rib' = rib \cup {m[2]} /\ UNCHANGED <<toSpeaker, dut>>
          \/ /\ m[1] = "withdraw" /\ dut = "established"
             /\ rib' = rib \ {m[2]} /\ UNCHANGED <<toSpeaker, dut>>
          \/ /\ m[1] = "fin" /\ dut # "closed"
             /\ dut' = "closed" /\ rib' = {} /\ UNCHANGED toSpeaker
          \/ /\ m[1] = "torn" /\ dut # "closed"
             /\ toSpeaker' = toSpeaker \o <<"notification", "fin">>
             /\ dut' = "closed" /\ rib' = {}
    /\ UNCHANGED <<threadVars, conn, attr, advertise, established, stop,
                   mainVars, ppc, dropped>>

\* A periodic keepalive (bound: one in flight).
DutKeepalive ==
    /\ dut = "established" /\ toSpeaker = <<>>
    /\ toSpeaker' = <<"keepalive">>
    /\ UNCHANGED <<threadVars, sockVars, advertise, established, stop, mainVars,
                   ppc, dut, rib, dropped>>

\* The switch ends the session (neighbour removed, hold timer, ...).
DutNotify ==
    /\ DutQuits /\ dut \in {"open", "established"}
    /\ toSpeaker' = toSpeaker \o <<"notification", "fin">>
    /\ dut' = "closed" /\ rib' = {}
    /\ UNCHANGED <<threadVars, sockVars, advertise, established, stop, mainVars,
                   ppc, dropped>>

-----------------------------------------------------------------------------
\* The steps that happen without a timeout running out.
Main ==
    \/ WaitDone \/ CheckEstablished \/ SendUpdate \/ StopSet \/ StopShut
    \/ Join(FALSE) \/ (ServeMode /\ Quit)

Next ==
    \/ Thread
    \/ Main \/ WaitTimeout \/ Join(TRUE) \/ (~ServeMode /\ Quit)
    \/ \E p \in Prefix : Announce(p) \/ Withdraw(p)
    \/ FirstLine \/ StopSpeaker \/ ParentReaps \/ ParentKills
    \/ DutRecv \/ DutKeepalive \/ DutNotify

\* Threads and processes are scheduled, and the switch reads its socket.  The
\* 25 s of wait_established do run out; the 3 s of join and of wait need not.
Fairness ==
    /\ WF_vars(Thread) /\ WF_vars(Main) /\ WF_vars(WaitTimeout)
    /\ WF_vars(FirstLine \/ ParentReaps)
    /\ WF_vars(DutRecv)

Spec == Init /\ [][Next]_vars /\ Fairness

-----------------------------------------------------------------------------
(* Properties.                                                             *)

\* Nobody has anything to do: the thread reads, the caller is idle, nothing is
\* in flight, and both ends are established.
Quiescent ==
    /\ tpc = "recv" /\ established /\ mpc = "idle"
    /\ toDut = <<>> /\ toSpeaker = <<>> /\ dut = "established"

\* What the caller advertises reaches the switch, whether it was announced before,
\* during or after the handshake, and although a send may time out on a full window:
\* the one prefix the switch may lack in a session that survives is one whose latest
\* announcement timed out (bgp_speaker.py swallows that OSError).
NoLostAnnounce == Quiescent => advertise \ dropped \subseteq rib

\* What the caller has withdrawn is gone from the switch (tests/test_bgp.py:
\* "withdraw the announce -> route removed from ASIC").
WithdrawnIsGone == Quiescent => rib \subseteq advertise

\* A dead session thread leaves nothing in the switch: the socket is closed on
\* every way out, so the switch learns of it and drops the peer's routes.
DeadMeansCleared == tpc = "dead" /\ toDut = <<>> => rib = {}

\* stop() ends the session thread wherever it is, in connect, in a blocked read
\* or in a send, without counting on the timeout of join.
StopEndsThread == stop ~> tpc = "dead"

\* start_speaker returns whatever the switch does: a first line always comes.
StartReturns == ppc = "start" ~> ppc # "start"

\* stop_speaker always returns, and the switch drops the peer's routes.
TeardownPurges == ppc = "quit" ~> ppc = "gone" /\ rib = {}
=============================================================================

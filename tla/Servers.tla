------------------------------- MODULE Servers -------------------------------
(***************************************************************************)
(* The life of a service that a test starts and stops: the UDP servers     *)
(* (servers/base.py and its subclasses), the TACACS+ server, the ARP       *)
(* responder and the capture (responders/), exabgp as a child process, and *)
(* the HTTP server of the mock BMC.  Each has a thread or process of its   *)
(* own beside the main thread.                                             *)
(*                                                                         *)
(* Time is what the waits say about it: a thread that can go on does so    *)
(* before somebody's wait for it runs out.                                 *)
(***************************************************************************)
EXTENDS Naturals

CONSTANTS
    MaxLog,    \* bound: requests, packets or frames a service records
    MaxHands   \* bound: handler threads of the HTTP server at a time

ASSUME ServersAssumption == {MaxLog, MaxHands} \subseteq Nat

Kind == {"udp", "tcp", "sniff", "capture", "proc", "http"}

VARIABLES
    kind,
    main,      \* main thread
    thr,       \* thread or process of the service
    open,      \* its socket is open
    flag,      \* it has been told to stop
    log,       \* number of requests or packets it has recorded (the mock BMC's do not matter)
    hands,     \* handler threads of the HTTP server that are at work
    sure,      \* start() saw the sniffer ready
    kept,      \* what the capture hands over
    conf       \* configuration file of exabgp

server == <<kind, main, thr, open, flag, sure, log, hands, kept, conf>>

ServerTypeOK ==
    /\ kind \in Kind
    /\ main \in {"new", "wait", "using", "told", "closed", "join", "kill", "done", "raised"}
    /\ thr \in {"none", "warm", "top", "recv", "handle", "reply", "talk", "run", "gone"}
    /\ {open, flag, sure, conf} \subseteq BOOLEAN
    /\ log \in 0..MaxLog /\ kept \in 0..MaxLog /\ hands \in 0..MaxHands

NewServer ==
    /\ main = "new" /\ thr = "none" /\ open = FALSE /\ flag = FALSE /\ sure = FALSE
    /\ log = 0 /\ hands = 0 /\ kept = 0 /\ conf = FALSE

ServerInit == kind \in Kind /\ NewServer

Loops == {"udp", "tcp", "http"}
Sniffs == {"sniff", "capture"}

-----------------------------------------------------------------------------
(* Start.                                                                  *)

\* A port that is taken makes bind raise; else the thread runs.
StartLoop ==
    /\ main = "new" /\ kind \in Loops
    /\ \/ main' = "using" /\ thr' = "top" /\ open' = TRUE
       \/ main' = "raised" /\ UNCHANGED <<thr, open>>
    /\ UNCHANGED <<kind, flag, sure, log, hands, kept, conf>>

\* AsyncSniffer.start; its thread builds the capture socket in its own time.
StartSniffer ==
    /\ main = "new" /\ kind \in Sniffs
    /\ main' = "wait" /\ thr' = "warm"
    /\ UNCHANGED <<kind, open, flag, sure, log, hands, kept, conf>>

\* The responder polls for stop_cb and gives up after 3 s; the capture sleeps 0.4 s.
SnifferStarted ==
    /\ main = "wait" /\ kind \in Sniffs /\ main' = "using" /\ sure' = (thr = "run")
    /\ UNCHANGED <<kind, thr, open, flag, log, hands, kept, conf>>

StartProcess ==
    /\ main = "new" /\ kind = "proc"
    /\ main' = "wait" /\ thr' = "run" /\ conf' = TRUE
    /\ UNCHANGED <<kind, open, flag, sure, log, hands, kept>>

\* poll() after ready_wait: a process that is gone raises, and then nobody stops it.
ProcessStarted ==
    /\ main = "wait" /\ kind = "proc"
    /\ main' = IF thr = "gone" THEN "raised" ELSE "using"
    /\ UNCHANGED <<kind, thr, open, flag, sure, log, hands, kept, conf>>

-----------------------------------------------------------------------------
(* The service.                                                            *)

Thread(from, to) ==
    /\ thr = from /\ thr' = to
    /\ UNCHANGED <<kind, main, open, flag, sure, kept, conf>>

\* while not self._stop.is_set()
LoopTop == Thread("top", IF flag THEN "gone" ELSE "recv") /\ UNCHANGED <<log, hands>>

\* ThreadingHTTPServer: a request gets a daemon thread of its own.
Accept ==
    /\ kind = "http" /\ open /\ hands < MaxHands
    /\ Thread("recv", "top") /\ hands' = hands + 1 /\ UNCHANGED log

\* do_GET after its delay_s, do_POST once the body has come: the last answer of a
\* handler, or none if the client is gone.
HandlerEnds ==
    /\ hands > 0 /\ hands' = hands - 1
    /\ UNCHANGED <<kind, main, thr, open, flag, sure, log, kept, conf>>

\* recvfrom, accept: something comes, 0.5 s pass, or the socket is closed.
Receive ==
    \/ open /\ kind = "udp" /\ log < MaxLog /\ Thread("recv", "handle") /\ UNCHANGED <<log, hands>>
    \/ open /\ kind = "tcp" /\ log < MaxLog /\ Thread("recv", "talk") /\ UNCHANGED <<log, hands>>
    \/ Accept
    \/ open /\ Thread("recv", "top") /\ UNCHANGED <<log, hands>>
    \/ ~open /\ Thread("recv", "gone") /\ UNCHANGED <<log, hands>>

\* requests.append; then on_datagram and its reply, whose errors are swallowed.
Record == Thread("handle", "reply") /\ log' = log + 1 /\ UNCHANGED hands
Reply == Thread("reply", "top") /\ UNCHANGED <<log, hands>>

\* conn.recv has no timeout: the client speaks, or resets the connection, which ends
\* the thread, or does nothing for ever.
ClientSpeaks ==
    \/ Thread("talk", "top") /\ log' = log + 1 /\ UNCHANGED hands
    \/ Thread("talk", "gone") /\ UNCHANGED <<log, hands>>

\* The capture socket is there, or the interface is not.
SnifferReady == (Thread("warm", "run") \/ Thread("warm", "gone")) /\ UNCHANGED <<log, hands>>

Packet == kind \in Sniffs /\ log < MaxLog /\ Thread("run", "run") /\ log' = log + 1 /\ UNCHANGED hands

ProcessDies == kind = "proc" /\ Thread("run", "gone") /\ UNCHANGED <<log, hands>>

-----------------------------------------------------------------------------
(* Stop.                                                                   *)

Main(from, to) ==
    /\ main = from /\ main' = to
    /\ UNCHANGED <<kind, sure, log, hands>>

\* A slip: the thread is left to end by itself.
CloseSocket_NoJoin ==
    /\ kind \in Loops \ {"http"} /\ Main("told", "done") /\ open' = FALSE
    /\ UNCHANGED <<thr, flag, kept, conf>>

TellStop ==
    /\ kind \in Loops /\ Main("using", "told") /\ flag' = TRUE
    /\ UNCHANGED <<thr, open, kept, conf>>

CloseSocket ==
    /\ kind \in Loops \ {"http"} /\ Main("told", "join") /\ open' = FALSE
    /\ UNCHANGED <<thr, flag, kept, conf>>

\* MockBmc: shutdown waits for serve_forever to return, then server_close, which waits
\* for no daemon thread: the handlers go on.
Shutdown ==
    /\ kind = "http" /\ thr = "gone" /\ Main("told", "join") /\ open' = FALSE
    /\ UNCHANGED <<thr, flag, kept, conf>>

\* A slip: join() without its timeout.
Join_Forever ==
    /\ Main("join", "done") /\ thr = "gone"
    /\ UNCHANGED <<thr, open, flag, kept, conf>>

\* join(timeout=2): it runs out on a silent client and on a sniffer nobody stopped.
Join ==
    /\ Main("join", "done") /\ thr \in {"gone", "talk", "warm", "run"}
    /\ UNCHANGED <<thr, open, flag, kept, conf>>

\* Responder.stop: the sniffer's stop() if it is ready, else a join.
StopResponder ==
    /\ kind = "sniff"
    /\ \/ thr = "run" /\ Main("using", "done") /\ thr' = "gone"
       \/ thr # "run" /\ Main("using", "join") /\ UNCHANGED thr
    /\ UNCHANGED <<open, flag, kept, conf>>

\* PacketCollector.stop: raises when the sniffer does not run; else the frames.
StopCapture ==
    /\ kind = "capture"
    /\ \/ thr # "run" /\ Main("using", "raised") /\ UNCHANGED <<thr, kept>>
       \/ thr = "run" /\ Main("using", "closed") /\ thr' = "gone" /\ UNCHANGED kept
       \/ Main("closed", "done") /\ kept' = log /\ UNCHANGED thr
    /\ UNCHANGED <<open, flag, conf>>

\* terminate, wait(3), kill; then ExaBgpPeer removes its file.
Terminate ==
    /\ kind = "proc"
    /\ \/ Main("using", "kill") /\ flag' = TRUE /\ UNCHANGED <<thr, conf>>
       \/ Main("kill", "done") /\ thr' = "gone" /\ conf' = FALSE /\ UNCHANGED flag
    /\ UNCHANGED <<open, kept>>

ThreadSteps ==
    LoopTop \/ Receive \/ Record \/ Reply \/ ClientSpeaks \/ SnifferReady \/ Packet \/ ProcessDies
    \/ HandlerEnds

StopSteps == TellStop \/ CloseSocket \/ Shutdown \/ Join \/ StopResponder \/ StopCapture \/ Terminate

StartSteps == StartLoop \/ StartSniffer \/ SnifferStarted \/ StartProcess \/ ProcessStarted

-----------------------------------------------------------------------------
(* Properties.                                                             *)

\* After stop() the socket and the file are gone, and so is the thread, which can
\* neither record nor answer any more, with three exceptions.  Two the join's timeout
\* lets through: a TACACS+ client that had connected and said nothing before (its
\* request is still recorded, but no other connection is accepted), and a responder
\* whose sniffer was not ready when start() gave up waiting for it.  The third is that
\* the mock BMC's handlers are joined by nobody: one that was at work records its POST
\* and answers after stop().  And a capture has handed over every frame it recorded.
NoGhost ==
    main = "done" =>
        /\ ~open /\ ~conf
        /\ kind = "capture" => kept = log
        /\ hands = 0 \/ kind = "http"
        /\ thr = "gone" \/ (kind = "tcp" /\ thr \in {"talk", "top"}) \/ (kind = "sniff" /\ ~sure)

\* stop() returns, whatever the clients do and however slowly a sniffer starts
\* (or the process that called it is killed, and with it the service).
StopReturns == main \in {"told", "closed", "join", "kill"} ~> main \in {"done", "raised", "new"}
=============================================================================

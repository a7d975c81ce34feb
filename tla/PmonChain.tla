------------------------------ MODULE PmonChain ------------------------------
(***************************************************************************)
(* Fault injection into the platform daemons (framework/pmon_fault.py,     *)
(* servers/mock_bmc.py): an iptables rule turns the requests of the sync   *)
(* daemon from the BMC to a mock on the switch itself, whose answers land  *)
(* in the cache file that the daemons of the pmon container read.  It is   *)
(* used by a pytest module and by tools/pmon_field_report.py; both must    *)
(* leave the switch on its real BMC.                                       *)
(*                                                                         *)
(* The mock is the service of kind "http" of Servers; the other kinds live *)
(* and die with nothing around them.  Sync daemon, pmon and iptables are   *)
(* external.                                                               *)
(***************************************************************************)
EXTENDS Servers, Sequences, SequencesExt

CONSTANTS
    MaxTests, MaxSessions,    \* bounds: tests in all, processes one after the other
    MaxRules                  \* bound: copies of a rule in iptables

ASSUME ChainAssumption == {MaxTests, MaxSessions, MaxRules} \subseteq Nat

Rule == {"mock", "refuse"}      \* blackhole() differs from refuse() in how long a request takes
User == {"pytest", "report"}
Job == {"reset", "restore", "tidy", "restart", "settle", "stop"}

VARIABLES
    user, stage, tests, sessions,
    todo,       \* what a recovery or the end of the session still has to do
    ok,         \* the last recovery went through
    rules,      \* iptables: copies of each rule
    applied,    \* BmcRedirect._applied
    base,       \* MockBmc._baseline
    answer,     \* what the mock answers now
    sync,       \* what the sync daemon is at, or the answer it holds
    cache, young,
    pmon,
    unit        \* how the last `systemctl restart` of the sync daemon went

device == <<rules, sync, cache, young, pmon, unit>>
harness == <<user, stage, tests, sessions, todo, ok, applied, base, answer>>
chainVars == <<server, device, harness>>

Answers == {"good", "bad", "junk"}

ChainTypeOK ==
    /\ ServerTypeOK
    /\ user \in User /\ stage \in {"out", "idle", "test", "body", "recover", "end", "closed"}
    /\ tests \in 0..MaxTests /\ sessions \in 0..MaxSessions
    /\ todo \in Seq(Job) /\ ok \in BOOLEAN
    /\ rules \in [Rule -> 0..MaxRules] /\ applied \subseteq Rule
    /\ {base, answer} \subseteq Answers
    /\ sync \in {"off", "dead", "idle", "mock", "served", "real"} \cup Answers
    /\ cache \in {"good", "bad", "torn", "none"} /\ young \in BOOLEAN
    /\ pmon \in {"ok", "worse"} /\ unit \in {"well", "failed"}

NoRule == \A r \in Rule : rules[r] = 0

ChainInit ==
    /\ ServerInit
    /\ user \in (IF kind = "http" THEN User ELSE {"pytest"})
    /\ stage = "out" /\ tests = 0 /\ sessions = 0 /\ todo = <<>> /\ ok = FALSE
    /\ rules = [r \in Rule |-> 0] /\ applied = {} /\ base = "good" /\ answer = "good"
    /\ sync = "idle" /\ cache = "good" /\ young = TRUE /\ pmon = "ok"
    /\ unit = "well"

-----------------------------------------------------------------------------
(* The switch.                                                             *)

\* A cycle of the sync daemon: ask, hold the answer, write; a refusal skips it.
Ask ==
    /\ sync = "idle"
    /\ \/ rules["mock"] > 0 /\ open /\ sync' = "mock"
       \/ NoRule /\ sync' = "real"
    /\ UNCHANGED <<server, harness, rules, cache, young, pmon, unit>>

\* Its connection gets a handler; the handler reads mode and data after its delay, and
\* answers even when stop() has returned.
ServeSync ==
    /\ sync = "mock" /\ Accept /\ sync' = "served"
    /\ UNCHANGED <<harness, rules, cache, young, pmon, unit>>

MockReply ==
    /\ sync = "served" /\ HandlerEnds /\ sync' = answer
    /\ UNCHANGED <<harness, rules, cache, young, pmon, unit>>

\* The connection breaks: nobody took it before the socket closed, or the process died.
NoReply ==
    /\ \/ sync = "mock" /\ ~open
       \/ sync = "served" /\ hands = 0
    /\ sync' = "idle"
    /\ UNCHANGED <<server, harness, rules, cache, young, pmon, unit>>

RealReply ==
    /\ sync = "real" /\ sync' = "good"
    /\ UNCHANGED <<server, harness, rules, cache, young, pmon, unit>>

Write ==
    /\ sync \in Answers /\ sync' = "idle"
    /\ \/ sync = "junk" /\ UNCHANGED <<cache, young>>
       \/ sync # "junk" /\ cache' = sync /\ young' = TRUE
    /\ UNCHANGED <<server, harness, rules, pmon, unit>>

Age ==
    /\ young /\ young' = FALSE
    /\ UNCHANGED <<server, harness, rules, sync, cache, pmon, unit>>

\* systemd, Restart=on-failure.
SyncComesBack ==
    /\ sync = "dead" /\ sync' = "idle"
    /\ UNCHANGED <<server, harness, rules, cache, young, pmon, unit>>

\* psud or thermalctld trips over what it reads.
PmonSuffers ==
    /\ cache # "good" /\ pmon' = "worse"
    /\ UNCHANGED <<server, harness, rules, sync, cache, young, unit>>

-----------------------------------------------------------------------------
(* A session.                                                              *)

\* snapshot_from_cache, or from the BMC when the cache is unreadable.
Snapshot == IF cache \in {"good", "bad"} THEN cache ELSE "good"

SessionStart ==
    /\ kind = "http" /\ stage = "out" /\ sessions < MaxSessions /\ sessions' = sessions + 1
    /\ StartLoop
    /\ stage' = IF main' = "using" THEN "idle" ELSE "closed"
    /\ base' = Snapshot /\ answer' = base'
    /\ ok' = FALSE
    /\ UNCHANGED <<device, user, tests, todo, applied>>

TestStart ==
    /\ stage = "idle" /\ tests < MaxTests
    /\ stage' = "test" /\ tests' = tests + 1
    /\ UNCHANGED <<server, device, user, sessions, todo, ok, applied, base, answer>>

\* drop_sensor, set_psu_field and their kind; set_mode.
Mutate(a) ==
    /\ stage = "test" /\ answer' = a
    /\ UNCHANGED <<server, device, user, stage, tests, sessions, todo, ok, applied, base>>

\* An exception before the try: the test is over.  The report undoes rules, no more.
Bail ==
    /\ ok' = FALSE
    /\ \/ user = "pytest" /\ stage' = "idle" /\ todo' = <<>>
       \/ user = "report" /\ stage' = "recover" /\ todo' = <<"tidy">>

\* to_mock, refuse: a rule is recorded once iptables has taken it.
Redirect(r) ==
    /\ stage = "test" /\ rules[r] < MaxRules
    /\ \/ /\ rules' = [rules EXCEPT ![r] = @ + 1] /\ applied' = applied \cup {r}
          /\ stage' = "body" /\ UNCHANGED <<todo, ok>>
       \/ Bail /\ UNCHANGED <<rules, applied>>
    /\ UNCHANGED <<server, user, tests, sessions, base, answer, sync, cache, young, pmon, unit>>

\* What the tests do to the sync daemon, the cache and pmon.
Disturb ==
    /\ stage = "body" /\ user = "pytest"
    /\ \/ sync' \in {"off", "dead", "idle"} /\ UNCHANGED <<cache, young, pmon, unit>>
       \/ sync = "off" /\ cache' \in {"torn", "none"} /\ UNCHANGED <<sync, young, pmon, unit>>
       \/ pmon' \in {"ok", IF cache = "good" THEN "ok" ELSE "worse"}
          /\ UNCHANGED <<sync, cache, young>>
    /\ UNCHANGED <<server, harness, rules, unit>>

\* A slip: the daemon is restarted before the rules are gone.
Recovery_EarlyRestart == <<"reset", "restart", "restore", "settle">>

\* _recover; what the report does to revoke an injection.
Recovery == <<"reset", "restore", "restart", "settle">>

EndBody ==
    /\ stage = "body"
    /\ \/ stage' = "recover" /\ todo' = Recovery /\ UNCHANGED ok
       \/ user = "report" /\ Bail
    /\ UNCHANGED <<server, device, user, tests, sessions, applied, base, answer>>

\* A slip: the daemon is left as the last test left it.
Closing_NoRestart ==
    IF user = "pytest" THEN <<"restore", "stop", "settle">> ELSE <<"stop">>

\* The end of the fixture, and of the report's main().
Closing ==
    IF user = "pytest" THEN <<"restore", "stop", "restart", "settle">> ELSE <<"stop", "restart">>

Teardown ==
    /\ stage = "idle" /\ stage' = "end" /\ todo' = Closing
    /\ UNCHANGED <<server, device, user, tests, sessions, ok, applied, base, answer>>

Crash ==
    /\ stage \in {"idle", "test", "body", "recover", "end"}
    /\ stage' = "closed" /\ todo' = <<>> /\ ok' = FALSE /\ applied' = {}
    /\ main' = "new" /\ thr' = "none" /\ open' = FALSE /\ flag' = FALSE /\ hands' = 0
    /\ UNCHANGED <<device, user, tests, sessions, base, answer, kind, sure, log, kept, conf>>

NextProcess ==
    /\ stage = "closed" /\ sessions < MaxSessions /\ stage' = "out" /\ applied' = {}
    /\ main' = "new" /\ thr' = "none" /\ open' = FALSE /\ flag' = FALSE /\ hands' = 0
    /\ UNCHANGED <<device, user, tests, sessions, todo, ok, base, answer, kind, sure, log, kept, conf>>

-----------------------------------------------------------------------------
(* Jobs of a recovery and of the end of a session.                         *)

After(done) ==
    IF Len(done) > 0 THEN stage ELSE IF stage = "end" THEN "closed" ELSE "idle"

Due(j) == stage \in {"recover", "end"} /\ todo # <<>> /\ Head(todo) = j

\* The job is done; after the last one a recovery has gone through.
Done(j) ==
    /\ todo' = Tail(todo) /\ stage' = After(Tail(todo))
    /\ ok' = IF Tail(todo) = <<>> /\ ~(user = "report" /\ stage = "end") THEN j # "tidy" ELSE ok
    /\ UNCHANGED <<user, tests, sessions>>

\* The job raises: the test or the end of the session is cut short.
Raise ==
    /\ ok' = FALSE
    /\ \/ user = "pytest" /\ todo' = <<>> /\ stage' = After(<<>>)
       \/ user = "report" /\ todo' = <<"tidy">> /\ UNCHANGED stage
    /\ UNCHANGED <<user, tests, sessions>>

Reset ==
    /\ Due("reset") /\ Done("reset") /\ answer' = base
    /\ UNCHANGED <<server, device, applied, base>>

\* iptables -D takes a copy away if it works; nobody looks at its result.
Delete(D) == [r \in Rule |-> IF r \in D /\ rules[r] > 0 THEN rules[r] - 1 ELSE rules[r]]

\* A slip: every rule is deleted, recorded or not.
Restore_Blind ==
    /\ Due("restore") /\ Done("restore")
    /\ rules' = [r \in Rule |-> rules[r] - 1] /\ applied' = {}
    /\ UNCHANGED <<server, base, answer, sync, cache, young, pmon, unit>>

\* BmcRedirect.restore: then `iptables -S` must not name the BMC any more.
Restore ==
    /\ Due("restore")
    /\ \E D \in SUBSET applied :
          /\ rules' = Delete(D) /\ applied' = {}
          /\ IF \A r \in Rule : rules'[r] = 0 THEN Done("restore") ELSE Raise
    /\ UNCHANGED <<server, base, answer, sync, cache, young, pmon, unit>>

\* The report's restore after each scenario, its verdict swallowed.
Tidy ==
    /\ Due("tidy") /\ Done("tidy")
    /\ \E D \in SUBSET applied : rules' = Delete(D) /\ applied' = {}
    /\ UNCHANGED <<server, base, answer, sync, cache, young, pmon, unit>>

\* systemctl restart: a cycle that is under way ends here.  Nobody looks at its result:
\* it may leave things as they are, or the daemon down.
RestartSync ==
    /\ Due("restart") /\ Done("restart")
    /\ \/ sync' = "idle" /\ unit' = "well"
       \/ sync' \in {sync, "off"} /\ unit' = "failed"
    /\ UNCHANGED <<server, applied, base, answer, rules, cache, young, pmon>>

\* wait_cache_fresh; pmon is restarted if it is worse off; baseline_problems.
Settle ==
    /\ Due("settle") /\ user = "pytest"
    /\ pmon' \in IF pmon = "ok" \/ stage = "end" THEN {pmon}
                 ELSE {"ok", IF cache = "good" THEN "ok" ELSE "worse"}
    /\ IF young /\ pmon' = "ok" THEN Done("settle") ELSE Raise
    /\ UNCHANGED <<server, applied, base, answer, rules, sync, cache, young, unit>>

\* The report takes its snapshots and says in its text whether things recovered.
Observe ==
    /\ Due("settle") /\ user = "report" /\ Done("settle")
    /\ UNCHANGED <<server, device, applied, base, answer>>

\* MockBmc.stop.
StopMock ==
    /\ Due("stop") /\ main \in {"done", "raised"} /\ Done("stop")
    /\ UNCHANGED <<server, device, applied, base, answer>>

-----------------------------------------------------------------------------

\* The mock's own steps; its stop is a job of the end of the session.
MockSteps ==
    /\ kind = "http" /\ UNCHANGED <<device, harness>>
    /\ \/ LoopTop \/ Receive \/ ((sync = "served" => hands > 1) /\ HandlerEnds)
       \/ (Due("stop") /\ (TellStop \/ Shutdown \/ Join))

\* Any other service.
OtherSteps ==
    /\ kind # "http" /\ UNCHANGED <<device, harness>>
    /\ StartSteps \/ ThreadSteps \/ StopSteps

Device ==
    Ask \/ ServeSync \/ MockReply \/ NoReply \/ RealReply \/ Write \/ Age \/ SyncComesBack \/ PmonSuffers

ChainNext ==
    \/ MockSteps \/ OtherSteps
    \/ kind = "http" /\ Device
    \/ SessionStart \/ TestStart \/ EndBody \/ Disturb \/ Teardown \/ Crash \/ NextProcess
    \/ \E a \in {"bad", "junk"} : Mutate(a)
    \/ \E r \in Rule : Redirect(r)
    \/ Reset \/ Restore \/ Tidy \/ RestartSync \/ Settle \/ Observe \/ StopMock

\* The daemon goes through its cycles; a service as in Servers.
Fairness ==
    /\ WF_chainVars(OtherSteps /\ StartSteps) /\ WF_chainVars(OtherSteps /\ StopSteps)
    /\ WF_chainVars(LoopTop /\ UNCHANGED <<device, harness>>)
    /\ WF_chainVars((Record \/ Reply) /\ UNCHANGED <<device, harness>>)
    /\ WF_chainVars(Receive /\ UNCHANGED <<device, harness>>)
    /\ WF_chainVars(kind = "http" /\ Due("stop") /\ (TellStop \/ Shutdown \/ Join)
               /\ UNCHANGED <<device, harness>>)
    /\ WF_chainVars(kind = "http" /\ (Ask \/ MockReply \/ NoReply \/ RealReply \/ Write))

ChainSpec == ChainInit /\ [][ChainNext]_chainVars /\ Fairness

-----------------------------------------------------------------------------
(* Properties.                                                             *)

\* After a recovery that went through, whatever failed before it and whatever rules
\* an earlier process left behind, no rule turns the BMC away; and the next test finds
\* the mock on its baseline, the sync daemon running, and no answer of the mock still
\* on its way into the cache (pmon_fault.py: every injector restores, with a re-check),
\* the daemon's part unless its restart failed, which nobody looks at.
RecoveredMeansClean ==
    /\ stage \in {"idle", "closed"} /\ ok => NoRule
    /\ stage = "idle" /\ ok =>
          /\ answer = base
          /\ unit = "well" => sync \notin {"off", "mock", "served", "bad", "junk"}

\* A session that ends on a recovery brings the cache back to the real BMC's data for
\* good, although wait_cache_fresh only looks at the age of the file, unless the last
\* restart failed and the daemon stays down.
CacheHeals ==
    (stage = "closed" /\ ok)
       ~> (stage # "closed" \/ [](cache = "good")
           \/ (unit = "failed" /\ [](sync \in {"off", "dead"})))
=============================================================================

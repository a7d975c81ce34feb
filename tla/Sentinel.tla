------------------------------ MODULE Sentinel ------------------------------
(***************************************************************************)
(* The contamination sentinel (framework/sentinel.py, called from hooks in *)
(* conftest.py) and the tool that reads its report                         *)
(* (tools/analyze_sentinel.py).                                            *)
(*                                                                         *)
(* After every test the sentinel compares the switch with what it saw      *)
(* after the previous one, appends the difference to a report and moves    *)
(* its baseline up.  The tool replays the report into leaks and their      *)
(* makers.  Daemons may write on behalf of a test after it is over, and    *)
(* the session's own teardown runs inside the last test's.                 *)
(***************************************************************************)
EXTENDS Naturals, Sequences

CONSTANTS
    Key,       \* keys of CONFIG_DB in the fingerprint
    Test,      \* tests of the session
    NoTest

ASSUME SentinelAssumption == NoTest \notin Test /\ "late" \notin Test /\ "session" \notin Test

VARIABLES
    cfg,        \* keys present in CONFIG_DB
    base,       \* keys at capture_baseline
    clean,      \* _STATE["clean_cfg"]
    report,     \* the lines of the report after the baseline line
    todo,       \* tests still to run
    test,       \* the running test, or the last one
    stage,      \* "idle", "test", "final", "torn" or "over"
    late,       \* keys on which a daemon still owes a change
    who         \* history: who touched a key since the last comparison

tool == <<base, clean, report>>
vars == <<cfg, tool, todo, test, stage, late, who>>

Agent == Test \cup {"late", "session"}
Record == [event : {"leak", "heal"}, test : Test, added : SUBSET Key,
           removed : SUBSET Key]

TypeOK ==
    /\ {cfg, base, clean, late} \subseteq SUBSET Key
    /\ report \in Seq(Record)
    /\ todo \subseteq Test /\ test \in Test \cup {NoTest}
    /\ stage \in {"idle", "test", "final", "torn", "over"}
    /\ who \in [Key -> SUBSET Agent]

\* Keys that are in exactly one of the two sets.
Flip(c, K) == (c \ K) \cup (K \ c)

Touch(K, a) == who' = [k \in Key |-> IF k \in K THEN who[k] \cup {a} ELSE who[k]]

\* capture_baseline, at the end of the session's setup; it empties the report.
Init ==
    /\ cfg \in SUBSET Key /\ base = cfg /\ clean = cfg
    /\ report = <<>>
    /\ todo = Test /\ test = NoTest /\ stage = "idle"
    /\ late = {} /\ who = [k \in Key |-> {}]

-----------------------------------------------------------------------------
(* The switch and the tests.                                               *)

\* A test with its fixtures changes the keys K, and leaves it to
\* daemons to change the keys L later.  Nobody looks in between.
RunTest(t, K, L) ==
    /\ stage = "idle" /\ t \in todo
    /\ test' = t /\ todo' = todo \ {t} /\ stage' = "test"
    /\ cfg' = Flip(cfg, K) /\ Touch(K, t)
    /\ late' = late \cup L
    /\ UNCHANGED tool

Land(k) ==
    /\ k \in late /\ stage # "over"
    /\ cfg' = Flip(cfg, {k}) /\ Touch({k}, "late")
    /\ late' = late \ {k}
    /\ UNCHANGED <<tool, todo, test, stage>>

-----------------------------------------------------------------------------
(* Finalizers, hook and tool.                                              *)

\* A line of the report.
Line(event, added, removed) ==
    [event |-> event, test |-> test, added |-> added, removed |-> removed]

\* The self-heal guard finds nothing, or resets ports and calls record_heal.
Guard ==
    /\ stage = "test" /\ stage' = "final"
    /\ UNCHANGED <<cfg, tool, todo, test, late, who>>

\* A slip: the heal is reported with the rows that the reset touched.
RecordHeal_WithRows(K) ==
    /\ stage = "test" /\ stage' = "final"
    /\ cfg' = Flip(cfg, K) /\ Touch(K, test)
    /\ report' = Append(report, Line("heal", cfg' \ cfg, cfg \ cfg'))
    /\ UNCHANGED <<base, clean, todo, test, late>>

RecordHeal(K) ==
    /\ stage = "test" /\ stage' = "final"
    /\ cfg' = Flip(cfg, K) /\ Touch(K, test)
    /\ report' = Append(report, Line("heal", {}, {}))
    /\ UNCHANGED <<base, clean, todo, test, late>>

\* After the last test the session's fixtures are torn down too, before the hook.
SessionTeardown(K) ==
    /\ stage = "final" /\ todo = {} /\ stage' = "torn"
    /\ cfg' = Flip(cfg, K) /\ Touch(K, "session")
    /\ UNCHANGED <<tool, todo, test, late>>

\* storm: a watched field has changed, or the FDB or neighbour count, which the
\* baseline does not follow, is over its threshold.
Dirty(storm) == cfg # clean \/ storm

Compare(rolled) ==
    /\ IF todo = {} THEN stage = "torn" /\ stage' = "over"
                    ELSE stage = "final" /\ stage' = "idle"
    /\ \E storm \in BOOLEAN :
          report' = IF Dirty(storm) THEN Append(report, Line("leak", cfg \ clean, clean \ cfg))
                                   ELSE report
    /\ clean' = rolled
    /\ who' = [k \in Key |-> {}]
    /\ UNCHANGED <<cfg, base, todo, test, late>>

\* A slip: the baseline is not moved up.
CheckAfterTest_NoRoll == Compare(clean)

\* check_after_test: compare, report, roll the baseline forward.
CheckAfterTest == Compare(cfg)

\* A slip: a test that changes a key again becomes its maker.
ReplayLine_LastWriter(a, r) ==
    [open |-> [k \in (DOMAIN a.open \cup r.added) |-> IF k \in r.added \cup r.removed
                  THEN r.test ELSE a.open[k]],
     moved |-> a.moved \cup
         {<<k, IF k \in DOMAIN a.open THEN a.open[k] ELSE NoTest, r.test>> : k \in r.removed}]

\* main of analyze_sentinel.py: replay the report, line by line.
ReplayLine(a, r) ==
    [open |-> [k \in (DOMAIN a.open \cup r.added) \ r.removed |->
                  IF k \in r.added THEN r.test ELSE a.open[k]],
     moved |-> a.moved \cup
         {<<k, IF k \in DOMAIN a.open THEN a.open[k] ELSE NoTest, r.test>> : k \in r.removed}]

NothingYet == [open |-> [k \in {} |-> NoTest], moved |-> {}]

Replay(lines) ==
    LET account[n \in 0..Len(lines)] ==
            IF n = 0 THEN NothingYet ELSE ReplayLine(account[n - 1], lines[n])
    IN account

Analysis == Replay(report)[Len(report)]

Next ==
    \/ \E t \in Test, K \in SUBSET Key, L \in SUBSET Key : RunTest(t, K, L)
    \/ \E k \in Key : Land(k)
    \/ Guard
    \/ \E k \in Key : RecordHeal({k})
    \/ \E K \in SUBSET Key : SessionTeardown(K)
    \/ CheckAfterTest

Spec == Init /\ [][Next]_vars

-----------------------------------------------------------------------------
(* Properties.                                                             *)

\* The keys the tool lists as removed-baseline-key: removed, and made by no test.
BaselineRemovals == {m[1] : m \in {x \in Analysis.moved : x[2] = NoTest}}

\* How to read the tool's output.  What it lists as TRUE-LEAK are all the keys that are
\* there, but for the baseline keys that were never missing: a key that is new, and also a
\* baseline key that one test removed and another put back, which is no leak.  The latter
\* are told apart by the other list: removed-baseline-key names baseline keys only, and
\* every one that is missing (analyze_sentinel.py: "added, never removed until end").
LeaksAreExact ==
    /\ DOMAIN Analysis.open = clean \ (base \ BaselineRemovals)
    /\ base \ clean \subseteq BaselineRemovals
    /\ BaselineRemovals \subseteq base

\* A test is blamed for a key only if the key was touched since the test before
\* it: by the test itself, by a late write of an earlier one, or, for the last
\* test, by the teardown of the session (sentinel.py: "Any net change is
\* attributed precisely to the test that just ran").
NoInnocentBlamed ==
    [][\A k \in Key :
          (/\ Len(report') > Len(report)
           /\ report'[Len(report')].event = "leak"
           /\ k \in report'[Len(report')].added \cup report'[Len(report')].removed)
          => /\ who[k] \cap {test, "late", "session"} # {}
             /\ "session" \in who[k] => todo = {}]_vars

\* The sentinel and the tool together keep the ledger that the report promises.
Promise == INSTANCE Ledger WITH
    seen <- clean, open <- Analysis.open, moved <- Analysis.moved

KeepsLedger == Promise!Spec
=============================================================================

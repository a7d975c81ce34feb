--------------------------- MODULE SentinelProofs ---------------------------
(***************************************************************************)
(* Proofs about Sentinel, for any keys and tests.                          *)
(*                                                                         *)
(* BlameInv: a key that differs from what the sentinel saw last has been   *)
(* touched since, and only by the test that runs, by a late write, or by   *)
(* the teardown of the session.  ReportInv: the tool's loop over the       *)
(* report has one run, so that a line added is a turn added; with it every *)
(* step of the sentinel is a step of the ledger.                           *)
(***************************************************************************)
EXTENDS Sentinel, TLAPS

LEMMA TypeInit == Init => TypeOK
BY DEF Init, TypeOK, Record

LEMMA LineIsRecord ==
    ASSUME TypeOK, test \in Test, NEW e \in {"leak", "heal"},
           NEW A \in SUBSET Key, NEW R \in SUBSET Key
    PROVE  Append(report, Line(e, A, R)) \in Seq(Record)
<1>1. Line(e, A, R) \in Record
  BY DEF Line, Record
<1> QED
  BY <1>1 DEF TypeOK

LEMMA TouchType ==
    ASSUME TypeOK, NEW K, NEW a \in Agent, Touch(K, a)
    PROVE  who' \in [Key -> SUBSET Agent]
BY DEF TypeOK, Touch

\* A test is named as soon as one has run.
NamedInv == stage # "idle" => test \in Test

LEMMA TypeStep == TypeOK /\ NamedInv /\ [Next]_vars => TypeOK' /\ NamedInv'
<1> SUFFICES ASSUME TypeOK, NamedInv, [Next]_vars PROVE TypeOK' /\ NamedInv'
  OBVIOUS
<1>1. ASSUME NEW t \in Test, NEW K \in SUBSET Key, NEW L \in SUBSET Key, RunTest(t, K, L)
      PROVE  TypeOK' /\ NamedInv'
  <2>1. who' \in [Key -> SUBSET Agent]
    BY <1>1, TouchType DEF RunTest, Agent
  <2> QED
    BY <1>1, <2>1 DEF TypeOK, NamedInv, RunTest, Flip, tool
<1>2. ASSUME NEW k \in Key, Land(k)
      PROVE  TypeOK' /\ NamedInv'
  <2>1. who' \in [Key -> SUBSET Agent]
    BY <1>2, TouchType DEF Land, Agent
  <2> QED
    BY <1>2, <2>1 DEF TypeOK, NamedInv, Land, Flip, tool
<1>3. CASE Guard
  BY <1>3 DEF TypeOK, NamedInv, Guard, tool
<1>4. ASSUME NEW k \in Key, RecordHeal({k})
      PROVE  TypeOK' /\ NamedInv'
  <2>1. test \in Test
    BY <1>4 DEF RecordHeal, NamedInv
  <2>2. who' \in [Key -> SUBSET Agent]
    BY <1>4, <2>1, TouchType DEF RecordHeal, Agent
  <2>3. report' \in Seq(Record)
    BY <1>4, <2>1, LineIsRecord DEF RecordHeal
  <2> QED
    BY <1>4, <2>1, <2>2, <2>3 DEF TypeOK, NamedInv, RecordHeal, Flip
<1>5. ASSUME NEW K \in SUBSET Key, SessionTeardown(K)
      PROVE  TypeOK' /\ NamedInv'
  <2>1. who' \in [Key -> SUBSET Agent]
    BY <1>5, TouchType DEF SessionTeardown, Agent
  <2> QED
    BY <1>5, <2>1 DEF TypeOK, NamedInv, SessionTeardown, Flip, tool
<1>6. CASE CheckAfterTest
  <2>1. test \in Test
    BY <1>6 DEF CheckAfterTest, Compare, NamedInv
  <2>2. report' \in Seq(Record)
    BY <1>6, <2>1, LineIsRecord DEF CheckAfterTest, Compare, TypeOK
  <2> QED
    BY <1>6, <2>1, <2>2 DEF TypeOK, NamedInv, CheckAfterTest, Compare
<1>7. CASE UNCHANGED vars
  BY <1>7 DEF TypeOK, NamedInv, vars, tool
<1> QED
  BY <1>1, <1>2, <1>3, <1>4, <1>5, <1>6, <1>7 DEF Next

\* Type correctness, for any keys and tests.
THEOREM SentinelTypes == Spec => []TypeOK
<1>1. Init => NamedInv
  BY DEF Init, NamedInv
<1> QED
  BY <1>1, TypeInit, TypeStep, PTL DEF Spec

-----------------------------------------------------------------------------
(* Blame.                                                                  *)

Suspects == IF stage = "idle" THEN {"late"}
            ELSE IF stage = "torn" THEN {test, "late", "session"} ELSE {test, "late"}

BlameInv ==
    /\ \A k \in Key : (k \in cfg) # (k \in clean) => who[k] # {}
    /\ stage # "over" => \A k \in Key : who[k] \subseteq Suspects
    /\ stage = "torn" => todo = {}

LEMMA BlameInit == Init => BlameInv
BY DEF Init, BlameInv

\* Whoever changes keys is a suspect from then on.
LEMMA TouchIsSeen ==
    ASSUME BlameInv, NEW K \in SUBSET Key, NEW a,
           cfg' = Flip(cfg, K), Touch(K, a), clean' = clean
    PROVE  /\ \A k \in Key : (k \in cfg') # (k \in clean') => who'[k] # {}
           /\ \A k \in Key : who'[k] \subseteq who[k] \cup {a}
<1>1. ASSUME NEW k \in Key PROVE who'[k] = IF k \in K THEN who[k] \cup {a} ELSE who[k]
  BY DEF Touch
<1>2. ASSUME NEW k \in Key, (k \in cfg') # (k \in clean') PROVE who'[k] # {}
  <2>1. k \in K \/ (k \in cfg) # (k \in clean)
    BY <1>2 DEF Flip
  <2> QED
    BY <1>1, <2>1 DEF BlameInv
<1> QED
  BY <1>1, <1>2

LEMMA BlameStep == TypeOK /\ BlameInv /\ [Next]_vars => BlameInv'
<1> SUFFICES ASSUME TypeOK, BlameInv, [Next]_vars PROVE BlameInv'
  OBVIOUS
<1>0. ASSUME NEW a, stage # "over", \A k \in Key : who'[k] \subseteq who[k] \cup {a},
             Suspects \cup {a} \subseteq Suspects'
      PROVE  \A k \in Key : who'[k] \subseteq Suspects'
  BY <1>0 DEF BlameInv
<1>1. ASSUME NEW t \in Test, NEW K \in SUBSET Key, NEW L \in SUBSET Key, RunTest(t, K, L)
      PROVE  BlameInv'
  <2>1. stage = "idle" /\ stage' = "test" /\ test' = t
    BY <1>1 DEF RunTest
  <2>2. cfg' = Flip(cfg, K) /\ Touch(K, t) /\ clean' = clean
    BY <1>1 DEF RunTest, tool
  <2>3. Suspects \cup {t} \subseteq Suspects'
    BY <2>1 DEF Suspects
  <2>4. K \in SUBSET Key
    OBVIOUS
  <2>5. /\ \A j \in Key : (j \in cfg') # (j \in clean') => who'[j] # {}
        /\ \A j \in Key : who'[j] \subseteq who[j] \cup {t}
    BY <2>2, <2>4, TouchIsSeen
  <2>6. \A j \in Key : who'[j] \subseteq Suspects'
    BY <1>0, <2>1, <2>3, <2>5
  <2> QED
    BY <2>1, <2>5, <2>6 DEF BlameInv
<1>2. ASSUME NEW k \in Key, Land(k)
      PROVE  BlameInv'
  <2>1. stage # "over" /\ stage' = stage /\ test' = test /\ todo' = todo
    BY <1>2 DEF Land
  <2>2. cfg' = Flip(cfg, {k}) /\ Touch({k}, "late") /\ clean' = clean
    BY <1>2 DEF Land, tool
  <2>3. Suspects \cup {"late"} \subseteq Suspects'
    BY <2>1 DEF Suspects
  <2>4. {k} \in SUBSET Key
    OBVIOUS
  <2>5. /\ \A j \in Key : (j \in cfg') # (j \in clean') => who'[j] # {}
        /\ \A j \in Key : who'[j] \subseteq who[j] \cup {"late"}
    BY <2>2, <2>4, TouchIsSeen
  <2>6. \A j \in Key : who'[j] \subseteq Suspects'
    BY <1>0, <2>1, <2>3, <2>5
  <2> QED
    BY <2>1, <2>5, <2>6 DEF BlameInv
<1>3. CASE Guard
  BY <1>3 DEF BlameInv, Guard, Suspects, tool
<1>4. ASSUME NEW k \in Key, RecordHeal({k})
      PROVE  BlameInv'
  <2>1. stage = "test" /\ stage' = "final" /\ test' = test
    BY <1>4 DEF RecordHeal
  <2>2. cfg' = Flip(cfg, {k}) /\ Touch({k}, test) /\ clean' = clean
    BY <1>4 DEF RecordHeal
  <2>3. Suspects \cup {test} \subseteq Suspects'
    BY <2>1 DEF Suspects
  <2>4. {k} \in SUBSET Key
    OBVIOUS
  <2>5. /\ \A j \in Key : (j \in cfg') # (j \in clean') => who'[j] # {}
        /\ \A j \in Key : who'[j] \subseteq who[j] \cup {test}
    BY <2>2, <2>4, TouchIsSeen
  <2>6. \A j \in Key : who'[j] \subseteq Suspects'
    BY <1>0, <2>1, <2>3, <2>5
  <2> QED
    BY <2>1, <2>5, <2>6 DEF BlameInv
<1>5. ASSUME NEW K \in SUBSET Key, SessionTeardown(K)
      PROVE  BlameInv'
  <2>1. stage = "final" /\ stage' = "torn" /\ test' = test /\ todo' = {}
    BY <1>5 DEF SessionTeardown
  <2>2. cfg' = Flip(cfg, K) /\ Touch(K, "session") /\ clean' = clean
    BY <1>5 DEF SessionTeardown, tool
  <2>3. Suspects \cup {"session"} \subseteq Suspects'
    BY <2>1 DEF Suspects
  <2>4. K \in SUBSET Key
    OBVIOUS
  <2>5. /\ \A j \in Key : (j \in cfg') # (j \in clean') => who'[j] # {}
        /\ \A j \in Key : who'[j] \subseteq who[j] \cup {"session"}
    BY <2>2, <2>4, TouchIsSeen
  <2>6. \A j \in Key : who'[j] \subseteq Suspects'
    BY <1>0, <2>1, <2>3, <2>5
  <2> QED
    BY <2>1, <2>5, <2>6 DEF BlameInv
<1>6. CASE CheckAfterTest
  BY <1>6 DEF TypeOK, BlameInv, CheckAfterTest, Compare, Suspects
<1>7. CASE UNCHANGED vars
  BY <1>7 DEF BlameInv, Suspects, vars, tool
<1> QED
  BY <1>1, <1>2, <1>3, <1>4, <1>5, <1>6, <1>7 DEF Next

Fair(k) ==
    (/\ Len(report') > Len(report)
     /\ report'[Len(report')].event = "leak"
     /\ k \in report'[Len(report')].added \cup report'[Len(report')].removed)
    => /\ who[k] \cap {test, "late", "session"} # {}
       /\ "session" \in who[k] => todo = {}

\* Only a comparison writes a leak line.
LEMMA BlameIsFair ==
    ASSUME TypeOK, NamedInv, BlameInv, [Next]_vars, NEW k \in Key
    PROVE  Fair(k)
<1>1. CASE report' = report
  BY <1>1 DEF Fair, TypeOK
<1>2. ASSUME NEW e \in Key, RecordHeal({e})
      PROVE  Fair(k)
  <2>1. report' = Append(report, Line("heal", {}, {}))
    BY <1>2 DEF RecordHeal
  <2>2. Len(report') = Len(report) + 1 /\ report'[Len(report')] = Line("heal", {}, {})
    BY <2>1 DEF TypeOK
  <2> QED
    BY <2>2 DEF Fair, Line
<1>3. CASE CheckAfterTest /\ report' = Append(report, Line("leak", cfg \ clean, clean \ cfg))
  <2>1. Len(report') = Len(report) + 1
        /\ report'[Len(report')] = Line("leak", cfg \ clean, clean \ cfg)
    BY <1>3 DEF TypeOK
  <2>2. /\ who[k] \subseteq Suspects /\ stage \in {"final", "torn"} /\ test \in Test
        /\ stage = "torn" => todo = {}
    BY <1>3 DEF CheckAfterTest, Compare, BlameInv, NamedInv
  <2>3. CASE k \in (cfg \ clean) \cup (clean \ cfg)
    <3>1. who[k] # {}
      BY <2>3 DEF BlameInv
    <3>2. "session" \in who[k] => stage = "torn"
      BY <2>2, SentinelAssumption DEF Suspects
    <3> QED
      BY <2>2, <3>1, <3>2 DEF Fair, Suspects
  <2>4. CASE k \notin (cfg \ clean) \cup (clean \ cfg)
    BY <2>1, <2>4 DEF Fair, Line
  <2> QED
    BY <2>3, <2>4
<1> QED
  BY <1>1, <1>2, <1>3 DEF Next, RunTest, Land, Guard, SessionTeardown, CheckAfterTest, Compare,
     tool, vars

\* No test is blamed for a key that nobody touched since the test before it, and the
\* teardown of the session is charged to the last test only, for any keys, tests and
\* order of late writes.
THEOREM BlameIsJust == Spec => NoInnocentBlamed
<1>1. Init => NamedInv
  BY DEF Init, NamedInv
<1>2. TypeOK /\ NamedInv /\ BlameInv /\ [Next]_vars => [\A k \in Key : Fair(k)]_vars
  BY BlameIsFair
<1> QED
  BY <1>1, <1>2, TypeInit, TypeStep, BlameInit, BlameStep, PTL DEF Spec, NoInnocentBlamed, Fair

-----------------------------------------------------------------------------
(* The replay of the report.                                               *)

\* f is the run of the tool's loop over the lines s.
RunOf(f, s) ==
    f = [n \in 0..Len(s) |-> IF n = 0 THEN NothingYet ELSE ReplayLine(f[n - 1], s[n])]

\* The loop has exactly one run over s.
Replayable(s) ==
    /\ \E f : RunOf(f, s)
    /\ \A f, g : RunOf(f, s) /\ RunOf(g, s) => f = g

LEMMA ReplayRuns ==
    ASSUME NEW s, Replayable(s)
    PROVE  RunOf(Replay(s), s)
<1>1. Replay(s) = CHOOSE f : RunOf(f, s)
  BY DEF Replay, RunOf
<1>2. PICK f : RunOf(f, s)
  BY DEF Replayable
<1> HIDE DEF RunOf
<1> QED
  BY <1>1, <1>2

LEMMA ReplayNothing == Replayable(<<>>) /\ Replay(<<>>)[0] = NothingYet
<1> DEFINE f == [n \in 0..0 |-> NothingYet]
<1>0. Len(<<>>) = 0
  OBVIOUS
<1>1. RunOf(f, <<>>)
  BY <1>0 DEF RunOf
<1>2. ASSUME NEW g, RunOf(g, <<>>) PROVE g = f
  BY <1>0, <1>2 DEF RunOf
<1>3. Replayable(<<>>)
  BY <1>1, <1>2 DEF Replayable
<1>4. Replay(<<>>) = f
  BY <1>2, <1>3, ReplayRuns
<1> QED
  BY <1>3, <1>4

\* One more line is one more turn of the loop.
LEMMA ReplayAppend ==
    ASSUME NEW S, NEW s \in Seq(S), NEW r \in S, Replayable(s)
    PROVE  /\ Replayable(Append(s, r))
           /\ Replay(Append(s, r))[Len(Append(s, r))] = ReplayLine(Replay(s)[Len(s)], r)
<1> DEFINE t == Append(s, r)
           n == Len(s)
           h == Replay(s)
           g == [i \in 0..(n + 1) |-> IF i = n + 1 THEN ReplayLine(h[n], r) ELSE h[i]]
<1>1. n \in Nat /\ Len(t) = n + 1 /\ t[n + 1] = r /\ \A i \in 1..n : t[i] = s[i]
  OBVIOUS
<1>2. RunOf(h, s)
  BY ReplayRuns
<1>3. /\ h[0] = NothingYet
      /\ \A i \in 1..n : h[i] = ReplayLine(h[i - 1], s[i])
  BY <1>1, <1>2 DEF RunOf
<1> HIDE DEF t, n, h
<1>4. RunOf(g, t)
  <2>1. ASSUME NEW i \in 0..(n + 1)
        PROVE  g[i] = IF i = 0 THEN NothingYet ELSE ReplayLine(g[i - 1], t[i])
    <3>1. CASE i = 0
      BY <1>1, <1>3, <3>1
    <3>2. CASE i \in 1..n
      BY <1>1, <1>3, <3>2
    <3>3. CASE i = n + 1
      BY <1>1, <3>3
    <3> QED
      BY <1>1, <3>1, <3>2, <3>3
  <2> QED
    BY <1>1, <2>1 DEF RunOf
<1>5. ASSUME NEW f, RunOf(f, t)
      PROVE  f = g
  <2> DEFINE e == [i \in 0..n |-> f[i]]
  <2>1. /\ DOMAIN f = 0..(n + 1) /\ f = [i \in 0..(n + 1) |-> f[i]]
        /\ \A i \in 0..(n + 1) : f[i] = IF i = 0 THEN NothingYet ELSE ReplayLine(f[i - 1], t[i])
    BY <1>1, <1>5 DEF RunOf
  <2>2. RunOf(e, s)
    <3>1. ASSUME NEW i \in 0..n
          PROVE  e[i] = IF i = 0 THEN NothingYet ELSE ReplayLine(e[i - 1], s[i])
      <4>1. CASE i = 0
        BY <1>1, <2>1, <4>1
      <4>2. CASE i # 0
        <5>1. i \in 1..n /\ i - 1 \in 0..n /\ i \in 0..(n + 1)
          BY <1>1, <4>2
        <5>2. f[i] = ReplayLine(f[i - 1], t[i]) /\ t[i] = s[i]
          BY <1>1, <2>1, <4>2, <5>1
        <5>3. e[i] = f[i] /\ e[i - 1] = f[i - 1]
          BY <5>1
        <5> QED
          BY <4>2, <5>2, <5>3
      <4> QED
        BY <4>1, <4>2
    <3> QED
      BY <3>1 DEF RunOf, n
  <2>3. e = h
    BY <1>2, <2>2 DEF Replayable
  <2>4. \A i \in 0..n : f[i] = h[i]
    BY <2>3
  <2>5. f[n + 1] = ReplayLine(h[n], r)
    BY <1>1, <2>1, <2>4
  <2>6. \A i \in 0..(n + 1) : f[i] = g[i]
    BY <1>1, <2>4, <2>5
  <2> QED
    BY <2>1, <2>6
<1> HIDE DEF g
<1>6. Replayable(t)
  BY <1>4, <1>5 DEF Replayable
<1>7. Replay(t) = g
  BY <1>5, <1>6, ReplayRuns
<1>8. g[n + 1] = ReplayLine(h[n], r)
  BY <1>1 DEF g
<1> QED
  BY <1>1, <1>6, <1>7, <1>8 DEF t, n, h

\* What a step does to the tool's output: nothing, or a line that changes nothing, or
\* the line of a comparison.
Same == Analysis' = Analysis
Closed ==
    /\ test \in Test
    /\ Analysis' = ReplayLine(Analysis, Line("leak", cfg \ clean, clean \ cfg))

\* The report can be replayed, and the open leaks are a function.
ReportInv ==
    /\ Replayable(report)
    /\ Analysis.open = [k \in DOMAIN Analysis.open |-> Analysis.open[k]]
    /\ Analysis = [open |-> Analysis.open, moved |-> Analysis.moved]

LEMMA ReportInit == Init => ReportInv /\ Analysis = NothingYet
<1> SUFFICES ASSUME Init PROVE ReportInv /\ Analysis = NothingYet
  OBVIOUS
<1>1. report = <<>> /\ Len(report) = 0
  BY DEF Init
<1>2. Replayable(report) /\ Analysis = NothingYet
  BY <1>1, ReplayNothing DEF Analysis
<1> QED
  BY <1>2 DEF ReportInv, NothingYet

\* A line keeps the shape of the account.
LEMMA ReplayShape ==
    ASSUME NEW a, NEW r
    PROVE  LET b == ReplayLine(a, r)
           IN /\ b.open = [k \in DOMAIN b.open |-> b.open[k]]
              /\ b = [open |-> b.open, moved |-> b.moved]
BY DEF ReplayLine

LEMMA ReportStep ==
    TypeOK /\ NamedInv /\ ReportInv /\ [Next]_vars =>
        /\ ReportInv'
        /\ \/ Same /\ clean' = clean
           \/ Same /\ cfg = clean /\ clean' = cfg
           \/ Closed /\ clean' = cfg
<1> SUFFICES ASSUME TypeOK, NamedInv, ReportInv, [Next]_vars
             PROVE  /\ ReportInv'
                    /\ \/ Same /\ clean' = clean
                       \/ Same /\ cfg = clean /\ clean' = cfg
                       \/ Closed /\ clean' = cfg
  OBVIOUS
<1>0. ASSUME report' = report
      PROVE  ReportInv' /\ Same
  BY <1>0 DEF ReportInv, Same, Analysis
<1>1. ASSUME NEW r \in Record, report' = Append(report, r)
      PROVE  ReportInv' /\ Analysis' = ReplayLine(Analysis, r)
  <2>1. report \in Seq(Record) /\ Replayable(report)
    BY DEF TypeOK, ReportInv
  <2>2. Replayable(report)' /\ Analysis' = ReplayLine(Analysis, r)
    BY <1>1, <2>1, ReplayAppend DEF Analysis
  <2> HIDE DEF Analysis
  <2> QED
    BY <2>2, ReplayShape DEF ReportInv
<1>2. CASE \E k \in Key : RecordHeal({k})
  <2>1. PICK k \in Key : RecordHeal({k})
    BY <1>2
  <2> DEFINE r == Line("heal", {}, {})
  <2>2. r \in Record /\ report' = Append(report, r) /\ clean' = clean
    BY <2>1 DEF RecordHeal, NamedInv, Line, Record
  <2>3. ReportInv' /\ Analysis' = ReplayLine(Analysis, r)
    BY <1>1, <2>2
  <2>4. r.added = {} /\ r.removed = {}
    BY DEF Line
  <2>5. ReplayLine(Analysis, r) = [open |-> [k1 \in DOMAIN Analysis.open |-> Analysis.open[k1]],
                                   moved |-> Analysis.moved]
    BY <2>4 DEF ReplayLine
  <2> QED
    BY <2>2, <2>3, <2>5 DEF ReportInv, Same
<1>3. CASE CheckAfterTest
  <2>1. PICK storm \in BOOLEAN :
           report' = IF Dirty(storm) THEN Append(report, Line("leak", cfg \ clean, clean \ cfg))
                                     ELSE report
    BY <1>3 DEF CheckAfterTest, Compare
  <2>2. test \in Test /\ clean' = cfg
    BY <1>3 DEF CheckAfterTest, Compare, NamedInv
  <2>3. CASE Dirty(storm)
    <3>1. Line("leak", cfg \ clean, clean \ cfg) \in Record
      BY <2>2 DEF Line, Record, TypeOK
    <3> QED
      BY <1>1, <2>1, <2>2, <2>3, <3>1 DEF Closed
  <2>4. CASE ~Dirty(storm)
    BY <1>0, <2>1, <2>2, <2>4 DEF Dirty
  <2> QED
    BY <2>3, <2>4
<1>4. CASE ~(\E k \in Key : RecordHeal({k})) /\ ~CheckAfterTest
  <2>1. report' = report /\ clean' = clean
    BY <1>4 DEF Next, RunTest, Land, Guard, SessionTeardown, tool, vars
  <2> QED
    BY <1>0, <2>1
<1> QED
  BY <1>2, <1>3, <1>4

\* Every open leak has a maker.
MakersInv == \A k \in DOMAIN Analysis.open : Analysis.open[k] \in Test

ExactInv == LeaksAreExact /\ MakersInv

LEMMA ExactStep == TypeOK /\ NamedInv /\ ReportInv /\ ExactInv /\ [Next]_vars => ExactInv'
<1> SUFFICES ASSUME TypeOK, NamedInv, ReportInv, ExactInv, [Next]_vars PROVE ExactInv'
  OBVIOUS
<1>1. base' = base
  BY DEF Next, RunTest, Land, Guard, RecordHeal, SessionTeardown, CheckAfterTest, Compare, tool, vars
<1> USE DEF ExactInv, MakersInv, BaselineRemovals
<1>2. CASE Same /\ clean' = clean
  BY <1>1, <1>2 DEF Same, LeaksAreExact
<1>3. CASE Same /\ cfg = clean /\ clean' = cfg
  BY <1>1, <1>3 DEF Same, LeaksAreExact
<1>4. CASE Closed /\ clean' = cfg
  <2> DEFINE r == Line("leak", cfg \ clean, clean \ cfg)
  <2>1. /\ Analysis' = ReplayLine(Analysis, r) /\ r.added = cfg \ clean /\ r.removed = clean \ cfg
        /\ r.test \in Test
    BY <1>4 DEF Closed, Line
  <2> HIDE DEF r
  <2>2. DOMAIN Analysis'.open = (DOMAIN Analysis.open \cup (cfg \ clean)) \ (clean \ cfg)
    BY <2>1 DEF ReplayLine
  <2>3. MakersInv'
    <3>1. ASSUME NEW k \in DOMAIN Analysis'.open PROVE Analysis'.open[k] \in Test
      <4>1. Analysis'.open[k] = IF k \in r.added THEN r.test ELSE Analysis.open[k]
        BY <2>1, <3>1 DEF ReplayLine
      <4>2. k \in r.added \/ k \in DOMAIN Analysis.open
        BY <2>1, <2>2, <3>1
      <4> QED
        BY <2>1, <4>1, <4>2
    <3> QED
      BY <3>1
  <2>4. \A k : k \in BaselineRemovals' <=>
                k \in BaselineRemovals \/ k \in (clean \ cfg) \ DOMAIN Analysis.open
    <3> DEFINE Maker(k) == IF k \in DOMAIN Analysis.open THEN Analysis.open[k] ELSE NoTest
    <3>1. Analysis'.moved = Analysis.moved \cup {<<k, Maker(k), r.test>> : k \in clean \ cfg}
      BY <2>1 DEF ReplayLine
    <3>2. \A k : Maker(k) = NoTest <=> k \notin DOMAIN Analysis.open
      BY SentinelAssumption
    <3> HIDE DEF Maker
    <3>3. \A k : k \in BaselineRemovals' <=> \E m \in Analysis'.moved : m[2] = NoTest /\ m[1] = k
      OBVIOUS
    <3>4. \A k : k \in BaselineRemovals <=> \E m \in Analysis.moved : m[2] = NoTest /\ m[1] = k
      OBVIOUS
    <3>5. ASSUME NEW k, NEW m \in Analysis'.moved, m[2] = NoTest, m[1] = k
          PROVE  k \in BaselineRemovals \/ k \in (clean \ cfg) \ DOMAIN Analysis.open
      <4>1. CASE m \in Analysis.moved
        BY <3>4, <3>5, <4>1
      <4>2. CASE m \notin Analysis.moved
        <5>1. PICK j \in clean \ cfg : m = <<j, Maker(j), r.test>>
          BY <3>1, <4>2
        <5> QED
          BY <3>2, <3>5, <5>1
      <4> QED
        BY <4>1, <4>2
    <3>6. ASSUME NEW k \in (clean \ cfg) \ DOMAIN Analysis.open
          PROVE  \E m \in Analysis'.moved : m[2] = NoTest /\ m[1] = k
      <4>1. <<k, Maker(k), r.test>> \in Analysis'.moved /\ Maker(k) = NoTest
        BY <3>1, <3>2
      <4> QED
        BY <4>1
    <3>7. Analysis.moved \subseteq Analysis'.moved
      BY <3>1
    <3> HIDE DEF BaselineRemovals
    <3> QED
      BY <3>3, <3>4, <3>5, <3>6, <3>7
  <2> HIDE DEF BaselineRemovals
  <2>5. LeaksAreExact'
    BY <1>1, <1>4, <2>2, <2>4 DEF LeaksAreExact
  <2> QED
    BY <2>3, <2>5
<1> QED
  BY <1>2, <1>3, <1>4, ReportStep

\* What the tool lists can be read exactly, after any session: TRUE-LEAK holds the keys that
\* are there and are new or were missing for a while, removed-baseline-key tells the second
\* from the first and names every baseline key that is gone.
THEOREM ReportIsExact == Spec => []LeaksAreExact
<1>1. Init => NamedInv /\ ExactInv
  <2>1. Init => clean = base
    BY DEF Init
  <2> HIDE DEF Analysis
  <2> QED
    BY <2>1, ReportInit DEF Init, NamedInv, ExactInv, MakersInv, LeaksAreExact, BaselineRemovals, NothingYet
<1>2. Init => ReportInv
  BY ReportInit
<1>3. TypeOK /\ NamedInv /\ ReportInv /\ [Next]_vars => ReportInv'
  BY ReportStep
<1>4. ExactInv => LeaksAreExact
  BY DEF ExactInv
<1> QED
  BY <1>1, <1>2, <1>3, <1>4, ExactStep, TypeInit, TypeStep, PTL DEF Spec

\* Every step of the sentinel is a closing of the ledger or leaves it alone.
LEMMA LedgerStep ==
    TypeOK /\ NamedInv /\ ReportInv /\ [Next]_vars => [Promise!Next]_(Promise!ledger)
<1> SUFFICES ASSUME TypeOK, NamedInv, ReportInv, [Next]_vars
             PROVE  [Promise!Next]_(Promise!ledger)
  OBVIOUS
<1> HIDE DEF Analysis
<1>1. CASE Same /\ clean' = clean
  BY <1>1 DEF Same, Promise!ledger
<1>2. CASE Same /\ cfg = clean /\ clean' = cfg
  BY <1>2 DEF Same, Promise!ledger
<1>3. CASE Closed /\ clean' = cfg
  <2> DEFINE added == cfg \ clean
             removed == clean \ cfg
             r == Line("leak", added, removed)
  <2>1. Analysis' = ReplayLine(Analysis, r) /\ test \in Test /\ cfg \in SUBSET Key
    BY <1>3 DEF Closed, TypeOK
  <2>2. r.added = added /\ r.removed = removed /\ r.test = test
    BY DEF Line
  <2>3. added \cap removed = {}
    OBVIOUS
  <2>4. (DOMAIN Analysis.open \cup added) \ removed = (DOMAIN Analysis.open \ removed) \cup added
    BY <2>3
  <2> HIDE DEF r, added, removed
  <2>5. Analysis'.open = [k \in (DOMAIN Analysis.open \ removed) \cup added |->
                            IF k \in added THEN test ELSE Analysis.open[k]]
    BY <2>1, <2>2, <2>4 DEF ReplayLine
  <2>6. Analysis'.moved = Analysis.moved \cup
           {<<k, IF k \in DOMAIN Analysis.open THEN Analysis.open[k] ELSE NoTest, test>> : k \in removed}
    BY <2>1, <2>2 DEF ReplayLine
  <2>7. Promise!Close(test, cfg)
    BY <1>3, <2>5, <2>6 DEF Promise!Close, Promise!Maker, added, removed
  <2> QED
    BY <2>1, <2>7 DEF Promise!Next
<1> QED
  BY <1>1, <1>2, <1>3, ReportStep

\* The sentinel and the tool implement the ledger: whatever tests, daemons and the
\* session's teardown do, the tool's output changes only as a ledger would.
THEOREM SentinelImplementsLedger == Spec => KeepsLedger
<1>1. Init => Promise!Init
  <2> HIDE DEF Analysis
  <2> QED
    BY ReportInit DEF Init, Promise!Init, NothingYet
<1>2. Init => NamedInv /\ ReportInv
  BY ReportInit DEF Init, NamedInv
<1>3. TypeOK /\ NamedInv /\ ReportInv /\ [Next]_vars => ReportInv'
  BY ReportStep
<1> QED
  BY <1>1, <1>2, <1>3, LedgerStep, TypeInit, TypeStep, PTL DEF Spec, KeepsLedger, Promise!Spec
=============================================================================

----------------------------- MODULE QosProofs ------------------------------
(***************************************************************************)
(* Proofs about QosObjects, for any scripts of tests and any bounds.       *)
(*                                                                         *)
(* SweepInv says what the sweep still has to look at.  HomeInv says that   *)
(* whatever a test added still has its undo on the list, unless a fault    *)
(* put it out of reach, and that orig_pqm keeps what the baseline took     *)
(* from PORT_QOS_MAP.                                                      *)
(***************************************************************************)
EXTENDS QosObjects, TLAPS

-----------------------------------------------------------------------------
(* Types.                                                                  *)

\* The types in groups that actions change together.
DbTypes == db \subseteq Object \cup Row /\ held \subseteq Object /\ late \subseteq Row
UndoTypes == undo \in Seq(Object \cup Row) /\ tries \in 0..MaxTries /\ warned \subseteq Object \cup Row
MarTypes == marred \subseteq Object \cup Row
PlanTypes == script \in Seq(Operation) /\ stage \in {"idle", "test", "undo", "sweep", "end"}
BoolTypes == metered \in BOOLEAN /\ gated \in BOOLEAN
RestTypes ==
    /\ factory \subseteq Shipped /\ orig \subseteq PortMap /\ todo \subseteq Object
    /\ tests \in 0..MaxTests /\ crashes \in 0..MaxCrashes

LEMMA TypeParts ==
    TypeOK <=> DbTypes /\ UndoTypes /\ MarTypes /\ PlanTypes /\ BoolTypes /\ RestTypes
BY DEF TypeOK, DbTypes, UndoTypes, MarTypes, PlanTypes, BoolTypes, RestTypes

LEMMA FrontIsSeq ==
    ASSUME NEW T, NEW s \in Seq(T), s # <<>>
    PROVE  Front(s) \in Seq(T)
BY DEF Front

LEMMA RowFacts ==
    /\ PortMap \subseteq Row /\ Shipped \subseteq Row /\ \A r \in Row : Refs(r) \subseteq Object
    /\ Object \cap Row = {}
<1>1. \A r \in Row : Refs(r) \in {{"S"}, {"SB", "WR"}, {"LP"}, {"MP"}, {}}
  BY DEF Row, Refs, Shipped
<1> QED
  BY <1>1 DEF PortMap, Row, Shipped, Object

LEMMA TypeInit == Init => TypeOK
<1> SUFFICES ASSUME Init PROVE TypeOK
  OBVIOUS
<1>1. DbTypes
  BY RowFacts DEF Init, DbTypes
<1>2. UndoTypes /\ MarTypes
  <2>1. tries \in 0..MaxTries
    BY QosAssumption DEF Init
  <2> QED
    BY <2>1 DEF Init, UndoTypes, MarTypes
<1>3. PlanTypes /\ BoolTypes
  <2>1. BoolTypes
    BY DEF Init, BoolTypes
  <2>2. script = <<>> /\ stage = "idle"
    BY DEF Init
  <2>3. PlanTypes
    BY <2>2 DEF PlanTypes
  <2> QED
    BY <2>1, <2>3
<1>4. RestTypes
  BY QosAssumption DEF Init, RestTypes
<1> QED
  BY <1>1, <1>2, <1>3, <1>4, TypeParts

\* A step of a test's script.
LEMMA GoTypes ==
    ASSUME PlanTypes, script # <<>>, Go(TRUE) \/ Go(FALSE)
    PROVE  PlanTypes'
<1>1. CASE Go(TRUE)
  <2>1. script' = Tail(script) /\ stage' = stage
    BY <1>1 DEF Go
  <2>2. Tail(script) \in Seq(Operation)
    BY DEF PlanTypes
  <2> QED
    BY <2>1, <2>2 DEF PlanTypes
<1>2. CASE Go(FALSE)
  <2>1. script' = <<>> /\ stage' = "undo"
    BY <1>2 DEF Go
  <2> QED
    BY <2>1 DEF PlanTypes
<1> QED
  BY <1>1, <1>2

Building ==
    \/ MakeScheduler \/ BindQueue \/ BindTakenQueue \/ BindPort
    \/ BuildLossless \/ BuildBaseline \/ BuildSchedBaseline

LEMMA BuildSteps ==
    ASSUME Building
    PROVE  /\ script # <<>> /\ (Go(TRUE) \/ Go(FALSE)) /\ stage = "test"
           /\ UNCHANGED <<held, tries, todo, warned, session>>
           /\ orig' \in {orig, db \cap PortMap}
<1>1. /\ script # <<>> /\ stage = "test" /\ UNCHANGED <<tries, todo, warned, session>>
      /\ orig' \in {orig, db \cap PortMap}
  BY DEF Building, MakeScheduler, BindQueue, BindTakenQueue, BindPort, BuildLossless, BuildBaseline,
     BuildSchedBaseline, At
<1>2. held' = held
  BY DEF Building, MakeScheduler, BindQueue, BindTakenQueue, BindPort, BuildLossless, BuildBaseline,
     BuildSchedBaseline
<1>3. Go(TRUE) \/ Go(FALSE)
  BY DEF Building, MakeScheduler, BindQueue, BindTakenQueue, BindPort, BuildLossless, BuildBaseline,
     BuildSchedBaseline, Bind
<1> QED
  BY <1>1, <1>2, <1>3

\* What the scheduler baseline adds.
LEMMA SchedBaseline ==
    ASSUME BuildSchedBaseline
    PROVE  \E made \in SUBSET {"SB", "WR"} :
              /\ \/ db' = db \cup made /\ late' = late
                    /\ marred' = marred \cup (db \cap {"F0"})
                 \/ db' = ((db \cup made) \ {"F0"}) \cup {"Q0"} /\ late' = late
                    /\ marred' = marred \cup (db \cap {"F0"})
                 \/ db' = db \cup made /\ late' = late \cup {"Q0"}
                    /\ marred' = marred \cup (db \cap {"F0"}) \cup ({"Q0"} \ late)
<1>1. PICK made \in SUBSET {"SB", "WR"}, queue \in {"refused", "there", "late"} :
         /\ db' = IF queue = "there" THEN ((db \cup made) \ {"F0"}) \cup {"Q0"} ELSE db \cup made
         /\ late' = IF queue = "late" THEN late \cup {"Q0"} ELSE late
         /\ marred' = marred \cup (db \cap {"F0"}) \cup (late' \ late)
  BY DEF BuildSchedBaseline
<1> QED
  BY <1>1

\* What a step of the building may write.
LEMMA BuildWrites ==
    ASSUME TypeOK, Building
    PROVE  /\ db' \subseteq Object \cup Row /\ late' \subseteq Row
           /\ undo' \in Seq(Object \cup Row) /\ metered' \in BOOLEAN /\ marred' \subseteq Object \cup Row
<1> USE DEF TypeOK
<1>1. \A x, y, z \in Object \cup Row :
        /\ Append(undo, x) \in Seq(Object \cup Row)
        /\ undo \o <<x, y>> \in Seq(Object \cup Row)
        /\ undo \o <<x, y, z>> \in Seq(Object \cup Row)
  OBVIOUS
<1>2. {"S", "SB", "WR", "LP", "MP", "Q1", "Q0", "F1", "F0", "PG", "PS", "PM"} \subseteq Object \cup Row
  BY DEF Object, Row
<1>3. {"Q1", "Q0", "PG", "PS"} \subseteq Row
  BY DEF Row
<1>4. ASSUME NEW r \in {"Q1", "PS"}, Bind(r)
      PROVE  /\ db' \subseteq Object \cup Row /\ late' \subseteq Row
             /\ undo' \in Seq(Object \cup Row) /\ marred' \subseteq Object \cup Row
  BY <1>1, <1>2, <1>3, <1>4 DEF Bind
<1>5. CASE MakeScheduler
  BY <1>1, <1>2, <1>5 DEF MakeScheduler
<1>6. CASE BindQueue
  <2>1. CASE Bind("Q1")
    BY <1>4, <1>6, <2>1 DEF BindQueue
  <2>2. CASE ~Bind("Q1")
    BY <1>6, <2>2 DEF BindQueue
  <2> QED
    BY <2>1, <2>2
<1>11. CASE BindTakenQueue
  <2>1. undo' = Append(undo, "Q1") /\ metered' = metered
    BY <1>11 DEF BindTakenQueue
  <2>2. db' \subseteq db \cup {"Q1"} /\ late' \subseteq late \cup {"Q1"}
        /\ marred' \subseteq marred \cup {"F1", "Q1"}
    BY <1>11 DEF BindTakenQueue
  <2> QED
    BY <1>1, <1>2, <1>3, <2>1, <2>2
<1>7. CASE BindPort
  BY <1>4, <1>7 DEF BindPort
<1>8. CASE BuildLossless
  <2>1. undo \o <<"LP", "PG">> \in Seq(Object \cup Row) /\ Append(undo, "LP") \in Seq(Object \cup Row)
    BY <1>1, <1>2
  <2>2. undo' \in {undo, undo \o <<"LP", "PG">>, Append(undo, "LP")}
    BY <1>8 DEF BuildLossless
  <2>3. undo' \in Seq(Object \cup Row)
    BY <2>1, <2>2
  <2>4. db' \subseteq Object \cup Row /\ late' \subseteq Row
    BY <1>2, <1>3, <1>8 DEF BuildLossless
  <2>5. metered' \in BOOLEAN /\ marred' \subseteq Object \cup Row
    BY <1>2, <1>8 DEF BuildLossless
  <2> QED
    BY <2>3, <2>4, <2>5
<1>9. CASE BuildBaseline
  BY <1>1, <1>2, <1>9 DEF BuildBaseline
<1>10. CASE BuildSchedBaseline
  <2>1. undo' = undo \o <<"SB", "WR", "Q0">> /\ metered' = metered
    BY <1>10 DEF BuildSchedBaseline
  <2>2. db' \subseteq db \cup {"SB", "WR", "Q0"} /\ late' \subseteq late \cup {"Q0"}
        /\ marred' \subseteq marred \cup {"F0", "Q0"}
    BY <1>10, SchedBaseline
  <2> QED
    BY <1>1, <1>2, <1>3, <2>1, <2>2
<1> QED
  BY <1>5, <1>6, <1>7, <1>8, <1>9, <1>10, <1>11 DEF Building

LEMMA BuildTypes == TypeOK /\ Building => TypeOK'
<1> SUFFICES ASSUME TypeOK, Building PROVE TypeOK'
  OBVIOUS
<1>1. DbTypes' /\ UndoTypes' /\ MarTypes' /\ BoolTypes'
  BY BuildSteps, BuildWrites DEF TypeOK, DbTypes, UndoTypes, MarTypes, BoolTypes, session
<1>2. PlanTypes'
  <2>1. PlanTypes
    BY TypeParts
  <2> QED
    BY <2>1, BuildSteps, GoTypes
<1>3. RestTypes'
  BY BuildSteps DEF TypeOK, RestTypes, session
<1> QED
  BY <1>1, <1>2, <1>3 DEF TypeOK, DbTypes, UndoTypes, MarTypes, PlanTypes, BoolTypes, RestTypes

Undo ==
    \/ \E o \in Object : UndoObject(o)
    \/ \E r \in Row : UndoRow(r)
    \/ UndoPortScheduler \/ UndoBaseline \/ UndoScheduler

UndoWrites ==
    /\ db' \subseteq Object \cup Row /\ held' \subseteq Object
    /\ undo' \in Seq(Object \cup Row) /\ marred' \subseteq Object \cup Row
    /\ tries' \in 0..MaxTries /\ warned' \subseteq Object \cup Row

LEMMA UndoFrame ==
    ASSUME Undo
    PROVE  /\ undo # <<>> /\ stage = "undo"
           /\ UNCHANGED <<late, metered, script, orig, stage, todo, session>>
BY DEF Undo, UndoObject, UndoRow, UndoPortScheduler, UndoBaseline, UndoScheduler, Undoing

\* What a step of the undo may write.
LEMMA UndoStep == TypeOK /\ Undo => UndoWrites
<1> SUFFICES ASSUME TypeOK, Undo PROVE UndoWrites
  OBVIOUS
<1>1. Front(undo) \in Seq(Object \cup Row)
  BY UndoFrame, FrontIsSeq DEF TypeOK
<1>2. 0 \in 0..MaxTries /\ \A n \in 0..MaxTries : n < MaxTries => n + 1 \in 0..MaxTries
  BY QosAssumption
<1>3. "S" \in Object
  BY DEF Object
<1> USE RowFacts DEF TypeOK, UndoWrites
<1>4. ASSUME NEW o \in Object, UndoObject(o) PROVE UndoWrites
  BY <1>1, <1>4 DEF UndoObject
<1>5. ASSUME NEW r \in Row, UndoRow(r) PROVE UndoWrites
  BY <1>1, <1>5 DEF UndoRow, Unbind
<1>6. CASE UndoPortScheduler
  <2>1. "PS" \in Row
    BY DEF Row
  <2> QED
    BY <1>1, <1>6, <2>1 DEF UndoPortScheduler, Unbind
<1>7. CASE UndoBaseline
  <2>0. {"PM", "PF"} \subseteq Row
    BY DEF Row
  <2>1. \A X \in SUBSET PortMap : UNION {Refs(r) : r \in X} \subseteq Object
    OBVIOUS
  <2>2. (db \cap PortMap) \ orig \in SUBSET PortMap /\ orig \subseteq Row
    OBVIOUS
  <2>3. UNION {Refs(r) : r \in (db \cap PortMap) \ orig} \subseteq Object
    BY <2>1, <2>2
  <2> QED
    BY <1>1, <1>7, <2>0, <2>2, <2>3 DEF UndoBaseline
<1>8. CASE UndoScheduler
  BY <1>1, <1>2, <1>3, <1>8 DEF UndoScheduler
<1> QED
  BY <1>4, <1>5, <1>6, <1>7, <1>8 DEF Undo

LEMMA UndoTypeStep == TypeOK /\ Undo => TypeOK'
<1> SUFFICES ASSUME TypeOK, Undo PROVE TypeOK'
  OBVIOUS
<1>1. UndoWrites
  BY UndoStep
<1>2. UNCHANGED <<late, metered, script, orig, stage, todo, session>>
  BY UndoFrame
<1> QED
  BY <1>1, <1>2 DEF TypeOK, UndoWrites, session

LEMMA TypeStep == TypeOK /\ [Next]_vars => TypeOK'
<1> SUFFICES ASSUME TypeOK, [Next]_vars PROVE TypeOK'
  OBVIOUS
<1>1. CASE Building
  BY <1>1, BuildTypes
<1>2. CASE Undo
  BY <1>2, UndoTypeStep
<1>3. ASSUME NEW o \in Object, Release(o) PROVE TypeOK'
  BY <1>3 DEF TypeOK, Release, session
<1>4. ASSUME NEW r \in Row, Land(r) PROVE TypeOK'
  BY <1>4 DEF TypeOK, Land, session
<1>5. ASSUME NEW s \in Scripts, StartTest(s) PROVE TypeOK'
  <2>1. s \in Seq(Operation) /\ tests' \in 0..MaxTests
    BY <1>5, QosAssumption DEF StartTest, TypeOK
  <2> QED
    BY <1>5, <2>1 DEF StartTest, TypeOK
<1>6. CASE EndTest \/ Undone
  <2>1. script' \in {script, <<>>} /\ stage' \in {"undo", "idle"} /\ orig' \in {orig, {}}
    BY <1>6 DEF EndTest, Undone
  <2>2. script' \in Seq(Operation)
    <3>1. script \in Seq(Operation) /\ <<>> \in Seq(Operation)
      BY DEF TypeOK
    <3> QED
      BY <2>1, <3>1
  <2>3. UNCHANGED <<db, held, late, metered, undo, tries, todo, warned, marred, session>>
    BY <1>6 DEF EndTest, Undone
  <2> QED
    BY <2>1, <2>2, <2>3 DEF TypeOK, session
<1>7. CASE Crash
  <2>1. crashes' \in 0..MaxCrashes /\ tries' \in 0..MaxTries
    BY <1>7, QosAssumption DEF Crash, TypeOK
  <2>2. script' = <<>> /\ undo' = <<>>
    BY <1>7 DEF Crash
  <2>3. script' \in Seq(Operation) /\ undo' \in Seq(Object \cup Row)
    BY <2>2
  <2>4. ToSet(undo) \subseteq Object \cup Row /\ "PF" \in Row
    BY DEF TypeOK, ToSet, Row
  <2>5. marred' \subseteq Object \cup Row
    BY <1>7, <2>4 DEF Crash, TypeOK
  <2> QED
    BY <1>7, <2>1, <2>3, <2>5 DEF Crash, TypeOK
<1>8. CASE StartSweep
  <2>1. tries' \in 0..MaxTries /\ todo' \subseteq Object
    BY <1>8, QosAssumption DEF StartSweep, TypeOK
  <2>2. \A X \in SUBSET Row : UNION {Refs(r) : r \in X} \subseteq Object
    BY RowFacts
  <2>3. held' \subseteq Object /\ db' \subseteq db
    <3>1. PICK ok \in BOOLEAN :
             LET gone == {"Q1", "Q0"} \cup (IF ok THEN {"PS"} ELSE {})
             IN db' = db \ gone /\ held' = held \cup UNION {Refs(r) : r \in gone \cap db}
      BY <1>8 DEF StartSweep
    <3>2. {"Q1", "Q0"} \cup (IF ok THEN {"PS"} ELSE {}) \subseteq Row
      BY DEF Row
    <3> DEFINE gone == {"Q1", "Q0"} \cup (IF ok THEN {"PS"} ELSE {})
    <3>3. UNION {Refs(r) : r \in gone \cap db} \subseteq Object
      BY <2>2, <3>2
    <3> QED
      BY <3>1, <3>3 DEF TypeOK
  <2>4. warned' \subseteq Object \cup Row
    BY <1>8 DEF StartSweep, TypeOK, Row
  <2> QED
    BY <1>8, <2>1, <2>3, <2>4 DEF StartSweep, TypeOK, session
<1>9. ASSUME NEW o \in Object, SweepObject(o) PROVE TypeOK'
  <2>1. tries' \in 0..MaxTries
    BY <1>9, QosAssumption DEF SweepObject, TypeOK
  <2> QED
    BY <1>9, <2>1 DEF SweepObject, TypeOK, session
<1>10. CASE SweepDone \/ UNCHANGED vars
  BY <1>10 DEF SweepDone, TypeOK, session, vars
<1> QED
  BY <1>1, <1>2, <1>3, <1>4, <1>5, <1>6, <1>7, <1>8, <1>9, <1>10 DEF Next, Building, Undo

\* Type correctness, for any scripts and bounds.
THEOREM QosTypes == Spec => []TypeOK
BY TypeInit, TypeStep, PTL DEF Spec

-----------------------------------------------------------------------------
(* The sweep.                                                              *)

\* From the start of the sweep on, an object is still to be looked at or named, and
\* no late row undoes what the sweep did.
SweepInv ==
    /\ stage \in {"sweep", "end"} =>
          /\ late = {} /\ db \cap {"Q0", "Q1"} = {}
          /\ "PS" \in db => "PS" \in warned
          /\ (db \cap Object) \ {"MP"} \subseteq todo \cup warned
    /\ stage = "end" => todo = {}

LEMMA SweepStep == TypeOK /\ SweepInv /\ [Next]_vars => SweepInv'
<1> SUFFICES ASSUME TypeOK, SweepInv, [Next]_vars PROVE SweepInv'
  OBVIOUS
<1>1. ASSUME stage' \notin {"sweep", "end"} PROVE SweepInv'
  BY <1>1 DEF SweepInv
<1>2. CASE Building
  <2>1. stage' \in {"test", "undo"}
    BY <1>2, BuildSteps DEF Go
  <2> QED
    BY <1>1, <2>1
<1>3. CASE Undo
  <2>1. stage' = "undo"
    BY <1>3, UndoFrame
  <2> QED
    BY <1>1, <2>1
<1>4. CASE (\E s \in Scripts : StartTest(s)) \/ EndTest \/ Crash \/ Undone
  <2>1. stage' \in {"test", "undo", "idle"}
    BY <1>4 DEF StartTest, EndTest, Crash, Undone
  <2> QED
    BY <1>1, <2>1
<1>5. ASSUME NEW r \in Row, Land(r) PROVE SweepInv'
  <2>1. late # {} /\ stage' = stage
    BY <1>5 DEF Land
  <2> QED
    BY <1>1, <2>1 DEF SweepInv
<1>6. CASE (\E o \in Object : Release(o)) \/ UNCHANGED vars
  <2>1. UNCHANGED <<db, late, stage, todo, warned>>
    BY <1>6 DEF Release, vars
  <2> QED
    BY <2>1 DEF SweepInv
<1>7. CASE StartSweep
  <2>1. late' = {} /\ stage' = "sweep" /\ todo' = (db \cap Object) \ {"MP"}
    BY <1>7 DEF StartSweep
  <2>2. /\ db' \subseteq db /\ db' \cap {"Q0", "Q1"} = {}
        /\ "PS" \in db' => "PS" \in warned'
    BY <1>7 DEF StartSweep
  <2> QED
    BY <2>1, <2>2 DEF SweepInv
<1>8. ASSUME NEW o \in Object, SweepObject(o) PROVE SweepInv'
  <2>1. /\ stage = "sweep" /\ stage' = stage /\ late' = late
        /\ db' \subseteq db /\ warned \subseteq warned'
    BY <1>8 DEF SweepObject
  <2>2. \A x \in todo : x \in todo' \/ x \notin db' \/ x \in warned'
    BY <1>8 DEF SweepObject
  <2> QED
    BY <2>1, <2>2 DEF SweepInv
<1>9. CASE SweepDone
  BY <1>9 DEF SweepDone, SweepInv
<1> QED
  BY <1>2, <1>3, <1>4, <1>5, <1>6, <1>7, <1>8, <1>9 DEF Next, Building, Undo

LEMMA SweepConcludes == SweepInv => NoSilentShaper
<1> SUFFICES ASSUME SweepInv, stage = "end" PROVE NoSilentShaper
  BY DEF NoSilentShaper
<1>1. db \cap {"Q0", "Q1"} = {} /\ ("PS" \in db => "PS" \in warned)
  BY DEF SweepInv
<1>2. (db \cap Object) \ {"MP"} \subseteq warned
  BY DEF SweepInv
<1> QED
  BY <1>1, <1>2 DEF NoSilentShaper

\* At the end of a session with any number of crashes and late rows, what may still
\* limit the port is gone or named in a warning.
THEOREM SweepIsNeverSilent == Spec => []NoSilentShaper
<1>1. Init => SweepInv
  BY DEF Init, SweepInv
<1> QED
  BY <1>1, SweepStep, SweepConcludes, TypeInit, TypeStep, PTL DEF Spec

-----------------------------------------------------------------------------
(* A test that is over leaves the rows of the switch.                      *)

Listed(x) == \E i \in 1..Len(undo) : undo[i] = x

\* The row of a shipped queue is as it was, unless it is known that a test took it.
Taken(q, f) ==
    /\ f \in marred \/ (f \in db <=> f \in factory)
    /\ Listed(q) \/ q \in late => f \in marred \/ f \notin db

\* Whatever a test put there and is within its reach has its undo on the list.
Own == Object \cup {"Q1", "Q0", "PG", "PS", "PM"}
RowInv ==
    /\ late \subseteq marred
    /\ \A x \in Own \cap db : x \in marred \/ Listed(x) \/ (x = "S" /\ x \in warned)
    /\ Taken("Q1", "F1") /\ Taken("Q0", "F0")

\* The shipped PORT_QOS_MAP is in place, or in orig_pqm until the baseline is undone; a
\* scheduler field that orig_pqm would bring back has its own undo further down.
MapInv ==
    /\ ~Listed("PM") => "PF" \in marred \/ ("PF" \in db <=> "PF" \in factory)
    /\ Listed("PM") => /\ "PF" \in marred \/ ("PF" \in orig <=> "PF" \in factory)
                       /\ "PM" \in orig => "PM" \in marred
    /\ \A i, j \in 1..Len(undo) : undo[i] = "PM" /\ undo[j] = "PM" => i = j
    /\ \A j \in 1..Len(undo) :
          undo[j] = "PM" /\ "PS" \in orig =>
             "PS" \in marred \/ \E i \in 1..(j - 1) : undo[i] = "PS"

\* A script that builds the baseline no more than once: orig_pqm is read once.
Once(s) == \A i, j \in 1..Len(s) : s[i] = "base" /\ s[j] = "base" => i = j

PlanInv ==
    Once(script) /\ (Listed("PM") => \A i \in 1..Len(script) : script[i] # "base")

HomeInv ==
    /\ stage \in {"test", "undo"} \/ undo = <<>>
    /\ stage \in {"idle", "test", "undo"} => RowInv /\ MapInv /\ PlanInv

\* The undo list grows by the operations X.
Grown(X) ==
    /\ \A i \in 1..Len(undo) : i \in 1..Len(undo') /\ undo'[i] = undo[i]
    /\ \A i \in 1..Len(undo') : i \in 1..Len(undo) \/ undo'[i] \in X
    /\ \A x \in X : \E i \in 1..Len(undo') : undo'[i] = x

LEMMA GrowOne ==
    ASSUME undo \in Seq(Object \cup Row), NEW x, undo' = Append(undo, x)
    PROVE  Grown({x})
<1>1. Len(undo) \in Nat /\ Len(undo') = Len(undo) + 1 /\ undo'[Len(undo) + 1] = x
      /\ \A i \in 1..Len(undo) : undo'[i] = undo[i]
  OBVIOUS
<1>2. \A i \in 1..(Len(undo) + 1) : i \in 1..Len(undo) \/ i = Len(undo) + 1
  BY <1>1
<1> QED
  BY <1>1, <1>2 DEF Grown

LEMMA GrowTwo ==
    ASSUME undo \in Seq(Object \cup Row), NEW x, NEW y, undo' = undo \o <<x, y>>
    PROVE  /\ Grown({x, y}) /\ Len(undo') = Len(undo) + 2
           /\ undo'[Len(undo) + 1] = x /\ undo'[Len(undo) + 2] = y
<1>1. /\ Len(undo) \in Nat /\ Len(undo') = Len(undo) + 2
      /\ undo'[Len(undo) + 1] = x /\ undo'[Len(undo) + 2] = y
      /\ \A i \in 1..Len(undo) : undo'[i] = undo[i]
  OBVIOUS
<1>2. \A i \in 1..(Len(undo) + 2) : i \in 1..Len(undo) \/ i = Len(undo) + 1 \/ i = Len(undo) + 2
  BY <1>1
<1> QED
  BY <1>1, <1>2 DEF Grown

LEMMA GrowThree ==
    ASSUME undo \in Seq(Object \cup Row), NEW x, NEW y, NEW z, undo' = undo \o <<x, y, z>>
    PROVE  Grown({x, y, z})
<1> DEFINE n == Len(undo)
<1>1. /\ n \in Nat /\ Len(undo') = n + 3
      /\ undo'[n + 1] = x /\ undo'[n + 2] = y /\ undo'[n + 3] = z
      /\ \A i \in 1..n : undo'[i] = undo[i]
  OBVIOUS
<1> HIDE DEF n
<1>2. \A i \in 1..(n + 3) : i \in 1..n \/ i = n + 1 \/ i = n + 2 \/ i = n + 3
  BY <1>1
<1>3. \A i \in 1..n : i \in 1..Len(undo') /\ undo'[i] = undo[i]
  BY <1>1
<1>4. \A i \in 1..Len(undo') : i \in 1..n \/ undo'[i] \in {x, y, z}
  BY <1>1, <1>2
<1>5. n + 1 \in 1..Len(undo') /\ n + 2 \in 1..Len(undo') /\ n + 3 \in 1..Len(undo')
  BY <1>1
<1> QED
  BY <1>1, <1>3, <1>4, <1>5 DEF Grown, n

LEMMA GrowNone == undo' = undo => Grown({})
BY DEF Grown

\* The undo list loses its last operation.
LEMMA Shrink ==
    ASSUME undo \in Seq(Object \cup Row), undo # <<>>, NEW n, n = Len(undo), undo' = Front(undo)
    PROVE  /\ n \in Nat \ {0} /\ undo[n] = Last(undo)
           /\ Len(undo') = n - 1
           /\ \A i \in 1..(n - 1) : undo'[i] = undo[i]
BY DEF Front, Last

LEMMA FrontShorter ==
    ASSUME undo \in Seq(Object \cup Row), undo # <<>>
    PROVE  Front(undo) # undo
<1>1. PICK n : n = Len(undo)
  OBVIOUS
<1>2. n \in Nat \ {0} /\ 1 \in Int /\ n - 1 \in Nat /\ n - 1 # n
  BY <1>1
<1>3. Len(SubSeq(undo, 1, n - 1)) = n - 1
  BY <1>1, <1>2
<1> QED
  BY <1>1, <1>2, <1>3 DEF Front

\* A step keeps the shipped row f, or it is known that the test took it with queue q.
Keeps(q, f, X) ==
    /\ f \in marred' \/ (f \in db' <=> f \in db)
    /\ q \in X \/ (q \in late' /\ q \notin late) => f \in marred' \/ f \notin db'

\* Building anything but the baseline.
Adds(X) ==
    /\ "PM" \notin X /\ Grown(X)
    /\ db' \subseteq db \cup X /\ ("PF" \in db' <=> "PF" \in db)
    /\ late' \subseteq late \cup marred' /\ marred \subseteq marred' /\ orig' = orig
    /\ Keeps("Q1", "F1", X) /\ Keeps("Q0", "F0", X)

LEMMA BuildAdds ==
    ASSUME TypeOK, Building, ~BuildBaseline
    PROVE  \E X : Adds(X)
<1>0. undo \in Seq(Object \cup Row)
  BY DEF TypeOK
<1>1. orig' = orig
  BY DEF Building, MakeScheduler, BindQueue, BindTakenQueue, BindPort, BuildLossless, BuildSchedBaseline, At
<1>2. ASSUME NEW r \in {"Q1", "PS"}, Bind(r), r = "Q1" => "F1" \notin db PROVE \E X : Adds(X)
  <2>1. CASE db' = db \cup {r} /\ undo' = Append(undo, r) /\ UNCHANGED <<late, marred>>
    <3>1. Grown({r})
      BY <1>0, <2>1, GrowOne
    <3>2. Adds({r})
      BY <1>1, <1>2, <2>1, <3>1 DEF Adds, Keeps
    <3> QED
      BY <3>2
  <2>2. CASE late' = late \cup {r} /\ marred' = marred \cup {r} /\ UNCHANGED <<db, undo>>
    <3>1. Adds({})
      BY <1>1, <1>2, <2>2, GrowNone DEF Adds, Keeps
    <3> QED
      BY <3>1
  <2> QED
    BY <1>2, <2>1, <2>2 DEF Bind
<1>3. ASSUME UNCHANGED <<undo, late, marred>>, db' \in {db, db \ {"S"}} PROVE Adds({})
  BY <1>1, <1>3, GrowNone DEF Adds, Keeps
<1>4. CASE MakeScheduler
  <2>1. UNCHANGED <<late, marred>>
    BY <1>4 DEF MakeScheduler
  <2>2. CASE undo' = Append(undo, "S")
    <3>1. db' \subseteq db \cup {"S"} /\ \A f \in {"PF", "F1", "F0"} : f \in db' <=> f \in db
      BY <1>4 DEF MakeScheduler
    <3>2. Grown({"S"})
      BY <1>0, <2>2, GrowOne
    <3>3. Adds({"S"})
      BY <1>1, <2>1, <3>1, <3>2 DEF Adds, Keeps
    <3> QED
      BY <3>3
  <2>3. CASE undo' # Append(undo, "S")
    <3>1. UNCHANGED undo /\ db' = db \ {"S"}
      BY <1>4, <2>3 DEF MakeScheduler
    <3> QED
      BY <1>3, <2>1, <3>1
  <2> QED
    BY <2>2, <2>3
<1>5. CASE BindQueue
  <2>1. "F1" \notin db
    BY <1>5 DEF BindQueue, SameKey
  <2>2. CASE Bind("Q1")
    BY <1>2, <2>1, <2>2
  <2>3. CASE ~Bind("Q1")
    <3>1. UNCHANGED <<undo, late, marred>> /\ db' \in {db, db \ {"S"}}
      BY <1>5, <2>3 DEF BindQueue
    <3> QED
      BY <1>3, <3>1
  <2> QED
    BY <2>2, <2>3
<1>6. CASE BindPort
  BY <1>2, <1>6 DEF BindPort
<1>7. CASE BindTakenQueue
  <2>1. Grown({"Q1"})
    BY <1>0, <1>7, GrowOne DEF BindTakenQueue
  <2>2. /\ db' \subseteq db \cup {"Q1"} /\ \A f \in {"PF", "F0"} : f \in db' <=> f \in db
        /\ late' \subseteq late \cup marred' /\ marred \subseteq marred'
        /\ "F1" \in db => "F1" \in marred'
        /\ "Q0" \in late' => "Q0" \in late
    BY <1>7 DEF BindTakenQueue
  <2>3. Adds({"Q1"})
    BY <1>1, <2>1, <2>2 DEF Adds, Keeps
  <2> QED
    BY <2>3
<1>8. CASE BuildLossless
  <2>1. \/ UNCHANGED <<db, undo, late, marred>>
        \/ db' = db \cup {"LP", "PG"} /\ undo' = undo \o <<"LP", "PG">> /\ UNCHANGED <<late, marred>>
        \/ db' = db \cup {"LP"} /\ undo' = Append(undo, "LP")
           /\ late' = late \cup {"PG"} /\ marred' = marred \cup {"PG"}
    BY <1>8 DEF BuildLossless
  <2>2. CASE UNCHANGED <<db, undo, late, marred>>
    BY <1>3, <2>2
  <2>3. CASE db' = db \cup {"LP", "PG"} /\ undo' = undo \o <<"LP", "PG">> /\ UNCHANGED <<late, marred>>
    <3>1. Grown({"LP", "PG"})
      BY <1>0, <2>3, GrowTwo
    <3>2. Adds({"LP", "PG"})
      BY <1>1, <2>3, <3>1 DEF Adds, Keeps
    <3> QED
      BY <3>2
  <2>4. CASE db' = db \cup {"LP"} /\ undo' = Append(undo, "LP")
             /\ late' = late \cup {"PG"} /\ marred' = marred \cup {"PG"}
    <3>1. Grown({"LP"})
      BY <1>0, <2>4, GrowOne
    <3>2. Adds({"LP"})
      BY <1>1, <2>4, <3>1 DEF Adds, Keeps
    <3> QED
      BY <3>2
  <2> QED
    BY <2>1, <2>2, <2>3, <2>4
<1>9. CASE BuildSchedBaseline
  <2>1. Grown({"SB", "WR", "Q0"})
    BY <1>0, <1>9, GrowThree DEF BuildSchedBaseline
  <2>2. /\ db' \subseteq db \cup {"SB", "WR", "Q0"} /\ \A f \in {"PF", "F1"} : f \in db' <=> f \in db
        /\ late' \subseteq late \cup marred' /\ marred \subseteq marred'
        /\ "F0" \in db => "F0" \in marred'
        /\ "Q1" \in late' => "Q1" \in late
    BY <1>9, SchedBaseline
  <2>3. Adds({"SB", "WR", "Q0"})
    BY <1>1, <2>1, <2>2 DEF Adds, Keeps
  <2> QED
    BY <2>3
<1> QED
  BY <1>4, <1>5, <1>6, <1>7, <1>8, <1>9 DEF Building

\* The script goes on or is given up.
LEMMA ScriptGoes ==
    ASSUME TypeOK, Building, Once(script)
    PROVE  /\ Once(script') /\ stage' \in {"test", "undo"}
           /\ (\A i \in 1..Len(script) : script[i] # "base") => \A i \in 1..Len(script') : script'[i] # "base"
           /\ Head(script) = "base" => \A i \in 1..Len(script') : script'[i] # "base"
<1>1. script \in Seq(Operation) /\ script # <<>> /\ stage = "test" /\ (Go(TRUE) \/ Go(FALSE))
  BY BuildSteps DEF TypeOK
<1>2. CASE Go(FALSE)
  BY <1>2 DEF Go, Once
<1>3. CASE Go(TRUE)
  <2>1. script' = Tail(script) /\ stage' = stage
    BY <1>3 DEF Go
  <2> DEFINE n == Len(script)
             t == script'
  <2>2. /\ n \in Nat /\ n > 0 /\ Len(t) = n - 1 /\ Head(script) = script[1]
        /\ \A i \in 1..(n - 1) : t[i] = script[i + 1]
    BY <1>1, <2>1
  <2> HIDE DEF t
  <2>3. \A i \in 1..Len(t) : i \in Nat /\ i + 1 \in 1..n /\ i + 1 # 1 /\ t[i] = script[i + 1]
    BY <2>2
  <2>4. 1 \in 1..n
    BY <2>2
  <2>5. Once(t)
    BY <2>3 DEF Once
  <2>6. Head(script) = "base" => \A i \in 1..Len(t) : t[i] # "base"
    BY <2>2, <2>3, <2>4 DEF Once
  <2> QED
    BY <1>1, <2>1, <2>3, <2>5, <2>6 DEF t
<1> QED
  BY <1>1, <1>2, <1>3

LEMMA HomeBuild ==
    ASSUME TypeOK, HomeInv, Building, ~BuildBaseline
    PROVE  HomeInv'
<1>1. stage = "test"
  BY BuildSteps
<1>2. RowInv' /\ MapInv' /\ PlanInv'
  <2>1. PICK X : Adds(X)
    BY BuildAdds
  <2>2. RowInv /\ MapInv /\ PlanInv
    BY <1>1 DEF HomeInv
  <2>3. warned' = warned /\ factory' = factory
    BY BuildSteps DEF session
  <2>4. \A x : Listed(x)' <=> Listed(x) \/ x \in X
    BY <2>1 DEF Adds, Grown, Listed
  <2>5. RowInv'
    <3>1. late' \subseteq marred'
      BY <2>1, <2>2 DEF Adds, RowInv
    <3>2. \A x \in Own \cap db' : x \in marred' \/ Listed(x)' \/ (x = "S" /\ x \in warned')
      BY <2>1, <2>2, <2>3, <2>4 DEF Adds, RowInv
    <3>3. Taken("Q1", "F1")'
      BY <2>1, <2>2, <2>3, <2>4 DEF Adds, RowInv, Keeps, Taken
    <3>4. Taken("Q0", "F0")'
      BY <2>1, <2>2, <2>3, <2>4 DEF Adds, RowInv, Keeps, Taken
    <3> QED
      BY <3>1, <3>2, <3>3, <3>4 DEF RowInv, Own
  <2>6. \A j \in 1..Len(undo') : undo'[j] = "PM" => j \in 1..Len(undo) /\ undo[j] = "PM"
    BY <2>1 DEF Adds, Grown
  <2>7. ASSUME NEW j \in 1..Len(undo'), undo'[j] = "PM", "PS" \in orig', "PS" \notin marred'
        PROVE  \E i \in 1..(j - 1) : undo'[i] = "PS"
    <3>1. j \in 1..Len(undo) /\ undo[j] = "PM" /\ "PS" \in orig /\ "PS" \notin marred
      BY <2>1, <2>6, <2>7 DEF Adds
    <3>2. PICK i \in 1..(j - 1) : undo[i] = "PS"
      BY <2>2, <3>1 DEF MapInv
    <3>3. i \in 1..Len(undo)
      BY <3>1, <3>2
    <3> QED
      BY <2>1, <3>2, <3>3 DEF Adds, Grown
  <2>8. MapInv'
    BY <2>1, <2>2, <2>3, <2>4, <2>6, <2>7 DEF Adds, MapInv
  <2>9. PlanInv'
    BY <2>1, <2>2, <2>4, ScriptGoes DEF Adds, PlanInv
  <2> QED
    BY <2>5, <2>8, <2>9
<1>3. stage' \in {"test", "undo"}
  BY <1>1, BuildSteps DEF Go
<1> QED
  BY <1>2, <1>3 DEF HomeInv

\* The baseline is built over what the port had.
LEMMA HomeBaseline ==
    ASSUME TypeOK, HomeInv, BuildBaseline
    PROVE  HomeInv'
<1>0. Building
  BY DEF Building
<1>1. stage = "test" /\ Head(script) = "base" /\ script # <<>> /\ script \in Seq(Operation)
  BY DEF BuildBaseline, At, TypeOK
<1>2. RowInv' /\ MapInv' /\ PlanInv'
  <2>1. /\ db' \subseteq db \cup {"MP", "PM"} /\ orig' = db \cap PortMap
        /\ \A f \in {"F1", "F0"} : f \in db' <=> f \in db
        /\ undo' = undo \o <<"MP", "PM">> /\ UNCHANGED <<late, warned, factory, marred>>
    BY DEF BuildBaseline, At, session
  <2>2. RowInv /\ MapInv /\ PlanInv
    BY <1>1 DEF HomeInv
  <2>3. ~Listed("PM")
    <3>1. 1 \in 1..Len(script) /\ script[1] = "base"
      BY <1>1
    <3> QED
      BY <2>2, <3>1 DEF PlanInv
  <2> DEFINE n == Len(undo)
  <2>4. /\ Grown({"MP", "PM"}) /\ Len(undo') = n + 2 /\ undo'[n + 1] = "MP" /\ undo'[n + 2] = "PM"
        /\ n \in Nat
    <3>1. undo \in Seq(Object \cup Row)
      BY DEF TypeOK
    <3>2. n \in Nat
      BY <3>1
    <3>3. undo' = undo \o <<"MP", "PM">>
      BY <2>1
    <3> QED
      BY <3>1, <3>2, <3>3, GrowTwo
  <2>5. \A x : Listed(x)' <=> Listed(x) \/ x \in {"MP", "PM"}
    BY <2>4 DEF Grown, Listed
  <2>6. RowInv'
    <3>1. \A x \in Own \cap db' : x \in marred' \/ Listed(x)' \/ (x = "S" /\ x \in warned')
      BY <2>1, <2>2, <2>5 DEF RowInv
    <3>2. Taken("Q1", "F1")' /\ Taken("Q0", "F0")'
      BY <2>1, <2>2, <2>5 DEF RowInv, Taken
    <3> QED
      BY <2>1, <2>2, <3>1, <3>2 DEF RowInv, Own
  <2>7. \A j \in 1..Len(undo') : undo'[j] = "PM" => j = n + 2
    <3>1. \A j \in 1..n : undo'[j] # "PM"
      BY <2>3, <2>4 DEF Grown, Listed
    <3>2. \A j \in 1..(n + 2) : j \in 1..n \/ j = n + 1 \/ j = n + 2
      BY <2>4
    <3> QED
      BY <2>4, <3>1, <3>2
  <2>8. /\ "PM" \in db => "PM" \in marred
        /\ "PF" \in marred \/ ("PF" \in db <=> "PF" \in factory)
    BY <2>2, <2>3 DEF RowInv, MapInv, Own
  <2>9. "PF" \in PortMap /\ (orig' \subseteq db)
    BY <2>1 DEF PortMap
  <2>10. "PS" \in orig' => "PS" \in marred \/ \E i \in 1..(n + 1) : undo'[i] = "PS"
    <3>1. "PS" \in orig' => "PS" \in marred \/ Listed("PS")
      BY <2>2, <2>9 DEF RowInv, Own
    <3>2. \A i \in 1..n : i \in 1..(n + 1) /\ undo'[i] = undo[i]
      BY <2>4 DEF Grown
    <3> QED
      BY <3>1, <3>2 DEF Listed
  <2> HIDE DEF n
  <2>11. MapInv'
    <3>1. (n + 2) - 1 = n + 1
      BY <2>4
    <3>2. \A i, j \in 1..Len(undo') : undo'[i] = "PM" /\ undo'[j] = "PM" => i = j
      BY <2>7
    <3>3. \A j \in 1..Len(undo') : undo'[j] = "PM" /\ "PS" \in orig' =>
             "PS" \in marred' \/ \E i \in 1..(j - 1) : undo'[i] = "PS"
      BY <2>1, <2>7, <2>10, <3>1
    <3>4. /\ Listed("PM")' /\ ("PM" \in orig' => "PM" \in marred')
          /\ "PF" \in marred' \/ ("PF" \in orig' <=> "PF" \in factory')
      BY <2>1, <2>5, <2>8, <2>9
    <3> QED
      BY <3>2, <3>3, <3>4 DEF MapInv
  <2>12. PlanInv'
    BY <1>0, <1>1, <2>2, ScriptGoes DEF PlanInv
  <2> QED
    BY <2>6, <2>11, <2>12
<1>3. stage' \in {"test", "undo"}
  BY <1>0, <1>1, BuildSteps DEF Go
<1> QED
  BY <1>2, <1>3 DEF HomeInv

\* An operation is undone: what it put there is gone, and the rest still has its undo.
LEMMA HomeUndo ==
    ASSUME TypeOK, HomeInv, Undo
    PROVE  HomeInv'
<1>1. /\ undo # <<>> /\ stage = "undo" /\ undo \in Seq(Object \cup Row)
      /\ UNCHANGED <<late, script, orig, stage, factory>>
  BY UndoFrame DEF TypeOK, session
<1> SUFFICES RowInv' /\ MapInv' /\ PlanInv'
  BY <1>1 DEF HomeInv
<1>2. marred \subseteq marred'
  BY DEF Undo, UndoObject, UndoRow, UndoPortScheduler, UndoBaseline, UndoScheduler
<1>3. RowInv /\ MapInv /\ PlanInv
  BY <1>1 DEF HomeInv
<1>4. CASE undo' = undo
  <2>1. Front(undo) # undo
    BY <1>1, FrontShorter
  <2>2. UndoScheduler
    BY <1>4, <2>1 DEF Undo, UndoObject, UndoRow, UndoPortScheduler, UndoBaseline
  <2>3. /\ db' \in {db, db \ {"S"}} /\ UNCHANGED <<warned, marred>>
    BY <1>4, <2>1, <2>2 DEF UndoScheduler
  <2>4. \A y : Listed(y)' <=> Listed(y)
    BY <1>4 DEF Listed
  <2>5. RowInv'
    <3>1. \A y \in Own \cap db' : y \in marred' \/ Listed(y)' \/ (y = "S" /\ y \in warned')
      BY <1>3, <2>3, <2>4 DEF RowInv
    <3>2. Taken("Q1", "F1")' /\ Taken("Q0", "F0")'
      BY <1>1, <1>3, <2>3, <2>4 DEF RowInv, Taken
    <3> QED
      BY <1>1, <1>3, <2>3, <3>1, <3>2 DEF RowInv, Own
  <2>6. MapInv'
    BY <1>1, <1>3, <1>4, <2>3, <2>4 DEF MapInv
  <2> QED
    BY <1>1, <1>3, <1>4, <2>4, <2>5, <2>6 DEF PlanInv
<1>5. CASE undo' = Front(undo)
  <2>1. PICK n : n = Len(undo)
    OBVIOUS
  <2>2. PICK x : x = Last(undo)
    OBVIOUS
  <2>3. /\ n \in Nat \ {0} /\ undo[n] = x /\ Len(undo') = n - 1
        /\ \A i \in 1..(n - 1) : undo'[i] = undo[i]
    BY <1>1, <1>5, <2>1, <2>2, Shrink
  <2>4. \A i \in 1..n : i \in 1..(n - 1) \/ i = n
    BY <2>3
  <2>5. /\ \A y : Listed(y)' => Listed(y)
        /\ \A y : Listed(y) => Listed(y)' \/ y = x
    BY <2>1, <2>3, <2>4 DEF Listed
  <2>6. /\ \A i, j \in 1..Len(undo') : undo'[i] = "PM" /\ undo'[j] = "PM" => i = j
        /\ \A j \in 1..Len(undo') :
              undo'[j] = "PM" /\ "PS" \in orig' =>
                 "PS" \in marred' \/ \E i \in 1..(j - 1) : undo'[i] = "PS"
    <3>1. \A i \in 1..(n - 1) : i \in 1..n /\ \A k \in 1..(i - 1) : k \in 1..(n - 1)
      BY <2>3
    <3> QED
      BY <1>1, <1>2, <1>3, <2>1, <2>3, <3>1 DEF MapInv
  <2>7. PlanInv'
    BY <1>1, <1>3, <2>5 DEF PlanInv
  <2>8. CASE UndoBaseline
    <3>1. /\ x = "PM" /\ warned' = warned
          /\ \/ db' = (db \ PortMap) \cup orig /\ marred' = marred
             \/ db' = db /\ marred' = marred \cup {"PM", "PF"}
      BY <2>2, <2>8 DEF UndoBaseline, Undoing
    <3>2. Listed("PM") /\ ~Listed("PM")'
      <4>1. n \in 1..Len(undo) /\ undo[n] = "PM"
        BY <2>1, <2>3, <3>1
      <4>2. \A i \in 1..(n - 1) : i \in 1..Len(undo) /\ i # n
        BY <2>1, <2>3
      <4>3. \A i \in 1..(n - 1) : undo[i] # "PM"
        BY <1>3, <4>1, <4>2 DEF MapInv
      <4> QED
        BY <2>3, <4>1, <4>3 DEF Listed
    <3>3. "PS" \in orig => "PS" \in marred \/ Listed("PS")'
      <4>1. n \in 1..Len(undo) /\ undo[n] = "PM"
        BY <2>1, <2>3, <3>1
      <4>2. "PS" \in orig => "PS" \in marred \/ \E i \in 1..(n - 1) : undo[i] = "PS"
        BY <1>3, <4>1 DEF MapInv
      <4> QED
        BY <2>3, <4>2 DEF Listed
    <3>4. /\ "PM" \in orig => "PM" \in marred
          /\ "PF" \in marred \/ ("PF" \in orig <=> "PF" \in factory)
      BY <1>3, <3>2 DEF MapInv
    <3>5. orig \subseteq PortMap /\ PortMap = {"PS", "PM", "PF"}
      BY DEF TypeOK, PortMap
    <3>6. RowInv'
      <4>1. \A y \in Own \cap db' : y \in marred' \/ Listed(y)' \/ (y = "S" /\ y \in warned')
        <5>1. SUFFICES ASSUME NEW y \in Own \cap db' PROVE y \in marred' \/ Listed(y)' \/ (y = "S" /\ y \in warned')
          OBVIOUS
        <5>2. CASE y \in db /\ y # "PM"
          BY <1>2, <1>3, <2>5, <3>1, <5>2 DEF RowInv
        <5>3. CASE y = "PM"
          BY <3>1, <3>4, <3>5, <5>3
        <5>4. CASE y \notin db
          <6>1. y \in orig /\ y \in {"PS", "PM"}
            BY <3>1, <3>5, <5>4 DEF Own, Object
          <6> QED
            BY <1>2, <3>3, <3>4, <6>1
        <5> QED
          BY <5>2, <5>3, <5>4
      <4>2. \A f \in {"F1", "F0"} : f \in db' <=> f \in db
        BY <3>1, <3>5
      <4>3. Taken("Q1", "F1")' /\ Taken("Q0", "F0")'
        BY <1>1, <1>2, <1>3, <2>5, <4>2 DEF RowInv, Taken
      <4> QED
        BY <1>1, <1>2, <1>3, <4>1, <4>3 DEF RowInv, Own
    <3>7. MapInv'
      BY <1>1, <2>6, <3>1, <3>2, <3>4, <3>5 DEF MapInv
    <3> QED
      BY <2>7, <3>6, <3>7
  <2>9. CASE ~UndoBaseline
    <3>1. /\ x # "PM" /\ db' \subseteq db /\ ("PF" \in db => "PF" \in db')
          /\ x \notin db' \/ x \in marred' \/ (x = "S" /\ x \in warned')
          /\ warned \subseteq warned'
          /\ \A f \in {"F1", "F0"} : f \in db => f \in db' \/ (f = "F1" /\ x = "Q1") \/ (f = "F0" /\ x = "Q0")
      <4>1. ASSUME NEW o \in Object, UndoObject(o)
            PROVE  /\ x = o /\ x # "S" /\ db' \subseteq db /\ db \ {o} \subseteq db' /\ warned' = warned
                   /\ x \notin db' \/ x \in marred'
        BY <2>2, <4>1 DEF UndoObject, Undoing
      <4>2. ASSUME NEW r \in Row, UndoRow(r)
            PROVE  x = r /\ r \in {"Q1", "Q0", "PG"} /\ db' = db \ SameKey(r) /\ warned' = warned
        BY <2>2, <4>2 DEF UndoRow, Undoing, Unbind
      <4>3. CASE UndoPortScheduler
        <5>1. x = "PS" /\ db' \in {db, db \ {"PS"}} /\ warned' = warned
              /\ (x \notin db' \/ x \in marred')
          BY <2>2, <4>3 DEF UndoPortScheduler, Undoing, Unbind, SameKey
        <5> QED
          BY <5>1
      <4>4. CASE UndoScheduler
        <5>1. x = "S" /\ db' \subseteq db /\ db \ {"S"} \subseteq db' /\ warned \subseteq warned'
          BY <2>2, <4>4 DEF UndoScheduler, Undoing
        <5>2. undo' # undo
          BY <2>1, <2>3
        <5>3. "S" \in db' => "S" \in warned'
          BY <4>4, <5>2 DEF UndoScheduler
        <5> QED
          BY <5>1, <5>3
      <4>5. /\ SameKey("Q1") = {"Q1", "F1"} /\ SameKey("Q0") = {"Q0", "F0"} /\ SameKey("PG") = {"PG"}
            /\ \A f \in {"PM", "PF", "F1", "F0"} : f \notin Object
        BY DEF SameKey, Object
      <4>6. CASE \E o \in Object : UndoObject(o)
        BY <4>1, <4>5, <4>6
      <4>7. CASE \E r \in Row : UndoRow(r)
        BY <4>2, <4>5, <4>7
      <4> QED
        BY <2>9, <4>3, <4>4, <4>6, <4>7 DEF Undo
    <3>2. Listed(x)
      <4>1. n \in 1..Len(undo)
        BY <2>1, <2>3
      <4> QED
        BY <2>3, <4>1 DEF Listed
    <3>3. RowInv'
      <4>1. \A y \in Own \cap db' : y \in marred' \/ Listed(y)' \/ (y = "S" /\ y \in warned')
        BY <1>2, <1>3, <2>5, <3>1 DEF RowInv
      <4>2. Taken("Q1", "F1")' /\ Taken("Q0", "F0")'
        BY <1>1, <1>2, <1>3, <2>5, <3>1, <3>2 DEF RowInv, Taken
      <4> QED
        BY <1>1, <1>2, <1>3, <4>1, <4>2 DEF RowInv, Own
    <3>4. MapInv'
      BY <1>1, <1>2, <1>3, <2>5, <2>6, <3>1 DEF MapInv
    <3> QED
      BY <2>7, <3>3, <3>4
  <2> QED
    BY <2>8, <2>9
<1> QED
  BY <1>4, <1>5 DEF Undo, UndoObject, UndoRow, UndoPortScheduler, UndoBaseline, UndoScheduler

LEMMA HomeStep ==
    ASSUME \A s \in Scripts : Once(s), TypeOK, HomeInv, [Next]_vars
    PROVE  HomeInv'
<1>1. CASE Building
  BY <1>1, HomeBuild, HomeBaseline
<1>2. CASE Undo
  BY <1>2, HomeUndo
<1>3. ASSUME NEW s \in Scripts, StartTest(s) PROVE HomeInv'
  <2>1. /\ stage = "idle" /\ stage' = "test" /\ script' = s /\ undo = <<>>
        /\ UNCHANGED <<db, late, undo, orig, warned, marred, factory>>
    BY <1>3 DEF StartTest, HomeInv
  <2>2. \A x : ~Listed(x) /\ ~Listed(x)'
    BY <2>1 DEF Listed
  <2>3. RowInv' /\ MapInv'
    BY <2>1, <2>2 DEF HomeInv, RowInv, Own, Taken, MapInv
  <2>4. PlanInv'
    BY <2>1, <2>2 DEF PlanInv
  <2> QED
    BY <2>1, <2>3, <2>4 DEF HomeInv
<1>4. ASSUME NEW r \in Row, Land(r) PROVE HomeInv'
  <2>1. /\ r \in late /\ late' \subseteq late
        /\ db' \in {db, (db \ SameKey(r)) \cup {r}}
        /\ UNCHANGED <<script, undo, orig, stage, warned, marred, factory>>
    BY <1>4 DEF Land, session
  <2>2. SUFFICES ASSUME RowInv, MapInv, PlanInv PROVE RowInv' /\ MapInv' /\ PlanInv'
    BY <2>1 DEF HomeInv
  <2>3. \A x : Listed(x)' <=> Listed(x)
    BY <2>1 DEF Listed
  <2>4. /\ SameKey("Q1") = {"Q1", "F1"} /\ SameKey("Q0") = {"Q0", "F0"}
        /\ r \notin {"Q1", "Q0"} => SameKey(r) = {r}
    BY DEF SameKey
  <2>5. r \in marred
    BY <2>1, <2>2 DEF RowInv
  <2>6. /\ \A x \in db' : x \in db \/ x \in marred
        /\ \A f \in {"F1", "F0", "PF"} : f \in marred \/ (f \in db' => f \in db)
        /\ "PF" \in db => "PF" \in db'
        /\ "F1" \in db /\ "F1" \notin db' => r = "Q1"
        /\ "F0" \in db /\ "F0" \notin db' => r = "Q0"
    BY <2>1, <2>4, <2>5
  <2>7. RowInv'
    <3>1. \A x \in Own \cap db' : x \in marred' \/ Listed(x)' \/ (x = "S" /\ x \in warned')
      BY <2>1, <2>2, <2>3, <2>6 DEF RowInv
    <3>2. Taken("Q1", "F1")'
      BY <2>1, <2>2, <2>3, <2>6 DEF RowInv, Taken
    <3>3. Taken("Q0", "F0")'
      BY <2>1, <2>2, <2>3, <2>6 DEF RowInv, Taken
    <3> QED
      BY <2>1, <2>2, <3>1, <3>2, <3>3 DEF RowInv, Own
  <2>8. MapInv'
    BY <2>1, <2>2, <2>3, <2>6 DEF MapInv
  <2> QED
    BY <2>1, <2>2, <2>3, <2>7, <2>8 DEF PlanInv
<1>5. CASE EndTest
  <2>1. /\ stage = "test" /\ stage' = "undo" /\ script' = <<>>
        /\ UNCHANGED <<db, late, undo, orig, warned, marred, factory>>
    BY <1>5 DEF EndTest, session
  <2>2. RowInv' /\ MapInv'
    BY <2>1 DEF HomeInv, RowInv, Own, Taken, MapInv, Listed
  <2>3. PlanInv'
    BY <2>1 DEF PlanInv, Once
  <2> QED
    BY <2>1, <2>2, <2>3 DEF HomeInv
<1>6. CASE Undone
  <2>1. /\ stage = "undo" /\ stage' = "idle" /\ undo = <<>>
        /\ UNCHANGED <<db, late, undo, script, warned, marred, factory>>
    BY <1>6 DEF Undone, session
  <2>2. \A x : ~Listed(x) /\ ~Listed(x)'
    BY <2>1 DEF Listed
  <2>3. RowInv' /\ MapInv' /\ PlanInv'
    BY <2>1, <2>2 DEF HomeInv, RowInv, Own, Taken, MapInv, PlanInv
  <2> QED
    BY <2>1, <2>3 DEF HomeInv
<1>7. CASE Crash
  <2>1. /\ stage \in {"test", "undo"} /\ stage' = "idle" /\ script' = <<>> /\ undo' = <<>>
        /\ marred' = marred \cup ToSet(undo) \cup (IF "PM" \in ToSet(undo) THEN {"PF"} ELSE {})
        /\ UNCHANGED <<db, late, warned, factory>>
    BY <1>7 DEF Crash
  <2>2. \A x : ~Listed(x)'
    BY <2>1 DEF Listed
  <2>3. \A x : Listed(x) <=> x \in ToSet(undo)
    <3>1. undo \in Seq(Object \cup Row)
      BY DEF TypeOK
    <3>2. DOMAIN undo = 1..Len(undo)
      BY <3>1
    <3> QED
      BY <3>2 DEF Listed, ToSet
  <2>4. RowInv /\ MapInv
    BY <2>1 DEF HomeInv
  <2>5. RowInv'
    <3>1. \A x \in Own \cap db' : x \in marred' \/ Listed(x)' \/ (x = "S" /\ x \in warned')
      BY <2>1, <2>3, <2>4 DEF RowInv
    <3>2. Taken("Q1", "F1")' /\ Taken("Q0", "F0")'
      BY <2>1, <2>2, <2>4 DEF RowInv, Taken
    <3> QED
      BY <2>1, <2>4, <3>1, <3>2 DEF RowInv, Own
  <2>6. MapInv'
    <3>1. "PF" \in marred' \/ ("PF" \in db' <=> "PF" \in factory')
      BY <2>1, <2>3, <2>4 DEF MapInv
    <3>2. Len(undo') = 0 /\ 1..0 = {}
      BY <2>1
    <3> QED
      BY <2>2, <3>1, <3>2 DEF MapInv
  <2>7. PlanInv'
    BY <2>1, <2>2 DEF PlanInv, Once
  <2> QED
    BY <2>1, <2>5, <2>6, <2>7 DEF HomeInv
<1>8. CASE StartSweep \/ SweepDone \/ \E o \in Object : SweepObject(o)
  <2>1. stage' \in {"sweep", "end"} /\ undo' = undo /\ stage \notin {"test", "undo"}
    BY <1>8 DEF StartSweep, SweepDone, SweepObject
  <2> QED
    BY <2>1 DEF HomeInv
<1>9. CASE (\E o \in Object : Release(o)) \/ UNCHANGED vars
  <2>1. UNCHANGED <<db, late, script, undo, orig, stage, warned, marred, factory>>
    BY <1>9 DEF Release, vars, session
  <2>2. \A x : Listed(x)' <=> Listed(x)
    BY <2>1 DEF Listed
  <2>3. RowInv' <=> RowInv
    BY <2>1, <2>2 DEF RowInv, Own, Taken
  <2>4. MapInv' <=> MapInv
    BY <2>1, <2>2 DEF MapInv
  <2>5. PlanInv' <=> PlanInv
    BY <2>1, <2>2 DEF PlanInv
  <2> QED
    BY <2>1, <2>3, <2>4, <2>5 DEF HomeInv
<1> QED
  BY <1>1, <1>2, <1>3, <1>4, <1>5, <1>6, <1>7, <1>8, <1>9 DEF Next, Building, Undo

\* The undo list of any script that builds the baseline no more than once leaves exactly
\* the rows the switch came with, a scheduler only with a warning and no other object,
\* except what a late row, a refused patch or deletion, a kill, or the reading that takes
\* a shipped queue for its own has put out of its reach.
THEOREM UndoGoesHome ==
    ASSUME \A s \in Scripts : Once(s)
    PROVE  Spec => []UndoRestores
<1>1. Init => HomeInv
  <2> SUFFICES ASSUME Init PROVE HomeInv
    OBVIOUS
  <2>1. undo = <<>> /\ script = <<>> /\ db = factory /\ late = {} /\ db \subseteq Shipped
        /\ stage = "idle"
    BY DEF Init
  <2>2. \A x : ~Listed(x)
    BY <2>1 DEF Listed
  <2>3. Own \cap db = {}
    BY <2>1 DEF Own, Object, Shipped
  <2>4. RowInv
    BY <2>1, <2>2, <2>3 DEF RowInv, Taken
  <2>5. MapInv /\ PlanInv
    BY <2>1, <2>2 DEF MapInv, PlanInv, Once
  <2> QED
    BY <2>1, <2>4, <2>5 DEF HomeInv
<1>2. TypeOK /\ HomeInv => UndoRestores
  <2> SUFFICES ASSUME TypeOK, HomeInv, stage = "idle"
               PROVE  /\ db \cap (Row \ marred) = factory \ marred
                      /\ db \cap (Object \ marred) \subseteq {"S"} \cap warned
    BY DEF UndoRestores
  <2>1. RowInv /\ MapInv /\ \A x : ~Listed(x)
    BY DEF HomeInv, Listed
  <2>2. factory \subseteq Shipped /\ Shipped \subseteq Row
    BY RowFacts DEF TypeOK
  <2>3. \A f \in Shipped : f \in marred \/ (f \in db <=> f \in factory)
    BY <2>1 DEF MapInv, RowInv, Taken, Shipped
  <2>4. \A x \in Own \cap db : x \in marred \/ (x = "S" /\ x \in warned)
    BY <2>1 DEF RowInv
  <2>5. Row \subseteq Own \cup Shipped /\ Object \subseteq Own /\ "S" \notin Row
    BY DEF Row, Own, Shipped
  <2> QED
    BY <2>2, <2>3, <2>4, <2>5
<1>3. TypeOK /\ HomeInv /\ [Next]_vars => HomeInv'
  BY HomeStep
<1> QED
  BY <1>1, <1>2, <1>3, TypeInit, TypeStep, PTL DEF Spec
=============================================================================

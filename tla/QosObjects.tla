----------------------------- MODULE QosObjects -----------------------------
(***************************************************************************)
(* QoS objects that tests create and take away (framework/lossless.py,     *)
(* qos.py, gcu.py) and the sweep at the end of a session (hygiene.py).     *)
(*                                                                         *)
(* The switch deletes an object only when nothing refers to it, and goes   *)
(* on counting a reference for a while after its row is gone.  A row that  *)
(* a command creates may turn up in CONFIG_DB after the test has stopped   *)
(* looking for it.  Return codes say nothing; the code reads back.         *)
(***************************************************************************)
EXTENDS Naturals, Sequences, SequencesExt, FiniteSets

CONSTANTS
    Scripts,       \* what a test builds, in order: sequences over Operation
    MaxTests,      \* bound: tests of a session
    MaxCrashes,    \* bound: processes that are killed
    MaxTries       \* deletions of a scheduler in an undo (8) and in the sweep (4)

Operation == {"sched", "bindq", "bindp", "lossless", "base", "schedbase"}

ASSUME QosAssumption ==
    /\ Scripts \subseteq Seq(Operation)
    /\ MaxTests \in Nat /\ MaxCrashes \in Nat /\ MaxTries \in Nat \ {0}

\* Objects by the prefix FVT: scheduler of make_scheduler; scheduler and WRED profile of
\* build_sched_baseline (not its buffer profile, which nothing refers to); profile of
\* build_lossless; maps of build_baseline.
Object == {"S", "SB", "WR", "LP", "MP"}
\* Rows of the port: QUEUE 0 and 1 as a test binds them (Q) and as the port was shipped
\* (F), BUFFER_PG, and of PORT_QOS_MAP the scheduler field, the binding to the test's
\* maps and the one the port was shipped with.
Row == {"Q1", "Q0", "F1", "F0", "PG", "PS", "PM", "PF"}
Shipped == {"F1", "F0", "PF"}
PortMap == {"PS", "PM", "PF"}
Refs(r) == CASE r \in {"Q1", "PS"} -> {"S"}
             [] r = "Q0" -> {"SB", "WR"}
             [] r = "PG" -> {"LP"}
             [] r = "PM" -> {"MP"}
             [] r \in Shipped -> {}
\* The rows with the same key in CONFIG_DB: the one is there or the other.
SameKey(r) == CASE r = "Q1" -> {"Q1", "F1"}
                [] r = "Q0" -> {"Q0", "F0"}
                [] OTHER -> {r}

VARIABLES
    db,        \* what CONFIG_DB holds
    factory,   \* the rows the switch came with
    held,      \* objects with a reference that is gone but still counted
    late,      \* rows a command has asked for and that are not there yet
    metered,   \* the scheduler S has cir, cbs, pir and pbs
    gated,     \* this build binds only such a scheduler
    script,    \* what the test still has to build
    undo,      \* undo list of the test
    orig,      \* orig_pqm: the port's PORT_QOS_MAP when build_baseline read it
    stage, tests, crashes, tries,
    todo,      \* objects the sweep still has to delete
    warned,    \* what a warning names
    marred     \* history: what a fault, or a test that took it for its own, has put out
               \* of an undo's reach

session == <<tests, crashes, factory, gated>>
vars == <<db, held, late, metered, script, undo, orig, stage, tries, todo, warned, marred, session>>

TypeOK ==
    /\ db \subseteq Object \cup Row /\ factory \subseteq Shipped
    /\ held \subseteq Object /\ late \subseteq Row
    /\ metered \in BOOLEAN /\ gated \in BOOLEAN
    /\ script \in Seq(Operation) /\ undo \in Seq(Object \cup Row) /\ orig \subseteq PortMap
    /\ stage \in {"idle", "test", "undo", "sweep", "end"}
    /\ tests \in 0..MaxTests /\ crashes \in 0..MaxCrashes /\ tries \in 0..MaxTries
    /\ todo \subseteq Object /\ warned \subseteq Object \cup Row
    /\ marred \subseteq Object \cup Row

Init ==
    /\ factory \in SUBSET Shipped /\ db = factory
    /\ held = {} /\ late = {} /\ metered = FALSE /\ gated \in BOOLEAN
    /\ script = <<>> /\ undo = <<>> /\ orig = {} /\ stage = "idle" /\ tests = 0 /\ crashes = 0
    /\ tries = 0 /\ todo = {} /\ warned = {} /\ marred = {}

-----------------------------------------------------------------------------
(* The switch.                                                             *)

Deletable(o) == o \notin held /\ \A r \in db \cap Row : o \notin Refs(r)

Release(o) ==
    /\ o \in held /\ held' = held \ {o}
    /\ UNCHANGED <<db, late, metered, script, undo, orig, stage, tries, todo, warned, marred, session>>

\* A row turns up late, unless what it refers to is gone.
Land(r) ==
    /\ r \in late /\ late' = late \ {r}
    /\ db' = IF Refs(r) \subseteq db THEN (db \ SameKey(r)) \cup {r} ELSE db
    /\ UNCHANGED <<held, metered, script, undo, orig, stage, tries, todo, warned, marred, session>>

\* A row is removed; what it referred to stays counted for a while.
Unbind(r) ==
    /\ db' = db \ SameKey(r)
    /\ held' = IF r \in db THEN held \cup Refs(r) ELSE held

-----------------------------------------------------------------------------
(* A test builds.                                                          *)

StartTest(s) ==
    /\ stage = "idle" /\ tests < MaxTests /\ tests' = tests + 1
    /\ script' = s /\ stage' = "test"
    /\ UNCHANGED <<db, held, late, metered, undo, orig, tries, todo, warned, marred, crashes, factory,
                   gated>>

\* A test goes on with the next operation when this one is ok, else it gives up.
Go(ok) == IF ok THEN script' = Tail(script) /\ UNCHANGED stage
                ELSE script' = <<>> /\ stage' = "undo"

At(op) ==
    /\ stage = "test" /\ script # <<>> /\ Head(script) = op
    /\ orig' = IF op = "base" THEN db \cap PortMap ELSE orig
    /\ UNCHANGED <<tries, todo, warned, session>>

\* make_scheduler deletes a leftover first.  If that is refused, so is the add, and
\* the read-back finds the leftover: ok all the same.
MakeScheduler ==
    /\ At("sched")
    /\ \/ /\ "S" \in db /\ ~Deletable("S")
          /\ Go(TRUE) /\ undo' = Append(undo, "S") /\ UNCHANGED <<db, metered>>
       \/ /\ "S" \notin db \/ Deletable("S")
          /\ \/ Go(TRUE) /\ db' = db \cup {"S"} /\ metered' \in BOOLEAN
                /\ undo' = Append(undo, "S")
             \/ Go(FALSE) /\ db' = db \ {"S"} /\ UNCHANGED <<metered, undo>>
    /\ UNCHANGED <<held, late, marred>>

\* A row is there within the time its reader allows, and its undo is registered;
\* or it comes later, and it is not.
Bind(r) ==
    \/ /\ db' = db \cup {r} /\ undo' = Append(undo, r) /\ Go(TRUE)
       /\ UNCHANGED <<late, marred>>
    \/ /\ late' = late \cup {r} /\ marred' = marred \cup {r}
       /\ Go(FALSE) /\ UNCHANGED <<db, undo>>

\* Whether port-queue add takes the scheduler.
Passes == metered \/ ~gated

\* bind_queue on a queue that has no row: at the gate the scheduler is deleted and
\* rebuilt, once, and a rebuild that is refused leaves none.
BindQueue ==
    /\ At("bindq") /\ "S" \in db /\ db \cap SameKey("Q1") = {}
    /\ \/ Passes /\ Bind("Q1") /\ UNCHANGED metered
       \/ ~Passes /\ Deletable("S") /\ metered' = TRUE /\ Bind("Q1")
       \/ /\ ~Passes /\ db' \in {d \in {db, db \ {"S"}} : d = db <=> ~Deletable("S")}
          /\ Go(FALSE) /\ UNCHANGED <<undo, late, marred, metered>>
    /\ UNCHANGED held

\* bind_queue on a queue that has a row, shipped or left over: the reading finds it and
\* takes it for the test's own, whether the command was refused, has replaced it or is
\* still to replace it.
BindTakenQueue ==
    /\ At("bindq") /\ "S" \in db /\ db \cap SameKey("Q1") # {}
    /\ Go(TRUE) /\ undo' = Append(undo, "Q1")
    /\ \/ UNCHANGED <<db, late>> /\ marred' = marred \cup (db \cap {"F1"})
       \/ Passes /\ db' = (db \ {"F1"}) \cup {"Q1"} /\ UNCHANGED late
          /\ marred' = marred \cup (db \cap {"F1"})
       \/ Passes /\ late' = late \cup {"Q1"} /\ UNCHANGED db
          /\ marred' = marred \cup (db \cap {"F1"}) \cup {"Q1"}
    /\ UNCHANGED <<held, metered>>

\* port-qos-map -s, as the tests that shape a port do it.
BindPort ==
    /\ At("bindp") /\ "S" \in db
    /\ Bind("PS")
    /\ UNCHANGED <<held, metered>>

\* build_lossless: an existing BUFFER_PG is used as it is; else profile and binding,
\* each with its undo once it is seen.
BuildLossless ==
    /\ At("lossless")
    /\ \/ "PG" \in db /\ Go(TRUE) /\ UNCHANGED <<db, undo, late, marred>>
       \/ /\ "PG" \notin db
          /\ \/ /\ db' = db \cup {"LP", "PG"} /\ undo' = undo \o <<"LP", "PG">> /\ Go(TRUE)
                /\ UNCHANGED <<late, marred>>
             \/ /\ db' = db \cup {"LP"} /\ undo' = Append(undo, "LP") /\ Go(TRUE)
                /\ late' = late \cup {"PG"} /\ marred' = marred \cup {"PG"}
             \/ "LP" \notin db /\ Go(FALSE) /\ UNCHANGED <<db, undo, late, marred>>
    /\ UNCHANGED <<held, metered>>

\* build_baseline: the maps, and the port bound to them instead of what it had,
\* unless trust_dscp does not land, which is only warned about.
BuildBaseline ==
    /\ At("base") /\ Go(TRUE)
    /\ db' \in {(db \ {"PF"}) \cup {"MP", "PM"}, db \cup {"MP"}}
    /\ undo' = undo \o <<"MP", "PM">>
    /\ UNCHANGED <<held, late, metered, marred>>

\* build_sched_baseline: no result is looked at and nothing is read back, everything
\* has its undo.  Any of the commands may be refused, port-queue add always is where it
\* asks for metered schedulers.  (Its STRICT scheduler on queue 1 is the same again.)
BuildSchedBaseline ==
    /\ At("schedbase") /\ Go(TRUE)
    /\ \E made \in SUBSET {"SB", "WR"}, queue \in {"refused", "there", "late"} :
          LET objects == db \cup made
          IN /\ queue # "refused" => ~gated /\ Refs("Q0") \subseteq objects
             /\ db' = IF queue = "there" THEN (objects \ {"F0"}) \cup {"Q0"} ELSE objects
             /\ late' = IF queue = "late" THEN late \cup {"Q0"} ELSE late
             /\ marred' = marred \cup (db \cap {"F0"}) \cup (late' \ late)
    /\ undo' = undo \o <<"SB", "WR", "Q0">>
    /\ UNCHANGED <<held, metered>>

\* The test is over, at whatever point.
EndTest ==
    /\ stage = "test" /\ stage' = "undo" /\ script' = <<>>
    /\ UNCHANGED <<db, held, late, metered, undo, orig, tries, todo, warned, marred, session>>

Crash ==
    /\ stage \in {"test", "undo"} /\ crashes < MaxCrashes
    /\ stage' = "idle" /\ crashes' = crashes + 1
    /\ script' = <<>> /\ undo' = <<>> /\ orig' = {} /\ tries' = 0
    /\ marred' = marred \cup ToSet(undo) \cup (IF "PM" \in ToSet(undo) THEN {"PF"} ELSE {})
    /\ UNCHANGED <<db, held, late, metered, todo, warned, tests, factory, gated>>

-----------------------------------------------------------------------------
(* Undo, last operation first.                                             *)

Undoing(x) ==
    /\ stage = "undo" /\ undo # <<>> /\ Last(undo) = x
    /\ UNCHANGED <<late, metered, script, orig, stage, todo, session>>

\* port-queue del, priority-group lossless del.
UndoRow(r) ==
    /\ Undoing(r) /\ r \in {"Q1", "Q0", "PG"}
    /\ Unbind(r) /\ undo' = Front(undo)
    /\ UNCHANGED <<tries, warned, marred>>

\* A patch of the generic config updater that removes the field; its verdict is not
\* looked at.
UndoPortScheduler ==
    /\ Undoing("PS") /\ undo' = Front(undo)
    /\ \/ Unbind("PS") /\ UNCHANGED marred
       \/ marred' = marred \cup {"PS"} /\ UNCHANGED <<db, held>>
    /\ UNCHANGED <<tries, warned>>

\* A slip: the port is unbound, whatever it had before.
UndoBaseline_Delete ==
    /\ Undoing("PM") /\ undo' = Front(undo)
    /\ db' = db \ PortMap /\ held' = held \cup UNION {Refs(r) : r \in db \cap PortMap}
    /\ UNCHANGED <<tries, warned, marred>>

\* A patch that puts the row back as it was when build_baseline read it, or deletes
\* it; its verdict is not looked at, and a reference to what is gone refuses it.
UndoBaseline ==
    /\ Undoing("PM") /\ undo' = Front(undo)
    /\ \/ /\ UNION {Refs(r) : r \in orig} \subseteq db
          /\ db' = (db \ PortMap) \cup orig
          /\ held' = held \cup UNION {Refs(r) : r \in (db \cap PortMap) \ orig}
          /\ UNCHANGED marred
       \/ marred' = marred \cup {"PM", "PF"} /\ UNCHANGED <<db, held>>
    /\ UNCHANGED <<tries, warned>>

\* One deletion, refused without a word while the object is in use.
UndoObject(o) ==
    /\ Undoing(o) /\ o \in Object \ {"S"}
    /\ undo' = Front(undo)
    /\ \/ Deletable(o) /\ db' = db \ {o} /\ UNCHANGED marred
       \/ ~Deletable(o) /\ marred' = marred \cup {o} /\ UNCHANGED db
    /\ UNCHANGED <<held, tries, warned>>

\* _del_sched: tried again until it is gone or the tries are used up.
UndoScheduler ==
    /\ Undoing("S")
    /\ \/ "S" \notin db /\ undo' = Front(undo) /\ tries' = 0 /\ UNCHANGED <<db, warned>>
       \/ "S" \in db /\ tries < MaxTries /\ tries' = tries + 1
          /\ db' = (IF Deletable("S") THEN db \ {"S"} ELSE db) /\ UNCHANGED <<undo, warned>>
       \/ "S" \in db /\ tries = MaxTries /\ undo' = Front(undo) /\ tries' = 0
          /\ warned' = warned \cup {"S"} /\ UNCHANGED db
    /\ UNCHANGED <<held, marred>>

Undone ==
    /\ stage = "undo" /\ undo = <<>> /\ stage' = "idle" /\ orig' = {}
    /\ UNCHANGED <<db, held, late, metered, script, undo, tries, todo, warned, marred, session>>

-----------------------------------------------------------------------------
(* sweep_test_qos_artifacts, at the end of the session.                    *)

\* References first; the late rows of the last test have had time to land.
StartSweep ==
    /\ stage = "idle" /\ late = {} /\ stage' = "sweep"
    /\ \E ok \in BOOLEAN :
          LET gone == {"Q1", "Q0"} \cup (IF ok THEN {"PS"} ELSE {})
          IN /\ ~ok => "PS" \in db
             /\ db' = db \ gone /\ held' = held \cup UNION {Refs(r) : r \in gone \cap db}
             /\ warned' = IF ok THEN warned ELSE warned \cup {"PS"}
    /\ todo' = (db \cap Object) \ {"MP"} /\ tries' = 0
    /\ UNCHANGED <<late, metered, script, undo, orig, marred, session>>

\* A slip: what cannot be deleted is left without a word.
SweepObject_Silent(o) ==
    /\ stage = "sweep" /\ o \in todo /\ todo' = todo \ {o} /\ tries' = 0
    /\ db' = IF Deletable(o) THEN db \ {o} ELSE db
    /\ UNCHANGED <<held, late, metered, script, undo, orig, stage, warned, marred, session>>

\* Object by object, tried again, and a warning for what survives.
SweepObject(o) ==
    /\ stage = "sweep" /\ o \in todo
    /\ \/ Deletable(o) /\ db' = db \ {o} /\ todo' = todo \ {o} /\ tries' = 0 /\ UNCHANGED warned
       \/ ~Deletable(o) /\ tries < MaxTries /\ tries' = tries + 1 /\ UNCHANGED <<db, todo, warned>>
       \/ ~Deletable(o) /\ tries = MaxTries /\ tries' = 0 /\ todo' = todo \ {o}
          /\ warned' = warned \cup {o} /\ UNCHANGED db
    /\ UNCHANGED <<held, late, metered, script, undo, orig, stage, marred, session>>

SweepDone ==
    /\ stage = "sweep" /\ todo = {} /\ stage' = "end"
    /\ UNCHANGED <<db, held, late, metered, script, undo, orig, tries, todo, warned, marred, session>>

Next ==
    \/ \E o \in Object : Release(o) \/ UndoObject(o) \/ SweepObject(o)
    \/ \E r \in Row : Land(r) \/ UndoRow(r)
    \/ \E s \in Scripts : StartTest(s)
    \/ MakeScheduler \/ BindQueue \/ BindTakenQueue \/ BindPort
    \/ BuildLossless \/ BuildBaseline \/ BuildSchedBaseline \/ EndTest \/ Crash
    \/ UndoPortScheduler \/ UndoBaseline \/ UndoScheduler \/ Undone
    \/ StartSweep \/ SweepDone

Spec == Init /\ [][Next]_vars

-----------------------------------------------------------------------------
(* Properties.                                                             *)

\* A test that is over leaves exactly the rows the switch came with, its shipped
\* PORT_QOS_MAP included, none of its other objects, and its scheduler only with a
\* warning (lossless.py: "a leftover scheduler = the port is rate-limited to pir,
\* polluting all subsequent traffic cases").  Excepted is what a fault put out of its
\* reach, each thing by itself: a row that came late, a row whose patch was refused, an
\* object whose one deletion was refused, what a killed test had on its list, and a
\* shipped QUEUE row that a test took for its own.
UndoRestores ==
    stage = "idle" =>
        /\ db \cap (Row \ marred) = factory \ marred
        /\ db \cap (Object \ marred) \subseteq {"S"} \cap warned

\* At the end of a session, crashes and late rows included, every scheduler, WRED
\* and buffer profile of a test is gone or named in a warning, and so is whatever
\* still limits the port.
NoSilentShaper ==
    stage = "end" =>
        /\ (db \cap Object) \ {"MP"} \subseteq warned
        /\ \A r \in {"Q0", "Q1", "PS"} \cap db : r \in warned \/ Refs(r) \subseteq warned
=============================================================================

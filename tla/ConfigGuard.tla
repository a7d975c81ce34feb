----------------------------- MODULE ConfigGuard -----------------------------
(***************************************************************************)
(* Per-test configuration rollback (framework/config_guard.py).            *)
(*                                                                         *)
(* A test changes configuration objects and registers, for each change, a  *)
(* command that puts the object back (defer_undo).  On exit the guard      *)
(* replays the commands in reverse order of registration, and the ones     *)
(* that failed once more.  The switch refuses a command whose result would *)
(* not be a legal configuration (a VLAN that still has members, a member   *)
(* that is a router interface, ...).                                       *)
(***************************************************************************)
EXTENDS Naturals, Sequences

CONSTANTS
    Object,        \* configuration objects a test touches
    Legal,         \* the legal configurations, as sets of present objects
    Base,          \* the configuration when the test starts
    Shallow,       \* objects in no chain of three dependent objects: see TwoDeep
    MaxChanges,    \* bound: changes one test makes
    Habits,        \* how tests and switch behave: see Habit
    MayAbort       \* a test may die between a change and its registration

\* ordered: the test registers each undo right after its change; otherwise it
\* changes an object once and registers late.  lying: a refused command may still
\* return rc=0.
Habit == [ordered : BOOLEAN, lying : BOOLEAN]

ASSUME GuardAssumption ==
    /\ Legal \subseteq SUBSET Object
    /\ Base \in Legal
    /\ Shallow \subseteq Object
    /\ MaxChanges \in Nat
    /\ MayAbort \in BOOLEAN
    /\ Habits \subseteq Habit

\* The configuration in which o has been put in state t.
Put(c, o, t) == IF t = "present" THEN c \cup {o} ELSE c \ {o}

\* The state the test found o in.
Found(o) == IF o \in Base THEN "present" ELSE "absent"

\* The objects of Free can be put back at any time, those of Shallow once they have been.
TwoDeep(Free) ==
    /\ \A c \in Legal, o \in Free : Put(c, o, Found(o)) \in Legal
    /\ \A c \in Legal, o \in Shallow :
          c \cap Free = Base \cap Free => Put(c, o, Found(o)) \in Legal

ASSUME ShallowAssumption == \E Free \in SUBSET Object : TwoDeep(Free)

\* An undo command: make obj present or absent; does it carry a verify callable?
Undo == [obj : Object, to : {"present", "absent"}, verify : {"yes", "no"}]

VARIABLES
    cfg,        \* the running configuration
    hist,       \* history: the configurations the test went through
    pending,    \* changes made whose undo is not registered yet
    undo,       \* self._undo
    left,       \* number of commands still to run in this pass
    failed,     \* commands that failed in the first pass
    warned,     \* commands reported by a "retry failed" warning
    stage,
    habit       \* chosen once, never changed

vars == <<habit, cfg, hist, pending, undo, left, failed, warned, stage>>

TypeOK ==
    /\ cfg \in Legal
    /\ hist \in Seq(Legal)
    /\ pending \subseteq [obj : Object, to : {"present", "absent"}]
    /\ undo \in Seq(Undo)
    /\ left \in Nat
    /\ failed \in Seq(Undo)
    /\ warned \subseteq Undo
    /\ stage \in {"test", "first", "second", "done"}
    /\ habit \in Habits

Opposite(o) == IF o \in cfg THEN "absent" ELSE "present"
Current(o) == IF o \in cfg THEN "present" ELSE "absent"

Init ==
    /\ cfg = Base
    /\ hist = <<Base>>
    /\ pending = {} /\ undo = <<>>
    /\ left = 0 /\ failed = <<>>
    /\ warned = {}
    /\ stage = "test"
    /\ habit \in Habits

-----------------------------------------------------------------------------
(* The test.                                                               *)

\* Objects the test has changed so far.
Changed == {c.obj : c \in pending} \cup {undo[i].obj : i \in DOMAIN undo}

\* The test changes o; the switch accepts because the result is legal.
Change(o) ==
    /\ stage = "test"
    /\ Len(hist) <= MaxChanges
    /\ IF habit.ordered THEN pending = {} ELSE o \notin Changed
    /\ Put(cfg, o, Opposite(o)) \in Legal
    /\ cfg' = Put(cfg, o, Opposite(o))
    /\ hist' = Append(hist, cfg')
    /\ pending' = pending \cup {[obj |-> o, to |-> Current(o)]}
    /\ UNCHANGED <<habit, undo, left, failed, warned, stage>>

\* defer_undo for one of the changes made, with or without a verify callable.
DeferUndo(c, v) ==
    /\ stage = "test"
    /\ undo' = Append(undo, [obj |-> c.obj, to |-> c.to, verify |-> v])
    /\ pending' = pending \ {c}
    /\ UNCHANGED <<habit, cfg, hist, left, failed, warned, stage>>

\* The test body is over, by return or by exception: __exit__ starts.
EndTest ==
    /\ stage = "test"
    /\ pending = {} \/ MayAbort
    /\ left' = Len(undo)
    /\ stage' = "first"
    /\ UNCHANGED <<habit, cfg, hist, pending, undo, failed, warned>>

-----------------------------------------------------------------------------
(* __exit__.                                                               *)

\* The verdict _run_undo may give on a command.  A verify callable decides on
\* the state reached, and an exception in it counts as failure.  Without one, an
\* accepted command and an "already there" message are success, unless the shell
\* gave up on it after 30 s (rc=124); a refused command is success only if the
\* CLI returned rc=0 all the same.
Verdicts(c, reached) ==
    {reached, FALSE} \cup (IF c.verify = "no" /\ habit.lying THEN {TRUE} ELSE {})

\* Run one undo command: the switch applies it when the result is legal.
RunUndo(c, ok) ==
    LET new == Put(cfg, c.obj, c.to)
    IN /\ cfg' = IF new \in Legal THEN new ELSE cfg
       /\ ok \in Verdicts(c, new \in Legal)

\* A slip that the first pass could have: registration order.
FirstPass_Forward ==
    /\ stage = "first" /\ left > 0
    /\ LET c == undo[Len(undo) - left + 1]
       IN \E ok \in BOOLEAN :
             /\ RunUndo(c, ok)
             /\ failed' = IF ok THEN failed ELSE Append(failed, c)
    /\ left' = left - 1
    /\ UNCHANGED <<habit, hist, pending, undo, warned, stage>>

\* First pass, last command first: a failure is kept for the retry.
FirstPass ==
    /\ stage = "first" /\ left > 0
    /\ \E ok \in BOOLEAN :
          /\ RunUndo(undo[left], ok)
          /\ failed' = IF ok THEN failed ELSE Append(failed, undo[left])
    /\ left' = left - 1
    /\ UNCHANGED <<habit, hist, pending, undo, warned, stage>>

\* A slip: the failures are not retried.
StartRetry_None ==
    /\ stage = "first" /\ left = 0
    /\ left' = 0 /\ stage' = "second"
    /\ UNCHANGED <<habit, cfg, hist, pending, undo, failed, warned>>

StartRetry ==
    /\ stage = "first" /\ left = 0
    /\ left' = Len(failed)
    /\ stage' = "second"
    /\ UNCHANGED <<habit, cfg, hist, pending, undo, failed, warned>>

\* A slip that the second pass could have: it does not report.
SecondPass_Silent ==
    /\ stage = "second" /\ left > 0
    /\ \E ok \in BOOLEAN : RunUndo(failed[Len(failed) - left + 1], ok)
    /\ left' = left - 1
    /\ UNCHANGED <<habit, hist, pending, undo, failed, warned, stage>>

\* Second pass, first failure first: a failure is only reported.
SecondPass ==
    /\ stage = "second" /\ left > 0
    /\ LET c == failed[Len(failed) - left + 1]
       IN \E ok \in BOOLEAN :
             /\ RunUndo(c, ok)
             /\ warned' = IF ok THEN warned ELSE warned \cup {c}
    /\ left' = left - 1
    /\ UNCHANGED <<habit, hist, pending, undo, failed, stage>>

\* No reload is triggered; the registered commands are forgotten.
Finish ==
    /\ stage = "second" /\ left = 0
    /\ undo' = <<>>
    /\ stage' = "done"
    /\ UNCHANGED <<habit, cfg, hist, pending, left, failed, warned>>

Next ==
    \/ \E o \in Object : Change(o)
    \/ \E c \in pending, v \in {"yes", "no"} : DeferUndo(c, v)
    \/ EndTest
    \/ FirstPass \/ StartRetry \/ SecondPass \/ Finish

Spec == Init /\ [][Next]_vars

-----------------------------------------------------------------------------
(* Properties.                                                             *)

\* With the undo of every change registered in the order of the changes, each
\* command of the first pass puts the switch back into the configuration that
\* preceded the change it undoes, whatever verdict it gets: reverse order
\* retraces the test, and the pass ends in the configuration it started from.
Retraces ==
    habit.ordered /\ ~MayAbort /\ stage = "first" =>
        /\ cfg = hist[left + 1]
        /\ left = 0 => cfg = Base

\* When the guard is done, objects whose dependencies are at most two deep are as
\* the test found them, whatever the order of registration (README.md: the retry
\* "heals registration-order dependencies").
Restored ==
    stage = "done" /\ pending = {} /\ ~habit.ordered /\ ~habit.lying =>
        \A o \in Shallow : o \in cfg <=> o \in Base

\* A rollback that leaves configuration behind says so
\* (README.md: "an undo failure must be a visible WARNING").
LeakIsVisible ==
    stage = "done" /\ pending = {} /\ ~habit.ordered /\ ~habit.lying /\ cfg # Base =>
        warned # {}
=============================================================================

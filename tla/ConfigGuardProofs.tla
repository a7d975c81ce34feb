-------------------------- MODULE ConfigGuardProofs --------------------------
(***************************************************************************)
(* Reverse replay retraces the test: proofs about ConfigGuard.             *)
(***************************************************************************)
EXTENDS ConfigGuard, TLAPS

\* The command i of the guard undoes the change i of the test.
Undoes(u, i) ==
    /\ u.obj \in Object /\ u.to \in {"present", "absent"}
    /\ Put(hist[i + 1], u.obj, u.to) = hist[i]

\* While the test runs, every change but the last has its undo registered, in
\* the order of the changes, and the last one has its undo pending or
\* registered; the configuration is the last of the history.
Recording ==
    /\ cfg = hist[Len(hist)]
    /\ \/ pending = {} /\ Len(hist) = Len(undo) + 1
       \/ /\ Len(hist) = Len(undo) + 2
          /\ \E c : pending = {c} /\ Undoes(c, Len(undo) + 1)

\* While the first pass runs, the commands left are those of the changes that
\* the configuration still has.
Replaying ==
    /\ left <= Len(undo)
    /\ Len(hist) = Len(undo) + 1
    /\ cfg = hist[left + 1]

GuardInv ==
    /\ TypeOK
    /\ hist # <<>> /\ hist[1] = Base
    /\ stage \in {"test", "first"} =>
          \A i \in 1..Len(undo) : i < Len(hist) /\ Undoes(undo[i], i)
    /\ stage = "test" => Recording
    /\ stage = "first" => Replaying
    /\ stage = "second" => left <= Len(failed)

LEMMA GuardInvInit == Init => GuardInv
  <1> USE GuardAssumption
  <1> SUFFICES ASSUME Init PROVE GuardInv
    OBVIOUS
  <1>1. TypeOK
    BY DEF Init, TypeOK
  <1>2. hist # <<>> /\ hist[1] = Base /\ Len(hist) = 1
    BY DEF Init
  <1> QED
    BY <1>1, <1>2 DEF Init, GuardInv, Recording, Undoes

\* Undoing a change of o gives back the configuration before it.
LEMMA PutBack ==
    ASSUME NEW c \in SUBSET Object, NEW o \in Object
    PROVE  LET to == IF o \in c THEN "present" ELSE "absent"
               new == IF o \in c THEN "absent" ELSE "present"
           IN Put(Put(c, o, new), o, to) = c
  BY DEF Put

\* With every undo registered in order and no test dying in between, each step
\* keeps the correspondence between commands and changes.
LEMMA GuardInvStep ==
    ASSUME habit.ordered, ~MayAbort, GuardInv, [Next]_vars
    PROVE  GuardInv'
  <1> USE GuardAssumption
  <1>1. ASSUME NEW o \in Object, Change(o) PROVE GuardInv'
    <2> DEFINE to == IF o \in cfg THEN "present" ELSE "absent"
               new == IF o \in cfg THEN "absent" ELSE "present"
               n == Len(hist)
    <2>1. /\ stage = "test" /\ stage' = "test" /\ undo' = undo
          /\ pending = {} /\ pending' = {[obj |-> o, to |-> to]}
          /\ cfg' = Put(cfg, o, new) /\ cfg' \in Legal
          /\ hist' = Append(hist, cfg')
          /\ UNCHANGED <<habit, left, failed, warned>>
      BY <1>1 DEF Change, Opposite, Current
    <2>2. hist \in Seq(Legal) /\ n \in Nat /\ n = Len(undo) + 1 /\ cfg = hist[n]
      BY <2>1 DEF GuardInv, TypeOK, Recording
    <2>3. /\ hist' \in Seq(Legal) /\ Len(hist') = n + 1 /\ hist'[n + 1] = cfg'
          /\ \A i \in 1..n : hist'[i] = hist[i]
      BY <2>1, <2>2
    <2>4. TypeOK'
      BY <2>1, <2>3 DEF GuardInv, TypeOK
    <2>5. Put(cfg', o, to) = cfg
      <3>1. cfg \in SUBSET Object
        BY DEF GuardInv, TypeOK
      <3> QED
        BY <2>1, <3>1, PutBack
    <2>6. Put(hist'[n + 1], o, to) = hist'[n]
      BY <2>2, <2>3, <2>5
    <2>7. Recording'
      <3> DEFINE c == [obj |-> o, to |-> to]
      <3>1. /\ c.obj \in Object /\ c.to \in {"present", "absent"}
            /\ Put(hist'[Len(undo') + 2], c.obj, c.to) = hist'[Len(undo') + 1]
        BY <2>1, <2>2, <2>6
      <3>2. cfg' = hist'[Len(hist')] /\ Len(hist') = Len(undo') + 2 /\ pending' = {c}
        BY <2>1, <2>2, <2>3
      <3> HIDE DEF c
      <3> QED
        BY <3>1, <3>2, Len(undo') \in Nat, <2>1 DEF Recording, Undoes
    <2>8. \A i \in 1..Len(undo) : Undoes(undo[i], i)'
      BY <2>1, <2>2, <2>3 DEF GuardInv, Undoes
    <2>9. (hist # <<>> /\ hist[1] = Base)'
      BY <2>2, <2>3 DEF GuardInv
    <2> QED
      BY <2>1, <2>2, <2>3, <2>4, <2>7, <2>8, <2>9 DEF GuardInv
  <1>2. ASSUME NEW c \in pending, NEW v \in {"yes", "no"}, DeferUndo(c, v)
        PROVE  GuardInv'
    <2> DEFINE u == [obj |-> c.obj, to |-> c.to, verify |-> v]
               n == Len(undo)
    <2>1. /\ stage = "test" /\ stage' = "test"
          /\ undo' = Append(undo, u) /\ pending' = pending \ {c}
          /\ UNCHANGED <<habit, cfg, hist, left, failed, warned>>
      BY <1>2 DEF DeferUndo
    <2>2. /\ cfg = hist[Len(hist)] /\ Len(hist) = n + 2
          /\ pending = {c} /\ Undoes(c, n + 1)
      BY <2>1 DEF GuardInv, Recording
    <2>3. u \in Undo
      BY DEF GuardInv, TypeOK, Undo
    <2>4. /\ undo \in Seq(Undo) /\ n \in Nat
          /\ undo' \in Seq(Undo) /\ Len(undo') = n + 1 /\ undo'[n + 1] = u
          /\ \A i \in 1..n : undo'[i] = undo[i]
      BY <2>1, <2>3 DEF GuardInv, TypeOK
    <2>5. TypeOK'
      BY <2>1, <2>4 DEF GuardInv, TypeOK
    <2>6. Undoes(u, n + 1)
      BY <2>2 DEF Undoes
    <2>7. \A i \in 1..(n + 1) : i < Len(hist) /\ Undoes(undo'[i], i)
      BY <2>1, <2>2, <2>4, <2>6 DEF GuardInv
    <2>8. \A i \in 1..Len(undo') : (i < Len(hist))' /\ Undoes(undo[i], i)'
      BY <2>1, <2>4, <2>7 DEF Undoes
    <2> QED
      BY <2>1, <2>2, <2>4, <2>5, <2>8 DEF GuardInv, Recording
  <1>3. CASE EndTest
    <2>1. /\ stage = "test" /\ pending = {} /\ stage' = "first"
          /\ left' = Len(undo)
          /\ UNCHANGED <<habit, cfg, hist, pending, undo, failed, warned>>
      BY <1>3 DEF EndTest
    <2>2. Recording /\ undo \in Seq(Undo)
      BY <2>1 DEF GuardInv, TypeOK
    <2>3. Len(hist) = Len(undo) + 1 /\ cfg = hist[Len(hist)] /\ Len(undo) \in Nat
      BY <2>1, <2>2 DEF Recording
    <2>4. TypeOK'
      BY <2>1, <2>3 DEF GuardInv, TypeOK
    <2> QED
      BY <2>1, <2>3, <2>4 DEF GuardInv, Replaying, Undoes
  <1>4. CASE FirstPass
    <2>1. /\ stage = "first" /\ stage' = "first" /\ left > 0 /\ left' = left - 1
          /\ UNCHANGED <<habit, hist, pending, undo, warned>>
      BY <1>4 DEF FirstPass
    <2>2. /\ left \in Nat /\ left <= Len(undo) /\ Len(hist) = Len(undo) + 1
          /\ cfg = hist[left + 1] /\ undo \in Seq(Undo) /\ hist \in Seq(Legal)
      BY <2>1 DEF GuardInv, TypeOK, Replaying
    <2>3. undo[left] \in Undo /\ hist[left] \in Legal /\ Undoes(undo[left], left)
      BY <2>1, <2>2 DEF GuardInv
    <2>4. cfg' = hist[left]
      BY <1>4, <2>2, <2>3 DEF FirstPass, RunUndo, Undoes
    <2>5. failed' \in Seq(Undo)
      BY <1>4, <2>3 DEF FirstPass, GuardInv, TypeOK
    <2>6. TypeOK'
      BY <2>1, <2>2, <2>3, <2>4, <2>5 DEF GuardInv, TypeOK
    <2>7. Replaying'
      BY <2>1, <2>2, <2>4 DEF Replaying
    <2> QED
      BY <2>1, <2>6, <2>7 DEF GuardInv, Undoes
  <1>5. CASE StartRetry
    BY <1>5 DEF StartRetry, GuardInv, TypeOK
  <1>6. CASE SecondPass
    <2> DEFINE c == failed[Len(failed) - left + 1]
    <2>1. /\ stage = "second" /\ stage' = "second" /\ left > 0 /\ left' = left - 1
          /\ UNCHANGED <<habit, hist, pending, undo, failed>>
      BY <1>6 DEF SecondPass
    <2>2. left \in Nat /\ left <= Len(failed) /\ failed \in Seq(Undo)
      BY <2>1 DEF GuardInv, TypeOK
    <2>3. c \in Undo
      BY <2>1, <2>2
    <2>4. cfg' \in Legal /\ warned' \in SUBSET Undo
      BY <1>6, <2>3 DEF SecondPass, RunUndo, GuardInv, TypeOK
    <2> QED
      BY <2>1, <2>2, <2>4 DEF GuardInv, TypeOK
  <1>7. CASE Finish
    BY <1>7 DEF Finish, GuardInv, TypeOK
  <1>8. CASE UNCHANGED vars
    BY <1>8 DEF vars, GuardInv, TypeOK, Recording, Replaying, Undoes
  <1> QED
    BY <1>1, <1>2, <1>3, <1>4, <1>5, <1>6, <1>7, <1>8 DEF Next

\* When tests register each undo right after its change and none dies in
\* between, the first pass of __exit__ retraces the test, command by command,
\* for any set of objects and any notion of a legal configuration.
THEOREM FirstPassRetraces ==
    ASSUME ~MayAbort
    PROVE  Spec => []Retraces
  <1> DEFINE Inv == habit.ordered => GuardInv
  <1>1. Inv => Retraces
    BY DEF GuardInv, Retraces, Replaying
  <1>2. Inv /\ [Next]_vars => Inv'
    <2> SUFFICES ASSUME Inv, [Next]_vars, habit'.ordered PROVE GuardInv'
      OBVIOUS
    <2>1. habit' = habit
      BY DEF Next, vars, Change, DeferUndo, EndTest, FirstPass, StartRetry,
             SecondPass, Finish
    <2> QED
      BY <2>1, GuardInvStep
  <1>3. Init => Inv
    BY GuardInvInit
  <1> QED
    BY <1>1, <1>2, <1>3, PTL DEF Spec

-----------------------------------------------------------------------------
\* A pass never runs past the commands it goes through.
Within ==
    /\ stage = "first" => left <= Len(undo)
    /\ stage = "second" => left <= Len(failed)

LEMMA TypesStep == TypeOK /\ Within /\ [Next]_vars => TypeOK' /\ Within'
  <1> USE GuardAssumption
  <1> SUFFICES ASSUME TypeOK, Within, [Next]_vars PROVE TypeOK' /\ Within'
    OBVIOUS
  <1>1. ASSUME NEW o \in Object, Change(o) PROVE TypeOK' /\ Within'
    BY <1>1 DEF Change, Opposite, Current, TypeOK, Within
  <1>2. ASSUME NEW c \in pending, NEW v \in {"yes", "no"}, DeferUndo(c, v)
        PROVE  TypeOK' /\ Within'
    BY <1>2 DEF DeferUndo, TypeOK, Within, Undo
  <1>3. CASE EndTest
    BY <1>3 DEF EndTest, TypeOK, Within
  <1>4. CASE FirstPass
    <2>1. undo[left] \in Undo
      BY <1>4 DEF FirstPass, TypeOK, Within
    <2> QED
      BY <1>4, <2>1 DEF FirstPass, RunUndo, TypeOK, Within
  <1>5. CASE StartRetry
    BY <1>5 DEF StartRetry, TypeOK, Within
  <1>6. CASE SecondPass
    <2>1. failed[Len(failed) - left + 1] \in Undo
      BY <1>6 DEF SecondPass, TypeOK, Within
    <2> QED
      BY <1>6, <2>1 DEF SecondPass, RunUndo, TypeOK, Within
  <1>7. CASE Finish
    BY <1>7 DEF Finish, TypeOK, Within
  <1>8. CASE UNCHANGED vars
    BY <1>8 DEF vars, TypeOK, Within
  <1> QED
    BY <1>1, <1>2, <1>3, <1>4, <1>5, <1>6, <1>7, <1>8 DEF Next

\* Whatever tests register, and in whatever order, the switch stays in legal
\* configurations and the guard runs only commands that were registered.
THEOREM GuardTypes == Spec => []TypeOK
  <1>1. Init => TypeOK /\ Within
    BY GuardAssumption DEF Init, TypeOK, Within
  <1> QED
    BY <1>1, TypesStep, PTL DEF Spec

-----------------------------------------------------------------------------
(* Tests that register late.  An object that is not as the test found it   *)
(* is owed: a command that puts it back is still to run, or was reported.  *)

Away(o) == ~(o \in cfg <=> o \in Base)
Back(c) == c.to = Found(c.obj)

Pending(o) == \E c \in pending : c.obj = o
InUndo(o, n) == \E k \in 1..n : undo[k].obj = o
InFailed(o, n) == \E k \in n..Len(failed) : failed[k].obj = o
Reported(o) == \E c \in warned : c.obj = o

Owed(o) ==
    \/ Pending(o)
    \/ stage = "test" /\ InUndo(o, Len(undo))
    \/ stage = "first" /\ (InUndo(o, left) \/ InFailed(o, 1))
    \/ stage = "second" /\ InFailed(o, Len(failed) - left + 1)
    \/ stage \in {"second", "done"} /\ Reported(o)

LateInv ==
    /\ TypeOK /\ Within
    /\ \A c \in pending : Back(c)
    /\ \A k \in 1..Len(undo) : Back(undo[k])
    /\ \A k \in 1..Len(failed) : Back(failed[k])
    /\ \A o \in Object : Away(o) => Owed(o)

\* A command puts its object back, or it fails.
LEMMA UndoEffect ==
    ASSUME TypeOK, NEW c \in Undo, Back(c), NEW ok \in BOOLEAN, RunUndo(c, ok), ~habit.lying
    PROVE  /\ \A o : Away(o)' => Away(o)
           /\ Away(c.obj)' => ~ok /\ Put(cfg, c.obj, Found(c.obj)) \notin Legal
  <1>1. /\ c.to \in {"present", "absent"} /\ c.to = Found(c.obj)
    BY DEF Undo, Back
  <1>2. /\ cfg' = IF Put(cfg, c.obj, c.to) \in Legal THEN Put(cfg, c.obj, c.to) ELSE cfg
        /\ Put(cfg, c.obj, c.to) \notin Legal => ~ok
    BY DEF RunUndo, Verdicts
  <1>3. \A o : o \in Put(cfg, c.obj, Found(c.obj)) <=>
                  IF o = c.obj THEN c.obj \in Base ELSE o \in cfg
    BY DEF Put, Found
  <1> QED
    BY <1>1, <1>2, <1>3 DEF Away

LEMMA LateInit == Init => LateInv
  <1> SUFFICES ASSUME Init PROVE LateInv
    OBVIOUS
  <1>1. TypeOK /\ Within
    BY GuardAssumption DEF Init, TypeOK, Within
  <1> QED
    BY <1>1 DEF Init, LateInv, Away

LEMMA LateTest ==
    ASSUME LateInv, ~habit.ordered, [Next]_vars, NEW o \in Object, Change(o)
    PROVE  LateInv'
  <1> DEFINE d == [obj |-> o, to |-> Found(o)]
  <1>1. TypeOK' /\ Within'
    BY TypesStep DEF LateInv
  <1>2. /\ stage = "test" /\ stage' = "test" /\ o \notin Changed
        /\ cfg' = Put(cfg, o, Opposite(o))
        /\ pending' = pending \cup {[obj |-> o, to |-> Current(o)]}
        /\ UNCHANGED <<undo, failed>>
    BY DEF Change
  <1>3. ~Pending(o) /\ ~InUndo(o, Len(undo))
    BY <1>2 DEF Changed, Pending, InUndo, LateInv, TypeOK
  <1>4. ~Away(o)
    BY <1>2, <1>3 DEF LateInv, Owed
  <1>5. pending' = pending \cup {d} /\ d.obj = o /\ Back(d)
    BY <1>2, <1>4 DEF Away, Current, Found, Back
  <1>6. \A x \in Object : x # o => (Away(x)' <=> Away(x))
    BY <1>2 DEF Away, Put
  <1> HIDE DEF d
  <1>7. \A x \in Object : Away(x)' => Owed(x)'
    BY <1>2, <1>5, <1>6 DEF LateInv, Owed, Pending, InUndo
  <1> QED
    BY <1>1, <1>2, <1>5, <1>7 DEF LateInv, Back

LEMMA LateDefer ==
    ASSUME LateInv, [Next]_vars, NEW c \in pending, NEW v \in {"yes", "no"}, DeferUndo(c, v)
    PROVE  LateInv'
  <1> DEFINE u == [obj |-> c.obj, to |-> c.to, verify |-> v]
             n == Len(undo)
  <1>1. TypeOK' /\ Within'
    BY TypesStep DEF LateInv
  <1>2. /\ stage = "test" /\ stage' = "test" /\ undo' = Append(undo, u) /\ pending' = pending \ {c}
        /\ UNCHANGED <<cfg, failed>>
    BY DEF DeferUndo
  <1>3. u.obj = c.obj /\ Back(u)
    BY DEF LateInv, Back
  <1>4. n \in Nat /\ Len(undo') = n + 1 /\ undo'[n + 1] = u /\ \A i \in 1..n : undo'[i] = undo[i]
    BY <1>2 DEF LateInv, TypeOK
  <1> HIDE DEF u, n
  <1>5. \A k \in 1..Len(undo') : Back(undo'[k])
    BY <1>3, <1>4 DEF LateInv, n
  <1>6. ASSUME NEW x \in Object, Away(x)' PROVE Owed(x)'
    <2>1. Away(x)
      BY <1>2, <1>6 DEF Away
    <2>2. Pending(x) \/ InUndo(x, n)
      BY <1>2, <2>1 DEF LateInv, Owed, n
    <2>3. CASE InUndo(x, n)
      <3>1. PICK k \in 1..n : undo[k].obj = x
        BY <2>3 DEF InUndo
      <3>2. k \in 1..Len(undo') /\ undo'[k].obj = x
        BY <1>4, <3>1
      <3> QED
        BY <1>2, <3>2 DEF Owed, InUndo
    <2>4. CASE c.obj = x
      <3>1. n + 1 \in 1..Len(undo') /\ undo'[n + 1].obj = x
        BY <1>3, <1>4, <2>4
      <3> QED
        BY <1>2, <3>1 DEF Owed, InUndo
    <2>5. CASE Pending(x) /\ c.obj # x
      BY <1>2, <2>5 DEF Owed, Pending
    <2> QED
      BY <2>2, <2>3, <2>4, <2>5
  <1> QED
    BY <1>1, <1>2, <1>5, <1>6 DEF LateInv, Back

LEMMA LateTurn ==
    ASSUME LateInv, [Next]_vars, EndTest \/ StartRetry \/ Finish \/ UNCHANGED vars
    PROVE  LateInv'
  <1>1. TypeOK' /\ Within' /\ Len(failed) \in Nat /\ Len(undo) \in Nat
    BY TypesStep DEF LateInv, TypeOK
  <1>2. UNCHANGED <<cfg, pending, failed, warned>> /\ (undo' = undo \/ undo' = <<>>)
    BY DEF EndTest, StartRetry, Finish, vars
  <1>3. \A x \in Object : (Away(x)' <=> Away(x)) /\ (Pending(x)' <=> Pending(x)) /\ (Reported(x)' <=> Reported(x))
    BY <1>2 DEF Away, Pending, Reported
  <1>4. ASSUME NEW x \in Object, Away(x)' PROVE Owed(x)'
    <2>1. Owed(x)
      BY <1>3, <1>4 DEF LateInv
    <2>2. CASE EndTest
      <3>1. stage = "test" /\ stage' = "first" /\ left' = Len(undo) /\ undo' = undo
        BY <2>2 DEF EndTest
      <3> QED
        BY <1>3, <2>1, <3>1 DEF Owed, InUndo
    <2>3. CASE StartRetry
      <3>1. stage = "first" /\ left = 0 /\ stage' = "second" /\ left' = Len(failed) /\ failed' = failed
        BY <2>3 DEF StartRetry
      <3>2. Len(failed') - left' + 1 = 1 /\ ~InUndo(x, left)
        BY <1>1, <3>1 DEF InUndo
      <3> QED
        BY <1>3, <2>1, <3>1, <3>2 DEF Owed, InFailed
    <2>4. CASE Finish
      <3>1. stage = "second" /\ left = 0 /\ stage' = "done"
        BY <2>4 DEF Finish
      <3>2. ~InFailed(x, Len(failed) - left + 1)
        BY <1>1, <3>1 DEF InFailed
      <3> QED
        BY <1>3, <2>1, <3>1, <3>2 DEF Owed
    <2>5. CASE UNCHANGED vars
      BY <1>3, <2>1, <2>5 DEF vars, Owed, InUndo, InFailed
    <2> QED
      BY <2>2, <2>3, <2>4, <2>5
  <1> QED
    BY <1>1, <1>2, <1>4 DEF LateInv, Back

\* A pass runs a command c: what is still away was, and c's object only if c failed.
LEMMA FirstEffect ==
    ASSUME LateInv, ~habit.lying, FirstPass
    PROVE  /\ left \in 1..Len(undo) /\ undo[left].obj \in Object
           /\ \A o : Away(o)' => Away(o)
           /\ \A o : Away(o)' /\ o = undo[left].obj => /\ failed' = Append(failed, undo[left])
                                                     /\ Put(cfg, o, Found(o)) \notin Legal
           /\ failed' = failed \/ failed' = Append(failed, undo[left])
           /\ stage = "first" /\ stage' = "first" /\ left' = left - 1
           /\ UNCHANGED <<undo, pending, warned>>
  <1>1. /\ left \in 1..Len(undo) /\ undo[left] \in Undo /\ Back(undo[left])
    BY DEF FirstPass, LateInv, TypeOK, Within
  <1>2. PICK c : c = undo[left]
    OBVIOUS
  <1>3. PICK ok \in BOOLEAN : RunUndo(c, ok) /\ failed' = IF ok THEN failed ELSE Append(failed, c)
    BY <1>2 DEF FirstPass
  <1>4. /\ \A o : Away(o)' => Away(o)
        /\ Away(c.obj)' => ~ok /\ Put(cfg, c.obj, Found(c.obj)) \notin Legal
    BY <1>1, <1>2, <1>3, UndoEffect DEF LateInv
  <1>5. c.obj \in Object
    BY <1>1, <1>2 DEF Undo
  <1> QED
    BY <1>1, <1>2, <1>3, <1>4, <1>5 DEF FirstPass

LEMMA SecondEffect ==
    ASSUME LateInv, ~habit.lying, SecondPass, NEW k, k = Len(failed) - left + 1
    PROVE  /\ k \in 1..Len(failed) /\ left \in Nat \ {0} /\ failed[k] \in Undo
           /\ \A o : Away(o)' => Away(o)
           /\ \A o : Away(o)' /\ o = failed[k].obj => /\ failed[k] \in warned'
                                                    /\ Put(cfg, o, Found(o)) \notin Legal
           /\ warned \subseteq warned'
           /\ stage = "second" /\ stage' = "second" /\ left' = left - 1
           /\ UNCHANGED <<undo, pending, failed>>
  <1>1. k \in 1..Len(failed) /\ failed[k] \in Undo /\ Back(failed[k]) /\ left \in Nat \ {0}
    <2>1. left \in Nat /\ left > 0 /\ left <= Len(failed) /\ failed \in Seq(Undo)
      BY DEF SecondPass, LateInv, TypeOK, Within
    <2>2. k \in 1..Len(failed)
      BY <2>1
    <2> QED
      BY <2>1, <2>2 DEF LateInv
  <1>2. PICK c : c = failed[k]
    OBVIOUS
  <1>3. PICK ok \in BOOLEAN : RunUndo(c, ok) /\ warned' = IF ok THEN warned ELSE warned \cup {c}
    BY <1>2 DEF SecondPass
  <1>4. /\ \A o : Away(o)' => Away(o)
        /\ Away(c.obj)' => ~ok /\ Put(cfg, c.obj, Found(c.obj)) \notin Legal
    BY <1>1, <1>2, <1>3, UndoEffect DEF LateInv
  <1> QED
    BY <1>1, <1>2, <1>3, <1>4 DEF SecondPass

LEMMA LateFirst ==
    ASSUME LateInv, ~habit.lying, [Next]_vars, FirstPass
    PROVE  LateInv'
  <1>1. TypeOK' /\ Within' /\ failed \in Seq(Undo)
    BY TypesStep DEF LateInv, TypeOK
  <1> DEFINE n == Len(failed)
  <1>2. /\ n \in Nat
        /\ \/ failed' = failed
           \/ /\ failed' = Append(failed, undo[left]) /\ Len(failed') = n + 1
              /\ failed'[n + 1] = undo[left] /\ \A i \in 1..n : failed'[i] = failed[i]
    BY <1>1, FirstEffect
  <1> HIDE DEF n
  <1>3. /\ n \in Nat /\ n = Len(failed) /\ Len(failed') >= n
        /\ \A i \in 1..n : i \in 1..Len(failed') /\ failed'[i] = failed[i]
    BY <1>2 DEF n
  <1>4. \A i \in 1..Len(failed') : Back(failed'[i])
    <2>1. Back(undo[left])
      BY FirstEffect DEF LateInv
    <2> QED
      BY <1>2, <2>1 DEF LateInv, n
  <1>5. ASSUME NEW x \in Object, Away(x)' PROVE Owed(x)'
    <2>1. Owed(x) /\ stage = "first" /\ stage' = "first" /\ left' = left - 1 /\ left \in Nat /\ undo' = undo
      BY <1>5, FirstEffect DEF LateInv, TypeOK
    <2>2. CASE x = undo[left].obj
      <3>1. Len(failed') = n + 1 /\ failed'[n + 1].obj = x
        BY <1>1, <1>3, <1>5, <2>2, FirstEffect DEF n
      <3> QED
        BY <1>3, <2>1, <3>1 DEF Owed, InFailed
    <2>3. CASE InFailed(x, 1)
      BY <1>3, <2>1, <2>3 DEF Owed, InFailed
    <2>4. CASE InUndo(x, left) /\ x # undo[left].obj
      <3>1. PICK k \in 1..left : undo[k].obj = x
        BY <2>4 DEF InUndo
      <3>2. k \in 1..left'
        BY <2>1, <2>4, <3>1
      <3> QED
        BY <2>1, <3>1, <3>2 DEF Owed, InUndo
    <2>5. CASE Pending(x)
      BY <2>5, FirstEffect DEF Owed, Pending
    <2> QED
      BY <2>1, <2>2, <2>3, <2>4, <2>5 DEF Owed
  <1> QED
    BY <1>1, <1>4, <1>5, FirstEffect DEF LateInv, Back

LEMMA LateSecond ==
    ASSUME LateInv, ~habit.lying, [Next]_vars, SecondPass
    PROVE  LateInv'
  <1>1. TypeOK' /\ Within' /\ failed \in Seq(Undo)
    BY TypesStep DEF LateInv, TypeOK
  <1>2. PICK k : k = Len(failed) - left + 1
    OBVIOUS
  <1>3. k \in 1..Len(failed) /\ k + 1 = Len(failed) - (left - 1) + 1 /\ Len(failed) \in Nat
    BY <1>1, <1>2, SecondEffect
  <1>4. ASSUME NEW x \in Object, Away(x)' PROVE Owed(x)'
    <2>1. Owed(x) /\ stage = "second" /\ stage' = "second" /\ left' = left - 1 /\ UNCHANGED <<failed, pending>>
      BY <1>2, <1>4, SecondEffect DEF LateInv
    <2>2. CASE x = failed[k].obj
      BY <1>2, <1>4, <2>1, <2>2, SecondEffect DEF Owed, Reported
    <2>3. CASE InFailed(x, k) /\ x # failed[k].obj
      <3>1. PICK j \in k..Len(failed) : failed[j].obj = x
        BY <2>3 DEF InFailed
      <3>2. j \in (k + 1)..Len(failed)
        BY <1>3, <2>3, <3>1
      <3>3. InFailed(x, Len(failed) - left + 1)'
        BY <1>3, <2>1, <3>1, <3>2 DEF InFailed
      <3> QED
        BY <2>1, <3>3 DEF Owed
    <2>4. CASE Reported(x)
      BY <1>2, <2>1, <2>4, SecondEffect DEF Owed, Reported
    <2>5. CASE Pending(x)
      BY <2>1, <2>5 DEF Owed, Pending
    <2> QED
      BY <1>2, <2>1, <2>2, <2>3, <2>4, <2>5 DEF Owed
  <1> QED
    BY <1>1, <1>2, <1>4, SecondEffect DEF LateInv, Back

LEMMA HabitFrame == [Next]_vars => habit' = habit
  BY DEF Next, vars, Change, DeferUndo, EndTest, FirstPass, StartRetry, SecondPass, Finish

LEMMA LateStep == LateInv /\ ~habit.ordered /\ ~habit.lying /\ [Next]_vars => LateInv'
  BY LateTest, LateDefer, LateTurn, LateFirst, LateSecond DEF Next

\* When tests change an object once and register late, and a refused command never
\* returns success, configuration that a finished rollback leaves behind was reported.
THEOREM LeaksAreReported == Spec => []LeakIsVisible
  <1> DEFINE Inv == ~habit.ordered /\ ~habit.lying => LateInv
  <1>1. Init => Inv
    BY LateInit
  <1>2. Inv /\ [Next]_vars => Inv'
    BY LateStep, HabitFrame
  <1>3. Inv => LeakIsVisible
    <2> SUFFICES ASSUME LateInv, stage = "done", pending = {}, cfg # Base PROVE warned # {}
      BY DEF LeakIsVisible
    <2>1. cfg \subseteq Object /\ Base \subseteq Object
      BY GuardAssumption DEF LateInv, TypeOK
    <2>2. PICK o \in Object : Away(o)
      BY <2>1 DEF Away
    <2> QED
      BY <2>2 DEF LateInv, Owed, Pending, Reported
  <1> QED
    BY <1>1, <1>2, <1>3, PTL DEF Spec

-----------------------------------------------------------------------------
(* What is two deep is restored: the first pass frees, the retry restores. *)

HealInv(Free) ==
    /\ LateInv
    /\ stage = "first" => \A o \in Free : Away(o) => Pending(o) \/ InUndo(o, left)
    /\ pending = {} /\ stage \in {"second", "done"} => \A o \in Free : ~Away(o)
    /\ pending = {} /\ stage = "second" =>
          \A o \in Shallow : Away(o) => InFailed(o, Len(failed) - left + 1)
    /\ pending = {} /\ stage = "done" => \A o \in Shallow : ~Away(o)

LEMMA HealStep ==
    ASSUME NEW Free \in SUBSET Object, TwoDeep(Free), HealInv(Free),
           ~habit.ordered, ~habit.lying, [Next]_vars
    PROVE  HealInv(Free)'
  <1>1. LateInv' /\ LateInv /\ TypeOK /\ cfg \in Legal /\ Shallow \subseteq Object
        /\ Len(failed) \in Nat /\ left \in Nat
    BY LateStep, GuardAssumption DEF HealInv, LateInv, TypeOK
  <1>2. CASE stage' = "test"
    BY <1>1, <1>2 DEF HealInv
  <1>3. CASE EndTest
    <2>1. stage = "test" /\ stage' = "first" /\ left' = Len(undo) /\ UNCHANGED <<cfg, undo, pending>>
      BY <1>3 DEF EndTest
    <2>2. \A o \in Free : Away(o)' => Pending(o)' \/ InUndo(o, left)'
      BY <1>1, <2>1 DEF LateInv, Owed, Away, Pending, InUndo
    <2> QED
      BY <1>1, <2>1, <2>2 DEF HealInv
  <1>4. CASE FirstPass
    <2>1. /\ stage = "first" /\ stage' = "first" /\ left' = left - 1 /\ UNCHANGED <<undo, pending>>
          /\ \A o : Away(o)' => Away(o)
          /\ \A o : Away(o)' /\ o = undo[left].obj => Put(cfg, o, Found(o)) \notin Legal
      BY <1>1, <1>4, FirstEffect
    <2>2. ASSUME NEW o \in Free, Away(o)' PROVE Pending(o)' \/ InUndo(o, left)'
      <3>1. o # undo[left].obj
        BY <1>1, <2>1, <2>2 DEF TwoDeep
      <3>2. Pending(o) \/ InUndo(o, left)
        BY <2>1, <2>2 DEF HealInv
      <3>3. InUndo(o, left) => InUndo(o, left - 1)
        BY <1>1, <3>1 DEF InUndo
      <3> QED
        BY <2>1, <3>2, <3>3 DEF Pending, InUndo
    <2> QED
      BY <1>1, <2>1, <2>2 DEF HealInv
  <1>5. CASE StartRetry
    <2>1. /\ stage = "first" /\ left = 0 /\ stage' = "second" /\ left' = Len(failed)
          /\ UNCHANGED <<cfg, undo, pending, failed>>
      BY <1>5 DEF StartRetry
    <2>2. \A o : ~InUndo(o, left)
      BY <2>1 DEF InUndo
    <2>3. pending = {} => \A o \in Free : ~Away(o)
      BY <2>1, <2>2 DEF HealInv, Pending
    <2>4. pending = {} => \A o \in Shallow : Away(o) => InFailed(o, 1)
      BY <1>1, <2>1, <2>2 DEF LateInv, Owed, Pending
    <2>5. Len(failed') - left' + 1 = 1
      BY <1>1, <2>1
    <2> QED
      BY <1>1, <2>1, <2>3, <2>4, <2>5 DEF HealInv, Away, InFailed
  <1>6. CASE SecondPass
    <2>1. PICK k : k = Len(failed) - left + 1
      OBVIOUS
    <2>2. /\ stage = "second" /\ stage' = "second" /\ left' = left - 1 /\ UNCHANGED <<pending, failed>>
          /\ \A o : Away(o)' => Away(o)
          /\ \A o : Away(o)' /\ o = failed[k].obj => Put(cfg, o, Found(o)) \notin Legal
          /\ k \in 1..Len(failed)
      BY <1>1, <1>6, <2>1, SecondEffect
    <2>3. k + 1 = Len(failed') - left' + 1
      BY <1>1, <2>1, <2>2
    <2>4. ASSUME pending = {}, NEW o \in Shallow, Away(o)' PROVE InFailed(o, Len(failed) - left + 1)'
      <3>1. cfg \cap Free = Base \cap Free
        BY <2>2, <2>4 DEF HealInv, Away
      <3>2. o # failed[k].obj
        BY <1>1, <2>2, <2>4, <3>1 DEF TwoDeep
      <3>3. PICK j \in k..Len(failed) : failed[j].obj = o
        BY <2>1, <2>2, <2>4 DEF HealInv, InFailed
      <3>4. j \in (k + 1)..Len(failed)
        BY <1>1, <2>2, <3>2, <3>3
      <3> QED
        BY <2>2, <2>3, <3>3, <3>4 DEF InFailed
    <2> QED
      BY <1>1, <2>2, <2>4 DEF HealInv
  <1>7. CASE Finish
    <2>1. stage = "second" /\ left = 0 /\ stage' = "done" /\ UNCHANGED <<cfg, pending>>
      BY <1>7 DEF Finish
    <2>2. \A o : ~InFailed(o, Len(failed) - left + 1)
      BY <1>1, <2>1 DEF InFailed
    <2> QED
      BY <1>1, <2>1, <2>2 DEF HealInv, Away
  <1>8. CASE UNCHANGED vars
    BY <1>1, <1>8 DEF vars, HealInv, Away, Pending, InUndo, InFailed
  <1> QED
    BY <1>2, <1>3, <1>4, <1>5, <1>6, <1>7, <1>8 DEF Next, Change, DeferUndo

\* The retry heals any order of registration for objects whose dependencies are at most
\* two deep: once the guard is done they are as the test found them.
THEOREM RetryHeals == Spec => []Restored
  <1>1. PICK Free \in SUBSET Object : TwoDeep(Free)
    BY ShallowAssumption
  <1> DEFINE Inv == ~habit.ordered /\ ~habit.lying => HealInv(Free)
  <1>2. Init => Inv
    BY LateInit DEF HealInv, Init
  <1>3. Inv /\ [Next]_vars => Inv'
    BY <1>1, HealStep, HabitFrame
  <1>4. Inv => Restored
    BY DEF HealInv, Restored, Away
  <1> QED
    BY <1>2, <1>3, <1>4, PTL DEF Spec
=============================================================================

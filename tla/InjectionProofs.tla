-------------------------- MODULE InjectionProofs --------------------------
(***************************************************************************)
(* Proofs about what is injected into the switch's own daemons: objects    *)
(* into syncd's queue (DlbInject: any groups, members, next hops and       *)
(* number of readings of quiesce), and faults into the BMC chain           *)
(* (PmonChain, with the services of Servers: any bounds).                  *)
(*                                                                         *)
(* DlbInject.  NamesInv carries syncd's survival: whatever an operation on *)
(* its way names is in the chip and no operation before it removes it.     *)
(* ReplyInv carries orchagent's: the response queue holds either its own   *)
(* response or what the call at hand will pop.  LeftInv, on top of it,     *)
(* carries cleanup: everything in the chip is recorded, groups before      *)
(* members.                                                                *)
(*                                                                         *)
(* PmonChain.  LifeInv says where the thread of each kind of service can   *)
(* be and what it holds, StopInv what stop() has done by each stage.       *)
(* JobsInv makes the jobs still to do a suffix of a plan of the code, and  *)
(* CleanInv says what each suffix has already restored.                    *)
(***************************************************************************)
EXTENDS DlbInject, PmonChain, SequenceTheorems, TLAPS

-----------------------------------------------------------------------------
(* Lists of objects.                                                       *)

\* x stands before y in s.
Before(s, x, y) == \E i, j \in 1..Len(s) : i < j /\ s[i] = x /\ s[j] = y

LEMMA AppendList ==
    ASSUME NEW T, NEW s \in Seq(T), NEW x \in T
    PROVE  /\ Append(s, x) \in Seq(T)
           /\ \A y : Contains(Append(s, x), y) <=> Contains(s, y) \/ y = x
           /\ IsInjective(s) /\ ~Contains(s, x) => IsInjective(Append(s, x))
           /\ \A a, b : Before(s, a, b) => Before(Append(s, x), a, b)
           /\ \A a : Contains(s, a) => Before(Append(s, x), a, x)
<1> DEFINE t == Append(s, x)
           n == Len(s)
<1>1. /\ t \in Seq(T) /\ n \in Nat /\ Len(t) = n + 1 /\ t[n + 1] = x
      /\ \A i \in 1..n : t[i] = s[i]
  OBVIOUS
<1>2. DOMAIN t = 1..(n + 1) /\ DOMAIN s = 1..n
  BY <1>1
<1> HIDE DEF t
<1>3. \A y : Contains(t, y) <=> Contains(s, y) \/ y = x
  BY <1>1 DEF Contains
<1>4. IsInjective(s) /\ ~Contains(s, x) => IsInjective(t)
  BY <1>1, <1>2 DEF IsInjective, Contains
<1>5. \A a, b : Before(s, a, b) => Before(t, a, b)
  BY <1>1 DEF Before
<1>6. \A a : Contains(s, a) => Before(t, a, x)
  BY <1>1 DEF Before, Contains
<1> QED
  BY <1>1, <1>3, <1>4, <1>5, <1>6 DEF t

LEMMA TailList ==
    ASSUME NEW T, NEW s \in Seq(T), s # <<>>, IsInjective(s)
    PROVE  /\ Tail(s) \in Seq(T) /\ Head(s) \in T /\ IsInjective(Tail(s))
           /\ \A y : Contains(Tail(s), y) <=> Contains(s, y) /\ y # Head(s)
           /\ Contains(s, Head(s)) /\ \A a : ~Before(s, a, Head(s))
           /\ \A a, b : Before(s, a, b) /\ a # Head(s) => Before(Tail(s), a, b)
<1> DEFINE t == Tail(s)
           n == Len(s)
<1>1. /\ t \in Seq(T) /\ n \in Nat /\ n > 0 /\ Len(t) = n - 1 /\ s[1] = Head(s) /\ Head(s) \in T
      /\ \A i \in 1..(n - 1) : t[i] = s[i + 1]
  OBVIOUS
<1>2. DOMAIN t = 1..(n - 1) /\ DOMAIN s = 1..n
  BY <1>1
<1>3. \A i, j \in 1..n : s[i] = s[j] => i = j
  BY <1>2 DEF IsInjective
<1> HIDE DEF t
<1>4. IsInjective(t)
  BY <1>1, <1>2, <1>3 DEF IsInjective
<1>5. \A y : Contains(t, y) <=> Contains(s, y) /\ y # Head(s)
  <2> SUFFICES ASSUME NEW y PROVE Contains(t, y) <=> Contains(s, y) /\ y # Head(s)
    OBVIOUS
  <2>1. ASSUME Contains(t, y) PROVE Contains(s, y) /\ y # Head(s)
    <3>1. PICK i \in 1..(n - 1) : t[i] = y
      BY <1>1, <2>1 DEF Contains
    <3>2. i + 1 \in 1..n /\ i + 1 # 1 /\ s[i + 1] = y
      BY <1>1, <3>1
    <3> QED
      BY <1>1, <1>3, <3>2 DEF Contains
  <2>2. ASSUME Contains(s, y), y # Head(s) PROVE Contains(t, y)
    <3>1. PICK i \in 1..n : s[i] = y /\ i # 1
      BY <1>1, <2>2 DEF Contains
    <3>2. i - 1 \in 1..(n - 1) /\ t[i - 1] = y
      BY <1>1, <3>1
    <3> QED
      BY <1>1, <3>2 DEF Contains
  <2> QED
    BY <2>1, <2>2
<1>6. Contains(s, Head(s)) /\ \A a : ~Before(s, a, Head(s))
  <2>1. 1 \in 1..n
    BY <1>1
  <2>2. \A i, j \in 1..n : i < j => s[j] # Head(s)
    BY <1>1, <1>3, <2>1
  <2> QED
    BY <1>1, <2>1, <2>2 DEF Contains, Before
<1>7. \A a, b : Before(s, a, b) /\ a # Head(s) => Before(t, a, b)
  <2> SUFFICES ASSUME NEW a, NEW b, Before(s, a, b), a # Head(s) PROVE Before(t, a, b)
    OBVIOUS
  <2>1. PICK i, j \in 1..n : i < j /\ s[i] = a /\ s[j] = b
    BY DEF Before
  <2>2. i # 1
    BY <1>1, <2>1
  <2>3. i - 1 \in 1..Len(t) /\ j - 1 \in 1..Len(t) /\ i - 1 < j - 1 /\ t[i - 1] = a /\ t[j - 1] = b
    BY <1>1, <2>1, <2>2
  <2> QED
    BY <2>3 DEF Before
<1> QED
  BY <1>1, <1>4, <1>5, <1>6, <1>7 DEF t

LEMMA ReverseList ==
    ASSUME NEW T, NEW s \in Seq(T), IsInjective(s)
    PROVE  /\ Reverse(s) \in Seq(T) /\ IsInjective(Reverse(s))
           /\ \A y : Contains(Reverse(s), y) <=> Contains(s, y)
           /\ \A a, b : Before(s, a, b) => Before(Reverse(s), b, a)
<1> DEFINE t == Reverse(s)
           n == Len(s)
<1>1. n \in Nat /\ \A i \in 1..n : s[i] \in T
  OBVIOUS
<1>2. t = [i \in 1..n |-> s[(n - i) + 1]]
  BY DEF Reverse
<1>3. t \in Seq(T) /\ Len(t) = n
  <2>1. t \in [1..n -> T]
    BY <1>1, <1>2
  <2> QED
    BY <1>1, <2>1, SeqDef
<1>4. DOMAIN t = 1..n /\ DOMAIN s = 1..n
  BY <1>3
<1>5. \A i \in 1..n : (n - i) + 1 \in 1..n /\ t[i] = s[(n - i) + 1] /\ t[(n - i) + 1] = s[i]
  BY <1>1, <1>2
<1> HIDE DEF t
<1>6. IsInjective(t)
  BY <1>1, <1>4, <1>5 DEF IsInjective
<1>7. \A y : Contains(t, y) <=> Contains(s, y)
  BY <1>3, <1>5 DEF Contains
<1>8. \A a, b : Before(s, a, b) => Before(t, b, a)
  <2> SUFFICES ASSUME NEW a, NEW b, Before(s, a, b) PROVE Before(t, b, a)
    OBVIOUS
  <2>1. PICK i, j \in 1..n : i < j /\ s[i] = a /\ s[j] = b
    BY DEF Before
  <2>2. (n - j) + 1 < (n - i) + 1
    BY <1>1, <2>1
  <2>3. t[(n - j) + 1] = b /\ t[(n - i) + 1] = a
    BY <1>5, <2>1
  <2>4. (n - j) + 1 \in 1..Len(t) /\ (n - i) + 1 \in 1..Len(t)
    BY <1>3, <1>5, <2>1
  <2> QED
    BY <2>2, <2>3, <2>4 DEF Before
<1> QED
  BY <1>3, <1>6, <1>7, <1>8 DEF t

LEMMA WithoutList ==
    ASSUME NEW T, NEW s \in Seq(T), IsInjective(s), NEW v
    PROVE  /\ Without(s, v) \in Seq(T) /\ IsInjective(Without(s, v))
           /\ \A y : Contains(Without(s, v), y) <=> Contains(s, y) /\ y # v
           /\ \A a, b : Before(s, a, b) /\ a # v /\ b # v => Before(Without(s, v), a, b)
<1> DEFINE n == Len(s)
           k == CHOOSE i \in 1..n : s[i] = v
           t == RemoveAt(s, k)
<1>1. CASE ~Contains(s, v)
  BY <1>1 DEF Without
<1>2. CASE Contains(s, v)
  <2>1. k \in 1..n /\ s[k] = v
    BY <1>2 DEF Contains
  <2> HIDE DEF k
  <2>2. n \in Nat /\ DOMAIN s = 1..n /\ \A i, j \in 1..n : s[i] = s[j] => i = j
    BY DEF IsInjective
  <2>3. /\ t \in Seq(T) /\ Len(t) = n - 1
        /\ \A i \in 1..(n - 1) : t[i] = IF i < k THEN s[i] ELSE s[i + 1]
    <3> DEFINE a == SubSeq(s, 1, k - 1)
               b == SubSeq(s, k + 1, n)
    <3>1. a \in Seq(T) /\ Len(a) = k - 1 /\ \A i \in 1..(k - 1) : a[i] = s[i]
      BY <2>1, <2>2
    <3>2. b \in Seq(T) /\ Len(b) = n - k /\ \A i \in 1..(n - k) : b[i] = s[k + i]
      <4>1. k + 1 \in Int /\ n \in Int /\ \A i \in (k + 1)..n : s[i] \in T
        BY <2>1, <2>2
      <4>2. /\ b \in Seq(T) /\ Len(b) = IF k + 1 <= n THEN n - (k + 1) + 1 ELSE 0
            /\ \A i \in 1..(n - (k + 1) + 1) : b[i] = s[(k + 1) + i - 1]
        BY <4>1, SubSeqProperties
      <4>3. ASSUME NEW x \in Nat, NEW y \in 1..x
            PROVE  /\ x - (y + 1) + 1 = x - y /\ (y + 1 <= x \/ x - y = 0)
                   /\ \A i \in 1..(x - y) : (y + 1) + i - 1 = y + i
        OBVIOUS
      <4>4. n - (k + 1) + 1 = n - k /\ (k + 1 <= n \/ n - k = 0)
            /\ \A i \in 1..(n - k) : (k + 1) + i - 1 = k + i
        BY <2>1, <2>2, <4>3
      <4> HIDE DEF b
      <4> QED
        BY <4>2, <4>4
    <3>3. t = a \o b
      BY DEF RemoveAt
    <3> HIDE DEF a, b
    <3>4. /\ a \o b \in Seq(T) /\ Len(a \o b) = n - 1
          /\ \A i \in 1..(n - 1) : (a \o b)[i] = IF i <= k - 1 THEN a[i] ELSE b[i - (k - 1)]
      <4>1. Len(a) + Len(b) = n - 1 /\ k - 1 \in Nat
        BY <2>1, <2>2, <3>1, <3>2
      <4>2. /\ a \o b \in Seq(T) /\ Len(a \o b) = Len(a) + Len(b)
            /\ \A i \in 1..(Len(a) + Len(b)) : (a \o b)[i] = IF i <= Len(a) THEN a[i] ELSE b[i - Len(a)]
        BY <3>1, <3>2, ConcatProperties
      <4> QED
        BY <3>1, <4>1, <4>2
    <3> QED
      BY <2>1, <2>2, <3>1, <3>2, <3>3, <3>4
  <2>4. DOMAIN t = 1..(n - 1)
    BY <2>3
  <2> HIDE DEF t
  <2>5. \A i \in 1..n : i # k => LET j == IF i < k THEN i ELSE i - 1
                                  IN  j \in 1..(n - 1) /\ t[j] = s[i]
    BY <2>1, <2>2, <2>3
  <2>6. IsInjective(t)
    BY <2>1, <2>2, <2>3, <2>4 DEF IsInjective
  <2>7. \A y : Contains(t, y) <=> Contains(s, y) /\ y # v
    <3> SUFFICES ASSUME NEW y PROVE Contains(t, y) <=> Contains(s, y) /\ y # v
      OBVIOUS
    <3>1. ASSUME Contains(t, y) PROVE Contains(s, y) /\ y # v
      <4>1. PICK i \in 1..(n - 1) : t[i] = y
        BY <2>3, <3>1 DEF Contains
      <4>2. PICK j \in 1..n : j # k /\ s[j] = y
        <5>1. CASE i < k
          BY <2>1, <2>2, <2>3, <4>1, <5>1
        <5>2. CASE ~(i < k)
          <6>1. i + 1 \in 1..n /\ i + 1 # k /\ s[i + 1] = y
            BY <2>1, <2>2, <2>3, <4>1, <5>2
          <6> QED
            BY <6>1
        <5> QED
          BY <5>1, <5>2
      <4>3. y # v
        BY <2>1, <2>2, <4>2
      <4> QED
        BY <4>2, <4>3 DEF Contains
    <3>2. ASSUME Contains(s, y), y # v PROVE Contains(t, y)
      BY <2>1, <2>3, <2>5, <3>2 DEF Contains
    <3> QED
      BY <3>1, <3>2
  <2>8. \A a, b : Before(s, a, b) /\ a # v /\ b # v => Before(t, a, b)
    <3> SUFFICES ASSUME NEW a, NEW b, Before(s, a, b), a # v, b # v PROVE Before(t, a, b)
      OBVIOUS
    <3>1. PICK i, j \in 1..n : i < j /\ s[i] = a /\ s[j] = b
      BY DEF Before
    <3>2. i # k /\ j # k
      BY <2>1, <3>1
    <3> DEFINE i2 == IF i < k THEN i ELSE i - 1
               j2 == IF j < k THEN j ELSE j - 1
    <3>3. i2 \in 1..Len(t) /\ j2 \in 1..Len(t) /\ t[i2] = a /\ t[j2] = b
      BY <2>3, <2>5, <3>1, <3>2
    <3>4. i2 < j2
      BY <2>1, <2>2, <3>1, <3>2
    <3> QED
      BY <3>3, <3>4 DEF Before
  <2>9. Without(s, v) = t
    BY <1>2 DEF Without, t, k
  <2> QED
    BY <2>3, <2>6, <2>7, <2>8, <2>9
<1> QED
  BY <1>1, <1>2

-----------------------------------------------------------------------------
(* Types, and a VID is used once.                                          *)

\* What is ever sent: the test creates and removes its own objects, orchagent does the
\* rest, and only a member names a group and a next hop.
Real ==
    {o \in Op : /\ o.op \in {"create", "remove"} <=> o.who = "inj"
                /\ o.who = "inj" => o.vid \in Vid
                /\ o.op # "create" => o.group = NoObj /\ o.nh = NoObj
                /\ o.group # NoObj => o.vid \in Member}

QueueTypes ==
    asicQ \in Seq(Real) /\ respQ \in Seq({"inj", "orch"}) /\ work \in Real \cup {NoOp}
ChipTypes == rids \subseteq Vid /\ nhs \subseteq NextHop /\ memberOf \in [Member -> Group \cup {NoObj}]
DaemonTypes ==
    syncd \in {"up", "dead"} /\ orch \in {"idle", "waiting", "crashed"} /\ bulks \in 0..MaxBulk
CallTypes ==
    /\ pc \in {"idle", "pollAsic", "pollResp", "push", "reap", "pop", "check"}
    /\ cur \in Real \cup {NoOp} /\ seen \in 0..(Stable - 1) /\ pops \in 0..3
    /\ pc = "pop" => pops > 0
TestTypes ==
    /\ created \in Seq(Vid) /\ fresh \subseteq Vid /\ queue \in Seq(Vid)
    /\ phase \in {"test", "cleanup", "done"} /\ mishap \subseteq Mishap

\* A VID is fresh, or is in the hands of one call, or is recorded once.
UseInv ==
    /\ IsInjective(created) /\ IsInjective(queue)
    /\ phase = "test" => queue = <<>>
    /\ \A v \in fresh : ~Contains(created, v) /\ ~Contains(queue, v)
    /\ pc # "idle" => /\ cur \in Real /\ cur.who = "inj" /\ cur.vid \notin fresh
                      /\ ~Contains(queue, cur.vid)
                      /\ cur.op = "create" => ~Contains(created, cur.vid)

TypeInv == QueueTypes /\ ChipTypes /\ DaemonTypes /\ CallTypes /\ TestTypes /\ UseInv

\* The operations the test and orchagent send.
CreateOp(v) == [NoOp EXCEPT !.op = "create", !.vid = v]
MemberOp(m, g, n) == [NoOp EXCEPT !.op = "create", !.vid = m, !.group = g, !.nh = n]
RemoveOp(v) == [NoOp EXCEPT !.op = "remove", !.vid = v]
BulkOp == [NoOp EXCEPT !.who = "orch", !.op = "bulk"]
GoneOp(n) == [NoOp EXCEPT !.who = "orch", !.op = "nhgone", !.vid = n]

LEMMA OpFields ==
    /\ NoOp.op = "bulk" /\ NoOp.who = "inj" /\ NoOp.group = NoObj /\ NoOp.nh = NoObj
    /\ BulkOp.op = "bulk" /\ BulkOp.who = "orch" /\ BulkOp.group = NoObj /\ BulkOp.nh = NoObj
    /\ \A v : /\ CreateOp(v).op = "create" /\ CreateOp(v).who = "inj" /\ CreateOp(v).vid = v
              /\ CreateOp(v).group = NoObj /\ CreateOp(v).nh = NoObj
    /\ \A v : /\ RemoveOp(v).op = "remove" /\ RemoveOp(v).who = "inj" /\ RemoveOp(v).vid = v
              /\ RemoveOp(v).group = NoObj /\ RemoveOp(v).nh = NoObj
    /\ \A m, g, n : /\ MemberOp(m, g, n).op = "create" /\ MemberOp(m, g, n).who = "inj"
                    /\ MemberOp(m, g, n).vid = m /\ MemberOp(m, g, n).group = g
                    /\ MemberOp(m, g, n).nh = n
    /\ \A n : /\ GoneOp(n).op = "nhgone" /\ GoneOp(n).who = "orch" /\ GoneOp(n).vid = n
              /\ GoneOp(n).group = NoObj /\ GoneOp(n).nh = NoObj
BY DEF NoOp, BulkOp, CreateOp, RemoveOp, MemberOp, GoneOp

LEMMA OpTypes ==
    /\ NoOp \in Op \ Real /\ BulkOp \in Real
    /\ \A v \in Vid : CreateOp(v) \in Real /\ RemoveOp(v) \in Real
    /\ \A m \in Member, g \in Group, n \in NextHop : MemberOp(m, g, n) \in Real
    /\ \A n \in NextHop : GoneOp(n) \in Real
<1>1. NoOp \in Op /\ BulkOp \in Op
  BY DEF Op, Obj, NoOp, BulkOp
<1>2. \A v \in Vid : CreateOp(v) \in Op /\ RemoveOp(v) \in Op
  BY DEF Op, Obj, NoOp, CreateOp, RemoveOp
<1>3. \A m \in Member, g \in Group, n \in NextHop : MemberOp(m, g, n) \in Op
  BY DEF Op, Obj, Vid, NoOp, MemberOp
<1>4. \A n \in NextHop : GoneOp(n) \in Op
  BY DEF Op, Obj, NoOp, GoneOp
<1> QED
  BY <1>1, <1>2, <1>3, <1>4, OpFields DEF Real, Vid

LEMMA TypeParts == TypeInv => TypeOK
<1> SUFFICES ASSUME TypeInv PROVE TypeOK
  OBVIOUS
<1>1. Real \cup {NoOp} \subseteq Op
  BY OpTypes DEF Real
<1>2. asicQ \in Seq(Op) /\ work \in Op /\ cur \in Op
  BY <1>1 DEF TypeInv, QueueTypes, CallTypes
<1> QED
  BY <1>2 DEF TypeInv, TypeOK, QueueTypes, ChipTypes, DaemonTypes, CallTypes, TestTypes, UseInv

LEMMA TypeInit == Init => TypeInv
<1> SUFFICES ASSUME Init PROVE TypeInv
  OBVIOUS
<1>1. QueueTypes /\ DaemonTypes
  BY OpTypes, DlbAssumption DEF Init, QueueTypes, DaemonTypes
<1>2. ChipTypes
  BY DEF Init, ChipTypes
<1>3. CallTypes
  BY OpTypes, DlbAssumption DEF Init, CallTypes
<1>4. TestTypes
  BY DEF Init, TestTypes
<1>5. UseInv
  BY DEF Init, UseInv, IsInjective, Contains
<1> QED
  BY <1>1, <1>2, <1>3, <1>4, <1>5 DEF TypeInv

\* The steps that begin a call.
Starts ==
    \/ \E g \in Group : CreateGroup(g)
    \/ \E m \in Member, g \in Group, n \in NextHop : AddMember(m, g, n)
    \/ \E v \in Vid : RemoveByTest(v)

LEMMA QueueStep == TypeInv /\ [Next]_vars => QueueTypes'
<1> SUFFICES ASSUME TypeInv, [Next]_vars PROVE QueueTypes'
  OBVIOUS
<1> USE DEF TypeInv, QueueTypes
<1>1. CASE LPush
  BY <1>1 DEF LPush, UseInv
<1>2. CASE SyncdTake
  BY <1>2 DEF SyncdTake
<1>3. CASE OrchBulk
  <2>1. asicQ' = Append(asicQ, BulkOp)
    BY <1>3 DEF OrchBulk, BulkOp
  <2> QED
    BY <1>3, <2>1, OpTypes DEF OrchBulk
<1>4. ASSUME NEW n \in NextHop, NhGone(n) PROVE QueueTypes'
  <2>1. asicQ' = Append(asicQ, GoneOp(n))
    BY <1>4 DEF NhGone, GoneOp
  <2> QED
    BY <1>4, <2>1, OpTypes DEF NhGone
<1>5. CASE RPop
  BY <1>5 DEF RPop
<1>6. CASE SyncdDone
  <2>1. \A w \in {"inj", "orch"} : respQ \o <<w, w, w>> \in Seq({"inj", "orch"})
    OBVIOUS
  <2>2. respQ' \in Seq({"inj", "orch"}) /\ work' = NoOp /\ asicQ' = asicQ
    BY <1>6, <2>1 DEF SyncdDone, Respond
  <2> QED
    BY <2>2, OpTypes
<1>7. CASE OrchTake
  <2> DEFINE n == IF Len(respQ) < 3 THEN Len(respQ) ELSE 3
  <2>1. n \in Nat /\ n <= Len(respQ) /\ respQ' = SubSeq(respQ, n + 1, Len(respQ))
    BY <1>7 DEF OrchTake
  <2> HIDE DEF n
  <2>2. \A i \in (n + 1)..Len(respQ) : respQ[i] \in {"inj", "orch"}
    BY <2>1
  <2>3. respQ' \in Seq({"inj", "orch"})
    BY <2>1, <2>2, SubSeqProperties
  <2> QED
    BY <1>7, <2>3 DEF OrchTake
<1>8. CASE UNCHANGED redisVars
  BY <1>8 DEF redisVars
<1>9. CASE UNCHANGED vars
  BY <1>9 DEF vars
<1> QED
  BY <1>1, <1>2, <1>3, <1>4, <1>5, <1>6, <1>7, <1>8, <1>9
     DEF Next, Push, CreateGroup, AddMember, RemoveByTest, StartCleanup, RemoveByCleanup,
         EndCleanup, PollAsic, PollResp, QuiesceTimeout, ReapSeen, ReapTimeout, WaitRid, Forget,
         SyncdDies, OrchTimeout

\* Only syncd changes the chip.
LEMMA ChipFrame == [Next]_vars => SyncdDone \/ UNCHANGED chipVars
BY DEF Next, vars, chipVars, Push, CreateGroup, AddMember, RemoveByTest, StartCleanup, RemoveByCleanup,
       EndCleanup, PollAsic, PollResp, QuiesceTimeout, LPush, ReapSeen, RPop, ReapTimeout, WaitRid,
       Forget, SyncdTake, SyncdDies, OrchBulk, OrchTake, OrchTimeout, NhGone

LEMMA ChipStep == TypeInv /\ [Next]_vars => ChipTypes'
<1> SUFFICES ASSUME TypeInv, [Next]_vars PROVE ChipTypes'
  OBVIOUS
<1>1. CASE SyncdDone
  <2>1. work \in Real
    BY <1>1 DEF SyncdDone, TypeInv, QueueTypes
  <2>2. work.op = "create" => work.vid \in Vid
    BY <2>1 DEF Real
  <2>3. work.group \in Group \cup {NoObj}
    BY <2>1 DEF Real, Op
  <2> QED
    BY <1>1, <2>2, <2>3 DEF SyncdDone, TypeInv, ChipTypes, chipVars
<1>2. CASE UNCHANGED chipVars
  BY <1>2 DEF chipVars, TypeInv, ChipTypes
<1> QED
  BY <1>1, <1>2, ChipFrame

LEMMA DaemonStep == TypeInv /\ [Next]_vars => DaemonTypes'
<1> SUFFICES ASSUME TypeInv, [Next]_vars PROVE DaemonTypes'
  OBVIOUS
<1> USE DEF TypeInv, DaemonTypes
<1>1. CASE SyncdDies \/ OrchTimeout
  BY <1>1 DEF SyncdDies, OrchTimeout
<1>2. CASE OrchBulk
  BY <1>2, DlbAssumption DEF OrchBulk
<1>3. CASE OrchTake
  <2>1. orch' \in {"idle", "crashed"} /\ syncd' = syncd /\ bulks' = bulks
    BY <1>3 DEF OrchTake
  <2> QED
    BY <2>1
<1>4. CASE UNCHANGED daemonVars
  BY <1>4 DEF daemonVars
<1>5. CASE UNCHANGED vars
  BY <1>5 DEF vars
<1> QED
  BY <1>1, <1>2, <1>3, <1>4, <1>5
     DEF Next, Push, CreateGroup, AddMember, RemoveByTest, StartCleanup, RemoveByCleanup,
         EndCleanup, PollAsic, PollResp, QuiesceTimeout, LPush, ReapSeen, RPop, ReapTimeout, WaitRid,
         Forget, SyncdTake, SyncdDone, NhGone

\* A mishap stays on the record.
LEMMA MishapGrows ==
    [Next]_vars => mishap \subseteq mishap' /\ (mishap \subseteq Mishap => mishap' \subseteq Mishap)
BY DEF Mishap, Next, vars, Push, CreateGroup, AddMember, RemoveByTest, StartCleanup, RemoveByCleanup,
       EndCleanup, PollAsic, PollResp, QuiesceTimeout, LPush, ReapSeen, RPop, ReapTimeout, WaitRid,
       Forget, SyncdTake, SyncdDone, SyncdDies, OrchBulk, OrchTake, OrchTimeout, NhGone

\* A step that begins a call sends an operation of the test, on a VID that no other
\* call has.
LEMMA StartCalls ==
    ASSUME TypeInv, Starts
    PROVE  /\ phase = "test" /\ pc = "idle"
           /\ pc' = "pollAsic" /\ seen' = 0 /\ pops' = pops
           /\ cur' \in Real /\ cur'.who = "inj"
           /\ cur'.op = "create" => cur'.vid \in fresh /\ fresh' = fresh \ {cur'.vid}
           /\ cur'.op = "remove" => Contains(created, cur'.vid) /\ fresh' = fresh
           /\ UNCHANGED <<created, queue, phase>>
<1>1. ASSUME NEW g \in Group, CreateGroup(g)
      PROVE  cur' = CreateOp(g) /\ g \in fresh /\ fresh' = fresh \ {g}
  BY <1>1 DEF CreateGroup, Begin, CreateOp
<1>2. ASSUME NEW m \in Member, NEW g \in Group, NEW n \in NextHop, AddMember(m, g, n)
      PROVE  cur' = MemberOp(m, g, n) /\ m \in fresh /\ fresh' = fresh \ {m}
  BY <1>2 DEF AddMember, Begin, MemberOp
<1>3. ASSUME NEW v \in Vid, RemoveByTest(v)
      PROVE  cur' = RemoveOp(v) /\ Contains(created, v) /\ fresh' = fresh
  BY <1>3 DEF RemoveByTest, MayRemove, Begin, RemoveOp, testVars
<1>4. Group \subseteq Vid
  BY DEF Vid
<1>5. /\ phase = "test" /\ pc = "idle" /\ pc' = "pollAsic" /\ seen' = 0 /\ pops' = pops
      /\ UNCHANGED <<created, queue, phase>>
  BY DEF Starts, CreateGroup, AddMember, RemoveByTest, Begin, testVars
<1> QED
  BY <1>1, <1>2, <1>3, <1>4, <1>5, OpTypes, OpFields DEF Starts

\* cleanup goes to the next object: there is one to remove, or it is gone already.
LEMMA CleanupCalls ==
    ASSUME TypeInv, RemoveByCleanup
    PROVE  /\ phase = "cleanup" /\ pc = "idle" /\ pops' = pops
           /\ queue # <<>> /\ queue' = Tail(queue) /\ Head(queue) \in Vid
           /\ \/ Head(queue) \in rids /\ cur' = RemoveOp(Head(queue)) /\ pc' = "pollAsic" /\ seen' = 0
              \/ Head(queue) \notin rids /\ cur' = cur /\ pc' = "idle" /\ seen' = seen
           /\ UNCHANGED <<created, fresh, phase>>
<1>1. Head(queue) \in Vid
  BY DEF RemoveByCleanup, TypeInv, TestTypes
<1> QED
  BY <1>1 DEF RemoveByCleanup, Begin, RemoveOp, callVars

LEMMA CallStep == TypeInv /\ [Next]_vars => CallTypes'
<1> SUFFICES ASSUME TypeInv, [Next]_vars PROVE CallTypes'
  OBVIOUS
<1>0. 0 \in 0..(Stable - 1) /\ Stable \in Nat
  BY DlbAssumption
<1>1. CASE Starts
  BY <1>0, <1>1, StartCalls DEF TypeInv, CallTypes
<1>2. CASE RemoveByCleanup
  BY <1>0, <1>2, CleanupCalls, OpTypes DEF TypeInv, CallTypes
<1> USE DEF TypeInv, CallTypes
<1>3. CASE PollAsic
  BY <1>0, <1>3 DEF PollAsic
<1>4. CASE PollResp
  BY <1>0, <1>4 DEF PollResp
<1>5. CASE QuiesceTimeout \/ LPush \/ ReapTimeout \/ WaitRid \/ Forget
  BY <1>5 DEF QuiesceTimeout, LPush, ReapTimeout, WaitRid, Forget
<1>6. CASE ReapSeen
  BY <1>6 DEF ReapSeen
<1>7. CASE RPop
  BY <1>7 DEF RPop
<1>8. CASE UNCHANGED callVars
  BY <1>8 DEF callVars
<1>9. CASE UNCHANGED vars
  BY <1>9 DEF vars
<1> QED
  BY <1>1, <1>2, <1>3, <1>4, <1>5, <1>6, <1>7, <1>8, <1>9
     DEF Next, Starts, Push, StartCleanup, EndCleanup, SyncdTake, SyncdDone, SyncdDies,
         OrchBulk, OrchTake, OrchTimeout, NhGone

LEMMA TestStep == TypeInv /\ [Next]_vars => TestTypes' /\ UseInv'
<1> SUFFICES ASSUME TypeInv, [Next]_vars PROVE TestTypes' /\ UseInv'
  OBVIOUS
<1>0. IsInjective(<<>>) /\ \A v : ~Contains(<<>>, v)
  BY DEF IsInjective, Contains
<1> mishap' \subseteq Mishap
  BY MishapGrows DEF TypeInv, TestTypes
<1>1. CASE Starts
  <2>1. cur'.op \in {"create", "remove"}
    BY <1>1, StartCalls DEF Real
  <2>2. TestTypes'
    <3>1. fresh' \subseteq fresh /\ UNCHANGED <<created, queue, phase>>
      BY <1>1, <2>1, StartCalls
    <3> QED
      BY <3>1 DEF TypeInv, TestTypes
  <2> QED
    BY <1>0, <1>1, <2>1, <2>2, StartCalls DEF TypeInv, UseInv
<1>2. CASE RemoveByCleanup
  <2>1. /\ Tail(queue) \in Seq(Vid) /\ IsInjective(Tail(queue)) /\ Contains(queue, Head(queue))
        /\ \A v : Contains(Tail(queue), v) <=> Contains(queue, v) /\ v # Head(queue)
    BY <1>2, CleanupCalls, TailList DEF TypeInv, TestTypes, UseInv
  <2>2. TestTypes'
    BY <1>2, <2>1, CleanupCalls DEF TypeInv, TestTypes
  <2>3. queue' = Tail(queue) /\ phase' # "test" /\ UNCHANGED <<created, fresh>>
    BY <1>2, CleanupCalls
  <2>4. pc' # "idle" => /\ cur' \in Real /\ cur'.who = "inj" /\ cur'.op = "remove"
                        /\ cur'.vid = Head(queue) /\ Head(queue) \notin fresh
    BY <1>2, <2>1, CleanupCalls, OpTypes, OpFields DEF TypeInv, UseInv
  <2>5. UseInv'
    BY <2>1, <2>3, <2>4 DEF TypeInv, UseInv
  <2> QED
    BY <2>2, <2>5
<1>3. /\ Reverse(created) \in Seq(Vid) /\ IsInjective(Reverse(created))
      /\ \A v : Contains(Reverse(created), v) <=> Contains(created, v)
  BY ReverseList DEF TypeInv, TestTypes, UseInv
<1>4. CASE StartCleanup
  BY <1>3, <1>4 DEF StartCleanup, callVars, TypeInv, TestTypes, UseInv
<1>5. CASE QuiesceTimeout
  <2>1. /\ pc' = "idle" /\ UNCHANGED <<created, fresh>>
        /\ \/ phase' = "cleanup" /\ queue' = Reverse(created)
           \/ phase # "test" /\ UNCHANGED <<phase, queue>>
    BY <1>5 DEF QuiesceTimeout
  <2> QED
    BY <1>3, <2>1 DEF TypeInv, TestTypes, UseInv
<1>6. CASE EndCleanup
  <2>1. pc' = "idle" /\ created' = <<>> /\ phase' = "done" /\ UNCHANGED <<fresh, queue>>
    BY <1>6 DEF EndCleanup, callVars
  <2> QED
    BY <1>0, <2>1 DEF TypeInv, TestTypes, UseInv
<1>7. CASE WaitRid
  <2>1. /\ pc = "check" /\ cur.op = "create" /\ pc' = "idle"
        /\ created' = created \/ created' = Append(created, cur.vid)
        /\ UNCHANGED <<fresh, queue, phase>>
    BY <1>7 DEF WaitRid
  <2>2. cur.vid \in Vid \ fresh /\ ~Contains(created, cur.vid)
    BY <2>1 DEF TypeInv, UseInv, Real
  <2>3. /\ Append(created, cur.vid) \in Seq(Vid) /\ IsInjective(Append(created, cur.vid))
        /\ \A v : Contains(Append(created, cur.vid), v) <=> Contains(created, v) \/ v = cur.vid
    BY <2>2, AppendList DEF TypeInv, TestTypes, UseInv
  <2> QED
    BY <2>1, <2>2, <2>3 DEF TypeInv, TestTypes, UseInv
<1>8. CASE Forget
  <2>1. pc' = "idle" /\ created' = Without(created, cur.vid) /\ UNCHANGED <<fresh, queue, phase>>
    BY <1>8 DEF Forget
  <2>2. /\ created' \in Seq(Vid) /\ IsInjective(created')
        /\ \A v : Contains(created', v) => Contains(created, v)
    BY <2>1, WithoutList DEF TypeInv, TestTypes, UseInv
  <2> QED
    BY <2>1, <2>2 DEF TypeInv, TestTypes, UseInv
<1>9. ASSUME UNCHANGED <<testVars, cur>>, pc' # "idle" => pc # "idle"
      PROVE  TestTypes' /\ UseInv'
  BY <1>9 DEF testVars, TypeInv, TestTypes, UseInv
<1>10. CASE PollAsic \/ PollResp \/ LPush \/ ReapSeen \/ RPop \/ ReapTimeout
  BY <1>9, <1>10 DEF PollAsic, PollResp, LPush, ReapSeen, RPop, ReapTimeout
<1>11. CASE UNCHANGED <<callVars, testVars>>
  BY <1>9, <1>11 DEF callVars
<1>12. CASE UNCHANGED vars
  BY <1>9, <1>12 DEF vars, testVars
<1> QED
  BY <1>1, <1>2, <1>4, <1>5, <1>6, <1>7, <1>8, <1>10, <1>11, <1>12
     DEF Next, Starts, Push, SyncdTake, SyncdDone, SyncdDies, OrchBulk, OrchTake, OrchTimeout, NhGone

LEMMA TypeStep == TypeInv /\ [Next]_vars => TypeInv'
BY QueueStep, ChipStep, DaemonStep, CallStep, TestStep DEF TypeInv

\* Type correctness; _created never holds an object twice.
THEOREM DlbTypes == Spec => []TypeOK
BY TypeInit, TypeStep, TypeParts, PTL DEF Spec

-----------------------------------------------------------------------------
(* The operations on their way: slot 0 is the one syncd is processing.     *)

Slots == 0..Len(asicQ)
Slot(i) == IF i = 0 THEN work ELSE asicQ[i]

LEMMA SlotTypes ==
    ASSUME TypeInv
    PROVE  /\ 0 \in Slots /\ Slots \subseteq Nat
           /\ \A i \in Slots : Slot(i) \in Real \cup {NoOp} /\ (i # 0 => Slot(i) \in Real)
BY DEF TypeInv, QueueTypes, Slots, Slot

LEMMA PushSlots ==
    ASSUME TypeInv, NEW op \in Real, asicQ' = Append(asicQ, op), work' = work,
           NEW n, n = Len(asicQ) + 1
    PROVE  /\ n \in Nat \ {0} /\ n \notin Slots /\ Slots' = Slots \cup {n}
           /\ \A i \in Slots : i < n /\ Slot(i)' = Slot(i)
           /\ Slot(n)' = op
<1>1. asicQ \in Seq(Real)
  BY DEF TypeInv, QueueTypes
<1>2. Len(asicQ) \in Nat /\ Len(asicQ') = n /\ asicQ'[n] = op /\ \A i \in 1..Len(asicQ) : asicQ'[i] = asicQ[i]
  BY <1>1
<1> QED
  BY <1>2 DEF Slots, Slot

LEMMA TakeSlots ==
    ASSUME TypeInv, SyncdTake
    PROVE  /\ Slot(0) = NoOp
           /\ \A i \in Slots' : i \in Nat /\ i + 1 \in Slots /\ Slot(i)' = Slot(i + 1)
           /\ \A i \in Slots : i # 0 => i - 1 \in Slots' /\ Slot(i - 1)' = Slot(i)
<1>1. asicQ \in Seq(Real) /\ asicQ # <<>> /\ asicQ' = Tail(asicQ) /\ work' = Head(asicQ) /\ work = NoOp
  BY DEF TypeInv, QueueTypes, SyncdTake
<1> DEFINE n == Len(asicQ)
<1>2. n \in Nat /\ n > 0 /\ Len(asicQ') = n - 1 /\ work' = asicQ[1]
      /\ \A i \in 1..(n - 1) : asicQ'[i] = asicQ[i + 1]
  BY <1>1
<1>3. \A i \in 0..(n - 1) : Slot(i)' = asicQ[i + 1]
  BY <1>2 DEF Slot
<1> HIDE DEF n
<1>4. Slots' = 0..(n - 1) /\ Slots = 0..n
  BY <1>2 DEF Slots, n
<1>5. \A i \in 0..n : i # 0 => i - 1 \in 0..(n - 1) /\ (i - 1) + 1 = i /\ Slot(i) = asicQ[i]
  BY <1>2 DEF Slot
<1>6. \A i \in 0..(n - 1) : i \in Nat /\ i + 1 \in 0..n /\ Slot(i + 1) = asicQ[i + 1]
  BY <1>2 DEF Slot
<1>7. \A i \in 0..n : i # 0 => i - 1 \in Slots' /\ Slot(i - 1)' = Slot(i)
  BY <1>3, <1>4, <1>5
<1> QED
  BY <1>1, <1>3, <1>4, <1>6, <1>7 DEF Slot

LEMMA DoneSlots ==
    ASSUME TypeInv, SyncdDone
    PROVE  /\ Slot(0) = work /\ work \in Real /\ Slots' = Slots /\ Slot(0)' = NoOp
           /\ \A i \in Slots : i # 0 => Slot(i)' = Slot(i)
<1>1. work' = NoOp /\ asicQ' = asicQ /\ work # NoOp
  BY DEF SyncdDone, Respond
<1> QED
  BY <1>1 DEF Slots, Slot, TypeInv, QueueTypes

LEMMA SameSlots ==
    ASSUME asicQ' = asicQ, work' = work
    PROVE  Slots' = Slots /\ \A i \in Slots : Slot(i)' = Slot(i)
BY DEF Slots, Slot

-----------------------------------------------------------------------------
(* syncd survives.                                                         *)

\* A remove of v is on its way.
Doomed(v) == \E i \in Slots : Slot(i).op = "remove" /\ Slot(i).vid = v

\* An operation about v is.
Going(v) == \E i \in Slots : Slot(i).vid = v

Sent == pc \in {"reap", "pop", "check"}

\* Operations on their way name objects that exist and will still exist when syncd
\* comes to them.
SlotNames ==
    /\ \A i \in Slots : Slot(i).nh # NoObj => Slot(i).nh \in nhs
    /\ \A i, j \in Slots :
          i < j /\ Slot(i).op = "nhgone" => Slot(j).nh = NoObj \/ Slot(j).nh # Slot(i).vid
    /\ \A i \in Slots : Slot(i).op = "remove" => Slot(i).vid \in rids
    /\ \A i, j \in Slots :
          Slot(i).op = "remove" /\ Slot(j).op = "remove" /\ Slot(i).vid = Slot(j).vid => i = j
    /\ \A i \in Slots : Slot(i).group # NoObj => Slot(i).group \in rids
    /\ \A i, j \in Slots :
          i < j /\ Slot(i).op = "remove" => Slot(j).group = NoObj \/ Slot(j).group # Slot(i).vid

\* So does the operation that is about to be pushed, ...
CurNames ==
    /\ Preparing /\ cur.op = "remove" => cur.vid \in rids /\ ~Doomed(cur.vid)
    /\ Preparing /\ cur.group # NoObj => cur.group \in rids /\ ~Doomed(cur.group)
    /\ Preparing /\ cur.nh # NoObj => cur.nh \in nhs /\ ~Going(cur.nh)
    /\ pc # "idle" /\ cur.op = "create" => ~Doomed(cur.vid)

\* ... and what the test has recorded is there and stays.
ListNames ==
    /\ \A v : Contains(created, v) =>
          \/ v \in rids /\ ~Doomed(v)
          \/ Sent /\ cur.op = "remove" /\ cur.vid = v
    /\ \A v : Contains(queue, v) \/ v \in fresh => ~Doomed(v)

NamesInv == TypeInv /\ syncd = "up" /\ SlotNames /\ CurNames /\ ListNames

\* syncd finds every object it is asked for.
LEMMA NamesKnown ==
    ASSUME NamesInv, work # NoOp
    PROVE  Known(work)
<1>1. 0 \in Slots /\ Slot(0) = work
  BY SlotTypes DEF NamesInv, Slot
<1> QED
  BY <1>1 DEF Known, NamesInv, SlotNames

LEMMA LeavingSlots ==
    ASSUME TypeInv, NEW n
    PROVE  Leaving(n) <=> Going(n)
<1>1. asicQ \in Seq(Real) /\ Len(asicQ) \in Nat /\ DOMAIN asicQ = 1..Len(asicQ)
  BY DEF TypeInv, QueueTypes
<1> QED
  BY <1>1 DEF Leaving, Going, Slots, Slot

\* With the operations, the chip and the use of a VID as they are, nothing changes.
LEMMA NamesSame ==
    ASSUME NamesInv, [Next]_vars, UNCHANGED <<asicQ, work, chipVars, syncd>>,
           CurNames' /\ ListNames'
    PROVE  NamesInv'
<1>1. TypeInv'
  BY TypeStep DEF NamesInv
<1>2. SlotNames'
  BY SameSlots DEF NamesInv, SlotNames, chipVars
<1> QED
  BY <1>1, <1>2 DEF NamesInv, chipVars

LEMMA NamesStart ==
    ASSUME NamesInv, Starts, [Next]_vars, "stale" \notin mishap'
    PROVE  NamesInv'
<1>1. UNCHANGED <<asicQ, work, chipVars, syncd>>
  BY DEF Starts, CreateGroup, AddMember, RemoveByTest, redisVars, daemonVars
<1>2. \A v : (Doomed(v)' <=> Doomed(v)) /\ (Going(v)' <=> Going(v))
  BY <1>1, SameSlots DEF Doomed, Going
<1>3. /\ pc = "idle" /\ pc' = "pollAsic" /\ UNCHANGED <<created, queue>> /\ fresh' \subseteq fresh
      /\ cur'.op \in {"create", "remove"}
      /\ cur'.op = "create" => cur'.vid \in fresh
      /\ cur'.op = "remove" => Contains(created, cur'.vid)
  <2>1. cur'.op \in {"create", "remove"}
    BY StartCalls DEF NamesInv, Real
  <2> QED
    BY <2>1, StartCalls DEF NamesInv
<1>4. /\ cur'.group # NoObj => Contains(created, cur'.group)
      /\ cur'.nh # NoObj => cur'.nh \in nhs /\ ~Going(cur'.nh)
  <2>1. ASSUME NEW g \in Group, CreateGroup(g) PROVE cur' = CreateOp(g)
    BY <2>1 DEF CreateGroup, Begin, CreateOp
  <2>2. ASSUME NEW m \in Member, NEW g \in Group, NEW n \in NextHop, AddMember(m, g, n)
        PROVE  cur' = MemberOp(m, g, n) /\ Contains(created, g) /\ n \in nhs /\ ~Going(n)
    <3>1. n \in nhs /\ ~Leaving(n)
      BY <2>2 DEF AddMember
    <3> QED
      BY <2>2, <3>1, LeavingSlots DEF AddMember, Begin, MemberOp, NamesInv
  <2>3. ASSUME NEW v \in Vid, RemoveByTest(v) PROVE cur' = RemoveOp(v)
    BY <2>3 DEF RemoveByTest, Begin, RemoveOp
  <2> QED
    BY <2>1, <2>2, <2>3, OpFields DEF Starts
<1>5. rids' = rids /\ nhs' = nhs
  BY <1>1 DEF chipVars
<1>6. \A v : Contains(created, v) => v \in rids /\ ~Doomed(v)
  BY <1>3 DEF NamesInv, ListNames, Sent
<1>7. CurNames'
  BY <1>2, <1>3, <1>4, <1>5, <1>6 DEF NamesInv, CurNames, ListNames, Preparing
<1>8. ListNames'
  BY <1>2, <1>3, <1>5, <1>6 DEF NamesInv, ListNames
<1> QED
  BY <1>1, <1>7, <1>8, NamesSame

\* The steps that move only the test's own state.
LEMMA NamesTest ==
    ASSUME NamesInv, [Next]_vars,
           \/ RemoveByCleanup \/ StartCleanup \/ EndCleanup \/ PollAsic \/ PollResp
           \/ QuiesceTimeout \/ ReapSeen \/ RPop \/ ReapTimeout \/ WaitRid \/ Forget
    PROVE  NamesInv'
<1>1. UNCHANGED <<asicQ, work, chipVars, syncd>>
  BY DEF RemoveByCleanup, StartCleanup, EndCleanup, PollAsic, PollResp, QuiesceTimeout, ReapSeen,
         RPop, ReapTimeout, WaitRid, Forget, redisVars, daemonVars
<1>2. \A v : (Doomed(v)' <=> Doomed(v)) /\ (Going(v)' <=> Going(v))
  BY <1>1, SameSlots DEF Doomed, Going
<1>3. rids' = rids /\ nhs' = nhs
  BY <1>1 DEF chipVars
<1>4. TypeInv
  BY DEF NamesInv
<1>5. \A v : ~Contains(<<>>, v)
  BY DEF Contains
<1>6. \A v : Contains(Reverse(created), v) <=> Contains(created, v)
  BY <1>4, ReverseList DEF TypeInv, TestTypes, UseInv
<1> USE DEF NamesInv, CurNames, ListNames, Preparing, Sent
<1>7. CASE RemoveByCleanup
  <2>1. /\ \A v : Contains(Tail(queue), v) => Contains(queue, v)
        /\ Contains(queue, Head(queue))
    BY <1>4, <1>7, CleanupCalls, TailList DEF TypeInv, TestTypes, UseInv
  <2>2. /\ pc = "idle" /\ queue' = Tail(queue) /\ UNCHANGED <<created, fresh>>
        /\ \/ pc' = "idle"
           \/ /\ pc' = "pollAsic" /\ Head(queue) \in rids /\ cur'.op = "remove"
              /\ cur'.vid = Head(queue) /\ cur'.group = NoObj /\ cur'.nh = NoObj
    BY <1>4, <1>7, CleanupCalls, OpFields
  <2>3. CurNames' /\ ListNames'
    BY <1>2, <1>3, <2>1, <2>2
  <2> QED
    BY <1>1, <2>3, NamesSame
<1>8. CASE StartCleanup
  <2>1. pc' = pc /\ cur' = cur /\ pc = "idle" /\ queue' = Reverse(created) /\ UNCHANGED <<created, fresh>>
    BY <1>8 DEF StartCleanup, callVars
  <2>2. CurNames' /\ ListNames'
    BY <1>2, <1>3, <1>6, <2>1
  <2> QED
    BY <1>1, <2>2, NamesSame
<1>9. CASE QuiesceTimeout
  <2>1. /\ pc = "pollAsic" /\ pc' = "idle" /\ UNCHANGED <<created, fresh>>
        /\ queue' = queue \/ queue' = Reverse(created)
    BY <1>9 DEF QuiesceTimeout
  <2>2. CurNames' /\ ListNames'
    BY <1>2, <1>3, <1>6, <2>1
  <2> QED
    BY <1>1, <2>2, NamesSame
<1>10. CASE EndCleanup
  <2>1. pc' = pc /\ cur' = cur /\ pc = "idle" /\ created' = <<>> /\ UNCHANGED <<queue, fresh>>
    BY <1>10 DEF EndCleanup, callVars
  <2>2. CurNames' /\ ListNames'
    BY <1>2, <1>3, <1>5, <2>1
  <2> QED
    BY <1>1, <2>2, NamesSame
<1>11. CASE PollAsic \/ PollResp \/ ReapSeen \/ RPop \/ ReapTimeout
  <2>1. /\ UNCHANGED <<cur, created, queue, fresh>> /\ pc # "idle" /\ pc' # "idle"
        /\ (Preparing /\ Preparing') \/ (Sent /\ Sent')
    BY <1>11 DEF PollAsic, PollResp, ReapSeen, RPop, ReapTimeout, testVars
  <2>2. CurNames' /\ ListNames'
    BY <1>2, <1>3, <2>1
  <2> QED
    BY <1>1, <2>2, NamesSame
<1>12. CASE WaitRid
  <2>1. /\ pc = "check" /\ cur.op = "create" /\ pc' = "idle" /\ UNCHANGED <<queue, fresh>>
        /\ created' = created \/ (cur.vid \in rids /\ created' = Append(created, cur.vid))
    BY <1>12 DEF WaitRid
  <2>2. \A v : Contains(Append(created, cur.vid), v) => Contains(created, v) \/ v = cur.vid
    <3>1. cur.vid \in Vid /\ created \in Seq(Vid)
      BY <1>4, <2>1 DEF TypeInv, TestTypes, UseInv, Real
    <3> QED
      BY <3>1, AppendList
  <2>3. CurNames' /\ ListNames'
    BY <1>2, <1>3, <2>1, <2>2
  <2> QED
    BY <1>1, <2>3, NamesSame
<1>13. CASE Forget
  <2>1. /\ pc = "check" /\ pc' = "idle" /\ UNCHANGED <<queue, fresh>>
        /\ created' = Without(created, cur.vid)
    BY <1>13 DEF Forget
  <2>2. \A v : Contains(created', v) => Contains(created, v) /\ v # cur.vid
    BY <1>4, <2>1, WithoutList DEF TypeInv, TestTypes, UseInv
  <2>3. CurNames' /\ ListNames'
    BY <1>2, <1>3, <2>1, <2>2
  <2> QED
    BY <1>1, <2>3, NamesSame
<1> QED
  BY <1>7, <1>8, <1>9, <1>10, <1>11, <1>12, <1>13

\* An operation joins the queue.
LEMMA NamesPush ==
    ASSUME NamesInv, [Next]_vars, "stale" \notin mishap',
           LPush \/ OrchBulk \/ \E x \in NextHop : NhGone(x)
    PROVE  NamesInv'
<1>1. TypeInv /\ TypeInv'
  BY TypeStep DEF NamesInv
<1>2. PICK op : /\ asicQ' = Append(asicQ, op) /\ work' = work
                /\ UNCHANGED <<rids, nhs, syncd, cur, created, queue, fresh>>
                /\ \/ op = cur /\ pc = "push" /\ pc' = "reap"
                   \/ op = BulkOp /\ pc' = pc
                   \/ \E x \in NextHop : /\ op = GoneOp(x) /\ pc' = pc
                                         /\ Preparing => cur.nh # x
  BY DEF LPush, OrchBulk, NhGone, BulkOp, GoneOp, chipVars, daemonVars, callVars, testVars
<1>3. op \in Real
  BY <1>1, <1>2, OpTypes DEF TypeInv, UseInv
<1> PICK n : n = Len(asicQ) + 1
  OBVIOUS
<1>4. /\ n \in Nat \ {0} /\ n \notin Slots /\ Slots' = Slots \cup {n}
      /\ \A i \in Slots : i < n /\ Slot(i)' = Slot(i)
      /\ Slot(n)' = op
  BY <1>1, <1>2, <1>3, PushSlots
<1>5. \A v : /\ Doomed(v)' <=> Doomed(v) \/ (op.op = "remove" /\ op.vid = v)
             /\ Going(v)' <=> Going(v) \/ op.vid = v
  BY <1>4 DEF Doomed, Going
<1>6. /\ op.op = "remove" => op.vid \in rids /\ ~Doomed(op.vid)
      /\ op.group # NoObj => op.group \in rids /\ ~Doomed(op.group)
      /\ op.nh # NoObj => op.nh \in nhs /\ ~Going(op.nh)
  <2>1. CASE op = cur /\ pc = "push"
    BY <1>1, <2>1 DEF NamesInv, CurNames, Preparing, TypeInv, UseInv, Real
  <2>2. CASE op = BulkOp \/ \E x \in NextHop : op = GoneOp(x)
    BY <2>2, OpFields
  <2> QED
    BY <1>2, <2>1, <2>2
<1>7. SlotNames'
  <2>1. Slots \subseteq Nat
    BY <1>1, SlotTypes
  <2>2. \A i \in Slots : /\ Slot(i).op = "remove" => Slot(i).vid # op.vid \/ op.op # "remove"
                         /\ Slot(i).op = "remove" => op.group = NoObj \/ Slot(i).vid # op.group
                         /\ op.nh = NoObj \/ op.nh # Slot(i).vid
    BY <1>6 DEF Doomed, Going
  <2>3. \A i, j \in Slots' : i < j => i \in Slots
    BY <1>4, <2>1
  <2> QED
    BY <1>2, <1>4, <1>6, <2>2, <2>3 DEF NamesInv, SlotNames
<1>8. CurNames' /\ ListNames'
  <2>1. CASE op = cur /\ pc = "push" /\ pc' = "reap"
    <3>1. ~Contains(queue, cur.vid) /\ cur.vid \notin fresh
      BY <1>1, <2>1 DEF TypeInv, UseInv
    <3> QED
      BY <1>2, <1>5, <2>1, <3>1 DEF NamesInv, CurNames, ListNames, Preparing, Sent
  <2>2. ASSUME op.op # "remove", pc' = pc, Preparing /\ cur.nh # NoObj => op.vid # cur.nh
        PROVE  CurNames' /\ ListNames'
    <3>1. \A v : Doomed(v)' <=> Doomed(v)
      BY <1>5, <2>2
    <3>2. Preparing' <=> Preparing
      BY <2>2 DEF Preparing
    <3>3. CurNames'
      BY <1>2, <1>5, <2>2, <3>1, <3>2 DEF NamesInv, CurNames
    <3> QED
      BY <1>2, <2>2, <3>1, <3>3 DEF NamesInv, ListNames, Sent
  <2>3. CASE op = BulkOp /\ pc' = pc
    <3>1. op.vid = NoObj
      BY <2>3 DEF BulkOp, NoOp
    <3> QED
      BY <2>2, <2>3, <3>1, OpFields
  <2>4. CASE \E x \in NextHop : op = GoneOp(x) /\ pc' = pc /\ (Preparing => cur.nh # x)
    BY <2>2, <2>4, OpFields
  <2> QED
    BY <1>2, <2>1, <2>3, <2>4
<1> QED
  BY <1>1, <1>2, <1>7, <1>8 DEF NamesInv

\* syncd takes an operation.
LEMMA NamesTake ==
    ASSUME NamesInv, [Next]_vars, SyncdTake
    PROVE  NamesInv'
<1>1. TypeInv /\ TypeInv'
  BY TypeStep DEF NamesInv
<1>2. UNCHANGED <<rids, nhs, syncd, pc, cur, created, queue, fresh>>
  BY DEF SyncdTake, chipVars, daemonVars, callVars, testVars
<1>3. /\ Slot(0) = NoOp
      /\ \A i \in Slots' : i \in Nat /\ i + 1 \in Slots /\ Slot(i)' = Slot(i + 1)
      /\ \A i \in Slots : i # 0 => i - 1 \in Slots' /\ Slot(i - 1)' = Slot(i)
  BY <1>1, TakeSlots
<1>4. \A v : Doomed(v)' <=> Doomed(v)
  <2>1. \A i \in Slots : Slot(i).op = "remove" => i # 0
    BY <1>3, OpFields
  <2> QED
    BY <1>3, <2>1 DEF Doomed
<1> \A v : Going(v)' => Going(v)
  BY <1>3 DEF Going
<1>5. SlotNames'
  <2>1. \A i, j \in Slots' : (i + 1 = j + 1 => i = j) /\ (i < j => i + 1 < j + 1)
    BY <1>3
  <2> QED
    BY <1>2, <1>3, <2>1 DEF NamesInv, SlotNames
<1>6. CurNames' /\ ListNames'
  BY <1>2, <1>4 DEF NamesInv, CurNames, ListNames, Preparing, Sent
<1> QED
  BY <1>1, <1>2, <1>5, <1>6 DEF NamesInv

\* syncd finishes one: what it removes, nobody names any more.
LEMMA NamesDone ==
    ASSUME NamesInv, [Next]_vars, SyncdDone
    PROVE  NamesInv'
<1>1. TypeInv /\ TypeInv'
  BY TypeStep DEF NamesInv
<1>2. /\ Slot(0) = work /\ Slots' = Slots /\ Slot(0)' = NoOp
      /\ \A i \in Slots : i # 0 => Slot(i)' = Slot(i)
      /\ 0 \in Slots /\ Slots \subseteq Nat
  BY <1>1, DoneSlots, SlotTypes
<1>3. /\ UNCHANGED <<syncd, pc, cur, created, queue, fresh>>
      /\ \A v \in rids : v \in rids' \/ (work.op = "remove" /\ work.vid = v)
      /\ \A x \in nhs : x \in nhs' \/ (work.op = "nhgone" /\ work.vid = x)
  BY DEF SyncdDone, chipVars, daemonVars, callVars, testVars
<1>4. \A v : /\ Doomed(v)' => Doomed(v)
             /\ v # NoObj /\ Going(v)' => Going(v)
  <2>1. NoOp.vid = NoObj
    BY DEF NoOp
  <2> QED
    BY <1>2, <2>1, OpFields DEF Doomed, Going
<1>5. /\ \A v \in rids : ~Doomed(v) => v \in rids'
      /\ \A x \in nhs : ~Going(x) => x \in nhs'
  BY <1>2, <1>3 DEF Doomed, Going
<1>6. SlotNames'
  <2>1. \A i \in Slots : i # 0 =>
           /\ Slot(i).op = "remove" => Slot(i).vid \in rids'
           /\ Slot(i).group # NoObj => Slot(i).group \in rids'
           /\ Slot(i).nh # NoObj => Slot(i).nh \in nhs'
    <3> SUFFICES ASSUME NEW i \in Slots, i # 0
                 PROVE  /\ Slot(i).op = "remove" => Slot(i).vid \in rids'
                        /\ Slot(i).group # NoObj => Slot(i).group \in rids'
                        /\ Slot(i).nh # NoObj => Slot(i).nh \in nhs'
      OBVIOUS
    <3>1. 0 < i
      BY <1>2
    <3> QED
      BY <1>2, <1>3, <3>1 DEF NamesInv, SlotNames
  <2> QED
    BY <1>2, <2>1, OpFields DEF NamesInv, SlotNames
<1>7. CurNames' /\ ListNames'
  BY <1>3, <1>4, <1>5 DEF NamesInv, CurNames, ListNames, Preparing, Sent
<1> QED
  BY <1>1, <1>3, <1>6, <1>7 DEF NamesInv

LEMMA NamesInit == Init => NamesInv
<1> SUFFICES ASSUME Init PROVE NamesInv
  OBVIOUS
<1>1. \A i \in Slots : Slot(i) = NoOp /\ i = 0
  BY DEF Init, Slots, Slot
<1>2. \A v : ~Doomed(v)
  BY <1>1, OpFields DEF Doomed
<1>3. SlotNames
  BY <1>1, OpFields DEF SlotNames
<1>4. CurNames
  BY OpFields DEF Init, CurNames, Preparing
<1>5. ListNames
  BY <1>2 DEF Init, ListNames, Contains
<1> QED
  BY <1>3, <1>4, <1>5, TypeInit DEF Init, NamesInv

LEMMA NamesStep == NamesInv /\ "stale" \notin mishap' /\ [Next]_vars => NamesInv'
<1> SUFFICES ASSUME NamesInv, "stale" \notin mishap', [Next]_vars PROVE NamesInv'
  OBVIOUS
<1>1. CASE Starts
  BY <1>1, NamesStart
<1>2. CASE \/ RemoveByCleanup \/ StartCleanup \/ EndCleanup \/ PollAsic \/ PollResp
           \/ QuiesceTimeout \/ ReapSeen \/ RPop \/ ReapTimeout \/ WaitRid \/ Forget
  BY <1>2, NamesTest
<1>3. CASE LPush \/ OrchBulk \/ \E x \in NextHop : NhGone(x)
  BY <1>3, NamesPush
<1>4. CASE SyncdTake \/ SyncdDone
  BY <1>4, NamesTake, NamesDone
<1>5. ~SyncdDies
  BY NamesKnown DEF SyncdDies
<1>7. ASSUME UNCHANGED <<asicQ, work, chipVars, syncd, callVars, testVars>> PROVE NamesInv'
  <2>1. \A v : (Doomed(v)' <=> Doomed(v)) /\ (Going(v)' <=> Going(v))
    BY <1>7, SameSlots DEF Doomed, Going
  <2>2. CurNames' /\ ListNames'
    BY <1>7, <2>1 DEF NamesInv, CurNames, ListNames, Preparing, Sent, chipVars, callVars, testVars
  <2> QED
    BY <1>7, <2>2, NamesSame
<1>8. CASE OrchTake \/ OrchTimeout \/ UNCHANGED vars
  BY <1>7, <1>8 DEF OrchTake, OrchTimeout, redisVars, chipVars, callVars, testVars, vars
<1> QED
  BY <1>1, <1>2, <1>3, <1>4, <1>5, <1>8 DEF Next, Starts, Push

\* Unless a next hop goes between nh_alive and the push, syncd is never asked for an object
\* it does not know, whatever the timeouts do and whenever else next hops go.
THEOREM InjectionSparesSyncd == Spec => []SyncdSurvives
<1> DEFINE Inv == "stale" \notin mishap => NamesInv
<1>1. Init => Inv
  BY NamesInit
<1>2. Inv /\ [Next]_vars => Inv'
  BY NamesStep, MishapGrows
<1>3. Inv => SyncdSurvives
  BY DEF SyncdSurvives, NamesInv
<1> QED
  BY <1>1, <1>2, <1>3, PTL DEF Spec

-----------------------------------------------------------------------------
(* orchagent survives every call that does not overlap its bulk operations. *)

Calm == mishap \cap {"race", "late"} = {}

Ours(i) == Slot(i).op \in {"create", "remove"}
Bulk(i) == Slot(i).op = "bulk" /\ Slot(i).who = "orch"
Quiet == pc \in {"idle", "pollAsic", "pollResp", "check"}
OrchReply == <<"orch", "orch", "orch">>

\* How many elements of the test's response are in the response queue.
Owed == IF pc = "reap" /\ \A i \in Slots : ~Ours(i) THEN 3
        ELSE IF pc = "pop" THEN pops ELSE 0

\* At most one operation of the test is on its way, between the push and the reap, and at
\* most one bulk operation, for which orchagent waits.
SlotReplies ==
    /\ \A i \in Slots : Ours(i) => pc = "reap" /\ Slot(i) = cur
    /\ \A i, j \in Slots : Ours(i) /\ Ours(j) => i = j
    /\ \A i, j \in Slots : Bulk(i) /\ Bulk(j) => i = j
    /\ \A i \in Slots : Bulk(i) => orch = "waiting" /\ respQ = <<>>

\* While orchagent waits, no call injects and the response queue is its own; while it
\* does not, all that is there is what the call at hand will pop.
OrchReplies ==
    /\ orch # "crashed"
    /\ orch = "waiting" => Quiet /\ (respQ = OrchReply \/ \E i \in Slots : Bulk(i))
    /\ pc = "pollResp" /\ seen + 1 = Stable => \A i \in Slots : i # 0 => ~Bulk(i)
    /\ orch = "idle" => Len(respQ) = Owed /\ \A k \in 1..Len(respQ) : respQ[k] = "inj"

ReplyInv == TypeInv /\ SlotReplies /\ OrchReplies

LEMMA ReplyTypes ==
    ASSUME ReplyInv
    PROVE  /\ respQ \in Seq({"inj", "orch"}) /\ Len(respQ) \in Nat
           /\ Stable \in Nat \ {0} /\ seen \in Nat /\ pops \in 0..3
           /\ orch \in {"idle", "waiting"}
           /\ (Len(respQ) = 0 <=> respQ = <<>>)
           /\ ~Quiet => orch = "idle"
           /\ \A i \in Slots : Slot(i) \in Real \cup {NoOp}
           /\ \A i \in Slots : Slot(i) \in Real /\ Slot(i).op = "bulk" => Bulk(i)
<1>1. respQ \in Seq({"inj", "orch"}) /\ seen \in 0..(Stable - 1) /\ pops \in 0..3
  BY DEF ReplyInv, TypeInv, QueueTypes, CallTypes
<1>2. Stable \in Nat \ {0}
  BY DlbAssumption
<1>3. orch \in {"idle", "waiting"} /\ (~Quiet => orch = "idle")
  BY DEF ReplyInv, TypeInv, DaemonTypes, OrchReplies
<1>4. \A i \in Slots : Slot(i) \in Real \cup {NoOp}
  BY SlotTypes DEF ReplyInv
<1>5. \A i \in Slots : Slot(i) \in Real /\ Slot(i).op = "bulk" => Bulk(i)
  <2>1. \A o \in Real : o.op = "bulk" => o.who = "orch"
    BY DEF Real, Op
  <2> QED
    BY <2>1 DEF Bulk
<1> QED
  BY <1>1, <1>2, <1>3, <1>4, <1>5

\* The operations on their way and the responses stay as they are.
LEMMA ReplySame ==
    ASSUME ReplyInv, [Next]_vars, UNCHANGED <<asicQ, work, respQ, orch>>
    PROVE  /\ Slots' = Slots /\ \A i \in Slots : Slot(i)' = Slot(i)
           /\ \A i \in Slots : (Ours(i)' <=> Ours(i)) /\ (Bulk(i)' <=> Bulk(i))
           /\ TypeInv'
           /\ (\A i \in Slots : ~Ours(i)) => SlotReplies'
<1>1. Slots' = Slots /\ \A i \in Slots : Slot(i)' = Slot(i)
  BY SameSlots
<1>2. \A i \in Slots : (Ours(i)' <=> Ours(i)) /\ (Bulk(i)' <=> Bulk(i))
  BY <1>1 DEF Ours, Bulk
<1>3. TypeInv'
  BY TypeStep DEF ReplyInv
<1>4. (\A i \in Slots : ~Ours(i)) => SlotReplies'
  BY <1>1, <1>2 DEF ReplyInv, SlotReplies
<1> QED
  BY <1>1, <1>2, <1>3, <1>4

\* The steps of the test outside the injection itself.
LEMMA ReplyTest ==
    ASSUME ReplyInv, [Next]_vars,
           \/ Starts \/ RemoveByCleanup \/ StartCleanup \/ EndCleanup \/ WaitRid \/ Forget
           \/ QuiesceTimeout
    PROVE  ReplyInv'
<1>1. UNCHANGED <<asicQ, work, respQ, orch>>
  BY DEF Starts, CreateGroup, AddMember, RemoveByTest, RemoveByCleanup, StartCleanup, EndCleanup,
         WaitRid, Forget, QuiesceTimeout, redisVars, daemonVars
<1>2. pc \in {"idle", "check", "pollAsic"} /\ pc' \in {"idle", "pollAsic"}
  <2>1. CASE Starts
    BY <2>1, StartCalls DEF ReplyInv
  <2>2. CASE RemoveByCleanup
    BY <2>2, CleanupCalls DEF ReplyInv
  <2> QED
    BY <2>1, <2>2 DEF StartCleanup, EndCleanup, WaitRid, Forget, QuiesceTimeout, callVars
<1>3. \A i \in Slots : ~Ours(i)
  BY <1>2 DEF ReplyInv, SlotReplies
<1>4. SlotReplies' /\ TypeInv' /\ Slots' = Slots /\ \A i \in Slots : Bulk(i)' <=> Bulk(i)
  BY <1>1, <1>3, ReplySame
<1>5. Owed = 0 /\ Owed' = 0
  BY <1>2 DEF Owed
<1>6. OrchReplies'
  BY <1>1, <1>2, <1>4, <1>5 DEF ReplyInv, OrchReplies, Quiet
<1> QED
  BY <1>4, <1>6 DEF ReplyInv

\* When quiesce finds both queues quiet, orchagent waits only for what syncd has in hand.
LEMMA ReplyPoll ==
    ASSUME ReplyInv, Calm', [Next]_vars, PollAsic \/ PollResp
    PROVE  ReplyInv'
<1>1. UNCHANGED <<asicQ, work, respQ, orch>> /\ pc \in {"pollAsic", "pollResp"}
  BY DEF PollAsic, PollResp, redisVars, daemonVars
<1>2. \A i \in Slots : ~Ours(i)
  BY <1>1 DEF ReplyInv, SlotReplies
<1>3. SlotReplies' /\ TypeInv' /\ Slots' = Slots /\ \A i \in Slots : Bulk(i)' <=> Bulk(i)
  BY <1>1, <1>2, ReplySame
<1>4. CASE PollAsic
  <2>1. /\ pc = "pollAsic"
        /\ (asicQ = <<>> /\ pc' = "pollResp") \/ pc' = "pollAsic"
    BY <1>4 DEF PollAsic
  <2>2. asicQ = <<>> => \A i \in Slots : i = 0
    BY DEF Slots
  <2>3. Owed = 0 /\ Owed' = 0
    BY <2>1 DEF Owed
  <2>4. OrchReplies'
    BY <1>1, <1>3, <2>1, <2>2, <2>3 DEF ReplyInv, OrchReplies, Quiet
  <2> QED
    BY <1>3, <2>4 DEF ReplyInv
<1>5. CASE PollResp
  <2>1. /\ pc = "pollResp"
        /\ \/ respQ = <<>> /\ seen + 1 = Stable /\ pc' = "push" /\ ~BulkInHand
           \/ pc' = "pollAsic"
    BY <1>5 DEF PollResp, Calm
  <2>2. Owed = 0 /\ Owed' = 0
    BY <2>1 DEF Owed
  <2>3. pc' = "push" => orch # "waiting"
    <3>1. ~BulkInHand => ~Bulk(0)
      BY DEF BulkInHand, Bulk, Slot
    <3> QED
      BY <2>1, <3>1 DEF ReplyInv, OrchReplies, OrchReply
  <2>4. OrchReplies'
    BY <1>1, <1>3, <2>1, <2>2, <2>3 DEF ReplyInv, OrchReplies, Quiet
  <2> QED
    BY <1>3, <2>4 DEF ReplyInv
<1> QED
  BY <1>4, <1>5

\* The response is taken off whole.
LEMMA ReplyReap ==
    ASSUME ReplyInv, [Next]_vars, ReapSeen \/ RPop
    PROVE  ReplyInv'
<1>1. UNCHANGED <<asicQ, work, orch>> /\ pc \in {"reap", "pop"} /\ orch = "idle"
  BY ReplyTypes DEF ReapSeen, RPop, redisVars, daemonVars, Quiet
<1>2. \A i \in Slots : ~Ours(i) /\ ~Bulk(i)
  <2>1. \A i \in Slots : ~Bulk(i)
    BY <1>1 DEF ReplyInv, SlotReplies
  <2>2. CASE pc = "pop"
    BY <2>1, <2>2 DEF ReplyInv, SlotReplies
  <2>3. CASE ReapSeen
    BY <1>1, <2>1, <2>3, ReplyTypes DEF ReapSeen, ReplyInv, OrchReplies, Owed
  <2> QED
    BY <2>2, <2>3 DEF RPop
<1>3. TypeInv' /\ Slots' = Slots /\ \A i \in Slots : ~Ours(i)' /\ ~Bulk(i)'
  <2>1. Slots' = Slots /\ \A i \in Slots : Slot(i)' = Slot(i)
    BY <1>1, SameSlots
  <2> QED
    BY <1>2, <2>1, TypeStep DEF ReplyInv, Ours, Bulk
<1>4. Len(respQ') = Owed' /\ \A k \in 1..Len(respQ') : respQ'[k] = "inj"
  <2>1. Len(respQ) = Owed /\ \A k \in 1..Len(respQ) : respQ[k] = "inj"
    BY <1>1 DEF ReplyInv, OrchReplies
  <2>2. CASE ReapSeen
    <3>1. Owed = 3 /\ Owed' = 3 /\ respQ' = respQ
      BY <1>2, <1>3, <2>2 DEF ReapSeen, Owed, redisVars
    <3> QED
      BY <2>1, <3>1
  <2>3. CASE RPop
    <3>1. /\ pops \in 1..3 /\ Owed = pops /\ pops' = pops - 1
          /\ pc' = IF pops = 1 THEN "check" ELSE "pop"
      BY <2>3 DEF RPop, Owed, ReplyInv, TypeInv, CallTypes
    <3>2. Owed' = pops - 1
      BY <3>1 DEF Owed
    <3>3. respQ # <<>> /\ respQ' = Tail(respQ)
      BY <2>1, <2>3, <3>1 DEF RPop
    <3>4. /\ Len(Tail(respQ)) = Len(respQ) - 1
          /\ \A k \in 1..(Len(respQ) - 1) : Tail(respQ)[k] = respQ[k + 1]
      BY <3>3, ReplyTypes
    <3> QED
      BY <2>1, <3>1, <3>2, <3>3, <3>4
  <2> QED
    BY <2>2, <2>3
<1>5. SlotReplies' /\ OrchReplies'
  <2>1. pc' # "pollResp"
    BY DEF ReapSeen, RPop
  <2> QED
    BY <1>1, <1>3, <1>4, <2>1 DEF SlotReplies, OrchReplies
<1> QED
  BY <1>3, <1>5 DEF ReplyInv

\* An operation joins the queue: the test's when orchagent is idle, orchagent's when no
\* call is injecting.
LEMMA ReplyPush ==
    ASSUME ReplyInv, Calm', [Next]_vars, LPush \/ OrchBulk \/ \E x \in NextHop : NhGone(x)
    PROVE  ReplyInv'
<1>1. TypeInv /\ TypeInv'
  BY TypeStep DEF ReplyInv
<1>2. PICK op : /\ asicQ' = Append(asicQ, op) /\ UNCHANGED <<work, respQ, cur, seen, pops>>
                /\ \/ LPush /\ op = cur /\ pc = "push" /\ pc' = "reap" /\ orch' = orch
                   \/ /\ OrchBulk /\ op = BulkOp /\ pc' = pc
                      /\ orch = "idle" /\ orch' = "waiting" /\ ~Injecting
                   \/ /\ pc' = pc /\ orch = "idle" /\ orch' = orch
                      /\ \E x \in NextHop : NhGone(x) /\ op = GoneOp(x)
  BY DEF LPush, OrchBulk, NhGone, BulkOp, GoneOp, daemonVars, callVars, Calm
<1>3. op \in Real
  BY <1>1, <1>2, OpTypes DEF TypeInv, UseInv
<1> PICK n : n = Len(asicQ) + 1
  OBVIOUS
<1>4. /\ n \in Nat \ {0} /\ n \notin Slots /\ Slots' = Slots \cup {n}
      /\ \A i \in Slots : i < n /\ Slot(i)' = Slot(i)
      /\ Slot(n)' = op
  BY <1>1, <1>2, <1>3, PushSlots
<1>5. /\ \A i \in Slots : (Ours(i)' <=> Ours(i)) /\ (Bulk(i)' <=> Bulk(i))
      /\ Ours(n)' <=> op.op \in {"create", "remove"}
      /\ Bulk(n)' <=> op.op = "bulk" /\ op.who = "orch"
  BY <1>4 DEF Ours, Bulk
<1>6. orch = "idle"
  BY <1>2, ReplyTypes DEF Quiet
<1>7. \A i \in Slots : ~Bulk(i)
  BY <1>6 DEF ReplyInv, SlotReplies
<1>8. CASE op = cur /\ pc = "push" /\ pc' = "reap" /\ orch' = orch
  <2>1. Ours(n)' /\ ~Bulk(n)'
    BY <1>1, <1>5, <1>8 DEF TypeInv, UseInv, Real
  <2>2. \A i \in Slots : ~Ours(i)
    BY <1>8 DEF ReplyInv, SlotReplies
  <2>3. Owed = 0 /\ Owed' = 0
    BY <1>4, <1>8, <2>1 DEF Owed
  <2>4. SlotReplies'
    BY <1>2, <1>4, <1>5, <1>7, <1>8, <2>1, <2>2 DEF SlotReplies
  <2>5. OrchReplies'
    BY <1>2, <1>6, <1>8, <2>3 DEF ReplyInv, OrchReplies
  <2> QED
    BY <1>1, <2>4, <2>5 DEF ReplyInv
<1>9. CASE op = BulkOp /\ pc' = pc /\ orch' = "waiting" /\ ~Injecting
  <2>1. ~Ours(n)' /\ Bulk(n)'
    BY <1>5, <1>9, OpFields
  <2>2. Quiet /\ ~(pc = "pollResp" /\ seen + 1 = Stable)
    BY <1>1, <1>9 DEF Injecting, Quiet, TypeInv, CallTypes
  <2>3. \A i \in Slots : ~Ours(i)
    BY <2>2 DEF ReplyInv, SlotReplies, Quiet
  <2>4. respQ = <<>>
    BY <1>6, <2>2, ReplyTypes DEF ReplyInv, OrchReplies, Owed, Quiet
  <2>5. SlotReplies'
    BY <1>2, <1>4, <1>5, <1>7, <1>9, <2>1, <2>3, <2>4 DEF SlotReplies
  <2>6. OrchReplies'
    BY <1>2, <1>4, <1>9, <2>1, <2>2 DEF OrchReplies, Quiet
  <2> QED
    BY <1>1, <2>5, <2>6 DEF ReplyInv
<1>10. CASE pc' = pc /\ orch' = orch /\ \E x \in NextHop : op = GoneOp(x)
  <2>1. ~Ours(n)' /\ ~Bulk(n)'
    BY <1>5, <1>10, OpFields
  <2>2. SlotReplies'
    BY <1>2, <1>4, <1>5, <1>10, <2>1 DEF ReplyInv, SlotReplies
  <2>3. Owed' = Owed
    BY <1>2, <1>4, <1>5, <1>10, <2>1 DEF Owed
  <2>4. OrchReplies'
    BY <1>2, <1>4, <1>5, <1>6, <1>10, <2>1, <2>3 DEF ReplyInv, OrchReplies
  <2> QED
    BY <1>1, <2>2, <2>4 DEF ReplyInv
<1> QED
  BY <1>2, <1>8, <1>9, <1>10

LEMMA ReplyTake ==
    ASSUME ReplyInv, [Next]_vars, SyncdTake
    PROVE  ReplyInv'
<1>1. TypeInv /\ TypeInv'
  BY TypeStep DEF ReplyInv
<1>2. UNCHANGED <<respQ, orch, pc, cur, seen, pops>>
  BY DEF SyncdTake, daemonVars, callVars
<1>3. /\ Slot(0) = NoOp
      /\ \A i \in Slots' : i \in Nat /\ i + 1 \in Slots /\ Slot(i)' = Slot(i + 1)
      /\ \A i \in Slots : i # 0 => i - 1 \in Slots' /\ Slot(i - 1)' = Slot(i)
  BY <1>1, TakeSlots
<1>4. /\ \A i \in Slots' : (Ours(i)' <=> Ours(i + 1)) /\ (Bulk(i)' <=> Bulk(i + 1))
      /\ \A i \in Slots : Ours(i) \/ Bulk(i) =>
            i - 1 \in Slots' /\ (Ours(i - 1)' <=> Ours(i)) /\ (Bulk(i - 1)' <=> Bulk(i))
  BY <1>3, OpFields DEF Ours, Bulk
<1>5. Owed' = Owed
  BY <1>2, <1>3, <1>4 DEF Owed
<1>6. SlotReplies'
  <2>1. \A i, j \in Slots' : i + 1 = j + 1 => i = j
    BY <1>3
  <2> QED
    BY <1>2, <1>3, <1>4, <2>1 DEF ReplyInv, SlotReplies
<1>7. OrchReplies'
  BY <1>2, <1>3, <1>4, <1>5 DEF ReplyInv, OrchReplies, Quiet
<1> QED
  BY <1>1, <1>6, <1>7 DEF ReplyInv

\* syncd answers into an empty queue.
LEMMA ReplyDone ==
    ASSUME ReplyInv, [Next]_vars, SyncdDone
    PROVE  ReplyInv'
<1>1. TypeInv /\ TypeInv'
  BY TypeStep DEF ReplyInv
<1>2. /\ Slot(0) = work /\ work \in Real /\ Slots' = Slots /\ Slot(0)' = NoOp
      /\ \A i \in Slots : i # 0 => Slot(i)' = Slot(i)
      /\ 0 \in Slots
  BY <1>1, DoneSlots, SlotTypes
<1>3. UNCHANGED <<orch, pc, cur, seen, pops>>
  BY DEF SyncdDone, daemonVars, callVars
<1>4. /\ ~Ours(0)' /\ ~Bulk(0)'
      /\ \A i \in Slots : i # 0 => (Ours(i)' <=> Ours(i)) /\ (Bulk(i)' <=> Bulk(i))
  BY <1>2, OpFields DEF Ours, Bulk
<1>5. CASE work.op \in {"create", "remove"}
  <2>1. Ours(0) /\ ~Bulk(0)
    BY <1>2, <1>5 DEF Ours, Bulk
  <2>2. pc = "reap" /\ orch = "idle"
    BY <1>2, <2>1, ReplyTypes DEF ReplyInv, SlotReplies, Quiet
  <2>3. respQ = <<>>
    BY <1>2, <2>1, <2>2, ReplyTypes DEF ReplyInv, OrchReplies, Owed
  <2>4. respQ' = <<"inj", "inj", "inj">>
    <3>1. respQ' = respQ \o <<"inj", "inj", "inj">>
      BY <1>5 DEF SyncdDone, Respond
    <3> QED
      BY <2>3, <3>1
  <2>5. \A i \in Slots : ~Ours(i)' /\ ~Bulk(i)'
    BY <1>2, <1>4, <2>1, <2>2 DEF ReplyInv, SlotReplies
  <2>6. Owed' = 3
    BY <1>2, <1>3, <2>2, <2>5 DEF Owed
  <2>7. SlotReplies'
    BY <1>2, <2>5 DEF SlotReplies
  <2>8. Len(respQ') = 3 /\ \A k \in 1..3 : respQ'[k] = "inj"
    BY <2>4
  <2>9. OrchReplies'
    BY <1>3, <2>2, <2>6, <2>8 DEF OrchReplies
  <2> QED
    BY <1>1, <2>7, <2>9 DEF ReplyInv
<1>6. CASE work.op = "bulk"
  <2>1. Bulk(0) /\ ~Ours(0)
    BY <1>2, <1>6, ReplyTypes DEF Ours
  <2>2. orch = "waiting" /\ respQ = <<>>
    BY <1>2, <2>1 DEF ReplyInv, SlotReplies
  <2>3. respQ' = OrchReply
    <3>1. respQ' = respQ \o <<"orch", "orch", "orch">>
      BY <1>6 DEF SyncdDone, Respond
    <3> QED
      BY <2>2, <3>1 DEF OrchReply
  <2>4. \A i \in Slots : ~Bulk(i)' /\ (Ours(i)' <=> Ours(i)) /\ (Ours(i) => Slot(i)' = Slot(i))
    BY <1>2, <1>4, <2>1 DEF ReplyInv, SlotReplies
  <2>5. SlotReplies'
    BY <1>2, <1>3, <2>4 DEF ReplyInv, SlotReplies
  <2>6. OrchReplies'
    BY <1>2, <1>3, <2>2, <2>3, <2>4 DEF ReplyInv, OrchReplies, Quiet
  <2> QED
    BY <1>1, <2>5, <2>6 DEF ReplyInv
<1>7. CASE work.op = "nhgone"
  <2>1. respQ' = respQ
    BY <1>7 DEF SyncdDone
  <2>2. \A i \in Slots : /\ (Ours(i)' <=> Ours(i)) /\ (Bulk(i)' <=> Bulk(i))
                         /\ Ours(i) => Slot(i)' = Slot(i)
    BY <1>2, <1>4, <1>7 DEF Ours, Bulk
  <2>3. Owed' = Owed
    BY <1>2, <1>3, <2>2 DEF Owed
  <2>4. SlotReplies'
    BY <1>2, <1>3, <2>1, <2>2 DEF ReplyInv, SlotReplies
  <2>5. OrchReplies'
    BY <1>2, <1>3, <2>1, <2>2, <2>3 DEF ReplyInv, OrchReplies, Quiet
  <2> QED
    BY <1>1, <2>4, <2>5 DEF ReplyInv
<1> QED
  BY <1>2, <1>5, <1>6, <1>7 DEF Real, Op

\* orchagent finds its own response, whole, or it is still on its way.
LEMMA ReplyOrch ==
    ASSUME ReplyInv, [Next]_vars, OrchTake \/ OrchTimeout
    PROVE  ReplyInv'
<1>1. OrchReply \in Seq({"inj", "orch"}) /\ Len(OrchReply) = 3 /\ Contains(OrchReply, "orch")
  BY DEF OrchReply, Contains
<1>2. ~OrchTimeout
  <2> SUFFICES ASSUME OrchTimeout PROVE FALSE
    OBVIOUS
  <2>1. /\ orch = "waiting" /\ ~Contains(respQ, "orch") /\ work.who # "orch"
        /\ \A i \in 1..Len(asicQ) : asicQ[i].who # "orch"
    BY DEF OrchTimeout, ReplyInv, TypeInv, QueueTypes
  <2>2. PICK i \in Slots : Bulk(i)
    BY <1>1, <2>1 DEF ReplyInv, OrchReplies
  <2> QED
    BY <2>1, <2>2 DEF Slots, Slot, Bulk
<1>3. /\ orch = "waiting" /\ respQ # <<>> /\ UNCHANGED <<asicQ, work, pc, cur, seen, pops>>
  BY <1>2 DEF OrchTake, callVars
<1>4. \A i \in Slots : ~Bulk(i) /\ ~Ours(i)
  BY <1>3 DEF ReplyInv, SlotReplies, OrchReplies, Quiet
<1>5. respQ = OrchReply /\ Quiet
  BY <1>3, <1>4 DEF ReplyInv, OrchReplies
<1>6. SubSeq(OrchReply, 1, 3) = <<"orch", "orch", "orch">> /\ SubSeq(OrchReply, 4, 3) = <<>>
  <2>1. SubSeq(OrchReply, 1, 3) = OrchReply
    BY <1>1, SubSeqFull
  <2>2. SubSeq(OrchReply, 4, 3) = <<>>
    BY SubSeqEmpty
  <2> QED
    BY <2>1, <2>2 DEF OrchReply
<1>7. orch' = "idle" /\ respQ' = <<>>
  <2>1. /\ respQ' = SubSeq(OrchReply, 3 + 1, 3)
        /\ orch' = IF SubSeq(OrchReply, 1, 3) = <<"orch", "orch", "orch">> THEN "idle" ELSE "crashed"
    <3> HIDE DEF OrchReply
    <3> QED
      BY <1>1, <1>2, <1>5 DEF OrchTake
  <2> QED
    BY <1>6, <2>1
<1>8. TypeInv' /\ Slots' = Slots /\ \A i \in Slots : ~Ours(i)' /\ ~Bulk(i)'
  <2>1. Slots' = Slots /\ \A i \in Slots : Slot(i)' = Slot(i)
    BY <1>3, SameSlots
  <2> QED
    BY <1>4, <2>1, TypeStep DEF ReplyInv, Ours, Bulk
<1>9. Owed' = 0
  BY <1>3, <1>5 DEF Owed, Quiet
<1>10. SlotReplies' /\ OrchReplies'
  BY <1>7, <1>8, <1>9 DEF SlotReplies, OrchReplies
<1> QED
  BY <1>8, <1>10 DEF ReplyInv

LEMMA ReplyInit == Init => ReplyInv
<1> SUFFICES ASSUME Init PROVE ReplyInv
  OBVIOUS
<1>1. \A i \in Slots : ~Ours(i) /\ ~Bulk(i)
  BY OpFields DEF Init, Slots, Slot, Ours, Bulk
<1>2. Owed = 0
  BY DEF Init, Owed
<1> QED
  BY <1>1, <1>2, TypeInit DEF Init, ReplyInv, SlotReplies, OrchReplies

LEMMA ReplyStep == ReplyInv /\ Calm' /\ [Next]_vars => ReplyInv'
<1> SUFFICES ASSUME ReplyInv, Calm', [Next]_vars PROVE ReplyInv'
  OBVIOUS
<1>1. CASE \/ Starts \/ RemoveByCleanup \/ StartCleanup \/ EndCleanup \/ WaitRid \/ Forget
           \/ QuiesceTimeout
  BY <1>1, ReplyTest
<1>2. CASE PollAsic \/ PollResp
  BY <1>2, ReplyPoll
<1>3. CASE ReapSeen \/ RPop
  BY <1>3, ReplyReap
<1>4. CASE LPush \/ OrchBulk \/ \E x \in NextHop : NhGone(x)
  BY <1>4, ReplyPush
<1>5. CASE SyncdTake \/ SyncdDone
  BY <1>5, ReplyTake, ReplyDone
<1>6. CASE OrchTake \/ OrchTimeout
  BY <1>6, ReplyOrch
<1>7. ~ReapTimeout
  BY DEF ReapTimeout, Calm
<1>8. CASE SyncdDies \/ UNCHANGED vars
  <2>1. UNCHANGED <<asicQ, work, respQ, orch, pc, cur, seen, pops>>
    BY <1>8 DEF SyncdDies, redisVars, callVars, vars
  <2>2. /\ Slots' = Slots /\ \A i \in Slots : Slot(i)' = Slot(i)
        /\ \A i \in Slots : (Ours(i)' <=> Ours(i)) /\ (Bulk(i)' <=> Bulk(i))
        /\ TypeInv'
    BY <2>1, ReplySame
  <2>3. Owed' = Owed
    BY <2>1, <2>2 DEF Owed
  <2>4. SlotReplies'
    BY <2>1, <2>2 DEF ReplyInv, SlotReplies
  <2>5. OrchReplies'
    BY <2>1, <2>2, <2>3 DEF ReplyInv, OrchReplies, Quiet
  <2> QED
    BY <2>2, <2>4, <2>5 DEF ReplyInv
<1> QED
  BY <1>1, <1>2, <1>3, <1>4, <1>5, <1>6, <1>7, <1>8 DEF Next, Starts, Push

\* As long as no call overlaps a bulk operation and no response comes late, orchagent never
\* finds a foreign response nor misses its own.
THEOREM InjectionSparesOrch == Spec => []OrchSurvives
<1> DEFINE Inv == Calm => ReplyInv
<1>1. Init => Inv
  BY ReplyInit
<1>2. Inv /\ [Next]_vars => Inv'
  BY ReplyStep, MishapGrows DEF Calm
<1>3. Inv => OrchSurvives
  BY DEF OrchSurvives, ReplyInv, OrchReplies, Calm
<1> QED
  BY <1>1, <1>2, <1>3, PTL DEF Spec

\* Under the same conditions every call takes its response with it, one that quiesce
\* refused to send included.
THEOREM CallsLeaveNothing == Spec => []NoResidualResponse
<1> DEFINE Inv == Calm => ReplyInv
<1>1. Init => Inv
  BY ReplyInit
<1>2. Inv /\ [Next]_vars => Inv'
  BY ReplyStep, MishapGrows DEF Calm
<1>3. Inv => NoResidualResponse
  <2> SUFFICES ASSUME ReplyInv, pc = "idle"
               PROVE  /\ ~Contains(respQ, "inj") /\ Len(respQ) % 3 = 0
                      /\ asicQ = <<>> \/ Head(asicQ).who = "orch"
    BY DEF NoResidualResponse, Calm
  <2>1. respQ = <<>> \/ respQ = OrchReply
    <3>1. orch = "idle" => respQ = <<>>
      BY ReplyTypes DEF ReplyInv, OrchReplies, Owed
    <3> QED
      BY <3>1, ReplyTypes DEF ReplyInv, OrchReplies, SlotReplies
  <2>2. ~Contains(respQ, "inj") /\ Len(respQ) % 3 = 0
    <3>1. 0 % 3 = 0 /\ 3 % 3 = 0
      OBVIOUS
    <3>2. Len(respQ) \in {0, 3} /\ \A k \in 1..Len(respQ) : respQ[k] # "inj"
      BY <2>1 DEF OrchReply
    <3> QED
      BY <3>1, <3>2 DEF Contains
  <2>3. ASSUME asicQ # <<>> PROVE Head(asicQ).who = "orch"
    <3>1. asicQ \in Seq(Real) /\ Len(asicQ) >= 1 /\ Head(asicQ) = asicQ[1] /\ Head(asicQ) \in Real
      BY <2>3 DEF ReplyInv, TypeInv, QueueTypes
    <3>2. 1 \in Slots /\ Slot(1) = Head(asicQ)
      BY <3>1 DEF Slots, Slot
    <3>3. Head(asicQ).op \notin {"create", "remove"}
      BY <3>2 DEF ReplyInv, SlotReplies, Ours
    <3> QED
      BY <3>1, <3>3 DEF Real, Op
  <2> QED
    BY <2>2, <2>3
<1> QED
  BY <1>1, <1>2, <1>3, PTL DEF Spec

-----------------------------------------------------------------------------
(* cleanup leaves nothing in the chip.                                     *)

\* What is in the chip is recorded, a group before its members; the object of the create
\* at hand is recorded next.
KeptInv ==
    /\ \A m \in Member : memberOf[m] # NoObj => m \in rids
    /\ \A v \in rids : Contains(created, v) \/ (Sent /\ cur.op = "create" /\ cur.vid = v)
    /\ \A m \in Member : memberOf[m] # NoObj =>
          \/ Before(created, memberOf[m], m)
          \/ Sent /\ cur.op = "create" /\ cur.vid = m /\ Contains(created, memberOf[m])

\* A member joins a recorded group, a group that is removed is empty, and an object whose
\* remove was answered is gone.
CallInv ==
    /\ pc # "idle" /\ cur.group # NoObj => Contains(created, cur.group)
    /\ pc # "idle" /\ cur.op = "remove" => \A m \in Member : memberOf[m] # cur.vid
    /\ Sent /\ cur.op = "remove" => cur.vid \notin rids \/ \E i \in Slots : Ours(i)

\* cleanup has all that is left on its list, members first.
CleanupInv ==
    /\ phase = "cleanup" =>
          /\ pc # "idle" => cur.op = "remove"
          /\ \A v \in rids : Contains(queue, v) \/ (pc # "idle" /\ cur.vid = v)
          /\ \A m \in Member :
                Contains(queue, m) /\ Contains(queue, memberOf[m]) => Before(queue, m, memberOf[m])
    /\ phase = "done" => pc = "idle" /\ rids = {}

LeftInv == ReplyInv /\ KeptInv /\ CallInv /\ CleanupInv

\* The steps that neither touch the chip nor the records.
LEMMA LeftFrame ==
    ASSUME LeftInv, ReplyInv', UNCHANGED <<rids, memberOf, cur, created, queue, phase>>,
           pc = "idle" <=> pc' = "idle", Sent => Sent',
           Sent' /\ cur.op = "remove" => cur.vid \notin rids \/ \E i \in Slots' : Ours(i)'
    PROVE  LeftInv'
<1>1. KeptInv'
  BY DEF LeftInv, KeptInv
<1>2. CallInv'
  BY DEF LeftInv, CallInv
<1>3. CleanupInv'
  BY DEF LeftInv, CleanupInv
<1> QED
  BY <1>1, <1>2, <1>3 DEF LeftInv

LEMMA LeftQueues ==
    ASSUME LeftInv, ReplyInv', [Next]_vars,
           \/ PollAsic \/ PollResp \/ LPush \/ ReapSeen \/ RPop \/ SyncdTake \/ SyncdDies
           \/ OrchBulk \/ OrchTake \/ OrchTimeout \/ UNCHANGED vars \/ \E x \in NextHop : NhGone(x)
    PROVE  LeftInv'
<1>1. TypeInv
  BY DEF LeftInv, ReplyInv
<1>2. /\ UNCHANGED <<rids, memberOf, cur, created, queue, phase>>
      /\ (pc = "idle" <=> pc' = "idle") /\ (Sent => Sent') /\ (Sent' => Sent \/ LPush)
  BY DEF PollAsic, PollResp, LPush, ReapSeen, RPop, SyncdTake, SyncdDies, OrchBulk, OrchTake,
         OrchTimeout, NhGone, chipVars, callVars, testVars, vars, Sent
<1>3. LPush => \E i \in Slots' : Ours(i)'
  <2> SUFFICES ASSUME LPush PROVE \E i \in Slots' : Ours(i)'
    OBVIOUS
  <2>1. PICK op : op = cur
    OBVIOUS
  <2>2. PICK n : n = Len(asicQ) + 1
    OBVIOUS
  <2>3. op \in Real /\ op.op \in {"create", "remove"}
    BY <1>1, <2>1 DEF LPush, TypeInv, UseInv, Real
  <2>4. asicQ' = Append(asicQ, op) /\ work' = work
    BY <2>1 DEF LPush
  <2>5. n \in Slots' /\ Slot(n)' = op
    BY <1>1, <2>2, <2>3, <2>4, PushSlots
  <2> QED
    BY <2>3, <2>5 DEF Ours
<1>4. ASSUME NEW i \in Slots, Ours(i) PROVE \E j \in Slots' : Ours(j)'
  <2>1. CASE SyncdTake
    <3>1. i # 0 /\ i - 1 \in Slots' /\ Slot(i - 1)' = Slot(i)
      BY <1>1, <1>4, <2>1, TakeSlots, OpFields DEF Ours
    <3> QED
      BY <1>4, <3>1 DEF Ours
  <2>2. CASE work' = work /\ \E op \in Real : asicQ' = Append(asicQ, op)
    <3>1. i \in Slots' /\ Slot(i)' = Slot(i)
      BY <1>1, <2>2, PushSlots
    <3> QED
      BY <1>4, <3>1 DEF Ours
  <2>3. CASE UNCHANGED <<asicQ, work>>
    BY <1>4, <2>3, SameSlots DEF Ours
  <2>4. OrchBulk => work' = work /\ \E op \in Real : asicQ' = Append(asicQ, op)
    BY OpTypes DEF OrchBulk, BulkOp
  <2>5. \A x \in NextHop : NhGone(x) => work' = work /\ \E op \in Real : asicQ' = Append(asicQ, op)
    BY OpTypes DEF NhGone, GoneOp
  <2> QED
    BY <1>3, <2>1, <2>2, <2>3, <2>4, <2>5
       DEF PollAsic, PollResp, ReapSeen, RPop, SyncdDies, OrchTake, OrchTimeout, redisVars, vars
<1>5. Sent' /\ cur.op = "remove" => cur.vid \notin rids \/ \E i \in Slots' : Ours(i)'
  BY <1>2, <1>3, <1>4 DEF LeftInv, CallInv
<1> QED
  BY <1>2, <1>5, LeftFrame

\* A call begins: the object is new, or nobody is its member.
LEMMA LeftStart ==
    ASSUME LeftInv, ReplyInv', Starts
    PROVE  LeftInv'
<1>1. TypeInv
  BY DEF LeftInv, ReplyInv
<1>2. /\ pc = "idle" /\ pc' = "pollAsic" /\ UNCHANGED <<created, queue, phase>> /\ phase = "test"
      /\ cur' \in Real
  BY <1>1, StartCalls
<1>3. UNCHANGED <<rids, memberOf>>
  BY DEF Starts, CreateGroup, AddMember, RemoveByTest, chipVars
<1>4. ~Sent /\ ~Sent'
  BY <1>2 DEF Sent
<1>5. KeptInv'
  BY <1>2, <1>3, <1>4 DEF LeftInv, KeptInv
<1>6. CallInv'
  <2>1. ASSUME NEW g \in Group, CreateGroup(g) PROVE cur' = CreateOp(g)
    BY <2>1 DEF CreateGroup, Begin, CreateOp
  <2>2. ASSUME NEW m \in Member, NEW g \in Group, NEW n \in NextHop, AddMember(m, g, n)
        PROVE  cur' = MemberOp(m, g, n) /\ Contains(created, g)
    BY <2>2 DEF AddMember, Begin, MemberOp
  <2>3. ASSUME NEW v \in Vid, RemoveByTest(v) PROVE cur' = RemoveOp(v) /\ MayRemove(v)
    BY <2>3 DEF RemoveByTest, Begin, RemoveOp
  <2>4. cur'.group # NoObj => Contains(created, cur'.group)
    BY <2>1, <2>2, <2>3, OpFields DEF Starts
  <2>5. ASSUME cur'.op = "remove", NEW m \in Member PROVE memberOf[m] # cur'.vid
    <3>1. PICK v \in Vid : cur' = RemoveOp(v) /\ MayRemove(v)
      BY <2>1, <2>2, <2>3, <2>5, OpFields DEF Starts
    <3>2. cur'.vid = v /\ (Contains(created, m) => memberOf[m] # v)
      BY <3>1, OpFields DEF MayRemove
    <3>3. v # NoObj
      BY DlbAssumption DEF Vid
    <3>4. memberOf[m] # NoObj => Contains(created, m)
      BY <1>4 DEF LeftInv, KeptInv, Before, Contains
    <3> QED
      BY <3>2, <3>3, <3>4
  <2> QED
    BY <1>2, <1>3, <1>4, <2>4, <2>5 DEF CallInv
<1>7. CleanupInv'
  BY <1>2 DEF CleanupInv
<1> QED
  BY <1>5, <1>6, <1>7 DEF LeftInv

\* The list of cleanup is _created backwards: everything in the chip, members first.
LEMMA LeftStartCleanup ==
    ASSUME LeftInv, ReplyInv', StartCleanup
    PROVE  LeftInv'
<1>1. /\ pc = "idle" /\ phase' = "cleanup" /\ queue' = Reverse(created)
      /\ UNCHANGED <<pc, cur, created, rids, memberOf>>
  BY DEF StartCleanup, callVars, chipVars
<1>2. /\ \A v : Contains(queue', v) <=> Contains(created, v)
      /\ \A a, b : Before(created, a, b) => Before(queue', b, a)
  BY <1>1, ReverseList DEF LeftInv, ReplyInv, TypeInv, TestTypes, UseInv
<1>3. ~Contains(created, NoObj)
  <2>1. created \in Seq(Vid) /\ NoObj \notin Vid
    BY DlbAssumption DEF Vid, LeftInv, ReplyInv, TypeInv, TestTypes
  <2> QED
    BY <2>1 DEF Contains
<1>4. ~Sent /\ ~Sent'
  BY <1>1 DEF Sent
<1>5. KeptInv' /\ CallInv'
  BY <1>1, <1>4 DEF LeftInv, KeptInv, CallInv
<1>6. CleanupInv'
  BY <1>1, <1>2, <1>3, <1>4 DEF LeftInv, KeptInv, CleanupInv
<1> QED
  BY <1>5, <1>6 DEF LeftInv

\* cleanup takes the next object; its members have gone before it.
LEMMA LeftCleanup ==
    ASSUME LeftInv, ReplyInv', RemoveByCleanup
    PROVE  LeftInv'
<1>1. TypeInv
  BY DEF LeftInv, ReplyInv
<1>2. /\ phase = "cleanup" /\ pc = "idle" /\ queue' = Tail(queue) /\ Head(queue) \in Vid
      /\ \/ Head(queue) \in rids /\ cur' = RemoveOp(Head(queue)) /\ pc' = "pollAsic"
         \/ Head(queue) \notin rids /\ cur' = cur /\ pc' = "idle"
      /\ UNCHANGED <<created, phase, rids, memberOf>>
  BY <1>1, CleanupCalls DEF RemoveByCleanup, chipVars
<1>3. /\ \A y : Contains(Tail(queue), y) <=> Contains(queue, y) /\ y # Head(queue)
      /\ Contains(queue, Head(queue)) /\ \A a : ~Before(queue, a, Head(queue))
      /\ \A a, b : Before(queue, a, b) /\ a # Head(queue) => Before(Tail(queue), a, b)
  BY <1>1, CleanupCalls, TailList DEF TypeInv, TestTypes, UseInv
<1>4. ~Sent /\ ~Sent'
  BY <1>2 DEF Sent
<1>5. \A m \in Member : memberOf[m] # Head(queue)
  <2> SUFFICES ASSUME NEW m \in Member, memberOf[m] = Head(queue) PROVE FALSE
    OBVIOUS
  <2>1. memberOf[m] # NoObj
    BY <1>2, DlbAssumption DEF Vid
  <2>2. m \in rids
    BY <2>1 DEF LeftInv, KeptInv
  <2>3. Contains(queue, m)
    BY <1>2, <2>2 DEF LeftInv, CleanupInv
  <2> QED
    BY <1>2, <1>3, <2>3 DEF LeftInv, CleanupInv
<1>6. KeptInv'
  BY <1>2, <1>4 DEF LeftInv, KeptInv
<1>7. CallInv'
  BY <1>2, <1>4, <1>5, OpFields DEF CallInv
<1>8. CleanupInv'
  BY <1>2, <1>3, OpFields DEF LeftInv, CleanupInv
<1> QED
  BY <1>6, <1>7, <1>8 DEF LeftInv

LEMMA LeftEnd ==
    ASSUME LeftInv, ReplyInv', EndCleanup
    PROVE  LeftInv'
<1>1. /\ phase = "cleanup" /\ queue = <<>> /\ pc = "idle" /\ phase' = "done"
      /\ UNCHANGED <<pc, cur, rids, memberOf>>
  BY DEF EndCleanup, callVars, chipVars
<1>2. rids = {}
  BY <1>1 DEF LeftInv, CleanupInv, Contains
<1>3. ~Sent'
  BY <1>1 DEF Sent
<1> QED
  BY <1>1, <1>2, <1>3 DEF LeftInv, KeptInv, CallInv, CleanupInv

\* The create is over: the object is recorded exactly if it is in the chip.
LEMMA LeftRid ==
    ASSUME LeftInv, ReplyInv', WaitRid
    PROVE  LeftInv'
<1>1. /\ pc = "check" /\ cur.op = "create" /\ pc' = "idle"
      /\ created' = IF cur.vid \in rids THEN Append(created, cur.vid) ELSE created
      /\ UNCHANGED <<cur, queue, phase, rids, memberOf>>
  BY DEF WaitRid, chipVars
<1>2. cur.vid \in Vid /\ created \in Seq(Vid)
  BY <1>1 DEF LeftInv, ReplyInv, TypeInv, TestTypes, UseInv, Real
<1>3. /\ \A y : Contains(Append(created, cur.vid), y) <=> Contains(created, y) \/ y = cur.vid
      /\ \A a, b : Before(created, a, b) => Before(Append(created, cur.vid), a, b)
      /\ \A a : Contains(created, a) => Before(Append(created, cur.vid), a, cur.vid)
  BY <1>2, AppendList
<1>4. Sent /\ ~Sent'
  BY <1>1 DEF Sent
<1>5. KeptInv'
  <2>1. CASE cur.vid \in rids
    BY <1>1, <1>3, <2>1 DEF LeftInv, KeptInv
  <2>2. CASE cur.vid \notin rids
    BY <1>1, <2>2 DEF LeftInv, KeptInv
  <2> QED
    BY <2>1, <2>2
<1>6. CallInv' /\ CleanupInv'
  BY <1>1, <1>4 DEF LeftInv, CallInv, CleanupInv
<1> QED
  BY <1>5, <1>6 DEF LeftInv

\* The remove is over: the object is gone and so is its record.
LEMMA LeftForget ==
    ASSUME LeftInv, ReplyInv', Forget
    PROVE  LeftInv'
<1>1. /\ pc = "check" /\ cur.op = "remove" /\ pc' = "idle"
      /\ created' = Without(created, cur.vid)
      /\ UNCHANGED <<cur, queue, phase, rids, memberOf>>
  BY DEF Forget, chipVars
<1>2. /\ \A y : Contains(created', y) <=> Contains(created, y) /\ y # cur.vid
      /\ \A a, b : Before(created, a, b) /\ a # cur.vid /\ b # cur.vid => Before(created', a, b)
  BY <1>1, WithoutList DEF LeftInv, ReplyInv, TypeInv, TestTypes, UseInv
<1>3. Sent /\ ~Sent'
  BY <1>1 DEF Sent
<1>4. cur.vid \notin rids /\ \A m \in Member : memberOf[m] # cur.vid
  BY <1>1, <1>3 DEF LeftInv, ReplyInv, SlotReplies, CallInv
<1>5. KeptInv'
  BY <1>1, <1>2, <1>4 DEF LeftInv, KeptInv
<1>6. CallInv' /\ CleanupInv'
  BY <1>1, <1>3, <1>4 DEF LeftInv, CallInv, CleanupInv
<1> QED
  BY <1>5, <1>6 DEF LeftInv

\* syncd changes the chip only for the call at hand.
LEMMA LeftDone ==
    ASSUME LeftInv, ReplyInv', SyncdDone
    PROVE  LeftInv'
<1>1. TypeInv
  BY DEF LeftInv, ReplyInv
<1>2. /\ Slot(0) = work /\ work \in Real /\ Slots' = Slots /\ Slot(0)' = NoOp /\ 0 \in Slots
      /\ \A i \in Slots : i # 0 => Slot(i)' = Slot(i)
  BY <1>1, DoneSlots, SlotTypes
<1>3. UNCHANGED <<pc, cur, created, queue, phase>> /\ (Sent' <=> Sent)
  BY DEF SyncdDone, callVars, testVars, Sent
<1>4. CASE work.op \notin {"create", "remove"}
  <2>1. UNCHANGED <<rids, memberOf>>
    BY <1>4 DEF SyncdDone, chipVars
  <2>2. \A i \in Slots : Ours(i) => Ours(i)'
    BY <1>2, <1>4 DEF Ours
  <2>3. Sent' /\ cur.op = "remove" => cur.vid \notin rids \/ \E i \in Slots' : Ours(i)'
    BY <1>2, <1>3, <2>2 DEF LeftInv, CallInv
  <2> QED
    BY <1>3, <2>1, <2>3, LeftFrame
<1>5. CASE work.op \in {"create", "remove"}
  <2>1. pc = "reap" /\ work = cur
    BY <1>2, <1>5 DEF LeftInv, ReplyInv, SlotReplies, Ours
  <2>2. /\ cur.vid \in Vid /\ cur.vid # NoObj /\ Sent /\ memberOf \in [Member -> Group \cup {NoObj}]
        /\ phase # "done"
    <3>1. cur.vid \in Vid
      BY <1>2, <1>5, <2>1 DEF Real
    <3> QED
      BY <1>1, <2>1, <3>1, DlbAssumption DEF Vid, Sent, TypeInv, ChipTypes, LeftInv, CleanupInv
  <2>3. CASE work.op = "create"
    <3>1. \/ UNCHANGED <<rids, memberOf>>
          \/ /\ rids' = rids \cup {cur.vid}
             /\ memberOf' = IF cur.vid \in Member THEN [memberOf EXCEPT ![cur.vid] = cur.group] ELSE memberOf
      BY <2>1, <2>3 DEF SyncdDone, chipVars
    <3>2. /\ \A v \in rids' : v \in rids \/ v = cur.vid
          /\ rids \subseteq rids'
          /\ \A m \in Member :
                \/ memberOf'[m] = memberOf[m]
                \/ m = cur.vid /\ memberOf'[m] = cur.group /\ cur.vid \in rids'
      BY <2>2, <3>1
    <3>3. phase = "test"
      BY <1>1, <2>1, <2>2, <2>3 DEF LeftInv, CleanupInv, TypeInv, TestTypes
    <3>4. KeptInv'
      BY <1>3, <2>1, <2>2, <2>3, <3>2 DEF LeftInv, KeptInv, CallInv
    <3>5. CallInv'
      BY <1>3, <2>1, <2>3 DEF LeftInv, CallInv
    <3>6. CleanupInv'
      BY <1>3, <3>3 DEF CleanupInv
    <3> QED
      BY <3>4, <3>5, <3>6 DEF LeftInv
  <2>4. CASE work.op = "remove"
    <3>1. \A m \in Member : memberOf[m] # cur.vid
      BY <2>1, <2>4 DEF LeftInv, CallInv
    <3>2. /\ rids' = rids \ {cur.vid}
          /\ memberOf' = [m \in Member |-> IF m = cur.vid THEN NoObj ELSE memberOf[m]]
      BY <2>1, <2>4, <3>1 DEF SyncdDone
    <3>3. \A m \in Member : memberOf'[m] = NoObj \/ (m # cur.vid /\ memberOf'[m] = memberOf[m])
      BY <3>2
    <3>4. ~Contains(queue, NoObj)
      <4>1. queue \in Seq(Vid) /\ NoObj \notin Vid
        BY <1>1, DlbAssumption DEF Vid, TypeInv, TestTypes
      <4> QED
        BY <4>1 DEF Contains
    <3>5. KeptInv'
      BY <1>3, <2>1, <2>4, <3>2, <3>3 DEF LeftInv, KeptInv
    <3>6. CallInv'
      BY <1>3, <2>1, <2>2, <3>1, <3>2, <3>3 DEF LeftInv, CallInv
    <3>7. CleanupInv'
      BY <1>3, <2>1, <2>2, <2>4, <3>2, <3>3, <3>4 DEF LeftInv, CleanupInv
    <3> QED
      BY <3>5, <3>6, <3>7 DEF LeftInv
  <2> QED
    BY <1>5, <2>3, <2>4
<1> QED
  BY <1>4, <1>5

LEMMA LeftInit == Init => LeftInv
<1> SUFFICES ASSUME Init PROVE LeftInv
  OBVIOUS
<1>1. KeptInv
  BY DEF Init, KeptInv
<1>2. CallInv /\ CleanupInv
  BY DEF Init, CallInv, CleanupInv, Sent
<1> QED
  BY <1>1, <1>2, ReplyInit DEF LeftInv

LEMMA LeftStep == LeftInv /\ Calm' /\ "refused" \notin mishap' /\ [Next]_vars => LeftInv'
<1> SUFFICES ASSUME LeftInv, Calm', "refused" \notin mishap', [Next]_vars PROVE LeftInv'
  OBVIOUS
<1>1. ReplyInv'
  BY ReplyStep DEF LeftInv
<1>2. CASE Starts
  BY <1>1, <1>2, LeftStart
<1>3. CASE StartCleanup \/ RemoveByCleanup \/ EndCleanup
  BY <1>1, <1>3, LeftStartCleanup, LeftCleanup, LeftEnd
<1>4. CASE WaitRid \/ Forget
  BY <1>1, <1>4, LeftRid, LeftForget
<1>5. CASE SyncdDone
  BY <1>1, <1>5, LeftDone
<1>6. CASE \/ PollAsic \/ PollResp \/ LPush \/ ReapSeen \/ RPop \/ SyncdTake \/ SyncdDies
           \/ OrchBulk \/ OrchTake \/ OrchTimeout \/ UNCHANGED vars \/ \E x \in NextHop : NhGone(x)
  BY <1>1, <1>6, LeftQueues
<1>7. ~QuiesceTimeout /\ ~ReapTimeout
  BY DEF QuiesceTimeout, ReapTimeout, Calm
<1> QED
  BY <1>2, <1>3, <1>4, <1>5, <1>6, <1>7 DEF Next, Starts, Push

\* Under the same conditions, and if quiesce refused no call, cleanup leaves no object of
\* the test in the chip, whatever syncd refused on the way.
THEOREM CleanupEmptiesChip == Spec => []CleanupComplete
<1> DEFINE Inv == Calm /\ "refused" \notin mishap => LeftInv
<1>1. Init => Inv
  BY LeftInit
<1>2. Inv /\ [Next]_vars => Inv'
  BY LeftStep, MishapGrows DEF Calm
<1>3. Inv => CleanupComplete
  BY DEF CleanupComplete, LeftInv, CleanupInv, Calm
<1> QED
  BY <1>1, <1>2, <1>3, PTL DEF Spec

-----------------------------------------------------------------------------
(* The life of a service.                                                  *)

BoolOK == open \in BOOLEAN /\ flag \in BOOLEAN /\ sure \in BOOLEAN /\ conf \in BOOLEAN

\* Where the thread of each kind can be, and what it still holds.
LifeInv ==
    /\ kind = "udp" => thr \in {"none", "top", "recv", "handle", "reply", "gone"}
    /\ kind = "tcp" => thr \in {"none", "top", "recv", "talk", "gone"}
    /\ kind = "http" => thr \in {"none", "top", "recv", "gone"}
    /\ kind \in Sniffs => thr \in {"none", "warm", "run", "gone"} /\ ~open
    /\ kind = "proc" => thr \in {"none", "run", "gone"} /\ ~open
    /\ kind # "proc" => ~conf
    /\ kind # "http" => hands = 0
    /\ main = "new" => thr = "none" /\ ~open /\ ~conf
    /\ main \in {"wait", "using"} => thr # "none"
    /\ sure => kind \in Sniffs /\ thr \in {"run", "gone"}
    /\ thr \in {"handle", "talk"} => log < MaxLog

\* What stop() has done by each of its stages.
StopInv ==
    /\ kind \in Loops /\ main \in {"told", "join", "done"} => flag
    /\ kind \in Loops /\ main \in {"join", "done"} => ~open
    /\ kind = "http" /\ main = "join" => thr = "gone"
    /\ kind = "sniff" /\ main = "join" => thr = "gone" \/ ~sure
    /\ main = "told" => kind \in Loops
    /\ main = "join" => kind \in Loops \cup {"sniff"}
    /\ main = "closed" => kind = "capture" /\ thr = "gone"
    /\ main = "kill" => kind = "proc"

ServerInv == ServerTypeOK /\ LifeInv /\ StopInv /\ NoGhost

LEMMA ServerBools == ServerTypeOK => BoolOK
BY DEF ServerTypeOK, BoolOK

LEMMA ServerStart == ServerInit => ServerInv
<1> SUFFICES ASSUME ServerInit PROVE ServerInv
  OBVIOUS
<1>0. BoolOK
  BY DEF ServerInit, NewServer, BoolOK
<1>1. log \in 0..MaxLog /\ kept \in 0..MaxLog /\ hands \in 0..MaxHands
  BY ServersAssumption DEF ServerInit, NewServer
<1>2. ServerTypeOK
  BY <1>0, <1>1 DEF ServerInit, NewServer, ServerTypeOK, BoolOK
<1>3. LifeInv /\ StopInv /\ NoGhost
  BY DEF ServerInit, NewServer, LifeInv, StopInv, NoGhost, Sniffs, Loops
<1> QED
  BY <1>2, <1>3 DEF ServerInv

LEMMA StartTypes == ServerTypeOK /\ StartSteps => ServerTypeOK'
<1> SUFFICES ASSUME ServerTypeOK, StartSteps PROVE ServerTypeOK'
  OBVIOUS
<1>1. BoolOK /\ BoolOK'
  BY ServerBools DEF StartSteps, StartLoop, StartSniffer, SnifferStarted, StartProcess, ProcessStarted, BoolOK
<1> QED
  BY <1>1 DEF ServerTypeOK, StartSteps, StartLoop, StartSniffer, SnifferStarted, StartProcess, ProcessStarted, BoolOK

LEMMA ThreadTypes == ServerTypeOK /\ LifeInv /\ ThreadSteps => ServerTypeOK'
<1> SUFFICES ASSUME ServerTypeOK, LifeInv, ThreadSteps PROVE ServerTypeOK'
  OBVIOUS
<1>0. thr \in {"none", "warm", "top", "recv", "handle", "reply", "talk", "run", "gone"}
  BY DEF ServerTypeOK
<1>1. /\ thr' \in {"none", "warm", "top", "recv", "handle", "reply", "talk", "run", "gone"}
      /\ UNCHANGED <<kind, main, open, flag, sure, kept, conf>>
  BY <1>0 DEF ThreadSteps, LoopTop, Receive, Accept, HandlerEnds, Record, Reply, ClientSpeaks, SnifferReady, Packet, ProcessDies, Thread
<1>2. log' = log \/ (log < MaxLog /\ log' = log + 1)
  BY DEF LifeInv, ThreadSteps, LoopTop, Receive, Accept, HandlerEnds, Record, Reply, ClientSpeaks, SnifferReady, Packet, ProcessDies, Thread
<1>3. log' \in 0..MaxLog
  BY <1>2, ServersAssumption DEF ServerTypeOK
<1>4. hands' = hands \/ (hands < MaxHands /\ hands' = hands + 1) \/ (hands > 0 /\ hands' = hands - 1)
  BY DEF ThreadSteps, LoopTop, Receive, Accept, HandlerEnds, Record, Reply, ClientSpeaks, SnifferReady, Packet, ProcessDies, Thread
<1>5. hands' \in 0..MaxHands
  BY <1>4, ServersAssumption DEF ServerTypeOK
<1> QED
  BY <1>1, <1>3, <1>5 DEF ServerTypeOK

LEMMA StopTypes == ServerTypeOK /\ StopSteps => ServerTypeOK'
<1> SUFFICES ASSUME ServerTypeOK, StopSteps PROVE ServerTypeOK'
  OBVIOUS
<1>1. BoolOK /\ BoolOK'
  BY ServerBools DEF StopSteps, TellStop, CloseSocket, Shutdown, Join, StopResponder, StopCapture, Terminate, Main, BoolOK
<1> QED
  BY <1>1 DEF ServerTypeOK, StopSteps, TellStop, CloseSocket, Shutdown, Join, StopResponder, StopCapture, Terminate, Main, BoolOK

LEMMA StartKeeps == ServerInv /\ StartSteps => ServerInv'
<1> SUFFICES ASSUME ServerInv, StartSteps PROVE ServerInv'
  OBVIOUS
<1>1. ServerTypeOK'
  BY StartTypes DEF ServerInv
<1>2. LifeInv'
  BY DEF ServerInv, ServerTypeOK, LifeInv, StartSteps, StartLoop, StartSniffer, SnifferStarted, StartProcess, ProcessStarted, Loops, Sniffs, Kind
<1>3. StopInv' /\ NoGhost'
  BY DEF ServerInv, StopInv, NoGhost, StartSteps, StartLoop, StartSniffer, SnifferStarted, StartProcess, ProcessStarted
<1> QED
  BY <1>1, <1>2, <1>3 DEF ServerInv

LEMMA ThreadKeeps == ServerInv /\ ThreadSteps => ServerInv'
<1> SUFFICES ASSUME ServerInv, ThreadSteps PROVE ServerInv'
  OBVIOUS
<1> USE DEF ServerInv, Thread
<1>1. ServerTypeOK'
  BY ThreadTypes
<1>2. CASE LoopTop
  BY <1>1, <1>2 DEF LoopTop, LifeInv, StopInv, NoGhost, Sniffs, Loops
<1>3. CASE Receive
  BY <1>1, <1>3 DEF Receive, Accept, LifeInv, StopInv, NoGhost, Sniffs, Loops
<1>4. CASE Record \/ Reply
  BY <1>1, <1>4 DEF Record, Reply, LifeInv, StopInv, NoGhost, Sniffs, Loops, ServerTypeOK, Kind
<1>5. CASE ClientSpeaks
  BY <1>1, <1>5 DEF ClientSpeaks, LifeInv, StopInv, NoGhost, Sniffs, Loops, ServerTypeOK, Kind
<1>6. CASE SnifferReady
  BY <1>1, <1>6 DEF SnifferReady, LifeInv, StopInv, NoGhost, Sniffs, Loops, ServerTypeOK, Kind
<1>7. CASE Packet
  BY <1>1, <1>7 DEF Packet, LifeInv, StopInv, NoGhost, Sniffs, Loops, ServerTypeOK, Kind
<1>8. CASE ProcessDies
  BY <1>1, <1>8 DEF ProcessDies, LifeInv, StopInv, NoGhost, Sniffs, Loops
<1>9. CASE HandlerEnds
  BY <1>1, <1>9 DEF HandlerEnds, LifeInv, StopInv, NoGhost, Sniffs, Loops, ServerTypeOK
<1> QED
  BY <1>2, <1>3, <1>4, <1>5, <1>6, <1>7, <1>8, <1>9 DEF ThreadSteps

LEMMA StopKeeps == ServerInv /\ StopSteps => ServerInv'
<1> SUFFICES ASSUME ServerInv, StopSteps PROVE ServerInv'
  OBVIOUS
<1> USE DEF ServerInv, Main
<1>1. ServerTypeOK'
  BY StopTypes
<1>2. CASE TellStop \/ CloseSocket
  BY <1>1, <1>2 DEF TellStop, CloseSocket, LifeInv, StopInv, NoGhost, Sniffs, Loops
<1>3. CASE Shutdown \/ Join
  BY <1>1, <1>3 DEF Shutdown, Join, LifeInv, StopInv, NoGhost, Sniffs, Loops
<1>4. CASE StopResponder
  BY <1>1, <1>4 DEF StopResponder, LifeInv, StopInv, NoGhost, Sniffs, Loops
<1>5. CASE StopCapture
  BY <1>1, <1>5 DEF StopCapture, LifeInv, StopInv, NoGhost, Sniffs, Loops
<1>6. CASE Terminate
  BY <1>1, <1>6 DEF Terminate, LifeInv, StopInv, NoGhost, Sniffs, Loops
<1> QED
  BY <1>2, <1>3, <1>4, <1>5, <1>6 DEF StopSteps

\* The process is gone, and the mock with it.
LEMMA ServerGone ==
    ASSUME ServerInv, kind = "http", main' = "new", thr' = "none", open' = FALSE, flag' = FALSE,
           hands' = 0, UNCHANGED <<kind, sure, log, kept, conf>>
    PROVE  ServerInv'
<1>1. ServerTypeOK'
  <2>1. BoolOK /\ BoolOK'
    BY ServerBools DEF ServerInv, BoolOK
  <2>2. hands' \in 0..MaxHands
    BY ServersAssumption
  <2> QED
    BY <2>1, <2>2 DEF ServerInv, ServerTypeOK, BoolOK
<1>2. LifeInv' /\ StopInv' /\ NoGhost'
  BY DEF ServerInv, LifeInv, StopInv, NoGhost, Sniffs, Loops
<1> QED
  BY <1>1, <1>2 DEF ServerInv

LEMMA ServerIdle == ServerInv /\ UNCHANGED server => ServerInv'
BY DEF ServerInv, ServerTypeOK, LifeInv, StopInv, NoGhost, server

-----------------------------------------------------------------------------
(* The chain.                                                              *)

Plans ==
    {Recovery, <<"restore", "restart", "settle">>, <<"restart", "settle">>, <<"settle">>, <<"tidy">>}
Endings(u) ==
    IF u = "pytest"
    THEN {<<"restore", "stop", "restart", "settle">>, <<"stop", "restart", "settle">>,
          <<"restart", "settle">>, <<"settle">>}
    ELSE {<<"stop", "restart">>, <<"restart">>}

HarnessTypes ==
    /\ user \in User /\ stage \in {"out", "idle", "test", "body", "recover", "end", "closed"}
    /\ tests \in 0..MaxTests /\ sessions \in 0..MaxSessions /\ ok \in BOOLEAN
    /\ applied \subseteq Rule /\ base \in Answers /\ answer \in Answers
DeviceTypes ==
    /\ rules \in [Rule -> 0..MaxRules]
    /\ sync \in {"off", "dead", "idle", "mock", "served", "real"} \cup Answers
    /\ cache \in {"good", "bad", "torn", "none"} /\ young \in BOOLEAN
    /\ pmon \in {"ok", "worse"} /\ unit \in {"well", "failed"}

\* The jobs that are left, by stage.
JobsInv ==
    /\ kind # "http" => stage = "out"
    /\ stage = "recover" => todo \in Plans
    /\ stage = "end" => todo \in Endings(user)
    /\ stage \notin {"recover", "end"} => todo = <<>>

\* No answer of the mock is on its way, unless the restart failed.
Clear == NoRule /\ (unit = "well" => sync \notin {"off", "mock", "served", "bad", "junk"})

\* What the jobs that are done have brought about.
CleanInv ==
    /\ stage = "recover" =>
          /\ todo # Recovery /\ todo # <<"tidy">> => answer = base
          /\ todo \in {<<"restart", "settle">>, <<"settle">>} => NoRule
          /\ todo = <<"settle">> => Clear
    /\ stage = "end" =>
          /\ ok => NoRule
          /\ user = "pytest" /\ todo # <<"restore", "stop", "restart", "settle">> => NoRule
    /\ stage = "idle" /\ ok => Clear /\ answer = base
    /\ stage = "closed" /\ ok => NoRule

ChainInv == ServerInv /\ HarnessTypes /\ DeviceTypes /\ JobsInv /\ CleanInv

LEMMA ChainConcludes == ChainInv => ChainTypeOK /\ NoGhost /\ RecoveredMeansClean
<1> SUFFICES ASSUME ChainInv PROVE ChainTypeOK /\ NoGhost /\ RecoveredMeansClean
  OBVIOUS
<1>1. todo \in Seq(Job)
  <2>1. todo \in Plans \cup Endings(user) \cup {<<>>}
    BY DEF ChainInv, JobsInv, HarnessTypes
  <2>2. {"reset", "restore", "tidy", "restart", "settle", "stop"} \subseteq Job
    BY DEF Job
  <2>3. Plans \subseteq Seq(Job)
    BY <2>2 DEF Plans, Recovery
  <2>4. Endings(user) \subseteq Seq(Job)
    <3>1. {<<"restore", "stop", "restart", "settle">>, <<"stop", "restart", "settle">>,
           <<"restart", "settle">>, <<"settle">>} \subseteq Seq(Job)
      BY <2>2
    <3>2. {<<"stop", "restart">>, <<"restart">>} \subseteq Seq(Job)
      BY <2>2
    <3> QED
      BY <3>1, <3>2 DEF Endings
  <2>5. <<>> \in Seq(Job)
    OBVIOUS
  <2> QED
    BY <2>1, <2>3, <2>4, <2>5
<1>2. ServerTypeOK /\ NoGhost
  BY DEF ChainInv, ServerInv
<1>3. ChainTypeOK
  BY <1>1, <1>2 DEF ChainInv, HarnessTypes, DeviceTypes, ChainTypeOK
<1>4. RecoveredMeansClean
  BY DEF ChainInv, CleanInv, Clear, RecoveredMeansClean
<1> QED
  BY <1>2, <1>3, <1>4

LEMMA ChainStart == ChainInit => ChainInv
<1> SUFFICES ASSUME ChainInit PROVE ChainInv
  OBVIOUS
<1>1. ServerInv
  BY ServerStart DEF ChainInit
<1>0. tests \in 0..MaxTests /\ sessions \in 0..MaxSessions /\ rules \in [Rule -> 0..MaxRules]
  BY ChainAssumption DEF ChainInit
<1>2. HarnessTypes /\ DeviceTypes
  BY <1>0 DEF ChainInit, HarnessTypes, DeviceTypes, User, Answers
<1>3. JobsInv /\ CleanInv
  BY DEF ChainInit, JobsInv, CleanInv
<1> QED
  BY <1>1, <1>2, <1>3 DEF ChainInv

\* Steps of services and of the switch.
LEMMA ServiceKeeps == ChainInv /\ (MockSteps \/ OtherSteps) => ChainInv'
<1> SUFFICES ASSUME ChainInv, MockSteps \/ OtherSteps PROVE ChainInv'
  OBVIOUS
<1>1. ServerInv'
  BY StartKeeps, ThreadKeeps, StopKeeps DEF ChainInv, MockSteps, OtherSteps, ThreadSteps, StopSteps
<1>2. UNCHANGED <<device, harness, kind>>
  BY DEF MockSteps, OtherSteps, StartSteps, ThreadSteps, StopSteps, StartLoop, StartSniffer, SnifferStarted,
     StartProcess, ProcessStarted, LoopTop, Receive, Accept, HandlerEnds, Record, Reply, ClientSpeaks, SnifferReady, Packet, ProcessDies,
     TellStop, CloseSocket, Shutdown, Join, StopResponder, StopCapture, Terminate, Main, Thread
<1> QED
  BY <1>1, <1>2 DEF ChainInv, HarnessTypes, DeviceTypes, JobsInv, CleanInv, Clear, NoRule, device, harness

LEMMA DeviceKeeps == ChainInv /\ Device => ChainInv'
<1> SUFFICES ASSUME ChainInv, Device PROVE ChainInv'
  OBVIOUS
<1>0. \/ Accept \/ HandlerEnds
      \/ UNCHANGED server
  BY DEF Device, Ask, ServeSync, MockReply, NoReply, RealReply, Write, Age, SyncComesBack, PmonSuffers
<1>1. UNCHANGED <<kind, harness, rules, unit>>
  BY <1>0 DEF Device, Ask, ServeSync, MockReply, NoReply, RealReply, Write, Age, SyncComesBack, PmonSuffers,
     Accept, HandlerEnds, Thread, server
<1>2. ServerInv'
  BY <1>0, ServerIdle, ThreadKeeps DEF ChainInv, ThreadSteps, Receive
<1>3. HarnessTypes' /\ JobsInv'
  BY <1>1 DEF ChainInv, HarnessTypes, JobsInv, harness
<1>4. DeviceTypes'
  BY <1>1 DEF ChainInv, HarnessTypes, DeviceTypes, Answers, Device, Ask, ServeSync, MockReply, NoReply, RealReply, Write, Age,
     SyncComesBack, PmonSuffers
<1>5. NoRule' <=> NoRule
  BY <1>1 DEF NoRule
<1>6. Clear => Clear'
  <2> SUFFICES ASSUME Clear PROVE Clear'
    OBVIOUS
  <2>1. rules["mock"] = 0
    BY DEF Clear, NoRule, Rule
  <2>2. unit' = "well" => sync' \notin {"off", "mock", "served", "bad", "junk"}
    BY <1>1, <2>1 DEF Clear, Device, Ask, ServeSync, MockReply, NoReply, RealReply, Write, Age, SyncComesBack, PmonSuffers
  <2> QED
    BY <1>5, <2>2 DEF Clear
<1>7. CleanInv'
  BY <1>1, <1>5, <1>6 DEF ChainInv, CleanInv, harness
<1> QED
  BY <1>2, <1>3, <1>4, <1>7 DEF ChainInv

\* A session comes and goes.
LEMMA SessionKeeps == ChainInv /\ (SessionStart \/ Crash \/ NextProcess) => ChainInv'
<1> SUFFICES ASSUME ChainInv, SessionStart \/ Crash \/ NextProcess PROVE ChainInv'
  OBVIOUS
<1>0. UNCHANGED device /\ kind' = kind /\ kind = "http"
  BY DEF SessionStart, StartLoop, Crash, NextProcess, ChainInv, JobsInv
<1>1. ServerInv'
  <2>1. CASE SessionStart
    BY <2>1, StartKeeps DEF SessionStart, StartSteps, ChainInv
  <2>2. CASE Crash \/ NextProcess
    BY <1>0, <2>2, ServerGone DEF Crash, NextProcess, ChainInv
  <2> QED
    BY <2>1, <2>2
<1>2. HarnessTypes'
  <2>1. Snapshot \in Answers
    BY DEF ChainInv, DeviceTypes, Snapshot, Answers
  <2>2. CASE SessionStart
    <3>1. tests' \in 0..MaxTests /\ sessions' \in 0..MaxSessions
      BY <2>2, ChainAssumption DEF SessionStart, ChainInv, HarnessTypes
    <3> QED
      BY <2>1, <2>2, <3>1 DEF SessionStart, ChainInv, HarnessTypes
  <2>3. CASE Crash \/ NextProcess
    BY <2>3 DEF Crash, NextProcess, ChainInv, HarnessTypes
  <2> QED
    BY <2>2, <2>3
<1>3. DeviceTypes'
  BY <1>0 DEF ChainInv, DeviceTypes, device
<1>4. JobsInv'
  BY <1>0 DEF ChainInv, JobsInv, SessionStart, Crash, NextProcess
<1>5. CleanInv'
  BY <1>0 DEF ChainInv, CleanInv, SessionStart, Crash, NextProcess
<1> QED
  BY <1>1, <1>2, <1>3, <1>4, <1>5 DEF ChainInv

\* A test, up to its recovery.
LEMMA TestKeeps ==
    ASSUME ChainInv,
           TestStart \/ EndBody \/ Disturb \/ Teardown \/ (\E a \in {"bad", "junk"} : Mutate(a))
           \/ (\E r \in Rule : Redirect(r))
    PROVE  ChainInv'
<1>1. UNCHANGED server
  BY DEF TestStart, EndBody, Disturb, Teardown, Mutate, Redirect
<1>2. ServerInv'
  BY <1>1, ServerIdle DEF ChainInv
<1>3. CASE TestStart \/ Teardown
  <2>1. HarnessTypes' /\ DeviceTypes'
    BY <1>3, ChainAssumption DEF TestStart, Teardown, ChainInv, HarnessTypes, DeviceTypes, device
  <2>2. JobsInv'
    BY <1>1, <1>3 DEF TestStart, Teardown, ChainInv, JobsInv, Closing, Endings, HarnessTypes, User, server
  <2>3. CleanInv'
    BY <1>3 DEF TestStart, Teardown, ChainInv, CleanInv, Closing, Clear, NoRule, HarnessTypes, User, device
  <2> QED
    BY <1>2, <2>1, <2>2, <2>3 DEF ChainInv
<1>4. CASE EndBody
  <2>1. HarnessTypes' /\ DeviceTypes'
    BY <1>4 DEF EndBody, Bail, ChainInv, HarnessTypes, DeviceTypes, device
  <2>2. JobsInv'
    BY <1>1, <1>4 DEF EndBody, Bail, ChainInv, JobsInv, Plans, HarnessTypes, User, server
  <2>3. CleanInv'
    BY <1>4 DEF EndBody, Bail, ChainInv, CleanInv, Recovery, HarnessTypes, User
  <2> QED
    BY <1>2, <2>1, <2>2, <2>3 DEF ChainInv
<1>5. CASE Disturb
  <2>1. HarnessTypes' /\ DeviceTypes'
    BY <1>5 DEF Disturb, ChainInv, HarnessTypes, DeviceTypes, harness
  <2>2. JobsInv' /\ CleanInv'
    BY <1>1, <1>5 DEF Disturb, ChainInv, JobsInv, CleanInv, harness, server
  <2> QED
    BY <1>2, <2>1, <2>2 DEF ChainInv
<1>6. ASSUME NEW a \in {"bad", "junk"}, Mutate(a) PROVE ChainInv'
  <2>1. HarnessTypes' /\ DeviceTypes'
    BY <1>6 DEF Mutate, ChainInv, HarnessTypes, DeviceTypes, device, Answers
  <2>2. JobsInv' /\ CleanInv'
    BY <1>1, <1>6 DEF Mutate, ChainInv, JobsInv, CleanInv, server
  <2> QED
    BY <1>2, <2>1, <2>2 DEF ChainInv
<1>7. ASSUME NEW r \in Rule, Redirect(r) PROVE ChainInv'
  <2>1. rules' \in [Rule -> 0..MaxRules]
    BY <1>7, ChainAssumption DEF Redirect, ChainInv, DeviceTypes
  <2>2. HarnessTypes' /\ DeviceTypes'
    BY <1>7, <2>1 DEF Redirect, Bail, ChainInv, HarnessTypes, DeviceTypes
  <2>3. JobsInv' /\ CleanInv'
    BY <1>1, <1>7 DEF Redirect, Bail, ChainInv, JobsInv, CleanInv, Plans, Recovery, HarnessTypes, User, server
  <2> QED
    BY <1>2, <2>2, <2>3 DEF ChainInv
<1> QED
  BY <1>3, <1>4, <1>5, <1>6, <1>7

-----------------------------------------------------------------------------
(* Jobs.                                                                   *)

LEMMA Behind ==
    /\ \A a : Head(<<a>>) = a /\ Tail(<<a>>) = <<>>
    /\ \A a, b : Head(<<a, b>>) = a /\ Tail(<<a, b>>) = <<b>>
    /\ \A a, b, c : Head(<<a, b, c>>) = a /\ Tail(<<a, b, c>>) = <<b, c>>
    /\ \A a, b, c, d : Head(<<a, b, c, d>>) = a /\ Tail(<<a, b, c, d>>) = <<b, c, d>>
OBVIOUS

\* The job that is due, and the ones behind it.
LEMMA JobLists ==
    ASSUME ChainInv, NEW j, Due(j)
    PROVE  /\ stage = "recover" =>
                  \/ todo = Recovery /\ j = "reset" /\ Tail(todo) = <<"restore", "restart", "settle">>
                  \/ /\ todo = <<"restore", "restart", "settle">> /\ j = "restore"
                     /\ Tail(todo) = <<"restart", "settle">>
                  \/ todo = <<"restart", "settle">> /\ j = "restart" /\ Tail(todo) = <<"settle">>
                  \/ todo = <<"settle">> /\ j = "settle" /\ Tail(todo) = <<>>
                  \/ todo = <<"tidy">> /\ j = "tidy" /\ Tail(todo) = <<>>
           /\ stage = "end" /\ user = "pytest" =>
                  \/ /\ todo = <<"restore", "stop", "restart", "settle">> /\ j = "restore"
                     /\ Tail(todo) = <<"stop", "restart", "settle">>
                  \/ /\ todo = <<"stop", "restart", "settle">> /\ j = "stop"
                     /\ Tail(todo) = <<"restart", "settle">>
                  \/ todo = <<"restart", "settle">> /\ j = "restart" /\ Tail(todo) = <<"settle">>
                  \/ todo = <<"settle">> /\ j = "settle" /\ Tail(todo) = <<>>
           /\ stage = "end" /\ user # "pytest" =>
                  \/ todo = <<"stop", "restart">> /\ j = "stop" /\ Tail(todo) = <<"restart">>
                  \/ todo = <<"restart">> /\ j = "restart" /\ Tail(todo) = <<>>
<1>1. stage = "recover" => todo \in Plans
  BY DEF ChainInv, JobsInv
<1>2. stage = "end" => todo \in Endings(user)
  BY DEF ChainInv, JobsInv
<1>3. Head(todo) = j
  BY DEF Due
<1>4. CASE stage = "recover"
  <2>1. CASE todo = <<"reset", "restore", "restart", "settle">>
    BY <1>3, <1>4, <2>1, Behind DEF Recovery
  <2>2. CASE todo = <<"restore", "restart", "settle">>
    BY <1>3, <1>4, <2>2, Behind
  <2>3. CASE todo = <<"restart", "settle">>
    BY <1>3, <1>4, <2>3, Behind
  <2>4. CASE todo = <<"settle">> \/ todo = <<"tidy">>
    BY <1>3, <1>4, <2>4, Behind
  <2> QED
    BY <1>1, <1>4, <2>1, <2>2, <2>3, <2>4 DEF Plans, Recovery
<1>5. CASE stage = "end" /\ user = "pytest"
  <2>1. CASE todo = <<"restore", "stop", "restart", "settle">>
    BY <1>3, <1>5, <2>1, Behind
  <2>2. CASE todo = <<"stop", "restart", "settle">>
    BY <1>3, <1>5, <2>2, Behind
  <2>3. CASE todo = <<"restart", "settle">> \/ todo = <<"settle">>
    BY <1>3, <1>5, <2>3, Behind
  <2> QED
    BY <1>2, <1>5, <2>1, <2>2, <2>3 DEF Endings
<1>6. CASE stage = "end" /\ user # "pytest"
  <2>1. CASE todo = <<"stop", "restart">> \/ todo = <<"restart">>
    BY <1>3, <1>6, <2>1, Behind
  <2> QED
    BY <1>2, <1>6, <2>1 DEF Endings
<1> QED
  BY <1>4, <1>5, <1>6 DEF Due

\* The lists are different.
LEMMA ListsDiffer ==
    /\ Recovery # <<"restore", "restart", "settle">> /\ Recovery # <<"restart", "settle">>
    /\ Recovery # <<"settle">> /\ Recovery # <<"tidy">>
    /\ <<"restore", "restart", "settle">> # <<"restart", "settle">>
    /\ <<"restore", "restart", "settle">> # <<"settle">>
    /\ <<"restart", "settle">> # <<"settle">> /\ <<"settle">> # <<"tidy">>
    /\ <<"restore", "restart", "settle">> # <<"tidy">> /\ <<"restart", "settle">> # <<"tidy">>
BY DEF Recovery

\* The stage is over with its last job.
LEMMA Stays ==
    ASSUME NEW j, Done(j)
    PROVE  /\ \A a : Tail(todo) = <<a>> => stage' = stage
           /\ \A a, b : Tail(todo) = <<a, b>> => stage' = stage
           /\ \A a, b, c : Tail(todo) = <<a, b, c>> => stage' = stage
           /\ Tail(todo) = <<>> => stage' = (IF stage = "end" THEN "closed" ELSE "idle")
<1>1. /\ \A a : Len(<<a>>) > 0
      /\ \A a, b : Len(<<a, b>>) > 0
      /\ \A a, b, c : Len(<<a, b, c>>) > 0
      /\ ~(Len(<<>>) > 0)
  OBVIOUS
<1>2. stage' = IF Len(Tail(todo)) > 0 THEN stage ELSE IF stage = "end" THEN "closed" ELSE "idle"
  BY DEF Done, After
<1> QED
  BY <1>1, <1>2

\* The list after a job is one of the lists.
LEMMA JobsMove ==
    ASSUME ChainInv, NEW j, Due(j), Done(j) \/ (Raise /\ (stage = "end" => user = "pytest")),
           UNCHANGED server
    PROVE  JobsInv'
<1>1. UNCHANGED <<user, kind>> /\ stage \in {"recover", "end"} /\ kind = "http"
  BY DEF Done, Raise, server, Due, ChainInv, JobsInv
<1>2. CASE Raise /\ (stage = "end" => user = "pytest")
  <2>1. CASE user = "pytest"
    <3>1. todo' = <<>> /\ stage' \in {"closed", "idle"}
      BY <1>2, <2>1 DEF Raise, After
    <3> QED
      BY <1>1, <3>1 DEF JobsInv
  <2>2. CASE user # "pytest"
    <3>1. todo' = <<"tidy">> /\ stage' = "recover"
      BY <1>1, <1>2, <2>2 DEF Raise
    <3> QED
      BY <1>1, <3>1 DEF JobsInv, Plans
  <2> QED
    BY <2>1, <2>2
<1>3. CASE Done(j)
  <2>1. todo' = Tail(todo)
    BY <1>3 DEF Done
  <2>2. CASE stage = "recover"
    <3>1. \/ stage' = "recover" /\ todo' \in Plans
          \/ stage' = "idle" /\ todo' = <<>>
      BY <1>3, <2>1, <2>2, JobLists, Stays DEF Plans
    <3> QED
      BY <1>1, <3>1 DEF JobsInv
  <2>3. CASE stage = "end"
    <3>1. \/ stage' = "end" /\ todo' \in Endings(user)
          \/ stage' = "closed" /\ todo' = <<>>
      BY <1>3, <2>1, <2>3, JobLists, Stays DEF Endings
    <3> QED
      BY <1>1, <3>1 DEF JobsInv
  <2> QED
    BY <1>1, <2>2, <2>3
<1> QED
  BY <1>2, <1>3

\* What the jobs have in common.
LEMMA JobFrame ==
    ASSUME ChainInv, NEW j, Due(j), Done(j) \/ (Raise /\ (stage = "end" => user = "pytest")),
           UNCHANGED <<server, base>>, answer' \in {answer, base}, applied' \in {applied, {}}
    PROVE  ServerInv' /\ HarnessTypes' /\ JobsInv'
<1>1. ServerInv'
  BY ServerIdle DEF ChainInv
<1>2. JobsInv'
  BY JobsMove
<1>3. /\ stage' \in {"out", "idle", "test", "body", "recover", "end", "closed"}
      /\ ok' \in BOOLEAN /\ UNCHANGED <<user, tests, sessions>>
  BY DEF ChainInv, HarnessTypes, Done, Raise, After
<1>4. HarnessTypes'
  BY <1>3 DEF ChainInv, HarnessTypes
<1> QED
  BY <1>1, <1>2, <1>4

\* A job that raises leaves nothing to show for.
LEMMA Raised ==
    ASSUME ChainInv, NEW j, Due(j), Raise, stage = "end" => user = "pytest"
    PROVE  CleanInv'
<1>1. ~ok' /\ stage \in {"recover", "end"}
  BY DEF Raise, Due
<1>2. CASE user = "pytest"
  BY <1>1, <1>2 DEF Raise, After, CleanInv
<1>3. CASE user # "pytest"
  <2>1. stage' = "recover" /\ todo' = <<"tidy">>
    BY <1>1, <1>3 DEF Raise
  <2> QED
    BY <1>1, <2>1, ListsDiffer DEF CleanInv
<1> QED
  BY <1>2, <1>3

\* A rule is deleted or not; none comes back.
LEMMA Deleted ==
    ASSUME DeviceTypes, NEW D
    PROVE  Delete(D) \in [Rule -> 0..MaxRules] /\ (NoRule => Delete(D) = rules)
<1>1. MaxRules \in Nat
  BY ChainAssumption
<1>2. \A r \in Rule : rules[r] \in 0..MaxRules
  BY DEF DeviceTypes
<1>3. \A r \in Rule : rules[r] > 0 => rules[r] - 1 \in 0..MaxRules
  BY <1>1, <1>2
<1>4. Delete(D) \in [Rule -> 0..MaxRules]
  BY <1>2, <1>3 DEF Delete
<1>5. ASSUME NoRule PROVE Delete(D) = rules
  <2>1. \A r \in Rule : ~(rules[r] > 0)
    BY <1>5 DEF NoRule
  <2>2. Delete(D) = [r \in Rule |-> rules[r]]
    BY <2>1 DEF Delete
  <2> QED
    BY <2>2 DEF DeviceTypes
<1> QED
  BY <1>4, <1>5

LEMMA JobsKeep ==
    ASSUME ChainInv, Reset \/ Restore \/ Tidy \/ RestartSync \/ Settle \/ Observe \/ StopMock
    PROVE  ChainInv'
<1>0. stage \in {"recover", "end"} => user \in User
  BY DEF ChainInv, HarnessTypes
<1>1. CASE Reset
  <2>1. Due("reset") /\ Done("reset") /\ answer' = base /\ UNCHANGED <<server, device, applied, base>>
    BY <1>1 DEF Reset
  <2>2. ServerInv' /\ HarnessTypes' /\ JobsInv'
    BY <2>1, JobFrame
  <2>3. DeviceTypes'
    BY <2>1 DEF ChainInv, DeviceTypes, device
  <2>4. stage = "recover" /\ Tail(todo) = <<"restore", "restart", "settle">>
    BY <2>1, JobLists DEF Due
  <2>5. stage' = "recover" /\ todo' = <<"restore", "restart", "settle">>
    BY <2>1, <2>4, Stays DEF Done
  <2>6. CleanInv'
    BY <2>1, <2>5, ListsDiffer DEF CleanInv
  <2> QED
    BY <2>2, <2>3, <2>6 DEF ChainInv
<1>2. CASE Restore
  <2>1. PICK D \in SUBSET applied :
            /\ rules' = Delete(D) /\ applied' = {}
            /\ IF \A r \in Rule : rules'[r] = 0 THEN Done("restore") ELSE Raise
    BY <1>2 DEF Restore
  <2>2. Due("restore") /\ UNCHANGED <<server, base, answer, sync, cache, young, pmon, unit>>
    BY <1>2 DEF Restore
  <2>3. stage = "end" => user = "pytest"
    BY <2>2, JobLists
  <2>4. ServerInv' /\ HarnessTypes' /\ JobsInv'
    BY <2>1, <2>2, <2>3, JobFrame
  <2>5. DeviceTypes'
    BY <2>1, <2>2, Deleted DEF ChainInv, DeviceTypes
  <2>6. CASE Raise
    BY <2>2, <2>3, <2>4, <2>5, <2>6, Raised DEF ChainInv
  <2>7. CASE NoRule' /\ Done("restore")
    <3>1. CASE stage = "recover"
      <4>1. todo = <<"restore", "restart", "settle">> /\ Tail(todo) = <<"restart", "settle">>
        BY <2>2, <3>1, JobLists
      <4>2. stage' = "recover" /\ todo' = <<"restart", "settle">>
        BY <2>2, <2>7, <3>1, <4>1, Stays DEF Done
      <4>3. answer = base
        BY <3>1, <4>1, ListsDiffer DEF ChainInv, CleanInv
      <4> QED
        BY <2>2, <2>4, <2>5, <2>7, <4>2, <4>3, ListsDiffer DEF ChainInv, CleanInv
    <3>2. CASE stage = "end"
      <4>1. stage' = "end"
        BY <2>2, <2>3, <2>7, <3>2, JobLists, Stays
      <4> QED
        BY <2>4, <2>5, <2>7, <4>1 DEF ChainInv, CleanInv
    <3> QED
      BY <2>2, <3>1, <3>2 DEF Due
  <2> QED
    BY <2>1, <2>6, <2>7 DEF NoRule
<1>3. CASE Tidy
  <2>1. PICK D \in SUBSET applied : rules' = Delete(D) /\ applied' = {}
    BY <1>3 DEF Tidy
  <2>2. Due("tidy") /\ Done("tidy") /\ UNCHANGED <<server, base, answer, sync, cache, young, pmon, unit>>
    BY <1>3 DEF Tidy
  <2>3. ServerInv' /\ HarnessTypes' /\ JobsInv'
    BY <2>1, <2>2, JobFrame
  <2>4. DeviceTypes'
    BY <2>1, <2>2, Deleted DEF ChainInv, DeviceTypes
  <2>5. stage = "recover" /\ Tail(todo) = <<>>
    BY <2>2, JobLists DEF Due
  <2>6. stage' = "idle" /\ ~ok'
    BY <2>2, <2>5, Stays DEF Done
  <2> QED
    BY <2>3, <2>4, <2>6 DEF ChainInv, CleanInv
<1>4. CASE RestartSync
  <2>1. /\ Due("restart") /\ Done("restart")
        /\ \/ sync' = "idle" /\ unit' = "well"
           \/ sync' \in {sync, "off"} /\ unit' = "failed"
        /\ UNCHANGED <<server, applied, base, answer, rules, cache, young, pmon>>
    BY <1>4 DEF RestartSync
  <2>2. ServerInv' /\ HarnessTypes' /\ JobsInv'
    BY <2>1, JobFrame
  <2>3. DeviceTypes'
    BY <2>1 DEF ChainInv, DeviceTypes
  <2>4. NoRule => NoRule' /\ Clear'
    BY <2>1 DEF NoRule, Clear
  <2>5. CASE stage = "recover"
    <3>1. NoRule /\ answer = base /\ stage' = "recover" /\ todo' = <<"settle">>
      BY <2>1, <2>5, JobLists, Stays, ListsDiffer DEF Done, ChainInv, CleanInv
    <3> QED
      BY <2>1, <2>2, <2>3, <2>4, <3>1, ListsDiffer DEF ChainInv, CleanInv
  <2>6. CASE stage = "end" /\ user = "pytest"
    <3>1. stage' = "end" /\ todo = <<"restart", "settle">>
      BY <2>1, <2>6, JobLists, Stays
    <3>2. NoRule
      <4>1. <<"restart", "settle">> # <<"restore", "stop", "restart", "settle">>
        OBVIOUS
      <4> QED
        BY <2>6, <3>1, <4>1 DEF ChainInv, CleanInv
    <3> QED
      BY <2>2, <2>3, <2>4, <3>1, <3>2 DEF ChainInv, CleanInv
  <2>7. CASE stage = "end" /\ user # "pytest"
    <3>1. stage' \in {"end", "closed"} /\ user' = user
      BY <2>1, <2>7, JobLists, Stays DEF Done
    <3>2. ok' = ok
      BY <1>0, <2>1, <2>7 DEF Done, User
    <3> QED
      BY <2>2, <2>3, <2>4, <2>7, <3>1, <3>2 DEF ChainInv, CleanInv
  <2> QED
    BY <2>1, <2>5, <2>6, <2>7 DEF Due
<1>5. CASE Settle
  <2>1. /\ Due("settle") /\ user = "pytest" /\ (Done("settle") \/ Raise)
        /\ UNCHANGED <<server, applied, base, answer, rules, sync, cache, young, unit>>
    BY <1>5 DEF Settle
  <2>2. ServerInv' /\ HarnessTypes' /\ JobsInv'
    BY <2>1, JobFrame
  <2>3. DeviceTypes'
    BY <1>5 DEF Settle, ChainInv, DeviceTypes
  <2>4. CASE Raise
    BY <2>1, <2>2, <2>3, <2>4, Raised DEF ChainInv
  <2>5. CASE Done("settle")
    BY <2>1, <2>2, <2>3, <2>5, JobLists, Stays, ListsDiffer DEF ChainInv, CleanInv, Due, Clear, NoRule
  <2> QED
    BY <2>1, <2>4, <2>5
<1>6. CASE Observe
  <2>1. /\ Due("settle") /\ user = "report" /\ Done("settle")
        /\ UNCHANGED <<server, device, applied, base, answer>>
    BY <1>6 DEF Observe
  <2>2. ServerInv' /\ HarnessTypes' /\ JobsInv'
    BY <2>1, JobFrame
  <2>3. DeviceTypes'
    BY <2>1 DEF ChainInv, DeviceTypes, device
  <2>4. stage = "recover" /\ todo = <<"settle">> /\ stage' = "idle"
    BY <2>1, JobLists, Stays DEF Due
  <2>5. Clear' /\ answer' = base'
    BY <2>1, <2>4, ListsDiffer DEF ChainInv, CleanInv, Clear, NoRule, device
  <2> QED
    BY <2>2, <2>3, <2>4, <2>5 DEF ChainInv, CleanInv
<1>7. CASE StopMock
  <2>1. Due("stop") /\ Done("stop") /\ UNCHANGED <<server, device, applied, base, answer>>
    BY <1>7 DEF StopMock
  <2>2. ServerInv' /\ HarnessTypes' /\ JobsInv'
    BY <2>1, JobFrame
  <2>3. DeviceTypes' /\ (NoRule => NoRule')
    BY <2>1 DEF ChainInv, DeviceTypes, device, NoRule
  <2>4. stage = "end" /\ stage' = "end" /\ Tail(todo) # <<>>
    BY <2>1, JobLists, Stays DEF Due
  <2>5. ok' = ok /\ user' = user
    BY <2>1, <2>4 DEF Done
  <2>6. user = "pytest" => NoRule
    <3>1. <<"stop", "restart", "settle">> # <<"restore", "stop", "restart", "settle">>
      OBVIOUS
    <3> QED
      BY <2>1, <2>4, <3>1, JobLists DEF ChainInv, CleanInv
  <2> QED
    BY <2>2, <2>3, <2>4, <2>5, <2>6 DEF ChainInv, CleanInv
<1> QED
  BY <1>1, <1>2, <1>3, <1>4, <1>5, <1>6, <1>7

LEMMA ChainStep == ChainInv /\ [ChainNext]_chainVars => ChainInv'
<1> SUFFICES ASSUME ChainInv, [ChainNext]_chainVars PROVE ChainInv'
  OBVIOUS
<1>1. CASE UNCHANGED chainVars
  <2>1. ServerInv'
    BY <1>1, ServerIdle DEF chainVars, ChainInv
  <2> QED
    BY <1>1, <2>1 DEF chainVars, server, device, harness, ChainInv, HarnessTypes, DeviceTypes, JobsInv, CleanInv, Clear, NoRule
<1> QED
  BY <1>1, ServiceKeeps, DeviceKeeps, SessionKeeps, TestKeeps, JobsKeep DEF ChainNext

\* Type correctness of the chain and of every kind of service.
THEOREM ChainTypes == ChainSpec => []ChainTypeOK
BY ChainStart, ChainStep, ChainConcludes, PTL DEF ChainSpec

\* Whatever a service is and however it is stopped, stop() leaves no socket, file or
\* thread behind but the two that its join lets through, a TCP server that is in a
\* conversation and a sniffer that start() did not see ready (servers/base.py,
\* responders/base.py), and the handlers of the mock BMC, which nobody joins (mock_bmc.py).
THEOREM ServicesEnd == ChainSpec => []NoGhost
BY ChainStart, ChainStep, ChainConcludes, PTL DEF ChainSpec

\* After a recovery that went through no rule turns the BMC away, and the next test finds
\* the mock on its baseline, and, unless the restart failed, the sync daemon running and
\* nothing of the mock on its way into the cache (pmon_fault.py, pmon_field_report.py),
\* whatever failed or died before.
THEOREM RecoveryIsClean == ChainSpec => []RecoveredMeansClean
BY ChainStart, ChainStep, ChainConcludes, PTL DEF ChainSpec
=============================================================================

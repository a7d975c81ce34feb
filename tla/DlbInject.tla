------------------------------ MODULE DlbInject ------------------------------
(***************************************************************************)
(* Injection of next-hop-group objects into the ASIC database              *)
(* (framework/dlb.py).                                                     *)
(*                                                                         *)
(* A test pushes create and remove operations straight into syncd's queue, *)
(* next to orchagent, and has to take syncd's answers off the response     *)
(* queue before orchagent takes them for its own.  The queues are Redis    *)
(* lists, read and popped by separate redis-cli processes; a response is   *)
(* three list elements.  orchagent and syncd are modelled from what        *)
(* dlb.py says about them.                                                 *)
(***************************************************************************)
EXTENDS Naturals, Sequences, SequencesExt, FiniteSets

CONSTANTS
    Group, Member,  \* VIDs of the test's groups and members
    NextHop,        \* next hops that exist when the test starts
    NoObj,          \* "no object"
    Stable,         \* quiesce(stable): empty readings in a row
    MaxBulk         \* bound: bulk operations of orchagent

ASSUME DlbAssumption ==
    /\ Group \cap Member = {} /\ NextHop \cap (Group \cup Member) = {}
    /\ NoObj \notin Group \cup Member \cup NextHop
    /\ Stable \in Nat \ {0} /\ MaxBulk \in Nat

Vid == Group \cup Member
Obj == Vid \cup NextHop \cup {NoObj}

\* An entry of the inbound queue.
Op == [who : {"inj", "orch"}, op : {"create", "remove", "bulk", "nhgone"},
       vid : Obj, group : Group \cup {NoObj}, nh : NextHop \cup {NoObj}]
\* What the discipline of dlb.py cannot see or does not wait for, recorded as it happens:
\*   race     an injection and a bulk operation of orchagent overlap,
\*   late     _reap_response gave up before the response came,
\*   refused  quiesce gave up and nothing was sent,
\*   stale    a next hop goes between nh_alive and the push.
Mishap == {"race", "late", "refused", "stale"}

NoOp == [who |-> "inj", op |-> "bulk", vid |-> NoObj, group |-> NoObj, nh |-> NoObj]

VARIABLES
    asicQ,      \* ASIC_STATE_KEY_VALUE_OP_QUEUE, oldest first
    respQ,      \* GETRESPONSE_KEY_VALUE_OP_QUEUE, by element, oldest first
    work,       \* the operation syncd is processing
    rids,       \* VIDs with an entry in VIDTORID
    memberOf,   \* the group of each existing member
    nhs,        \* next hops that exist in syncd
    syncd, orch,\* state of the two daemons
    bulks,      \* bulk operations started
    pc,         \* where the test is in _push and its callers
    cur,        \* the operation being injected
    seen,       \* quiesce: empty readings so far
    pops,       \* _reap_response: RPOPs still to do
    created,    \* self._created
    fresh,      \* VIDs not used yet
    queue,      \* cleanup: objects still to remove
    phase,      \* "test", "cleanup" or "done"
    mishap      \* the mishaps so far (a record of the model's own)

redisVars == <<asicQ, respQ, work>>
chipVars == <<rids, memberOf, nhs>>
daemonVars == <<syncd, orch, bulks>>
callVars == <<pc, cur, seen, pops>>
testVars == <<created, fresh, queue, phase>>
vars == <<asicQ, respQ, work, rids, memberOf, nhs, syncd, orch, bulks,
          pc, cur, seen, pops, created, fresh, queue, phase, mishap>>

TypeOK ==
    /\ asicQ \in Seq(Op) /\ work \in Op
    /\ respQ \in Seq({"inj", "orch"})
    /\ rids \subseteq Vid /\ nhs \subseteq NextHop
    /\ memberOf \in [Member -> Group \cup {NoObj}]
    /\ syncd \in {"up", "dead"} /\ orch \in {"idle", "waiting", "crashed"}
    /\ bulks \in 0..MaxBulk
    /\ pc \in {"idle", "pollAsic", "pollResp", "push", "reap", "pop", "check"}
    /\ cur \in Op /\ seen \in 0..(Stable - 1) /\ pops \in 0..3
    /\ created \in Seq(Vid) /\ IsInjective(created)
    /\ fresh \subseteq Vid
    /\ queue \in Seq(Vid)
    /\ phase \in {"test", "cleanup", "done"} /\ mishap \subseteq Mishap

Init ==
    /\ asicQ = <<>> /\ respQ = <<>> /\ work = NoOp
    /\ rids = {} /\ memberOf = [m \in Member |-> NoObj] /\ nhs = NextHop
    /\ syncd = "up" /\ orch = "idle" /\ bulks = 0
    /\ pc = "idle" /\ cur = NoOp /\ seen = 0 /\ pops = 0
    /\ created = <<>> /\ fresh = Vid /\ queue = <<>> /\ phase = "test"
    /\ mishap = {}

-----------------------------------------------------------------------------
(* The operations of the Dlb class: their checks before _push.             *)

Begin(op) ==
    /\ pc = "idle"
    /\ pc' = "pollAsic" /\ cur' = op /\ seen' = 0
    /\ UNCHANGED pops

\* create_group
CreateGroup(g) ==
    /\ phase = "test" /\ g \in fresh
    /\ Begin([NoOp EXCEPT !.op = "create", !.vid = g])
    /\ fresh' = fresh \ {g}
    /\ UNCHANGED <<redisVars, chipVars, daemonVars, created, queue, phase, mishap>>

\* orchagent's removal of a next hop is on its way to syncd.
Leaving(n) == n \in {work.vid} \cup {asicQ[i].vid : i \in DOMAIN asicQ}

\* The operation at hand has passed its checks and is not in the queue yet.
Preparing == pc \in {"pollAsic", "pollResp", "push"}

\* add_member to a group that create_group returned, if nh_alive: the next hop has a RID,
\* which it still has while its removal is on its way.
AddMember(m, g, n) ==
    /\ phase = "test" /\ m \in fresh
    /\ Contains(created, g)
    /\ n \in nhs
    /\ Begin([NoOp EXCEPT !.op = "create", !.vid = m, !.group = g, !.nh = n])
    /\ fresh' = fresh \ {m}
    /\ mishap' = IF Leaving(n) THEN mishap \cup {"stale"} ELSE mishap
    /\ UNCHANGED <<redisVars, chipVars, daemonVars, created, queue, phase>>

\* Tests remove the members of a group before the group.
MayRemove(v) ==
    /\ Contains(created, v)
    /\ \A m \in Member : Contains(created, m) => memberOf[m] # v

\* remove: nothing is sent for an object without a RID, and it stays recorded.
RemoveByTest(v) ==
    /\ phase = "test"
    /\ MayRemove(v) /\ v \in rids
    /\ Begin([NoOp EXCEPT !.op = "remove", !.vid = v])
    /\ UNCHANGED <<redisVars, chipVars, daemonVars, testVars, mishap>>

\* A slip: cleanup walks _created forwards.
StartCleanup_Forward ==
    /\ phase = "test" /\ pc = "idle"
    /\ phase' = "cleanup" /\ queue' = created
    /\ UNCHANGED <<redisVars, chipVars, daemonVars, callVars, created, fresh, mishap>>

\* The test ends, by return or by exception: cleanup walks _created backwards.
StartCleanup ==
    /\ phase = "test" /\ pc = "idle"
    /\ phase' = "cleanup" /\ queue' = Reverse(created)
    /\ UNCHANGED <<redisVars, chipVars, daemonVars, callVars, created, fresh, mishap>>

RemoveByCleanup ==
    /\ phase = "cleanup" /\ queue # <<>>
    /\ queue' = Tail(queue)
    /\ \/ /\ Head(queue) \in rids
          /\ Begin([NoOp EXCEPT !.op = "remove", !.vid = Head(queue)])
       \/ /\ Head(queue) \notin rids /\ pc = "idle"
          /\ UNCHANGED callVars
    /\ UNCHANGED <<redisVars, chipVars, daemonVars, created, fresh, phase, mishap>>

EndCleanup ==
    /\ phase = "cleanup" /\ queue = <<>> /\ pc = "idle"
    /\ created' = <<>> /\ phase' = "done"
    /\ UNCHANGED <<redisVars, chipVars, daemonVars, callVars, fresh, queue, mishap>>

-----------------------------------------------------------------------------
(* _push: quiesce, LPUSH, reap.                                            *)

\* One reading of the inbound queue: its length, not what syncd is working on.
PollAsic ==
    /\ pc = "pollAsic"
    /\ \/ asicQ = <<>> /\ pc' = "pollResp" /\ UNCHANGED seen
       \/ asicQ # <<>> /\ seen' = 0 /\ UNCHANGED pc
    /\ UNCHANGED <<redisVars, chipVars, daemonVars, cur, pops, testVars, mishap>>

\* syncd has taken a bulk operation off the queue and has not answered it.
BulkInHand == work.who = "orch" /\ work.op = "bulk"

\* Then one of the response queue.
PollResp ==
    /\ pc = "pollResp"
    /\ \/ /\ respQ = <<>> /\ seen + 1 = Stable
          /\ pc' = "push" /\ seen' = 0
          /\ mishap' = IF BulkInHand THEN mishap \cup {"race"} ELSE mishap
       \/ /\ respQ = <<>> /\ seen + 1 < Stable
          /\ pc' = "pollAsic" /\ seen' = seen + 1 /\ UNCHANGED mishap
       \/ /\ respQ # <<>>
          /\ pc' = "pollAsic" /\ seen' = 0 /\ UNCHANGED mishap
    /\ UNCHANGED <<redisVars, chipVars, daemonVars, cur, pops, testVars>>

\* The queues never went quiet: _push raises.  In a test that ends the test; in
\* cleanup the exception is logged and the next object is tried.
QuiesceTimeout ==
    /\ pc = "pollAsic"
    /\ pc' = "idle" /\ mishap' = mishap \cup {"refused"}
    /\ IF phase = "test" THEN phase' = "cleanup" /\ queue' = Reverse(created)
                         ELSE UNCHANGED <<phase, queue>>
    /\ UNCHANGED <<redisVars, chipVars, daemonVars, cur, seen, pops, created, fresh>>

\* A slip: the response is left in the queue.
LPush_NoReap ==
    /\ pc = "push"
    /\ asicQ' = Append(asicQ, cur) /\ pc' = "check"
    /\ UNCHANGED <<respQ, work, chipVars, daemonVars, cur, seen, pops, testVars, mishap>>

LPush ==
    /\ pc = "push"
    /\ asicQ' = Append(asicQ, cur)
    /\ pc' = "reap"
    /\ UNCHANGED <<respQ, work, chipVars, daemonVars, cur, seen, pops, testVars, mishap>>

\* A slip: two elements per response.
ReapSeen_Two ==
    /\ pc = "reap" /\ Len(respQ) >= 3
    /\ pc' = "pop" /\ pops' = 2
    /\ UNCHANGED <<redisVars, chipVars, daemonVars, cur, seen, testVars, mishap>>

\* LLEN shows a whole response; three RPOPs follow, each a process of its own.
ReapSeen ==
    /\ pc = "reap" /\ Len(respQ) >= 3
    /\ pc' = "pop" /\ pops' = 3
    /\ UNCHANGED <<redisVars, chipVars, daemonVars, cur, seen, testVars, mishap>>

RPop ==
    /\ pc = "pop"
    /\ respQ' = IF respQ = <<>> THEN <<>> ELSE Tail(respQ)
    /\ pops' = pops - 1
    /\ pc' = IF pops = 1 THEN "check" ELSE "pop"
    /\ UNCHANGED <<asicQ, work, chipVars, daemonVars, cur, seen, testVars, mishap>>

\* Nothing within 20 s: only a warning.
ReapTimeout ==
    /\ pc = "reap" /\ Len(respQ) < 3
    /\ pc' = "check" /\ mishap' = mishap \cup {"late"}
    /\ UNCHANGED <<redisVars, chipVars, daemonVars, cur, seen, pops, testVars>>

\* A slip: an object is recorded and returned before it has a RID.
WaitRid_Always ==
    /\ pc = "check" /\ cur.op = "create"
    /\ created' = Append(created, cur.vid) /\ pc' = "idle"
    /\ UNCHANGED <<redisVars, chipVars, daemonVars, cur, seen, pops, fresh, queue, phase, mishap>>

\* wait_rid: an object with a RID is recorded, one that never gets it is not.
WaitRid ==
    /\ pc = "check" /\ cur.op = "create"
    /\ created' = IF cur.vid \in rids THEN Append(created, cur.vid) ELSE created
    /\ pc' = "idle"
    /\ UNCHANGED <<redisVars, chipVars, daemonVars, cur, seen, pops, fresh, queue, phase, mishap>>

\* The list without v: a VID is in _created at most once.
Without(s, v) ==
    IF Contains(s, v) THEN RemoveAt(s, CHOOSE k \in 1..Len(s) : s[k] = v) ELSE s

\* remove forgets the object, gone or not.
Forget ==
    /\ pc = "check" /\ cur.op = "remove"
    /\ created' = Without(created, cur.vid)
    /\ pc' = "idle"
    /\ UNCHANGED <<redisVars, chipVars, daemonVars, cur, seen, pops, fresh, queue, phase, mishap>>

-----------------------------------------------------------------------------
(* syncd.                                                                  *)

SyncdTake ==
    /\ syncd = "up" /\ work = NoOp /\ asicQ # <<>>
    /\ work' = Head(asicQ) /\ asicQ' = Tail(asicQ)
    /\ UNCHANGED <<respQ, chipVars, daemonVars, callVars, testVars, mishap>>

\* translateVidToRid finds every object the operation names.
Known(op) ==
    /\ op.op = "remove" => op.vid \in rids
    /\ op.group # NoObj => op.group \in rids
    /\ op.nh # NoObj => op.nh \in nhs

Respond(w) == respQ' = respQ \o <<w, w, w>> /\ work' = NoOp

SyncdDone ==
    /\ syncd = "up" /\ work # NoOp /\ Known(work)
    /\ \/ /\ work.op = "create"              \* SAI accepts
          /\ rids' = rids \cup {work.vid}
          /\ memberOf' = IF work.vid \in Member
                         THEN [memberOf EXCEPT ![work.vid] = work.group] ELSE memberOf
          /\ Respond("inj") /\ UNCHANGED nhs
       \/ /\ work.op = "create"              \* or refuses: no RID
          /\ Respond("inj") /\ UNCHANGED chipVars
       \/ /\ work.op = "remove"
          /\ \A m \in Member : memberOf[m] # work.vid
          /\ rids' = rids \ {work.vid}
          /\ memberOf' = [m \in Member |-> IF m = work.vid THEN NoObj ELSE memberOf[m]]
          /\ Respond("inj") /\ UNCHANGED nhs
       \/ /\ work.op = "remove"              \* a group in use stays
          /\ \E m \in Member : memberOf[m] = work.vid
          /\ Respond("inj") /\ UNCHANGED chipVars
       \/ /\ work.op = "bulk"
          /\ Respond("orch") /\ UNCHANGED chipVars
       \/ /\ work.op = "nhgone"
          /\ nhs' = nhs \ {work.vid} /\ work' = NoOp
          /\ UNCHANGED <<respQ, rids, memberOf>>
    /\ UNCHANGED <<asicQ, daemonVars, callVars, testVars, mishap>>

SyncdDies ==
    /\ syncd = "up" /\ work # NoOp /\ ~Known(work)
    /\ syncd' = "dead"
    /\ UNCHANGED <<redisVars, chipVars, orch, bulks, callVars, testVars, mishap>>

-----------------------------------------------------------------------------
(* orchagent.                                                              *)

\* From the last reading of quiesce until the response is reaped.
Injecting == pc \in {"push", "reap", "pop"} \/ (pc = "pollResp" /\ seen + 1 = Stable)

\* A bulk route or neighbour operation; orchagent then waits for its response.
OrchBulk ==
    /\ orch = "idle" /\ bulks < MaxBulk
    /\ asicQ' = Append(asicQ, [NoOp EXCEPT !.who = "orch", !.op = "bulk"])
    /\ orch' = "waiting" /\ bulks' = bulks + 1
    /\ mishap' = IF Injecting THEN mishap \cup {"race"} ELSE mishap
    /\ UNCHANGED <<respQ, work, chipVars, syncd, callVars, testVars>>

\* It pops one response: three elements, which must be its own.
OrchTake ==
    /\ orch = "waiting" /\ respQ # <<>>
    /\ LET n == IF Len(respQ) < 3 THEN Len(respQ) ELSE 3
       IN /\ respQ' = SubSeq(respQ, n + 1, Len(respQ))
          /\ orch' = IF SubSeq(respQ, 1, n) = <<"orch", "orch", "orch">>
                     THEN "idle" ELSE "crashed"
    /\ UNCHANGED <<asicQ, work, chipVars, syncd, bulks, callVars, testVars, mishap>>

\* Its response is nowhere any more: the wait runs out.
OrchTimeout ==
    /\ orch = "waiting" /\ syncd = "up"
    /\ ~Contains(respQ, "orch") /\ work.who # "orch"
    /\ \A i \in DOMAIN asicQ : asicQ[i].who # "orch"
    /\ orch' = "crashed"
    /\ UNCHANGED <<redisVars, chipVars, syncd, bulks, callVars, testVars, mishap>>

\* A neighbour ages out or its port is reset: the next hop is removed.
NhGone(n) ==
    /\ orch = "idle" /\ n \in nhs /\ ~Leaving(n)
    /\ asicQ' = Append(asicQ, [NoOp EXCEPT !.who = "orch", !.op = "nhgone", !.vid = n])
    /\ mishap' = IF Preparing /\ cur.nh = n THEN mishap \cup {"stale"} ELSE mishap
    /\ UNCHANGED <<respQ, work, chipVars, daemonVars, callVars, testVars>>

-----------------------------------------------------------------------------
Push ==
    \/ PollAsic \/ PollResp \/ QuiesceTimeout \/ LPush
    \/ ReapSeen \/ RPop \/ ReapTimeout \/ WaitRid \/ Forget

Next ==
    \/ \E g \in Group : CreateGroup(g)
    \/ \E m \in Member, g \in Group, n \in NextHop : AddMember(m, g, n)
    \/ \E v \in Vid : RemoveByTest(v)
    \/ StartCleanup \/ RemoveByCleanup \/ EndCleanup
    \/ Push
    \/ SyncdTake \/ SyncdDone \/ SyncdDies
    \/ OrchBulk \/ OrchTake \/ OrchTimeout
    \/ \E n \in NextHop : NhGone(n)

Spec == Init /\ [][Next]_vars

-----------------------------------------------------------------------------
(* Properties.                                                             *)

\* orchagent takes a foreign or torn response, or waits for one that was eaten, only after
\* an injection overlapped one of its bulk operations or a response came after
\* _reap_response gave up (dlb.py, injection discipline 6).  quiesce does not exclude the
\* overlap: LLEN is 0 as soon as syncd has taken the operation.
OrchSurvives == orch = "crashed" => mishap \cap {"race", "late"} # {}

\* syncd is asked for an object it does not know only when the next hop of a member went
\* between nh_alive and the push, a removal already on its way included: one that starts
\* after the push is processed after it (dlb.py: "a next hop can disappear mid-case").
SyncdSurvives == syncd = "dead" => "stale" \in mishap

\* Between two calls no response of an injected operation is on its way or in
\* the response queue, where orchagent's next wait would find it, unless
\* _reap_response gave up or popped next to orchagent.
NoResidualResponse ==
    mishap \cap {"race", "late"} = {} /\ pc = "idle" =>
        /\ ~Contains(respQ, "inj")
        /\ Len(respQ) % 3 = 0
        /\ asicQ = <<>> \/ Head(asicQ).who = "orch"

\* After cleanup no object of the test is left in the chip (dlb.py: "so no
\* half-torn-down object is left for the next case"), unless one of its calls, or of the
\* test's, was refused, lost its response or took one of orchagent's for its own.
CleanupComplete ==
    mishap \cap {"race", "late", "refused"} = {} /\ phase = "done" => rids = {}
=============================================================================

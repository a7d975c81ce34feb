# Formal models of the SONiC on-box functional test framework

The framework runs pytest on the switch it tests. It opens loopbacks inside the
forwarding chip, rewrites port VLANs, changes configuration, injects objects into
the ASIC database, talks BGP to the switch, shapes ports and turns the platform
daemons' requests away from their BMC, and it promises that none of this outlives
the test that did it. These modules state that promise precisely for the parts whose
failure would spoil other tests or take the switch down, check it with TLC, and
prove its core with TLAPS.

Paths below are relative to the repository root; `loopback.py` is
`framework/loopback.py`, and so on.

## 1. Inventory

| Component | State it keeps | Operations | What makes it correct |
|---|---|---|---|
| Loopback manager (`framework/loopback.py`) | `_on`, `_flood_safe`, `_test_vlan`, `_held`, `_touched`; behind it the chip: lb mode, discard, PVID per port, VLAN table | `enable`, `disable`, `enable_flood_safe`, `isolate_pvid`, `restore_pvid`, `disable_flood_safe`, `use_test_vlan`, `drop_test_vlan`, `hold`, `release`, `force_clear_all`, `cleanup` | tables agree with the chip; every loop, PVID and VLAN goes away; the other worker's ports stay as they are |
| Fixtures (`conftest.py`) | which fixtures are set up | `_lb`, `traffic`, `l2net`, `l2net_mod`, `l3net`, `_per_test_lb_guard`, `_suite_baseline`, ... | finalizers in pytest's order leave the baseline, whichever one raised |
| Configuration guard (`framework/config_guard.py`) | `_undo` | `defer_undo`, `__exit__` with its two passes | the configuration before the test is the one after it, or a warning says it is not |
| BGP speaker (`servers/bgp_speaker.py`) and its process (`topo/netns_peer.py`) | `advertise`, `_sock`, two Events; a subprocess | `start`, `wait_established`, `announce`, `withdraw`, `stop`; `start_speaker`, `cmd`, `stop_speaker` | what is announced arrives; nothing hangs; a dead peer leaves no route |
| DLB injection (`framework/dlb.py`) | `_created`; shared Redis queues | `create_group`, `add_member`, `remove`, `cleanup`, `_push` = `quiesce` + LPUSH + `_reap_response` | neither orchagent nor syncd is ever handed something it does not survive; nothing left behind |
| Hygiene (`framework/hygiene.py`) | none | `reset_port_to_l2`, `wait_port_unbridged`, `suite_reset`, `sweep_test_qos_artifacts` | idempotent way home for a port; what cannot be swept is said |
| Port mode (`framework/cli.py`, `conftest.py`) | `_bridged`; behind it link mode, VLAN members, INTERFACE rows per port | `_fixup`, `ensure_port_l2`, `_restore_bridge_home`, `restore_port_l3`, the hybrid ladder, `l3up`, `l3net`, `_suite_baseline`, `_port_l2_baseline_guard` | no test starts in another test's port mode; the device keeps its default configuration; no routed port loops while it is bridged |
| Contamination sentinel (`framework/sentinel.py`, `tools/analyze_sentinel.py`) | `_STATE["clean_cfg"]`, the report | `capture_baseline`, `check_after_test`, `record_heal`; the replay of the report | each leak is listed, once, under a test that can have made it |
| Parallel lanes (`framework/worker.py`, `dut.py`, `topology.py`, `tools/run_lanes.sh`) | `FVT_WORKER`; VLAN homes of the worker's ports | the remapping rules, the move into a private flood domain and back, scoped flushes | two workers never share a resource or a flood domain; nobody clears what the other uses; the run ends |
| Hairpin, virtual link, VRF hairpin (`topo/hairpin.py`, `topo/virtual_link.py`, `framework/vrfhairpin.py`) | `_undo`, `_routes`, `_bound`, `_vrfs` | `setup`, `arm`, `teardown`; `add_vrf`, `bind`, `route`, `cleanup` | no storm at any step; a passing test leaves the ports as they were, also after refused commands |
| Lossless and QoS helpers (`framework/lossless.py`, `qos.py`, `gcu.py`) | an undo list per test | `make_scheduler`, `bind_queue`, `build_lossless`, `build_baseline`, `build_sched_baseline` and their undos | a test leaves the rows the switch came with; no port stays rate limited without a word |
| Responders, thread servers, exabgp (`responders/`, `servers/`) | thread or process, socket, stop flag, requests | start, service loop, stop | stop returns, and nothing of the service goes on after it |
| PMON fault injection (`framework/pmon_fault.py`, `servers/mock_bmc.py`, `tools/pmon_field_report.py`) | `_applied` rules, the mock's baseline and answers | `to_mock`, `refuse`, `blackhole`, `restore`, the mutations of the mock, `_recover`, the fixture's end | after a recovery the daemons see the real BMC again |
| Port breakout, ACL and mirror helpers, buffer audit, verification readers, CLI text, tools, test modules | none that outlives a call | | see section 5 |

How they interact: tests reach the chip through the loopback manager and the
traffic helper, which the fixtures hand out; `_per_test_lb_guard`, the sentinel and
the session fixtures come behind them; several such processes may run side by side
(`run_lanes.sh`); the switch's own daemons (vlanorch, portmgr, orchagent, syncd,
bgpd, the platform's sync daemon) run all the time and write the same state.

What is hard here: the finalizer order of fixtures of different scope; exceptions
between a change and its undo; state that is read, then used after a wait, while a
daemon may change it; two processes on one pair of Redis lists; two pytest processes
on one chip; a thread and its caller on one socket; rows, references and answers that
come or go after their reader has stopped looking; the death of the pytest process.
`PROJECT.json` lists each of these at its line, under `hazards`.

## 2. Modules

| Module | Models | Extended by |
|---|---|---|
| `Loopback` | the loopback manager, the fixtures around it, the PVID writeback of the switch software, a second worker's ports, session restarts | `MCLoopback`, `LoopbackProofs` |
| `ConfigGuard` | one test, its registrations and `__exit__` | `MCConfigGuard`, `ConfigGuardProofs` |
| `BgpSpeaker` | session thread, caller's thread, parent process, the switch's end of the session | `MCBgpSpeaker`, `BgpProofs` |
| `DlbInject` | the `Dlb` class step by step, the two queues, syncd and orchagent | `MCDlbInject`, `InjectionProofs` |
| `PortMode` | L2 and L3 modes of ports on the switchport OS, the rewriting CLI, `l3up`, `l3net`, the session baseline and the self-heal guard | `MCPortMode`, `PortModeProofs` |
| `Ledger` | abstract: a ledger of who made and who removed which configuration key | instantiated by `Sentinel` |
| `Sentinel` | the comparisons around every test, the report and the tool that replays it; implements `Ledger` | `MCSentinel`, `SentinelProofs` |
| `Lanes` | `run_lanes.sh`, the workers' views, their sessions on one chip | `MCLanes`, `StormProofs` |
| `Rigs` | hairpin, virtual link and VRF hairpin on standard SONiC, with the guard and `suite_reset` behind them | `StormProofs` |
| `QosObjects` | QoS objects, references and bindings, the undo lists, the sweep | `MCQosObjects`, `QosProofs` |
| `Servers` | the life of any service a test starts | `PmonChain` |
| `PmonChain` | composition: the mock BMC as a service of `Servers`, with the redirection, the sync daemon and both users of the injection | `InjectionProofs` |

An operator `X_Something` defined before an action `X` is a slip that the code
could have made there. No specification uses it; it exists to show that the
properties notice it.

### Loopback

The chip is four variables (`looped`, `discarding`, `pvid`, `vlans`), the manager seven,
one per Python attribute (`_flood_safe` is the pair `iso`, `orig`), `cfgVlans` is what
CONFIG_DB has of the test VLAN, and `stage`, `kind`, `group` say where the pytest
session is. `Role` are the ports that `suite_reset` resets, `Listed` the VLANs it
destroys in the chip; destroying one that is configured makes chip and orchagent
disagree about it, and the next `use_test_vlan` may then not reach the chip. `lost`,
`gateFailed` and `orphans` are history variables for `SessionLeavesBaseline`. Each
manager method is one action; the effects they share (`Enable`, `Disable`,
`ForceClearAll`) are operators of those names. The stages reproduce pytest's order:
setup of the function fixtures, the body, then the finalizers last-in first-out
(`drop_test_vlan` of `l2net`, `disable` of `traffic`, the guard). A fixture that raises
before its yield has no finalizer, which is how a failed smoke check of `traffic` goes
straight to the guard.

What tests do is nondeterministic, within the discipline that the tests of the
repository follow: an isolate VLAN serves one port, a port is isolated once, a test
on `l2net` or under a module-level base undoes its own isolations. `Faults` lifts
these one by one (`reisolate`, `abandon`, `residue`) and adds two kinds of failure
(`gate`: the unbridged gate of `l3net` fails half-way; `crash`: the process dies).

`PvidWriteback` is the asynchronous reset of the PVID that the comments of
`loopback.py` describe; it may happen in any state.

### ConfigGuard

The configuration is a set of present objects, and a command is accepted exactly
when its result is legal; the MC module gives the legal sets for a VLAN, its
member, an interface on it and a router interface, and for an ACL and its entry.
`hist` is a history variable used only by the properties. A verdict on a command can
be wrong in the ways `_run_undo` allows: `verify` raises or the shell times out with
rc 124. `Habits` says which combinations a behaviour starts with: whether the test
registers each undo right after its change (`ordered`) and whether a refused command
may return rc 0 (`lying`). `MayAbort` lets a test die between a change and its
registration. `Shallow` are the objects that one retry can restore; `ShallowAssumption`
says what that means for the legal configurations (`TwoDeep`): some objects can be put
back whatever else is there, and those of `Shallow` as soon as these have been.

### BgpSpeaker

One action per step between two points where the other thread can see the
difference: the test of `_established` and the send that follows are two actions,
as are the copy of the list and each update sent from it. A read that times out
retries, so it is not a step. The connection is two FIFO channels; the one to the
switch holds `Window` messages. A send on a full one waits, and may run out of its 5 s
with the connection up (`SendTimesOut`), having sent nothing or the beginning of a
message (`torn`); in the thread's own loop that ends the session, in `announce`,
`withdraw` and `_send_all_announce` it is swallowed. `dropped` is a history variable:
the prefixes whose latest announcement went that way. What two threads send at once is
not interleaved below a message.

### DlbInject

`_push` is modelled by its redis-cli calls: two readings per round of `quiesce`,
`Stable` rounds in a row, the LPUSH, the LLEN of the reap, and three RPOPs, each of
which orchagent and syncd may interleave. syncd dies on a VID it does not know and
orchagent on a response that is not its own, as the comments of `dlb.py` report.
syncd may be as slow, and next hops may go, as they like: an operation that syncd has
popped is in neither queue, and `quiesce` reads it as done. `mishap` is a history
variable, the properties' vocabulary: a call overlapped an operation of orchagent
(`race`), gave up on its response (`late`) or was refused by `quiesce` (`refused`), or
a next hop went between `nh_alive` and the push (`stale`).

### PortMode

A port is a record of what CONFIG_DB holds about it (`mode`, `members`, the bare
INTERFACE row `marker`, `addr`, `vrf`) and of whether `_bridged` has it. A command
is a function from such a record to another: first what the switch does, taken from
the comments of `cli.py` (a refused command is the identity), then what `cli.py`
makes of the command in `_fixup`, then `reset_port_to_l2`. The waits of these
functions poll a write that has been accepted, so each is one step; trunk and hybrid
ports are treated alike everywhere and are one mode; a port's `pvid` follows its
members and is left out. `stage` is where pytest is. `l3up` is four steps, because
orchagent (`Program`) works in between and the gate looks at the ASIC. `l3net` may
fail at any of its ports, which leaves that port routed and the earlier ones held.
`Init` also has wedged ports, which were given an address while in access mode.

A test may run on a port whatever commands the tests of the repository run, the raw
`link-mode` included, which `_fixup` does not see.

### Sentinel and Ledger

A snapshot is the set of configuration keys. A test changes a set of keys and leaves
others to daemons, whose writes (`Land`) arrive at any later time; the session's own
teardown (`SessionTeardown`) runs inside the last test's, before its comparison.
`check_after_test` compares, appends a line and moves the baseline up; `record_heal`
appends a line and moves nothing. `Analysis` is the loop of `analyze_sentinel.py`, a
recursive function over the lines of the report (`Replay`). `who` is a history
variable: who has touched a key since the last comparison.

`Ledger` is what the report promises, without a report: closing an account enters
new keys under one name and notes each removal with maker and remover. The
refinement maps its `seen` to the sentinel's baseline and its `open` and `moved` to
what the tool computes from the report, so that a step of the sentinel which writes a
line must be exactly a closing, and every other step must leave the tool's output
alone.

### Lanes

A lane is a number: the workers, 0 for the serial tail, -1 for the observer. The
remapping rules of `worker.py` are operators of their names, on VLAN ids, second
octets, hextets and AS numbers. `Audited` is what a profile has to fulfil for two
workers to keep apart under these rules; `MCLanes` assumes it of the repository's
profile, so that TLC evaluates it there. The chip is what workers can take away from each
other: the default VLAN of a port, loopbacks, learned and static entries with the
lane that caused them, and the `FVT*` objects (`qos`) that the sweep of `suite_reset`
deletes wherever they come from. `ClearFdb` is the body of a test that clears the whole
table. A session is the fixtures' order: `_lb` clears, a worker from
2 on moves its ports into its private VLAN one by one (or fails and exits), tests
loop, learn and flush, `suite_reset`, the ports go back one by one, `_lb` clears.

### Rigs

A rig is a plan of commands on two ports, `p_in` and `p_out`. Each says what it
registers for the teardown, whether only on success, and whether a refusal raises; that
is all the three classes differ in while they build. The switch is a set of facts, with
the rules by which SONiC refuses a command; a fault is a refusal for no visible reason.
Membership and FDB commands leave vlanorch a PVID to write back (`WriteBack`) at some
later time, which is what `arm` of the hairpin works against; its reading confirms a
PVID whether or not a write-back is still to come (`hasty` keeps those ports). The rigs
are alone in their VLANs, and `PortMode` has the switchport OS.

### QosObjects

`db` is CONFIG_DB: the objects a test creates, the rows of the port that refer to them,
and the QUEUE rows and the PORT_QOS_MAP that a port may come with (`factory`). `held`
are objects whose reference is gone and still counted by the switch, `late` rows that
have been asked for and have not turned up. A test is a script of the builders; each
adds to the undo list what the code adds, at the point where the code does. `orig` is
what `build_baseline` remembers of the port's own PORT_QOS_MAP. `marred` is a history
variable: the things a fault put out of the undo list's reach, one by one (a row that
came late, a refused patch or deletion, what a killed test had on its list, a shipped
QUEUE row that `bind_queue` took for its own).

### Servers and PmonChain

`Servers` is one main thread and one service of one of six kinds: the UDP servers,
the TACACS+ server, the ARP responder's sniffer, the capture, exabgp as a child
process, and the HTTP server of the mock. Starting, receiving, recording, answering,
telling it to stop, closing the socket and joining are separate steps. A join with a
timeout may give up only on a thread that cannot go on by itself. The HTTP server gives
each request a daemon thread (`hands`), for which `stop` does not wait.

`PmonChain` puts the HTTP service between the sync daemon, which asks, gets a handler of
the mock, holds an answer and writes the cache, and the two users: the pytest module and
the field report, whose recoveries are lists of jobs, any of which may raise. iptables
keeps copies of a rule and outlives processes; up to `MaxSessions` processes run one
after the other, and each may be killed. `systemctl restart` may fail unnoticed
(`unit`). The other kinds of service live with nothing around them in the same run.

## 3. Runs

| Run | Shows |
|---|---|
| `lb_discipline` | chip OS, three ports and a foreign one, disciplined tests: the `_on` table is the chip, every test outside a base starts loop free, and with PVIDs and VLANs home |
| `lb_faults` | switchport OS, two ports and a foreign one, with re-isolation, abandoned isolations, deaths under a hold, failing gates and crashes: the session's teardown restores the baseline but for three named exceptions |
| `cg_test` | with undos registered in order, the first pass retraces the test whatever the verdicts are; in any order of registration the retry heals dependencies two deep, and what is not healed is warned about |
| `bgp_session` | announcements made at any moment reach the switch unless their own send timed out; a dead thread leaves no route; `start_speaker`, `stop` and `stop_speaker` all finish |
| `bgp_withdraw` | finding: a withdraw between the copy of the list and the send is undone by the late announce |
| `dlb_inject` | a foreign, torn or residual response and an object that survives cleanup each need an overlap with orchagent, a response given up on, or (cleanup) a refused call; a VID syncd does not know needs a next hop that goes between check and push |
| `pm_berth` | default VLAN 1: after any test no port is left routed, no routed port loops while the ASIC bridges it, `l3up` can always address a port, and every session ends with every port as shipped |
| `sentinel` | the two lists of the analysis together say which keys are left and which are missing, no test is blamed for a key nobody has touched since the comparison before it, and sentinel and tool together implement `Ledger` |
| `lanes` | the views of two workers are legal and disjoint, no loopbacks of two workers share a flood domain, no cleanup takes away what another running process uses but for what `suite_reset` sweeps box-wide, the run ends although processes are killed |
| `rigs` | with one command refused at any point: no storm at any step of building, arming and taking down, the hairpin is split while it sends or a write-back overtook the reading, a passing test leaves the switch as it was, and the session ends with the ports home |
| `qos` | a test leaves the rows the switch came with and none of its objects, but for those a fault put out of its reach; after any session what still limits the port has been named |
| `services` | `stop` returns and leaves neither socket, file nor thread beyond three stated cases; a recovery that goes through leaves no rule, and the cache gets back to the real data for good unless the restart failed |

`CHECK_DEADLOCK FALSE` is used where the modelled activity ends: one test and its
rollback (`cg_test`, `rigs`), one peer and its teardown, one injection test and
daemons that are dead, one session (`sentinel`, `qos`), one run of the lanes, a
service that is stopped. The Loopback and PortMode sessions go on for ever and are
checked for deadlock.

### Finding

`bgp_withdraw`: the lock is taken by `announce` and `withdraw` only, and
`_send_all_announce` sends from a copy. `PROJECT.json` quotes the line of
`tests/test_bgp.py` it contradicts.

### Limits of the code that the models show

The code's comments promise nothing else here, or the surroundings have to do what the
code assumes they do not. Some are exceptions that a property names; others can be
seen by setting the constant named.

* Loopback. `reisolate` breaks `PvidHome` (the PVID to restore is read from the chip,
  where the first isolation is). `abandon` breaks it too: the isolated port goes home
  in `drop_test_vlan`, then the guard moves it back into the test VLAN that no longer
  exists. `residue` breaks `LoopFree` (the guard returns early while a base is held).
  `SessionLeavesBaseline` names what outlives a session: the held ports of an `l3net`
  whose gate failed are reopened by the last `force_clear_all`; a port that a dead test
  left isolated, where the guard did not clear, is moved back into the isolate VLAN by
  `cleanup` after `suite_reset` brought it home; a test VLAN whose drop gave up, or whose
  process died, stays in CONFIG_DB, since `suite_reset` deletes only the hairpin's VLANs
  there, and in the chip too if it is not on the fixed list. On a switchport OS the
  discard of `isolate_pvid` outlives its test: `force_clear_all` has no case for an
  entry made by discard=all and drops it, so that only `suite_reset` resets the flag.
  Not modelled: a `suite_reset` that raises half-way.
* ConfigGuard. Three dependent objects registered in the wrong order are beyond one
  retry; a CLI that returns rc 0 for a refusal hides a leak from the warnings when undos
  are out of order (`LeakIsVisible` speaks of a CLI that does not); `MayAbort` leaves a
  change nobody registered; and where a test changes one object twice, an undo that
  timed out but was applied is applied once more by the retry.
* DlbInject. The comment of `quiesce`, that an empty inbound queue means that orchagent
  has no operation in flight, does not hold: LLEN is 0 as soon as syncd has popped it.
  So `race` happens without orchagent starting anything during a call, and it takes
  orchagent down. A next hop that goes away between `nh_alive` and the LPUSH, a window
  that includes the wait of `quiesce`, kills syncd; a response that comes after
  `_reap_response` gave up stays for orchagent's next wait, and an object that appears
  after `wait_rid` gave up is in no list.
* BgpSpeaker. An update whose send times out on a full window is lost without a word
  (`dropped`).
* Sentinel. A baseline key that one test removes and another puts back is printed as a
  TRUE-LEAK; the removed-baseline-key list tells it apart. Not modelled: a snapshot whose
  read fails is the empty set (`sentinel.py:42-45`), so that everything seems removed
  and then made again.
* PortMode. A private default VLAN breaks `NotStranded`: after a raw `link-mode route`
  the port is still in `_bridged`, `ensure_port_l2` returns at once, and the add to
  the private VLAN is refused. With STP locked, the homing loop (`conftest.py:217`)
  takes a worker's ports out of their private VLAN again: the hybrid ladder has taken
  them out of `_bridged`. A port at which `l3net` failed stays routed until a later
  fixture resets it; `NotStranded` names these ports in `left`. Assumed: an address is
  never added past `_fixup` during a session, and orchagent applies the latest
  configuration in one hop.
* Lanes. From worker 3 on an octet becomes negative, and worker 4's VLAN ids meet
  worker 1's. `suite_reset` deletes `FVT*` objects box-wide, also next to another
  worker, and on a switchport OS static entries. `sonic-clear fdb all` in a test of the
  parallel phase (`tests/test_dynamic_entries.py:36`) empties the other worker's table;
  it is a test's own command and no cleanup.
* Rigs. Two refused commands in the setup of a hairpin can leave both looped ports in
  one VLAN. A hairpin whose teardown is lost is not brought home on standard SONiC,
  since `reset_port_to_l2` does not take a port out of a foreign VLAN. `Hairpin` uses
  the device's default VLAN (`hairpin.py:33`), not the worker's. `bind` of the VRF
  hairpin waits for CONFIG_DB, not for the ASIC, before it opens the loopback.
  The reading that confirms a PVID, 0.4 s after it was set, may come before the last
  write-back; then the hairpin sends out of the default VLAN (`hasty`).
* QosObjects. `trust_dscp` that does not land, a patch nobody checks, a deletion of
  `build_sched_baseline` that is refused and a row that turns up after its reader gave up
  each leave something behind the undo list; `bind_queue` on a queue that came with a row
  takes that row for its own and deletes it in the end. `marred` has these, and the sweep
  is there for the test's part of them. That no row refers to an object that is gone is
  the switch's own rule in the model, and no property. Not modelled: the repair of
  `ensure_default_qos_maps` (after a `config qos reload` nobody should run), a BUFFER_PG
  the port came with.
* Servers. A sniffer that was not ready in time and a silent TACACS+ client outlive
  the join, and so do the handlers of the mock BMC, which are not joined at all: one in
  its `delay_s` or reading the body of a POST still records and answers after `stop`; a
  client's reset ends the TACACS+ thread; `_stop` is never cleared, so a
  `ThreadServer` that is started again serves nothing; `ExaBgpPeer.start` that raises
  leaves its file.
* PmonChain. `wait_cache_fresh` looks at the age of the file, so a recovery can go
  through with injected data in the cache, and the next snapshot may take them for the
  baseline. The mutations of the mock come before the try block, so a failing iptables
  leaves the mock mutated. A failed `systemctl restart` is not noticed and may leave the
  daemon down; `RecoveredMeansClean` and `CacheHeals` name it. Not modelled: an
  `iptables -S` that fails prints nothing, which `restore` (`pmon_fault.py:67-69`) takes
  for a clean table. The field report's quiet restore can leave a rule, and the
  rules of a killed process make every later `restore()` assert.

### Bounds, and why they are enough

* Loopback: three ports of this worker give `PIn`, `POut` and a port that is
  neither; a fourth belongs to the other worker. Two isolate VLANs, interchangeable and
  so a symmetric set, let two ports be isolated at once. The run with faults has one
  port fewer, because re-isolation and the surviving VLANs multiply the states. No
  counters: sessions repeat for ever.
* ConfigGuard: four changes (`MaxChanges`) cover making and unmaking a dependency,
  and a chain of three with an independent one.
* BgpSpeaker: two prefixes and two commands (`MaxCommands`): a race is between one
  command and the thread, the second sees its outcome. `Window` = 2 makes sends block
  and time out; 6 in `bgp_withdraw`, whose trace needs no full window.
* DlbInject: two groups, two members, two next hops, `Stable` = 2 (the code uses
  more readings, which only narrows the windows), two bulk operations. Groups and
  members and next hops are symmetric sets.
* PortMode: two interchangeable base ports, so that `l3net` can fail with one built,
  and a third port for a test beside the base; one user VLAN beside the berth. No
  counters.
* Sentinel: two keys and two tests: a key can be made by the first test, late, and
  removed by the second, beside one that stays.
* Lanes: two workers, which is what `run_lanes.sh` starts, one with two ports so that
  its move can stop half-way; the VLAN ids, octets and AS numbers of
  `topology/profiles.yaml` and of the framework, of which tests use one that
  `flush_fdb` clears and one above 3900.
* Rigs: two ports, as a rig has; one fault (`MaxFaults`); two readings (`MaxTries`)
  show a success, a retry and giving up.
* QosObjects: the three combinations of builders that tests use, two tests in a row
  (`MaxTests`), so that one starts on the leftovers of the other, one kill
  (`MaxCrashes`), one try of a deletion instead of 8 and 4 (`MaxTries`): the last one
  decides.
* PmonChain: two tests in one process or in two, two copies of a rule, two recorded
  requests, two handlers: the second of each meets what the first left.

### Fairness

All fairness is weak.

* `BgpSpeaker`: both threads and the parent are scheduled, the switch reads its
  socket, and the 25 s of `wait_established` do run out. The 3 s of `join` and of
  `Popen.wait` may run out but are not assumed to, so `StopEndsThread` does not lean
  on them. Announcements, withdrawals, stop requests of the test and the behaviour of
  the switch beyond reading are not fair.
* `Lanes`: `run_lanes.sh` goes on, and each process goes through its session, the
  moves of its ports included; pytest ends when its tests do. What tests do, failures
  and deaths are not fair.
* `PmonChain`: the thread of a service goes on as long as it can, the steps of a stop
  that has begun follow each other, and the sync daemon goes through its cycle, which
  systemd keeps up. Clients, the readiness of a sniffer, tests, kills and systemd's
  restart of a daemon that died are not fair.

## 4. Proofs

Every theorem holds for all values of the constants that meet the named assumptions,
and for the further condition given.

| Module | Theorem | Holds for | Statement |
|---|---|---|---|
| `LoopbackProofs` | `TypeCorrect` | any faults | `TypeOK` |
| | `TableMatchesChip` | any faults | `TableIsChip` |
| | `TestsStartLoopFree` | `residue`, `gate` not in `Faults` | `LoopFree` |
| | `PvidsComeHome` | no faults, chip OS | `PvidHome` |
| | `DiscardsAreUndone` | no faults, chip OS | `DiscardOff` |
| | `OtherWorkerSafe` | any faults | `OtherWorkerUntouched` |
| | `SessionsEndClean` | any faults, both OS kinds | `SessionLeavesBaseline` |
| `ConfigGuardProofs` | `GuardTypes` | any habits | `TypeOK` |
| | `FirstPassRetraces` | ordered registration, `~MayAbort` | `Retraces` |
| | `LeaksAreReported` | any order of registration | `LeakIsVisible` |
| | `RetryHeals` | any order of registration | `Restored` |
| `PortModeProofs` | `PortTypes` | any default VLAN | `TypeOK` |
| | `NoPortStranded` | default VLAN = berth | `NotStranded` |
| | `GateSuffices` | any default VLAN | `NoMixedLoop` |
| | `L3UpWorks` | any default VLAN | `L3UpNeverRefused` |
| | `SessionRestoresDefault` | default VLAN = berth, or STP not locked | `DefaultRestored` |
| `StormProofs` | `LaneTypes` | any workers | `TypeOK` of `Lanes` |
| | `NoStormAcrossWorkers` | any number of workers, disjoint blocks | `NoCrossStorm` |
| | `ViewsNeverMeet` | workers 1 and 2, any audited profile | `ViewsDisjoint` |
| | `CleanupStaysHome` | any number of workers with disjoint VLAN ids, both OS kinds | `OthersUntouched` |
| | `RigsTyped` | any number of refusals and readings | `RigTypeOK` |
| | `StormTakesTwo` | any number of refusals and readings | `NoStorm` while at most one command was refused without a reason |
| | `OneRefusalNoStorm` | `MaxFaults <= 1` | `NoStorm` |
| | `SendingIsSplit` | any number of refusals and readings | `SplitWhenSending` |
| | `PassesGoHome` | any number of refusals and readings | `PassLeavesHome` |
| | `SessionEndsHome` | any number of refusals and readings | `SessionHome` |
| `SentinelProofs` | `SentinelTypes` | any keys and tests | `TypeOK` |
| | `BlameIsJust` | any keys and tests | `NoInnocentBlamed` |
| | `ReportIsExact` | any keys, tests, length of the report | `LeaksAreExact` |
| | `SentinelImplementsLedger` | any keys, tests, length of the report | `KeepsLedger` (refinement) |
| `QosProofs` | `QosTypes` | any scripts | `TypeOK` |
| | `SweepIsNeverSilent` | any scripts, tests, crashes | `NoSilentShaper` |
| | `UndoGoesHome` | scripts that build the baseline at most once | `UndoRestores` |
| `InjectionProofs` | `DlbTypes` | any groups, members, next hops | `TypeOK` of `DlbInject` |
| | `InjectionSparesSyncd` | any groups, members, next hops, timeouts | `SyncdSurvives` |
| | `InjectionSparesOrch` | any groups, members, next hops, timeouts | `OrchSurvives` |
| | `CallsLeaveNothing` | any groups, members, next hops, timeouts | `NoResidualResponse` |
| | `CleanupEmptiesChip` | any groups, members, next hops, timeouts | `CleanupComplete` |
| | `ChainTypes` | any bounds | `ChainTypeOK` |
| | `ServicesEnd` | every kind of service, any bounds | `NoGhost` |
| | `RecoveryIsClean` | any bounds | `RecoveredMeansClean` |
| `BgpProofs` | `SpeakerTypes` | any prefixes and window | `TypeOK` |
| | `AnnouncementsArrive` | any prefixes, window, commands | `NoLostAnnounce` |
| | `DeadSessionsClear` | any prefixes, window, commands | `DeadMeansCleared` |

*Loopback.* The invariants are nested. `TableInv` adds to the table's agreement with
the chip that held ports are in the table. `LoopInv` adds what is true at each stage:
no held port without a base, and when the guard finds `_touched` unset, nothing has
been looped since the last guard; that is why the guard may skip its work. `HomeInv`
says of every port where its PVID is (home, in its isolate VLAN, or in the live test
VLAN), that `orig` is a PVID which is still right when it is restored, and that every
VLAN beyond the default is accounted for by an entry; without the part about `orig`
the restore in `force_clear_all` would not be known to bring the port home. `RestInv`
carries the end of a session on both kinds of OS and under every fault: a port is held
without a base only if a gate failed (`HeldInv`), an isolation on record outside a body
is one the guard will undo or one of the orphans (`RecordInv`), and outside a base the
test VLAN is gone unless it was lost (`LostInv`); `suite_reset` does the rest.

*ConfigGuard.* `GuardInv` says while recording that undo *i* puts back what change
*i* changed, and while replaying that the configuration is `hist[left + 1]`. The lemma
`PutBack` is the step: applying undo *i* to the configuration after change *i* yields
the one before it, which is legal because the test was there. `LateInv` drops the
order: every registered undo puts its object back as the test found it, and an object
that is away is owed by something (a registration to come, an undo still to run, one to
retry, or a warning). An undo fails on the record or puts its object back (`UndoEffect`),
so an object never drops out of that list. `HealInv(Free)` adds that after the first pass
no free object is away; so in the second pass each command for an object of `Shallow` is
legal, and none is left.

*PortMode.* `Sane` is what every command keeps true of a port: a routed port is in no
VLAN, only a routed port has addresses, a hybrid port has no INTERFACE row, and an
access port with one is not in `_bridged`. From it follow `HomeIsL2`
(`_restore_bridge_home` works from every state) and `ResetIsL2` (so does
`reset_port_to_l2`, even when `_bridged` is stale). `HealInv` adds that what the guard
leaves alone is held or was left by a failed `l3net`. `UnbridgedInv` adds for
`GateSuffices` that a port in `l3up` has no loopback and, at the gate, has its
address; with `Sane` its membership is then empty in the configuration too, so that
no late `Program` can put it back. `JobInv` carries `L3UpWorks`: between the steps of
`l3up` the port is as the step before left it, since only orchagent runs in between
(`Ready` after the reset, `Bare` before the address). `EndInv` needs little beyond `Sane`,
because `HomeIsL2` and the homing loop do not care where a port was; the hypothesis
excludes the one case in which the loop itself undoes its work (section 3).

*Lanes.* `FloodInv` says that in the parallel phase a looped port of a worker is in
that worker's own default VLAN, also when the worker is dead, and that a worker which
has not finished its move, or has begun to move back, has no loops; that two workers'
default VLANs differ is arithmetic on the remapping. `EntryInv` says that an entry of
a worker is in a VLAN of its view, which scoped flushes of others do not reach, and
that nobody runs beside the tail, whose flushes are global; what the fixtures do at the
start, between tests and at the end (`Cleanup`) then stays with its worker, but for the
two box-wide parts of `suite_reset` that the property names. `ViewsNeverMeet` is about
the rules alone: `Audited` forbids two numbers at the distance of a shift and a shift
past the range, and that covers the octets that go down because they cannot go up. With
it `CleanupStaysHome` holds of the two workers without a condition on their views
(`AuditedWorkersSpared`).

*Rigs.* `RigInv` is a conjunction. `PlanInv` says that the commands to come are the tail
of one fixed list for each rig and stage and that the commands registered for the
teardown are a beginning of another, whose length is a function of the first
(`HairKept`, `VrfKept`); so a step is one of some thirty known commands, and one lemma
per command says what it does to what is known of the switch. `PvidInv` gives each port
exactly one PVID, which write-backs exchange and never add. `StormInv` follows each port
out of the default VLAN, counting the refusals that keep it there: a hairpin loops both
ports while both are members only after two (`HairStorm`); the VRF hairpin does not open
a loopback before its port has left (`VrfStorm`); the virtual link loops one port. With
two refusals `NoStorm` is false (section 3), so the theorems say what is true: not
before the second. `ArmInv` says that a confirmed PVID has no write-back pending, or its
port is in `hasty` and has that PVID or the default one, until the test sends. `HomeInv`
says that what the teardown has worked through has taken effect unless one of its
commands was refused, and that at its end the switch is `Home`.

*Sentinel.* `NamedInv`: outside of "idle" a test is named. `BlameInv`: a key that
differs from the baseline has been touched since the last comparison, and only by those
who were about; the baseline that rolls forward is what makes it inductive. `ReportInv`
carries the other two: the report can be replayed (`Replayable`), and the replay is a
pair whose first part is a function. What the tool computes is never unfolded further
than one line: `ReplayAppend` says that replaying a report with one line more is one
`ReplayLine` on top of the replay, and every step of the sentinel appends at most one
line. The refinement theorem then follows step by step: a comparison that finds a
difference is a closing of the ledger, one that finds none and every other step a
stutter.

*QosObjects.* `SweepInv` says that from the start of the sweep on no late row is
pending, the queue rows are gone, and every object is still to be deleted or named.
`HomeInv` follows each thing by itself, unless it is in `marred`: what the test put
there has its undo on the list (`RowInv`), a shipped QUEUE row is there as it came and
no undo of the test names its key, and the shipped PORT_QOS_MAP is in place or in `orig`
(`MapInv`). The delicate row is the port's scheduler: a baseline built after `bind_port`
remembers it and brings it back when it is undone, which is right only because the undo
of the binding stands further down the list. A second baseline in one script would
remember the first one's map; no test of the repository builds two, and the theorem says
so (`Once`).

*DlbInject.* A slot is an operation on its way: the one syncd works on, then those in the
ASIC queue. `NamesInv` says that what an operation names is in the chip and that no
operation before it removes it; that is what syncd needs, and the reason it holds is that
the class sends a remove only for an object that has a RID and records an object only once
it has one. `ReplyInv` says that at most one operation of a call is on its way, that the
response queue holds either orchagent's answer or exactly what the call at hand has still
to pop (`Owed`), and that while orchagent waits no call injects; it is inductive as long
as `mishap` has neither `race` nor `late` (`Calm`). The last reading of `quiesce` shows
that no bulk operation is in the queues, and the one case it does not show, a bulk
operation in syncd's hands, is a `race` by definition, so that the theorem says exactly
what the reading is worth. `LeftInv` adds that everything in the chip is recorded, a
group before its members (`KeptInv`), so that the reverse of the record takes a group only
after its members (`CleanupInv`).

*Servers and PmonChain.* `LifeInv` says where the thread of each kind of service can be
and what it holds, `StopInv` what `stop` has done by each of its stages: the flag is set
before the socket is closed, and whoever waits in the join waits for a thread that is
gone or for one of the two that `NoGhost` names; only the HTTP service has handlers.
`JobsInv` says that the jobs a recovery still has to do are the rest of a list the code
has, and `CleanInv` what the jobs already done have brought about: the mock is reset
before the rules go, the rules are gone before the daemon is restarted, and the restart,
unless it failed, drops an answer the daemon may hold. That order is what
`RecoveredMeansClean` rests on; another one is not inductive.

*BgpSpeaker.* `WireInv` says that a socket which was opened is closed by whoever ends
the thread, and that once it is down a FIN is the last message in flight or the switch
has seen it. `AnnounceInv` follows a prefix of the list between the thread's copy of it
and the end of the session: the thread has it still to send, or the caller is about to,
or it has landed: it is in the switch with no withdrawal behind it in flight, or its
announcement is in flight with none behind it. It is inductive because the caller takes
a prefix off the list before it sends the withdrawal, and because a send of an
established session either goes through, fails for good with the session, or times out,
which puts the prefix into `dropped` until an announcement of it goes through. The
mirror image for withdrawals is not inductive and is false: that is the run
`bgp_withdraw`.

The type invariants are proved for all of these modules; `Rigs` and `PmonChain` have
theirs in their runs too.

Every safety property that a passing run checks is the statement of a theorem. Only
model-checked is liveness (`StartReturns`, `StopEndsThread`, `TeardownPurges`, `RunEnds`,
`StopReturns`, `CacheHeals`), which needs fairness and is out of the prover's reach.

## 5. Not modelled, and the plan

Not modelled, with the reason:

* Port breakout (`framework/breakout.py`): one CLI command for split and one for
  merge, and a wait for the port list; the rest parses capability files.
* ACL and mirror helpers and the buffer audit (`framework/acl.py`, `bufaudit.py`):
  they build rows and parse chip dumps, and keep nothing; what a test leaves behind is
  the subject of `ConfigGuard` and `Sentinel`.
* Verification readers (`verify.py`, `vlanchk.py`, `qmeasure.py`), counters and
  packet construction: they read and compute, except for the loopbacks that traffic
  opens, which are in `Loopback`.
* The text of CLI commands and the parsing of their output.
* The test modules, of which only what they do to the framework is modelled;
  catalogue and report tools.

What is left: `Loopback` and `PortMode` composed, the chip's loopbacks and the port modes
under one session, with the loopbacks that `vrfhairpin.py` opens without the gate.

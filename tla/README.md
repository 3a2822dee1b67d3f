# A TLA+ model of Impala's control plane

Impala is a distributed SQL engine: impalads coordinate and execute queries, a
*statestored* tells them of each other, a *catalogd* keeps the metadata, an
*admissiond* may decide when queries run. This directory models the protocols
between and inside these daemons: how knowledge spreads and which daemon is in
charge, how a query is admitted, started, reported on, cancelled and released,
how its fragments exchange rows, and how they share memory. The models are
checked with TLC, and every invariant that a run checks, and its one action property, is
also proved with TLAPS, for all values of the constants (a few under hypotheses on the
faults, named below).
`PROJECT.json` lists components, runs, mutants, the map from definitions to
source lines, findings, hazards and theorems.

## Inventory

| component | state | operations | what makes it hard, and what makes it correct |
|---|---|---|---|
| statestore topics (`statestore.cc`, `Topic`) | entries with versions, update log, last version | `Put`, `DeleteIfVersionsMatch`, `ClearAllEntries`, `BuildDelta` | a delta is only right for the version it starts from; the log must list each entry once |
| statestored: registrations and workers | `subscribers_`, `Subscriber` objects, three pools, failure detector | `RegisterSubscriber`, `DoSubscriberUpdate`, `SendTopicUpdate`, `SendHeartbeat`, `UnregisterSubscriber` | workers sleep, call and reschedule while a registration is replaced; transient entries must leave with their registration; nobody may be forgotten |
| statestore subscriber | registration and statestore id, topic versions, `lock_`, `update_lock` | `UpdateState`, `Heartbeat`, `UpdateCatalogd`, `Register`, `RecoveryModeChecker` | requests of old registrations, repeated and late requests, recovery while a handler runs |
| catalogd designation | `StatestoreCatalogdMgr`, notifying thread, each subscriber's last version | `RegisterCatalogd`, `UnregisterCatalogd`, `CheckActiveCatalog`, `SendUpdateCatalogdNotification`, `CheckActiveCatalogdVersion` | registrations and failures in any order; two paths to each subscriber; versions that start over; at the end one active catalogd that everybody knows |
| RPC clients (`client-cache.h`) | connections | `DoRpc`, `RetryRpc`, `DoRpcWithRetry` | a request that failed for the sender may be executed, later or twice |
| cluster membership, executor groups, blacklist | current and recovering snapshot, executor group, blacklist, `query_locations_` | `UpdateMembership`, `BlacklistExecutor`, `CancelQueriesOnFailedBackends` | one map by id, another by address; a recovering view is hidden; executors must come back, and queries of lost ones must end |
| admission control | queue, running queries, pool, user and host statistics | submit, dequeue, status, cancel, release, heartbeat, clean-up | RPCs lost and repeated; coordinators that vanish; statistics exact, limits kept, everything released |
| coordinator, query state, fragment instances | exec state, backend states, barriers, resource state, report sequence numbers | exec, report, cancel, release | reports repeated, late and racing with the end; threads that wait for each other; released once, after the last report |
| data streams | receivers, early senders, closed-stream cache, sender queues, deferred RPCs | `AddData`, `CloseSender`, `GetBatch`, `ProcessDeferredRpc`, cancel, close | senders before their receiver, limits, lost wake-ups; no lost, reordered or late batch |
| reservations and memory trackers | a tree of reservations linked to memory trackers | increase, decrease, allocate, transfer, claim | locks bottom-up and given back early, roll-back when a level refuses; exact sums, limits, no deadlock |
| statestored HA | roles, peer, versions | handshake, HA heartbeats, `UpdateStatestoredRole` | two statestoreds, failover; at most one active |
| buffer pool pages, I/O manager | pages, request contexts, scan-range queues | pin/unpin, write-back, schedule, read, cancel | cancellation while a disk thread holds a range |
| catalog server and catalog topic | catalog versions, topic | update, SYNC_DDL wait | the minimum of the versions subscribers have processed |
| planner, expressions, codegen, exec nodes, file formats, shell | – | – | data-parallel or sequential computation, no protocol; not modelled |

How the parts interact: a subscriber calls `RegisterSubscriber()`; the
statestored's workers call `UpdateState()`, `Heartbeat()` and `UpdateCatalogd()`
of the subscriber; `UpdateState()` calls the topic callbacks, of which
`ClusterMembershipMgr::UpdateMembership()` puts the local backend into the
answer and makes the snapshots that the scheduler, the admission controller and
`ImpalaServer` use. A coordinator asks the admissiond for a schedule, starts
the fragment instances, and releases each backend at the admissiond when its
last report has come. Instances send row batches to each other, and get their
memory from the reservation tree of their impalad.

## Modules

```
Topic                    the Topic object: pure operators
  TopicReplication       what a topic promises a subscriber (abstract)
    TopicReplicationProofs
  Statestore             registrations, workers, subscribers, membership;
                         implements TopicReplication
    StatestoreProofs
CatalogdHa               the active catalogd
  CatalogdHaProofs
ClusterMembership        an impalad's view of the cluster, and what it cancels
  ClusterMembershipProofs
AdmissionControl         coordinators and the admission control service
  AdmissionControlProofs
QueryExecution           a query: coordinator, backends, fragment instances
  QueryExecutionProofs
DataStream               one exchange between fragments
  DataStreamProofs
ReservationTracker       the tree of memory reservations
  ReservationTrackerProofs
MC*                      one per specification, for the .cfg files
```

**Topic.** A topic is a record of `entries_`, `topic_update_log_` and
`last_version_`; each operator is one critical section of the topic's lock. A
delta's list of items is a function on the keys. Sizes, metrics and
`filter_prefix` are left out; one iteration of `Put()`'s loop is one `Put`.

**TopicReplication.** The abstract specification: updates are built from *any*
base version, and lost, delayed, repeated or reordered; a subscriber takes a
delta only on top of its `current_topic_version`, except that one at version -1,
which has just started, takes any. Nothing is said of
registrations or of what the statestored believes. Two variables are history. `base` is the version a copy
was begun above: 0 after a full update, and the delta's `from_version` where a
process began with a delta, as one meant for its predecessor; such a copy
lacks the entries up to `base` and is promised nothing of them. `cleared`:
clearing loses the deletions, so a copy is only promised exact until then.

**Statestore.** One transient topic, the cluster membership, whose keys are
backend ids (a new one per process). Correspondence:

| variable | code |
|---|---|
| `subscribers`, `regs` | `subscribers_`, and the `Subscriber` objects, which workers keep alive after they left the map |
| `upd`, `hb` | the chain of `ScheduledSubscriberUpdate`s a registration has in each pool, with the worker's position in `DoSubscriberUpdate()` / `SendTopicUpdate()` |
| `missed` | `MissedHeartbeatFailureDetector` |
| `calls` | `UpdateState()` handlers; `live` is the one a worker waits for |
| `sub` | a subscriber's process: `registration_id_`, `is_registered_`, `current_topic_version`, the callbacks' copy, the local backend; `mode = "registering"` while the recovery thread (or `Start()`) holds `lock_` |
| `late` | `RegisterSubscriber()` requests nobody waits for |

The worker's steps are the critical sections of the code: lookup, delta, the
call, `SetLastTopicVersionProcessed()`, `Put()`, `AddTransientEntries()`,
cleanup, reschedule. `UpdateState()` is two steps, the registration check and
everything under `lock_`, because recovery can come between. A full queue takes
the registration out of the map, as `OfferUpdate()` does; since the queue holds
those of the waiting updates that no thread has taken, both outcomes are
possible once as many wait as the limit says. Heartbeats are one step: their
RPC changes nothing but the outcome. `DeleteAllTransientEntries()` goes
through a hash table, so the deleted entries get the next versions in any order
(`WithoutTransient` is the set of the possible topics). `sub[s].source` and `sub[s].processed` are
history: whose topic the copy is of, and the highest version processed of it. The mapping to `TopicReplication` gives it `base = 0`: in the run `statestore` no process
restarts, so every copy is begun with a full update (`BadStart.cfg` has the other case).

**CatalogdHa.** `mgr` is `StatestoreCatalogdMgr` and its actions are the
branches of `RegisterCatalogd()` and `UnregisterCatalogd()`; the priority of two
catalogds that register without an active one is a choice, since it may be
by random registration id. `notifier` is `MonitorUpdateCatalogd()`'s thread: it reads the
active catalogd (`NotifyRead`), lists the receivers under another lock
(`NotifyRound`), and calls them one by one (`NotifyOne`). `proc[p].view` is the
catalogd a process believes active, `is_active_` of a catalogd being `view = c`.
`elected` is history: the catalogd of each version.

**ClusterMembership.** `cur` and `rec` are `current_membership_` and
`recovering_membership_`, each a record of `current_backends`, the executor
group, the blacklist and whether the local backend is in. A backend is an
address and an incarnation, because `ExecutorGroup` works by address while the
other two are keyed by id. `UpdateMembership()` and `BlacklistExecutor()` hold
`update_membership_lock_` throughout and are one action each; an update carries
what the topic has beyond the snapshot it is applied to, or all of it after a
new registration. Timeouts of the blacklist are marks (`expired`, `lapsed`) that
time sets. `query`, `located` and `pool` are the server's side: a query is
scheduled from a snapshot, registers its locations, runs, and is cancelled
through the cancellation pool when an executor left. `mixed` is history, see
`BadBlacklist.cfg` below. `inflight` is the session's set of that name:
a query runs before or after `SetQueryInflight()` puts it there, and
`CancelFromThreadPool()` skips those not in it. The grace period after a recovery is only a
window of time: when it ends, an executor that is slow to return to the topic counts as failed
(`failed`), and loses its queries. A query that is retried instead of cancelled
(`TryQueryRetry()`) is not modelled.

**AdmissionControl.** `client`, `cancelled` and `unreleased` are the
coordinator's `RemoteAdmissionControlClient`; `state` is the service's
`admission_state_map_`; `queue`, `running`, `stats`, `outcome` the
`AdmissionController`. `AdmitQuery` puts a state into the map and hands it to
the pool's thread, which reads the membership snapshot and only then takes
`admission_ctrl_lock_`, so these are two steps. An RPC
may fail before or after it was executed, and is repeated as the client does;
releases may be late or doubled. A query takes one unit of memory and
one slot on each of its hosts, so pool memory, host memory and slots each are
compared with a limit as in `CanAdmitRequest()`. A coordinator that is gone is
noticed by the membership (clean-up in two steps: collect, then release
each), one that forgot a query by `AdmissionHeartbeat`. A coordinator may also crash before the
service has heard of it, and the service may hear of it afterwards, or never: then
its query has an unknown coordinator for good (`Orphaned`).

**QueryExecution.** `main` is the thread of `Coordinator::Exec()` and of what
follows, `ending` whoever won the transition of `exec_state_` and now runs
`HandleExecStateTransition()`, `handler[b]` the report handler of a backend,
`bs` the `BackendState`s, `rpcs` and `complete` the two `CountingBarrier`s,
`res` the `BackendResourceState`, `qs` and `inst` the backend. A report
reads the status in one step, and the instances' flags when it is sent in another,
because instances go on between (`ConstructReport()`); its handler is the sequence of the code: apply under the
backend's lock, tell the coordinator, the barrier, mark finished, release.
`freed` and `dml` count what the admission controller and the
`DmlExecState` are told. What instances compute is external; they run, stall,
fail, or notice that they are cancelled.

**DataStream.** `rpc[s]` is the one RPC a channel has in flight. `reg`, `early`
and `taken` are the manager's maps and `CreateRecvr()`'s local copy; `queue[i]` a
`SenderQueue` with its batches, deferred RPCs, tasks in the deserialization pool
and insertions under way without the lock (`adding`); `cons`, `want`, `got` the
exchange node. `merging` chooses one queue for each sender, or one for all. A batch has size
1. `RetryCb` of a reset connection sends the same RPC again, which is a stutter.
`TransmitDataFails` is the failure of `DoTransmitDataRpc()` before its call is made (a
sidecar is refused, which happens to batches above 2 GB): `Teardown()` then cancels
a call that does not exist, which is undefined. The process dies, and the query
fails, or the sender waits forever, and nobody knows (`Hangs`).

**ReservationTracker.** One action is what a thread does under one lock: an
increase climbs (`Climb`) until some level has enough, then grants on the way
back; a refusal by the topmost linked `MemTracker` takes the grants back,
level by level; a decrease passes each level; a transfer takes the locks of both
paths and settles the common ancestor last. `Consistent` is therefore asked of
every state between, not only where `CheckConsistency()` stands. What the tree looks
like is assumed (`TreeOfReservations`): clients and the initial reservations are leaves but for
`SubReservation`s, an instance has no limit of its own (`RuntimeState` gives it the
largest number), and a query that got its initial reservations has room for them. A claim is made
by a client that has nothing and to which nobody transfers; then `DCHECK(success)` in
`Claim()` holds, which the proof needs and shows (`ClaimFits`).

Definitions called *mutants* in the modules are deliberate errors, each next to
the definition it stands in for; no specification uses them. They show that
every checked property would notice the error.

## Runs

| run | instance | states | shows |
|---|---|---|---|
| `topic_replication` | 2 keys, 2 values, 1 subscriber, 4 changes, 2 updates under way, restarts, with and without clearing | 2.5 M | the log is exact; updates under way stay true; a copy agrees with the topic from where it was begun up to its version, and is exact at the latest unless the topic was cleared |
| `statestore` | 1 publishing subscriber, 3 registrations, 1 fault of five kinds | 45 k | no transient entry leaks, no registration is forgotten, versions recorded are versions processed, and every behaviour is one of TopicReplication |
| `statestore_recover` | 1 subscriber, 2 processes, 2 statestoreds, 1 fault of six kinds | 0.26 M | the local backend ends up in the topic, dead backends leave it, copies converge |
| `catalogd_ha` | 2 catalogds, one forced, 1 coordinator, 1 fault of five kinds | 0.47 M | roles follow the registrations; a version names one catalogd; in the end one running catalogd is active and everybody knows it |
| `membership` | this impalad and one other with 2 incarnations, 1 query, 3 faults of six kinds | 82 k | executor groups are the available executors; queries are cancelled only for executors that failed or missed the grace period; those in flight on a failed one end; executors come back |
| `admission` | 2 coordinators, one not known at first, 2 queries for 1 place, 1 fault of six kinds | 0.15 M | statistics match the running queries, the queue is what waits, limits hold, each query is released, and decided unless it is behind an orphaned one |
| `query_exec` | the coordinator's backend and another; a query with an instance on each, an insert with two on the other; 1 fault of six kinds | 0.35 M | each backend released once and when done, an insert complete and counted once, reports truthful, start-up and query end |
| `data_stream` | 2 senders of up to 2 batches, room for 1, 2 deserialization threads, merging or not, 1 fault | 0.21 M | wake-ups, order and completeness, the limit, a clean close; everybody ends and every RPC is answered, unless a sender hangs in `Teardown()` |
| `reservation` | a process, a query with initial reservations, 2 clients, a sub-reservation, and another query; 3 threads | 0.5 M | limits in every state, exact sums, nothing kept above, memory trackers agree, no cycle of locks |

Further configurations to run by hand, with the MC module of the same component:
`MCStatestoreTwo` (a publisher and an observer, 1.8 M states: no leak and right copies when
two subscribers' updates interleave), `MCCatalogdNoHa` (one catalogd without HA),
`MCAdmissionTrivial` (trivial queries, which pass the queue), `MCDataStreamThree` (3
senders, 1 thread, 2.3 M states).

**Bounds.** Topics: two keys are needed for the log to have an order and four versions for
an entry to be put, deleted, put again while an update from before is under
way. Two updates under way are needed for one to overtake the other. Three
registrations are a registration, the one that replaces it, and one that
replaces it in turn while workers of the first still run. One fault already
gives long histories, since what follows it (unregistration, recovery,
re-registration, stale workers and handlers) interleaves freely. `MaxMissed = 1`
leaves out only waiting. `MaxQueue = 10` is a limit nobody reaches; `BadLimit.cfg` has 1. The
theorems need none of these bounds. Membership: two incarnations of an
address are what address and id can disagree on, and three faults are a
blacklisting, a crash and a lost statestored in any order. Admission: two queries for one place, so one
waits, and one coordinator that the service learns of late. Query: the
coordinator's backend is treated differently, so one more is the least; the
insert has two instances on it so that a report can have one done and one not.
Streams: with two batches and room for one, each sender meets a full queue, and
a merging receiver waits for one sender while the other is deferred.
Reservations: a chain of four levels (sub-reservation, client, query, process)
and a second query, so that increases meet at two ancestors; one byte per
request suffices for each level to be at its limit.

**Deadlock** is checked in the runs of `Statestore` and `ReservationTracker`,
where something is always possible. A topic with all its versions used,
catalogds that all know the active one, and queries that have ended may rest:
those runs say `CHECK_DEADLOCK FALSE` and have liveness properties instead.

**Fairness.** In `Statestore` the workers, RPC handlers and the recovery thread keep
running (they are threads of live processes, and a crashed process is started
again), and the local server comes up. `ProcessStep` is strongly fair because,
without stalls, recovery waits for handlers that hold `lock_` shared, again and
again but each time for an end. In `CatalogdHa` time passes and the notifier,
the recovery threads and, for a process that is gone, the heartbeat failures go
on; a crashed process need *not* return. In `ClusterMembership` topic updates
keep coming (the statestored sends them periodically, with or without changes),
time-outs pass, and the threads run, those of the clients that call `SetQueryInflight()` too. In `AdmissionControl` coordinators poll and
send heartbeats, queries end, the service's threads run, and the service hears of a coordinator
that stays up, not necessarily of one that crashed; no queue time-out is
assumed but in `BadOrphan.cfg` (`TimeoutSpec`), where it makes no difference. In `QueryExecution` threads run and the RPC layer ends its calls;
reports are periodic (`status_report_interval_ms > 0`, the default, on which the
end of a backend nobody could cancel depends), and execution nodes end
unless a fault makes them stall. In `DataStream` RPCs arrive, the pool and the
maintenance thread run, and a query that failed is cancelled at each instance.
No fault is ever fair, and each is bounded, so "once the faults are over" is `<>[]`.

`MayStall` of `Statestore` lets recovery overtake a handler between its registration check and
its lock. It is on in `statestore`; `statestore_recover`
has it off, since its properties are about what happens in the end and the
handler is a matter of microseconds against seconds. `BadStart.cfg` shows what a
stall can do to a process that has just started, which is why crashes are in
`statestore_recover` and not in `statestore`.

## Where code and documentation disagree

Three have a run that violates the statement quoted in `PROJECT.json`.

* `bad_status` – the Thrift handler `UpdateState()` overwrites the error of an
  unexpected registration id with OK, so the statestored records a version that
  was not processed. It takes a late registration to get there.
* `bad_cancel` – `CancelQueriesOnFailedBackends()` takes the failed backends out
  of `query_locations_` before it finds the cancellation queue full; the
  "next heartbeat" that should try again finds nothing.
* `bad_release` – `SubmitForAdmission()` reads the membership before it takes
  the lock. A query admitted after the clean-up for its coordinator is not
  released until the membership changes again. `admission` shows that this is the
  only way: `EventuallyReleased` exempts just these
  queries (`stale`), `EventuallyDecided` these and the ones `BadOrphan` is about.

The others are configurations to run by hand; each ends with a counterexample.

* `BadLimit` (`NoLeakedEntries`) – `OfferUpdate()` removes a registration without
  `UnregisterSubscriber()`; its transient entries stay in the topic.
* `BadStart` (`CopyIsTopicAtVersion`) – a process that has just started can process a delta of its
  predecessor's registration, when its own registration completes between check
  and lock; as its version is -1, the delta is applied to nothing. The full
  update of the new registration repairs it. A process that re-registers may
  process an update of its earlier registration in the same way, but its copy
  stays right (`statestore`), because of the version test.
* `BadPublish` (`Published`) – `UpdateMembership()` believes its entry published once it is
  in the answer; if the answer is lost the backend stays out of the topic.
  `statestore_recover` shows that failed heartbeats and registrations, crashes
  and a new statestored do not have this effect.
* `BadPrevious` (`PreviousNotAccepted`) – an `UpdateCatalogd()` handler can take effect after the next
  registration. With a statestored replaced in between, the version test does
  not help, since versions start over.
* `BadBlacklist` (`SnapshotIsExact`) – `BlacklistExecutor()` removes from the
  executor group by address (`cluster-membership-mgr.cc:541`); when the
  restarted impalad at that address is already in the snapshot, it is the
  successor that disappears from the group, although not blacklisted
  (`cluster-membership-mgr.h:104`). `GroupIsExact` and `ExecutorsReturn` hold
  except after this (`mixed`).
* `BadQuota` (`UserLoadsAreExact`) – a query that leaves the queue by
  cancellation, time-out or rejection stays in the user's load, which is
  said to count queries "queued or running" (`StatestoreService.thrift:82`).
* `BadHeartbeat` (`ExecutingHoldsResources`) – a coordinator lists its queries
  for the heartbeat and the list may be from before a query was registered
  (`impala-server.cc:3072`); when it arrives late, a query that runs
  loses its resources at the admissiond.
* `BadProgress` (`RangesGrow`) – a late report is dropped for instances that
  have reported since, but its total of scan ranges is taken, against the
  `DCHECK_GE` of `coordinator-backend-state.cc:536`.
* `BadInflight` (`SkippedDoesNotRun`) – execution may start before `SetQueryInflight()` (`impala-server.h:668`).
  `CancelFromThreadPool()` skips such a query "as query was not running" (`impala-server.cc:2198`), although
  it runs on an executor that is gone and its location is erased: no later update
  cancels it, only the lack of status reports does (`UnresponsiveBackendThread()`).
* `BadOrphan` (`UnknownLeavesQueue`) – a query with an unknown coordinator is said to remain queued
  "until it times out" (`admission-controller.cc:2245`). The queue time-out is only looked at when the coordinator
  polls; if it ended before the admissiond heard of it, the query stays, and
  those behind it wait.
* `BadTeardown` (`ChannelsClose`) – `FlushFinal()` and others rely on an error being propagated and the
  channels being closed (`krpc-data-stream-sender.cc:1272`); after a failure of `DoTransmitDataRpc()` `rpc_in_flight_` is
  still set, and `Teardown()`, which comes before the error is reported, waits for a
  call that was never made.

Two more can be read off the model without a run: `LastTopicVersionProcessed()`
"will never decrease" (`statestore.h`), but `ApplyReturned` sets it back to the
base a subscriber asks for, after `AckUpdate` has for a moment set it to a
version the subscriber refused; and a resend round of `Receivers` keeps a
registration that was replaced, because it looks for the subscriber id.

## Proofs

`TopicReplicationProofs` proves, for all keys, values and subscribers and any
number of changes and updates under way, `TypeCorrect`, `LogCorrect`,
`UpdatesCorrect`, `CopiesCorrect` and `CaughtUpCorrect`. Assumptions: the
special values are not topic values (`TopicConstants`), bounds are naturals.
The inductive invariant is the conjunction of the checked invariants with
`VersionsBounded`, `NoStrayKeys`, `BasesBounded` (a copy was begun below its version) and `NewIsEmpty`
(a subscriber at -1 has nothing, so that any delta may be its first). `CopyAgrees` alone is not inductive: that a
processed update leaves the copy right is `UpdatesStayTrue`, which in turn needs
`LogMatchesEntries` when an update is built and the freshness of versions when
the topic changes. What only holds until the topic is cleared has `~cleared` as
its hypothesis, so one invariant serves both cases.

`CatalogdHaProofs` proves, for any coordinators and any number of faults,
`TypeCorrect` and `RolesCorrect` (with `NeverDesignated`: a catalogd that waits
alone is not called active from an earlier time), and `VersionsCorrect`: a
version names one catalogd, provided handlers do not stall between check and
lock or the statestored is never replaced. `BadPrevious.cfg` shows the behaviour the
proviso excludes. `VersionInv` says of everything that carries a
version, answers, the notifier's round, requests nobody waits for, and the
processes, that it carries the catalogd designated with it; requests of an
earlier statestored are exempt because their registration id is nobody's.

`StatestoreProofs` is about any finite set of subscribers and any number of
registrations, processes, statestoreds and faults. Its invariants come in layers:

* `IInv` – types; `Sound(topic)` (the log lists each entry once under its
  version, no version twice, none above the last); `RegInv` (the current
  registration of an id is its own, not unregistered, and has both chains; a worker
  waits for every live call, and for one at a time); `ChainInv` and `ProcInv`. It is
  inductive without any hypothesis, and gives `RegisteredIsScheduledHolds`.
* `LeakInv`, for `NoLeakedEntriesHolds`. An entry is somebody's at each step between
  `Put()` and `AddTransientEntries()` because a chain is of a current registration
  or of one marked `unregistered_`, and because what is recorded is older than what a
  worker is about to record. Hypothesis `MaxRegs <= MaxQueue`: the queues are
  never full. `BadLimit.cfg` shows why it is needed.
* `CopyInv`, for `CopyIsTopicAtVersionHolds`. An update says the truth of every
  entry not changed since (`TrueDelta`), a copy likewise (`TrueCopy`), and a
  registration that was acknowledged, or to which a delta is under way, is of
  the statestored the process's copy comes from (`Acknowledged`): that is what
  makes a delta of a new statestored never meet the copy of an old one.
  Hypothesis `~MayStall`; `BadStart.cfg` shows the stall it excludes.
* `LastInv`, for `LastIsProcessedHolds`. A process knows no registration but the
  current one of its id, so an update whose check fails is never one the
  statestored counts; what an answer says was processed, or asks for, is at most
  what was processed. Hypotheses `~MayStall` and no late registration: `bad_status`
  is the counterexample without the second. With `statestore`, where handlers do stall,
  this says that the late registration is what it takes.

`ClusterMembershipProofs` proves `GroupIsExactHolds` and `CancelledHadFailedHolds`
for any impalads, incarnations, queries and faults; the second is about steps, since an executor
may publish itself again after its queries were given to the pool. `TopicInv` and `BackendsInv`:
topic and snapshot have one incarnation of an address at most, and a backend
that shuts down never runs again, which is why working by address (the group) and by id
(the rest) agree. `UsedInv`: whatever a query may be scheduled on is in the topic,
was declared failed, or the grace period is on. The hidden snapshot satisfies the same as the
visible one while a recovery lasts, so replacing one by the other needs no
argument of its own.

`AdmissionControlProofs` proves `AggregatesMatchRunningHolds`,
`QueueIsPendingHolds` and `WithinLimitsHolds` for any coordinators, users, queries
(not necessarily finitely many) and finitely many hosts. `BookInv` states the pool's and the
hosts' numbers as cardinalities of sets of running queries, so that an admission
or a release changes each set by one element; a user's load is only bounded from below
(`LoadInv`), see `BadQuota.cfg`. `PhaseInv` says where a query can be, by its
admission state and its promise; it is what makes a late or doubled release find
nothing to subtract.

`QueryExecutionProofs` proves `ReleasedOnceHolds`, `ReleasedIsDoneHolds`,
`DmlCompleteHolds` and `TruthfulReportsHolds` for any backends and instances and any
number of reports and faults. `StartInv` and `CountInv` tie the two barriers to the
number of backends that have not answered or not ended; `DoneInv` and `ReleaseInv`
say who is going to release a backend: nobody yet, one handler, or the thread that
ends the query; `SeqInv` ties what a report counted to its sequence number;
`TruthInv` and `FinalInv` relate reports and the end of an insert to what the instances did.

`DataStreamProofs` proves `HeldOnceHolds`, `WillWakeUpHolds`, `DeliveredHolds`,
`WithinLimitHolds` and `NothingAfterCloseHolds` for any number of senders and batches, any
number of threads, any limit and faults. `HeldOnce`, that an RPC is in one place only, carries
the rest: `OrderInv` and `CompleteInv` say what has arrived by where the sender's RPC is,
`RemainingInv` that `num_remaining_senders_` still counts every sender with something to
come, `OverInv` what the reader may conclude from the end of a queue, `LimitInv` that
each batch beyond the limit is in a queue of its own.

`ReservationTrackerProofs` proves `ReservationsConsistent`, `ChildrenAlwaysAddUp`,
`AccountsAlwaysAgree` and `LocksNeverCycle` for any finite tree of trackers, any threads,
limits and sizes. A parent's child reservations and a child's reservation change under
different locks, so that they add up is not inductive. `Pending(c)` is what the holder of
`c`'s lock has done to only one of the two, by where it is in its operation: an
increase not yet granted at `c`, a decrease not yet taken from the parent, a transfer
that has not settled with the common ancestor. `Share` is reservation and pending
together, and `SumsAgree`, the child reservations are the sum of the shares, holds in every
state. `Bounds` needs to know what a thread between two locks still relies on:
each level it has locked has room (`ClimbOK`, `GrantOK`), what it takes away is unused and
stays so (`ReleaseOK`, `TransferOK`, `SettleOK`), since only its owner uses a client and others
can only add to it (`Quiet`). `Passed`, that what nobody owns keeps nothing, is what makes
a roll-back exact: all levels were asked for the same. `InitialOwed` is the
same idea as `Pending` for the initial reservations and the claims still to come. A sum is the cardinality of a
set of pairs, so that changing one summand is a fact about finite sets
(`TotalChange`); that a reservation is covered on every level of its path (`PathCovers`) is
an induction, done by the least counterexample (`LeastNumber`, from the library's `WFMin`).
Locks: `Before` orders a tracker before those above it and sibling subtrees by the
address of their top; it is a strict order (`BeforeTransitive`), what a thread has is before
what it waits for (`WaitsInOrder`), and a finite set has a last element (`LastInOrder`). Assumptions
are `TrackerConstants`, `PathsToRoot` and `TreeOfReservations`.

In most of these, `Invariant` is the theorem that the inductive invariant, with
the types, always holds; the properties follow from it. The named `ASSUME`s of
the specifications are the only assumptions besides the hypotheses named here: bounds are
naturals (those on processes and statestoreds at least 1), fault kinds are the
listed ones, and sets whose elements are counted are finite.

Only model-checked:

* the temporal properties, since liveness under fairness is out of the prover's reach;
* the refinement `ImplementsReplication`. `TopicReplication` bounds versions and
  updates under way in its guards, and the refinement mapping has to give the
  bounds numbers (1000, which no run reaches); without a relation between them and
  the bounds of `Statestore` the implication does not hold for all constants. What it says of
  copies is proved directly (`CopyIsTopicAtVersionHolds`).

## Not modelled

* *Statestore*: statestored HA (the statestored is always
  active, a subscriber has one stub), the priority pool and topics that are not
  transient in `Statestore` (clearing is in `TopicReplication`),
  `min_subscriber_topic_version`, `MonitorSubscriberHeartbeat()`, the debug
  actions, protocol-version mismatches, `tolerate_statestore_startup_delay`, the clocks of the
  failure detectors, metrics and web pages. In `CatalogdHa` the queues have room.
* *Membership*: the hash ring of a group, several groups, the list of
  coordinators, updates to the frontend, retries of queries whose executor failed.
* *Admission*: the statistics that admission controllers exchange through the
  request-queue topic, several pools and groups, memory estimates, pool
  configuration. The scheduler's assignment is a constant.
* *Query execution*: the wait at the end of `Coordinator::Exec()` for the coordinator
  instance's `Prepare()` (`coordinator.cc` 207-217), runtime filters, profiles, retried queries, result
  spooling, the client request's own states.
* *Data streams*: a sender with several channels (each channel is independent of
  the others but for the thread that fills them), partitioning of rows; what may happen between
  `FindRecvr()` and `AddBatch()`, and between taking a list of early senders off the map
  and answering them when they time out (one action each); two
  queues of a merging receiver that read `num_buffered_bytes_` at the same
  instant, each finding room.
* *Reservations*: pages, pins and write-back of the buffer pool, free lists,
  garbage collection in `MemTracker::TryConsume()`. The roll-back is exact
  only because trackers without an owner have no unused reservation
  (the second part of `ChildrenAddUp`).
* The planner, expressions, code generation, execution nodes and file formats
  compute without a protocol; vendored libraries are not Impala's. They
  are most of the repository's lines.

The components are listed in `PROJECT.json`, each with its reason.

## Plan

1. *Done:* `Topic`, `TopicReplication` with proofs, `Statestore` with its
   refinement, `CatalogdHa` with proofs.
2. *Done:* `ReservationTracker`, `ClusterMembership`, `AdmissionControl`,
   `QueryExecution`, `DataStream`.
3. *Done:* `ClusterMembershipProofs`, `AdmissionControlProofs`,
   `QueryExecutionProofs`, `DataStreamProofs`, `StatestoreProofs`,
   `ReservationTrackerProofs`. Left: a version of `TopicReplication` without bounds in its
   guards, and the steps of `ImplementsReplication` for it.
4. `StatestoreHa`: two statestoreds, handshake, failover, composed with
   `CatalogdHa`'s subscribers; `CatalogdHa` with full queues.
5. Buffer pool pages; request contexts of the I/O manager; the minimum version
   for SYNC_DDL; admission statistics through a topic.

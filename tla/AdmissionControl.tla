-------------------------- MODULE AdmissionControl --------------------------
(***************************************************************************)
(* The admission control service: coordinators submit queries to the       *)
(* admissiond, poll for the decision, run them and release what was        *)
(* admitted, over RPCs that get lost, delayed or repeated; the admissiond  *)
(* queues, admits and rejects, and cleans up after coordinators that       *)
(* forgot a query or left the cluster.                                     *)
(*                                                                         *)
(* One resource pool, one executor group; a query uses one unit of memory  *)
(* and one slot on each of its hosts.  Each action is what one thread does *)
(* while it holds admission_ctrl_lock_ (or an AdmissionState's lock).      *)
(***************************************************************************)
EXTENDS Integers, Sequences, FiniteSets

CONSTANTS
    Coordinators, Queries, Users, Hosts,
    Known,          \* coordinators the admissiond knows when it starts to serve
    CoordinatorOf,  \* the coordinator of a query ...
    UserOf,         \* ... the user who submits it ...
    HostsOf,        \* ... and the hosts the scheduler gives it
    TrivialQueries, \* queries that GetIsTrivialQuery() holds of
    MaxTrivial,     \* MAX_NUM_TRIVIAL_QUERY_RUNNING
    MaxRequests, MaxQueued, MaxMem, \* configuration of the pool
    UserLimit,      \* quota of every user
    HostLimit,      \* memory, and slots, of every host
    MaxHeartbeats,  \* heartbeats of a coordinator in flight
    FaultKinds, MaxFaults

ASSUME ConstantsAssumption ==
    /\ CoordinatorOf \in [Queries -> Coordinators]
    /\ UserOf \in [Queries -> Users]
    /\ HostsOf \in [Queries -> SUBSET Hosts]
    /\ TrivialQueries \subseteq Queries
    /\ Known \subseteq Coordinators
    /\ IsFiniteSet(Hosts)
    /\ {MaxTrivial, MaxRequests, MaxQueued, MaxMem, UserLimit, HostLimit,
        MaxHeartbeats, MaxFaults} \subseteq Nat

VARIABLES
    client,     \* what a query does at its coordinator
    cancelled,  \* queries with RemoteAdmissionControlClient::cancelled_
    unreleased, \* hosts of a query its coordinator has not released yet
    up,         \* coordinators that run
    heartbeats, \* AdmissionHeartbeats in flight, oldest first
    net,        \* delayed ReleaseQuery and ReleaseQueryBackends RPCs
    state,      \* admission_state_map_
    outcome,    \* admit_outcome, a promise that is set once
    queue,      \* the pool's RequestQueue
    running,    \* running_queries_ and its per_backend_resources
    stats,      \* PoolStats and host_stats_
    dequeue,    \* pending_dequeue_
    member, removed, \* coordinators in the snapshot, and removed ones
    notify,     \* the snapshot is new, its listeners are not yet called
    cleaning,   \* queries a clean-up collected and has yet to release
    stale,      \* queries submitted with a snapshot that was out of date
    faults

coordinator == <<client, cancelled, unreleased, up, heartbeats>>
controller == <<queue, running, stats, dequeue>>
membership == <<member, removed, notify>>
vars == <<coordinator, net, state, outcome, controller, membership, cleaning, stale,
          faults>>

NoState == [phase |-> "none", snapshot |-> "", status |-> "", unreleased |-> {}]

Init ==
    /\ client = [q \in Queries |-> "idle"]
    /\ cancelled = {}
    /\ unreleased = [q \in Queries |-> {}]
    /\ up = Coordinators
    /\ heartbeats = [c \in Coordinators |-> <<>>]
    /\ net = {}
    /\ state = [q \in Queries |-> NoState]
    /\ outcome = [q \in Queries |-> "unset"]
    /\ queue = <<>>
    /\ running = [q \in {} |-> {}]
    /\ stats = [running |-> 0, queued |-> 0, mem |-> 0, trivial |-> 0,
                user |-> [u \in Users |-> 0], host |-> [h \in Hosts |-> 0]]
    /\ dequeue = FALSE
    /\ member = Known
    /\ removed = {}
    /\ notify = FALSE
    /\ cleaning = {}
    /\ stale = {}
    /\ faults = 0

Fault(kind) ==
    /\ kind \in FaultKinds
    /\ faults < MaxFaults
    /\ faults' = faults + 1

Running == DOMAIN running
Queued == {queue[i] : i \in 1 .. Len(queue)}

\* Queries in a coordinator's query_driver_map_.
Registered == {q \in Queries : /\ CoordinatorOf[q] \in up
                               /\ client[q] \in {"admitting", "polling", "executing"}}

-----------------------------------------------------------------------------
(* Accounting.                                                             *)

\* UpdateStatsOnAdmission(): host stats and PoolStats::AdmitQueryAndMemory().
\* A query that was queued counts for its user since then.
UpdateStatsOnAdmission(s, q, wasQueued, isTrivial) ==
    [s EXCEPT !.running = @ + 1,
              !.mem = @ + Cardinality(HostsOf[q]),
              !.trivial = @ + IF isTrivial THEN 1 ELSE 0,
              !.user[UserOf[q]] = @ + IF wasQueued THEN 0 ELSE 1,
              !.host = [h \in Hosts |-> @[h] + IF h \in HostsOf[q] THEN 1 ELSE 0]]

QueueStats(s, q) == [s EXCEPT !.queued = @ + 1, !.user[UserOf[q]] = @ + 1]

\* PoolStats::Dequeue(): whatever the reason, the user's load stays.
DequeueStats(s, q) == [s EXCEPT !.queued = @ - 1]

\* UpdateStatsOnReleaseForBackends().
ReleaseHosts(s, hosts) ==
    [s EXCEPT !.mem = @ - Cardinality(hosts),
              !.host = [h \in Hosts |-> @[h] - IF h \in hosts THEN 1 ELSE 0]]

\* ReleaseQuery() of the controller, with release_remaining_backends: a
\* query that is not running has been released before.
ReleaseQuery(q) ==
    IF q \in Running
    THEN /\ stats' = [ReleaseHosts(stats, running[q].hosts) EXCEPT
                        !.running = @ - 1,
                        !.trivial = @ - IF running[q].trivial THEN 1 ELSE 0,
                        !.user[UserOf[q]] = @ - 1]
         /\ running' = [r \in Running \ {q} |-> running[r]]
         /\ dequeue' = TRUE
    ELSE UNCHANGED <<stats, running, dequeue>>

\* Mutant: the record of the running query keeps the hosts it released.
KeepHosts(q, hosts) ==
    IF q \in Running
    THEN /\ stats' = ReleaseHosts(stats, hosts \cap running[q].hosts)
         /\ dequeue' = TRUE
         /\ UNCHANGED running
    ELSE UNCHANGED <<stats, running, dequeue>>

\* ReleaseQueryBackends() of the controller.
ReleaseQueryBackends(q, hosts) ==
    IF q \in Running
    THEN /\ stats' = ReleaseHosts(stats, hosts \cap running[q].hosts)
         /\ running' = [running EXCEPT ![q].hosts = @ \ hosts]
         /\ dequeue' = TRUE
    ELSE UNCHANGED <<stats, running, dequeue>>

\* AdmitQuery(): the resources, and the record by which they are released.
AdmitQuery(q, s, isTrivial, wasQueued) ==
    /\ stats' = UpdateStatsOnAdmission(s, q, wasQueued, isTrivial)
    /\ running' = [r \in Running \cup {q} |->
                     IF r = q THEN [hosts |-> HostsOf[q], trivial |-> isTrivial]
                              ELSE running[r]]

-----------------------------------------------------------------------------
(* The decision.                                                           *)

SnapshotOf(c) == IF c \in member THEN "member"
                 ELSE IF c \in removed THEN "removed" ELSE "unknown"

HasAvailableSlots(q) == \A h \in HostsOf[q] : stats.host[h] + 1 <= HostLimit

HasAvailableMemResources(q) ==
    /\ stats.mem + Cardinality(HostsOf[q]) <= MaxMem
    /\ \A h \in HostsOf[q] : stats.host[h] + 1 <= HostLimit

\* Mutant: an empty queue is taken to mean that there is room.
EmptyQueueHasRoom(q, fromQueue) ==
    IF fromQueue THEN stats.running < MaxRequests ELSE stats.queued = 0

\* Mutant: the queue has to be empty for queued requests too.
QueueBlocksItself(q, fromQueue) ==
    /\ stats.queued = 0
    /\ stats.running < MaxRequests
    /\ HasAvailableSlots(q)
    /\ HasAvailableMemResources(q)

CanAdmitRequest(q, fromQueue) ==
    /\ fromQueue \/ stats.queued = 0
    /\ stats.running < MaxRequests
    /\ HasAvailableSlots(q)
    /\ HasAvailableMemResources(q)

IsTrivial(q) == q \in TrivialQueries /\ stats.trivial + 1 <= MaxTrivial

\* FindGroupToAdmitOrReject(): "reject", "admit" or "wait".
FindGroupToAdmitOrReject(q, snapshot, fromQueue) ==
    IF ~fromQueue /\ stats.queued >= MaxQueued THEN "reject"
    ELSE IF snapshot = "removed" THEN "reject"
    ELSE IF snapshot = "unknown" THEN "wait"
    ELSE IF IsTrivial(q) THEN "admit"
    ELSE IF Cardinality(HostsOf[q]) > MaxMem THEN "reject"
    ELSE IF ~fromQueue /\ stats.user[UserOf[q]] + 1 > UserLimit THEN "reject"
    ELSE IF CanAdmitRequest(q, fromQueue) THEN "admit"
    ELSE "wait"

\* A promise keeps the first value it is given.
SetOutcome(q, value) ==
    outcome' = IF outcome[q] = "unset" THEN [outcome EXCEPT ![q] = value] ELSE outcome

Decided(q, status) ==
    state' = [state EXCEPT ![q].phase = "done", ![q].status = status,
                           ![q].unreleased = IF status = "ok" THEN HostsOf[q] ELSE {}]

\* SubmitForAdmission() reads the snapshot before it takes the lock.
ReadSnapshot(q) ==
    /\ state[q].phase = "offered"
    /\ state' = [state EXCEPT ![q].phase = "submitting",
                              ![q].snapshot = SnapshotOf(CoordinatorOf[q])]
    /\ UNCHANGED <<coordinator, net, outcome, controller, membership, cleaning, stale,
                   faults>>

\* The rest of SubmitForAdmission(), and of AdmitFromThreadPool().
SubmitForAdmission(q) ==
    LET decision == FindGroupToAdmitOrReject(q, state[q].snapshot, FALSE)
    IN  /\ state[q].phase = "submitting"
        /\ CASE decision = "reject" ->
                  /\ SetOutcome(q, "rejected")
                  /\ Decided(q, "error")
                  /\ UNCHANGED controller
             [] decision = "admit" /\ outcome[q] = "cancelled" ->
                  /\ Decided(q, "error")
                  /\ UNCHANGED <<outcome, controller>>
             [] decision = "admit" /\ outcome[q] # "cancelled" ->
                  /\ SetOutcome(q, "admitted")
                  /\ AdmitQuery(q, stats, IsTrivial(q), FALSE)
                  /\ Decided(q, "ok")
                  /\ UNCHANGED <<queue, dequeue>>
             [] OTHER ->
                  /\ queue' = Append(queue, q)
                  /\ stats' = QueueStats(stats, q)
                  /\ state' = [state EXCEPT ![q].phase = "queued"]
                  /\ UNCHANGED <<outcome, running, dequeue>>
        /\ stale' = IF state[q].snapshot = SnapshotOf(CoordinatorOf[q])
                    THEN stale ELSE stale \cup {q}
        /\ UNCHANGED <<coordinator, net, membership, cleaning, faults>>

\* One turn of the loop of TryDequeue(), whose thread goes on while it
\* admits and has requests left to try.
TryDequeue ==
    LET q == Head(queue)
        decision == FindGroupToAdmitOrReject(q, SnapshotOf(CoordinatorOf[q]), TRUE)
        take == /\ queue' = Tail(queue)
                /\ UNCHANGED <<coordinator, net, state, membership, cleaning, stale, faults>>
        stop == dequeue' = FALSE
    IN  /\ dequeue
        /\ IF queue = <<>> \/ stats.running >= MaxRequests
           THEN stop /\ UNCHANGED <<coordinator, net, state, outcome, queue, running,
                                    stats, membership, cleaning, stale, faults>>
           ELSE CASE outcome[q] = "cancelled" ->
                       /\ take /\ stop
                       /\ stats' = DequeueStats(stats, q)
                       /\ UNCHANGED <<outcome, running>>
                  [] outcome[q] # "cancelled" /\ decision = "reject" ->
                       /\ take /\ stop
                       /\ stats' = DequeueStats(stats, q)
                       /\ SetOutcome(q, "rejected")
                       /\ UNCHANGED running
                  [] outcome[q] # "cancelled" /\ decision = "admit" ->
                       /\ take
                       /\ SetOutcome(q, "admitted")
                       /\ AdmitQuery(q, DequeueStats(stats, q), IsTrivial(q), TRUE)
                       /\ UNCHANGED dequeue
                  [] OTHER ->
                       /\ stop
                       /\ UNCHANGED <<coordinator, net, state, outcome, queue, running,
                                      stats, membership, cleaning, stale, faults>>

\* UpdatePoolStats(): the statestore calls regularly; without other
\* admission controllers the aggregates are the local stats.  With an empty
\* queue the wake-up has no effect.
UpdatePoolStats ==
    /\ queue # <<>>
    /\ dequeue' = TRUE
    /\ UNCHANGED <<coordinator, net, state, outcome, queue, running, stats, membership,
                   cleaning, stale, faults>>

-----------------------------------------------------------------------------
(* Submitting and polling: RemoteAdmissionControlClient and the service.   *)

RegisterQuery(q) ==
    /\ client[q] = "idle"
    /\ CoordinatorOf[q] \in up
    /\ client' = [client EXCEPT ![q] = "admitting"]
    /\ UNCHANGED <<cancelled, unreleased, up, heartbeats, net, state, outcome, controller,
                   membership, cleaning, stale, faults>>

\* AdmitQuery() of the service: a new state, with a new promise, unless the
\* query has one already.
AdmitQueryRpc(q) ==
    IF state[q].phase = "none"
    THEN /\ state' = [state EXCEPT ![q] = [NoState EXCEPT !.phase = "offered"]]
         /\ outcome' = [outcome EXCEPT ![q] = "unset"]
    ELSE UNCHANGED <<state, outcome>>

\* TryAdmitQuery().  An RPC may fail although it arrived; after a network
\* error the client tries again, or it gives up.
TryAdmitQuery(q) ==
    /\ q \in Registered
    /\ client[q] = "admitting"
    /\ \/ /\ q \in cancelled
          /\ client' = [client EXCEPT ![q] = "done"]
          /\ UNCHANGED <<state, outcome, faults>>
       \/ /\ q \notin cancelled
          /\ AdmitQueryRpc(q)
          /\ client' = [client EXCEPT ![q] = "polling"]
          /\ UNCHANGED faults
       \/ /\ q \notin cancelled
          /\ Fault("admit")
          /\ AdmitQueryRpc(q) \/ UNCHANGED <<state, outcome>>
          /\ \E c \in {"admitting", "done"} : client' = [client EXCEPT ![q] = c]
    /\ UNCHANGED <<cancelled, unreleased, up, heartbeats, net, controller,
                   membership, cleaning, stale>>

\* WaitOnQueued() for a query of the queue, and what GetQueryStatus() does
\* with its answer; expired: the queue timeout of the pool has passed.
StatusOf(q, expired) ==
    CASE state[q].phase = "none" -> "error"
      [] state[q].phase = "done" -> state[q].status
      [] state[q].phase = "queued" /\ outcome[q] = "admitted" -> "ok"
      [] state[q].phase = "queued" /\ outcome[q] \in {"rejected", "cancelled"} -> "error"
      [] state[q].phase = "queued" /\ outcome[q] = "unset" /\ expired -> "error"
      [] OTHER -> "none"

\* Mutant: a request that timed out is left in the queue.
StaysQueued(q, status) ==
    /\ IF status = "error"
       THEN state' = [state EXCEPT ![q] = NoState] /\ SetOutcome(q, "timed_out")
       ELSE /\ IF status = "ok" THEN Decided(q, "ok") ELSE UNCHANGED state
            /\ UNCHANGED outcome
    /\ UNCHANGED controller

\* RequestQueue::Remove(): the request is taken out, if it is still there.
RemoveFromQueue(q) ==
    IF q \in Queued
    THEN /\ \E i \in 1 .. Len(queue) :
               /\ queue[i] = q
               /\ queue' = SubSeq(queue, 1, i - 1) \o SubSeq(queue, i + 1, Len(queue))
         /\ stats' = DequeueStats(stats, q)
    ELSE UNCHANGED <<queue, stats>>

GetQueryStatusRpc(q, status) ==
    CASE status = "ok" ->
           /\ IF state[q].phase = "queued" THEN Decided(q, "ok") ELSE UNCHANGED state
           /\ UNCHANGED <<outcome, controller>>
      [] status = "error" ->
           /\ state' = [state EXCEPT ![q] = NoState]
           /\ SetOutcome(q, "timed_out")
           /\ RemoveFromQueue(q)
           /\ UNCHANGED <<running, dequeue>>
      [] OTHER -> UNCHANGED <<state, outcome, controller>>

\* One turn of the client's GetQueryStatus() loop; a failed RPC ends it.
Poll(q, expired) ==
    LET status == StatusOf(q, expired)
    IN  /\ q \in Registered
        /\ client[q] = "polling"
        /\ state[q].phase # "submitting"
        /\ \/ /\ status # "none"
              /\ GetQueryStatusRpc(q, status)
              /\ client' = [client EXCEPT ![q] =
                              IF status = "ok" THEN "executing" ELSE "done"]
              /\ unreleased' = [unreleased EXCEPT ![q] =
                                  IF status = "ok" THEN HostsOf[q] ELSE {}]
              /\ UNCHANGED faults
           \/ /\ Fault("status")
              /\ GetQueryStatusRpc(q, status)
                 \/ UNCHANGED <<state, outcome, controller>>
              /\ client' = [client EXCEPT ![q] = "done"]
              /\ UNCHANGED unreleased
        /\ UNCHANGED <<cancelled, up, heartbeats, net, membership, cleaning, stale>>

\* ClientRequestState::Cancel() and CancelAdmission(): the RPC is sent once
\* a decision is pending, and it may get lost.
Cancel(q) ==
    /\ q \in Registered \ cancelled
    /\ client[q] \in {"admitting", "polling"}
    /\ Fault("cancel")
    /\ cancelled' = cancelled \cup {q}
    /\ \/ UNCHANGED outcome
       \/ client[q] = "polling" /\ state[q].phase # "none" /\ SetOutcome(q, "cancelled")
    /\ UNCHANGED <<client, unreleased, up, heartbeats, net, state, controller, membership,
                   cleaning, stale>>

-----------------------------------------------------------------------------
(* Releasing.                                                              *)

\* ReleaseQueryBackends() of the service: a host that was released already
\* makes it an error.
ReleaseBackendsRpc(q, h) ==
    IF h \in state[q].unreleased
    THEN /\ ReleaseQueryBackends(q, {h})
         /\ state' = [state EXCEPT ![q].unreleased = @ \ {h}]
    ELSE UNCHANGED <<stats, running, dequeue, state>>

\* ReleaseQuery() of the service.
ReleaseQueryRpc(q) ==
    IF state[q].phase # "none"
    THEN /\ ReleaseQuery(q)
         /\ state' = [state EXCEPT ![q] = NoState]
    ELSE UNCHANGED <<stats, running, dequeue, state>>

Rpc(m) == IF m.host \in Hosts THEN ReleaseBackendsRpc(m.query, m.host)
                              ELSE ReleaseQueryRpc(m.query)

\* The RPC arrives, arrives late or never, or arrives twice (it is retried).
Send(m) ==
    \/ Rpc(m) /\ UNCHANGED <<net, faults>>
    \/ /\ Fault("delay")
       /\ net' = net \cup {m}
       /\ UNCHANGED <<stats, running, dequeue, state>>
    \/ Fault("duplicate") /\ Rpc(m) /\ net' = net \cup {m}

\* The coordinator releases a backend that is done.
ReleaseBackend(q, h) ==
    /\ q \in Registered
    /\ client[q] = "executing"
    /\ h \in unreleased[q]
    /\ unreleased' = [unreleased EXCEPT ![q] = @ \ {h}]
    /\ Send([query |-> q, host |-> h])
    /\ UNCHANGED <<client, cancelled, up, heartbeats, outcome, queue, membership, cleaning,
                   stale>>

\* ReleaseQueryAdmissionControlResources(), once all backends are released;
\* the query is unregistered.
FinishQuery(q) ==
    /\ q \in Registered
    /\ client[q] = "executing"
    /\ unreleased[q] = {}
    /\ client' = [client EXCEPT ![q] = "done"]
    /\ Send([query |-> q, host |-> "none"])
    /\ UNCHANGED <<cancelled, unreleased, up, heartbeats, outcome, queue, membership,
                   cleaning, stale>>

Deliver(m) ==
    /\ net' = net \ {m}
    /\ Rpc(m)
    /\ UNCHANGED <<coordinator, outcome, queue, membership, cleaning, stale, faults>>

-----------------------------------------------------------------------------
(* Cleaning up.                                                            *)

\* AdmissionHeartbeatThread(): the queries registered right now.
SendHeartbeat(c) ==
    /\ c \in up
    /\ Len(heartbeats[c]) < MaxHeartbeats
    /\ heartbeats' = [heartbeats EXCEPT ![c] =
                        Append(@, {q \in Registered : CoordinatorOf[q] = c})]
    /\ UNCHANGED <<client, cancelled, unreleased, up, net, state, outcome, controller,
                   membership, cleaning, stale, faults>>

\* Mutant: the queries a coordinator does not list are kept.
HeartbeatKeepsAll(c, i) ==
    /\ i \in 1 .. Len(heartbeats[c])
    /\ heartbeats' = [heartbeats EXCEPT ![c] = SubSeq(@, i + 1, Len(@))]
    /\ UNCHANGED <<client, cancelled, unreleased, up, net, state, outcome, controller,
                   membership, cleaning, stale, faults>>

\* AdmissionHeartbeat(): CheckAndUpdateHeartbeat() refuses the earlier ones
\* from now on; CleanupQueriesForHost() collects what it will release.
AdmissionHeartbeat(c, i) ==
    /\ i \in 1 .. Len(heartbeats[c])
    /\ cleaning' = cleaning \cup
                     {q \in Running : CoordinatorOf[q] = c /\ q \notin heartbeats[c][i]}
    /\ heartbeats' = [heartbeats EXCEPT ![c] = SubSeq(@, i + 1, Len(@))]
    /\ UNCHANGED <<client, cancelled, unreleased, up, net, state, outcome, controller,
                   membership, stale, faults>>

\* CancelQueriesOnFailedCoordinators(), called when the snapshot is new.
CancelQueriesOnFailedCoordinators ==
    /\ notify
    /\ notify' = FALSE
    /\ cleaning' = cleaning \cup {q \in Running : CoordinatorOf[q] \notin member}
    /\ UNCHANGED <<coordinator, net, state, outcome, controller, member, removed, stale,
                   faults>>

\* One of the collected queries is released, and its state deleted.
CleanUp(q) ==
    /\ q \in cleaning
    /\ cleaning' = cleaning \ {q}
    /\ ReleaseQuery(q)
    /\ state' = [state EXCEPT ![q] = NoState]
    /\ UNCHANGED <<coordinator, net, outcome, queue, membership, stale, faults>>

\* Coordinators join the cluster, crash, and are found to have failed.  The
\* admissiond may hear late of one that joins, when it is gone already, or
\* never if it is.
Join(c) ==
    /\ c \in Coordinators \ (member \cup removed)
    /\ member' = member \cup {c}
    /\ notify' = TRUE
    /\ UNCHANGED <<coordinator, net, state, outcome, controller, removed, cleaning, stale,
                   faults>>

Crash(c) ==
    /\ c \in up
    /\ Fault("crash")
    /\ up' = up \ {c}
    /\ heartbeats' = [heartbeats EXCEPT ![c] = <<>>]
    /\ UNCHANGED <<client, cancelled, unreleased, net, state, outcome, controller,
                   membership, cleaning, stale>>

Leave(c) ==
    /\ c \in member \ up
    /\ member' = member \ {c}
    /\ removed' = removed \cup {c}
    /\ notify' = TRUE
    /\ UNCHANGED <<coordinator, net, state, outcome, controller, cleaning, stale, faults>>

-----------------------------------------------------------------------------
Next ==
    \/ TryDequeue
    \/ UpdatePoolStats
    \/ CancelQueriesOnFailedCoordinators
    \/ \E q \in Queries :
          \/ RegisterQuery(q) \/ TryAdmitQuery(q) \/ ReadSnapshot(q)
          \/ SubmitForAdmission(q) \/ Cancel(q) \/ FinishQuery(q) \/ CleanUp(q)
          \/ \E expired \in BOOLEAN : Poll(q, expired)
          \/ \E h \in Hosts : ReleaseBackend(q, h)
    \/ \E m \in net : Deliver(m)
    \/ \E c \in Coordinators :
          \/ SendHeartbeat(c) \/ Join(c) \/ Crash(c) \/ Leave(c)
          \/ \E i \in 1 .. MaxHeartbeats : AdmissionHeartbeat(c, i)

Spec == Init /\ [][Next]_vars

\* Threads of the admissiond run, the statestore keeps calling, coordinators
\* keep polling and sending heartbeats and their queries end.  No fairness
\* of timeouts, of cancellations or of delayed messages is assumed.
FairSpec ==
    /\ Spec
    /\ WF_vars(TryDequeue)
    /\ WF_vars(UpdatePoolStats)
    /\ WF_vars(CancelQueriesOnFailedCoordinators)
    /\ \A q \in Queries :
          /\ WF_vars(TryAdmitQuery(q)) /\ WF_vars(ReadSnapshot(q))
          /\ WF_vars(SubmitForAdmission(q)) /\ WF_vars(Poll(q, FALSE))
          /\ WF_vars(FinishQuery(q)) /\ WF_vars(CleanUp(q))
          /\ WF_vars(\E h \in Hosts : ReleaseBackend(q, h))
    /\ \A c \in Coordinators :
          /\ WF_vars(SendHeartbeat(c)) /\ WF_vars(c \in up /\ Join(c)) /\ WF_vars(Leave(c))
          /\ WF_vars(AdmissionHeartbeat(c, 1))

\* Moreover, a request that waits long enough times out when it is polled.
TimeoutSpec == FairSpec /\ \A q \in Queries : WF_vars(Poll(q, TRUE))

-----------------------------------------------------------------------------
\* Types.
TypeOK ==
    /\ client \in [Queries -> {"idle", "admitting", "polling", "executing", "done"}]
    /\ cancelled \subseteq Queries
    /\ unreleased \in [Queries -> SUBSET Hosts]
    /\ up \subseteq Coordinators
    /\ heartbeats \in [Coordinators -> Seq(SUBSET Queries)]
    /\ net \subseteq [query : Queries, host : Hosts \cup {"none"}]
    /\ state \in [Queries ->
                    [phase : {"none", "offered", "submitting", "queued", "done"},
                     snapshot : {"", "member", "removed", "unknown"},
                     status : {"", "ok", "error"}, unreleased : SUBSET Hosts]]
    /\ outcome \in [Queries -> {"unset", "admitted", "rejected", "cancelled", "timed_out"}]
    /\ queue \in Seq(Queries)
    /\ Running \subseteq Queries
    /\ running \in [Running -> [hosts : SUBSET Hosts, trivial : BOOLEAN]]
    /\ stats \in [running : Nat, queued : Nat, mem : Nat, trivial : 0 .. MaxTrivial,
                  user : [Users -> Nat], host : [Hosts -> Nat]]
    /\ dequeue \in BOOLEAN /\ notify \in BOOLEAN
    /\ member \subseteq Coordinators /\ removed \subseteq Coordinators
    /\ cleaning \subseteq Queries /\ stale \subseteq Queries
    /\ faults \in 0 .. MaxFaults

UsersOn(h) == {q \in Running : h \in running[q].hosts}

\* "The aggregate values of resources in use always matches the contents of
\* 'running_queries_'" (admission-controller.h): the pool's and every host's,
\* whatever is released twice, late, by the coordinator or by a clean-up.
AggregatesMatchRunning ==
    /\ TypeOK
    /\ stats.running = Cardinality(Running)
    /\ stats.trivial = Cardinality({q \in Running : running[q].trivial})
    /\ \A h \in Hosts : stats.host[h] = Cardinality(UsersOn(h))
    /\ stats.mem = Cardinality({p \in Running \X Hosts : p[2] \in running[p[1]].hosts})

\* What is queued is waiting for a decision: it is counted once, holds no
\* resources, and nobody was told that it is admitted, rejected or late.
QueueIsPending ==
    /\ stats.queued = Len(queue)
    /\ Cardinality(Queued) = Len(queue)
    /\ \A q \in Queued : q \notin Running /\ outcome[q] \in {"unset", "cancelled"}

\* Apart from trivial queries nothing is admitted beyond what the pool and
\* the hosts have.
WithinLimits ==
    LET Admitted == {q \in Running : ~running[q].trivial}
    IN  /\ Cardinality(Admitted) <= MaxRequests
        /\ \A h \in Hosts : Cardinality(UsersOn(h) \cap Admitted) <= HostLimit

\* "Any query will always eventually be removed from 'running_queries_' ...
\* regardless of any failures" (admission-controller.h): the admissiond does
\* not keep the resources of a query its coordinator does not know, except
\* of one whose coordinator left while it was being submitted.
Released(q) == q \in Running /\ q \notin Registered ~> q \notin Running \/ q \in stale
EventuallyReleased == \A q \in Queries : Released(q)

\* The same without the exception.
AlwaysReleased == \A q \in Queries : q \in Running /\ q \notin Registered ~> q \notin Running

\* The coordinator of the query is gone, and the admissiond never knew it.
Orphaned(q) == CoordinatorOf[q] \notin up \cup member \cup removed

\* A query that waits for admission gets an answer as long as others end,
\* without any help from a timeout, unless such a query holds the resources
\* or an orphaned one is ahead of it in the queue.
EventuallyDecided ==
    \A q \in Queries :
       client[q] = "polling" ~> \/ client[q] # "polling"
                                \/ CoordinatorOf[q] \notin up
                                \/ stale # {}
                                \/ \E i, j \in 1 .. Len(queue) :
                                      i < j /\ queue[j] = q /\ Orphaned(queue[i])

\* What ComputeGroupScheduleStates() says of a query whose coordinator the
\* admissiond does not know: "in this case the query will remain queued until
\* it times out", or until it hears of the coordinator.
UnknownLeavesQueue ==
    \A q \in Queries :
       q \in Queued /\ SnapshotOf(CoordinatorOf[q]) = "unknown"
          ~> q \notin Queued \/ SnapshotOf(CoordinatorOf[q]) # "unknown"

\* "Per-user count of queries that are queued or running" (TPoolStats).
UserLoadsAreExact ==
    \A u \in Users : stats.user[u] = Cardinality({q \in Queued \cup Running : UserOf[q] = u})

\* A query that executes holds its hosts.
ExecutingHoldsResources ==
    \A q \in Registered : client[q] = "executing" => /\ q \in Running
                                                     /\ unreleased[q] \subseteq running[q].hosts
=============================================================================

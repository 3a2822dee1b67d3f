-------------------------- MODULE ClusterMembership --------------------------
(***************************************************************************)
(* One impalad's view of the cluster: its ClusterMembershipMgr, which      *)
(* turns the updates of the membership topic into snapshots (backends,     *)
(* executor group, blacklist), and the part of its ImpalaServer that       *)
(* cancels the queries of a backend that left the membership.              *)
(*                                                                         *)
(* A backend is an address and an incarnation: a restarted impalad keeps   *)
(* its address and takes a new id.  ExecutorGroup finds, adds and removes  *)
(* executors BY ADDRESS, the backend map and the blacklist are keyed by    *)
(* id.  UpdateMembership() and BlacklistExecutor() each hold               *)
(* update_membership_lock_ throughout and are one action each.             *)
(***************************************************************************)
EXTENDS Integers, FiniteSets

CONSTANTS
    Remotes,        \* addresses of the other impalads
    LocalAddress,   \* address of this impalad, which runs once
    MaxInc,         \* bound on the incarnations of a remote impalad
    Queries,        \* queries this impalad coordinates
    MaxCancellationQueue,   \* MAX_CANCELLATION_QUEUE_SIZE
    FaultKinds,     \* faults that may happen ...
    MaxFaults       \* ... and how many of them

ASSUME ConstantsAssumption ==
    /\ LocalAddress \notin Remotes
    /\ {MaxInc, MaxCancellationQueue, MaxFaults} \subseteq Nat
    /\ MaxInc >= 1

Addresses == Remotes \cup {LocalAddress}
Ids == (Remotes \X (1 .. MaxInc)) \cup {<<LocalAddress, 1>>}
Local == <<LocalAddress, 1>>
None == <<>>
NoSnapshot == [backends |-> <<>>]

Present == {"running", "quiescing"}
OnBlacklist == {"listed", "expired"}       \* expired: past its timeout
OnProbation == {"probation", "lapsed"}     \* lapsed: past its timeout

VARIABLES
    up,      \* the impalads: incarnation, "down", "starting", "running", ...
    topic,   \* the membership topic at the statestore
    failed,  \* backends the statestore declared failed, or did not have when a
             \* grace period ended, and that did not publish themselves since
    full,    \* the next update is the whole topic (a new registration)
    grace,   \* IsInPostRecoveryGracePeriod()
    cur,     \* current_membership_
    rec,     \* recovering_membership_
    mixed,   \* a blacklisting met two incarnations (see BlacklistExecutor)
    query,   \* what a query is doing, and its executor
    located, \* queries in query_locations_
    inflight,\* queries in inflight_queries of their session
    pool,    \* queries queued in the cancellation_thread_pool_
    faults   \* faults so far

env == <<up, topic, failed>>
mgr == <<full, grace, cur, rec, mixed>>
server == <<query, located, inflight, pool>>
vars == <<env, mgr, server, faults>>

EmptySnapshot ==
    [backends |-> [b \in Ids |-> "none"], group |-> [a \in Addresses |-> None],
     blacklist |-> [b \in Ids |-> "none"], local |-> FALSE]

Init ==
    /\ up = [a \in Addresses |->
               [inc |-> 1, st |-> IF a = LocalAddress THEN "starting" ELSE "running"]]
    /\ topic = [b \in Ids |-> "none"]
    /\ failed = {}
    /\ full = TRUE
    /\ grace = FALSE
    /\ cur = EmptySnapshot
    /\ rec = NoSnapshot
    /\ mixed = FALSE
    /\ query = [q \in Queries |-> [st |-> "idle", at |-> None]]
    /\ located = {}
    /\ inflight = {}
    /\ pool = {}
    /\ faults = 0

Fault(kind) ==
    /\ kind \in FaultKinds
    /\ faults < MaxFaults
    /\ faults' = faults + 1

IdOf(a) == <<a, up[a].inc>>
IsUp(b) == up[b[1]].inc = b[2] /\ up[b[1]].st \in Present

-----------------------------------------------------------------------------
(* The snapshot: executor group and blacklist.                             *)

Recovering == rec # NoSnapshot
Base == IF Recovering THEN rec ELSE cur

\* AddExecutor(), for each of a set of backends: an address that is already
\* in the group keeps the backend it has.
AddExecutors(group, backends) ==
    [a \in Addresses |->
       IF group[a] = None /\ \E b \in backends : b[1] = a
       THEN CHOOSE b \in backends : b[1] = a
       ELSE group[a]]

\* RemoveExecutor(): whichever backend the group has at these addresses goes.
RemoveExecutors(group, backends) ==
    [a \in Addresses |-> IF \E b \in backends : b[1] = a THEN None ELSE group[a]]

Blacklisted(s) == {b \in Ids : s.blacklist[b] \in OnBlacklist}
NeedsMaintenance(s) == \E b \in Ids : s.blacklist[b] = "expired"

\* ExecutorBlacklist::Blacklist(): an entry that is listed stays as it is.
Blacklist(blacklist, b) ==
    [blacklist EXCEPT ![b] = IF @ \in OnBlacklist THEN @ ELSE "listed"]

\* Mutant: A deletion leaves the backend's entry on the blacklist.
KeepEntry(blacklist, backends) == blacklist

\* ExecutorBlacklist::FindAndRemove() for each of a set of backends.
FindAndRemove(blacklist, backends) ==
    [b \in Ids |-> IF b \in backends THEN "none" ELSE blacklist[b]]

\* The removed, new and changed entries of an update on top of snapshot s.
\* Entries of the local backend are ignored, unless they are deletions.
ProcessUpdate(s) ==
    LET deleted == {b \in Ids : s.backends[b] # "none" /\ topic[b] = "none"}
        quiesced == {b \in Ids \ {Local} :
                       s.backends[b] = "running" /\ topic[b] = "quiescing"}
        created == {b \in Ids \ {Local} : s.backends[b] = "none" /\ topic[b] = "running"}
        inGroup == {b \in deleted \cup quiesced :
                      s.backends[b] = "running" /\ b \notin Blacklisted(s)}
    IN  [s EXCEPT !.backends = [b \in Ids |->
                                  IF b = Local /\ b \notin deleted THEN @[b] ELSE topic[b]],
                  !.group = AddExecutors(RemoveExecutors(@, inGroup), created),
                  !.blacklist = FindAndRemove(@, deleted \cup quiesced)]

\* ExecutorBlacklist::Maintenance() and the return of those put on probation.
Maintenance(s) ==
    [s EXCEPT !.group = AddExecutors(@, {b \in Ids : s.blacklist[b] = "expired"}),
              !.blacklist = [b \in Ids |-> CASE @[b] = "expired" -> "probation"
                                             [] @[b] = "lapsed" -> "none"
                                             [] OTHER -> @[b]]]

\* GetLocalBackendDescriptor(): none until the services are ready.
LocalState == IF up[LocalAddress].st \in Present THEN up[LocalAddress].st ELSE "none"

NeedsLocalBackendUpdate(s) ==
    /\ LocalState # "none"
    /\ ~s.local \/ s.backends[Local] # LocalState

AddLocalBackend(s) ==
    [s EXCEPT !.backends[Local] = LocalState,
              !.group = IF LocalState = "quiescing"
                        THEN RemoveExecutors(@, {Local})
                        ELSE AddExecutors(@, {Local})]

-----------------------------------------------------------------------------
(* The callback of the membership topic and what it calls.                 *)

\* Mutant: the server does not look at who left.
CancelLater(backends) == UNCHANGED server

\* CancelQueriesOnFailedBackends(), called by NotifyListeners(): the failed
\* backends leave query_locations_ whether or not the pool takes the queries.
CancelQueriesOnFailedBackends(backends) ==
    LET toCancel == {q \in located : backends[query[q].at] = "none"}
    IN  /\ located' = located \ toCancel
        /\ pool' = IF Cardinality(pool) + Cardinality(toCancel) > MaxCancellationQueue
                   THEN pool ELSE pool \cup toCancel
        /\ UNCHANGED <<query, inflight>>

\* Mutant: A snapshot is installed although the grace period is not over.
InstallAnyway(s) ==
    /\ cur' = s
    /\ rec' = NoSnapshot
    /\ CancelQueriesOnFailedBackends(s.backends)

\* The end of UpdateMembership(): during the grace period the new snapshot
\* is kept aside, otherwise it is installed and the listeners hear of it.
Install(s) ==
    IF grace
    THEN /\ rec' = s
         /\ UNCHANGED <<cur, server>>
    ELSE /\ cur' = s
         /\ rec' = NoSnapshot
         /\ CancelQueriesOnFailedBackends(s.backends)

\* Mutant: An update without entries is never processed.
OnlyEntries ==
    \/ full
    \/ \E b \in Ids \ {Local} : topic[b] # Base.backends[b]
    \/ NeedsLocalBackendUpdate(Base)

\* Whether an update changes something: otherwise it is not processed.
MustUpdate ==
    \/ full
    \/ \E b \in Ids \ {Local} : topic[b] # Base.backends[b]
    \/ topic[Local] = "none" /\ Base.backends[Local] # "none"
    \/ NeedsLocalBackendUpdate(Base)
    \/ Recovering /\ ~grace
    \/ NeedsMaintenance(Base)

UpdateMembership ==
    LET s0 == IF full THEN EmptySnapshot ELSE Base
        s1 == ProcessUpdate([s0 EXCEPT !.local = @ \/ LocalState # "none"])
        s2 == IF NeedsMaintenance(Base) THEN Maintenance(s1) ELSE s1
        publish == NeedsLocalBackendUpdate(s2)
    IN  /\ MustUpdate
        /\ full' = FALSE
        /\ Install(IF publish THEN AddLocalBackend(s2) ELSE s2)
        /\ topic' = IF publish THEN [topic EXCEPT ![Local] = LocalState] ELSE topic
        /\ UNCHANGED <<up, failed, grace, mixed, faults>>

\* A query of this impalad saw an executor fail: BlacklistExecutor().  The
\* backend is looked up in the current snapshot, the change goes to the
\* recovering one if there is one, where the address may belong to another
\* incarnation by now: mixed records that.
BlacklistExecutor(q) ==
    LET b == query[q].at
        s == [Base EXCEPT !.group = RemoveExecutors(@, {b}),
                          !.blacklist = Blacklist(@, b)]
    IN  /\ query[q].st \in {"registered", "running"}
        /\ Fault("blacklist")
        /\ cur.backends[b] # "none"
        /\ b # Local
        /\ Base.group[b[1]] # None
        /\ IF Recovering THEN rec' = s /\ UNCHANGED cur
                         ELSE cur' = s /\ UNCHANGED rec
        /\ mixed' = (mixed \/ Base.group[b[1]] # b)
        /\ UNCHANGED <<env, full, grace, server>>

\* Time passes for an entry of the blacklist.
PassTimeout(b) ==
    LET older == [Base EXCEPT !.blacklist[b] =
                    IF @ = "listed" THEN "expired" ELSE "lapsed"]
    IN  /\ Base.blacklist[b] \in {"listed", "probation"}
        /\ IF Recovering THEN rec' = older /\ UNCHANGED cur
                         ELSE cur' = older /\ UNCHANGED rec
        /\ UNCHANGED <<env, full, grace, mixed, server, faults>>

-----------------------------------------------------------------------------
(* Queries: scheduled on an executor of the current snapshot, registered   *)
(* with the server, started.                                               *)

Schedule(q) ==
    /\ up[LocalAddress].st = "running"
    /\ cur.local
    /\ query[q].st \in {"idle", "done"}
    /\ q \notin pool
    /\ \E a \in Addresses :
          /\ cur.group[a] # None
          /\ query' = [query EXCEPT ![q] = [st |-> "scheduled", at |-> cur.group[a]]]
    /\ UNCHANGED <<env, mgr, located, inflight, pool, faults>>

RegisterQueryLocations(q) ==
    /\ query[q].st = "scheduled"
    /\ query' = [query EXCEPT ![q].st = "registered"]
    /\ located' = located \cup {q}
    /\ UNCHANGED <<env, mgr, inflight, pool, faults>>

\* The client's thread, once the query executes in a thread of its own: at
\* any time before the query ends.
SetQueryInflight(q) ==
    /\ query[q].st \in {"scheduled", "registered", "running"}
    /\ q \notin inflight
    /\ inflight' = inflight \cup {q}
    /\ UNCHANGED <<env, mgr, query, located, pool, faults>>

\* The query ends and is unregistered: UnregisterQuery().
Finish(q) ==
    /\ query' = [query EXCEPT ![q].st = "done"]
    /\ located' = located \ {q}
    /\ inflight' = inflight \ {q}

\* The Exec RPC: the query fails if its executor does not answer.
Exec(q) ==
    /\ query[q].st = "registered"
    /\ IF IsUp(query[q].at)
       THEN query' = [query EXCEPT ![q].st = "running"] /\ UNCHANGED <<located, inflight>>
       ELSE Finish(q)
    /\ UNCHANGED <<env, mgr, pool, faults>>

\* The query completes, as its executor lives.
Complete(q) ==
    /\ query[q].st = "running"
    /\ IsUp(query[q].at)
    /\ Finish(q)
    /\ UNCHANGED <<env, mgr, pool, faults>>

\* CancelFromThreadPool(): a query that has gone is skipped, and so is one
\* that is not in flight yet.
CancelFromThreadPool(q) ==
    /\ q \in pool
    /\ pool' = pool \ {q}
    /\ IF query[q].st \in {"registered", "running"} /\ q \in inflight
       THEN Finish(q) ELSE UNCHANGED <<query, located, inflight>>
    /\ UNCHANGED <<env, mgr, faults>>

-----------------------------------------------------------------------------
(* The rest of the cluster: impalads, statestore, this subscriber.         *)

\* The services of this impalad become ready.
ServicesReady ==
    /\ up[LocalAddress].st = "starting"
    /\ up' = [up EXCEPT ![LocalAddress].st = "running"]
    /\ UNCHANGED <<topic, failed, mgr, server, faults>>

\* Another impalad publishes itself.  The statestore removed the entries of
\* its earlier incarnations when it registered.
Publish(a) ==
    /\ IsUp(IdOf(a))
    /\ topic[IdOf(a)] # up[a].st
    /\ \A n \in 1 .. (up[a].inc - 1) : topic[<<a, n>>] = "none"
    /\ topic' = [topic EXCEPT ![IdOf(a)] = up[a].st]
    /\ failed' = failed \ {IdOf(a)}
    /\ UNCHANGED <<up, mgr, server, faults>>

\* The statestore declares a backend failed and removes its entry; it may
\* be wrong about one that is only slow.
DeclareFailed(b) ==
    /\ b # Local
    /\ topic[b] # "none"
    /\ IF IsUp(b) THEN Fault("slow") ELSE UNCHANGED faults
    /\ topic' = [topic EXCEPT ![b] = "none"]
    /\ failed' = failed \cup {b}
    /\ UNCHANGED <<up, mgr, server>>

\* Impalads shut down gracefully, crash and restart.
Quiesce(a) ==
    /\ up[a].st = "running"
    /\ Fault("quiesce")
    /\ up' = [up EXCEPT ![a].st = "quiescing"]
    /\ UNCHANGED <<topic, failed, mgr, server>>

Crash(a) ==
    /\ a # LocalAddress
    /\ up[a].st \in Present
    /\ Fault("crash")
    /\ up' = [up EXCEPT ![a].st = "down"]
    /\ UNCHANGED <<topic, failed, mgr, server>>

Restart(a) ==
    /\ up[a].st = "down"
    /\ up[a].inc < MaxInc
    /\ up' = [up EXCEPT ![a] = [inc |-> @.inc + 1, st |-> "running"]]
    /\ UNCHANGED <<topic, failed, mgr, server, faults>>

\* This subscriber lost its statestore and registers again, with one that
\* kept the topic or with one that starts from nothing.  A backend that is
\* gone by then was never in the new statestore's topic.
Reregister(keepsTopic) ==
    /\ Fault(IF keepsTopic THEN "reconnect" ELSE "statestore_restart")
    /\ topic' = IF keepsTopic THEN topic ELSE [b \in Ids |-> "none"]
    /\ full' = TRUE
    /\ grace' = TRUE
    /\ UNCHANGED <<up, failed, cur, rec, mixed, server>>

\* The grace period is a span of time and nothing else: it ends whether or
\* not the backends that live have come back.
EndGracePeriod ==
    /\ grace
    /\ grace' = FALSE
    /\ failed' = failed \cup {b \in Ids \ {Local} : topic[b] = "none"}
    /\ UNCHANGED <<up, topic, full, cur, rec, mixed, server, faults>>

-----------------------------------------------------------------------------
Next ==
    \/ UpdateMembership
    \/ ServicesReady
    \/ EndGracePeriod
    \/ \E keepsTopic \in BOOLEAN : Reregister(keepsTopic)
    \/ \E b \in Ids : PassTimeout(b) \/ DeclareFailed(b)
    \/ \E q \in Queries :
          \/ Schedule(q) \/ RegisterQueryLocations(q) \/ SetQueryInflight(q)
          \/ Exec(q) \/ Complete(q) \/ CancelFromThreadPool(q) \/ BlacklistExecutor(q)
    \/ \E a \in Addresses : Publish(a) \/ Quiesce(a) \/ Crash(a) \/ Restart(a)

Spec == Init /\ [][Next]_vars

\* Time passes, the statestore keeps sending updates and detecting failures,
\* impalads publish themselves, threads of this process run.
FairSpec ==
    /\ Spec
    /\ WF_vars(UpdateMembership)
    /\ WF_vars(ServicesReady)
    /\ WF_vars(EndGracePeriod)
    /\ \A b \in Ids : WF_vars(PassTimeout(b)) /\ WF_vars(~IsUp(b) /\ DeclareFailed(b))
    /\ \A a \in Remotes : WF_vars(Publish(a))
    /\ \A q \in Queries :
          /\ WF_vars(CancelFromThreadPool(q))
          /\ WF_vars(RegisterQueryLocations(q)) /\ WF_vars(SetQueryInflight(q))
          /\ WF_vars(Exec(q))

-----------------------------------------------------------------------------
SnapshotType ==
    [backends : [Ids -> Present \cup {"none"}], group : [Addresses -> Ids \cup {None}],
     blacklist : [Ids -> OnBlacklist \cup OnProbation \cup {"none"}], local : BOOLEAN]

\* Types.  A query in query_locations_ has an executor and has not ended.
TypeOK ==
    /\ up \in [Addresses -> [inc : 1 .. MaxInc,
                             st : Present \cup {"down", "starting"}]]
    /\ topic \in [Ids -> Present \cup {"none"}]
    /\ failed \subseteq Ids
    /\ full \in BOOLEAN /\ grace \in BOOLEAN /\ mixed \in BOOLEAN
    /\ cur \in SnapshotType
    /\ rec \in SnapshotType \cup {NoSnapshot}
    /\ query \in [Queries -> [st : {"idle", "scheduled", "registered", "running", "done"},
                             at : Ids \cup {None}]]
    /\ located \subseteq {q \in Queries : query[q].st \in {"registered", "running"}}
    /\ inflight \subseteq Queries
    /\ pool \subseteq Queries
    /\ faults \in 0 .. MaxFaults

\* The executor group of a snapshot has, at every address, the backend there
\* that runs, does not quiesce and is not blacklisted, and has no other.
Available(s, a) == {b \in Ids : b[1] = a /\ s.backends[b] = "running"} \ Blacklisted(s)
IsExact(s) ==
    \A a \in Addresses :
       IF Available(s, a) = {} THEN s.group[a] = None ELSE s.group[a] \in Available(s, a)

\* What the comments on Snapshot promise (executor_groups "only contains
\* executors that are available", blacklisted backends are "present in
\* 'current_backends' but not in 'executor_groups'"), for the snapshot in
\* use and for the one being recovered, whatever the order of topic updates,
\* blacklistings, timeouts, restarts and recoveries.  The one exception is
\* blacklisting an incarnation that its successor has replaced (mixed).
GroupIsExact ==
    /\ TypeOK
    /\ ~mixed => IsExact(cur) /\ (Recovering => IsExact(rec))

\* The same without the exception.
SnapshotIsExact == IsExact(cur)

\* A query is handed to the cancellation pool only when its executor is one
\* the statestore declared failed, or did not have when the grace period of
\* a recovery ended, and that has not published itself since: never because a
\* statestore that restarted, or that this impalad lost and found again, does
\* not know the executor yet while the grace period lasts.
CancelledHadFailed ==
    [][\A q \in pool' \ pool : query[q].at \in failed]_vars

\* Once impalads stop failing, the snapshot in use ends with exactly the
\* executors that run: a blacklisted one comes back, a recovered membership
\* replaces the one from before the recovery.
ExecutorsReturn ==
    <>[](mixed \/ \A a \in Addresses :
            cur.group[a] = IF up[a].st = "running" THEN IdOf(a) ELSE None)

\* A query in flight that runs on a backend of the snapshot in use comes to
\* an end when that backend is gone: one of the updates that follow cancels
\* it.  (Of a backend that had left the snapshot before the query registered
\* no update may ever tell, and of one that left it before the query was in
\* flight none tells again: the status reports the coordinator misses end
\* those queries.)
FailedQueriesEnd ==
    \A q \in Queries :
       (/\ query[q].st = "running"
        /\ q \in located \cap inflight
        /\ cur.backends[query[q].at] # "none"
        /\ ~IsUp(query[q].at))
          ~> (query[q].st = "done")

\* What CancelFromThreadPool() says of the queries it skips ("skipped as
\* query was not running"): a query taken from the pool that runs, on an
\* executor that is gone, is cancelled.
SkippedDoesNotRun ==
    [][\A q \in pool \ pool' :
          query[q].st = "running" /\ ~IsUp(query[q].at) => query'[q].st = "done"]_vars

=============================================================================

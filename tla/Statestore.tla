------------------------------ MODULE Statestore ------------------------------
(***************************************************************************)
(* The statestored, its subscribers, and the cluster-membership topic they *)
(* share (be/src/statestore, ClusterMembershipMgr::UpdateMembership()).    *)
(*                                                                         *)
(* Statestored: RegisterSubscriber() gives a subscriber a new registration *)
(* and offers it to the worker pools; a worker sends the registration one  *)
(* message at a time and offers it again (DoSubscriberUpdate()), so each   *)
(* registration has one chain of topic updates (upd) and one of heartbeats *)
(* (hb).  A topic update is an RPC: the worker builds a delta, the handler *)
(* runs in the subscriber, and the worker applies the answer in several    *)
(* critical sections.                                                      *)
(*                                                                         *)
(* Subscriber: UpdateState() checks the registration, takes the locks,     *)
(* applies the delta and may publish the local backend; the recovery       *)
(* thread re-registers when heartbeats stop.                               *)
(*                                                                         *)
(* Faults, each behind a name in FaultKinds and together at most MaxFaults *)
(* of them: an update RPC whose answer is lost or late ("lost_update"), a  *)
(* connection reset that repeats the request ("repeat_update"), a failed   *)
(* heartbeat ("lost_heartbeat"), a recovery nobody needed ("recovery"), a  *)
(* lost answer to RegisterSubscriber() ("lost_register") and a             *)
(* registration that is executed after its sender gave up on it            *)
(* ("late_register"), a process that ends and is started again ("crash"),  *)
(* and a statestored that is replaced by one with nothing ("restart").     *)
(*                                                                         *)
(* One transient topic of one kind, so two of the three pools; the         *)
(* statestored is active (no statestored HA), no subscriber is a catalogd. *)
(***************************************************************************)
EXTENDS Integers, FiniteSets, FiniteSetsExt

CONSTANTS
    Subs,            \* subscriber ids
    MaxRegs,         \* bound: registrations
    MaxInc,          \* bound: processes a subscriber id has had
    MaxEpoch,        \* bound: statestored processes
    MaxQueue,        \* statestore_max_subscribers, the limit on a pool's queue
    MaxMissed,       \* statestore_max_missed_heartbeats
    MaxFaults,       \* bound: faults
    FaultKinds,      \* the faults that can happen
    MayStall,        \* may a handler stall between its check and its lock?
    Publishers,      \* the subscribers with a local backend (an admissiond has none)
    CanQuiesce       \* the ones that are shut down gracefully

ASSUME StatestoreConstants ==
    /\ MaxRegs \in Nat /\ MaxInc \in Nat \ {0} /\ MaxEpoch \in Nat \ {0} /\ MaxQueue \in Nat
    /\ MaxFaults \in Nat /\ MaxMissed \in Nat \ {0}
    /\ FaultKinds \subseteq {"lost_update", "repeat_update", "lost_heartbeat", "recovery",
                             "lost_register", "late_register", "crash", "restart"}
    /\ IsFiniteSet(Subs)
    /\ MayStall \in BOOLEAN /\ CanQuiesce \subseteq Publishers /\ Publishers \subseteq Subs

\* local_backend_id_: every process has its own.
BackendIds == Subs \X (1..MaxInc)

INSTANCE Topic WITH Keys <- BackendIds, Values <- {"running", "quiescing"},
                    None <- "none", NoItem <- "no item", Deleted <- "deleted"

VARIABLES
    epoch,        \* statestore_id_
    topic,        \* topics_[IMPALA_MEMBERSHIP_TOPIC]
    subscribers,  \* subscribers_: the current registration of an id, 0 if it has none
    regs,         \* the Subscriber objects by registration id, dead ones included
    nextReg,      \* the next registration id
    missed,       \* failure_detector_: missed heartbeats of an id, -1 if it is not tracked
    upd,          \* the chain of topic updates of a registration
    hb,           \* the registrations with a chain of heartbeats
    calls,        \* UpdateState() requests that were sent and are not answered
    sub,          \* the subscriber processes
    late,         \* ids with a RegisterSubscriber() request nobody waits for
    faults        \* the faults so far

ssVars == <<epoch, topic, subscribers, regs, nextReg, missed, upd, hb>>
vars == <<epoch, topic, subscribers, regs, nextReg, missed, upd, hb, calls, sub, late, faults>>

RegIds == 1..MaxRegs

\* A chain that waits for its next message, runs none, or has none.
Chain(pc) == [pc |-> pc, to |-> 0, from |-> -1, key |-> <<>>, item |-> "none", version |-> 0]

NoReg == [sub |-> "nobody", inc |-> 0, epoch |-> 0, last |-> 0,
          transient |-> [k \in BackendIds |-> 0], unregistered |-> FALSE]

NewReg(s) == [NoReg EXCEPT !.sub = s, !.inc = sub[s].inc, !.epoch = epoch]

\* A new process: it starts by registering, and holds lock_ while it does.
NewProcess(i) ==
    [up |-> TRUE, inc |-> i, mode |-> "registering", resp |-> [reg |-> 0, ok |-> TRUE],
     reg |-> 0, registered |-> FALSE, version |-> -1,
     copy |-> [k \in BackendIds |-> "none"], own |-> "none", local |-> "none",
     source |-> 0, processed |-> 0]

Init ==
    /\ epoch = 1
    /\ topic = EmptyTopic
    /\ subscribers = [s \in Subs |-> 0]
    /\ regs = [r \in RegIds |-> NoReg]
    /\ nextReg = 1
    /\ missed = [s \in Subs |-> -1]
    /\ upd = [r \in RegIds |-> Chain("none")]
    /\ hb = {}
    /\ calls = {}
    /\ sub = [s \in Subs |-> NewProcess(1)]
    /\ late = {}
    /\ faults = 0

Fault(kind) ==
    /\ kind \in FaultKinds
    /\ faults < MaxFaults
    /\ faults' = faults + 1

\* FindSubscriber(): is r still the registration of its subscriber id?
Current(r) == regs[r].sub \in Subs /\ subscribers[regs[r].sub] = r
-----------------------------------------------------------------------------
(***************************************************************************)
(* The critical sections of subscribers_lock_.                             *)
(***************************************************************************)
\* Mutant: the transient entries stay.
KeepTransient(t, r) == {t}

\* The entries a registration recorded and nobody has changed since.
Unchanged(t, r) ==
    {k \in BackendIds : HasEntry(t, k) /\ t.entries[k].version = regs[r].transient[k]}

\* The keys of a set deleted one after the other, in this order.
DeletedInOrder(t, order) ==
    LET dead == DOMAIN order
    IN  [entries |-> [k \in BackendIds |->
                        IF k \in dead THEN [value |-> t.entries[k].value,
                                            version |-> t.last + order[k], deleted |-> TRUE]
                        ELSE t.entries[k]],
         log |-> {e \in t.log : e[2] \notin dead} \cup {<<t.last + order[k], k>> : k \in dead},
         last |-> t.last + Cardinality(dead)]

\* DeleteAllTransientEntries(), on the topic: DeleteIfVersionsMatch() of every recorded
\* entry, in the order of the hash table.
WithoutTransient(t, r) ==
    LET dead == Unchanged(t, r)
    IN  {DeletedInOrder(t, order) : order \in Bijection(dead, 1..Cardinality(dead))}

\* The registrations in the queue of the topic-update pool, or asleep until the
\* deadline of their next update.
UpdateQueue == {r \in RegIds : upd[r].pc = "queued"}

\* The test of OfferUpdate(): is there no room in a pool's queue?  The queue holds those
\* of `waiting' that no thread of the pool has taken yet.
LimitReached(waiting) == {FALSE} \cup {Cardinality(waiting) >= MaxQueue}

(***************************************************************************)
(* RegisterSubscriber(): an earlier registration of the id is unregistered *)
(* (UnregisterSubscriber(): the failure detector forgets it, its transient *)
(* entries are deleted, it leaves the map), the new one enters the map and *)
(* is offered to the pools.  When a pool is full OfferUpdate() takes the   *)
(* new registration out of the map again and the call fails.               *)
(***************************************************************************)
RegisterSubscriber(s) ==
    LET r == nextReg
        old == subscribers[s]
    IN  \E full \in LimitReached(UpdateQueue), fullHb \in LimitReached(hb) :
        /\ nextReg <= MaxRegs
        /\ nextReg' = nextReg + 1
        /\ topic' \in IF old = 0 THEN {topic} ELSE WithoutTransient(topic, old)
        /\ regs' = [i \in RegIds |-> IF i = r THEN NewReg(s)
                                     ELSE IF i = old THEN [regs[i] EXCEPT !.unregistered = TRUE]
                                     ELSE regs[i]]
        /\ missed' = [missed EXCEPT ![s] = 0]
        /\ subscribers' = [subscribers EXCEPT ![s] = IF full \/ fullHb THEN 0 ELSE r]
        /\ upd' = IF full THEN upd ELSE [upd EXCEPT ![r] = Chain("queued")]
        /\ hb' = IF full \/ fullHb THEN hb ELSE hb \cup {r}
        /\ UNCHANGED epoch

\* The subscriber waits for the answer.
Register(s) ==
    /\ sub[s].up /\ sub[s].mode = "registering" /\ sub[s].resp.reg = 0
    /\ RegisterSubscriber(s)
    /\ sub' = [sub EXCEPT ![s].reg = 0,
                          ![s].resp = [reg |-> nextReg, ok |-> subscribers'[s] = nextReg]]
    /\ UNCHANGED <<calls, late, faults>>

\* A request whose sender has given up on it is executed after all.
LateRegister(s) ==
    /\ s \in late
    /\ RegisterSubscriber(s)
    /\ late' = late \ {s}
    /\ UNCHANGED <<calls, sub, faults>>
-----------------------------------------------------------------------------
(***************************************************************************)
(* Topic updates: DoSubscriberUpdate(TOPIC_UPDATE) and SendTopicUpdate().  *)
(***************************************************************************)
\* The last user of a registration that is gone lets go of its Subscriber object.
Released(r) ==
    [regs EXCEPT ![r].last = 0, ![r].transient = [k \in BackendIds |-> 0]]

\* A worker takes the update out of the queue, sleeps until its deadline, and looks the
\* registration up: an update of one that is gone is dropped.
TakeUpdate(r) ==
    /\ upd[r].pc = "queued"
    /\ upd' = [upd EXCEPT ![r].pc = IF Current(r) THEN "found" ELSE "none"]
    /\ regs' = IF Current(r) THEN regs ELSE Released(r)
    /\ UNCHANGED <<epoch, topic, subscribers, nextReg, missed, hb, calls, sub, late, faults>>

\* GatherTopicUpdates(), and the request goes out; nobody may be there to take it.
SendTopicUpdate(r) ==
    LET d == BuildDelta(topic, regs[r].last)
    IN  /\ upd[r].pc = "found"
        /\ IF sub[regs[r].sub].up
             THEN /\ upd' = [upd EXCEPT ![r].pc = "calling", ![r].to = d.to]
                  /\ calls' = calls \cup {[reg |-> r, delta |-> d, stage |-> "sent", live |-> TRUE]}
             ELSE upd' = [upd EXCEPT ![r].pc = "done"] /\ UNCHANGED calls
        /\ UNCHANGED <<epoch, topic, subscribers, regs, nextReg, missed, hb, sub, late, faults>>

\* The answer says the updates were processed.
AckUpdate(r) ==
    /\ upd[r].pc = "replied"
    /\ regs' = [regs EXCEPT ![r].last = upd[r].to]
    /\ upd' = [upd EXCEPT ![r].pc = IF upd[r].from # -1 \/ upd[r].item # "none"
                                      THEN "acked" ELSE "done"]
    /\ UNCHANGED <<epoch, topic, subscribers, nextReg, missed, hb, calls, sub, late, faults>>

\* The answer asks for another base version, or has an entry to publish.
ApplyReturned(r) ==
    /\ upd[r].pc = "acked"
    /\ IF upd[r].from # -1
         THEN /\ regs' = [regs EXCEPT ![r].last = upd[r].from]
              /\ upd' = [upd EXCEPT ![r].pc = "done"]
              /\ UNCHANGED topic
         ELSE /\ topic' = Put(topic, upd[r].key, upd[r].item, FALSE)
              /\ upd' = [upd EXCEPT ![r].pc = "put", ![r].version = topic'.last]
              /\ UNCHANGED regs
    /\ UNCHANGED <<epoch, subscribers, nextReg, missed, hb, calls, sub, late, faults>>

\* Mutant: the registration is not looked at.
NeverRefused(r) == FALSE

\* The test of unregistered_.
Refused(r) == regs[r].unregistered

\* AddTransientEntries(): refused if the registration is gone by now.
AddTransientEntries(r) ==
    /\ upd[r].pc = "put"
    /\ IF Refused(r)
         THEN upd' = [upd EXCEPT ![r].pc = "unwanted"] /\ UNCHANGED regs
         ELSE /\ upd' = [upd EXCEPT ![r].pc = "done"]
              /\ regs' = [regs EXCEPT ![r].transient[upd[r].key] = upd[r].version]
    /\ UNCHANGED <<epoch, topic, subscribers, nextReg, missed, hb, calls, sub, late, faults>>

\* The entry of a registration that is gone is taken back.
CleanUp(r) ==
    /\ upd[r].pc = "unwanted"
    /\ topic' = DeleteIfVersionsMatch(topic, upd[r].version, upd[r].key)
    /\ upd' = [upd EXCEPT ![r].pc = "done"]
    /\ UNCHANGED <<epoch, subscribers, regs, nextReg, missed, hb, calls, sub, late, faults>>

\* MissedHeartbeatFailureDetector::ComputePeerState(): FAILED
Failed(count) == count >= MaxMissed

\* Under subscribers_lock_: the next update is offered, unless the registration is
\* gone or its subscriber has failed.  A full queue takes it out of the map.
FinishUpdate(r) ==
    LET s == regs[r].sub
        stop == ~Current(r) \/ Failed(missed[s])
    IN  \E full \in LimitReached(UpdateQueue) :
        /\ upd[r].pc = "done"
        /\ upd' = [upd EXCEPT ![r] = Chain(IF stop \/ full THEN "none" ELSE "queued")]
        /\ subscribers' = IF ~stop /\ full THEN [subscribers EXCEPT ![s] = 0] ELSE subscribers
        /\ regs' = IF stop \/ full THEN Released(r) ELSE regs
        /\ UNCHANGED <<epoch, topic, nextReg, missed, hb, calls, sub, late, faults>>
-----------------------------------------------------------------------------
(***************************************************************************)
(* Heartbeats: DoSubscriberUpdate(HEARTBEAT) with SendHeartbeat(), from    *)
(* the lookup of the registration to the critical section that handles the *)
(* result.  A process that is down does not answer, and the next one may   *)
(* not be listening before it registers.                                   *)
(* What a heartbeat does to the subscriber is in EnterRecovery: it keeps   *)
(* it out of recovery.                                                     *)
(***************************************************************************)
\* An update of a registration that is gone is dropped.
DropHeartbeat(r) ==
    /\ r \in hb /\ ~Current(r)
    /\ hb' = hb \ {r}
    /\ UNCHANGED <<epoch, topic, subscribers, regs, nextReg, missed, upd, calls, sub, late, faults>>

\* UpdateHeartbeat() of one that was answered, and OfferUpdate() of the next.
HeartbeatOk(r) ==
    LET s == regs[r].sub
    IN  \E full \in LimitReached(hb \ {r}) :
        /\ r \in hb /\ Current(r) /\ sub[s].up
        /\ missed' = [missed EXCEPT ![s] = 0]
        /\ hb' = IF full THEN hb \ {r} ELSE hb
        /\ subscribers' = IF full THEN [subscribers EXCEPT ![s] = 0] ELSE subscribers
        /\ UNCHANGED <<epoch, topic, regs, nextReg, upd, calls, sub, late, faults>>

\* UpdateHeartbeat() of one that was not; a subscriber that missed too many is
\* unregistered: EvictPeer(), DeleteAllTransientEntries(), out of the map.
HeartbeatFailed(r) ==
    LET s == regs[r].sub
        failed == Failed(missed[s] + 1)
    IN  \E full \in LimitReached(hb \ {r}) :
        /\ r \in hb /\ Current(r)
        /\ IF sub[s].up /\ sub[s].inc = regs[r].inc THEN Fault("lost_heartbeat") ELSE UNCHANGED faults
        /\ missed' = [missed EXCEPT ![s] = IF failed THEN -1 ELSE missed[s] + 1]
        /\ topic' \in IF failed THEN WithoutTransient(topic, r) ELSE {topic}
        /\ regs' = IF failed THEN [regs EXCEPT ![r].unregistered = TRUE] ELSE regs
        /\ hb' = IF failed \/ full THEN hb \ {r} ELSE hb
        /\ subscribers' = IF failed \/ full THEN [subscribers EXCEPT ![s] = 0] ELSE subscribers
        /\ UNCHANGED <<epoch, nextReg, upd, calls, sub, late>>
-----------------------------------------------------------------------------
(***************************************************************************)
(* The subscriber's side of UpdateState().                                 *)
(***************************************************************************)
SubOf(c) == sub[regs[c.reg].sub]

\* The handler returns; its answer matters only to a worker that still waits.
Reply(c, answer) ==
    /\ calls' = calls \ {c}
    /\ upd' = IF c.live THEN [upd EXCEPT ![c.reg] = answer] ELSE upd

\* Mutant: the worker does not look at `skipped'.
SkippedIgnored(c) == [upd[c.reg] EXCEPT !.pc = "replied"]

\* Nothing was processed, the worker is told so.
Skipped(c) == [upd[c.reg] EXCEPT !.pc = "done"]

\* Everything was processed, with these requests for the statestored.
Processed(c, from, key, item) ==
    [upd[c.reg] EXCEPT !.pc = "replied", !.from = from, !.key = key, !.item = item]

\* IsMatchingStatestoreId()
IsMatchingStatestoreId(c) ==
    LET p == SubOf(c)
    IN  IF p.reg = 0 THEN ~p.registered ELSE regs[p.reg].epoch = regs[c.reg].epoch

\* CheckRegistrationId()
CheckRegistrationId(c) == SubOf(c).reg \in {0, c.reg}

\* Up to the registration check.  A failed check is an error status, which the Thrift
\* handler replaces with OK: the worker sees an update that was processed.
ReceiveUpdate(c) ==
    /\ c.stage = "sent"
    /\ \/ /\ ~IsMatchingStatestoreId(c)
          /\ Reply(c, Skipped(c))
       \/ /\ IsMatchingStatestoreId(c) /\ ~CheckRegistrationId(c)
          /\ Reply(c, Processed(c, -1, <<>>, "none"))
       \/ /\ IsMatchingStatestoreId(c) /\ CheckRegistrationId(c)
          /\ calls' = (calls \ {c}) \cup {[c EXCEPT !.stage = "checked"]}
          /\ UNCHANGED upd
    /\ UNCHANGED <<epoch, topic, subscribers, regs, nextReg, missed, hb, sub, late, faults>>

\* The calls that have passed the registration check, in a subscriber.
Checked(s) == {c \in calls : regs[c.reg].sub = s /\ c.stage = "checked"}

\* A try-lock fails: lock_ is taken by the recovery thread, or the topic's update_lock
\* by another call, which is then still being processed.
SkipUpdate(c) ==
    /\ c.stage = "checked"
    /\ SubOf(c).mode = "registering" \/ Checked(regs[c.reg].sub) # {c}
    /\ Reply(c, Skipped(c))
    /\ UNCHANGED <<epoch, topic, subscribers, regs, nextReg, missed, hb, sub, late, faults>>

\* Process p after ClusterMembershipMgr::UpdateMembership() of a delta: entries of other
\* backends are applied, the local one is only ever deleted by the topic, and set to
\* the local descriptor when it is missing or differs (NeedsLocalBackendUpdate()).
\* `copy' is what the topic said, `own' the entry of the local backend.
OwnKey(s) == <<s, sub[s].inc>>

NeedsLocalBackendUpdate(own, local) == local # "none" /\ own # local

OwnAfter(s, d) ==
    IF ~d.is_delta \/ d.items[OwnKey(s)] = "deleted" THEN "none" ELSE sub[s].own

UpdateMembership(s, d) ==
    LET publish == NeedsLocalBackendUpdate(OwnAfter(s, d), sub[s].local)
    IN  [sub[s] EXCEPT !.copy = ApplyDelta(sub[s].copy, d),
                       !.own = IF publish THEN sub[s].local ELSE OwnAfter(s, d)]

\* Mutant: deltas are applied on top of any later version.
LaterBase(s, d) == d.is_delta /\ sub[s].version # -1 /\ d.from > sub[s].version

\* The test of current_topic_version.
WrongBase(s, d) == d.is_delta /\ sub[s].version # -1 /\ d.from # sub[s].version

\* The rest of UpdateState(): a delta that does not start at the current version is
\* answered with that version, another one is given to the callbacks.
ProcessUpdate(c) ==
    LET s == regs[c.reg].sub
        d == c.delta
        e == regs[c.reg].epoch
        publish == NeedsLocalBackendUpdate(OwnAfter(s, d), sub[s].local)
    IN  /\ c.stage = "checked" /\ sub[s].mode = "running"
        /\ IF WrongBase(s, d)
             THEN Reply(c, Processed(c, sub[s].version, <<>>, "none")) /\ UNCHANGED sub
             ELSE /\ Reply(c, Processed(c, -1, OwnKey(s),
                                       IF publish THEN sub[s].local ELSE "none"))
                  /\ sub' = [sub EXCEPT ![s] =
                                [UpdateMembership(s, d) EXCEPT
                                   !.version = d.to, !.source = e,
                                   !.processed = IF sub[s].source = e
                                                   THEN Max({sub[s].processed, d.to})
                                                   ELSE d.to]]
        /\ UNCHANGED <<epoch, topic, subscribers, regs, nextReg, missed, hb, late, faults>>
-----------------------------------------------------------------------------
(***************************************************************************)
(* The subscriber's process: recovery, the local backend, crashes.         *)
(***************************************************************************)
\* RecoveryModeChecker() sees its failure detector FAILED and takes lock_.  MayStall lets
\* it overtake a handler between CheckRegistrationId() and the try-lock.
Recover(s) ==
    /\ sub[s].up /\ sub[s].mode = "running"
    /\ MayStall \/ Checked(s) = {}
    /\ sub' = [sub EXCEPT ![s].mode = "registering", ![s].reg = 0]
    /\ UNCHANGED <<epoch, topic, subscribers, regs, nextReg, missed, upd, hb, calls, late>>

\* Mutant: heartbeats of any registration count.
NoHeartbeatAtAll(s) == subscribers[s] = 0

\* No heartbeat comes for the registration: the statestored has another one of this
\* subscriber, or none (StatestoreStub::Heartbeat() with CheckRegistrationId()).
HeartbeatsStopped(s) == subscribers[s] # sub[s].reg

EnterRecovery(s) == HeartbeatsStopped(s) /\ Recover(s) /\ UNCHANGED faults

\* Heartbeats are sent and come late.
NeedlessRecovery(s) == ~HeartbeatsStopped(s) /\ Recover(s) /\ Fault("recovery")

\* The answer to RegisterSubscriber() arrives; after an error the subscriber tries again.
FinishRegister(s) ==
    /\ sub[s].up /\ sub[s].mode = "registering" /\ sub[s].resp.reg # 0
    /\ MayStall \/ Checked(s) = {}
    /\ sub' = [sub EXCEPT ![s].reg = sub[s].resp.reg,
                          ![s].resp = [reg |-> 0, ok |-> TRUE],
                          ![s].mode = IF sub[s].resp.ok THEN "running" ELSE "registering",
                          ![s].registered = sub[s].registered \/ sub[s].resp.ok]
    /\ UNCHANGED <<epoch, topic, subscribers, regs, nextReg, missed, upd, hb, calls, late, faults>>

\* The answer to RegisterSubscriber() is lost and the request repeated.
LoseRegisterReply(s) ==
    /\ sub[s].up /\ sub[s].resp.reg # 0
    /\ Fault("lost_register")
    /\ sub' = [sub EXCEPT ![s].resp = [reg |-> 0, ok |-> TRUE]]
    /\ UNCHANGED <<epoch, topic, subscribers, regs, nextReg, missed, upd, hb, calls, late>>

\* The subscriber gives up on a request that is still on its way, and repeats it.
AbandonRegister(s) ==
    /\ sub[s].up /\ sub[s].mode = "registering" /\ sub[s].resp.reg = 0 /\ s \notin late
    /\ Fault("late_register")
    /\ late' = late \cup {s}
    /\ UNCHANGED <<epoch, topic, subscribers, regs, nextReg, missed, upd, hb, calls, sub>>

\* Mutant: a timeout ends the chain.
TimeoutEndsUpdates(r) ==
    /\ upd[r].pc \in {"calling", "replied"}
    /\ Fault("lost_update")
    /\ upd' = [upd EXCEPT ![r] = Chain("none")]
    /\ calls' = {IF c.reg = r THEN [c EXCEPT !.live = FALSE] ELSE c : c \in calls}
    /\ UNCHANGED <<epoch, topic, subscribers, regs, nextReg, missed, hb, sub, late>>

\* The worker stops waiting (a timeout, a broken connection); the handler does not.
TimeoutUpdate(r) ==
    /\ upd[r].pc \in {"calling", "replied"}
    /\ Fault("lost_update")
    /\ upd' = [upd EXCEPT ![r] = Chain("done")]
    /\ calls' = {IF c.reg = r THEN [c EXCEPT !.live = FALSE] ELSE c : c \in calls}
    /\ UNCHANGED <<epoch, topic, subscribers, regs, nextReg, missed, hb, sub, late>>

\* ClientConnection::RetryRpc(): the connection was reset, the request goes out again.
RepeatUpdate(c) ==
    /\ c.live
    /\ Fault("repeat_update")
    /\ calls' = (calls \ {c}) \cup {[c EXCEPT !.live = FALSE], [c EXCEPT !.stage = "sent"]}
    /\ UNCHANGED <<epoch, topic, subscribers, regs, nextReg, missed, upd, hb, sub, late>>

\* The server of the local backend is up, and later shuts down gracefully.
SetLocalBackend(s) ==
    /\ sub[s].up /\ s \in Publishers
    /\ \/ sub[s].local = "none" /\ sub' = [sub EXCEPT ![s].local = "running"]
       \/ /\ sub[s].local = "running" /\ s \in CanQuiesce
          /\ sub' = [sub EXCEPT ![s].local = "quiescing"]
    /\ UNCHANGED <<epoch, topic, subscribers, regs, nextReg, missed, upd, hb, calls, late, faults>>

\* The process ends: its handlers go with it, and the workers notice.
Crash(s) ==
    /\ sub[s].up /\ sub[s].inc < MaxInc
    /\ Fault("crash")
    /\ sub' = [sub EXCEPT ![s].up = FALSE]
    /\ calls' = {c \in calls : regs[c.reg].sub # s}
    /\ upd' = [r \in RegIds |-> IF regs[r].sub = s /\ upd[r].pc = "calling"
                                  THEN Chain("done") ELSE upd[r]]
    /\ UNCHANGED <<epoch, topic, subscribers, regs, nextReg, missed, hb, late>>

Boot(s) ==
    /\ ~sub[s].up
    /\ sub' = [sub EXCEPT ![s] = NewProcess(sub[s].inc + 1)]
    /\ UNCHANGED <<epoch, topic, subscribers, regs, nextReg, missed, upd, hb, calls, late, faults>>

\* Another statestored takes over the address, with nothing.
RestartStatestore ==
    /\ epoch < MaxEpoch
    /\ Fault("restart")
    /\ epoch' = epoch + 1
    /\ topic' = EmptyTopic
    /\ subscribers' = [s \in Subs |-> 0]
    /\ missed' = [s \in Subs |-> -1]
    /\ upd' = [r \in RegIds |-> Chain("none")]
    /\ hb' = {}
    /\ calls' = {[c EXCEPT !.live = FALSE] : c \in calls}
    /\ sub' = [s \in Subs |-> [sub[s] EXCEPT !.resp = [reg |-> 0, ok |-> TRUE]]]
    /\ late' = {}
    /\ UNCHANGED <<regs, nextReg>>
-----------------------------------------------------------------------------
UpdateStep(r) ==
    \/ TakeUpdate(r) \/ SendTopicUpdate(r) \/ AckUpdate(r)
    \/ ApplyReturned(r) \/ AddTransientEntries(r) \/ CleanUp(r) \/ FinishUpdate(r)

HeartbeatStep(r) == DropHeartbeat(r) \/ HeartbeatOk(r) \/ HeartbeatFailed(r)

HandlerStep(r, live) ==
    \E c \in calls : /\ c.reg = r /\ c.live = live
                     /\ ReceiveUpdate(c) \/ SkipUpdate(c) \/ ProcessUpdate(c)

ProcessStep(s) == Register(s) \/ FinishRegister(s) \/ EnterRecovery(s) \/ Boot(s)

Environment ==
    \/ \E s \in Subs : \/ LateRegister(s) \/ LoseRegisterReply(s) \/ AbandonRegister(s)
                       \/ SetLocalBackend(s) \/ Crash(s) \/ NeedlessRecovery(s)
    \/ \E r \in RegIds : TimeoutUpdate(r)
    \/ \E c \in calls : RepeatUpdate(c)
    \/ RestartStatestore

Next ==
    \/ \E r \in RegIds : \/ UpdateStep(r) \/ HeartbeatStep(r)
                          \/ \E live \in BOOLEAN : HandlerStep(r, live)
    \/ \E s \in Subs : ProcessStep(s)
    \/ Environment

Spec == Init /\ [][Next]_vars

(***************************************************************************)
(* The worker threads of the statestored, the RPC threads and the recovery *)
(* thread of every subscriber keep running; a crashed process is started   *)
(* again.  Nothing is assumed of the faults.  FinishRegister may have to   *)
(* wait for handlers again and again, each of which ends: strong fairness. *)
(***************************************************************************)
Fairness ==
    /\ \A r \in RegIds : /\ WF_vars(UpdateStep(r))
                         /\ WF_vars(HeartbeatStep(r))
                         /\ \A live \in BOOLEAN : WF_vars(HandlerStep(r, live))
    /\ \A s \in Subs : SF_vars(ProcessStep(s)) /\ WF_vars(SetLocalBackend(s))

FairSpec == Spec /\ Fairness
-----------------------------------------------------------------------------
Items == {"none", "running", "quiescing"}

Chains ==
    [pc : {"none", "queued", "found", "calling", "replied", "acked", "put", "unwanted", "done"},
     to : Nat, from : Nat \cup {-1}, key : BackendIds \cup {<<>>}, item : Items, version : Nat]

Deltas ==
    [is_delta : BOOLEAN, from : Nat, to : Nat,
     items : [BackendIds -> Items \cup {"no item", "deleted"}]]

Registrations ==
    [sub : Subs \cup {"nobody"}, inc : 0..MaxInc, epoch : 0..MaxEpoch, last : Nat,
     transient : [BackendIds -> Nat], unregistered : BOOLEAN]

Processes ==
    [up : BOOLEAN, inc : 1..MaxInc, mode : {"registering", "running"},
     resp : [reg : 0..MaxRegs, ok : BOOLEAN], reg : 0..MaxRegs, registered : BOOLEAN,
     version : Nat \cup {-1}, copy : [BackendIds -> Items], own : Items, local : Items,
     source : 0..MaxEpoch, processed : Nat]

TypeOK ==
    /\ epoch \in 1..MaxEpoch
    /\ topic \in Topics
    /\ subscribers \in [Subs -> 0..MaxRegs]
    /\ regs \in [RegIds -> Registrations]
    /\ nextReg \in 1..(MaxRegs + 1)
    /\ missed \in [Subs -> -1..(MaxMissed - 1)]
    /\ upd \in [RegIds -> Chains]
    /\ hb \subseteq RegIds
    /\ calls \subseteq [reg : RegIds, delta : Deltas, stage : {"sent", "checked"}, live : BOOLEAN]
    /\ sub \in [Subs -> Processes]
    /\ late \subseteq Subs
    /\ faults \in 0..MaxFaults

(***************************************************************************)
(* Every live entry of the transient topic belongs to somebody who will    *)
(* delete it: it is recorded, under its version, with the current          *)
(* registration of a subscriber, or a worker is about to record it or to   *)
(* take it back.  Put() and AddTransientEntries() are two critical         *)
(* sections and UnregisterSubscriber() can come between them.              *)
(***************************************************************************)
NoLeakedEntries ==
    \A k \in BackendIds : View(topic)[k] # "none" =>
        \E r \in RegIds :
            \/ Current(r) /\ regs[r].transient[k] = topic.entries[k].version
            \/ /\ upd[r].pc \in {"put", "unwanted"}
               /\ upd[r].key = k /\ upd[r].version = topic.entries[k].version

(***************************************************************************)
(* A registered subscriber is never forgotten: its registration has a next *)
(* topic update and a next heartbeat in a queue or in the hands of a       *)
(* worker, whatever failed or re-registered in between.                    *)
(***************************************************************************)
RegisteredIsScheduled ==
    /\ TypeOK
    /\ \A s \in Subs : subscribers[s] # 0 =>
          upd[subscribers[s]].pc # "none" /\ subscribers[s] \in hb

(***************************************************************************)
(* The copy a subscriber has of the present statestored's topic agrees     *)
(* with it on every entry not changed after the subscriber's version, and  *)
(* holds nothing the topic has no entry for: across re-registrations, lost *)
(* and repeated updates, and a statestored that started from nothing.      *)
(***************************************************************************)
CopyIsTopicAtVersion ==
    \A s \in Subs : sub[s].up /\ sub[s].source = epoch =>
        \A k \in BackendIds :
            IF HasEntry(topic, k)
              THEN topic.entries[k].version <= sub[s].version
                     => sub[s].copy[k] = View(topic)[k]
              ELSE sub[s].copy[k] = "none"

\* What a process has processed of the topic of the statestored that registered r.
ProcessedOf(r) ==
    LET p == sub[regs[r].sub] IN IF p.source = regs[r].epoch THEN p.processed ELSE 0

(***************************************************************************)
(* LastTopicVersionProcessed() of a registered subscriber is a version the *)
(* subscriber has processed, except while the worker is about to correct   *)
(* it (SendTopicUpdate() first stores to_version, then the from_version    *)
(* the answer asks for).  SYNC_DDL waits for the minimum of these.         *)
(***************************************************************************)
LastIsProcessed ==
    \A s \in Subs : LET r == subscribers[s] IN
        r # 0 /\ sub[s].up /\ sub[s].inc = regs[r].inc =>
            \/ regs[r].last <= ProcessedOf(r)
            \/ upd[r].pc = "acked" /\ upd[r].from # -1

(***************************************************************************)
(* Registrations, workers, faults and recovery implement TopicReplication: *)
(* whatever the two sides believe of each other, a topic update is built   *)
(* by BuildDelta() from some version and changes a copy only on top of the *)
(* version it starts from.  (One statestored: a new one starts the topic   *)
(* over.)                                                                  *)
(***************************************************************************)
Replication ==
    INSTANCE TopicReplication WITH
        Keys <- BackendIds, Values <- {"running", "quiescing"},
        None <- "none", NoItem <- "no item", Deleted <- "deleted",
        cleared <- FALSE, base <- [s \in Subs |-> 0],
        MaxVersion <- 1000, MaxDeltas <- 1000,
        copy <- [s \in Subs |-> sub[s].copy],
        version <- [s \in Subs |-> sub[s].version],
        deltas <- {[sub |-> regs[c.reg].sub, delta |-> c.delta] : c \in calls}

ImplementsReplication == Replication!Spec
-----------------------------------------------------------------------------
(***************************************************************************)
(* Once the faults are over, every running backend is in the membership    *)
(* topic with its latest descriptor, and stays there.                      *)
(***************************************************************************)
Published ==
    \A s \in Publishers :
        <>[](sub[s].local # "none" /\ View(topic)[OwnKey(s)] = sub[s].local)

(***************************************************************************)
(* Once the faults are over, every subscriber's copy becomes and stays the *)
(* topic: dead backends leave it, live ones are in it.                     *)
(***************************************************************************)
CopiesConverge == \A s \in Subs : <>[](sub[s].copy = View(topic))

(***************************************************************************)
(* The backend of a process that is gone leaves the topic, although nobody *)
(* tells the statestored that the process ended.                           *)
(***************************************************************************)
DeadBackendsRemoved ==
    \A s \in Publishers : \A i \in 1..MaxInc :
        <>[](i # sub[s].inc => View(topic)[<<s, i>>] = "none")
=============================================================================

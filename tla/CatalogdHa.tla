------------------------------ MODULE CatalogdHa ------------------------------
(***************************************************************************)
(* The catalogds and the statestored that decides which one is active:     *)
(* StatestoreCatalogdMgr (statestore-catalogd-mgr.cc), the thread that     *)
(* tells the subscribers (MonitorUpdateCatalogd()), and what a subscriber  *)
(* makes of an UpdateCatalogd() request or of the answer to its            *)
(* registration (ActiveCatalogdVersionChecker, UpdateActiveCatalogd()).    *)
(*                                                                         *)
(* A catalogd is active as long as it believes in itself: is_active_ of    *)
(* CatalogServer is `view = c', catalogd_address_ of a coordinator is its  *)
(* view.                                                                   *)
(*                                                                         *)
(* Faults, together at most MaxFaults: heartbeats of a live subscriber     *)
(* fail ("partition"), the answer to a registration is lost                *)
(* ("lost_register"), an UpdateCatalogd() request is executed after its    *)
(* sender gave up on it ("late_update"), its handler is slow to take lock_ *)
(* ("slow_update"), a subscriber's process ends ("crash"), another         *)
(* statestored takes over ("restart").  The statestored is active (no      *)
(* statestored HA) and its queues have room.                               *)
(***************************************************************************)
EXTENDS Integers, Sequences

CONSTANTS
    Cat1, Cat2,    \* the catalogds
    Coordinators,  \* the other subscribers with subscribe_catalogd_change
    Forced,        \* catalogds started with force_catalogd_active
    EnableHa,      \* enable_catalogd_ha; without it only Cat1 exists
    MaxFaults,     \* bound: faults
    FaultKinds,    \* the faults that can happen
    None           \* no catalogd

Catalogds == IF EnableHa THEN {Cat1, Cat2} ELSE {Cat1}
Procs == Catalogds \cup Coordinators

ASSUME CatalogdHaConstants ==
    /\ Cat1 # Cat2 /\ Coordinators \cap {Cat1, Cat2} = {}
    /\ None \notin {Cat1, Cat2} \cup Coordinators
    /\ Forced \subseteq {Cat1, Cat2}
    /\ EnableHa \in BOOLEAN /\ MaxFaults \in Nat
    /\ FaultKinds \subseteq {"partition", "lost_register", "late_update", "slow_update",
                      "crash", "restart"}

VARIABLES
    epoch,     \* statestore_id_
    mgr,       \* the StatestoreCatalogdMgr
    subs,      \* subscribers_: the registration of a subscriber, 0 if it has none
    nextReg,   \* the next registration id
    notifier,  \* the MonitorUpdateCatalogd() thread
    late,      \* UpdateCatalogd() requests nobody waits for
    proc,      \* the subscribers' processes
    faults,    \* the faults so far
    elected    \* history: the active catalogd of every version of this statestored

vars == <<epoch, mgr, subs, nextReg, notifier, late, proc, faults, elected>>

\* first_catalogd_register_time_ is "unset", or not yet or already as long ago as
\* catalogd_ha_preemption_wait_period_ms.
NewMgr == [assigned |-> FALSE, num |-> 0, wait |-> "unset",
           first |-> None, active |-> None, standby |-> None, version |-> 0]

\* receivers is rpc_receivers, todo the part of it the present round has not called;
\* while it is reading the notifier knows the active catalogd and not yet the receivers.
NewNotifier == [started |-> FALSE, reading |-> FALSE, last |-> 0, receivers |-> {},
                todo |-> {}, version |-> 0, active |-> None]

NoReply == [reg |-> 0, version |-> -1, active |-> None]

NewProcess == [up |-> TRUE, mode |-> "registering", reg |-> 0, epoch |-> 0,
               reply |-> NoReply, last |-> 0, view |-> None]

Init ==
    /\ epoch = 1
    /\ mgr = NewMgr
    /\ subs = [p \in Procs |-> 0]
    /\ nextReg = 1
    /\ notifier = NewNotifier
    /\ late = {}
    /\ proc = [p \in Procs |-> NewProcess]
    /\ faults = 0
    /\ elected = <<>>

Fault(kind) ==
    /\ kind \in FaultKinds
    /\ faults < MaxFaults
    /\ faults' = faults + 1
-----------------------------------------------------------------------------
(***************************************************************************)
(* StatestoreCatalogdMgr.  Every designation is a new version.             *)
(***************************************************************************)
Designate(m, c) == [m EXCEPT !.assigned = TRUE, !.active = c, !.version = m.version + 1]

\* RegisterCatalogd() without HA.
RegisterOnly(c, reregistering) ==
    /\ ~EnableHa
    /\ mgr' = [Designate(mgr, c) EXCEPT !.num = IF reregistering THEN mgr.num ELSE mgr.num + 1]

\* Roles change in a re-registration only if the standby is forced active, or if nobody
\* is active and the waiting period is over.
Takeover(c) == mgr.num = 2 /\ c = mgr.standby /\ c \in Forced
WaitedAlone == mgr.num # 2 /\ ~mgr.assigned /\ mgr.wait = "expired"

Reregister(c) ==
    /\ EnableHa
    /\ \/ Takeover(c) /\ mgr' = [Designate(mgr, c) EXCEPT !.standby = mgr.active]
       \/ WaitedAlone /\ mgr' = Designate(mgr, c)
       \/ ~Takeover(c) /\ ~WaitedAlone /\ mgr' = mgr

\* The first of two waits for the other one, unless it is forced active or the waiting
\* period is over (of length zero, perhaps).
RegisterFirst(c) ==
    /\ EnableHa /\ mgr.num = 0
    /\ \E wait \in IF mgr.wait = "unset" THEN {"waiting", "expired"} ELSE {mgr.wait} :
         LET m == [mgr EXCEPT !.num = 1, !.first = c, !.wait = wait]
         IN  mgr' = IF c \in Forced \/ wait = "expired" THEN Designate(m, c) ELSE m

\* The second becomes active if it is forced, or nobody is and it has the higher
\* priority (by subscriber id, or by registration id, which is random).
RegisterSecond(c) ==
    LET m == [mgr EXCEPT !.num = mgr.num + 1]
        other == IF mgr.assigned THEN mgr.active ELSE mgr.first
    IN  /\ EnableHa /\ mgr.num # 0
        /\ \/ /\ c \in Forced \/ ~mgr.assigned
              /\ mgr' = [Designate(m, c) EXCEPT !.standby = other]
           \/ /\ c \notin Forced /\ mgr.assigned
              /\ mgr' = [m EXCEPT !.standby = c]
           \/ /\ c \notin Forced /\ ~mgr.assigned
              /\ mgr' = [Designate(m, mgr.first) EXCEPT !.standby = c]

RegisterCatalogd(c, reregistering) ==
    \/ RegisterOnly(c, reregistering)
    \/ reregistering /\ Reregister(c)
    \/ ~reregistering /\ (RegisterFirst(c) \/ RegisterSecond(c))

\* Mutant: the last one leaves and stays assigned.
UnregisterKeepsAssigned(c) ==
    LET m == [mgr EXCEPT !.num = mgr.num - 1]
    IN  mgr' = IF c = mgr.active /\ m.num > 0
                 THEN [Designate(m, mgr.standby) EXCEPT !.standby = None]
                 ELSE IF m.num > 0 THEN [m EXCEPT !.standby = None] ELSE m

\* UnregisterCatalogd(): the standby takes over from an active one.
UnregisterCatalogd(c) ==
    LET m == [mgr EXCEPT !.num = mgr.num - 1]
    IN  mgr' = IF c = mgr.active
                 THEN IF m.num > 0 THEN [Designate(m, mgr.standby) EXCEPT !.standby = None]
                      ELSE [m EXCEPT !.assigned = FALSE, !.wait = "expired"]
                 ELSE IF m.num > 0 THEN [m EXCEPT !.standby = None] ELSE m

\* The history of designations.
Record == elected' = IF mgr'.version > mgr.version THEN Append(elected, mgr'.active) ELSE elected

WaitingPeriodExpires ==
    /\ mgr.wait = "waiting"
    /\ mgr' = [mgr EXCEPT !.wait = "expired"]
    /\ UNCHANGED <<epoch, subs, nextReg, notifier, late, proc, faults, elected>>

\* CheckActiveCatalog(), which the notifying thread calls until it is TRUE.
CheckActiveCatalog ==
    /\ ~notifier.started
    /\ \/ mgr.assigned /\ mgr' = mgr
       \/ ~mgr.assigned /\ mgr.num # 0 /\ mgr.wait = "expired" /\ mgr' = Designate(mgr, mgr.first)
    /\ Record
    /\ notifier' = [notifier EXCEPT !.started = TRUE]
    /\ UNCHANGED <<epoch, subs, nextReg, late, proc, faults>>
-----------------------------------------------------------------------------
(***************************************************************************)
(* Registration.                                                           *)
(***************************************************************************)
\* Statestore::RegisterSubscriber(), one critical section: the answer has the active
\* catalogd, if there is one.
Register(p) ==
    /\ proc[p].up /\ proc[p].mode = "registering" /\ proc[p].reply.reg = 0
    /\ IF p \in Catalogds THEN RegisterCatalogd(p, subs[p] # 0) ELSE mgr' = mgr
    /\ Record
    /\ subs' = [subs EXCEPT ![p] = nextReg]
    /\ nextReg' = nextReg + 1
    /\ proc' = [proc EXCEPT ![p].reply = [reg |-> nextReg,
                                          version |-> IF mgr'.assigned THEN mgr'.version ELSE -1,
                                          active |-> mgr'.active]]
    /\ UNCHANGED <<epoch, notifier, late, faults>>

\* Heartbeats fail: DoSubscriberUpdate() unregisters the subscriber.
HeartbeatsFail(p) ==
    /\ subs[p] # 0
    /\ IF proc[p].up THEN Fault("partition") ELSE UNCHANGED faults
    /\ subs' = [subs EXCEPT ![p] = 0]
    /\ IF p \in Catalogds THEN UnregisterCatalogd(p) ELSE mgr' = mgr
    /\ Record
    /\ UNCHANGED <<epoch, nextReg, notifier, late, proc>>

\* Mutant: an answer without an active catalogd leaves the version as it is.
RegisterKeepsVersion(p) ==
    LET r == proc[p].reply
    IN  /\ proc[p].up /\ r.reg # 0
        /\ proc' = [proc EXCEPT ![p] =
                      [proc[p] EXCEPT !.mode = "running", !.reg = r.reg, !.epoch = epoch,
                                      !.reply = NoReply,
                                      !.last = IF r.version < 0 THEN proc[p].last ELSE r.version,
                                      !.view = IF r.version < 0 THEN proc[p].view ELSE r.active]]
        /\ UNCHANGED <<epoch, mgr, subs, nextReg, notifier, late, faults, elected>>

\* The answer arrives.  CheckActiveCatalogdVersion() of a registration reply takes any
\* version, and one without an active catalogd starts the versions over.
FinishRegister(p) ==
    LET r == proc[p].reply
    IN  /\ proc[p].up /\ r.reg # 0
        /\ proc' = [proc EXCEPT ![p] =
                      [proc[p] EXCEPT !.mode = "running", !.reg = r.reg, !.epoch = epoch,
                                      !.reply = NoReply,
                                      !.last = IF r.version < 0 THEN 0 ELSE r.version,
                                      !.view = IF r.version < 0 THEN proc[p].view ELSE r.active]]
        /\ UNCHANGED <<epoch, mgr, subs, nextReg, notifier, late, faults, elected>>

LoseReply(p) ==
    /\ proc[p].up /\ proc[p].reply.reg # 0
    /\ Fault("lost_register")
    /\ proc' = [proc EXCEPT ![p].reply = NoReply]
    /\ UNCHANGED <<epoch, mgr, subs, nextReg, notifier, late, elected>>

\* RecoveryModeChecker(): no heartbeats for this registration.
EnterRecovery(p) ==
    /\ proc[p].up /\ proc[p].mode = "running" /\ subs[p] # proc[p].reg
    /\ proc' = [proc EXCEPT ![p].mode = "registering", ![p].reg = 0]
    /\ UNCHANGED <<epoch, mgr, subs, nextReg, notifier, late, faults, elected>>
-----------------------------------------------------------------------------
(***************************************************************************)
(* Notification.                                                           *)
(***************************************************************************)
\* SendUpdateCatalogdNotification() asks the manager for the active catalogd.
NotifyRead ==
    /\ notifier.started /\ ~notifier.reading /\ notifier.todo = {}
    /\ mgr.assigned
    /\ mgr.version # notifier.last \/ notifier.receivers # {}
    /\ notifier' = [notifier EXCEPT !.reading = TRUE, !.version = mgr.version,
                                    !.active = mgr.active]
    /\ UNCHANGED <<epoch, mgr, subs, nextReg, late, proc, faults, elected>>

\* The registrations in subscribers_.
AllReceivers == {<<p, subs[p]>> : p \in {q \in Procs : subs[q] # 0}}

\* Mutant: nothing is sent again.
NotifyOnce == IF notifier.version > notifier.last THEN AllReceivers ELSE {}

\* All subscribers for a new version, otherwise those of the last round that failed or
\* skipped.
Receivers ==
    IF notifier.version > notifier.last THEN AllReceivers
    ELSE {r \in notifier.receivers : subs[r[1]] # 0}

\* Then, under subscribers_lock_, it lists whom to tell.
NotifyRound ==
    /\ notifier.reading
    /\ notifier' = [notifier EXCEPT !.reading = FALSE, !.last = notifier.version,
                                    !.receivers = Receivers, !.todo = Receivers]
    /\ UNCHANGED <<epoch, mgr, subs, nextReg, late, proc, faults, elected>>

\* The request is of another registration, or lock_ is held by a registration.
Skips(p, reg) == proc[p].mode = "registering" \/ proc[p].reg # reg

\* CheckActiveCatalogdVersion() of a request, and UpdateActiveCatalogd().
UpdateCatalogd(p, version, active) ==
    proc' = IF proc[p].last >= version THEN proc
            ELSE [proc EXCEPT ![p].last = version, ![p].view = active]

\* One receiver of the round.
NotifyOne(r) ==
    LET p == r[1]
    IN  /\ \/ /\ ~proc[p].up \/ Skips(p, r[2])
              /\ notifier' = [notifier EXCEPT !.todo = notifier.todo \ {r}]
              /\ UNCHANGED proc
           \/ /\ proc[p].up /\ ~Skips(p, r[2])
              /\ notifier' = [notifier EXCEPT !.todo = notifier.todo \ {r},
                                              !.receivers = notifier.receivers \ {r}]
              /\ UpdateCatalogd(p, notifier.version, notifier.active)
        /\ UNCHANGED <<epoch, mgr, subs, nextReg, late, faults, elected>>

\* The notifier stops waiting for the answer, the request is still under way.
NotifyLate(r) ==
    /\ proc[r[1]].up
    /\ Fault("late_update")
    /\ notifier' = [notifier EXCEPT !.todo = notifier.todo \ {r}]
    /\ late' = late \cup {[to |-> r, version |-> notifier.version, active |-> notifier.active,
                          checked |-> FALSE]}
    /\ UNCHANGED <<epoch, mgr, subs, nextReg, proc, elected>>

LateUpdate(c) ==
    LET p == c.to[1]
    IN  /\ ~c.checked
        /\ IF ~Skips(p, c.to[2]) THEN UpdateCatalogd(p, c.version, c.active) ELSE UNCHANGED proc
        /\ late' = late \ {c}
        /\ UNCHANGED <<epoch, mgr, subs, nextReg, notifier, faults, elected>>

\* IsMatchingStatestoreId() and CheckRegistrationId(): a process that has never been
\* registered takes any request.
Accepts(p, reg) == proc[p].reg = reg \/ (proc[p].reg = 0 /\ proc[p].epoch = 0)

\* The check and the lock are two steps: a handler that is slow between them can be
\* overtaken by a registration.
SlowUpdate(c) ==
    /\ ~c.checked /\ Accepts(c.to[1], c.to[2])
    /\ Fault("slow_update")
    /\ late' = (late \ {c}) \cup {[c EXCEPT !.checked = TRUE]}
    /\ UNCHANGED <<epoch, mgr, subs, nextReg, notifier, proc, elected>>

FinishSlowUpdate(c) ==
    LET p == c.to[1]
    IN  /\ c.checked
        /\ IF proc[p].mode = "running" THEN UpdateCatalogd(p, c.version, c.active)
                                       ELSE UNCHANGED proc
        /\ late' = late \ {c}
        /\ UNCHANGED <<epoch, mgr, subs, nextReg, notifier, faults, elected>>
-----------------------------------------------------------------------------
Crash(p) ==
    /\ proc[p].up
    /\ Fault("crash")
    /\ proc' = [proc EXCEPT ![p].up = FALSE]
    /\ late' = {c \in late : c.to[1] # p}
    /\ UNCHANGED <<epoch, mgr, subs, nextReg, notifier, elected>>

Boot(p) ==
    /\ ~proc[p].up
    /\ proc' = [proc EXCEPT ![p] = NewProcess]
    /\ UNCHANGED <<epoch, mgr, subs, nextReg, notifier, late, faults, elected>>

\* Another statestored, with nothing; registrations under way are sent again.
RestartStatestore ==
    /\ Fault("restart")
    /\ epoch' = epoch + 1
    /\ mgr' = NewMgr
    /\ subs' = [p \in Procs |-> 0]
    /\ notifier' = NewNotifier
    /\ proc' = [p \in Procs |-> [proc[p] EXCEPT !.reply = NoReply]]
    /\ elected' = <<>>
    /\ UNCHANGED <<nextReg, late>>

ProcessStep(p) == Register(p) \/ FinishRegister(p) \/ EnterRecovery(p)

NotifierStep ==
    CheckActiveCatalog \/ NotifyRead \/ NotifyRound \/ \E r \in notifier.todo : NotifyOne(r)

Next ==
    \/ WaitingPeriodExpires
    \/ NotifierStep
    \/ \E r \in notifier.todo : NotifyLate(r)
    \/ \E c \in late : LateUpdate(c) \/ SlowUpdate(c) \/ FinishSlowUpdate(c)
    \/ \E p \in Procs : \/ ProcessStep(p) \/ HeartbeatsFail(p)
                        \/ LoseReply(p) \/ Crash(p) \/ Boot(p)
    \/ RestartStatestore

Spec == Init /\ [][Next]_vars

(***************************************************************************)
(* Time passes, the notifying thread, the heartbeat threads and the        *)
(* subscribers' recovery threads run.  A process that ended need not be    *)
(* started again.                                                          *)
(***************************************************************************)
Fairness ==
    /\ WF_vars(WaitingPeriodExpires)
    /\ WF_vars(NotifierStep)
    /\ \A p \in Procs : /\ WF_vars(ProcessStep(p))
                        /\ WF_vars(~proc[p].up /\ HeartbeatsFail(p))

FairSpec == Spec /\ Fairness
-----------------------------------------------------------------------------
Manager == [assigned : BOOLEAN, num : 0..2, wait : {"unset", "waiting", "expired"},
            first : Catalogds \cup {None}, active : Catalogds \cup {None},
            standby : Catalogds \cup {None}, version : Nat]

Notifier == [started : BOOLEAN, reading : BOOLEAN, last : Nat,
             receivers : SUBSET (Procs \X Nat), todo : SUBSET (Procs \X Nat),
             version : Nat, active : Catalogds \cup {None}]

Call == [to : Procs \X Nat, version : Nat, active : Catalogds \cup {None},
         checked : BOOLEAN]

Process == [up : BOOLEAN, mode : {"registering", "running"}, reg : Nat, epoch : Nat,
            reply : [reg : Nat, version : Nat \cup {-1}, active : Catalogds \cup {None}],
            last : Nat, view : Catalogds \cup {None}]

TypeOK ==
    /\ epoch \in Nat \ {0}
    /\ mgr \in Manager
    /\ subs \in [Procs -> Nat]
    /\ nextReg \in Nat \ {0}
    /\ notifier \in Notifier
    /\ late \subseteq Call
    /\ proc \in [Procs -> Process]
    /\ faults \in Nat
    /\ elected \in Seq(Catalogds)

Registered(c) == c \in Catalogds /\ subs[c] # 0

(***************************************************************************)
(* What StatestoreCatalogdMgr's DCHECKs rely on: num_registered_catalogd_  *)
(* counts the registered catalogds; of two registered ones one is active   *)
(* and the other is the standby; a registered catalogd that is called      *)
(* active is assigned; a single one that is not active is the first.       *)
(***************************************************************************)
RolesConsistent ==
    /\ mgr.num = (IF Registered(Cat1) THEN 1 ELSE 0) + (IF Registered(Cat2) THEN 1 ELSE 0)
    /\ mgr.assigned => Registered(mgr.active)
    /\ Registered(mgr.active) => mgr.assigned
    /\ mgr.num = 2 => /\ mgr.assigned
                      /\ Registered(mgr.standby) /\ mgr.standby # mgr.active
    /\ mgr.num # 0 /\ ~mgr.assigned => Registered(mgr.first) /\ mgr.wait # "unset"

(***************************************************************************)
(* A version names one catalogd: whoever has taken version v of the        *)
(* present statestored believes in the catalogd that was designated with   *)
(* v, whatever order the answers and the requests came in.  So two         *)
(* catalogds that both believe they are active have taken different        *)
(* versions.                                                               *)
(***************************************************************************)
VersionNamesActive ==
    \A p \in Procs :
        proc[p].up /\ proc[p].mode = "running" /\ proc[p].epoch = epoch /\ proc[p].last # 0 =>
            proc[p].last <= Len(elected) /\ proc[p].view = elected[proc[p].last]

(***************************************************************************)
(* Once the faults are over, and unless no catalogd is left, one that runs *)
(* is active and everybody who runs knows it: it has become active, the    *)
(* other one has stepped down, every coordinator has its address.          *)
(***************************************************************************)
OneActiveCatalogd ==
    <>[]((\E c \in Catalogds : proc[c].up) =>
           /\ mgr.assigned /\ proc[mgr.active].up
           /\ \A p \in Procs : proc[p].up => proc[p].view = mgr.active)
-----------------------------------------------------------------------------
(***************************************************************************)
(* What a comment says and the code does not do: violated in a run of its  *)
(* own.                                                                    *)
(***************************************************************************)
\* "... so that RPC messages for previous registration are not accepted" (Register()):
\* an UpdateCatalogd() request changes a subscriber only in the registration it is for.
PreviousNotAccepted ==
    [][\A c \in late : FinishSlowUpdate(c) => proc' = proc \/ proc[c.to[1]].reg = c.to[2]]_vars
=============================================================================

--------------------------- MODULE QueryExecution ---------------------------
(***************************************************************************)
(* The execution of one query: the coordinator starts fragment instances   *)
(* on its backends, the backends report their status, and the query ends   *)
(* once, whoever ends it: the client that fetched the last row or          *)
(* cancelled, a report of an error, or a failure to start.  Then the       *)
(* admission control resources are given back.                             *)
(*                                                                         *)
(* Coordinator, Coordinator::BackendState, BackendResourceState; on a      *)
(* backend QueryState and FragmentInstanceState.  Threads: the one that    *)
(* calls Exec() and then fetches or waits ("main"), one that cancels, the  *)
(* handler of each backend's reports, each instance and each QueryState.   *)
(***************************************************************************)
EXTENDS Integers, FiniteSets

CONSTANTS
    Backends, Coord, Instances,
    Kinds,                  \* of queries: "QUERY", "DML"
    Layout,                 \* the instances of a backend, for each kind of query;
                            \* only the coordinator's own backend may have none
    MaxSeq,                 \* periodic reports of an instance that are numbered
    FaultKinds, MaxFaults,
    Faulty                  \* the backends that faults happen to

ASSUME ConstantsAssumption ==
    /\ Coord \in Backends /\ Backends \cap {"all", "none", "main", "client"} = {}
    /\ IsFiniteSet(Backends) /\ IsFiniteSet(Instances)
    /\ Kinds \subseteq {"QUERY", "DML"}
    /\ Layout \in [Kinds -> [Backends -> SUBSET Instances]]
    /\ \A k \in Kinds : \A b, c \in Backends :
          b # c => Layout[k][b] \cap Layout[k][c] = {}
    /\ \A k \in Kinds : \A b \in Backends \ {Coord} : Layout[k][b] # {}
    /\ "QUERY" \in Kinds => Layout["QUERY"][Coord] # {}
    /\ Faulty \subseteq Backends
    /\ FaultKinds \in [Kinds -> SUBSET {"exec", "cancel", "instance", "stall", "report",
                                        "crash"}]
    /\ MaxSeq \in [Kinds -> Nat] /\ MaxFaults \in Nat

VARIABLES
    kind,
    main,       \* where the main thread is
    rpcs,       \* exec_rpcs_status_barrier_: pending and promise
    complete,   \* pending count of backend_exec_complete_barrier_
    bs,         \* the BackendStates
    exec,       \* exec_state_ and exec_status_
    ending,     \* HandleExecStateTransition(): who runs it, and how far
    handler,    \* UpdateBackendExecStatus() of a final report
    res,        \* BackendResourceState
    freed,      \* how often a backend, and the query ("all"), was released
    dml,        \* dml_exec_state_: how often an instance was counted
    finalized,  \* the files of the DML query have been moved
    qs,         \* the QueryState of a backend
    inst,       \* the fragment instances
    late,       \* reports whose handler is slow while the sender gave up
    faults

InstancesOf(b) == Layout[kind][b]

ending_vars == <<ending, res, freed>>
coordinator == <<kind, main, rpcs, complete, bs, exec, ending_vars, handler, dml, finalized>>
executor == <<qs, inst>>
vars == <<coordinator, executor, late, faults>>

Init ==
    /\ kind \in Kinds
    /\ main = "exec"
    /\ rpcs = [pending |-> Cardinality(Backends), status |-> "unset"]
    /\ complete = Cardinality(Backends)
    /\ bs = [b \in Backends |->
               [sent |-> FALSE, done |-> FALSE, status |-> "ok",
                left |-> InstancesOf(b), seq |-> [i \in Instances |-> 0], ranges |-> 0]]
    /\ exec = [state |-> "EXECUTING", status |-> "ok"]
    /\ ending = [by |-> "none", at |-> "none", free |-> {}]
    /\ handler = [b \in Backends |-> [at |-> "idle", free |-> {}, waits |-> FALSE]]
    /\ res = [state |-> [b \in Backends |-> "IN_USE"], closed |-> FALSE,
              barrier |-> Cardinality(Backends)]
    /\ freed = [b \in Backends \cup {"all"} |-> 0]
    /\ dml = [i \in Instances |-> 0]
    /\ finalized = FALSE
    /\ qs = [b \in Backends |-> [at |-> "none", status |-> "ok", cancelled |-> FALSE,
                                 active |-> TRUE, read |-> "none", waits |-> FALSE]]
    /\ inst = [i \in Instances |-> [at |-> "none", seq |-> 0, final |-> "no"]]
    /\ late = {}
    /\ faults = 0

Fault(k, b) ==
    /\ k \in FaultKinds[kind] /\ b \in Faulty
    /\ faults < MaxFaults
    /\ faults' = faults + 1

Done(state) == state.left = {} \/ state.status # "ok"
IsDone(b) == Done(bs[b])
ExecRpcsComplete == \A b \in Backends : bs[b].done

-----------------------------------------------------------------------------
(* Ending the query.                                                       *)

\* UpdateExecState() by thread t, and by SetNonErrorTerminalState(): the
\* first to leave EXECUTING runs the transition, the others go on.
EnterState(t, state, status) ==
    /\ exec.state = "EXECUTING"
    /\ exec' = [state |-> state, status |-> status]
    /\ ending' = [ending EXCEPT !.by = t, !.at = "enter"]

UpdateExecState(t, status) ==
    \/ status # "ok" /\ EnterState(t, "ERROR", status)
    \/ /\ status = "ok" \/ exec.state # "EXECUTING"
       /\ exec' = IF exec.state = "ERROR" /\ exec.status = "cancelled" /\ status = "error"
                  THEN [exec EXCEPT !.status = status] ELSE exec
       /\ UNCHANGED ending

SetNonErrorTerminalState(t, state) ==
    \/ EnterState(t, state, IF state = "CANCELLED" THEN "cancelled" ELSE "ok")
    \/ exec.state # "EXECUTING" /\ UNCHANGED <<exec, ending>>

\* BackendState::Cancel(), fire and forget, of all backends: each under its
\* lock; a report that comes in between is one that came before.
CancelTargets == {b \in Backends : bs[b].sent /\ ~IsDone(b)}

\* Mutant: backends that got no Exec() RPC are left as they are
CancelSentOnly ==
    /\ \A b \in Backends : bs[b].sent => bs[b].done
    /\ bs' = [b \in Backends |-> IF b \in CancelTargets
                                 THEN [bs[b] EXCEPT !.status = "cancelled"] ELSE bs[b]]
    /\ complete' = IF complete > 0 THEN 0 ELSE complete
    /\ qs' = [b \in Backends |-> IF b \in CancelTargets /\ qs[b].at # "none"
                                 THEN [qs[b] EXCEPT !.cancelled = TRUE] ELSE qs[b]]
    /\ UNCHANGED faults

CancelBackends ==
    /\ \A b \in Backends : bs[b].sent => bs[b].done
    /\ bs' = [b \in Backends |->
                IF ~bs[b].sent \/ ~IsDone(b)
                THEN [bs[b] EXCEPT !.done = TRUE,
                                   !.status = IF @ = "ok" THEN "cancelled" ELSE @]
                ELSE bs[b]]
    /\ complete' = IF complete > 0 THEN 0 ELSE complete
    /\ \E lost \in SUBSET CancelTargets :
          /\ qs' = [b \in Backends |-> IF b \in CancelTargets \ lost /\ qs[b].at # "none"
                                       THEN [qs[b] EXCEPT !.cancelled = TRUE] ELSE qs[b]]
          /\ IF lost = {} THEN UNCHANGED faults ELSE \E b \in lost : lost = {b} /\ Fault("cancel", b)

\* The rest of HandleExecStateTransition(), one step at a time.
EndQuery ==
    /\ ending.at = "enter"
    /\ ending' = [ending EXCEPT !.at = "close"]
    /\ IF exec.state = "RETURNED_RESULTS"
       THEN complete <= 0 /\ UNCHANGED <<complete, bs, qs, faults>>
       ELSE CancelBackends
    /\ UNCHANGED <<kind, main, rpcs, exec, res, freed, handler, dml, finalized, inst, late>>

\* Mutant: backends that a handler is releasing are taken as well
CloseTakesReleasable ==
    /\ ending.at = "close"
    /\ ending' = [ending EXCEPT !.at = "release",
                                !.free = {b \in Backends : res.state[b] # "RELEASED"}]
    /\ res' = [res EXCEPT !.closed = TRUE]
    /\ UNCHANGED <<kind, main, rpcs, complete, bs, exec, freed, handler, dml, finalized,
                   executor, late, faults>>

CloseAndGetUnreleasedBackends ==
    /\ ending.at = "close"
    /\ ending' = [ending EXCEPT
                    !.at = "release",
                    !.free = {b \in Backends : res.state[b] \in {"IN_USE", "PENDING"}}]
    /\ res' = [res EXCEPT !.closed = TRUE]
    /\ UNCHANGED <<kind, main, rpcs, complete, bs, exec, freed, handler, dml, finalized,
                   executor, late, faults>>

\* ReleaseBackendAdmissionControlResources(), BackendsReleased() and the
\* notifications of backend_released_barrier_.
ReleaseBackends(set) ==
    /\ freed' = [b \in DOMAIN freed |-> freed[b] + IF b \in set THEN 1 ELSE 0]
    /\ res' = [res EXCEPT !.state = [b \in Backends |->
                                       IF b \in set THEN "RELEASED" ELSE @[b]],
                          !.barrier = @ - Cardinality(set)]

ReleaseUnreleased ==
    /\ ending.at = "release"
    /\ ReleaseBackends(ending.free)
    /\ ending' = [ending EXCEPT !.at = "wait", !.free = {}]
    /\ UNCHANGED <<kind, main, rpcs, complete, bs, exec, handler, dml, finalized, executor,
                   late, faults>>

\* ReleaseQuery() once all backends are released; the summary is computed.
ReleaseQueryAdmissionControlResources ==
    /\ ending.at = "wait"
    /\ res.barrier <= 0
    /\ freed' = [freed EXCEPT !["all"] = @ + 1]
    /\ ending' = [ending EXCEPT !.at = "final"]
    /\ UNCHANGED <<kind, main, rpcs, complete, bs, exec, res, handler, dml, finalized,
                   executor, late, faults>>

-----------------------------------------------------------------------------
(* Starting: Exec() in the main thread, and the callbacks of its RPCs.     *)

Notify(status) ==
    rpcs' = [pending |-> rpcs.pending - 1,
             status |-> IF rpcs.pending = 1 THEN status ELSE rpcs.status]
NotifyRemaining(status) ==
    rpcs' = IF rpcs.pending > 0 THEN [pending |-> 0, status |-> status] ELSE rpcs

\* One turn of the loop of StartBackendExec(); a backend without instances
\* gets no RPC.
ExecAsync(b) ==
    /\ main = "exec"
    /\ rpcs.pending > 0
    /\ ~bs[b].sent /\ ~bs[b].done
    /\ IF InstancesOf(b) = {}
       THEN bs' = [bs EXCEPT ![b].done = TRUE] /\ Notify("ok")
       ELSE bs' = [bs EXCEPT ![b].sent = TRUE] /\ UNCHANGED rpcs
    /\ UNCHANGED <<kind, main, complete, exec, ending_vars, handler, dml, finalized, executor,
                   late, faults>>

\* StartQuery() and StartFInstances() on the backend; maybe after the
\* coordinator's call has timed out or was cancelled.
StartFInstances(b) ==
    /\ bs[b].sent
    /\ qs[b].at = "none"
    /\ qs' = [qs EXCEPT ![b].at = "executing"]
    /\ inst' = [i \in Instances |-> IF i \in InstancesOf(b)
                                    THEN [inst[i] EXCEPT !.at = "running"] ELSE inst[i]]
    /\ UNCHANGED <<coordinator, late, faults>>

\* ExecCompleteCb(): success, or an error although the call may have arrived.
ExecCompleteCb(b) ==
    /\ bs[b].sent /\ ~bs[b].done
    /\ \/ /\ qs[b].at # "none"
          /\ bs' = [bs EXCEPT ![b].done = TRUE]
          /\ Notify("ok")
          /\ UNCHANGED faults
       \/ /\ Fault("exec", b)
          /\ bs' = [bs EXCEPT ![b].done = TRUE, ![b].status = "error"]
          /\ NotifyRemaining("error")
       \/ /\ main = "abort"
          /\ bs' = [bs EXCEPT ![b].done = TRUE, ![b].status = "cancelled"]
          /\ NotifyRemaining("cancelled")
          /\ UNCHANGED faults
    /\ UNCHANGED <<kind, main, complete, exec, ending_vars, handler, dml, finalized, executor,
                   late>>

\* exec_rpcs_status_barrier_.Wait() returns.
WaitOnBarrier ==
    /\ main = "exec"
    /\ rpcs.pending <= 0
    /\ main' = IF rpcs.status = "ok" THEN "finish" ELSE "abort"
    /\ UNCHANGED <<kind, rpcs, complete, bs, exec, ending_vars, handler, dml, finalized,
                   executor, late, faults>>

AbortStartup ==
    /\ main = "abort"
    /\ CancelBackends
    /\ main' = "aborted"
    /\ UNCHANGED <<kind, rpcs, exec, ending_vars, handler, dml, finalized, inst, late>>

\* The end of StartBackendExec() after an error, and FinishBackendStartup().
FinishBackendStartup ==
    /\ ExecRpcsComplete
    /\ \/ /\ main = "aborted"
          /\ UpdateExecState("main", rpcs.status)
          /\ UNCHANGED complete
       \/ /\ main = "finish"
          /\ \E s \in {"ok", "cancelled", "error"} :
                /\ IF s = "ok" THEN \A b \in Backends : bs[b].status = "ok"
                               ELSE \E b \in Backends : bs[b].status = s
                /\ UpdateExecState("main", s)
          /\ complete' = complete - Cardinality({b \in Backends : InstancesOf(b) = {}})
    /\ main' = IF main = "finish" /\ exec'.status = "ok" THEN "running" ELSE "done"
    /\ UNCHANGED <<kind, rpcs, bs, res, freed, handler, dml, finalized, executor, late,
                   faults>>

-----------------------------------------------------------------------------
(* Results, and cancellation.                                              *)

\* GetNext(): the last row, or the error of the coordinator's instance.
GetNext ==
    /\ main = "running" /\ kind = "QUERY"
    /\ main' = "done"
    /\ \/ /\ \A i \in InstancesOf(Coord) : inst[i].at \in {"running", "stalled", "done"}
          /\ SetNonErrorTerminalState("main", "RETURNED_RESULTS")
       \/ /\ \E i \in InstancesOf(Coord) : inst[i].at = "failed"
          /\ UpdateExecState("main", qs[Coord].status)
    /\ UNCHANGED <<kind, rpcs, complete, bs, res, freed, handler, dml, finalized, executor,
                   late, faults>>

\* Wait() of a DML query: FinalizeHdfsDml() when all backends are done ...
FinalizeHdfsDml ==
    /\ main = "running" /\ kind = "DML"
    /\ complete <= 0
    /\ IF exec.status = "ok" THEN finalized' = TRUE /\ main' = "finalized"
                             ELSE main' = "done" /\ UNCHANGED finalized
    /\ UNCHANGED <<kind, rpcs, complete, bs, exec, ending_vars, handler, dml, executor, late,
                   faults>>

\* ... and then the query is finished.
FinishDml ==
    /\ main = "finalized"
    /\ main' = "done"
    /\ SetNonErrorTerminalState("main", "RETURNED_RESULTS")
    /\ UNCHANGED <<kind, rpcs, complete, bs, res, freed, handler, dml, finalized, executor,
                   late, faults>>

\* Cancel(): by the client, or because a backend failed.  When the last row
\* was returned it unblocks the thread that waits for the backends.
Cancel ==
    /\ main \in {"running", "finalized", "done"}
    /\ IF exec.state = "RETURNED_RESULTS"
       THEN ending.at = "enter" /\ CancelBackends /\ UNCHANGED <<exec, ending>>
       ELSE /\ EnterState("client", "CANCELLED", "cancelled")
            /\ UNCHANGED <<bs, complete, qs, faults>>
    /\ UNCHANGED <<kind, main, rpcs, res, freed, handler, dml, finalized, inst, late>>

\* A backend that is gone before the coordinator has its final report:
\* UnresponsiveBackendThread() or the statestore make the query be cancelled.
CancelUnresponsive ==
    /\ \E b \in Backends : qs[b].at = "gone" /\ ~IsDone(b)
    /\ Cancel

-----------------------------------------------------------------------------
(* Instances, and the reports about them.                                  *)

\* An instance ends; one that fails sets exec_failed_, then the status of the
\* QueryState, and then counts as ended.
EndInstance(b, i) ==
    /\ i \in InstancesOf(b)
    /\ \/ /\ inst[i].at = "running"
          /\ inst' = [inst EXCEPT ![i].at = "done"]
          /\ UNCHANGED <<qs, faults>>
       \/ /\ inst[i].at \in {"running", "stalled"}
          /\ \/ /\ qs[b].cancelled
                /\ inst' = [inst EXCEPT ![i].at = "cancelling"]
                /\ UNCHANGED faults
             \/ /\ inst[i].at = "running" /\ Fault("instance", b)
                /\ inst' = [inst EXCEPT ![i].at = "failing"]
          /\ UNCHANGED qs
       \/ /\ inst[i].at \in {"failing", "cancelling"}
          /\ inst' = [inst EXCEPT ![i].at = "told"]
          /\ qs' = [qs EXCEPT ![b].status =
                      IF @ = "error" \/ inst[i].at = "failing" THEN "error" ELSE "cancelled"]
          /\ UNCHANGED faults
       \/ /\ inst[i].at = "told"
          /\ inst' = [inst EXCEPT ![i].at = "failed"]
          /\ UNCHANGED <<qs, faults>>
    /\ UNCHANGED <<coordinator, late>>

\* An instance that waits for others makes no progress of its own.
Stall(b, i) ==
    /\ i \in InstancesOf(b)
    /\ inst[i].at = "running"
    /\ Fault("stall", b)
    /\ inst' = [inst EXCEPT ![i].at = "stalled"]
    /\ UNCHANGED <<coordinator, qs, late>>

\* The thread of MonitorFInstances() starts a report: ConstructReport() reads
\* overall_status_.  When all instances are done, or one has failed, it is the
\* last one (UpdateBackendExecState()), sent if the coordinator is there.  Of the
\* others at most MaxSeq[kind] are made while nothing has gone wrong, and enough
\* to hear of it when something has.
Ended(b) ==
    \/ \A i \in InstancesOf(b) : inst[i].at = "done"
    \/ \E i \in InstancesOf(b) : inst[i].at = "failed"

\* Mutant: only the last report is sent
LastReportOnly(b) ==
    /\ qs[b].at \in {"executing", "final"}
    /\ qs[b].read = "none"
    /\ Ended(b)
    /\ qs' = [qs EXCEPT ![b].at = IF qs[b].active THEN "final" ELSE "gone",
                        ![b].read = IF qs[b].active THEN qs[b].status ELSE @]
    /\ UNCHANGED <<coordinator, inst, late, faults>>

StartReport(b) ==
    /\ qs[b].at \in {"executing", "final"}
    /\ qs[b].read = "none"
    /\ \/ /\ Ended(b)
          /\ qs' = [qs EXCEPT ![b].at = IF qs[b].active THEN "final" ELSE "gone",
                              ![b].read = IF qs[b].active THEN qs[b].status ELSE @]
       \/ /\ ~Ended(b)
          /\ \/ \A i \in InstancesOf(b) : inst[i].seq < MaxSeq[kind]
             \/ /\ ~qs[b].cancelled /\ (exec.state # "EXECUTING" \/ bs[b].status # "ok")
                /\ \A i \in InstancesOf(b) : inst[i].seq < MaxSeq[kind] + MaxFaults + 2
          /\ qs' = [qs EXCEPT ![b].read = qs[b].status]
    /\ UNCHANGED <<coordinator, inst, late, faults>>

\* Mutant: an instance that failed is reported as done whatever status was read
AnyEnd(b, i) == inst[i].at \in {"done", "failing", "cancelling", "told", "failed"}

\* GetStatusReport(): is the instance reported as done?
ReportedDone(b, i) ==
    \/ inst[i].at = "done"
    \/ inst[i].at \in {"failing", "cancelling", "told", "failed"} /\ qs[b].read # "ok"

\* Mutant: a repeated final report gets a new number
NumberAlways(i) == inst[i].seq + 1

NextSeq(i) == IF inst[i].final = "no" THEN inst[i].seq + 1 ELSE inst[i].seq

ReportOf(b) ==
    LET told == {i \in InstancesOf(b) : inst[i].final # "sent"}
    IN  [from |-> b, status |-> qs[b].read, seq |-> [i \in told |-> NextSeq(i)],
         done |-> {i \in told : ReportedDone(b, i)},
         ranges |-> Cardinality({i \in InstancesOf(b) : inst[i].at # "running"})]

\* ApplyExecStatusReport(): the BackendState after it, and the instances whose
\* final report it counts.  A report to a backend that is done changes nothing.
Fresh(r) == {i \in DOMAIN r.seq : r.seq[i] > bs[r.from].seq[i]}
Counted(r) == IF IsDone(r.from) THEN {} ELSE r.done \cap Fresh(r)
Applied(r) ==
    IF IsDone(r.from) THEN bs[r.from]
    ELSE [bs[r.from] EXCEPT
            !.left = @ \ Counted(r),
            !.seq = [i \in DOMAIN @ |-> IF i \in Fresh(r) THEN r.seq[i] ELSE @[i]],
            !.ranges = r.ranges,
            !.status = r.status]

\* The coordinator's answer: go on, or cancel.
AnswerOk(status) == exec.state = "EXECUTING" /\ status = "ok"

\* What the backend makes of the answer (or of none: "failed").  When it
\* cannot reach the coordinator for too long it gives up.
AfterAnswer(q, ok) == [q EXCEPT !.cancelled = @ \/ ~ok, !.waits = FALSE, !.read = "none",
                                !.at = IF @ = "final" THEN "gone" ELSE @]
AfterFailure(q, giveUp) ==
    [q EXCEPT !.read = "none", !.cancelled = @ \/ giveUp, !.active = @ /\ ~giveUp,
              !.at = IF giveUp /\ @ = "final" THEN "gone" ELSE @]

Numbered(r, sent) ==
    [i \in Instances |->
       IF i \in DOMAIN r.seq
       THEN [inst[i] EXCEPT !.seq = r.seq[i],
                            !.final = IF i \notin r.done THEN @
                                      ELSE IF sent THEN "sent" ELSE "generated"]
       ELSE inst[i]]

\* The handler of a report that completes the backend goes on for a while.
Completes(r) == ~IsDone(r.from) /\ Done(Applied(r))
Handle(r, waits) ==
    /\ bs' = [bs EXCEPT ![r.from] = Applied(r)]
    /\ dml' = [i \in Instances |-> dml[i] + IF i \in Counted(r) THEN 1 ELSE 0]
    /\ handler' = IF Completes(r)
                  THEN [handler EXCEPT ![r.from] =
                          [at |-> IF Applied(r).status = "ok" THEN "notify" ELSE "error",
                           free |-> {}, waits |-> waits]]
                  ELSE handler

\* ReportExecStatus(): the report is answered, lost, handled although the
\* answer is lost, or handled much later.
ReportExecStatus(b) ==
    /\ qs[b].read # "none" /\ ~qs[b].waits
    /\ \E r \in {ReportOf(b)} :
       \/ /\ Handle(r, TRUE)
          /\ qs' = [qs EXCEPT ![b] = IF Completes(r) THEN [@ EXCEPT !.waits = TRUE]
                                     ELSE AfterAnswer(@, AnswerOk(Applied(r).status))]
          /\ inst' = Numbered(r, TRUE)
          /\ UNCHANGED <<late, faults>>
       \/ \E giveUp \in BOOLEAN :
             /\ Fault("report", b)
             /\ \/ Handle(r, FALSE) /\ UNCHANGED late
                \/ late' = late \cup {r} /\ UNCHANGED <<bs, dml, handler>>
                \/ UNCHANGED <<late, bs, dml, handler>>
             /\ inst' = Numbered(r, FALSE)
             /\ qs' = [qs EXCEPT ![b] = AfterFailure(@, giveUp)]
    /\ UNCHANGED <<kind, main, rpcs, complete, exec, ending_vars, finalized>>

HandleLate(r) ==
    /\ r \in late
    /\ late' = late \ {r}
    /\ Handle(r, FALSE)
    /\ UNCHANGED <<kind, main, rpcs, complete, exec, ending_vars, finalized, executor, faults>>

Crash(b) ==
    /\ b # Coord
    /\ qs[b].at \in {"executing", "final"}
    /\ Fault("crash", b)
    /\ qs' = [qs EXCEPT ![b] = [@ EXCEPT !.at = "gone", !.read = "none", !.waits = FALSE]]
    /\ inst' = [i \in Instances |-> IF i \in InstancesOf(b) /\ inst[i].at # "done"
                                    THEN [inst[i] EXCEPT !.at = "failed"] ELSE inst[i]]
    /\ UNCHANGED <<coordinator, late>>

-----------------------------------------------------------------------------
(* The rest of UpdateBackendExecStatus() for the final report of a backend *)

Goto(b, at) == handler' = [handler EXCEPT ![b].at = at]

\* An error ends the query, but not while Exec() RPCs are under way: then
\* the main thread is told to stop, and this one waits.
TellError(b) ==
    /\ handler[b].at = "error"
    /\ Goto(b, "update")
    /\ IF ~ExecRpcsComplete /\ bs[b].status # "cancelled"
       THEN NotifyRemaining(bs[b].status) ELSE UNCHANGED rpcs
    /\ UNCHANGED <<kind, main, complete, bs, exec, ending_vars, dml, finalized, executor,
                   late, faults>>

\* Mutant: an error ends the query while Exec() RPCs are under way
UpdateAtOnce(b) ==
    /\ handler[b].at = "update"
    /\ UpdateExecState(b, bs[b].status)
    /\ Goto(b, "notify")
    /\ UNCHANGED <<kind, main, rpcs, complete, bs, res, freed, dml, finalized, executor, late,
                   faults>>

UpdateStatus(b) ==
    /\ handler[b].at = "update"
    /\ ExecRpcsComplete
    /\ UpdateExecState(b, bs[b].status)
    /\ Goto(b, "notify")
    /\ UNCHANGED <<kind, main, rpcs, complete, bs, res, freed, dml, finalized, executor, late,
                   faults>>

NotifyComplete(b) ==
    /\ handler[b].at = "notify"
    /\ ending.by = b => ending.at = "final"
    /\ complete' = complete - 1
    /\ Goto(b, "mark")
    /\ UNCHANGED <<kind, main, rpcs, bs, exec, ending_vars, dml, finalized, executor, late,
                   faults>>

Respond(b) ==
    qs' = IF handler[b].waits /\ qs[b].waits
          THEN [qs EXCEPT ![b] = AfterAnswer(@, AnswerOk(bs[b].status))] ELSE qs

\* MarkBackendFinished(): the pending backends are released when only one is
\* in use, or when some time has passed (and enough of them are pending).
MarkBackendFinished(b) ==
    LET state == [res.state EXCEPT ![b] = "PENDING"]
        inUse == {c \in Backends : state[c] = "IN_USE"}
        pending == {c \in Backends : state[c] = "PENDING"}
        last == res.state[Coord] # "RELEASED" /\ Cardinality(inUse) = 1
    IN  /\ handler[b].at = "mark"
        /\ \/ /\ res.closed \/ res.state[b] # "IN_USE"
              /\ Goto(b, "idle") /\ Respond(b)
              /\ UNCHANGED res
           \/ /\ ~res.closed /\ res.state[b] = "IN_USE"
              /\ ~last
              /\ Goto(b, "idle") /\ Respond(b)
              /\ res' = [res EXCEPT !.state = state]
           \/ /\ ~res.closed /\ res.state[b] = "IN_USE"
              /\ handler' = [handler EXCEPT ![b].at = "release", ![b].free = pending]
              /\ res' = [res EXCEPT !.state = [c \in Backends |->
                           IF c \in pending THEN "RELEASABLE" ELSE state[c]]]
              /\ UNCHANGED qs
        /\ UNCHANGED <<kind, main, rpcs, complete, bs, exec, ending, freed, dml, finalized,
                       inst, late, faults>>

ReleaseFinished(b) ==
    /\ handler[b].at = "release"
    /\ ReleaseBackends(handler[b].free)
    /\ handler' = [handler EXCEPT ![b].at = "idle", ![b].free = {}]
    /\ Respond(b)
    /\ UNCHANGED <<kind, main, rpcs, complete, bs, exec, ending, dml, finalized, inst, late,
                   faults>>

-----------------------------------------------------------------------------
Next ==
    \/ EndQuery \/ CloseAndGetUnreleasedBackends \/ ReleaseUnreleased
    \/ ReleaseQueryAdmissionControlResources
    \/ WaitOnBarrier \/ AbortStartup \/ FinishBackendStartup
    \/ GetNext \/ FinalizeHdfsDml \/ FinishDml \/ Cancel \/ CancelUnresponsive
    \/ \E b \in Backends :
          \/ ExecAsync(b) \/ StartFInstances(b) \/ ExecCompleteCb(b)
          \/ StartReport(b) \/ ReportExecStatus(b) \/ Crash(b)
          \/ TellError(b) \/ UpdateStatus(b) \/ NotifyComplete(b)
          \/ MarkBackendFinished(b) \/ ReleaseFinished(b)
          \/ \E i \in Instances : EndInstance(b, i) \/ Stall(b, i)
    \/ \E r \in late : HandleLate(r)

Spec == Init /\ [][Next]_vars

\* The threads run and the RPC layer completes its calls, so every step but the
\* client's and the faults is fair.  A stalled instance, a crash and a lost call
\* are faults; reports are periodic (status_report_interval_ms > 0).
FairSpec ==
    /\ Spec
    /\ WF_vars(EndQuery) /\ WF_vars(CloseAndGetUnreleasedBackends)
    /\ WF_vars(ReleaseUnreleased) /\ WF_vars(ReleaseQueryAdmissionControlResources)
    /\ WF_vars(WaitOnBarrier) /\ WF_vars(AbortStartup) /\ WF_vars(FinishBackendStartup)
    /\ WF_vars(CancelUnresponsive)
    /\ \A b \in Backends :
          /\ WF_vars(ExecAsync(b)) /\ WF_vars(~bs[b].done /\ StartFInstances(b))
          /\ WF_vars(ExecCompleteCb(b))
          /\ WF_vars(StartReport(b)) /\ WF_vars(ReportExecStatus(b))
          /\ WF_vars(TellError(b)) /\ WF_vars(UpdateStatus(b)) /\ WF_vars(NotifyComplete(b))
          /\ WF_vars(MarkBackendFinished(b)) /\ WF_vars(ReleaseFinished(b))
          /\ \A i \in Instances : WF_vars(EndInstance(b, i))

-----------------------------------------------------------------------------
Statuses == {"ok", "cancelled", "error"}
Threads == Backends \cup {"none", "main", "client"}

ControlType ==
    /\ kind \in Kinds
    /\ main \in {"exec", "abort", "aborted", "finish", "running", "finalized", "done"}
    /\ rpcs \in [pending : Int, status : Statuses \cup {"unset"}]
    /\ rpcs.pending <= 0 <=> rpcs.status # "unset"
    /\ complete \in Int
    /\ exec \in [state : {"EXECUTING", "RETURNED_RESULTS", "CANCELLED", "ERROR"},
                 status : Statuses]
    /\ exec.state \in {"EXECUTING", "RETURNED_RESULTS"} <=> exec.status = "ok"
    /\ ending \in [by : Threads, at : {"none", "enter", "close", "release", "wait", "final"},
                   free : SUBSET Backends]
    /\ exec.state = "EXECUTING" <=> ending.by = "none"
    /\ finalized \in BOOLEAN
    /\ faults \in Nat

BackendStates ==
    [sent : BOOLEAN, done : BOOLEAN, status : Statuses, left : SUBSET Instances,
     seq : [Instances -> Nat], ranges : Nat]
BackendStatesType ==
    /\ bs \in [Backends -> BackendStates]
    /\ \A b \in Backends : bs[b].left \subseteq InstancesOf(b)

Handlers ==
    [at : {"idle", "error", "update", "notify", "mark", "release"},
     free : SUBSET Backends, waits : BOOLEAN]
HandlersType ==
    /\ handler \in [Backends -> Handlers]
    /\ \A b \in Backends : handler[b].free # {} => handler[b].at = "release"

ResourcesType ==
    /\ res \in [state : [Backends -> {"IN_USE", "PENDING", "RELEASABLE", "RELEASED"}],
                closed : BOOLEAN, barrier : Int]
    /\ freed \in [Backends \cup {"all"} -> Nat]

IsReport(r) ==
    /\ r.from \in Backends /\ r.status \in Statuses /\ r.ranges \in Nat
    /\ DOMAIN r.seq \subseteq InstancesOf(r.from)
    /\ \A i \in DOMAIN r.seq : r.seq[i] \in Nat
    /\ r.done \subseteq DOMAIN r.seq

QueryStates ==
    [at : {"none", "executing", "final", "gone"}, status : Statuses, cancelled : BOOLEAN,
     active : BOOLEAN, read : Statuses \cup {"none"}, waits : BOOLEAN]
InstanceStates ==
    [at : {"none", "running", "stalled", "failing", "cancelling", "told", "failed", "done"},
     seq : Nat, final : {"no", "generated", "sent"}]
WaitsType ==
    \A b \in Backends :
       qs[b].waits => qs[b].read # "none" /\ handler[b].at # "idle" /\ handler[b].waits
ExecutorsType ==
    /\ qs \in [Backends -> QueryStates]
    /\ WaitsType
    /\ inst \in [Instances -> InstanceStates]
    /\ dml \in [Instances -> Nat]
    /\ \A r \in late : IsReport(r)

TypeOK == ControlType /\ BackendStatesType /\ HandlersType /\ ResourcesType /\ ExecutorsType

\* The admission controller is told once about each backend and once about the
\* query, after all its backends: a report handler that releases finished
\* backends (MarkBackendFinished()) and the thread that ends the query
\* (CloseAndGetUnreleasedBackends()) never release the same one.
ReleasedOnce ==
    /\ TypeOK
    /\ \A k \in DOMAIN freed : freed[k] <= 1
    /\ freed["all"] = 1 => \A b \in Backends : freed[b] = 1

\* No backend is released while the coordinator still takes reports from it,
\* and none while Exec() RPCs are under way (the DCHECK of
\* HandleExecStateTransition()).
ReleasedIsDone ==
    /\ \A b \in Backends : freed[b] > 0 => IsDone(b)
    /\ ending.at # "none" => ExecRpcsComplete

\* The files of an insert are moved only when every instance has reported what
\* it wrote, and each was counted once, although reports are repeated when
\* they fail and the barrier of WaitForBackends() is also released by an error
\* or a cancellation.
DmlComplete ==
    /\ \A i \in Instances : dml[i] <= 1
    /\ finalized => \A b \in Backends : \A i \in InstancesOf(b) : dml[i] = 1

\* A backend that counts as done without an error ran all its instances to
\* their end: a report that read overall_status_ before an instance failed does
\* not report it as done.
TruthfulReports ==
    \A b \in Backends :
       bs[b].status = "ok" /\ bs[b].left = {}
          => \A i \in InstancesOf(b) : inst[i].at = "done"

\* Exec() returns, although a report of an error makes its handler wait for the
\* Exec() RPCs while the thread that makes them waits for their barrier.
StartupEnds == <>(main \in {"running", "finalized", "done"})

\* Once the query leaves EXECUTING, whoever made it do so, its resources are
\* released, all handlers of reports come to their end, and its instances stop
\* on every backend: although Cancel() RPCs are not repeated, a backend may
\* crash, and an Exec() RPC that failed may have started instances.
QueryEnds ==
    exec.state # "EXECUTING"
       ~> [](/\ ending.at = "final"
             /\ \A b \in Backends : handler[b].at = "idle"
             /\ \A i \in Instances : inst[i].at \in {"none", "failed", "done"})

\* Not so: that the progress of a backend never goes back.
\* ApplyExecStatusReport() ignores stale parts of a late report but not its
\* number of scan ranges.
RangesGrow == [][\A b \in Backends : bs'[b].ranges >= bs[b].ranges]_vars

=============================================================================

------------------------ MODULE QueryExecutionProofs ------------------------
(***************************************************************************)
(* Proofs about QueryExecution, for any backends, instances and layouts,   *)
(* any number of reports and of faults.                                    *)
(***************************************************************************)
EXTENDS QueryExecution, FiniteSetTheorems, TLAPS

\* Exec() RPCs under way: their barrier counts them until an error releases it,
\* and nothing ends the query meanwhile.
Pending == {b \in Backends : ~bs[b].done}
StartInv ==
    /\ rpcs.status = "unset" => rpcs.pending = Cardinality(Pending)
    /\ rpcs.status = "ok" => ExecRpcsComplete
    /\ main \in {"finish", "running", "finalized"} => rpcs.status = "ok"
    /\ main \in {"abort", "aborted"} => rpcs.status \notin {"ok", "unset"}
    /\ main \in {"running", "finalized", "done"} => ExecRpcsComplete
    /\ exec.state = "EXECUTING" <=> ending.at = "none"
    /\ ending.at # "none" => ExecRpcsComplete

\* A backend is done before its handler goes on, before it is marked as
\* finished, and before the query closes its resources.
DoneInv ==
    /\ \A b \in Backends : handler[b].at # "idle" => IsDone(b) /\ InstancesOf(b) # {}
    /\ \A b \in Backends : handler[b].at \in {"error", "update"} => bs[b].status # "ok"
    /\ \A b \in Backends : res.state[b] # "IN_USE" => IsDone(b)
    /\ ending.at \in {"close", "release", "wait", "final"} => \A b \in Backends : IsDone(b)

\* Who is going to release a backend: nobody yet, one handler, the thread
\* that ends the query, or it is done already.
Unreleased == {b \in Backends : res.state[b] # "RELEASED"}
ReleaseInv ==
    /\ \A b \in Backends : freed[b] = IF res.state[b] = "RELEASED" THEN 1 ELSE 0
    /\ freed["all"] = IF ending.at = "final" THEN 1 ELSE 0
    /\ res.closed <=> ending.at \in {"release", "wait", "final"}
    /\ ending.at # "release" => ending.free = {}
    /\ \A b \in ending.free : res.state[b] \in {"IN_USE", "PENDING"}
    /\ \A b \in Backends : \A c \in handler[b].free : res.state[c] = "RELEASABLE"
    /\ \A b, c \in Backends : b # c => handler[b].free \cap handler[c].free = {}
    /\ res.barrier = Cardinality(Unreleased)
    /\ ending.at = "final" => \A b \in Backends : res.state[b] = "RELEASED"

\* backend_exec_complete_barrier_: what it counts, as long as no Exec() RPC
\* failed and the backends are not cancelled.
Notified(b) ==
    IF InstancesOf(b) = {} THEN main \notin {"exec", "finish"}
    ELSE IsDone(b) /\ handler[b].at \notin {"error", "update", "notify"}
Unnotified == {b \in Backends : ~Notified(b)}

Going == exec.state = "EXECUTING" /\ rpcs.status \in {"unset", "ok"}

FailedInv ==
    \A i \in InstancesOf(Coord) : inst[i].at \in {"told", "failed"} => qs[Coord].status # "ok"

CountInv ==
    /\ FailedInv
    /\ exec.state = "RETURNED_RESULTS" => main = "done" /\ rpcs.status = "ok"
    /\ main = "done" => exec.state # "EXECUTING"
    /\ Going => \A b \in Backends : bs[b].status # "ok" => handler[b].at \in {"error", "update"}
    /\ Going => complete = Cardinality(Unnotified)
    /\ exec.state = "RETURNED_RESULTS" =>
          (\A b \in Backends : IsDone(b)) \/ complete = Cardinality(Unnotified)

\* Reports and their numbers.
SeqInv ==
    /\ \A b \in Backends : \A i \in InstancesOf(b) :
          /\ bs[b].seq[i] <= inst[i].seq
          /\ dml[i] = IF i \in bs[b].left THEN 0 ELSE 1
          /\ i \notin bs[b].left => inst[i].final # "no" /\ bs[b].seq[i] = inst[i].seq
    /\ \A i \in Instances : dml[i] <= 1
    /\ \A r \in late :
          /\ \A i \in DOMAIN r.seq : r.seq[i] <= inst[i].seq
          /\ \A i \in r.done : inst[i].final # "no" /\ r.seq[i] = inst[i].seq

FinalInv ==
    /\ finalized => \A b \in Backends : bs[b].left = {}
    /\ main = "finalized" => finalized

NeverStarted ==
    \A b \in Backends : qs[b].at = "none" => \A i \in InstancesOf(b) : inst[i].at = "none"

\* An instance that is reported as done without an error is done.
TruthInv ==
    /\ \A b \in Backends : bs[b].status = "ok" =>
          \A i \in InstancesOf(b) \ bs[b].left : inst[i].at = "done"
    /\ \A r \in late : r.status = "ok" => \A i \in r.done : inst[i].at = "done"
    /\ NeverStarted

IInv ==
    TypeOK /\ StartInv /\ DoneInv /\ ReleaseInv /\ CountInv /\ SeqInv /\ FinalInv /\ TruthInv
-----------------------------------------------------------------------------
(* Helpers.                                                                *)

LEMMA CardinalityFacts ==
    ASSUME NEW S \in SUBSET Backends
    PROVE  /\ IsFiniteSet(S) /\ Cardinality(S) \in Nat
           /\ Cardinality(S) = 0 <=> S = {}
           /\ \A b \in S : Cardinality(S \ {b}) = Cardinality(S) - 1
<1>1. IsFiniteSet(S)
  BY FS_Subset, ConstantsAssumption DEF ConstantsAssumption
<1>2. Cardinality(S) \in Nat /\ (Cardinality(S) = 0 <=> S = {})
  BY <1>1, FS_CardinalityType, FS_EmptySet
<1>3. \A b \in S : Cardinality(S \ {b}) = Cardinality(S) - 1
  BY <1>1, FS_RemoveElement
<1> QED
  BY <1>1, <1>2, <1>3

LEMMA InstancesFacts ==
    ASSUME TypeOK
    PROVE  /\ \A b \in Backends : InstancesOf(b) \subseteq Instances
           /\ \A b, c \in Backends : b # c => InstancesOf(b) \cap InstancesOf(c) = {}
BY ConstantsAssumption DEF ConstantsAssumption, TypeOK, ControlType, InstancesOf

LEMMA BackendsFacts ==
    /\ Coord \in Backends
    /\ "all" \notin Backends /\ "none" \notin Backends /\ "main" \notin Backends
    /\ "client" \notin Backends
BY ConstantsAssumption DEF ConstantsAssumption

-----------------------------------------------------------------------------
(* The types.                                                              *)

ExecType ==
    /\ exec \in [state : {"EXECUTING", "RETURNED_RESULTS", "CANCELLED", "ERROR"},
                 status : Statuses]
    /\ exec.state \in {"EXECUTING", "RETURNED_RESULTS"} <=> exec.status = "ok"
    /\ ending \in [by : Threads, at : {"none", "enter", "close", "release", "wait", "final"},
                   free : SUBSET Backends]
    /\ exec.state = "EXECUTING" <=> ending.by = "none"

LEMMA InitType == Init => TypeOK
<1> SUFFICES ASSUME Init PROVE TypeOK
  OBVIOUS
<1>1. Cardinality(Backends) \in Nat /\ Cardinality(Backends) # 0
  BY CardinalityFacts, BackendsFacts
<1>2. kind \in Kinds /\ \A b \in Backends : InstancesOf(b) \subseteq Instances
  BY ConstantsAssumption DEF ConstantsAssumption, Init, InstancesOf
<1>3. ControlType
  <2>1. rpcs = [pending |-> Cardinality(Backends), status |-> "unset"] /\ complete = Cardinality(Backends)
    BY DEF Init
  <2>2. /\ exec = [state |-> "EXECUTING", status |-> "ok"]
        /\ ending = [by |-> "none", at |-> "none", free |-> {}]
    BY DEF Init
  <2>3. kind \in Kinds /\ main = "exec" /\ finalized = FALSE /\ faults = 0
    BY DEF Init
  <2>4. rpcs \in [pending : Int, status : Statuses \cup {"unset"}] /\ complete \in Int
    BY <1>1, <2>1
  <2>5. rpcs.pending <= 0 <=> rpcs.status # "unset"
    BY <1>1, <2>1
  <2>6. ExecType
    BY <2>2 DEF ExecType, Statuses, Threads
  <2>7. finalized \in BOOLEAN /\ faults \in Nat
    BY <2>3
  <2> QED
    BY <2>3, <2>4, <2>5, <2>6, <2>7 DEF ControlType, ExecType
<1>4. BackendStatesType
  BY <1>2 DEF Init, BackendStatesType, BackendStates, Statuses
<1>5. HandlersType
  BY DEF Init, HandlersType, Handlers
<1>6. ResourcesType
  BY <1>1 DEF Init, ResourcesType
<1>7. ExecutorsType
  BY <1>2 DEF Init, ExecutorsType, WaitsType, QueryStates, InstanceStates, Statuses
<1> QED
  BY <1>3, <1>4, <1>5, <1>6, <1>7 DEF TypeOK

LEMMA CancelBackendsControl ==
    ASSUME ControlType, CancelBackends
    PROVE  complete' \in Int /\ faults' \in Nat
<1>1. complete' \in Int
  <2>1. complete' = IF complete > 0 THEN 0 ELSE complete
    BY Zenon DEF CancelBackends
  <2> QED
    BY <2>1 DEF ControlType
<1>2. faults' \in Nat
  <2>1. PICK lost \in SUBSET CancelTargets :
           IF lost = {} THEN UNCHANGED faults ELSE \E b \in lost : lost = {b} /\ Fault("cancel", b)
    BY DEF CancelBackends
  <2> QED
    BY <2>1 DEF ControlType, Fault
<1> QED
  BY <1>1, <1>2

LEMMA EnterStateType ==
    ASSUME ExecType, NEW t \in Threads \ {"none"},
           NEW state \in {"RETURNED_RESULTS", "CANCELLED", "ERROR"}, NEW status \in Statuses,
           state = "RETURNED_RESULTS" <=> status = "ok",
           EnterState(t, state, status)
    PROVE  ExecType'
BY DEF ExecType, EnterState, Threads

LEMMA UpdateExecStateType ==
    ASSUME ExecType, NEW t \in Threads \ {"none"}, NEW status \in Statuses,
           UpdateExecState(t, status)
    PROVE  ExecType'
<1>1. CASE status # "ok" /\ EnterState(t, "ERROR", status)
  BY <1>1, EnterStateType
<1>2. CASE ~(status # "ok" /\ EnterState(t, "ERROR", status))
  BY <1>2 DEF ExecType, UpdateExecState, Statuses
<1> QED
  BY <1>1, <1>2

LEMMA SetNonErrorTerminalStateType ==
    ASSUME ExecType, NEW t \in Threads \ {"none"},
           NEW state \in {"RETURNED_RESULTS", "CANCELLED"},
           SetNonErrorTerminalState(t, state)
    PROVE  ExecType'
<1>1. CASE EnterState(t, state, IF state = "CANCELLED" THEN "cancelled" ELSE "ok")
  BY <1>1, EnterStateType DEF Statuses
<1>2. CASE ~EnterState(t, state, IF state = "CANCELLED" THEN "cancelled" ELSE "ok")
  BY <1>2 DEF ExecType, SetNonErrorTerminalState
<1> QED
  BY <1>1, <1>2

LEMMA ControlTypeStep == ASSUME TypeOK, StartInv, [Next]_vars PROVE ControlType'
<1>a. ExecType /\ ControlType
  BY DEF TypeOK, ControlType, ExecType
<1>1. CASE EndQuery
  <2>1. complete' \in Int /\ faults' \in Nat
    BY <1>1, <1>a, CancelBackendsControl DEF EndQuery, ControlType
  <2> QED
    BY <1>1, <1>a, <2>1 DEF EndQuery, ControlType
<1>2. CASE CloseAndGetUnreleasedBackends \/ ReleaseUnreleased \/ ReleaseQueryAdmissionControlResources
  <2>1. UNCHANGED <<kind, main, rpcs, complete, exec, finalized, faults>>
    BY <1>2 DEF CloseAndGetUnreleasedBackends, ReleaseUnreleased,
                ReleaseQueryAdmissionControlResources
  <2>2. \E at \in {"release", "wait", "final"}, free \in SUBSET Backends :
           ending' = [ending EXCEPT !.at = at, !.free = free]
    <3>1. CASE CloseAndGetUnreleasedBackends
      BY <3>1 DEF CloseAndGetUnreleasedBackends
    <3>2. CASE ReleaseUnreleased
      BY <3>2 DEF ReleaseUnreleased
    <3>3. CASE ReleaseQueryAdmissionControlResources
      BY <3>3, <1>a DEF ReleaseQueryAdmissionControlResources, ControlType
    <3> QED
      BY <1>2, <3>1, <3>2, <3>3
  <2> QED
    BY <1>a, <2>1, <2>2 DEF ControlType
<1>3. CASE WaitOnBarrier \/ FinalizeHdfsDml
  BY <1>3, <1>a DEF WaitOnBarrier, FinalizeHdfsDml, ending_vars, ControlType
<1>4. CASE AbortStartup
  <2>1. complete' \in Int /\ faults' \in Nat
    BY <1>4, <1>a, CancelBackendsControl DEF AbortStartup, ControlType
  <2> QED
    BY <1>4, <1>a, <2>1 DEF AbortStartup, ending_vars, ControlType
<1>5. CASE FinishBackendStartup
  <2>1. complete' \in Int
    <3>1. Cardinality({b \in Backends : InstancesOf(b) = {}}) \in Nat
      BY CardinalityFacts
    <3> QED
      BY <1>5, <1>a, <3>1 DEF FinishBackendStartup, ControlType
  <2>2. \E s \in Statuses : UpdateExecState("main", s)
    BY <1>5, <1>a DEF FinishBackendStartup, ControlType, Statuses, StartInv
  <2>3. ExecType'
    BY <2>2, <1>a, UpdateExecStateType DEF Threads
  <2>4. /\ main' \in {"running", "done"} /\ kind' = kind /\ rpcs' = rpcs
        /\ finalized' = finalized /\ faults' = faults
    BY <1>5 DEF FinishBackendStartup
  <2> QED
    BY <1>a, <2>1, <2>3, <2>4 DEF ControlType, ExecType
<1>6. CASE GetNext \/ FinishDml
  <2>1. ExecType'
    <3>1. qs[Coord].status \in Statuses
      BY BackendsFacts DEF TypeOK, ExecutorsType, QueryStates
    <3>2. UpdateExecState("main", qs[Coord].status) \/ SetNonErrorTerminalState("main", "RETURNED_RESULTS")
      BY <1>6 DEF GetNext, FinishDml
    <3> QED
      BY <3>1, <3>2, <1>a, UpdateExecStateType, SetNonErrorTerminalStateType DEF Threads
  <2>2. main' = "done" /\ UNCHANGED <<kind, rpcs, complete, finalized, faults>>
    BY <1>6 DEF GetNext, FinishDml
  <2> QED
    BY <1>a, <2>1, <2>2 DEF ControlType, ExecType
<1>7. CASE Cancel \/ CancelUnresponsive
  <2>0. Cancel
    BY <1>7 DEF CancelUnresponsive
  <2>1. ExecType'
    BY <2>0, <1>a, EnterStateType DEF Cancel, Threads, Statuses, ExecType
  <2>2. complete' \in Int /\ faults' \in Nat
    BY <2>0, <1>a, CancelBackendsControl DEF Cancel, ControlType
  <2>3. UNCHANGED <<kind, main, rpcs, finalized>>
    BY <2>0 DEF Cancel
  <2> QED
    BY <1>a, <2>1, <2>2, <2>3 DEF ControlType, ExecType
<1>8. CASE \E b \in Backends : ExecAsync(b) \/ StartFInstances(b) \/ ExecCompleteCb(b)
  BY <1>8, <1>a DEF ExecAsync, StartFInstances, ExecCompleteCb, Notify, NotifyRemaining, Fault,
                    ending_vars, coordinator, ControlType, Statuses
<1>9. CASE \E b \in Backends : StartReport(b) \/ Crash(b)
                              \/ \E i \in Instances : EndInstance(b, i) \/ Stall(b, i)
  BY <1>9, <1>a DEF StartReport, Crash, EndInstance, Stall, Fault, ending_vars, coordinator,
                    ControlType
<1>10. CASE \E b \in Backends : ReportExecStatus(b)
  <2>1. UNCHANGED <<kind, main, rpcs, complete, exec, ending, finalized>>
    BY <1>10 DEF ReportExecStatus, ending_vars
  <2>2. faults' = faults \/ faults' = faults + 1
    BY <1>10 DEF ReportExecStatus, Fault
  <2> QED
    BY <1>a, <2>1, <2>2 DEF ControlType
<1>11. CASE \E r \in late : HandleLate(r)
  BY <1>11, <1>a DEF HandleLate, ending_vars, ControlType
<1>12. CASE \E b \in Backends : TellError(b) \/ NotifyComplete(b)
  BY <1>12, <1>a DEF TellError, NotifyComplete, NotifyRemaining, TypeOK, BackendStatesType, BackendStates,
                     ending_vars, ControlType, Statuses
<1>13. CASE \E b \in Backends : UpdateStatus(b)
  <2>1. PICK b \in Backends : UpdateStatus(b)
    BY <1>13
  <2>2. ExecType'
    BY <2>1, <1>a, UpdateExecStateType, BackendsFacts
       DEF UpdateStatus, Threads, TypeOK, BackendStatesType, BackendStates
  <2>3. UNCHANGED <<kind, main, rpcs, complete, finalized, faults>>
    BY <2>1 DEF UpdateStatus
  <2> QED
    BY <1>a, <2>2, <2>3 DEF ControlType, ExecType
<1>14. CASE \E b \in Backends : MarkBackendFinished(b) \/ ReleaseFinished(b)
  BY <1>14, <1>a DEF MarkBackendFinished, ReleaseFinished, ControlType
<1>15. CASE UNCHANGED vars
  BY <1>15, <1>a DEF vars, coordinator, ending_vars, ControlType
<1> QED
  BY <1>1, <1>2, <1>3, <1>4, <1>5, <1>6, <1>7, <1>8, <1>9, <1>10, <1>11, <1>12, <1>13, <1>14,
     <1>15 DEF Next

LEMMA ReportType ==
    ASSUME TypeOK, NEW b \in Backends, qs[b].read # "none"
    PROVE  IsReport(ReportOf(b))
<1> DEFINE r == ReportOf(b)
<1>1. r.from = b /\ r.status = qs[b].read /\ r.status \in Statuses
  BY DEF ReportOf, TypeOK, ExecutorsType, QueryStates
<1>2. r.ranges \in Nat
  <2>1. {i \in InstancesOf(b) : inst[i].at # "running"} \subseteq Instances
    BY InstancesFacts
  <2>2. IsFiniteSet({i \in InstancesOf(b) : inst[i].at # "running"})
    BY <2>1, FS_Subset, ConstantsAssumption DEF ConstantsAssumption
  <2> QED
    BY <2>2, FS_CardinalityType DEF ReportOf
<1>3. /\ DOMAIN r.seq = {i \in InstancesOf(b) : inst[i].final # "sent"}
      /\ \A i \in DOMAIN r.seq : r.seq[i] = NextSeq(i)
      /\ r.done = {i \in DOMAIN r.seq : ReportedDone(b, i)}
  BY DEF ReportOf
<1>4. \A i \in DOMAIN r.seq : r.seq[i] \in Nat
  BY <1>3, InstancesFacts DEF NextSeq, TypeOK, ExecutorsType, InstanceStates
<1> QED
  BY <1>1, <1>2, <1>3, <1>4 DEF IsReport

LEMMA HandleType ==
    ASSUME TypeOK, NEW r, IsReport(r), NEW waits \in BOOLEAN, Handle(r, waits),
           UNCHANGED kind
    PROVE  /\ BackendStatesType' /\ HandlersType' /\ dml' \in [Instances -> Nat]
           /\ \A b \in Backends : handler[b].at # "idle" => handler'[b].at # "idle"
           /\ Completes(r) => handler'[r.from].at # "idle"
<1>1. Counted(r) \subseteq InstancesOf(r.from) /\ Fresh(r) \subseteq Instances
  BY InstancesFacts DEF Counted, Fresh, IsReport
<1>2. Applied(r) \in BackendStates
  <2>1. [i \in DOMAIN bs[r.from].seq |-> IF i \in Fresh(r) THEN r.seq[i] ELSE bs[r.from].seq[i]]
           \in [Instances -> Nat]
    BY DEF TypeOK, BackendStatesType, BackendStates, IsReport, Fresh
  <2>2. bs[r.from].left \ Counted(r) \subseteq Instances
    BY DEF TypeOK, BackendStatesType, BackendStates, IsReport
  <2>3. CASE IsDone(r.from)
    BY <2>3 DEF Applied, TypeOK, BackendStatesType, BackendStates, IsReport
  <2>4. CASE ~IsDone(r.from)
    <3> DEFINE seq == [i \in DOMAIN bs[r.from].seq |->
                         IF i \in Fresh(r) THEN r.seq[i] ELSE bs[r.from].seq[i]]
               left == bs[r.from].left \ Counted(r)
    <3>1. Applied(r) = [bs[r.from] EXCEPT !.left = left, !.seq = seq, !.ranges = r.ranges,
                                          !.status = r.status]
      BY <2>4 DEF Applied
    <3>2. left \in SUBSET Instances /\ seq \in [Instances -> Nat]
      BY <2>1, <2>2
    <3>3. bs[r.from] \in BackendStates
      BY DEF TypeOK, BackendStatesType, IsReport
    <3>4. r.status \in Statuses /\ r.ranges \in Nat
      BY DEF IsReport
    <3> HIDE DEF left, seq
    <3> QED
      BY <3>1, <3>2, <3>3, <3>4 DEF BackendStates
  <2> QED
    BY <2>3, <2>4
<1>3. Applied(r).left \subseteq InstancesOf(r.from)
  BY <1>1 DEF Applied, TypeOK, BackendStatesType, BackendStates, IsReport
<1>4. BackendStatesType'
  BY <1>2, <1>3 DEF Handle, TypeOK, BackendStatesType, IsReport, InstancesOf
<1>5. HandlersType'
  BY DEF Handle, TypeOK, HandlersType, Handlers, IsReport
<1>6. dml' \in [Instances -> Nat]
  BY DEF Handle, TypeOK, ExecutorsType
<1>7. /\ \A b \in Backends : handler[b].at # "idle" => handler'[b].at # "idle"
      /\ Completes(r) => handler'[r.from].at # "idle"
  BY DEF Handle, TypeOK, HandlersType, Handlers, IsReport
<1> QED
  BY <1>4, <1>5, <1>6, <1>7

LEMMA CancelBackendsType ==
    ASSUME TypeOK, CancelBackends, UNCHANGED <<kind, handler>>
    PROVE  /\ BackendStatesType'
           /\ qs' \in [Backends -> QueryStates]
           /\ WaitsType'
<1>1. bs' = [b \in Backends |->
                IF ~bs[b].sent \/ ~IsDone(b)
                THEN [bs[b] EXCEPT !.done = TRUE,
                                   !.status = IF @ = "ok" THEN "cancelled" ELSE @]
                ELSE bs[b]]
  BY Zenon DEF CancelBackends
<1>2. BackendStatesType'
  BY <1>1 DEF TypeOK, BackendStatesType, BackendStates, Statuses, InstancesOf
<1>3. PICK lost \in SUBSET CancelTargets :
         qs' = [b \in Backends |-> IF b \in CancelTargets \ lost /\ qs[b].at # "none"
                                   THEN [qs[b] EXCEPT !.cancelled = TRUE] ELSE qs[b]]
  BY Zenon DEF CancelBackends
<1>4. \A b \in Backends :
         /\ qs'[b] \in QueryStates
         /\ qs'[b].waits = qs[b].waits /\ qs'[b].read = qs[b].read
  <2> SUFFICES ASSUME NEW b \in Backends
               PROVE  /\ qs'[b] \in QueryStates
                      /\ qs'[b].waits = qs[b].waits /\ qs'[b].read = qs[b].read
    OBVIOUS
  <2>1. qs'[b] = [qs[b] EXCEPT !.cancelled = TRUE] \/ qs'[b] = qs[b]
    BY <1>3
  <2> QED
    BY <2>1 DEF TypeOK, ExecutorsType, QueryStates
<1> QED
  BY <1>2, <1>3, <1>4 DEF TypeOK, ExecutorsType, WaitsType

LEMMA BackendStatesTypeStep == ASSUME TypeOK, [Next]_vars PROVE BackendStatesType'
<1>1. CASE EndQuery \/ AbortStartup \/ Cancel \/ CancelUnresponsive
  <2>1. UNCHANGED kind /\ UNCHANGED handler /\ (CancelBackends \/ UNCHANGED bs)
    BY <1>1 DEF EndQuery, AbortStartup, Cancel, CancelUnresponsive
  <2> QED
    BY <2>1, CancelBackendsType DEF TypeOK, BackendStatesType, InstancesOf
<1>2. CASE \E b \in Backends : ExecAsync(b) \/ ExecCompleteCb(b)
  <2>1. PICK b \in Backends : ExecAsync(b) \/ ExecCompleteCb(b)
    BY <1>2
  <2>2. /\ kind' = kind
        /\ \/ bs' = [bs EXCEPT ![b].sent = TRUE]
           \/ bs' = [bs EXCEPT ![b].done = TRUE]
           \/ bs' = [bs EXCEPT ![b].done = TRUE, ![b].status = "error"]
           \/ bs' = [bs EXCEPT ![b].done = TRUE, ![b].status = "cancelled"]
    BY <2>1 DEF ExecAsync, ExecCompleteCb
  <2>3. bs \in [Backends -> BackendStates] /\ bs[b] \in BackendStates
    BY DEF TypeOK, BackendStatesType
  <2>4. /\ \/ bs'[b] = [bs[b] EXCEPT !.sent = TRUE]
           \/ bs'[b] = [bs[b] EXCEPT !.done = TRUE]
           \/ bs'[b] = [bs[b] EXCEPT !.done = TRUE, !.status = "error"]
           \/ bs'[b] = [bs[b] EXCEPT !.done = TRUE, !.status = "cancelled"]
        /\ DOMAIN bs' = Backends
        /\ \A c \in Backends \ {b} : bs'[c] = bs[c]
    BY <2>2, <2>3
  <2>5. bs'[b] \in BackendStates /\ bs'[b].left = bs[b].left
    BY <2>3, <2>4 DEF BackendStates, Statuses
  <2>6. \A c \in Backends : bs'[c] \in BackendStates /\ bs'[c].left = bs[c].left
    BY <2>3, <2>4, <2>5
  <2>7. bs' = [c \in Backends |-> bs'[c]]
    BY <2>2, <2>3
  <2>8. bs' \in [Backends -> BackendStates]
    BY <2>6, <2>7
  <2>9. kind' = kind
    BY <2>2
  <2> QED
    BY <2>6, <2>8, <2>9 DEF TypeOK, BackendStatesType, InstancesOf
<1>3. CASE \E b \in Backends : ReportExecStatus(b)
  <2>1. PICK b \in Backends : ReportExecStatus(b)
    BY <1>3
  <2>2. IsReport(ReportOf(b)) /\ UNCHANGED kind
    BY <2>1, ReportType DEF ReportExecStatus
  <2>3. (\E w \in BOOLEAN : Handle(ReportOf(b), w)) \/ UNCHANGED bs
    BY <2>1 DEF ReportExecStatus
  <2> QED
    BY <2>2, <2>3, HandleType DEF TypeOK, BackendStatesType, InstancesOf
<1>4. CASE \E r \in late : HandleLate(r)
  BY <1>4, HandleType DEF HandleLate, TypeOK, ExecutorsType
<1>5. CASE UNCHANGED <<kind, bs>>
  BY <1>5 DEF TypeOK, BackendStatesType, InstancesOf
<1>6. CASE \/ CloseAndGetUnreleasedBackends \/ ReleaseUnreleased
           \/ ReleaseQueryAdmissionControlResources \/ WaitOnBarrier \/ FinishBackendStartup
           \/ GetNext \/ FinalizeHdfsDml \/ FinishDml
  BY <1>5, <1>6 DEF CloseAndGetUnreleasedBackends, ReleaseUnreleased,
     ReleaseQueryAdmissionControlResources, WaitOnBarrier, FinishBackendStartup, GetNext,
     FinalizeHdfsDml, FinishDml
<1>7. CASE \E b \in Backends : StartFInstances(b) \/ StartReport(b) \/ Crash(b)
                              \/ \E i \in Instances : EndInstance(b, i) \/ Stall(b, i)
  BY <1>5, <1>7 DEF StartFInstances, StartReport, Crash, EndInstance, Stall, coordinator
<1>8. CASE \E b \in Backends : TellError(b) \/ UpdateStatus(b) \/ NotifyComplete(b)
                              \/ MarkBackendFinished(b) \/ ReleaseFinished(b)
  BY <1>5, <1>8 DEF TellError, UpdateStatus, NotifyComplete, MarkBackendFinished, ReleaseFinished
<1>9. CASE UNCHANGED vars
  BY <1>5, <1>9 DEF vars, coordinator
<1> QED
  BY <1>1, <1>2, <1>3, <1>4, <1>6, <1>7, <1>8, <1>9 DEF Next

LEMMA HandlerUpdateType ==
    ASSUME TypeOK, NEW b \in Backends, NEW at \in {"idle", "release"},
           NEW free \in SUBSET Backends, at = "idle" => free = {},
           handler' = [handler EXCEPT ![b].at = at, ![b].free = free]
    PROVE  HandlersType'
<1>1. handler \in [Backends -> Handlers]
  BY DEF TypeOK, HandlersType
<1>2. /\ handler'[b] = [handler[b] EXCEPT !.at = at, !.free = free]
      /\ \A c \in Backends \ {b} : handler'[c] = handler[c]
      /\ handler' = [c \in Backends |-> handler'[c]]
  BY <1>1
<1>3. handler'[b] \in Handlers /\ (handler'[b].free # {} => handler'[b].at = "release")
  BY <1>1, <1>2 DEF Handlers
<1>4. \A c \in Backends : handler'[c] \in Handlers
  BY <1>1, <1>2, <1>3
<1>5. handler' \in [Backends -> Handlers]
  BY <1>2, <1>4
<1> QED
  BY <1>2, <1>3, <1>5 DEF TypeOK, HandlersType

LEMMA HandlersTypeStep == ASSUME TypeOK, [Next]_vars PROVE HandlersType'
<1>1. CASE \E b \in Backends : TellError(b) \/ UpdateStatus(b) \/ NotifyComplete(b)
  <2>1. PICK b \in Backends : TellError(b) \/ UpdateStatus(b) \/ NotifyComplete(b)
    BY <1>1
  <2>2. \E at \in {"update", "notify", "mark"} :
           handler[b].at # "release" /\ handler' = [handler EXCEPT ![b].at = at]
    BY <2>1 DEF TellError, UpdateStatus, NotifyComplete, Goto
  <2> QED
    BY <2>2 DEF TypeOK, HandlersType, Handlers
<1>2. CASE \E b \in Backends : MarkBackendFinished(b)
  <2>1. PICK b \in Backends : MarkBackendFinished(b)
    BY <1>2
  <2>2. \/ handler[b].at = "mark" /\ handler' = [handler EXCEPT ![b].at = "idle"]
        \/ \E free \in SUBSET Backends :
              handler' = [handler EXCEPT ![b].at = "release", ![b].free = free]
    BY <2>1 DEF MarkBackendFinished, Goto
  <2>3. CASE handler[b].at = "mark" /\ handler' = [handler EXCEPT ![b].at = "idle"]
    BY <2>3 DEF TypeOK, HandlersType, Handlers
  <2>4. CASE \E free \in SUBSET Backends :
                handler' = [handler EXCEPT ![b].at = "release", ![b].free = free]
    BY <2>4, HandlerUpdateType
  <2> QED
    BY <2>2, <2>3, <2>4
<1>3. CASE \E b \in Backends : ReleaseFinished(b)
  <2>1. PICK b \in Backends : handler' = [handler EXCEPT ![b].at = "idle", ![b].free = {}]
    BY <1>3 DEF ReleaseFinished
  <2>2. {} \in SUBSET Backends /\ "idle" \in {"idle", "release"}
    OBVIOUS
  <2> QED
    BY <2>1, <2>2, HandlerUpdateType, Zenon
<1>4. CASE \E b \in Backends : ReportExecStatus(b)
  <2>1. PICK b \in Backends : ReportExecStatus(b)
    BY <1>4
  <2>2. IsReport(ReportOf(b)) /\ UNCHANGED kind
    BY <2>1, ReportType DEF ReportExecStatus
  <2>3. (\E w \in BOOLEAN : Handle(ReportOf(b), w)) \/ UNCHANGED handler
    BY <2>1 DEF ReportExecStatus
  <2> QED
    BY <2>2, <2>3, HandleType DEF TypeOK, HandlersType
<1>5. CASE \E r \in late : HandleLate(r)
  BY <1>5, HandleType DEF HandleLate, TypeOK, ExecutorsType
<1>6. CASE UNCHANGED handler
  BY <1>6 DEF TypeOK, HandlersType
<1>7. CASE \/ EndQuery \/ CloseAndGetUnreleasedBackends \/ ReleaseUnreleased
           \/ ReleaseQueryAdmissionControlResources \/ WaitOnBarrier \/ AbortStartup
           \/ FinishBackendStartup \/ GetNext \/ FinalizeHdfsDml \/ FinishDml
           \/ Cancel \/ CancelUnresponsive
  BY <1>6, <1>7 DEF EndQuery, CloseAndGetUnreleasedBackends, ReleaseUnreleased,
     ReleaseQueryAdmissionControlResources, WaitOnBarrier, AbortStartup, FinishBackendStartup,
     GetNext, FinalizeHdfsDml, FinishDml, Cancel, CancelUnresponsive
<1>8. CASE \E b \in Backends : ExecAsync(b) \/ StartFInstances(b) \/ ExecCompleteCb(b)
                              \/ StartReport(b) \/ Crash(b)
                              \/ \E i \in Instances : EndInstance(b, i) \/ Stall(b, i)
  BY <1>6, <1>8 DEF ExecAsync, StartFInstances, ExecCompleteCb, StartReport, Crash, EndInstance,
     Stall, coordinator
<1>9. CASE UNCHANGED vars
  BY <1>6, <1>9 DEF vars, coordinator
<1> QED
  BY <1>1, <1>2, <1>3, <1>4, <1>5, <1>7, <1>8, <1>9 DEF Next

LEMMA ReleaseBackendsType ==
    ASSUME ResourcesType, NEW S \in SUBSET Backends, ReleaseBackends(S)
    PROVE  ResourcesType'
<1>1. freed' \in [Backends \cup {"all"} -> Nat]
  BY DEF ReleaseBackends, ResourcesType
<1>2. res' \in [state : [Backends -> {"IN_USE", "PENDING", "RELEASABLE", "RELEASED"}],
                closed : BOOLEAN, barrier : Int]
  <2>1. Cardinality(S) \in Nat
    BY CardinalityFacts
  <2> DEFINE state == [b \in Backends |-> IF b \in S THEN "RELEASED" ELSE res.state[b]]
  <2>2. state \in [Backends -> {"IN_USE", "PENDING", "RELEASABLE", "RELEASED"}]
    BY DEF ResourcesType
  <2> DEFINE barrier == res.barrier - Cardinality(S)
  <2>3. res' = [res EXCEPT !.state = state, !.barrier = barrier]
    BY DEF ReleaseBackends
  <2>4. barrier \in Int
    BY <2>1 DEF ResourcesType
  <2> HIDE DEF state, barrier
  <2> QED
    BY <2>2, <2>3, <2>4 DEF ResourcesType
<1> QED
  BY <1>1, <1>2 DEF ResourcesType

\* What MarkBackendFinished(b) does to the resources: nothing, or b is pending,
\* or it and the other pending backends are taken for release.
PendingWith(b) == {c \in Backends : c = b \/ res.state[c] = "PENDING"}
Marked(b) ==
    /\ ~res.closed /\ res.state[b] = "IN_USE"
    /\ \/ /\ handler' = [handler EXCEPT ![b].at = "idle"]
          /\ res' = [res EXCEPT !.state = [@ EXCEPT ![b] = "PENDING"]]
       \/ /\ handler' = [handler EXCEPT ![b].at = "release", ![b].free = PendingWith(b)]
          /\ res' = [res EXCEPT !.state = [c \in Backends |->
                       IF c \in PendingWith(b) THEN "RELEASABLE" ELSE @[c]]]

LEMMA MarkStep ==
    ASSUME TypeOK, NEW b \in Backends, MarkBackendFinished(b)
    PROVE  /\ handler[b].at = "mark"
           /\ UNCHANGED <<kind, main, rpcs, complete, bs, exec, ending, freed, dml, finalized,
                          inst, late, faults>>
           /\ \/ UNCHANGED res /\ handler' = [handler EXCEPT ![b].at = "idle"]
              \/ Marked(b)
<1> DEFINE state == [res.state EXCEPT ![b] = "PENDING"]
           inUse == {c \in Backends : state[c] = "IN_USE"}
           pending == {c \in Backends : state[c] = "PENDING"}
           last == res.state[Coord] # "RELEASED" /\ Cardinality(inUse) = 1
<1>1. \/ UNCHANGED res /\ handler' = [handler EXCEPT ![b].at = "idle"]
      \/ /\ ~res.closed /\ res.state[b] = "IN_USE"
         /\ handler' = [handler EXCEPT ![b].at = "idle"]
         /\ res' = [res EXCEPT !.state = state]
      \/ /\ ~res.closed /\ res.state[b] = "IN_USE"
         /\ handler' = [handler EXCEPT ![b].at = "release", ![b].free = pending]
         /\ res' = [res EXCEPT !.state = [c \in Backends |->
                      IF c \in pending THEN "RELEASABLE" ELSE state[c]]]
  BY Zenon DEF MarkBackendFinished, Goto
<1>2. res.state \in [Backends -> {"IN_USE", "PENDING", "RELEASABLE", "RELEASED"}]
  BY DEF TypeOK, ResourcesType
<1>3. pending = PendingWith(b)
  BY <1>2 DEF PendingWith
<1>4. [c \in Backends |-> IF c \in pending THEN "RELEASABLE" ELSE state[c]]
         = [c \in Backends |-> IF c \in PendingWith(b) THEN "RELEASABLE" ELSE res.state[c]]
  BY <1>2, <1>3
<1>5. handler[b].at = "mark" /\
      UNCHANGED <<kind, main, rpcs, complete, bs, exec, ending, freed, dml, finalized, inst,
                  late, faults>>
  BY DEF MarkBackendFinished
<1> QED
  BY <1>1, <1>3, <1>4, <1>5, Zenon DEF Marked

LEMMA ResourcesTypeStep == ASSUME TypeOK, [Next]_vars PROVE ResourcesType'
<1>a. ResourcesType
  BY DEF TypeOK
<1>1. CASE ReleaseUnreleased
  BY <1>1, <1>a, ReleaseBackendsType DEF ReleaseUnreleased, TypeOK, ControlType
<1>2. CASE \E b \in Backends : ReleaseFinished(b)
  BY <1>2, <1>a, ReleaseBackendsType DEF ReleaseFinished, TypeOK, HandlersType, Handlers
<1>3. CASE CloseAndGetUnreleasedBackends
  BY <1>3, <1>a DEF CloseAndGetUnreleasedBackends, ResourcesType
<1>4. CASE ReleaseQueryAdmissionControlResources
  BY <1>4, <1>a DEF ReleaseQueryAdmissionControlResources, ResourcesType
<1>5. CASE UNCHANGED <<res, freed>>
  BY <1>5, <1>a DEF ResourcesType
<1>6. CASE \E b \in Backends : MarkBackendFinished(b)
  <2>1. PICK b \in Backends : MarkBackendFinished(b)
    BY <1>6
  <2>2. freed' = freed /\ (UNCHANGED res \/ Marked(b))
    BY <2>1, MarkStep
  <2>3. CASE Marked(b)
    <3>1. \E state \in [Backends -> {"IN_USE", "PENDING", "RELEASABLE", "RELEASED"}] :
             res' = [res EXCEPT !.state = state]
      BY <2>3, <1>a DEF Marked, ResourcesType
    <3> QED
      BY <3>1, <2>2, <1>a DEF ResourcesType
  <2> QED
    BY <2>2, <2>3, <1>5
<1>7. CASE \/ EndQuery \/ WaitOnBarrier \/ AbortStartup \/ FinishBackendStartup \/ GetNext
           \/ FinalizeHdfsDml \/ FinishDml \/ Cancel \/ CancelUnresponsive
  BY <1>5, <1>7 DEF EndQuery, WaitOnBarrier, AbortStartup, FinishBackendStartup,
     GetNext, FinalizeHdfsDml, FinishDml, Cancel, CancelUnresponsive, ending_vars
<1>8. CASE \E b \in Backends : ExecAsync(b) \/ StartFInstances(b) \/ ExecCompleteCb(b)
                              \/ StartReport(b) \/ Crash(b)
                              \/ \E i \in Instances : EndInstance(b, i) \/ Stall(b, i)
  BY <1>5, <1>8 DEF ExecAsync, StartFInstances, ExecCompleteCb, StartReport, Crash, EndInstance,
     Stall, coordinator, ending_vars
<1>9. CASE \E b \in Backends : ReportExecStatus(b) \/ TellError(b) \/ UpdateStatus(b)
                              \/ NotifyComplete(b)
  BY <1>5, <1>9 DEF ReportExecStatus, TellError, UpdateStatus, NotifyComplete, ending_vars
<1>10. CASE \E r \in late : HandleLate(r)
  BY <1>5, <1>10 DEF HandleLate, ending_vars
<1>11. CASE UNCHANGED vars
  BY <1>5, <1>11 DEF vars, coordinator, ending_vars
<1> QED
  BY <1>1, <1>2, <1>3, <1>4, <1>6, <1>7, <1>8, <1>9, <1>10, <1>11 DEF Next

LEMMA QueryStatesUpdate ==
    ASSUME TypeOK, NEW b \in Backends, NEW q \in QueryStates, qs' = [qs EXCEPT ![b] = q],
           \A c \in Backends \ {b} : handler'[c] = handler[c],
           q.waits => q.read # "none" /\ handler'[b].at # "idle" /\ handler'[b].waits
    PROVE  qs' \in [Backends -> QueryStates] /\ WaitsType'
BY DEF TypeOK, ExecutorsType, WaitsType

LEMMA EndInstanceType ==
    ASSUME TypeOK, NEW b \in Backends, NEW i \in Instances, EndInstance(b, i) \/ Stall(b, i)
    PROVE  ExecutorsType'
<1>1. UNCHANGED <<kind, bs, handler, dml, late>>
  BY DEF EndInstance, Stall, coordinator
<1>2. /\ \/ qs' = qs
         \/ \E status \in Statuses : qs' = [qs EXCEPT ![b].status = status]
      /\ \E at \in {"done", "cancelling", "failing", "told", "failed", "stalled"} :
            inst' = [inst EXCEPT ![i].at = at]
  BY DEF EndInstance, Stall, Statuses
<1>3. qs \in [Backends -> QueryStates] /\ qs[b] \in QueryStates
  BY DEF TypeOK, ExecutorsType
<1>4. qs' \in [Backends -> QueryStates] /\ WaitsType'
  <2>1. CASE qs' = qs
    BY <2>1, <1>1 DEF TypeOK, ExecutorsType, WaitsType
  <2>2. ASSUME NEW status \in Statuses, qs' = [qs EXCEPT ![b].status = status]
        PROVE  qs' \in [Backends -> QueryStates] /\ WaitsType'
    <3> DEFINE q == [qs[b] EXCEPT !.status = status]
    <3>1. qs' = [qs EXCEPT ![b] = q]
      BY <2>2
    <3>2. q \in QueryStates /\ q.waits = qs[b].waits /\ q.read = qs[b].read
      BY <1>3 DEF QueryStates
    <3> HIDE DEF q
    <3> QED
      BY <1>1, <3>1, <3>2, QueryStatesUpdate DEF TypeOK, ExecutorsType, WaitsType
  <2> QED
    BY <1>2, <2>1, <2>2
<1>5. inst' \in [Instances -> InstanceStates]
  BY <1>2 DEF TypeOK, ExecutorsType, InstanceStates
<1> QED
  BY <1>1, <1>4, <1>5 DEF TypeOK, ExecutorsType, IsReport, InstancesOf

LEMMA StartReportType ==
    ASSUME TypeOK, NEW b \in Backends, StartReport(b)
    PROVE  ExecutorsType'
<1>1. UNCHANGED <<kind, bs, handler, dml, late, inst>>
  BY DEF StartReport, coordinator
<1>2. qs \in [Backends -> QueryStates] /\ qs[b] \in QueryStates
  BY DEF TypeOK, ExecutorsType
<1>3. ~qs[b].waits
  BY DEF TypeOK, ExecutorsType, WaitsType, StartReport
<1>4. \E at \in {qs[b].at, "final", "gone"}, read \in {qs[b].read, qs[b].status} :
         qs' = [qs EXCEPT ![b].at = at, ![b].read = read]
  <2>1. \/ qs' = [qs EXCEPT ![b].at = IF qs[b].active THEN "final" ELSE "gone",
                            ![b].read = IF qs[b].active THEN qs[b].status ELSE @]
        \/ qs' = [qs EXCEPT ![b].read = qs[b].status]
    BY Zenon DEF StartReport
  <2>2. CASE qs' = [qs EXCEPT ![b].at = IF qs[b].active THEN "final" ELSE "gone",
                              ![b].read = IF qs[b].active THEN qs[b].status ELSE @]
    BY <2>2, <1>2 DEF QueryStates
  <2>3. CASE qs' = [qs EXCEPT ![b].read = qs[b].status]
    <3>1. qs' = [qs EXCEPT ![b].at = qs[b].at, ![b].read = qs[b].status]
      BY <2>3, <1>2 DEF QueryStates
    <3> QED
      BY <3>1
  <2> QED
    BY <2>1, <2>2, <2>3
<1>5. PICK at \in {qs[b].at, "final", "gone"}, read \in {qs[b].read, qs[b].status} :
         qs' = [qs EXCEPT ![b].at = at, ![b].read = read]
  BY <1>4
<1> DEFINE q == [qs[b] EXCEPT !.at = at, !.read = read]
<1>6. qs' = [qs EXCEPT ![b] = q]
  BY <1>5, <1>2
<1>7. q \in QueryStates /\ q.waits = qs[b].waits
  BY <1>2 DEF QueryStates
<1> HIDE DEF q
<1>8. qs' \in [Backends -> QueryStates] /\ WaitsType'
  BY <1>1, <1>3, <1>6, <1>7, QueryStatesUpdate
<1> QED
  BY <1>1, <1>8 DEF TypeOK, ExecutorsType, IsReport, InstancesOf

LEMMA StartOrCrashType ==
    ASSUME TypeOK, NEW b \in Backends, StartFInstances(b) \/ Crash(b)
    PROVE  ExecutorsType'
<1>1. UNCHANGED <<kind, bs, handler, dml, late>>
  BY DEF StartFInstances, Crash, coordinator
<1>2. qs \in [Backends -> QueryStates] /\ qs[b] \in QueryStates
  BY DEF TypeOK, ExecutorsType
<1>3. qs' \in [Backends -> QueryStates] /\ WaitsType'
  <2>1. CASE StartFInstances(b)
    <3> DEFINE q == [qs[b] EXCEPT !.at = "executing"]
    <3>1. qs' = [qs EXCEPT ![b] = q]
      BY <2>1 DEF StartFInstances
    <3>2. q \in QueryStates /\ q.waits = qs[b].waits /\ q.read = qs[b].read
      BY <1>2 DEF QueryStates
    <3> HIDE DEF q
    <3> QED
      BY <1>1, <3>1, <3>2, QueryStatesUpdate DEF TypeOK, ExecutorsType, WaitsType
  <2>2. CASE Crash(b)
    <3> DEFINE q == [qs[b] EXCEPT !.at = "gone", !.read = "none", !.waits = FALSE]
    <3>1. qs' = [qs EXCEPT ![b] = q]
      BY <2>2 DEF Crash
    <3>2. q \in QueryStates /\ ~q.waits
      BY <1>2 DEF QueryStates
    <3> HIDE DEF q
    <3> QED
      BY <1>1, <3>1, <3>2, QueryStatesUpdate
  <2> QED
    BY <2>1, <2>2
<1>4. inst' \in [Instances -> InstanceStates]
  BY DEF StartFInstances, Crash, TypeOK, ExecutorsType, InstanceStates
<1> QED
  BY <1>1, <1>3, <1>4 DEF TypeOK, ExecutorsType, IsReport, InstancesOf

\* What ReportExecStatus(b) does, in terms of the report r it makes.
LEMMA ReportStep ==
    ASSUME TypeOK, NEW b \in Backends, ReportExecStatus(b)
    PROVE  LET r == ReportOf(b) IN
           /\ qs[b].read # "none" /\ ~qs[b].waits
           /\ UNCHANGED <<kind, main, rpcs, complete, exec, ending, res, freed, finalized>>
           /\ \E sent \in BOOLEAN : inst' = Numbered(r, sent)
           /\ \/ \E w \in BOOLEAN : Handle(r, w) /\ UNCHANGED late
              \/ late' = late \cup {r} /\ UNCHANGED <<bs, dml, handler>>
              \/ UNCHANGED <<late, bs, dml, handler>>
           /\ \/ /\ Completes(r) /\ Handle(r, TRUE)
                 /\ qs' = [qs EXCEPT ![b] = [@ EXCEPT !.waits = TRUE]]
              \/ \E ok \in BOOLEAN : qs' = [qs EXCEPT ![b] = AfterAnswer(@, ok)]
              \/ \E giveUp \in BOOLEAN : qs' = [qs EXCEPT ![b] = AfterFailure(@, giveUp)]
<1>1. /\ qs[b].read # "none" /\ ~qs[b].waits
      /\ UNCHANGED <<kind, main, rpcs, complete, exec, ending, res, freed, finalized>>
  BY DEF ReportExecStatus, ending_vars
<1> DEFINE r == ReportOf(b)
<1>2. \/ /\ Handle(r, TRUE)
         /\ qs' = [qs EXCEPT ![b] = IF Completes(r) THEN [@ EXCEPT !.waits = TRUE]
                                    ELSE AfterAnswer(@, AnswerOk(Applied(r).status))]
         /\ inst' = Numbered(r, TRUE)
         /\ UNCHANGED <<late, faults>>
      \/ \E giveUp \in BOOLEAN :
            /\ \/ Handle(r, FALSE) /\ UNCHANGED late
               \/ late' = late \cup {r} /\ UNCHANGED <<bs, dml, handler>>
               \/ UNCHANGED <<late, bs, dml, handler>>
            /\ inst' = Numbered(r, FALSE)
            /\ qs' = [qs EXCEPT ![b] = AfterFailure(@, giveUp)]
  BY Zenon DEF ReportExecStatus
<1>3. AnswerOk(Applied(r).status) \in BOOLEAN
  BY DEF AnswerOk
<1> HIDE DEF r
<1> SUFFICES /\ \E sent \in BOOLEAN : inst' = Numbered(r, sent)
             /\ \/ \E w \in BOOLEAN : Handle(r, w) /\ UNCHANGED late
                \/ late' = late \cup {r} /\ UNCHANGED <<bs, dml, handler>>
                \/ UNCHANGED <<late, bs, dml, handler>>
             /\ \/ /\ Completes(r) /\ Handle(r, TRUE)
                   /\ qs' = [qs EXCEPT ![b] = [@ EXCEPT !.waits = TRUE]]
                \/ \E ok \in BOOLEAN : qs' = [qs EXCEPT ![b] = AfterAnswer(@, ok)]
                \/ \E giveUp \in BOOLEAN : qs' = [qs EXCEPT ![b] = AfterFailure(@, giveUp)]
  BY <1>1 DEF r
<1>4. CASE /\ Handle(r, TRUE)
           /\ qs' = [qs EXCEPT ![b] = IF Completes(r) THEN [@ EXCEPT !.waits = TRUE]
                                      ELSE AfterAnswer(@, AnswerOk(Applied(r).status))]
           /\ inst' = Numbered(r, TRUE)
           /\ UNCHANGED <<late, faults>>
  BY <1>3, <1>4
<1>5. ASSUME NEW giveUp \in BOOLEAN,
             \/ Handle(r, FALSE) /\ UNCHANGED late
             \/ late' = late \cup {r} /\ UNCHANGED <<bs, dml, handler>>
             \/ UNCHANGED <<late, bs, dml, handler>>,
             inst' = Numbered(r, FALSE),
             qs' = [qs EXCEPT ![b] = AfterFailure(@, giveUp)]
      PROVE  /\ \E sent \in BOOLEAN : inst' = Numbered(r, sent)
             /\ \/ \E w \in BOOLEAN : Handle(r, w) /\ UNCHANGED late
                \/ late' = late \cup {r} /\ UNCHANGED <<bs, dml, handler>>
                \/ UNCHANGED <<late, bs, dml, handler>>
             /\ \E g \in BOOLEAN : qs' = [qs EXCEPT ![b] = AfterFailure(@, g)]
  BY <1>5
<1> QED
  BY <1>2, <1>4, <1>5

LEMMA HandleHandlers ==
    ASSUME TypeOK, NEW r, IsReport(r), NEW w \in BOOLEAN, Handle(r, w)
    PROVE  /\ \A c \in Backends \ {r.from} : handler'[c] = handler[c] /\ bs'[c] = bs[c]
           /\ bs'[r.from] = Applied(r)
           /\ ~Completes(r) => handler' = handler
           /\ Completes(r) =>
                 handler'[r.from] = [at |-> IF Applied(r).status = "ok" THEN "notify" ELSE "error",
                                     free |-> {}, waits |-> w]
BY DEF Handle, TypeOK, HandlersType, BackendStatesType, IsReport

LEMMA ReportOfFrom == \A b \in Backends : ReportOf(b).from = b
BY DEF ReportOf

LEMMA NumberedType ==
    ASSUME TypeOK, NEW r, IsReport(r), NEW sent \in BOOLEAN, inst' = Numbered(r, sent)
    PROVE  inst' \in [Instances -> InstanceStates]
<1> SUFFICES ASSUME NEW i \in Instances PROVE inst'[i] \in InstanceStates
  BY DEF Numbered
<1>1. inst[i] \in InstanceStates
  BY DEF TypeOK, ExecutorsType
<1>2. \/ inst'[i] = inst[i]
      \/ /\ r.seq[i] \in Nat
         /\ \E final \in {inst[i].final, "sent", "generated"} :
               inst'[i] = [inst[i] EXCEPT !.seq = r.seq[i], !.final = final]
  BY DEF Numbered, IsReport
<1> QED
  BY <1>1, <1>2 DEF InstanceStates

LEMMA ReportExecutorsType ==
    ASSUME TypeOK, DoneInv, NEW b \in Backends, ReportExecStatus(b)
    PROVE  ExecutorsType'
<1> DEFINE r == ReportOf(b)
<1>1. IsReport(r) /\ r.from = b /\ UNCHANGED kind
  BY ReportStep, ReportType, ReportOfFrom
<1>2. PICK sent \in BOOLEAN : inst' = Numbered(r, sent)
  BY ReportStep
<1>3. \/ \E w \in BOOLEAN : Handle(r, w) /\ UNCHANGED late
      \/ late' = late \cup {r} /\ UNCHANGED <<bs, dml, handler>>
      \/ UNCHANGED <<late, bs, dml, handler>>
  BY ReportStep
<1>4. \/ /\ Completes(r) /\ Handle(r, TRUE)
         /\ qs' = [qs EXCEPT ![b] = [@ EXCEPT !.waits = TRUE]]
      \/ \E ok \in BOOLEAN : qs' = [qs EXCEPT ![b] = AfterAnswer(@, ok)]
      \/ \E giveUp \in BOOLEAN : qs' = [qs EXCEPT ![b] = AfterFailure(@, giveUp)]
  BY ReportStep
<1>5. qs[b].read # "none" /\ ~qs[b].waits
  BY ReportStep
<1> HIDE DEF r
<1>6. inst' \in [Instances -> InstanceStates]
  BY <1>1, <1>2, NumberedType
<1>7. dml' \in [Instances -> Nat]
  BY <1>1, <1>3, HandleType DEF TypeOK, ExecutorsType
<1>8. \A x \in late' : IsReport(x)'
  BY <1>1, <1>3 DEF TypeOK, ExecutorsType, IsReport, InstancesOf
<1>9. \A c \in Backends \ {b} : handler'[c] = handler[c]
  BY <1>1, <1>3, HandleHandlers
<1>10. qs \in [Backends -> QueryStates] /\ qs[b] \in QueryStates
  BY DEF TypeOK, ExecutorsType
<1>11. PICK q : /\ qs' = [qs EXCEPT ![b] = q]
                /\ \/ /\ Completes(r) /\ Handle(r, TRUE)
                      /\ q = [qs[b] EXCEPT !.waits = TRUE]
                   \/ \E ok \in BOOLEAN : q = AfterAnswer(qs[b], ok)
                   \/ \E giveUp \in BOOLEAN : q = AfterFailure(qs[b], giveUp)
  BY <1>4, <1>10
<1>12. /\ q \in QueryStates
       /\ q.waits => q.read # "none" /\ handler'[b].at # "idle" /\ handler'[b].waits
  <2>1. CASE /\ Completes(r) /\ Handle(r, TRUE)
             /\ q = [qs[b] EXCEPT !.waits = TRUE]
    <3>1. handler'[b].at # "idle" /\ handler'[b].waits
      <4>1. handler'[r.from] = [at |-> IF Applied(r).status = "ok" THEN "notify" ELSE "error",
                                free |-> {}, waits |-> TRUE]
        BY <2>1, <1>1, HandleHandlers, Zenon
      <4> QED
        BY <4>1, <1>1
    <3> QED
      BY <2>1, <3>1, <1>10, <1>5 DEF QueryStates
  <2>2. CASE \E ok \in BOOLEAN : q = AfterAnswer(qs[b], ok)
    BY <2>2, <1>10 DEF QueryStates, AfterAnswer
  <2>3. CASE \E giveUp \in BOOLEAN : q = AfterFailure(qs[b], giveUp)
    BY <2>3, <1>10, <1>5 DEF QueryStates, AfterFailure
  <2> QED
    BY <1>11, <2>1, <2>2, <2>3
<1>13. qs' \in [Backends -> QueryStates] /\ WaitsType'
  BY <1>9, <1>11, <1>12, QueryStatesUpdate
<1> QED
  BY <1>6, <1>7, <1>8, <1>13 DEF ExecutorsType

LEMMA RespondType ==
    ASSUME TypeOK, NEW b \in Backends, Respond(b),
           \A c \in Backends \ {b} : handler'[c] = handler[c]
    PROVE  qs' \in [Backends -> QueryStates] /\ WaitsType'
<1>1. qs \in [Backends -> QueryStates] /\ qs[b] \in QueryStates
  BY DEF TypeOK, ExecutorsType
<1>2. CASE handler[b].waits /\ qs[b].waits
  <2>1. PICK ok \in BOOLEAN : qs' = [qs EXCEPT ![b] = AfterAnswer(qs[b], ok)]
    BY <1>2, <1>1 DEF Respond, AnswerOk
  <2>2. AfterAnswer(qs[b], ok) \in QueryStates /\ ~AfterAnswer(qs[b], ok).waits
    BY <1>1 DEF AfterAnswer, QueryStates
  <2> QED
    BY <2>1, <2>2, QueryStatesUpdate
<1>3. CASE ~(handler[b].waits /\ qs[b].waits)
  <2>1. ~qs[b].waits
    BY <1>3 DEF TypeOK, ExecutorsType, WaitsType
  <2>2. qs' = qs
    BY <1>3 DEF Respond
  <2> QED
    BY <2>1, <2>2 DEF TypeOK, ExecutorsType, WaitsType
<1> QED
  BY <1>2, <1>3

LEMMA ExecutorsTypeStep == ASSUME TypeOK, DoneInv, [Next]_vars PROVE ExecutorsType'
<1>a. /\ qs \in [Backends -> QueryStates] /\ WaitsType
      /\ inst \in [Instances -> InstanceStates] /\ dml \in [Instances -> Nat]
      /\ \A r \in late : IsReport(r)
  BY DEF TypeOK, ExecutorsType
<1>b. ASSUME UNCHANGED <<kind, inst, dml, late>>, qs' \in [Backends -> QueryStates], WaitsType'
      PROVE  ExecutorsType'
  BY <1>a, <1>b DEF ExecutorsType, IsReport, InstancesOf
<1>1. CASE EndQuery \/ AbortStartup \/ Cancel \/ CancelUnresponsive
  <2>1. UNCHANGED <<kind, handler, inst, dml, late>> /\ (CancelBackends \/ UNCHANGED qs)
    BY <1>1 DEF EndQuery, AbortStartup, Cancel, CancelUnresponsive
  <2>2. qs' \in [Backends -> QueryStates] /\ WaitsType'
    BY <2>1, <1>a, CancelBackendsType DEF WaitsType
  <2> QED
    BY <2>1, <2>2, <1>b
<1>2. CASE UNCHANGED <<kind, qs, handler, inst, dml, late>>
  BY <1>2, <1>a, <1>b DEF WaitsType
<1>3. CASE \E b \in Backends : StartFInstances(b) \/ Crash(b) \/ StartReport(b)
                              \/ \E i \in Instances : EndInstance(b, i) \/ Stall(b, i)
  BY <1>3, StartOrCrashType, StartReportType, EndInstanceType
<1>4. CASE \E b \in Backends : ReportExecStatus(b)
  BY <1>4, ReportExecutorsType
<1>5. CASE \E r \in late : HandleLate(r)
  <2>1. PICK r \in late : HandleLate(r)
    BY <1>5
  <2>2. /\ IsReport(r) /\ Handle(r, FALSE) /\ UNCHANGED <<kind, qs, inst>>
        /\ late' \subseteq late
    BY <2>1, <1>a DEF HandleLate, executor
  <2>3. dml' \in [Instances -> Nat]
    BY <2>2, HandleType
  <2>4. WaitsType'
    <3>1. CASE Completes(r)
      <4>1. ~qs[r.from].waits
        BY <2>2, <3>1, <1>a DEF Completes, DoneInv, WaitsType, IsReport
      <4>2. \A c \in Backends \ {r.from} : handler'[c] = handler[c]
        BY <2>2, HandleHandlers
      <4> QED
        BY <2>2, <4>1, <4>2, <1>a DEF WaitsType
    <3>2. CASE ~Completes(r)
      BY <2>2, <3>2, <1>a, HandleHandlers DEF WaitsType
    <3> QED
      BY <3>1, <3>2
  <2> QED
    BY <2>2, <2>3, <2>4, <1>a DEF ExecutorsType, IsReport, InstancesOf
<1>6. CASE \E b \in Backends : TellError(b) \/ UpdateStatus(b) \/ NotifyComplete(b)
  <2>1. PICK b \in Backends : TellError(b) \/ UpdateStatus(b) \/ NotifyComplete(b)
    BY <1>6
  <2>2. /\ UNCHANGED <<kind, inst, dml, late, qs>>
        /\ \E at \in {"update", "notify", "mark"} : handler' = [handler EXCEPT ![b].at = at]
    BY <2>1 DEF TellError, UpdateStatus, NotifyComplete, Goto, executor
  <2>3. WaitsType'
    BY <2>2, <1>a DEF WaitsType, TypeOK, HandlersType, Handlers
  <2> QED
    BY <2>2, <2>3, <1>a, <1>b
<1>7. CASE \E b \in Backends : MarkBackendFinished(b)
  <2>1. PICK b \in Backends : MarkBackendFinished(b)
    BY <1>7
  <2>2. UNCHANGED <<kind, inst, dml, late>>
    BY <2>1 DEF MarkBackendFinished
  <2>3. \/ Respond(b)
        \/ UNCHANGED qs /\ \E free : handler' = [handler EXCEPT ![b].at = "release", ![b].free = free]
    BY <2>1 DEF MarkBackendFinished
  <2>4. \A c \in Backends \ {b} : handler'[c] = handler[c]
    BY <2>1, MarkStep DEF Marked, TypeOK, HandlersType
  <2>5. CASE Respond(b)
    BY <2>2, <2>4, <2>5, <1>b, RespondType
  <2>6. CASE UNCHANGED qs /\ \E free : handler' = [handler EXCEPT ![b].at = "release", ![b].free = free]
    <3>1. handler'[b].at = "release" /\ handler'[b].waits = handler[b].waits
      BY <2>6 DEF TypeOK, HandlersType, Handlers
    <3>2. WaitsType'
      BY <2>4, <2>6, <3>1, <1>a DEF WaitsType
    <3> QED
      BY <2>2, <2>6, <3>2, <1>a, <1>b
  <2> QED
    BY <2>3, <2>5, <2>6
<1>8. CASE \E b \in Backends : ReleaseFinished(b)
  <2>1. PICK b \in Backends : ReleaseFinished(b)
    BY <1>8
  <2>2. UNCHANGED <<kind, inst, dml, late>> /\ Respond(b)
    BY <2>1 DEF ReleaseFinished
  <2>3. \A c \in Backends \ {b} : handler'[c] = handler[c]
    BY <2>1 DEF ReleaseFinished, TypeOK, HandlersType
  <2> QED
    BY <2>2, <2>3, <1>b, RespondType
<1>9. CASE \/ CloseAndGetUnreleasedBackends \/ ReleaseUnreleased
           \/ ReleaseQueryAdmissionControlResources \/ WaitOnBarrier
           \/ FinishBackendStartup \/ GetNext \/ FinalizeHdfsDml \/ FinishDml
           \/ \E b \in Backends : ExecAsync(b) \/ ExecCompleteCb(b)
  BY <1>2, <1>9 DEF CloseAndGetUnreleasedBackends, ReleaseUnreleased, executor,
     ReleaseQueryAdmissionControlResources, WaitOnBarrier, FinishBackendStartup, GetNext,
     FinalizeHdfsDml, FinishDml, ExecAsync, ExecCompleteCb
<1>10. CASE UNCHANGED vars
  BY <1>2, <1>10 DEF vars, coordinator, executor
<1> QED
  BY <1>1, <1>3, <1>4, <1>5, <1>6, <1>7, <1>8, <1>9, <1>10 DEF Next

LEMMA TypeStep == ASSUME TypeOK, StartInv, DoneInv, [Next]_vars PROVE TypeOK'
BY ControlTypeStep, BackendStatesTypeStep, HandlersTypeStep, ResourcesTypeStep,
   ExecutorsTypeStep DEF TypeOK

-----------------------------------------------------------------------------
(* What a step may do to the state of a backend.                           *)

\* The Exec() RPC of b is sent or comes to its end.
StartChange(b) ==
    /\ DOMAIN bs' = Backends
    /\ \A c \in Backends \ {b} : bs'[c] = bs[c]
    /\ \/ bs'[b] = [bs[b] EXCEPT !.sent = TRUE]
       \/ bs'[b] = [bs[b] EXCEPT !.done = TRUE]
       \/ bs'[b] = [bs[b] EXCEPT !.done = TRUE, !.status = "error"]
       \/ bs'[b] = [bs[b] EXCEPT !.done = TRUE, !.status = "cancelled"]

LEMMA BackendStep ==
    ASSUME TypeOK, [Next]_vars
    PROVE  /\ kind' = kind
           /\ \/ bs' = bs
              \/ CancelBackends
              \/ \E b \in Backends : StartChange(b)
              \/ \E r, w : IsReport(r) /\ w \in BOOLEAN /\ Handle(r, w)
<1>1. CASE EndQuery \/ AbortStartup \/ Cancel \/ CancelUnresponsive
  BY <1>1 DEF EndQuery, AbortStartup, Cancel, CancelUnresponsive
<1>2. CASE \E b \in Backends : ExecAsync(b) \/ ExecCompleteCb(b)
  <2>1. PICK b \in Backends : ExecAsync(b) \/ ExecCompleteCb(b)
    BY <1>2
  <2>2. /\ kind' = kind
        /\ \/ bs' = [bs EXCEPT ![b].sent = TRUE]
           \/ bs' = [bs EXCEPT ![b].done = TRUE]
           \/ bs' = [bs EXCEPT ![b].done = TRUE, ![b].status = "error"]
           \/ bs' = [bs EXCEPT ![b].done = TRUE, ![b].status = "cancelled"]
    BY <2>1 DEF ExecAsync, ExecCompleteCb
  <2>3. bs \in [Backends -> BackendStates]
    BY DEF TypeOK, BackendStatesType
  <2>4. StartChange(b)
    BY <2>2, <2>3 DEF StartChange
  <2> QED
    BY <2>2, <2>4
<1>3. CASE \E b \in Backends : ReportExecStatus(b)
  <2>1. PICK b \in Backends : ReportExecStatus(b)
    BY <1>3
  <2>2. IsReport(ReportOf(b)) /\ UNCHANGED kind
    BY <2>1, ReportType DEF ReportExecStatus
  <2>3. (\E w \in BOOLEAN : Handle(ReportOf(b), w)) \/ UNCHANGED bs
    BY <2>1 DEF ReportExecStatus
  <2> QED
    BY <2>2, <2>3
<1>4. CASE \E r \in late : HandleLate(r)
  BY <1>4 DEF HandleLate, TypeOK, ExecutorsType
<1>6. CASE \/ CloseAndGetUnreleasedBackends \/ ReleaseUnreleased
           \/ ReleaseQueryAdmissionControlResources \/ WaitOnBarrier \/ FinishBackendStartup
           \/ GetNext \/ FinalizeHdfsDml \/ FinishDml
  BY <1>6 DEF CloseAndGetUnreleasedBackends, ReleaseUnreleased,
     ReleaseQueryAdmissionControlResources, WaitOnBarrier, FinishBackendStartup, GetNext,
     FinalizeHdfsDml, FinishDml
<1>7. CASE \E b \in Backends : StartFInstances(b) \/ StartReport(b) \/ Crash(b)
                              \/ \E i \in Instances : EndInstance(b, i) \/ Stall(b, i)
  BY <1>7 DEF StartFInstances, StartReport, Crash, EndInstance, Stall, coordinator
<1>8. CASE \E b \in Backends : TellError(b) \/ UpdateStatus(b) \/ NotifyComplete(b)
                              \/ MarkBackendFinished(b) \/ ReleaseFinished(b)
  BY <1>8 DEF TellError, UpdateStatus, NotifyComplete, MarkBackendFinished, ReleaseFinished
<1>9. CASE UNCHANGED vars
  BY <1>9 DEF vars, coordinator
<1> QED
  BY <1>1, <1>2, <1>3, <1>4, <1>6, <1>7, <1>8, <1>9 DEF Next

LEMMA CancelledBackend ==
    ASSUME TypeOK, CancelBackends, NEW b \in Backends
    PROVE  /\ bs'[b].left = bs[b].left /\ bs'[b].seq = bs[b].seq
           /\ bs[b].done => bs'[b].done
           /\ bs[b].status # "ok" => bs'[b].status = bs[b].status
           /\ bs'[b].done /\ IsDone(b)'
<1>1. bs'[b] = IF ~bs[b].sent \/ ~IsDone(b)
               THEN [bs[b] EXCEPT !.done = TRUE, !.status = IF @ = "ok" THEN "cancelled" ELSE @]
               ELSE bs[b]
  BY DEF CancelBackends
<1>2. bs[b] \in BackendStates
  BY DEF TypeOK, BackendStatesType
<1>3. bs[b].sent => bs[b].done
  BY DEF CancelBackends
<1> QED
  BY <1>1, <1>2, <1>3 DEF BackendStates, IsDone, Done

\* A backend whose Exec() RPC has ended, that is done or that has failed stays so.
LEMMA Monotone ==
    ASSUME TypeOK, [Next]_vars, NEW b \in Backends
    PROVE  /\ bs[b].done => bs'[b].done
           /\ bs[b].status # "ok" => bs'[b].status # "ok"
           /\ bs'[b].left \subseteq bs[b].left
           /\ IsDone(b) => IsDone(b)'
<1>1. bs[b] \in BackendStates
  BY DEF TypeOK, BackendStatesType
<1>2. CASE bs' = bs
  BY <1>2 DEF IsDone, Done
<1>3. CASE CancelBackends
  BY <1>3, CancelledBackend
<1>4. ASSUME NEW c \in Backends, StartChange(c)
      PROVE  /\ bs[b].done => bs'[b].done
             /\ bs[b].status # "ok" => bs'[b].status # "ok"
             /\ bs'[b].left \subseteq bs[b].left
             /\ IsDone(b) => IsDone(b)'
  <2>1. CASE b # c
    BY <2>1, <1>4 DEF StartChange, IsDone, Done
  <2>2. CASE b = c
    <3>1. /\ bs'[b].left = bs[b].left
          /\ bs[b].done => bs'[b].done
          /\ bs[b].status # "ok" => bs'[b].status # "ok"
      BY <2>2, <1>1, <1>4 DEF StartChange, BackendStates
    <3> QED
      BY <3>1 DEF IsDone, Done
  <2> QED
    BY <2>1, <2>2
<1>5. ASSUME NEW r, NEW w, IsReport(r), w \in BOOLEAN, Handle(r, w)
      PROVE  /\ bs[b].done => bs'[b].done
             /\ bs[b].status # "ok" => bs'[b].status # "ok"
             /\ bs'[b].left \subseteq bs[b].left
             /\ IsDone(b) => IsDone(b)'
  <2>1. bs'[b] = IF b = r.from THEN Applied(r) ELSE bs[b]
    BY <1>5, HandleHandlers
  <2>2. CASE b # r.from \/ IsDone(b)
    BY <2>1, <2>2 DEF Applied, IsDone, Done
  <2>3. CASE b = r.from /\ ~IsDone(b)
    <3>1. /\ Applied(r).left = bs[b].left \ Counted(r) /\ Applied(r).done = bs[b].done
      BY <2>3, <1>1 DEF Applied, BackendStates
    <3>2. bs[b].status = "ok"
      BY <2>3 DEF IsDone, Done
    <3> QED
      BY <2>1, <2>3, <3>1, <3>2
  <2> QED
    BY <2>2, <2>3
<1> QED
  BY <1>2, <1>3, <1>4, <1>5, BackendStep

-----------------------------------------------------------------------------
(* Starting.                                                               *)

LEMMA ExecEnters ==
    ASSUME TypeOK, NEW t, NEW state, NEW status,
           state # "EXECUTING",
           \/ EnterState(t, state, status)
           \/ UpdateExecState(t, status)
           \/ SetNonErrorTerminalState(t, state)
    PROVE  \/ exec' = exec /\ ending' = ending
           \/ /\ exec.state = "EXECUTING" /\ exec'.state # "EXECUTING"
              /\ ending'.at = "enter" /\ ending'.free = ending.free
           \/ exec.state = "ERROR" /\ exec'.state = "ERROR" /\ ending' = ending
<1>1. ASSUME NEW x, NEW y, x # "EXECUTING", EnterState(t, x, y)
      PROVE  /\ exec.state = "EXECUTING" /\ exec'.state # "EXECUTING"
             /\ ending'.at = "enter" /\ ending'.free = ending.free
  BY <1>1 DEF EnterState, TypeOK, ControlType
<1>2. CASE EnterState(t, state, status)
  BY <1>1, <1>2
<1>3. CASE UpdateExecState(t, status)
  <2>1. CASE EnterState(t, "ERROR", status)
    BY <2>1, <1>1
  <2>2. CASE ~EnterState(t, "ERROR", status)
    BY <2>2, <1>3 DEF UpdateExecState, TypeOK, ControlType
  <2> QED
    BY <2>1, <2>2
<1>4. CASE SetNonErrorTerminalState(t, state)
  BY <1>4, <1>1 DEF SetNonErrorTerminalState
<1> QED
  BY <1>2, <1>3, <1>4

\* exec_state_ leaves EXECUTING once, when no Exec() RPC is under way.
LEMMA ExecStep ==
    ASSUME TypeOK, StartInv, [Next]_vars
    PROVE  \/ exec' = exec /\ ending' = ending
           \/ /\ exec.state = "EXECUTING" /\ exec'.state # "EXECUTING"
              /\ ending'.at = "enter" /\ ending'.free = ending.free
              /\ ExecRpcsComplete
           \/ exec.state = "ERROR" /\ exec'.state = "ERROR" /\ ending' = ending
           \/ /\ EndQuery \/ CloseAndGetUnreleasedBackends \/ ReleaseUnreleased
                    \/ ReleaseQueryAdmissionControlResources
              /\ exec' = exec /\ ending.at # "none" /\ ending'.at # "none"
<1>1. CASE EndQuery \/ CloseAndGetUnreleasedBackends \/ ReleaseUnreleased
           \/ ReleaseQueryAdmissionControlResources
  BY <1>1 DEF EndQuery, CloseAndGetUnreleasedBackends, ReleaseUnreleased,
     ReleaseQueryAdmissionControlResources, TypeOK, ControlType
<1>2. CASE FinishBackendStartup
  <2>1. ExecRpcsComplete /\ \E s : UpdateExecState("main", s)
    BY <1>2 DEF FinishBackendStartup
  <2> QED
    BY <2>1, ExecEnters
<1>3. CASE GetNext \/ FinishDml
  <2>1. /\ ExecRpcsComplete
        /\ \/ SetNonErrorTerminalState("main", "RETURNED_RESULTS")
           \/ \E s : UpdateExecState("main", s)
    BY <1>3 DEF GetNext, FinishDml, StartInv
  <2>2. CASE SetNonErrorTerminalState("main", "RETURNED_RESULTS")
    BY <2>1, <2>2, ExecEnters
  <2>3. CASE \E s : UpdateExecState("main", s)
    BY <2>1, <2>3, ExecEnters
  <2> QED
    BY <2>1, <2>2, <2>3
<1>4. CASE Cancel \/ CancelUnresponsive
  <2>1. /\ ExecRpcsComplete
        /\ UNCHANGED <<exec, ending>> \/ EnterState("client", "CANCELLED", "cancelled")
    BY <1>4 DEF Cancel, CancelUnresponsive, StartInv
  <2> QED
    BY <2>1, ExecEnters
<1>5. CASE \E b \in Backends : UpdateStatus(b)
  <2>1. PICK b \in Backends : ExecRpcsComplete /\ UpdateExecState(b, bs[b].status)
    BY <1>5 DEF UpdateStatus
  <2> QED
    BY <2>1, ExecEnters
<1>6. CASE UNCHANGED <<exec, ending>>
  BY <1>6
<1>7. CASE WaitOnBarrier \/ AbortStartup \/ FinalizeHdfsDml
  BY <1>6, <1>7 DEF WaitOnBarrier, AbortStartup, FinalizeHdfsDml, ending_vars
<1>8. CASE \E b \in Backends : ExecAsync(b) \/ StartFInstances(b) \/ ExecCompleteCb(b)
                              \/ StartReport(b) \/ ReportExecStatus(b) \/ Crash(b)
                              \/ \E i \in Instances : EndInstance(b, i) \/ Stall(b, i)
  BY <1>6, <1>8 DEF ExecAsync, StartFInstances, ExecCompleteCb, StartReport, ReportExecStatus,
     Crash, EndInstance, Stall, coordinator, ending_vars
<1>9. CASE \E b \in Backends : TellError(b) \/ NotifyComplete(b) \/ MarkBackendFinished(b)
                              \/ ReleaseFinished(b)
  BY <1>6, <1>9 DEF TellError, NotifyComplete, MarkBackendFinished, ReleaseFinished, ending_vars
<1>10. CASE (\E r \in late : HandleLate(r)) \/ UNCHANGED vars
  BY <1>6, <1>10 DEF HandleLate, vars, coordinator, ending_vars
<1> QED
  BY <1>1, <1>2, <1>3, <1>4, <1>5, <1>7, <1>8, <1>9, <1>10 DEF Next

LEMMA PendingFacts ==
    ASSUME TypeOK, StartInv
    PROVE  /\ ExecRpcsComplete <=> Pending = {}
           /\ ExecRpcsComplete => rpcs.status # "unset"
           /\ rpcs.pending \in Int /\ Cardinality(Pending) \in Nat
           /\ rpcs.pending <= 0 <=> rpcs.status # "unset"
<1>1. Cardinality(Pending) \in Nat /\ (Cardinality(Pending) = 0 <=> Pending = {})
  BY CardinalityFacts DEF Pending
<1>2. ExecRpcsComplete <=> Pending = {}
  BY DEF ExecRpcsComplete, Pending
<1>3. rpcs.pending \in Int /\ (rpcs.pending <= 0 <=> rpcs.status # "unset")
  BY DEF TypeOK, ControlType
<1> QED
  BY <1>1, <1>2, <1>3 DEF StartInv

\* What a step may do to the barrier of the Exec() RPCs.
LEMMA RpcsStep ==
    ASSUME TypeOK, StartInv, DoneInv, [Next]_vars
    PROVE  \/ /\ rpcs' = rpcs
              /\ rpcs.status # "unset" \/ \A b \in Backends : bs'[b].done = bs[b].done
           \/ /\ rpcs.status # "unset" /\ rpcs'.status = rpcs.status
           \/ /\ rpcs.status = "unset"
              /\ rpcs'.status \notin {"ok", "unset"}
           \/ /\ rpcs.status = "unset"
              /\ \E b \in Pending :
                    /\ Pending' = Pending \ {b}
                    /\ rpcs'.pending = rpcs.pending - 1
                    /\ rpcs'.status = IF rpcs.pending = 1 THEN "ok" ELSE "unset"
<1>a. bs \in [Backends -> BackendStates] /\ (rpcs.pending <= 0 <=> rpcs.status # "unset")
  BY DEF TypeOK, BackendStatesType, ControlType
<1>b. ASSUME NEW b \in Backends, bs' = [bs EXCEPT ![b].done = TRUE], ~bs[b].done, Notify("ok")
      PROVE  \/ rpcs.status # "unset" /\ rpcs'.status = rpcs.status
             \/ /\ rpcs.status = "unset"
                /\ \E c \in Pending :
                      /\ Pending' = Pending \ {c}
                      /\ rpcs'.pending = rpcs.pending - 1
                      /\ rpcs'.status = IF rpcs.pending = 1 THEN "ok" ELSE "unset"
  <2>1. b \in Pending /\ Pending' = Pending \ {b}
    BY <1>a, <1>b DEF Pending, BackendStates
  <2>2. /\ rpcs'.pending = rpcs.pending - 1
        /\ rpcs'.status = IF rpcs.pending = 1 THEN "ok" ELSE rpcs.status
    BY <1>b DEF Notify
  <2> QED
    BY <1>a, <2>1, <2>2
<1>c. ASSUME NEW s, s \notin {"ok", "unset"}, NotifyRemaining(s)
      PROVE  \/ /\ rpcs.status # "unset" /\ rpcs'.status = rpcs.status
             \/ /\ rpcs.status = "unset"
                /\ rpcs'.status \notin {"ok", "unset"}
  BY <1>a, <1>c DEF NotifyRemaining, TypeOK, ControlType
<1>1. CASE EndQuery \/ AbortStartup \/ Cancel \/ CancelUnresponsive
  <2>1. rpcs' = rpcs
    BY <1>1 DEF EndQuery, AbortStartup, Cancel, CancelUnresponsive
  <2>2. rpcs.status # "unset"
    BY <1>1, PendingFacts DEF EndQuery, AbortStartup, Cancel, CancelUnresponsive, StartInv
  <2> QED
    BY <2>1, <2>2
<1>2. CASE \E b \in Backends : ExecAsync(b)
  <2>1. PICK b \in Backends : ExecAsync(b)
    BY <1>2
  <2>2. \/ bs' = [bs EXCEPT ![b].done = TRUE] /\ ~bs[b].done /\ Notify("ok")
        \/ bs' = [bs EXCEPT ![b].sent = TRUE] /\ UNCHANGED rpcs
    BY <2>1 DEF ExecAsync
  <2>3. CASE bs' = [bs EXCEPT ![b].sent = TRUE] /\ UNCHANGED rpcs
    BY <2>3, <1>a DEF BackendStates
  <2> QED
    BY <2>2, <2>3, <1>b
<1>3. CASE \E b \in Backends : ExecCompleteCb(b)
  <2>1. PICK b \in Backends : ExecCompleteCb(b)
    BY <1>3
  <2>2. \/ bs' = [bs EXCEPT ![b].done = TRUE] /\ ~bs[b].done /\ Notify("ok")
        \/ NotifyRemaining("error") \/ NotifyRemaining("cancelled")
    BY <2>1 DEF ExecCompleteCb
  <2> QED
    BY <2>2, <1>b, <1>c
<1>4. CASE \E b \in Backends : TellError(b)
  <2>1. PICK b \in Backends : TellError(b)
    BY <1>4
  <2>2. (NotifyRemaining(bs[b].status) \/ UNCHANGED rpcs) /\ UNCHANGED bs
    BY <2>1 DEF TellError
  <2>3. bs[b].status \notin {"ok", "unset"}
    BY <2>1, <1>a DEF TellError, DoneInv, BackendStates, Statuses
  <2> QED
    BY <2>2, <2>3, <1>c
<1>5. CASE rpcs' = rpcs /\ \A b \in Backends : bs'[b].done = bs[b].done
  BY <1>5
<1>6. ASSUME NEW r, NEW w, IsReport(r), w \in BOOLEAN, Handle(r, w), UNCHANGED rpcs
      PROVE  rpcs' = rpcs /\ \A b \in Backends : bs'[b].done = bs[b].done
  <2>1. Applied(r).done = bs[r.from].done
    BY <1>6, <1>a DEF Applied, BackendStates, IsReport
  <2> QED
    BY <1>6, <2>1, HandleHandlers
<1>7. CASE \E b \in Backends : ReportExecStatus(b)
  <2>1. PICK b \in Backends : ReportExecStatus(b)
    BY <1>7
  <2>2. IsReport(ReportOf(b)) /\ UNCHANGED rpcs
    BY <2>1, ReportType DEF ReportExecStatus
  <2>3. (\E w \in BOOLEAN : Handle(ReportOf(b), w)) \/ UNCHANGED bs
    BY <2>1 DEF ReportExecStatus
  <2> QED
    BY <2>2, <2>3, <1>5, <1>6
<1>8. CASE \E r \in late : HandleLate(r)
  BY <1>5, <1>6, <1>8 DEF HandleLate, TypeOK, ExecutorsType
<1>9. CASE \/ CloseAndGetUnreleasedBackends \/ ReleaseUnreleased
           \/ ReleaseQueryAdmissionControlResources \/ WaitOnBarrier \/ FinishBackendStartup
           \/ GetNext \/ FinalizeHdfsDml \/ FinishDml
  BY <1>5, <1>9 DEF CloseAndGetUnreleasedBackends, ReleaseUnreleased,
     ReleaseQueryAdmissionControlResources, WaitOnBarrier, FinishBackendStartup, GetNext,
     FinalizeHdfsDml, FinishDml
<1>10. CASE \E b \in Backends : StartFInstances(b) \/ StartReport(b) \/ Crash(b)
                              \/ \E i \in Instances : EndInstance(b, i) \/ Stall(b, i)
  BY <1>5, <1>10 DEF StartFInstances, StartReport, Crash, EndInstance, Stall, coordinator
<1>11. CASE \E b \in Backends : UpdateStatus(b) \/ NotifyComplete(b)
                              \/ MarkBackendFinished(b) \/ ReleaseFinished(b)
  BY <1>5, <1>11 DEF UpdateStatus, NotifyComplete, MarkBackendFinished, ReleaseFinished
<1>12. CASE UNCHANGED vars
  BY <1>5, <1>12 DEF vars, coordinator
<1> QED
  BY <1>1, <1>2, <1>3, <1>4, <1>7, <1>8, <1>9, <1>10, <1>11, <1>12 DEF Next

LEMMA MainStep ==
    ASSUME [Next]_vars
    PROVE  \/ main' = main
           \/ /\ main = "exec" /\ rpcs.pending <= 0
              /\ main' = IF rpcs.status = "ok" THEN "finish" ELSE "abort"
           \/ main = "abort" /\ main' = "aborted"
           \/ /\ main \in {"aborted", "finish"} /\ ExecRpcsComplete
              /\ main' = "done" \/ (main = "finish" /\ main' = "running")
           \/ main = "running" /\ main' \in {"finalized", "done"}
           \/ main = "finalized" /\ main' = "done"
<1>1. CASE WaitOnBarrier \/ AbortStartup \/ GetNext \/ FinalizeHdfsDml \/ FinishDml
  BY <1>1 DEF WaitOnBarrier, AbortStartup, GetNext, FinalizeHdfsDml, FinishDml
<1>6. CASE FinishBackendStartup
  <2>1. main \in {"aborted", "finish"} /\ ExecRpcsComplete
    BY <1>6 DEF FinishBackendStartup
  <2>2. main' = IF main = "finish" /\ exec'.status = "ok" THEN "running" ELSE "done"
    BY <1>6, Zenon DEF FinishBackendStartup
  <2> QED
    BY <2>1, <2>2
<1>2. CASE EndQuery \/ Cancel \/ CancelUnresponsive \/ CloseAndGetUnreleasedBackends
           \/ ReleaseUnreleased \/ ReleaseQueryAdmissionControlResources
  BY <1>2 DEF EndQuery, Cancel, CancelUnresponsive, CloseAndGetUnreleasedBackends,
     ReleaseUnreleased, ReleaseQueryAdmissionControlResources
<1>3. CASE \E b \in Backends : ExecAsync(b) \/ StartFInstances(b) \/ ExecCompleteCb(b)
                              \/ StartReport(b) \/ ReportExecStatus(b) \/ Crash(b)
                              \/ \E i \in Instances : EndInstance(b, i) \/ Stall(b, i)
  BY <1>3 DEF ExecAsync, StartFInstances, ExecCompleteCb, StartReport, ReportExecStatus, Crash,
     EndInstance, Stall, coordinator
<1>4. CASE \E b \in Backends : TellError(b) \/ UpdateStatus(b) \/ NotifyComplete(b)
                              \/ MarkBackendFinished(b) \/ ReleaseFinished(b)
  BY <1>4 DEF TellError, UpdateStatus, NotifyComplete, MarkBackendFinished, ReleaseFinished
<1>5. CASE (\E r \in late : HandleLate(r)) \/ UNCHANGED vars
  BY <1>5 DEF HandleLate, vars, coordinator
<1> QED
  BY <1>1, <1>2, <1>3, <1>4, <1>5, <1>6 DEF Next

LEMMA StartInit == Init => StartInv
<1> SUFFICES ASSUME Init PROVE StartInv
  OBVIOUS
<1>1. Pending = Backends
  BY DEF Init, Pending
<1> QED
  BY <1>1 DEF Init, StartInv

LEMMA StartStep == ASSUME TypeOK, StartInv, DoneInv, [Next]_vars PROVE StartInv'
<1>1. ExecRpcsComplete => ExecRpcsComplete'
  BY Monotone DEF ExecRpcsComplete
<1>2. rpcs.status # "unset" => rpcs'.status = rpcs.status
  BY RpcsStep
<1>3. rpcs'.status = "unset" => rpcs'.pending = Cardinality(Pending)'
  <2> SUFFICES ASSUME rpcs'.status = "unset" PROVE rpcs'.pending = Cardinality(Pending')
    OBVIOUS
  <2>1. rpcs.status = "unset"
    BY RpcsStep
  <2>2. rpcs.pending = Cardinality(Pending)
    BY <2>1 DEF StartInv
  <2>3. CASE rpcs' = rpcs /\ \A b \in Backends : bs'[b].done = bs[b].done
    <3>1. Pending' = Pending
      BY <2>3 DEF Pending
    <3> QED
      BY <2>2, <2>3, <3>1
  <2>4. ASSUME NEW b \in Pending, Pending' = Pending \ {b}, rpcs'.pending = rpcs.pending - 1
        PROVE  rpcs'.pending = Cardinality(Pending')
    <3>1. Pending \in SUBSET Backends
      BY DEF Pending
    <3>2. Cardinality(Pending \ {b}) = Cardinality(Pending) - 1
      BY <3>1, <2>4, CardinalityFacts
    <3> QED
      BY <2>2, <2>4, <3>2
  <2> QED
    BY <2>1, <2>3, <2>4, RpcsStep
<1>4. rpcs'.status = "ok" => ExecRpcsComplete'
  <2> SUFFICES ASSUME rpcs'.status = "ok" PROVE ExecRpcsComplete'
    OBVIOUS
  <2>1. CASE rpcs.status = "ok"
    BY <2>1, <1>1 DEF StartInv
  <2>2. CASE rpcs.status # "ok"
    <3>1. rpcs.status = "unset"
      BY <2>2, <1>2
    <3>2. PICK b \in Pending : Pending' = Pending \ {b} /\ rpcs.pending = 1
      BY <3>1, RpcsStep
    <3>3. Cardinality(Pending \ {b}) = 0
      BY <3>1, <3>2, CardinalityFacts DEF StartInv, Pending
    <3>4. Pending' = {}
      BY <3>2, <3>3, CardinalityFacts DEF Pending
    <3> QED
      BY <3>4 DEF Pending, ExecRpcsComplete
  <2> QED
    BY <2>1, <2>2
<1>5. /\ main' \in {"finish", "running", "finalized"} => rpcs'.status = "ok"
      /\ main' \in {"abort", "aborted"} => rpcs'.status \notin {"ok", "unset"}
  <2>1. rpcs.pending <= 0 => rpcs.status # "unset"
    BY PendingFacts
  <2> QED
    BY <1>2, <2>1, MainStep DEF StartInv
<1>6. main' \in {"running", "finalized", "done"} => ExecRpcsComplete'
  BY <1>1, MainStep DEF StartInv
<1>7. /\ exec'.state = "EXECUTING" <=> ending'.at = "none"
      /\ ending'.at # "none" => ExecRpcsComplete'
  BY <1>1, ExecStep DEF StartInv
<1> QED
  BY <1>3, <1>4, <1>5, <1>6, <1>7 DEF StartInv

-----------------------------------------------------------------------------
(* The handlers of final reports.                                          *)

\* What a step may do to the handler of b's final report.
Completed(b) ==
    /\ ~IsDone(b) /\ IsDone(b)' /\ handler'[b].free = {}
    /\ handler'[b].at = IF bs'[b].status = "ok" THEN "notify" ELSE "error"
Goes(b, at, to) == handler[b].at = at /\ handler'[b].at = to
HandlerChange(b) ==
    \/ handler'[b] = handler[b]
    \/ Completed(b)
    \/ /\ bs' = bs /\ handler'[b].free = handler[b].free
       /\ \/ Goes(b, "error", "update")
          \/ Goes(b, "update", "notify") /\ exec'.state # "EXECUTING"
          \/ Goes(b, "notify", "mark") /\ complete' = complete - 1
          \/ Goes(b, "mark", "idle")
    \/ bs' = bs /\ Goes(b, "mark", "release") /\ handler'[b].free = PendingWith(b)
    \/ bs' = bs /\ Goes(b, "release", "idle") /\ handler'[b].free = {}

LEMMA HandleChange ==
    ASSUME TypeOK, NEW r, IsReport(r), NEW w \in BOOLEAN, Handle(r, w), NEW b \in Backends
    PROVE  handler'[b] = handler[b] \/ Completed(b)
<1>1. CASE b # r.from \/ ~Completes(r)
  BY <1>1, HandleHandlers
<1>2. CASE b = r.from /\ Completes(r)
  <2>1. bs'[b] = Applied(r) /\ ~IsDone(b) /\ IsDone(b)'
    BY <1>2, HandleHandlers DEF Completes, IsDone
  <2>2. handler'[b] = [at |-> IF Applied(r).status = "ok" THEN "notify" ELSE "error",
                       free |-> {}, waits |-> w]
    BY <1>2, HandleHandlers
  <2> QED
    BY <2>1, <2>2 DEF Completed
<1> QED
  BY <1>1, <1>2

LEMMA HandlerStep ==
    ASSUME TypeOK, DoneInv, [Next]_vars, NEW b \in Backends
    PROVE  HandlerChange(b)
<1>a. handler \in [Backends -> Handlers]
  BY DEF TypeOK, HandlersType
<1>b. ASSUME NEW c \in Backends, NEW at, handler' = [handler EXCEPT ![c].at = at]
      PROVE  \/ handler'[b] = handler[b]
             \/ c = b /\ handler'[b].at = at /\ handler'[b].free = handler[b].free
  BY <1>a, <1>b DEF Handlers
<1>1. CASE handler' = handler
  BY <1>1 DEF HandlerChange
<1>2. CASE \E c \in Backends : TellError(c)
  <2>1. PICK c \in Backends : TellError(c)
    BY <1>2
  <2>2. bs' = bs /\ handler[c].at = "error" /\ handler' = [handler EXCEPT ![c].at = "update"]
    BY <2>1 DEF TellError, Goto
  <2> QED
    BY <2>2, <1>b DEF HandlerChange, Goes
<1>3. CASE \E c \in Backends : UpdateStatus(c)
  <2>1. PICK c \in Backends : UpdateStatus(c)
    BY <1>3
  <2>2. bs' = bs /\ handler[c].at = "update" /\ handler' = [handler EXCEPT ![c].at = "notify"]
    BY <2>1 DEF UpdateStatus, Goto
  <2>3. exec'.state # "EXECUTING"
    <3>1. UpdateExecState(c, bs[c].status) /\ bs[c].status # "ok"
      BY <2>1 DEF UpdateStatus, DoneInv
    <3> QED
      BY <3>1 DEF UpdateExecState, EnterState, TypeOK, ControlType
  <2> QED
    BY <2>2, <2>3, <1>b DEF HandlerChange, Goes
<1>4. CASE \E c \in Backends : NotifyComplete(c)
  <2>1. PICK c \in Backends : NotifyComplete(c)
    BY <1>4
  <2>2. /\ bs' = bs /\ handler[c].at = "notify" /\ handler' = [handler EXCEPT ![c].at = "mark"]
        /\ complete' = complete - 1
    BY <2>1 DEF NotifyComplete, Goto
  <2> QED
    BY <2>2, <1>b DEF HandlerChange, Goes
<1>5. CASE \E c \in Backends : MarkBackendFinished(c)
  <2>1. PICK c \in Backends : MarkBackendFinished(c)
    BY <1>5
  <2>2. /\ bs' = bs /\ handler[c].at = "mark"
        /\ \/ handler' = [handler EXCEPT ![c].at = "idle"]
           \/ handler' = [handler EXCEPT ![c].at = "release", ![c].free = PendingWith(c)]
    BY <2>1, MarkStep, Zenon DEF Marked
  <2>3. CASE handler' = [handler EXCEPT ![c].at = "idle"]
    BY <2>2, <2>3, <1>b DEF HandlerChange, Goes
  <2>4. CASE handler' = [handler EXCEPT ![c].at = "release", ![c].free = PendingWith(c)]
    <3>1. \/ handler'[b] = handler[b]
          \/ b = c /\ handler'[b].at = "release" /\ handler'[b].free = PendingWith(b)
      BY <2>4, <1>a DEF Handlers
    <3> QED
      BY <2>2, <3>1 DEF HandlerChange, Goes
  <2> QED
    BY <2>2, <2>3, <2>4
<1>6. CASE \E c \in Backends : ReleaseFinished(c)
  <2>1. PICK c \in Backends : ReleaseFinished(c)
    BY <1>6
  <2>2. /\ bs' = bs /\ handler[c].at = "release"
        /\ handler' = [handler EXCEPT ![c].at = "idle", ![c].free = {}]
    BY <2>1 DEF ReleaseFinished
  <2>3. \/ handler'[b] = handler[b]
        \/ b = c /\ handler'[b].at = "idle" /\ handler'[b].free = {}
    BY <2>2, <1>a DEF Handlers
  <2> QED
    BY <2>2, <2>3 DEF HandlerChange, Goes
<1>7. CASE \E c \in Backends : ReportExecStatus(c)
  <2>1. PICK c \in Backends : ReportExecStatus(c)
    BY <1>7
  <2>2. IsReport(ReportOf(c))
    BY <2>1, ReportType DEF ReportExecStatus
  <2>3. (\E w \in BOOLEAN : Handle(ReportOf(c), w)) \/ UNCHANGED handler
    BY <2>1 DEF ReportExecStatus
  <2> QED
    BY <2>2, <2>3, HandleChange DEF HandlerChange
<1>8. CASE \E r \in late : HandleLate(r)
  <2>1. \E r \in late : IsReport(r) /\ Handle(r, FALSE)
    BY <1>8 DEF HandleLate, TypeOK, ExecutorsType
  <2> QED
    BY <2>1, HandleChange DEF HandlerChange
<1>9. CASE \/ EndQuery \/ CloseAndGetUnreleasedBackends \/ ReleaseUnreleased
           \/ ReleaseQueryAdmissionControlResources \/ WaitOnBarrier \/ AbortStartup
           \/ FinishBackendStartup \/ GetNext \/ FinalizeHdfsDml \/ FinishDml
           \/ Cancel \/ CancelUnresponsive
  BY <1>1, <1>9 DEF EndQuery, CloseAndGetUnreleasedBackends, ReleaseUnreleased,
     ReleaseQueryAdmissionControlResources, WaitOnBarrier, AbortStartup, FinishBackendStartup,
     GetNext, FinalizeHdfsDml, FinishDml, Cancel, CancelUnresponsive
<1>10. CASE \E c \in Backends : ExecAsync(c) \/ StartFInstances(c) \/ ExecCompleteCb(c)
                              \/ StartReport(c) \/ Crash(c)
                              \/ \E i \in Instances : EndInstance(c, i) \/ Stall(c, i)
  BY <1>1, <1>10 DEF ExecAsync, StartFInstances, ExecCompleteCb, StartReport, Crash, EndInstance,
     Stall, coordinator
<1>11. CASE UNCHANGED vars
  BY <1>1, <1>11 DEF vars, coordinator
<1> QED
  BY <1>2, <1>3, <1>4, <1>5, <1>6, <1>7, <1>8, <1>9, <1>10, <1>11 DEF Next

\* The steps that concern the release of backends, and what the others leave alone.
LEMMA OtherStep ==
    ASSUME TypeOK, StartInv, DoneInv, [Next]_vars
    PROVE  \/ EndQuery \/ CloseAndGetUnreleasedBackends \/ ReleaseUnreleased
              \/ ReleaseQueryAdmissionControlResources
           \/ \E b \in Backends : MarkBackendFinished(b) \/ ReleaseFinished(b)
           \/ /\ UNCHANGED <<res, freed>>
              /\ \/ ending' = ending
                 \/ ending.at = "none" /\ ending'.at = "enter" /\ ending'.free = ending.free
              /\ \A b \in Backends : handler'[b].free = handler[b].free
<1> SUFFICES ASSUME ~(EndQuery \/ CloseAndGetUnreleasedBackends \/ ReleaseUnreleased
                      \/ ReleaseQueryAdmissionControlResources),
                    ~\E b \in Backends : MarkBackendFinished(b) \/ ReleaseFinished(b)
             PROVE  /\ UNCHANGED <<res, freed>>
                    /\ \/ ending' = ending
                       \/ ending.at = "none" /\ ending'.at = "enter" /\ ending'.free = ending.free
                    /\ \A b \in Backends : handler'[b].free = handler[b].free
  OBVIOUS
<1>1. UNCHANGED <<res, freed>>
  <2>1. CASE \/ WaitOnBarrier \/ AbortStartup \/ FinishBackendStartup \/ GetNext
             \/ FinalizeHdfsDml \/ FinishDml \/ Cancel \/ CancelUnresponsive
    BY <2>1 DEF WaitOnBarrier, AbortStartup, FinishBackendStartup,
       GetNext, FinalizeHdfsDml, FinishDml, Cancel, CancelUnresponsive, ending_vars
  <2>2. CASE \E b \in Backends : ExecAsync(b) \/ StartFInstances(b) \/ ExecCompleteCb(b)
                                \/ StartReport(b) \/ Crash(b)
                                \/ \E i \in Instances : EndInstance(b, i) \/ Stall(b, i)
    BY <2>2 DEF ExecAsync, StartFInstances, ExecCompleteCb, StartReport, Crash, EndInstance,
       Stall, coordinator, ending_vars
  <2>3. CASE \E b \in Backends : ReportExecStatus(b) \/ TellError(b) \/ UpdateStatus(b)
                                \/ NotifyComplete(b)
    BY <2>3 DEF ReportExecStatus, TellError, UpdateStatus, NotifyComplete, ending_vars
  <2>4. CASE (\E r \in late : HandleLate(r)) \/ UNCHANGED vars
    BY <2>4 DEF HandleLate, vars, coordinator, ending_vars
  <2> QED
    BY <2>1, <2>2, <2>3, <2>4 DEF Next
<1>2. \/ ending' = ending
      \/ ending.at = "none" /\ ending'.at = "enter" /\ ending'.free = ending.free
  BY ExecStep DEF StartInv
<1>3. ASSUME NEW b \in Backends PROVE handler'[b].free = handler[b].free
  <2>1. CASE Completed(b)
    <3>1. handler[b].at = "idle"
      BY <2>1 DEF Completed, DoneInv
    <3> QED
      BY <3>1, <2>1 DEF Completed, TypeOK, HandlersType
  <2>2. CASE ~Completed(b) /\ handler[b].at \notin {"mark", "release"}
    BY <2>2, HandlerStep DEF HandlerChange, Goes
  <2>3. CASE ~Completed(b) /\ handler[b].at \in {"mark", "release"}
    <3>1. handler' = handler \/ handler'[b] = handler[b]
      <4>1. CASE \/ WaitOnBarrier \/ AbortStartup \/ FinishBackendStartup \/ GetNext
                 \/ FinalizeHdfsDml \/ FinishDml \/ Cancel \/ CancelUnresponsive
        BY <4>1 DEF WaitOnBarrier, AbortStartup, FinishBackendStartup,
           GetNext, FinalizeHdfsDml, FinishDml, Cancel, CancelUnresponsive
      <4>2. CASE \E c \in Backends : ExecAsync(c) \/ StartFInstances(c) \/ ExecCompleteCb(c)
                                    \/ StartReport(c) \/ Crash(c)
                                    \/ \E i \in Instances : EndInstance(c, i) \/ Stall(c, i)
        BY <4>2 DEF ExecAsync, StartFInstances, ExecCompleteCb, StartReport, Crash, EndInstance,
           Stall, coordinator
      <4>3. CASE \E c \in Backends : TellError(c) \/ UpdateStatus(c) \/ NotifyComplete(c)
        <5>1. PICK c \in Backends : TellError(c) \/ UpdateStatus(c) \/ NotifyComplete(c)
          BY <4>3
        <5>2. /\ handler[c].at \in {"error", "update", "notify"}
              /\ \E at : handler' = [handler EXCEPT ![c].at = at]
          BY <5>1 DEF TellError, UpdateStatus, NotifyComplete, Goto
        <5>3. c # b
          BY <5>2, <2>3
        <5> QED
          BY <5>2, <5>3 DEF TypeOK, HandlersType
      <4>4. CASE \E c \in Backends : ReportExecStatus(c)
        <5>1. PICK c \in Backends : ReportExecStatus(c)
          BY <4>4
        <5>2. IsReport(ReportOf(c))
          BY <5>1, ReportType DEF ReportExecStatus
        <5>3. (\E w \in BOOLEAN : Handle(ReportOf(c), w)) \/ UNCHANGED handler
          BY <5>1 DEF ReportExecStatus
        <5> QED
          BY <5>2, <5>3, <2>3, HandleChange
      <4>5. CASE \E r \in late : HandleLate(r)
        <5>1. \E r \in late : IsReport(r) /\ Handle(r, FALSE)
          BY <4>5 DEF HandleLate, TypeOK, ExecutorsType
        <5> QED
          BY <5>1, <2>3, HandleChange
      <4>6. CASE UNCHANGED vars
        BY <4>6 DEF vars, coordinator
      <4> QED
        BY <4>1, <4>2, <4>3, <4>4, <4>5, <4>6 DEF Next
    <3> QED
      BY <3>1
  <2> QED
    BY <2>1, <2>2, <2>3
<1> QED
  BY <1>1, <1>2, <1>3

LEMMA DoneInit == Init => DoneInv
BY DEF Init, DoneInv

LEMMA NotifiedDone ==
    ASSUME TypeOK, complete <= 0, complete = Cardinality(Unnotified)
    PROVE  \A b \in Backends : Notified(b) /\ IsDone(b)
<1>1. Unnotified = {}
  <2>1. Cardinality(Unnotified) \in Nat /\ (Cardinality(Unnotified) = 0 <=> Unnotified = {})
    BY CardinalityFacts DEF Unnotified
  <2> QED
    BY <2>1
<1>2. \A b \in Backends : Notified(b)
  BY <1>1 DEF Unnotified
<1>3. \A b \in Backends : bs[b].left \subseteq InstancesOf(b)
  BY DEF TypeOK, BackendStatesType
<1> QED
  BY <1>2, <1>3 DEF Notified, IsDone, Done

LEMMA DoneStep ==
    ASSUME TypeOK, StartInv, DoneInv, ReleaseInv, CountInv, [Next]_vars
    PROVE  DoneInv'
<1>1. \A b \in Backends : IsDone(b) => IsDone(b)'
  BY Monotone
<1>2. \A b \in Backends : InstancesOf(b)' = InstancesOf(b)
  BY BackendStep DEF InstancesOf
<1>3. ASSUME NEW b \in Backends
      PROVE  /\ handler'[b].at # "idle" => IsDone(b)' /\ InstancesOf(b)' # {}
             /\ handler'[b].at \in {"error", "update"} => bs'[b].status # "ok"
  <2>1. bs[b].status # "ok" => bs'[b].status # "ok"
    BY Monotone
  <2>2. CASE Completed(b)
    <3>1. bs[b].left # {} /\ bs[b].left \subseteq InstancesOf(b)
      BY <2>2 DEF Completed, IsDone, Done, TypeOK, BackendStatesType
    <3> QED
      BY <3>1, <2>2, <1>2 DEF Completed
  <2>3. CASE ~Completed(b)
    BY <2>1, <2>3, <1>1, <1>2, HandlerStep DEF HandlerChange, Goes, DoneInv
  <2> QED
    BY <2>2, <2>3
<1>4. CASE EndQuery
  <2>1. UNCHANGED res
    BY <1>4 DEF EndQuery
  <2>2. \A b \in Backends : IsDone(b)'
    <3>1. CASE exec.state = "RETURNED_RESULTS"
      <4>1. complete <= 0
        BY <1>4, <3>1 DEF EndQuery
      <4> QED
        BY <3>1, <4>1, <1>1, NotifiedDone DEF CountInv
    <3>2. CASE exec.state # "RETURNED_RESULTS"
      BY <1>4, <3>2, CancelledBackend DEF EndQuery
    <3> QED
      BY <3>1, <3>2
  <2> QED
    BY <2>2, <1>3 DEF DoneInv
<1>5. CASE CloseAndGetUnreleasedBackends
  <2>1. res'.state = res.state /\ ending.at = "close"
    BY <1>5 DEF CloseAndGetUnreleasedBackends, TypeOK, ResourcesType
  <2> QED
    BY <2>1, <1>1, <1>3 DEF DoneInv
<1>6. CASE ReleaseUnreleased \/ ReleaseQueryAdmissionControlResources
  <2>1. ending.at \in {"release", "wait"}
    BY <1>6 DEF ReleaseUnreleased, ReleaseQueryAdmissionControlResources
  <2> QED
    BY <2>1, <1>1, <1>3 DEF DoneInv
<1>7. CASE \E b \in Backends : MarkBackendFinished(b)
  <2>1. PICK b \in Backends : MarkBackendFinished(b)
    BY <1>7
  <2>2. handler[b].at = "mark" /\ ending' = ending /\ (res' = res \/ Marked(b))
    BY <2>1, MarkStep
  <2>3. \A c \in Backends : res'.state[c] # "IN_USE" => c = b \/ res.state[c] # "IN_USE"
    <3>1. CASE Marked(b)
      <4>1. res \in [state : [Backends -> {"IN_USE", "PENDING", "RELEASABLE", "RELEASED"}],
                     closed : BOOLEAN, barrier : Int]
        BY DEF TypeOK, ResourcesType
      <4>2. \/ res'.state = [res.state EXCEPT ![b] = "PENDING"]
            \/ res'.state = [c \in Backends |->
                               IF c \in PendingWith(b) THEN "RELEASABLE" ELSE res.state[c]]
        BY <3>1, <4>1 DEF Marked
      <4> QED
        BY <4>1, <4>2 DEF PendingWith
    <3> QED
      BY <2>2, <3>1
  <2> QED
    BY <2>2, <2>3, <1>1, <1>3 DEF DoneInv
<1>8. CASE \E b \in Backends : ReleaseFinished(b)
  <2>1. PICK b \in Backends : ReleaseFinished(b)
    BY <1>8
  <2>2. ending' = ending /\ ReleaseBackends(handler[b].free)
    BY <2>1 DEF ReleaseFinished
  <2>3. res'.state = [c \in Backends |->
                        IF c \in handler[b].free THEN "RELEASED" ELSE res.state[c]]
    BY <2>2 DEF ReleaseBackends, TypeOK, ResourcesType
  <2>4. \A c \in Backends : res'.state[c] # "IN_USE" => res.state[c] # "IN_USE"
    BY <2>3 DEF ReleaseInv
  <2> QED
    BY <2>2, <2>4, <1>1, <1>3 DEF DoneInv
<1>9. CASE /\ UNCHANGED <<res, freed>>
           /\ \/ ending' = ending
              \/ ending.at = "none" /\ ending'.at = "enter" /\ ending'.free = ending.free
  BY <1>9, <1>1, <1>3 DEF DoneInv
<1> QED
  BY <1>4, <1>5, <1>6, <1>7, <1>8, <1>9, OtherStep

-----------------------------------------------------------------------------
(* Releasing.                                                              *)

LEMMA ReleaseBackendsEffect ==
    ASSUME TypeOK, ReleaseInv, NEW S \in SUBSET Backends,
           \A b \in S : res.state[b] # "RELEASED", ReleaseBackends(S)
    PROVE  /\ res'.state = [b \in Backends |-> IF b \in S THEN "RELEASED" ELSE res.state[b]]
           /\ res'.closed = res.closed
           /\ res'.barrier = Cardinality(Unreleased)'
           /\ freed'["all"] = freed["all"]
           /\ \A b \in Backends : freed'[b] = IF res'.state[b] = "RELEASED" THEN 1 ELSE 0
<1>1. /\ res'.state = [b \in Backends |-> IF b \in S THEN "RELEASED" ELSE res.state[b]]
      /\ res'.closed = res.closed /\ res'.barrier = res.barrier - Cardinality(S)
  BY DEF ReleaseBackends, TypeOK, ResourcesType
<1>2. freed' = [b \in Backends \cup {"all"} |-> freed[b] + IF b \in S THEN 1 ELSE 0]
  BY DEF ReleaseBackends, TypeOK, ResourcesType
<1>3. freed'["all"] = freed["all"]
  <2>1. "all" \notin S /\ freed["all"] \in Nat
    BY BackendsFacts DEF TypeOK, ResourcesType
  <2> QED
    BY <1>2, <2>1
<1>4. ASSUME NEW b \in Backends PROVE freed'[b] = IF res'.state[b] = "RELEASED" THEN 1 ELSE 0
  <2>1. freed[b] = IF res.state[b] = "RELEASED" THEN 1 ELSE 0
    BY DEF ReleaseInv
  <2> QED
    BY <1>1, <1>2, <2>1
<1>5. res'.barrier = Cardinality(Unreleased')
  <2>1. Unreleased' = Unreleased \ S /\ Unreleased \cap S = S
    BY <1>1 DEF Unreleased
  <2>2. IsFiniteSet(Unreleased)
    BY CardinalityFacts DEF Unreleased
  <2>3. Cardinality(Unreleased \ S) = Cardinality(Unreleased) - Cardinality(S)
    BY <2>1, <2>2, FS_Difference
  <2> QED
    BY <1>1, <2>1, <2>3 DEF ReleaseInv
<1> QED
  BY <1>1, <1>3, <1>4, <1>5

LEMMA ReleaseInit == Init => ReleaseInv
<1> SUFFICES ASSUME Init PROVE ReleaseInv
  OBVIOUS
<1>1. Unreleased = Backends
  BY DEF Init, Unreleased
<1>2. freed["all"] = 0 /\ \A b \in Backends : freed[b] = 0
  BY DEF Init
<1> QED
  BY <1>1, <1>2 DEF Init, ReleaseInv

LEMMA ReleaseStep == ASSUME TypeOK, StartInv, DoneInv, ReleaseInv, [Next]_vars PROVE ReleaseInv'
<1>a. /\ res \in [state : [Backends -> {"IN_USE", "PENDING", "RELEASABLE", "RELEASED"}],
                  closed : BOOLEAN, barrier : Int]
      /\ freed \in [Backends \cup {"all"} -> Nat]
  BY DEF TypeOK, ResourcesType
<1>b. ending \in [by : Threads, at : {"none", "enter", "close", "release", "wait", "final"},
                  free : SUBSET Backends]
  BY DEF TypeOK, ControlType
<1>c. \A b \in Backends : handler[b].free \subseteq Backends
  BY DEF TypeOK, HandlersType, Handlers
<1>1. CASE EndQuery
  <2>1. UNCHANGED <<res, freed, handler>>
    BY <1>1 DEF EndQuery
  <2>2. ending.at = "enter" /\ ending'.at = "close" /\ ending'.free = ending.free
    BY <1>1, <1>b DEF EndQuery
  <2> QED
    BY <2>1, <2>2 DEF ReleaseInv, Unreleased
<1>2. CASE CloseAndGetUnreleasedBackends
  <2>1. UNCHANGED <<freed, handler>>
    BY <1>2 DEF CloseAndGetUnreleasedBackends
  <2>2. /\ ending.at = "close" /\ ending'.at = "release"
        /\ ending'.free = {b \in Backends : res.state[b] \in {"IN_USE", "PENDING"}}
    BY <1>2, <1>b DEF CloseAndGetUnreleasedBackends
  <2>3. res'.state = res.state /\ res'.closed /\ res'.barrier = res.barrier
    BY <1>2, <1>a DEF CloseAndGetUnreleasedBackends
  <2> QED
    BY <2>1, <2>2, <2>3 DEF ReleaseInv, Unreleased
<1>3. CASE ReleaseUnreleased
  <2>1. /\ UNCHANGED handler /\ ReleaseBackends(ending.free)
        /\ ending.at = "release" /\ ending'.at = "wait" /\ ending'.free = {}
    BY <1>3, <1>b DEF ReleaseUnreleased
  <2>2. ending.free \in SUBSET Backends /\ \A b \in ending.free : res.state[b] # "RELEASED"
    BY <1>b DEF ReleaseInv
  <2>3. /\ res'.state = [b \in Backends |-> IF b \in ending.free THEN "RELEASED" ELSE res.state[b]]
        /\ res'.closed = res.closed
        /\ res'.barrier = Cardinality(Unreleased)'
        /\ freed'["all"] = freed["all"]
        /\ \A b \in Backends : freed'[b] = IF res'.state[b] = "RELEASED" THEN 1 ELSE 0
    BY <2>1, <2>2, ReleaseBackendsEffect
  <2>4. \A b \in Backends : \A c \in handler[b].free :
           c \notin ending.free /\ res'.state[c] = "RELEASABLE"
    BY <2>3, <1>c DEF ReleaseInv
  <2> QED
    BY <2>1, <2>3, <2>4 DEF ReleaseInv
<1>4. CASE ReleaseQueryAdmissionControlResources
  <2>1. /\ UNCHANGED <<handler, res>> /\ res.barrier <= 0
        /\ ending.at = "wait" /\ ending'.at = "final" /\ ending'.free = ending.free
    BY <1>4, <1>b DEF ReleaseQueryAdmissionControlResources
  <2>2. freed'["all"] = 1 /\ \A b \in Backends : freed'[b] = freed[b]
    <3>1. freed' = [freed EXCEPT !["all"] = @ + 1] /\ freed["all"] = 0
      BY <1>4, <2>1 DEF ReleaseQueryAdmissionControlResources, ReleaseInv
    <3> QED
      BY <3>1, <1>a, BackendsFacts
  <2>3. \A b \in Backends : res.state[b] = "RELEASED"
    <3>1. Cardinality(Unreleased) \in Nat /\ (Cardinality(Unreleased) = 0 <=> Unreleased = {})
      BY CardinalityFacts DEF Unreleased
    <3>2. Unreleased = {}
      BY <2>1, <3>1 DEF ReleaseInv
    <3> QED
      BY <3>2 DEF Unreleased
  <2> QED
    BY <2>1, <2>2, <2>3 DEF ReleaseInv, Unreleased
<1>5. CASE \E b \in Backends : MarkBackendFinished(b)
  <2>1. PICK b \in Backends : MarkBackendFinished(b)
    BY <1>5
  <2>2. /\ handler[b].at = "mark" /\ UNCHANGED <<ending, freed>>
        /\ \/ UNCHANGED res /\ handler' = [handler EXCEPT ![b].at = "idle"]
           \/ Marked(b)
    BY <2>1, MarkStep
  <2>3. handler[b].free = {}
    BY <2>2 DEF TypeOK, HandlersType
  <2>4. \A c \in Backends : c # b => handler'[c].free = handler[c].free
    BY <2>2 DEF Marked, TypeOK, HandlersType
  <2>5. CASE UNCHANGED res /\ handler' = [handler EXCEPT ![b].at = "idle"]
    <3>1. \A c \in Backends : handler'[c].free = handler[c].free
      BY <2>4, <2>5 DEF TypeOK, HandlersType, Handlers
    <3> QED
      BY <2>2, <2>5, <3>1 DEF ReleaseInv, Unreleased
  <2>6. CASE Marked(b) /\ handler' = [handler EXCEPT ![b].at = "idle"]
    <3>1. \A c \in Backends : handler'[c].free = handler[c].free
      BY <2>4, <2>6 DEF TypeOK, HandlersType, Handlers
    <3>2. /\ ~res.closed /\ res.state[b] = "IN_USE"
          /\ res' = [res EXCEPT !.state = [@ EXCEPT ![b] = "PENDING"]]
      <4>1. handler'[b].at # "release"
        BY <2>6 DEF TypeOK, HandlersType, Handlers
      <4>2. handler' # [handler EXCEPT ![b].at = "release", ![b].free = PendingWith(b)]
        BY <4>1 DEF TypeOK, HandlersType, Handlers
      <4> QED
        BY <2>6, <4>2 DEF Marked
    <3>3. /\ res'.state = [res.state EXCEPT ![b] = "PENDING"]
          /\ res'.closed = res.closed /\ res'.barrier = res.barrier
      BY <3>2, <1>a
    <3>4. /\ Unreleased' = Unreleased
          /\ \A c \in Backends : res'.state[c] = "RELEASED" <=> res.state[c] = "RELEASED"
          /\ \A c \in Backends : res.state[c] = "RELEASABLE" => res'.state[c] = "RELEASABLE"
      BY <3>2, <3>3, <1>a DEF Unreleased
    <3>5. ending.at \notin {"release", "wait", "final"} /\ ending.free = {}
      BY <3>2 DEF ReleaseInv
    <3> QED
      BY <2>2, <3>1, <3>2, <3>3, <3>4, <3>5, <1>c DEF ReleaseInv
  <2>7. CASE /\ Marked(b)
             /\ handler' = [handler EXCEPT ![b].at = "release", ![b].free = PendingWith(b)]
    <3>1. handler'[b].free = PendingWith(b)
      BY <2>7 DEF TypeOK, HandlersType, Handlers
    <3>2. /\ ~res.closed /\ res.state[b] = "IN_USE"
          /\ res' = [res EXCEPT !.state = [c \in Backends |->
                       IF c \in PendingWith(b) THEN "RELEASABLE" ELSE @[c]]]
      <4>1. handler'[b].at = "release"
        BY <2>7 DEF TypeOK, HandlersType, Handlers
      <4>2. handler' # [handler EXCEPT ![b].at = "idle"]
        BY <4>1 DEF TypeOK, HandlersType, Handlers
      <4> QED
        BY <2>7, <4>2 DEF Marked
    <3>3. /\ res'.state = [c \in Backends |->
                             IF c \in PendingWith(b) THEN "RELEASABLE" ELSE res.state[c]]
          /\ res'.closed = res.closed /\ res'.barrier = res.barrier
      BY <3>2, <1>a
    <3>4. /\ Unreleased' = Unreleased
          /\ \A c \in Backends : res'.state[c] = "RELEASED" <=> res.state[c] = "RELEASED"
          /\ \A c \in Backends : res.state[c] = "RELEASABLE" => res'.state[c] = "RELEASABLE"
          /\ \A c \in PendingWith(b) : c \in Backends /\ res.state[c] # "RELEASABLE"
          /\ \A c \in PendingWith(b) : res'.state[c] = "RELEASABLE"
      BY <3>2, <3>3, <1>a DEF Unreleased, PendingWith
    <3>5. ending.at \notin {"release", "wait", "final"} /\ ending.free = {}
      BY <3>2 DEF ReleaseInv
    <3>6. \A c \in Backends : c # b => handler[c].free \cap PendingWith(b) = {}
      BY <3>4 DEF ReleaseInv
    <3>7. /\ \A c \in Backends : \A d \in handler'[c].free : res'.state[d] = "RELEASABLE"
          /\ \A c, d \in Backends : c # d => handler'[c].free \cap handler'[d].free = {}
      BY <2>4, <3>1, <3>4, <3>6, <1>c DEF ReleaseInv
    <3> QED
      BY <2>2, <3>2, <3>3, <3>4, <3>5, <3>7 DEF ReleaseInv
  <2> QED
    BY <2>2, <2>5, <2>6, <2>7 DEF Marked
<1>6. CASE \E b \in Backends : ReleaseFinished(b)
  <2>1. PICK b \in Backends : ReleaseFinished(b)
    BY <1>6
  <2>2. /\ ending' = ending /\ ReleaseBackends(handler[b].free)
        /\ handler' = [handler EXCEPT ![b].at = "idle", ![b].free = {}]
    BY <2>1 DEF ReleaseFinished
  <2>3. handler[b].free \in SUBSET Backends /\ \A c \in handler[b].free : res.state[c] # "RELEASED"
    BY <1>c DEF ReleaseInv
  <2>4. /\ res'.state = [c \in Backends |-> IF c \in handler[b].free THEN "RELEASED"
                                            ELSE res.state[c]]
        /\ res'.closed = res.closed
        /\ res'.barrier = Cardinality(Unreleased)'
        /\ freed'["all"] = freed["all"]
        /\ \A c \in Backends : freed'[c] = IF res'.state[c] = "RELEASED" THEN 1 ELSE 0
    BY <2>2, <2>3, ReleaseBackendsEffect
  <2>5. handler'[b].free = {} /\ \A c \in Backends : c # b => handler'[c].free = handler[c].free
    BY <2>2 DEF TypeOK, HandlersType, Handlers
  <2>6. /\ \A c \in Backends : \A d \in handler'[c].free : res'.state[d] = "RELEASABLE"
        /\ \A c, d \in Backends : c # d => handler'[c].free \cap handler'[d].free = {}
    BY <2>4, <2>5, <1>c DEF ReleaseInv
  <2>7. \A c \in ending.free : c \in Backends /\ res'.state[c] \in {"IN_USE", "PENDING"}
    BY <2>4, <1>b DEF ReleaseInv
  <2>8. ending.at = "final" => \A c \in Backends : res'.state[c] = "RELEASED"
    BY <2>4 DEF ReleaseInv
  <2>9. /\ freed'["all"] = IF ending'.at = "final" THEN 1 ELSE 0
        /\ res'.closed <=> ending'.at \in {"release", "wait", "final"}
        /\ ending'.at # "release" => ending'.free = {}
    BY <2>2, <2>4 DEF ReleaseInv
  <2>10. /\ \A c \in ending'.free : res'.state[c] \in {"IN_USE", "PENDING"}
         /\ ending'.at = "final" => \A c \in Backends : res'.state[c] = "RELEASED"
    BY <2>2, <2>7, <2>8
  <2> QED
    BY <2>4, <2>6, <2>9, <2>10 DEF ReleaseInv
<1>7. CASE /\ UNCHANGED <<res, freed>>
           /\ \/ ending' = ending
              \/ ending.at = "none" /\ ending'.at = "enter" /\ ending'.free = ending.free
           /\ \A b \in Backends : handler'[b].free = handler[b].free
  BY <1>7 DEF ReleaseInv, Unreleased
<1> QED
  BY <1>1, <1>2, <1>3, <1>4, <1>5, <1>6, <1>7, OtherStep

-----------------------------------------------------------------------------
(* The barrier of the backends.                                            *)

Silent(b) == handler[b].at \in {"error", "update", "notify"}

LEMMA UnnotifiedSame ==
    ASSUME kind' = kind, main' \in {"exec", "finish"} <=> main \in {"exec", "finish"},
           \A b \in Backends : InstancesOf(b) # {} =>
              ((IsDone(b)' /\ ~Silent(b)') <=> (IsDone(b) /\ ~Silent(b)))
    PROVE  Unnotified' = Unnotified
BY DEF Unnotified, Notified, Silent, InstancesOf

\* While no Exec() RPC fails and no backend is cancelled, the barrier counts the
\* backends whose handler has not notified it.
LEMMA CountStep ==
    ASSUME TypeOK, StartInv, DoneInv, CountInv, [Next]_vars,
           rpcs.status \in {"unset", "ok"}, rpcs'.status \in {"unset", "ok"},
           exec.state \in {"EXECUTING", "RETURNED_RESULTS"},
           complete = Cardinality(Unnotified)
    PROVE  \/ CancelBackends /\ exec.state = "RETURNED_RESULTS"
           \/ complete' = Cardinality(Unnotified)'
<1>a. kind' = kind
  BY BackendStep
<1>b. handler \in [Backends -> Handlers]
  BY DEF TypeOK, HandlersType
<1>0. CASE UNCHANGED <<main, complete, bs, handler>>
  <2>1. Unnotified' = Unnotified
    BY <1>0, <1>a, UnnotifiedSame DEF Silent, IsDone, Done
  <2> QED
    BY <1>0, <2>1
<1>1. CASE EndQuery
  BY <1>0, <1>1 DEF EndQuery, StartInv
<1>2. CASE Cancel \/ CancelUnresponsive
  BY <1>0, <1>2 DEF Cancel, CancelUnresponsive
<1>3. CASE AbortStartup
  BY <1>3 DEF AbortStartup, StartInv
<1>4. CASE FinishBackendStartup
  <2> DEFINE Empty == {b \in Backends : InstancesOf(b) = {}}
  <2>1. CASE main = "aborted"
    BY <2>1 DEF StartInv
  <2>2. CASE main = "finish"
    <3>1. /\ complete' = complete - Cardinality(Empty) /\ UNCHANGED <<bs, handler>>
          /\ main' \notin {"exec", "finish"}
      BY <2>2, <1>4 DEF FinishBackendStartup
    <3>2. Empty \subseteq Unnotified /\ Unnotified' = Unnotified \ Empty
      BY <2>2, <3>1, <1>a DEF Unnotified, Notified, InstancesOf, IsDone, Done
    <3> HIDE DEF Empty
    <3>3. IsFiniteSet(Unnotified)
      BY CardinalityFacts DEF Unnotified
    <3>4. Unnotified \cap Empty = Empty
      BY <3>2
    <3>5. Cardinality(Unnotified \ Empty) = Cardinality(Unnotified) - Cardinality(Empty)
      <4>1. Cardinality(Unnotified \ Empty)
               = Cardinality(Unnotified) - Cardinality(Unnotified \cap Empty)
        BY <3>3, FS_Difference
      <4> QED
        BY <3>4, <4>1
    <3> QED
      BY <3>1, <3>2, <3>5
  <2> QED
    BY <1>4, <2>1, <2>2 DEF FinishBackendStartup
<1>5. CASE WaitOnBarrier \/ GetNext \/ FinalizeHdfsDml \/ FinishDml
  <2>1. /\ UNCHANGED <<complete, bs, handler>>
        /\ main' \in {"exec", "finish"} <=> main \in {"exec", "finish"}
    <3>1. CASE WaitOnBarrier
      <4>1. rpcs.status = "ok"
        BY <3>1, PendingFacts DEF WaitOnBarrier
      <4> QED
        BY <3>1, <4>1 DEF WaitOnBarrier
    <3>2. CASE GetNext \/ FinalizeHdfsDml \/ FinishDml
      BY <3>2 DEF GetNext, FinalizeHdfsDml, FinishDml
    <3> QED
      BY <1>5, <3>1, <3>2
  <2>2. Unnotified' = Unnotified
    BY <2>1, <1>a, UnnotifiedSame DEF Silent, IsDone, Done
  <2> QED
    BY <2>1, <2>2
<1>6. CASE \E b \in Backends : ExecAsync(b) \/ ExecCompleteCb(b)
  <2>1. PICK b \in Backends : ExecAsync(b) \/ ExecCompleteCb(b)
    BY <1>6
  <2>2. UNCHANGED <<main, complete, handler>>
    BY <2>1 DEF ExecAsync, ExecCompleteCb
  <2>3. rpcs.status = "unset"
    <3>1. ~bs[b].done
      BY <2>1 DEF ExecAsync, ExecCompleteCb
    <3> QED
      BY <3>1 DEF StartInv, ExecRpcsComplete
  <2>4. bs' = [bs EXCEPT ![b].done = TRUE] \/ bs' = [bs EXCEPT ![b].sent = TRUE]
    <3>1. rpcs.pending > 0
      BY <2>3 DEF TypeOK, ControlType
    <3> QED
      BY <2>1, <3>1 DEF ExecAsync, ExecCompleteCb, NotifyRemaining
  <2>5. \A c \in Backends : IsDone(c)' <=> IsDone(c)
    <3>1. \A c \in Backends : bs'[c].left = bs[c].left /\ bs'[c].status = bs[c].status
      BY <2>4 DEF TypeOK, BackendStatesType, BackendStates
    <3> QED
      BY <3>1 DEF IsDone, Done
  <2>6. Unnotified' = Unnotified
    BY <2>2, <2>5, <1>a, UnnotifiedSame DEF Silent
  <2> QED
    BY <2>2, <2>6
<1>7. ASSUME NEW r, NEW w, IsReport(r), w \in BOOLEAN, Handle(r, w), UNCHANGED <<main, complete>>
      PROVE  complete' = Cardinality(Unnotified)'
  <2>1. ASSUME NEW b \in Backends
        PROVE  (IsDone(b)' /\ ~Silent(b)') <=> (IsDone(b) /\ ~Silent(b))
    <3>1. CASE Completed(b)
      BY <3>1 DEF Completed, Silent
    <3>2. CASE ~Completed(b)
      <4>1. handler'[b] = handler[b]
        BY <1>7, <3>2, HandleChange
      <4>2. IsDone(b)' <=> IsDone(b)
        <5>1. CASE b # r.from
          <6>1. bs'[b] = bs[b]
            BY <1>7, <5>1, HandleHandlers
          <6> QED
            BY <6>1 DEF IsDone, Done
        <5>2. CASE b = r.from
          <6>1. bs'[b] = Applied(r)
            BY <1>7, <5>2, HandleHandlers
          <6>2. CASE IsDone(b)
            BY <5>2, <6>1, <6>2 DEF Applied, IsDone
          <6>3. CASE ~IsDone(b) /\ IsDone(b)'
            <7>1. Completes(r)
              BY <5>2, <6>1, <6>3 DEF Completes, IsDone
            <7>2. Silent(b)'
              <8>1. handler'[r.from] =
                       [at |-> IF Applied(r).status = "ok" THEN "notify" ELSE "error",
                        free |-> {}, waits |-> w]
                BY <7>1, <1>7, HandleHandlers, Zenon
              <8> QED
                BY <8>1, <5>2 DEF Silent
            <7> QED
              BY <4>1, <6>3, <7>2 DEF Silent, DoneInv
          <6> QED
            BY <6>2, <6>3
        <5> QED
          BY <5>1, <5>2
      <4> QED
        BY <4>1, <4>2 DEF Silent
    <3> QED
      BY <3>1, <3>2
  <2>2. Unnotified' = Unnotified
    BY <2>1, <1>7, <1>a, UnnotifiedSame
  <2> QED
    BY <1>7, <2>2
<1>8. CASE \E b \in Backends : ReportExecStatus(b)
  <2>1. PICK b \in Backends : ReportExecStatus(b)
    BY <1>8
  <2>2. IsReport(ReportOf(b)) /\ UNCHANGED <<main, complete>>
    BY <2>1, ReportType DEF ReportExecStatus
  <2>3. (\E w \in BOOLEAN : Handle(ReportOf(b), w)) \/ UNCHANGED <<bs, handler>>
    BY <2>1 DEF ReportExecStatus
  <2> QED
    BY <2>2, <2>3, <1>0, <1>7
<1>9. CASE \E r \in late : HandleLate(r)
  BY <1>7, <1>9 DEF HandleLate, TypeOK, ExecutorsType
<1>10. CASE \E b \in Backends : TellError(b) \/ UpdateStatus(b)
  <2>1. PICK b \in Backends : TellError(b) \/ UpdateStatus(b)
    BY <1>10
  <2>2. /\ UNCHANGED <<main, complete, bs>> /\ Silent(b)
        /\ \E at \in {"update", "notify"} : handler' = [handler EXCEPT ![b].at = at]
    BY <2>1 DEF TellError, UpdateStatus, Goto, Silent
  <2>3. \A c \in Backends : Silent(c)' <=> Silent(c)
    BY <2>2, <1>b DEF Silent, Handlers
  <2>4. Unnotified' = Unnotified
    BY <2>2, <2>3, <1>a, UnnotifiedSame DEF IsDone, Done
  <2> QED
    BY <2>2, <2>4
<1>11. CASE \E b \in Backends : NotifyComplete(b)
  <2>1. PICK b \in Backends : NotifyComplete(b)
    BY <1>11
  <2>2. /\ UNCHANGED <<main, bs>> /\ complete' = complete - 1 /\ handler[b].at = "notify"
        /\ handler' = [handler EXCEPT ![b].at = "mark"]
    BY <2>1 DEF NotifyComplete, Goto
  <2>3. InstancesOf(b) # {} /\ IsDone(b)
    BY <2>2 DEF DoneInv
  <2>4. b \in Unnotified /\ Unnotified' = Unnotified \ {b}
    <3>1. ~Notified(b) /\ Notified(b)'
      BY <2>2, <2>3, <1>a, <1>b DEF Notified, InstancesOf, IsDone, Done, Handlers
    <3>2. \A c \in Backends \ {b} : Notified(c)' <=> Notified(c)
      BY <2>2, <1>a, <1>b DEF Notified, InstancesOf, IsDone, Done
    <3> QED
      BY <3>1, <3>2 DEF Unnotified
  <2>5. Cardinality(Unnotified \ {b}) = Cardinality(Unnotified) - 1
    <3>1. Unnotified \in SUBSET Backends
      BY DEF Unnotified
    <3> QED
      BY <2>4, <3>1, CardinalityFacts
  <2> QED
    BY <2>2, <2>4, <2>5
<1>12. CASE \E b \in Backends : MarkBackendFinished(b) \/ ReleaseFinished(b)
  <2>1. PICK b \in Backends : MarkBackendFinished(b) \/ ReleaseFinished(b)
    BY <1>12
  <2>2. UNCHANGED <<main, complete, bs>> /\ ~Silent(b)
    BY <2>1 DEF MarkBackendFinished, ReleaseFinished, Silent
  <2>3. \A c \in Backends : Silent(c)' <=> Silent(c)
    <3>1. ASSUME NEW c \in Backends, c # b PROVE handler'[c] = handler[c]
      <4>1. \/ \E at : handler' = [handler EXCEPT ![b].at = at]
            \/ \E at, free : handler' = [handler EXCEPT ![b].at = at, ![b].free = free]
        BY <2>1 DEF MarkBackendFinished, ReleaseFinished, Goto
      <4> QED
        BY <4>1, <3>1, <1>b
    <3>2. handler'[b].at \in {"idle", "release"}
      <4>1. \/ \E at \in {"idle", "release"} : handler' = [handler EXCEPT ![b].at = at]
            \/ \E at \in {"idle", "release"} : \E free :
                  handler' = [handler EXCEPT ![b].at = at, ![b].free = free]
        BY <2>1 DEF MarkBackendFinished, ReleaseFinished, Goto
      <4> QED
        BY <4>1, <1>b DEF Handlers
    <3> QED
      BY <2>2, <3>1, <3>2 DEF Silent
  <2>4. Unnotified' = Unnotified
    BY <2>2, <2>3, <1>a, UnnotifiedSame DEF IsDone, Done
  <2> QED
    BY <2>2, <2>4
<1>13. CASE \/ CloseAndGetUnreleasedBackends \/ ReleaseUnreleased
            \/ ReleaseQueryAdmissionControlResources
            \/ \E b \in Backends : StartFInstances(b) \/ StartReport(b) \/ Crash(b)
                                  \/ \E i \in Instances : EndInstance(b, i) \/ Stall(b, i)
  BY <1>0, <1>13 DEF CloseAndGetUnreleasedBackends, ReleaseUnreleased,
     ReleaseQueryAdmissionControlResources, StartFInstances, StartReport, Crash, EndInstance,
     Stall, coordinator
<1>14. CASE UNCHANGED vars
  BY <1>0, <1>14 DEF vars, coordinator
<1> QED
  BY <1>1, <1>2, <1>3, <1>4, <1>5, <1>6, <1>8, <1>9, <1>10, <1>11, <1>12, <1>13, <1>14 DEF Next

LEMMA CountInit == Init => CountInv
<1> SUFFICES ASSUME Init PROVE CountInv
  OBVIOUS
<1>1. Unnotified = Backends
  BY DEF Init, Unnotified, Notified, IsDone, Done
<1>2. FailedInv
  BY ConstantsAssumption DEF ConstantsAssumption, Init, FailedInv, InstancesOf
<1> QED
  BY <1>1, <1>2 DEF Init, CountInv

\* Only a fault of another backend makes an instance fail without a status.
LEMMA FailedStep == ASSUME TypeOK, FailedInv, [Next]_vars PROVE FailedInv'
<1>a. Coord \in Backends /\ InstancesOf(Coord)' = InstancesOf(Coord)
  BY BackendsFacts, BackendStep DEF InstancesOf
<1>b. /\ qs \in [Backends -> QueryStates] /\ inst \in [Instances -> InstanceStates]
      /\ \A i \in InstancesOf(Coord) : i \in Instances
  BY <1>a, InstancesFacts DEF TypeOK, ExecutorsType
<1>0. ASSUME qs'[Coord].status = qs[Coord].status,
             \A i \in InstancesOf(Coord) : \/ inst'[i].at = inst[i].at
                                           \/ inst'[i].at \notin {"told", "failed"}
      PROVE  FailedInv'
  BY <1>0, <1>a DEF FailedInv
<1>1. CASE \E b \in Backends, i \in Instances : EndInstance(b, i) \/ Stall(b, i)
  <2>1. PICK b \in Backends, i \in Instances : EndInstance(b, i) \/ Stall(b, i)
    BY <1>1
  <2>2. CASE inst[i].at \notin {"failing", "cancelling", "told"}
    <3>1. qs' = qs /\ \E at : inst' = [inst EXCEPT ![i].at = at] /\ at \notin {"told", "failed"}
      BY <2>1, <2>2 DEF EndInstance, Stall
    <3> QED
      BY <3>1, <1>a, <1>b, <1>0 DEF InstanceStates
  <2>3. CASE inst[i].at = "told"
    <3>1. qs' = qs /\ inst' = [inst EXCEPT ![i].at = "failed"]
      BY <2>1, <2>3 DEF EndInstance, Stall
    <3> QED
      BY <3>1, <2>3, <1>a, <1>b DEF FailedInv, InstanceStates
  <2>4. CASE inst[i].at \in {"failing", "cancelling"}
    <3>1. /\ i \in InstancesOf(b)
          /\ inst' = [inst EXCEPT ![i].at = "told"]
          /\ \E s \in {"error", "cancelled"} : qs' = [qs EXCEPT ![b].status = s]
      BY <2>1, <2>4 DEF EndInstance, Stall
    <3>2. CASE b = Coord
      BY <3>1, <3>2, <1>a, <1>b DEF FailedInv, QueryStates
    <3>3. CASE b # Coord
      <4>1. i \notin InstancesOf(Coord)
        BY <3>1, <3>3, <1>a, InstancesFacts
      <4> QED
        BY <3>1, <3>3, <4>1, <1>0, <1>a, <1>b
    <3> QED
      BY <3>2, <3>3
  <2> QED
    BY <2>2, <2>3, <2>4
<1>2. CASE \E b \in Backends : StartFInstances(b)
  <2>1. PICK b \in Backends : StartFInstances(b)
    BY <1>2
  <2>2. /\ qs' = [qs EXCEPT ![b].at = "executing"]
        /\ inst' = [i \in Instances |-> IF i \in InstancesOf(b)
                                        THEN [inst[i] EXCEPT !.at = "running"] ELSE inst[i]]
    BY <2>1 DEF StartFInstances
  <2>3. qs'[Coord].status = qs[Coord].status
    BY <2>2, <1>a, <1>b DEF QueryStates
  <2>4. \A i \in Instances : inst'[i] = inst[i] \/ inst'[i].at = "running"
    BY <2>2, <1>b DEF InstanceStates
  <2> QED
    BY <2>3, <2>4, <1>b, <1>0
<1>3. CASE \E b \in Backends : Crash(b)
  <2>1. PICK b \in Backends : Crash(b)
    BY <1>3
  <2>2. /\ b # Coord /\ \E q : qs' = [qs EXCEPT ![b] = q]
        /\ inst' = [i \in Instances |-> IF i \in InstancesOf(b) /\ inst[i].at # "done"
                                        THEN [inst[i] EXCEPT !.at = "failed"] ELSE inst[i]]
    BY <2>1 DEF Crash
  <2>3. \A i \in InstancesOf(Coord) : inst'[i] = inst[i]
    BY <2>2, <1>a, InstancesFacts
  <2> QED
    BY <2>2, <2>3, <1>0, <1>a, <1>b
<1>4. CASE \E b \in Backends : StartReport(b)
  <2>1. PICK b \in Backends : StartReport(b)
    BY <1>4
  <2>2. /\ inst' = inst
        /\ \/ \E at, read : qs' = [qs EXCEPT ![b].at = at, ![b].read = read]
           \/ \E read : qs' = [qs EXCEPT ![b].read = read]
    BY <2>1 DEF StartReport
  <2>3. ASSUME NEW at, NEW read, qs' = [qs EXCEPT ![b].at = at, ![b].read = read]
        PROVE  qs'[Coord].status = qs[Coord].status
    <3>1. qs'[Coord] \in {qs[Coord], [qs[Coord] EXCEPT !.at = at, !.read = read]}
      BY <2>3, <1>a, <1>b
    <3> QED
      BY <3>1, <1>a, <1>b DEF QueryStates
  <2>4. ASSUME NEW read, qs' = [qs EXCEPT ![b].read = read]
        PROVE  qs'[Coord].status = qs[Coord].status
    <3>1. qs'[Coord] \in {qs[Coord], [qs[Coord] EXCEPT !.read = read]}
      BY <2>4, <1>a, <1>b
    <3> QED
      BY <3>1, <1>a, <1>b DEF QueryStates
  <2> QED
    BY <2>2, <2>3, <2>4, <1>0
<1>5. ASSUME NEW b \in Backends, NEW q, qs' = [qs EXCEPT ![b] = q], q.status = qs[b].status
      PROVE  qs'[Coord].status = qs[Coord].status
  BY <1>5, <1>a, <1>b
<1>6. CASE \E b \in Backends : ReportExecStatus(b)
  <2>1. PICK b \in Backends : ReportExecStatus(b)
    BY <1>6
  <2>2. PICK sent \in BOOLEAN : inst' = Numbered(ReportOf(b), sent)
    BY <2>1, ReportStep
  <2>3. ASSUME NEW i \in Instances PROVE inst'[i].at = inst[i].at
    <3>1. \/ inst'[i] = inst[i]
          \/ \E seq, final : inst'[i] = [inst[i] EXCEPT !.seq = seq, !.final = final]
      BY <2>2 DEF Numbered
    <3> QED
      BY <3>1, <1>b DEF InstanceStates
  <2>4. \E q : qs' = [qs EXCEPT ![b] = q] /\ q.status = qs[b].status
    <3>1. qs[b] \in QueryStates
      BY <1>b
    <3>2. \/ qs' = [qs EXCEPT ![b] = [qs[b] EXCEPT !.waits = TRUE]]
          \/ \E ok \in BOOLEAN : qs' = [qs EXCEPT ![b] = AfterAnswer(qs[b], ok)]
          \/ \E giveUp \in BOOLEAN : qs' = [qs EXCEPT ![b] = AfterFailure(qs[b], giveUp)]
      BY <2>1, <1>b, ReportStep
    <3>3. /\ [qs[b] EXCEPT !.waits = TRUE].status = qs[b].status
          /\ \A ok \in BOOLEAN : AfterAnswer(qs[b], ok).status = qs[b].status
          /\ \A giveUp \in BOOLEAN : AfterFailure(qs[b], giveUp).status = qs[b].status
      BY <3>1 DEF QueryStates, AfterAnswer, AfterFailure
    <3> QED
      BY <3>2, <3>3
  <2> QED
    BY <2>3, <2>4, <1>0, <1>5, <1>b
<1>7. CASE \E b \in Backends : MarkBackendFinished(b) \/ ReleaseFinished(b)
  <2>1. PICK b \in Backends : MarkBackendFinished(b) \/ ReleaseFinished(b)
    BY <1>7
  <2>2. inst' = inst /\ (Respond(b) \/ qs' = qs)
    BY <2>1 DEF MarkBackendFinished, ReleaseFinished
  <2>3. CASE Respond(b) /\ qs' # qs
    <3>1. PICK ok : qs' = [qs EXCEPT ![b] = AfterAnswer(qs[b], ok)]
      BY <2>3, <1>b DEF Respond
    <3>2. AfterAnswer(qs[b], ok).status = qs[b].status
      BY <1>b DEF AfterAnswer, QueryStates
    <3> QED
      BY <2>2, <3>1, <3>2, <1>0, <1>5
  <2> QED
    BY <2>2, <2>3, <1>0
<1>8. CASE EndQuery \/ AbortStartup \/ Cancel \/ CancelUnresponsive
  <2>1. inst' = inst /\ (CancelBackends \/ qs' = qs)
    BY <1>8 DEF EndQuery, AbortStartup, Cancel, CancelUnresponsive
  <2>2. qs'[Coord].status = qs[Coord].status
    <3>1. CASE CancelBackends
      <4>1. PICK lost \in SUBSET CancelTargets :
               qs' = [b \in Backends |-> IF b \in CancelTargets \ lost /\ qs[b].at # "none"
                                         THEN [qs[b] EXCEPT !.cancelled = TRUE] ELSE qs[b]]
        BY <3>1, Zenon DEF CancelBackends
      <4> QED
        BY <4>1, <1>a, <1>b DEF QueryStates
    <3> QED
      BY <2>1, <3>1
  <2> QED
    BY <2>1, <2>2, <1>0
<1>9. CASE UNCHANGED <<qs, inst>>
  BY <1>9, <1>0
<1>10. CASE \/ CloseAndGetUnreleasedBackends \/ ReleaseUnreleased
            \/ ReleaseQueryAdmissionControlResources \/ WaitOnBarrier
            \/ FinishBackendStartup \/ GetNext \/ FinalizeHdfsDml \/ FinishDml
            \/ \E b \in Backends : ExecAsync(b) \/ ExecCompleteCb(b)
  BY <1>9, <1>10 DEF CloseAndGetUnreleasedBackends, ReleaseUnreleased, executor,
     ReleaseQueryAdmissionControlResources, WaitOnBarrier, FinishBackendStartup, GetNext,
     FinalizeHdfsDml, FinishDml, ExecAsync, ExecCompleteCb
<1>11. CASE \/ \E b \in Backends : TellError(b) \/ UpdateStatus(b) \/ NotifyComplete(b)
            \/ \E r \in late : HandleLate(r)
            \/ UNCHANGED vars
  BY <1>9, <1>11 DEF TellError, UpdateStatus, NotifyComplete, HandleLate, vars, executor
<1> QED
  BY <1>1, <1>2, <1>3, <1>4, <1>6, <1>7, <1>8, <1>10, <1>11 DEF Next

LEMMA CountInvStep ==
    ASSUME TypeOK, StartInv, DoneInv, CountInv, [Next]_vars
    PROVE  CountInv'
<1>1. FailedInv'
  BY FailedStep DEF CountInv
<1>2. rpcs.status # "unset" => rpcs'.status = rpcs.status
  BY RpcsStep
<1>a. exec \in [state : {"EXECUTING", "RETURNED_RESULTS", "CANCELLED", "ERROR"}, status : Statuses]
      /\ (exec.state \in {"EXECUTING", "RETURNED_RESULTS"} <=> exec.status = "ok")
  BY DEF TypeOK, ControlType
\* Who enters RETURNED_RESULTS.
<1>3. exec'.state = "RETURNED_RESULTS" /\ exec.state # "RETURNED_RESULTS" =>
         /\ exec.state = "EXECUTING" /\ main' = "done" /\ main \in {"running", "finalized"}
         /\ UNCHANGED <<kind, rpcs, complete, bs, handler>>
  <2> SUFFICES ASSUME exec'.state = "RETURNED_RESULTS", exec.state # "RETURNED_RESULTS"
               PROVE  /\ exec.state = "EXECUTING" /\ main' = "done"
                      /\ main \in {"running", "finalized"}
                      /\ UNCHANGED <<kind, rpcs, complete, bs, handler>>
    OBVIOUS
  <2>a. ASSUME NEW t, NEW s PROVE ~UpdateExecState(t, s)
    BY <1>a DEF UpdateExecState, EnterState
  <2>b. exec' # exec
    OBVIOUS
  <2>1. CASE GetNext \/ FinishDml
    <3>1. SetNonErrorTerminalState("main", "RETURNED_RESULTS")
      BY <2>1, <2>a DEF GetNext, FinishDml
    <3>2. exec.state = "EXECUTING"
      BY <3>1 DEF SetNonErrorTerminalState, EnterState
    <3> QED
      BY <2>1, <3>2 DEF GetNext, FinishDml
  <2>2. ~Cancel /\ ~CancelUnresponsive
    BY DEF Cancel, CancelUnresponsive, EnterState
  <2>3. ~FinishBackendStartup /\ ~\E b \in Backends : UpdateStatus(b)
    BY <2>a DEF FinishBackendStartup, UpdateStatus
  <2>4. \/ FinishBackendStartup \/ GetNext \/ FinishDml \/ Cancel \/ CancelUnresponsive
        \/ \E b \in Backends : UpdateStatus(b)
    <3>1. ~(EndQuery \/ CloseAndGetUnreleasedBackends \/ ReleaseUnreleased
            \/ ReleaseQueryAdmissionControlResources \/ WaitOnBarrier \/ AbortStartup
            \/ FinalizeHdfsDml)
      BY <2>b DEF EndQuery, CloseAndGetUnreleasedBackends, ReleaseUnreleased,
         ReleaseQueryAdmissionControlResources, WaitOnBarrier, AbortStartup, FinalizeHdfsDml
    <3>2. ~\E b \in Backends : ExecAsync(b) \/ StartFInstances(b) \/ ExecCompleteCb(b)
                              \/ StartReport(b) \/ ReportExecStatus(b) \/ Crash(b)
                              \/ \E i \in Instances : EndInstance(b, i) \/ Stall(b, i)
      BY <2>b DEF ExecAsync, StartFInstances, ExecCompleteCb, StartReport, ReportExecStatus,
         Crash, EndInstance, Stall, coordinator
    <3>3. ~\E b \in Backends : TellError(b) \/ NotifyComplete(b) \/ MarkBackendFinished(b)
                              \/ ReleaseFinished(b)
      BY <2>b DEF TellError, NotifyComplete, MarkBackendFinished, ReleaseFinished
    <3>4. ~(\E r \in late : HandleLate(r)) /\ ~UNCHANGED vars
      BY <2>b DEF HandleLate, vars, coordinator
    <3> QED
      BY <3>1, <3>2, <3>3, <3>4 DEF Next
  <2> QED
    BY <2>1, <2>2, <2>3, <2>4
<1>4. exec'.state = "RETURNED_RESULTS" => main' = "done" /\ rpcs'.status = "ok"
  <2>1. CASE exec.state = "RETURNED_RESULTS"
    <3>1. main = "done" /\ rpcs.status = "ok"
      BY <2>1 DEF CountInv
    <3> QED
      BY <3>1, <1>2, MainStep
  <2>2. CASE exec.state # "RETURNED_RESULTS"
    BY <2>2, <1>3 DEF StartInv
  <2> QED
    BY <2>1, <2>2
<1>5. exec.state # "EXECUTING" => exec'.state # "EXECUTING"
  BY ExecStep
<1>6. main' = "done" => exec'.state # "EXECUTING"
  <2> SUFFICES ASSUME main' = "done", main # "done", exec.state = "EXECUTING"
               PROVE  exec'.state # "EXECUTING"
    BY <1>5 DEF CountInv
  <2>a. ASSUME NEW t, NEW s, s # "ok", UpdateExecState(t, s) PROVE exec'.state # "EXECUTING"
    BY <2>a DEF UpdateExecState, EnterState
  <2>1. CASE FinishBackendStartup
    <3>1. CASE main = "aborted"
      <4>1. rpcs.status # "ok" /\ UpdateExecState("main", rpcs.status)
        BY <2>1, <3>1 DEF FinishBackendStartup, StartInv
      <4> QED
        BY <4>1, <2>a
    <3>2. CASE main = "finish"
      <4>1. PICK s : UpdateExecState("main", s)
        BY <2>1, <3>2 DEF FinishBackendStartup
      <4>2. exec'.status # "ok"
        <5>1. main' = IF main = "finish" /\ exec'.status = "ok" THEN "running" ELSE "done"
          BY <2>1, Zenon DEF FinishBackendStartup
        <5> QED
          BY <5>1, <3>2
      <4>3. s # "ok"
        BY <4>1, <4>2, <1>a DEF UpdateExecState
      <4> QED
        BY <4>1, <4>3, <2>a
    <3> QED
      BY <2>1, <3>1, <3>2 DEF FinishBackendStartup
  <2>2. CASE GetNext
    <3>1. CASE SetNonErrorTerminalState("main", "RETURNED_RESULTS")
      BY <3>1 DEF SetNonErrorTerminalState, EnterState
    <3>2. CASE /\ \E i \in InstancesOf(Coord) : inst[i].at = "failed"
               /\ UpdateExecState("main", qs[Coord].status)
      BY <3>2, <2>a DEF CountInv, FailedInv
    <3> QED
      BY <2>2, <3>1, <3>2 DEF GetNext
  <2>3. CASE FinalizeHdfsDml
    BY <2>3, <1>a DEF FinalizeHdfsDml
  <2>4. CASE FinishDml
    BY <2>4 DEF FinishDml, SetNonErrorTerminalState, EnterState
  <2>5. FinishBackendStartup \/ GetNext \/ FinalizeHdfsDml \/ FinishDml
    <3>1. ~(EndQuery \/ CloseAndGetUnreleasedBackends \/ ReleaseUnreleased
            \/ ReleaseQueryAdmissionControlResources \/ WaitOnBarrier \/ AbortStartup
            \/ Cancel \/ CancelUnresponsive)
      BY DEF EndQuery, CloseAndGetUnreleasedBackends, ReleaseUnreleased, Cancel,
         CancelUnresponsive, ReleaseQueryAdmissionControlResources, WaitOnBarrier, AbortStartup
    <3>2. ~\E b \in Backends : ExecAsync(b) \/ StartFInstances(b) \/ ExecCompleteCb(b)
                              \/ StartReport(b) \/ ReportExecStatus(b) \/ Crash(b)
                              \/ \E i \in Instances : EndInstance(b, i) \/ Stall(b, i)
      BY DEF ExecAsync, StartFInstances, ExecCompleteCb, StartReport, ReportExecStatus,
         Crash, EndInstance, Stall, coordinator
    <3>3. ~\E b \in Backends : TellError(b) \/ UpdateStatus(b) \/ NotifyComplete(b)
                              \/ MarkBackendFinished(b) \/ ReleaseFinished(b)
      BY DEF TellError, UpdateStatus, NotifyComplete, MarkBackendFinished, ReleaseFinished
    <3>4. ~(\E r \in late : HandleLate(r)) /\ ~UNCHANGED vars
      BY DEF HandleLate, vars, coordinator
    <3> QED
      BY <3>1, <3>2, <3>3, <3>4 DEF Next
  <2> QED
    BY <2>1, <2>2, <2>3, <2>4, <2>5
<1>7. Going' => Going
  BY <1>2, <1>5, RpcsStep DEF Going
<1>8. ASSUME Going', NEW b \in Backends, bs'[b].status # "ok"
      PROVE  handler'[b].at \in {"error", "update"}
  <2>a. Going
    BY <1>7, <1>8
  <2>1. CASE bs[b].status # "ok"
    <3>1. handler[b].at \in {"error", "update"} /\ IsDone(b)
      BY <2>1, <2>a DEF CountInv, IsDone, Done
    <3> QED
      BY <3>1, <1>8, HandlerStep DEF HandlerChange, Goes, Going, Completed
  <2>2. CASE bs[b].status = "ok"
    <3>1. CASE Completed(b)
      BY <3>1, <1>8 DEF Completed
    <3>2. CASE bs' = bs
      BY <3>2, <2>2, <1>8
    <3>3. CASE CancelBackends /\ (EndQuery \/ AbortStartup \/ Cancel \/ CancelUnresponsive)
      <4>1. exec.state = "EXECUTING" /\ rpcs.status \in {"unset", "ok"}
        BY <2>a DEF Going
      <4>2. ~EndQuery /\ ~AbortStartup
        BY <4>1 DEF EndQuery, AbortStartup, StartInv
      <4>3. UNCHANGED bs
        BY <3>3, <4>1, <4>2 DEF Cancel, CancelUnresponsive
      <4> QED
        BY <4>3, <2>2, <1>8
    <3>4. CASE \E c \in Backends : ExecAsync(c) \/ ExecCompleteCb(c)
      <4>1. PICK c \in Backends : ExecAsync(c) \/ ExecCompleteCb(c)
        BY <3>4
      <4>2. ~bs[c].done
        BY <4>1 DEF ExecAsync, ExecCompleteCb
      <4>3. rpcs.status = "unset" /\ rpcs.pending > 0
        BY <4>2, <2>a DEF Going, StartInv, ExecRpcsComplete, TypeOK, ControlType
      <4>4. bs' = [bs EXCEPT ![c].done = TRUE] \/ bs' = [bs EXCEPT ![c].sent = TRUE]
        BY <4>1, <4>3, <1>8 DEF ExecAsync, ExecCompleteCb, NotifyRemaining, Going
      <4>5. bs'[b].status = bs[b].status
        BY <4>4 DEF TypeOK, BackendStatesType, BackendStates
      <4> QED
        BY <4>5, <2>2, <1>8
    <3>5. ASSUME NEW r, NEW w \in BOOLEAN, IsReport(r), Handle(r, w), ~Completed(b)
          PROVE  bs'[b].status = "ok"
      <4>1. CASE b # r.from
        BY <4>1, <3>5, <2>2, HandleHandlers
      <4>2. CASE b = r.from
        <5>1. bs'[b] = Applied(r)
          BY <4>2, <3>5, HandleHandlers
        <5>2. CASE IsDone(b)
          BY <5>1, <5>2, <4>2, <2>2 DEF Applied
        <5>3. CASE ~IsDone(b) /\ ~Done(Applied(r))
          BY <5>1, <5>3 DEF Done
        <5>4. CASE ~IsDone(b) /\ Done(Applied(r))
          <6>1. Completes(r) /\ IsDone(b)'
            BY <5>1, <5>4, <4>2 DEF Completes, IsDone
          <6>2. handler'[b] = [at |-> IF Applied(r).status = "ok" THEN "notify" ELSE "error",
                               free |-> {}, waits |-> w]
            BY <6>1, <4>2, <3>5, HandleHandlers, Zenon
          <6> QED
            BY <5>1, <5>4, <6>1, <6>2, <3>5 DEF Completed
        <5> QED
          BY <5>2, <5>3, <5>4
      <4> QED
        BY <4>1, <4>2
    <3>6. CASE \E c \in Backends : ReportExecStatus(c)
      <4>1. PICK c \in Backends : ReportExecStatus(c)
        BY <3>6
      <4>2. IsReport(ReportOf(c))
        BY <4>1, ReportType DEF ReportExecStatus
      <4>3. (\E w \in BOOLEAN : Handle(ReportOf(c), w)) \/ UNCHANGED bs
        BY <4>1 DEF ReportExecStatus
      <4> QED
        BY <4>2, <4>3, <3>1, <3>2, <3>5, <1>8
    <3>7. CASE \E r \in late : HandleLate(r)
      <4>1. \E r \in late : IsReport(r) /\ Handle(r, FALSE)
        BY <3>7 DEF HandleLate, TypeOK, ExecutorsType
      <4> QED
        BY <4>1, <3>1, <3>5, <1>8
    <3>8. CASE EndQuery \/ AbortStartup \/ Cancel \/ CancelUnresponsive
      <4>1. CancelBackends \/ bs' = bs
        BY <3>8 DEF EndQuery, AbortStartup, Cancel, CancelUnresponsive
      <4> QED
        BY <4>1, <3>2, <3>3, <3>8
    <3>9. CASE \/ CloseAndGetUnreleasedBackends \/ ReleaseUnreleased
               \/ ReleaseQueryAdmissionControlResources \/ WaitOnBarrier \/ FinishBackendStartup
               \/ GetNext \/ FinalizeHdfsDml \/ FinishDml
      BY <3>2, <3>9 DEF CloseAndGetUnreleasedBackends, ReleaseUnreleased,
         ReleaseQueryAdmissionControlResources, WaitOnBarrier, FinishBackendStartup, GetNext,
         FinalizeHdfsDml, FinishDml
    <3>10. CASE \E c \in Backends : StartFInstances(c) \/ StartReport(c) \/ Crash(c)
                                  \/ \E i \in Instances : EndInstance(c, i) \/ Stall(c, i)
      BY <3>2, <3>10 DEF StartFInstances, StartReport, Crash, EndInstance, Stall, coordinator
    <3>11. CASE \E c \in Backends : TellError(c) \/ UpdateStatus(c) \/ NotifyComplete(c)
                                  \/ MarkBackendFinished(c) \/ ReleaseFinished(c)
      BY <3>2, <3>11 DEF TellError, UpdateStatus, NotifyComplete, MarkBackendFinished,
         ReleaseFinished
    <3>12. CASE UNCHANGED vars
      BY <3>2, <3>12 DEF vars, coordinator
    <3> QED
      BY <3>4, <3>6, <3>7, <3>8, <3>9, <3>10, <3>11, <3>12 DEF Next
  <2> QED
    BY <2>1, <2>2
<1>9. Going' => complete' = Cardinality(Unnotified)'
  BY <1>7, CountStep DEF Going, CountInv
<1>10. exec'.state = "RETURNED_RESULTS" =>
          (\A b \in Backends : IsDone(b)') \/ complete' = Cardinality(Unnotified)'
  <2> SUFFICES ASSUME exec'.state = "RETURNED_RESULTS"
               PROVE  (\A b \in Backends : IsDone(b)') \/ complete' = Cardinality(Unnotified)'
    OBVIOUS
  <2>1. CASE exec.state = "RETURNED_RESULTS" /\ \A b \in Backends : IsDone(b)
    BY <2>1, Monotone
  <2>2. CASE exec.state = "RETURNED_RESULTS" /\ complete = Cardinality(Unnotified)
    <3>1. rpcs.status = "ok" /\ rpcs'.status = "ok"
      BY <2>2, <1>2 DEF CountInv
    <3> QED
      BY <2>2, <3>1, CountStep, CancelledBackend
  <2>3. CASE exec.state # "RETURNED_RESULTS"
    <3>1. /\ exec.state = "EXECUTING" /\ rpcs.status = "ok" /\ rpcs'.status = "ok"
      BY <2>3, <1>3 DEF StartInv
    <3>2. complete = Cardinality(Unnotified)
      BY <3>1 DEF CountInv, Going
    <3> QED
      BY <3>1, <3>2, CountStep
  <2> QED
    BY <2>1, <2>2, <2>3 DEF CountInv
<1> QED
  BY <1>1, <1>4, <1>6, <1>8, <1>9, <1>10 DEF CountInv

-----------------------------------------------------------------------------
(* Reports: each instance is counted once, and only what is true.          *)

\* An instance that is done stays done, and one that was never started is not.
LEMMA InstanceStep ==
    ASSUME TypeOK, NeverStarted, [Next]_vars
    PROVE  /\ NeverStarted'
           /\ \A i \in Instances : inst[i].at = "done" => inst'[i].at = "done"
<1>a. \A b \in Backends : InstancesOf(b)' = InstancesOf(b)
  BY BackendStep DEF InstancesOf
<1>b. /\ qs \in [Backends -> QueryStates] /\ inst \in [Instances -> InstanceStates]
      /\ \A b \in Backends : InstancesOf(b) \subseteq Instances
  BY InstancesFacts DEF TypeOK, ExecutorsType
<1>0. ASSUME \A b \in Backends : qs'[b].at = "none" => qs[b].at = "none",
             \A i \in Instances : inst'[i].at = inst[i].at
      PROVE  /\ NeverStarted'
             /\ \A i \in Instances : inst[i].at = "done" => inst'[i].at = "done"
  BY <1>0, <1>a, <1>b DEF NeverStarted
<1>1. CASE \E b \in Backends, i \in Instances : EndInstance(b, i) \/ Stall(b, i)
  <2>1. PICK b \in Backends, i \in Instances : EndInstance(b, i) \/ Stall(b, i)
    BY <1>1
  <2>2. /\ i \in InstancesOf(b) /\ inst[i].at \notin {"none", "done"}
        /\ \E at : inst' = [inst EXCEPT ![i].at = at]
        /\ qs' = qs \/ \E s : qs' = [qs EXCEPT ![b].status = s]
    BY <2>1 DEF EndInstance, Stall
  <2>3. \A c \in Backends : qs'[c].at = qs[c].at
    BY <2>2, <1>b DEF QueryStates
  <2>4. \A j \in Instances : j # i => inst'[j] = inst[j]
    BY <2>2, <1>b
  <2>5. \A c \in Backends : qs[c].at = "none" => i \notin InstancesOf(c)
    BY <2>2 DEF NeverStarted
  <2> QED
    BY <2>2, <2>3, <2>4, <2>5, <1>a, <1>b DEF NeverStarted
<1>2. CASE \E b \in Backends : StartFInstances(b)
  <2>1. PICK b \in Backends : StartFInstances(b)
    BY <1>2
  <2>2. /\ qs[b].at = "none" /\ qs' = [qs EXCEPT ![b].at = "executing"]
        /\ inst' = [i \in Instances |-> IF i \in InstancesOf(b)
                                        THEN [inst[i] EXCEPT !.at = "running"] ELSE inst[i]]
    BY <2>1 DEF StartFInstances
  <2>3. qs'[b].at = "executing" /\ \A c \in Backends : c # b => qs'[c] = qs[c]
    BY <2>2, <1>b DEF QueryStates
  <2>4. \A i \in Instances : i \notin InstancesOf(b) => inst'[i] = inst[i]
    BY <2>2
  <2>5. \A c \in Backends : c # b => InstancesOf(b) \cap InstancesOf(c) = {}
    BY InstancesFacts
  <2>6. \A i \in InstancesOf(b) : inst[i].at = "none"
    BY <2>2 DEF NeverStarted
  <2>7. NeverStarted'
    BY <2>3, <2>4, <2>5, <1>a, <1>b DEF NeverStarted
  <2>8. \A i \in Instances : inst[i].at = "done" => inst'[i].at = "done"
    BY <2>4, <2>6
  <2> QED
    BY <2>7, <2>8
<1>3. CASE \E b \in Backends : Crash(b)
  <2>1. PICK b \in Backends : Crash(b)
    BY <1>3
  <2>2. /\ qs[b].at # "none"
        /\ qs' = [qs EXCEPT ![b] = [@ EXCEPT !.at = "gone", !.read = "none", !.waits = FALSE]]
        /\ inst' = [i \in Instances |-> IF i \in InstancesOf(b) /\ inst[i].at # "done"
                                        THEN [inst[i] EXCEPT !.at = "failed"] ELSE inst[i]]
    BY <2>1 DEF Crash
  <2>3. qs'[b].at = "gone" /\ \A c \in Backends : c # b => qs'[c] = qs[c]
    BY <2>2, <1>b DEF QueryStates
  <2>4. /\ \A i \in Instances : i \notin InstancesOf(b) => inst'[i] = inst[i]
        /\ \A i \in Instances : inst[i].at = "done" => inst'[i] = inst[i]
    BY <2>2
  <2>5. \A c \in Backends : c # b => InstancesOf(b) \cap InstancesOf(c) = {}
    BY InstancesFacts
  <2> QED
    BY <2>3, <2>4, <2>5, <1>a, <1>b DEF NeverStarted
<1>4. CASE \E b \in Backends : StartReport(b)
  <2>1. PICK b \in Backends : StartReport(b)
    BY <1>4
  <2>2. /\ inst' = inst /\ qs[b].at # "none"
        /\ \/ \E at, read : qs' = [qs EXCEPT ![b].at = at, ![b].read = read]
           \/ \E read : qs' = [qs EXCEPT ![b].read = read]
    BY <2>1 DEF StartReport
  <2>3. \A c \in Backends : c # b => qs'[c] = qs[c]
    BY <2>2, <1>b
  <2> QED
    <3>1. \A c \in Backends : qs'[c].at = "none" => qs[c].at = "none"
      <4>1. qs'[b].at # "none"
        <5>1. \/ qs' = [qs EXCEPT ![b].at = IF qs[b].active THEN "final" ELSE "gone",
                                  ![b].read = IF qs[b].active THEN qs[b].status ELSE @]
              \/ qs' = [qs EXCEPT ![b].read = qs[b].status]
          BY <2>1, Zenon DEF StartReport
        <5>2. qs'[b] \in {[qs[b] EXCEPT !.at = "final", !.read = qs[b].status],
                          [qs[b] EXCEPT !.at = "gone", !.read = qs[b].read],
                          [qs[b] EXCEPT !.read = qs[b].status]}
          BY <5>1, <1>b
        <5> QED
          BY <5>2, <2>2, <1>b DEF QueryStates
      <4> QED
        BY <4>1, <2>3
    <3> QED
      BY <3>1, <2>2, <1>0
<1>5. ASSUME NEW b \in Backends, NEW q, qs' = [qs EXCEPT ![b] = q],
             q.at = "none" => qs[b].at = "none"
      PROVE  \A c \in Backends : qs'[c].at = "none" => qs[c].at = "none"
  BY <1>5, <1>b
<1>6. CASE \E b \in Backends : ReportExecStatus(b)
  <2>1. PICK b \in Backends : ReportExecStatus(b)
    BY <1>6
  <2>2. PICK sent \in BOOLEAN : inst' = Numbered(ReportOf(b), sent)
    BY <2>1, ReportStep
  <2>3. ASSUME NEW i \in Instances PROVE inst'[i].at = inst[i].at
    <3>1. \/ inst'[i] = inst[i]
          \/ \E seq, final : inst'[i] = [inst[i] EXCEPT !.seq = seq, !.final = final]
      BY <2>2 DEF Numbered
    <3> QED
      BY <3>1, <1>b DEF InstanceStates
  <2>4. \E q : qs' = [qs EXCEPT ![b] = q] /\ (q.at = "none" => qs[b].at = "none")
    <3>1. qs[b] \in QueryStates
      BY <1>b
    <3>2. \/ qs' = [qs EXCEPT ![b] = [qs[b] EXCEPT !.waits = TRUE]]
          \/ \E ok \in BOOLEAN : qs' = [qs EXCEPT ![b] = AfterAnswer(qs[b], ok)]
          \/ \E giveUp \in BOOLEAN : qs' = [qs EXCEPT ![b] = AfterFailure(qs[b], giveUp)]
      BY <2>1, <1>b, ReportStep
    <3>3. /\ [qs[b] EXCEPT !.waits = TRUE].at = qs[b].at
          /\ \A ok \in BOOLEAN : AfterAnswer(qs[b], ok).at \in {qs[b].at, "gone"}
          /\ \A giveUp \in BOOLEAN : AfterFailure(qs[b], giveUp).at \in {qs[b].at, "gone"}
      BY <3>1 DEF QueryStates, AfterAnswer, AfterFailure
    <3> QED
      BY <3>2, <3>3
  <2> QED
    BY <2>3, <2>4, <1>0, <1>5
<1>7. CASE \E b \in Backends : MarkBackendFinished(b) \/ ReleaseFinished(b)
  <2>1. PICK b \in Backends : MarkBackendFinished(b) \/ ReleaseFinished(b)
    BY <1>7
  <2>2. inst' = inst /\ (Respond(b) \/ qs' = qs)
    BY <2>1 DEF MarkBackendFinished, ReleaseFinished
  <2>3. CASE Respond(b) /\ qs' # qs
    <3>1. PICK ok : qs' = [qs EXCEPT ![b] = AfterAnswer(qs[b], ok)]
      BY <2>3, <1>b DEF Respond
    <3>2. AfterAnswer(qs[b], ok).at \in {qs[b].at, "gone"}
      BY <1>b DEF AfterAnswer, QueryStates
    <3> QED
      BY <2>2, <3>1, <3>2, <1>0, <1>5
  <2> QED
    BY <2>2, <2>3, <1>0
<1>8. CASE EndQuery \/ AbortStartup \/ Cancel \/ CancelUnresponsive
  <2>1. inst' = inst /\ (CancelBackends \/ qs' = qs)
    BY <1>8 DEF EndQuery, AbortStartup, Cancel, CancelUnresponsive
  <2>2. \A c \in Backends : qs'[c].at = qs[c].at
    <3>1. CASE CancelBackends
      <4>1. PICK lost \in SUBSET CancelTargets :
               qs' = [b \in Backends |-> IF b \in CancelTargets \ lost /\ qs[b].at # "none"
                                         THEN [qs[b] EXCEPT !.cancelled = TRUE] ELSE qs[b]]
        BY <3>1, Zenon DEF CancelBackends
      <4> QED
        BY <4>1, <1>b DEF QueryStates
    <3> QED
      BY <2>1, <3>1
  <2> QED
    BY <2>1, <2>2, <1>0
<1>9. CASE UNCHANGED <<qs, inst>>
  BY <1>9, <1>0
<1>10. CASE \/ CloseAndGetUnreleasedBackends \/ ReleaseUnreleased
            \/ ReleaseQueryAdmissionControlResources \/ WaitOnBarrier
            \/ FinishBackendStartup \/ GetNext \/ FinalizeHdfsDml \/ FinishDml
            \/ \E b \in Backends : ExecAsync(b) \/ ExecCompleteCb(b)
  BY <1>9, <1>10 DEF CloseAndGetUnreleasedBackends, ReleaseUnreleased, executor,
     ReleaseQueryAdmissionControlResources, WaitOnBarrier, FinishBackendStartup, GetNext,
     FinalizeHdfsDml, FinishDml, ExecAsync, ExecCompleteCb
<1>11. CASE \/ \E b \in Backends : TellError(b) \/ UpdateStatus(b) \/ NotifyComplete(b)
            \/ \E r \in late : HandleLate(r)
            \/ UNCHANGED vars
  BY <1>9, <1>11 DEF TellError, UpdateStatus, NotifyComplete, HandleLate, vars, executor
<1> QED
  BY <1>1, <1>2, <1>3, <1>4, <1>6, <1>7, <1>8, <1>10, <1>11 DEF Next

\* Making a report: a number once given to a final report is kept.
LEMMA NumberedFacts ==
    ASSUME TypeOK, NEW b \in Backends, qs[b].read # "none", NEW sent \in BOOLEAN,
           inst' = Numbered(ReportOf(b), sent)
    PROVE  /\ \A i \in Instances : inst[i].seq <= inst'[i].seq
           /\ \A i \in Instances : inst[i].final # "no" =>
                 inst'[i].final # "no" /\ inst'[i].seq = inst[i].seq
           /\ \A i \in DOMAIN ReportOf(b).seq : ReportOf(b).seq[i] = inst'[i].seq
           /\ \A i \in ReportOf(b).done : inst'[i].final # "no"
<1> DEFINE r == ReportOf(b)
<1>1. IsReport(r) /\ r.from = b
  BY ReportType, ReportOfFrom
<1>2. \A i \in DOMAIN r.seq : r.seq[i] = NextSeq(i) /\ i \in Instances
  BY <1>1, InstancesFacts DEF ReportOf, IsReport
<1> HIDE DEF r
<1>a. \A i \in Instances : inst[i] \in InstanceStates
  BY DEF TypeOK, ExecutorsType
<1>3. ASSUME NEW i \in Instances, i \notin DOMAIN r.seq PROVE inst'[i] = inst[i]
  BY <1>3 DEF Numbered, r
<1>4. ASSUME NEW i \in DOMAIN r.seq
      PROVE  /\ inst'[i].seq = r.seq[i]
             /\ inst'[i].final = IF i \notin r.done THEN inst[i].final
                                 ELSE IF sent THEN "sent" ELSE "generated"
  <2>1. inst'[i] = [inst[i] EXCEPT !.seq = r.seq[i],
                                   !.final = IF i \notin r.done THEN inst[i].final
                                             ELSE IF sent THEN "sent" ELSE "generated"]
    BY <1>2 DEF Numbered, r
  <2> QED
    BY <2>1, <1>2, <1>a DEF InstanceStates
<1>5. ASSUME NEW i \in Instances
      PROVE  /\ inst[i].seq <= inst'[i].seq
             /\ inst[i].final # "no" => inst'[i].final # "no" /\ inst'[i].seq = inst[i].seq
  <2>1. CASE i \notin DOMAIN r.seq
    BY <2>1, <1>3, <1>a DEF InstanceStates
  <2>2. CASE i \in DOMAIN r.seq
    BY <2>2, <1>2, <1>4, <1>a DEF InstanceStates, NextSeq
  <2> QED
    BY <2>1, <2>2
<1>6. \A i \in r.done : i \in DOMAIN r.seq
  BY <1>1 DEF IsReport
<1> QED
  BY <1>4, <1>5, <1>6 DEF r

\* Applying a report whose numbers are those of the instances or older ones,
\* and of final reports those of the instances, counts no instance again.
\* Here n is what inst is after the step.
LEMMA AppliedSeq ==
    ASSUME TypeOK, NEW n, n \in [Instances -> InstanceStates],
           NEW r, IsReport(r), NEW w \in BOOLEAN, Handle(r, w),
           \A b \in Backends : \A i \in InstancesOf(b) :
              /\ bs[b].seq[i] <= n[i].seq
              /\ dml[i] = IF i \in bs[b].left THEN 0 ELSE 1
              /\ i \notin bs[b].left => n[i].final # "no" /\ bs[b].seq[i] = n[i].seq,
           \A i \in DOMAIN r.seq : r.seq[i] <= n[i].seq,
           \A i \in r.done : n[i].final # "no" /\ r.seq[i] = n[i].seq,
           NEW b \in Backends, NEW i \in InstancesOf(b)
    PROVE  /\ bs'[b].seq[i] <= n[i].seq
           /\ dml'[i] = IF i \in bs'[b].left THEN 0 ELSE 1
           /\ i \notin bs'[b].left => n[i].final # "no" /\ bs'[b].seq[i] = n[i].seq
<1>1. i \in Instances /\ dml'[i] = dml[i] + IF i \in Counted(r) THEN 1 ELSE 0
  BY InstancesFacts DEF Handle
<1>2. Counted(r) \subseteq InstancesOf(r.from)
  BY DEF Counted, IsReport, Fresh
<1>3. CASE b # r.from
  <2>1. bs'[b] = bs[b]
    BY <1>3, HandleHandlers
  <2>2. i \notin Counted(r)
    BY <1>2, <1>3, InstancesFacts DEF IsReport
  <2> QED
    BY <1>1, <2>1, <2>2
<1>4. CASE b = r.from
  <2>1. bs'[b] = Applied(r)
    BY <1>4, HandleHandlers
  <2>2. CASE IsDone(b)
    <3>1. Counted(r) = {} /\ bs'[b] = bs[b]
      BY <2>1, <2>2, <1>4 DEF Counted, Applied
    <3> QED
      BY <1>1, <3>1
  <2>3. CASE ~IsDone(b)
    <3>a. bs[b] \in BackendStates
      BY DEF TypeOK, BackendStatesType
    <3>1. /\ bs'[b].left = bs[b].left \ Counted(r)
          /\ bs'[b].seq = [j \in Instances |-> IF j \in Fresh(r) THEN r.seq[j] ELSE bs[b].seq[j]]
      <4>1. bs[b].seq \in [Instances -> Nat]
        BY <3>a DEF BackendStates
      <4>2. DOMAIN bs[b].seq = Instances
        BY <4>1
      <4> QED
        BY <2>1, <2>3, <1>4, <3>a, <4>2 DEF Applied, BackendStates
    <3>2. bs'[b].seq[i] = IF i \in Fresh(r) THEN r.seq[i] ELSE bs[b].seq[i]
      BY <3>1, <1>1
    <3>3. i \in Fresh(r) => i \in DOMAIN r.seq /\ r.seq[i] > bs[b].seq[i]
      BY <1>4 DEF Fresh
    <3>4. i \in Counted(r) => i \in Fresh(r) /\ i \in r.done
      BY DEF Counted
    <3>5. n[i].seq \in Nat /\ bs[b].seq[i] \in Nat /\ (i \in DOMAIN r.seq => r.seq[i] \in Nat)
      BY <1>1, <3>a DEF InstanceStates, BackendStates, IsReport
    <3>6. CASE i \in Counted(r)
      <4>1. r.seq[i] = n[i].seq /\ n[i].final # "no" /\ r.seq[i] > bs[b].seq[i]
        BY <3>3, <3>4, <3>6
      <4>2. i \in bs[b].left /\ dml[i] = 0
        BY <4>1, <3>5
      <4> QED
        BY <4>1, <4>2, <1>1, <3>1, <3>2, <3>4, <3>5, <3>6
    <3>7. CASE i \notin Counted(r)
      <4>1. i \in bs'[b].left <=> i \in bs[b].left
        BY <3>1, <3>7
      <4>2. bs'[b].seq[i] <= n[i].seq
        BY <3>2, <3>3, <3>5
      <4>3. i \notin bs[b].left => n[i].final # "no" /\ bs'[b].seq[i] = n[i].seq
        BY <3>2, <3>3, <3>5
      <4>4. dml'[i] = dml[i]
        BY <1>1, <3>7 DEF TypeOK, ExecutorsType
      <4> QED
        BY <4>1, <4>2, <4>3, <4>4
    <3> QED
      BY <3>6, <3>7
  <2> QED
    BY <2>2, <2>3
<1> QED
  BY <1>3, <1>4

\* What steps that handle no report leave alone.
LEMMA NoReportStep ==
    ASSUME TypeOK, [Next]_vars
    PROVE  \/ \E b \in Backends : ReportExecStatus(b)
           \/ \E r \in late : HandleLate(r)
           \/ /\ UNCHANGED <<dml, late>>
              /\ \A i \in Instances : inst'[i].seq = inst[i].seq /\ inst'[i].final = inst[i].final
              /\ \A b \in Backends : bs'[b].seq = bs[b].seq /\ bs'[b].left = bs[b].left
<1>b. /\ inst \in [Instances -> InstanceStates] /\ bs \in [Backends -> BackendStates]
      /\ \A b \in Backends : InstancesOf(b) \subseteq Instances
  BY InstancesFacts DEF TypeOK, ExecutorsType, BackendStatesType
<1>1. CASE \E b \in Backends, i \in Instances : EndInstance(b, i) \/ Stall(b, i)
  <2>1. PICK b \in Backends, i \in Instances : EndInstance(b, i) \/ Stall(b, i)
    BY <1>1
  <2>2. UNCHANGED <<dml, late, bs>> /\ \E at : inst' = [inst EXCEPT ![i].at = at]
    BY <2>1 DEF EndInstance, Stall, coordinator
  <2> QED
    BY <2>2, <1>b DEF InstanceStates
<1>2. CASE \E b \in Backends : StartFInstances(b) \/ Crash(b)
  <2>1. PICK b \in Backends : StartFInstances(b) \/ Crash(b)
    BY <1>2
  <2>2. UNCHANGED <<dml, late, bs>>
    BY <2>1 DEF StartFInstances, Crash, coordinator
  <2>3. \A i \in Instances : inst'[i] \in {inst[i], [inst[i] EXCEPT !.at = "running"],
                                           [inst[i] EXCEPT !.at = "failed"]}
    BY <2>1 DEF StartFInstances, Crash
  <2> QED
    BY <2>2, <2>3, <1>b DEF InstanceStates
<1>3. CASE EndQuery \/ AbortStartup \/ Cancel \/ CancelUnresponsive
  <2>1. UNCHANGED <<dml, late, inst>> /\ (CancelBackends \/ UNCHANGED bs)
    BY <1>3 DEF EndQuery, AbortStartup, Cancel, CancelUnresponsive
  <2> QED
    BY <2>1, CancelledBackend
<1>4. CASE \E b \in Backends : ExecAsync(b) \/ ExecCompleteCb(b)
  <2>1. PICK b \in Backends : ExecAsync(b) \/ ExecCompleteCb(b)
    BY <1>4
  <2>2. /\ UNCHANGED <<dml, late, inst>>
        /\ \/ bs' = [bs EXCEPT ![b].sent = TRUE]
           \/ bs' = [bs EXCEPT ![b].done = TRUE]
           \/ bs' = [bs EXCEPT ![b].done = TRUE, ![b].status = "error"]
           \/ bs' = [bs EXCEPT ![b].done = TRUE, ![b].status = "cancelled"]
    BY <2>1 DEF ExecAsync, ExecCompleteCb, executor
  <2>3. StartChange(b)
    BY <2>2, <1>b DEF StartChange
  <2>4. \A c \in Backends : bs'[c].seq = bs[c].seq /\ bs'[c].left = bs[c].left
    <3>1. bs'[b].seq = bs[b].seq /\ bs'[b].left = bs[b].left
      BY <2>3, <1>b DEF StartChange, BackendStates
    <3>2. \A c \in Backends \ {b} : bs'[c] = bs[c]
      BY <2>3 DEF StartChange
    <3> QED
      BY <3>1, <3>2
  <2> QED
    BY <2>2, <2>4
<1>5. CASE UNCHANGED <<dml, late, inst, bs>>
  BY <1>5
<1>6. CASE \/ CloseAndGetUnreleasedBackends \/ ReleaseUnreleased
           \/ ReleaseQueryAdmissionControlResources \/ WaitOnBarrier
           \/ FinishBackendStartup \/ GetNext \/ FinalizeHdfsDml \/ FinishDml
  BY <1>5, <1>6 DEF CloseAndGetUnreleasedBackends, ReleaseUnreleased, executor,
     ReleaseQueryAdmissionControlResources, WaitOnBarrier, FinishBackendStartup, GetNext,
     FinalizeHdfsDml, FinishDml
<1>7. CASE \E b \in Backends : StartReport(b) \/ TellError(b) \/ UpdateStatus(b)
                              \/ NotifyComplete(b) \/ MarkBackendFinished(b) \/ ReleaseFinished(b)
  BY <1>5, <1>7 DEF StartReport, TellError, UpdateStatus, NotifyComplete, MarkBackendFinished,
     ReleaseFinished, coordinator, executor
<1>8. CASE UNCHANGED vars
  BY <1>5, <1>8 DEF vars, coordinator, executor
<1> QED
  BY <1>1, <1>2, <1>3, <1>4, <1>6, <1>7, <1>8 DEF Next

LEMMA SeqInit == Init => SeqInv
<1> SUFFICES ASSUME Init PROVE SeqInv
  OBVIOUS
<1>1. TypeOK
  BY InitType
<1>2. \A b \in Backends : \A i \in InstancesOf(b) : i \in Instances
  BY <1>1, InstancesFacts
<1> QED
  BY <1>2 DEF Init, SeqInv

LEMMA SeqStep == ASSUME TypeOK, TypeOK', SeqInv, [Next]_vars PROVE SeqInv'
<1>a. \A b \in Backends : InstancesOf(b)' = InstancesOf(b)
  BY BackendStep DEF InstancesOf
<1>b. /\ inst \in [Instances -> InstanceStates] /\ inst' \in [Instances -> InstanceStates]
      /\ \A b \in Backends : InstancesOf(b) \subseteq Instances
      /\ \A r \in late : IsReport(r)
      /\ dml \in [Instances -> Nat]
  BY InstancesFacts DEF TypeOK, ExecutorsType
<1>c. \A r \in late : DOMAIN r.seq \subseteq Instances /\ r.done \subseteq DOMAIN r.seq
                      /\ \A i \in DOMAIN r.seq : r.seq[i] \in Nat
  BY <1>b DEF IsReport
<1>d. ASSUME NEW r, NEW w \in BOOLEAN, IsReport(r), Handle(r, w),
             \A b \in Backends : \A i \in InstancesOf(b) :
                /\ bs'[b].seq[i] <= inst'[i].seq
                /\ dml'[i] = IF i \in bs'[b].left THEN 0 ELSE 1
                /\ i \notin bs'[b].left => inst'[i].final # "no" /\ bs'[b].seq[i] = inst'[i].seq
      PROVE  \A i \in Instances : dml'[i] <= 1
  <2> SUFFICES ASSUME NEW i \in Instances PROVE dml'[i] <= 1
    OBVIOUS
  <2>1. CASE i \in InstancesOf(r.from)
    BY <2>1, <1>d DEF IsReport
  <2>2. CASE i \notin InstancesOf(r.from)
    <3>1. i \notin Counted(r)
      BY <2>2, <1>d DEF Counted, Fresh, IsReport
    <3>2. dml'[i] = dml[i]
      BY <3>1, <1>b, <1>d DEF Handle
    <3> QED
      BY <3>2 DEF SeqInv
  <2> QED
    BY <2>1, <2>2
<1>1. CASE \E b \in Backends : ReportExecStatus(b)
  <2>1. PICK b \in Backends : ReportExecStatus(b)
    BY <1>1
  <2> DEFINE r == ReportOf(b)
  <2>2. qs[b].read # "none"
    BY <2>1, ReportStep
  <2>3. PICK sent \in BOOLEAN : inst' = Numbered(r, sent)
    BY <2>1, ReportStep
  <2>4. \/ \E w \in BOOLEAN : Handle(r, w) /\ UNCHANGED late
        \/ late' = late \cup {r} /\ UNCHANGED <<bs, dml>>
        \/ UNCHANGED <<late, bs, dml>>
    BY <2>1, ReportStep
  <2>5. /\ \A i \in Instances : inst[i].seq <= inst'[i].seq
        /\ \A i \in Instances : inst[i].final # "no" =>
              inst'[i].final # "no" /\ inst'[i].seq = inst[i].seq
        /\ \A i \in DOMAIN r.seq : r.seq[i] = inst'[i].seq
        /\ \A i \in r.done : inst'[i].final # "no"
    BY <2>2, <2>3, NumberedFacts
  <2>6. IsReport(r)
    BY <2>2, ReportType
  <2> HIDE DEF r
  <2>7. \A i \in Instances : inst[i].seq \in Nat /\ inst'[i].seq \in Nat
    BY <1>b DEF InstanceStates
  <2>8. \A c \in Backends : \A i \in InstancesOf(c) :
           /\ bs[c].seq[i] <= inst'[i].seq
           /\ dml[i] = IF i \in bs[c].left THEN 0 ELSE 1
           /\ i \notin bs[c].left => inst'[i].final # "no" /\ bs[c].seq[i] = inst'[i].seq
    <3> SUFFICES ASSUME NEW c \in Backends, NEW i \in InstancesOf(c)
                 PROVE  /\ bs[c].seq[i] <= inst'[i].seq
                        /\ dml[i] = IF i \in bs[c].left THEN 0 ELSE 1
                        /\ i \notin bs[c].left => inst'[i].final # "no" /\ bs[c].seq[i] = inst'[i].seq
      OBVIOUS
    <3>1. /\ bs[c].seq[i] <= inst[i].seq
          /\ dml[i] = IF i \in bs[c].left THEN 0 ELSE 1
          /\ i \notin bs[c].left => inst[i].final # "no" /\ bs[c].seq[i] = inst[i].seq
      BY DEF SeqInv
    <3>2. i \in Instances /\ bs[c].seq[i] \in Nat
      BY <1>b DEF TypeOK, BackendStatesType, BackendStates
    <3> QED
      BY <2>5, <2>7, <3>1, <3>2
  <2>9. \A x \in late :
           /\ \A i \in DOMAIN x.seq : x.seq[i] <= inst'[i].seq
           /\ \A i \in x.done : inst'[i].final # "no" /\ x.seq[i] = inst'[i].seq
    <3> SUFFICES ASSUME NEW x \in late
                 PROVE  /\ \A i \in DOMAIN x.seq : x.seq[i] <= inst'[i].seq
                        /\ \A i \in x.done : inst'[i].final # "no" /\ x.seq[i] = inst'[i].seq
      OBVIOUS
    <3>1. /\ \A i \in DOMAIN x.seq : x.seq[i] <= inst[i].seq
          /\ \A i \in x.done : inst[i].final # "no" /\ x.seq[i] = inst[i].seq
      BY DEF SeqInv
    <3>2. DOMAIN x.seq \subseteq Instances /\ x.done \subseteq DOMAIN x.seq
          /\ \A i \in DOMAIN x.seq : x.seq[i] \in Nat
      BY <1>c
    <3> QED
      BY <2>5, <2>7, <3>1, <3>2
  <2>10. /\ \A i \in DOMAIN r.seq : r.seq[i] <= inst'[i].seq
         /\ \A i \in r.done : inst'[i].final # "no" /\ r.seq[i] = inst'[i].seq
    BY <2>5, <2>6, <2>7, <1>b DEF IsReport
  <2>11. \A x \in late' :
            /\ \A i \in DOMAIN x.seq : x.seq[i] <= inst'[i].seq
            /\ \A i \in x.done : inst'[i].final # "no" /\ x.seq[i] = inst'[i].seq
    BY <2>4, <2>9, <2>10
  <2>12. CASE UNCHANGED <<bs, dml>>
    BY <2>8, <2>11, <2>12, <1>a DEF SeqInv
  <2>13. ASSUME NEW w \in BOOLEAN, Handle(r, w) PROVE SeqInv'
    <3>1. \A c \in Backends : \A i \in InstancesOf(c) :
             /\ bs'[c].seq[i] <= inst'[i].seq
             /\ dml'[i] = IF i \in bs'[c].left THEN 0 ELSE 1
             /\ i \notin bs'[c].left => inst'[i].final # "no" /\ bs'[c].seq[i] = inst'[i].seq
      BY <2>6, <2>8, <2>10, <2>13, <1>b, AppliedSeq
    <3>2. \A i \in Instances : dml'[i] <= 1
      BY <3>1, <2>6, <2>13, <1>d
    <3> QED
      BY <3>1, <3>2, <2>11, <1>a DEF SeqInv
  <2> QED
    BY <2>4, <2>12, <2>13
<1>2. CASE \E r \in late : HandleLate(r)
  <2>1. PICK r \in late : HandleLate(r)
    BY <1>2
  <2>2. IsReport(r) /\ Handle(r, FALSE) /\ late' \subseteq late /\ inst' = inst
    BY <2>1, <1>b DEF HandleLate, executor
  <2>3. /\ \A i \in DOMAIN r.seq : r.seq[i] <= inst[i].seq
        /\ \A i \in r.done : inst[i].final # "no" /\ r.seq[i] = inst[i].seq
    BY DEF SeqInv
  <2>4. \A c \in Backends : \A i \in InstancesOf(c) :
           /\ bs[c].seq[i] <= inst[i].seq
           /\ dml[i] = IF i \in bs[c].left THEN 0 ELSE 1
           /\ i \notin bs[c].left => inst[i].final # "no" /\ bs[c].seq[i] = inst[i].seq
    BY DEF SeqInv
  <2>5. \A c \in Backends : \A i \in InstancesOf(c) :
           /\ bs'[c].seq[i] <= inst[i].seq
           /\ dml'[i] = IF i \in bs'[c].left THEN 0 ELSE 1
           /\ i \notin bs'[c].left => inst[i].final # "no" /\ bs'[c].seq[i] = inst[i].seq
    BY <2>2, <2>3, <2>4, <1>b, AppliedSeq
  <2>6. \A i \in Instances : dml'[i] <= 1
    BY <2>2, <2>5, <1>d
  <2> QED
    BY <2>2, <2>5, <2>6, <1>a DEF SeqInv
<1>3. CASE /\ UNCHANGED <<dml, late>>
           /\ \A i \in Instances : inst'[i].seq = inst[i].seq /\ inst'[i].final = inst[i].final
           /\ \A b \in Backends : bs'[b].seq = bs[b].seq /\ bs'[b].left = bs[b].left
  BY <1>3, <1>a, <1>b, <1>c DEF SeqInv
<1> QED
  BY <1>1, <1>2, <1>3, NoReportStep

LEMMA TruthInit == Init => TruthInv
<1> SUFFICES ASSUME Init PROVE TruthInv
  OBVIOUS
<1>1. TypeOK
  BY InitType
<1>2. \A b \in Backends : \A i \in InstancesOf(b) : i \in Instances
  BY <1>1, InstancesFacts
<1> QED
  BY <1>2 DEF Init, TruthInv, NeverStarted

LEMMA AppliedTruth ==
    ASSUME TypeOK, TruthInv, NEW r, IsReport(r), NEW w \in BOOLEAN, Handle(r, w),
           r.status = "ok" => \A i \in r.done : inst[i].at = "done",
           NEW b \in Backends, bs'[b].status = "ok", NEW i \in InstancesOf(b), i \notin bs'[b].left
    PROVE  inst[i].at = "done"
<1>1. CASE b # r.from
  <2>1. bs'[b] = bs[b]
    BY <1>1, HandleHandlers
  <2> QED
    BY <2>1 DEF TruthInv
<1>2. CASE b = r.from
  <2>1. bs'[b] = Applied(r)
    BY <1>2, HandleHandlers
  <2>2. CASE IsDone(b)
    BY <2>1, <2>2, <1>2 DEF Applied, TruthInv
  <2>3. CASE ~IsDone(b)
    <3>1. bs'[b].left = bs[b].left \ Counted(r) /\ bs'[b].status = r.status
      BY <2>1, <2>3, <1>2 DEF Applied, TypeOK, BackendStatesType, BackendStates
    <3>2. bs[b].status = "ok"
      BY <2>3 DEF IsDone, Done
    <3>3. Counted(r) \subseteq r.done
      BY DEF Counted
    <3> QED
      BY <3>1, <3>2, <3>3 DEF TruthInv
  <2> QED
    BY <2>2, <2>3
<1> QED
  BY <1>1, <1>2

LEMMA TruthStep == ASSUME TypeOK, TruthInv, [Next]_vars PROVE TruthInv'
<1>a. \A b \in Backends : InstancesOf(b)' = InstancesOf(b)
  BY BackendStep DEF InstancesOf
<1>b. /\ \A b \in Backends : InstancesOf(b) \subseteq Instances
      /\ \A r \in late : IsReport(r)
  BY InstancesFacts DEF TypeOK, ExecutorsType
<1>1. NeverStarted' /\ \A i \in Instances : inst[i].at = "done" => inst'[i].at = "done"
  BY InstanceStep DEF TruthInv
<1>2. \A r : IsReport(r) => r.done \subseteq Instances
  BY <1>b DEF IsReport
<1>3. \A b \in Backends : bs'[b].status = "ok" => bs[b].status = "ok"
  BY Monotone
<1>4. CASE \E b \in Backends : ReportExecStatus(b)
  <2>1. PICK b \in Backends : ReportExecStatus(b)
    BY <1>4
  <2> DEFINE r == ReportOf(b)
  <2>2. \/ \E w \in BOOLEAN : Handle(r, w) /\ UNCHANGED late
        \/ late' = late \cup {r} /\ UNCHANGED <<bs, dml>>
        \/ UNCHANGED <<late, bs, dml>>
    BY <2>1, ReportStep
  <2>3. IsReport(r)
    BY <2>1, ReportStep, ReportType
  <2>4. r.status = "ok" => \A i \in r.done : inst[i].at = "done"
    BY DEF ReportOf, ReportedDone
  <2> HIDE DEF r
  <2>5. \A c \in Backends : bs'[c].status = "ok" =>
           \A i \in InstancesOf(c) \ bs'[c].left : inst[i].at = "done"
    BY <2>2, <2>3, <2>4, AppliedTruth DEF TruthInv
  <2>6. \A x \in late' : IsReport(x) /\ (x.status = "ok" => \A i \in x.done : inst[i].at = "done")
    BY <2>2, <2>3, <2>4, <1>b DEF TruthInv
  <2> QED
    BY <2>5, <2>6, <1>1, <1>2, <1>a, <1>b DEF TruthInv
<1>5. CASE \E r \in late : HandleLate(r)
  <2>1. PICK r \in late : HandleLate(r)
    BY <1>5
  <2>2. IsReport(r) /\ Handle(r, FALSE) /\ late' \subseteq late
    BY <2>1, <1>b DEF HandleLate
  <2>3. r.status = "ok" => \A i \in r.done : inst[i].at = "done"
    BY DEF TruthInv
  <2>4. \A c \in Backends : bs'[c].status = "ok" =>
           \A i \in InstancesOf(c) \ bs'[c].left : inst[i].at = "done"
    BY <2>2, <2>3, AppliedTruth
  <2>5. \A x \in late' : IsReport(x) /\ (x.status = "ok" => \A i \in x.done : inst[i].at = "done")
    BY <2>2, <1>b DEF TruthInv
  <2> QED
    BY <2>4, <2>5, <1>1, <1>2, <1>a, <1>b DEF TruthInv
<1>6. CASE /\ UNCHANGED <<dml, late>>
           /\ \A b \in Backends : bs'[b].seq = bs[b].seq /\ bs'[b].left = bs[b].left
  BY <1>6, <1>1, <1>2, <1>3, <1>a, <1>b DEF TruthInv
<1> QED
  BY <1>4, <1>5, <1>6, NoReportStep

LEMMA FinalStep ==
    ASSUME TypeOK, StartInv, CountInv, FinalInv, [Next]_vars
    PROVE  FinalInv'
<1>1. \A b \in Backends : bs[b].left = {} => bs'[b].left = {}
  BY Monotone
<1>2. CASE FinalizeHdfsDml
  <2>1. CASE exec.status = "ok"
    <3>1. Going
      BY <1>2, <2>1 DEF FinalizeHdfsDml, TypeOK, ControlType, CountInv, StartInv, Going
    <3>2. \A b \in Backends : Notified(b) /\ IsDone(b)
      BY <1>2, <3>1, NotifiedDone DEF FinalizeHdfsDml, CountInv
    <3>3. ASSUME NEW b \in Backends PROVE bs[b].left = {}
      <4>1. CASE InstancesOf(b) = {}
        BY <4>1 DEF TypeOK, BackendStatesType
      <4>2. CASE InstancesOf(b) # {}
        <5>1. IsDone(b) /\ handler[b].at \notin {"error", "update"}
          BY <3>2, <4>2 DEF Notified
        <5>2. bs[b].status = "ok"
          BY <3>1, <5>1 DEF CountInv
        <5> QED
          BY <5>1, <5>2 DEF IsDone, Done
      <4> QED
        BY <4>1, <4>2
    <3>4. finalized' = TRUE
      BY <1>2, <2>1 DEF FinalizeHdfsDml
    <3> QED
      BY <1>1, <3>3, <3>4 DEF FinalInv
  <2>2. CASE exec.status # "ok"
    BY <1>1, <1>2, <2>2 DEF FinalizeHdfsDml, FinalInv
  <2> QED
    BY <2>1, <2>2
<1>3. CASE finalized' = finalized /\ (main' = "finalized" => main = "finalized")
  BY <1>1, <1>3 DEF FinalInv
<1>4. CASE WaitOnBarrier \/ AbortStartup \/ GetNext \/ FinishDml
  BY <1>3, <1>4 DEF WaitOnBarrier, AbortStartup, GetNext, FinishDml
<1>5. CASE FinishBackendStartup
  <2>1. finalized' = finalized
    BY <1>5 DEF FinishBackendStartup
  <2>2. main' = IF main = "finish" /\ exec'.status = "ok" THEN "running" ELSE "done"
    BY <1>5, Zenon DEF FinishBackendStartup
  <2> QED
    BY <1>3, <2>1, <2>2
<1>6. CASE EndQuery \/ Cancel \/ CancelUnresponsive \/ CloseAndGetUnreleasedBackends
           \/ ReleaseUnreleased \/ ReleaseQueryAdmissionControlResources
  BY <1>3, <1>6 DEF EndQuery, Cancel, CancelUnresponsive, CloseAndGetUnreleasedBackends,
     ReleaseUnreleased, ReleaseQueryAdmissionControlResources
<1>7. CASE \E b \in Backends : ExecAsync(b) \/ StartFInstances(b) \/ ExecCompleteCb(b)
                              \/ StartReport(b) \/ ReportExecStatus(b) \/ Crash(b)
                              \/ \E i \in Instances : EndInstance(b, i) \/ Stall(b, i)
  BY <1>3, <1>7 DEF ExecAsync, StartFInstances, ExecCompleteCb, StartReport, ReportExecStatus,
     Crash, EndInstance, Stall, coordinator
<1>8. CASE \E b \in Backends : TellError(b) \/ UpdateStatus(b) \/ NotifyComplete(b)
                              \/ MarkBackendFinished(b) \/ ReleaseFinished(b)
  BY <1>3, <1>8 DEF TellError, UpdateStatus, NotifyComplete, MarkBackendFinished, ReleaseFinished
<1>9. CASE (\E r \in late : HandleLate(r)) \/ UNCHANGED vars
  BY <1>3, <1>9 DEF HandleLate, vars, coordinator
<1> QED
  BY <1>2, <1>4, <1>5, <1>6, <1>7, <1>8, <1>9 DEF Next

-----------------------------------------------------------------------------
(* The theorems.                                                           *)

LEMMA InitInv == Init => IInv
BY InitType, StartInit, DoneInit, ReleaseInit, CountInit, SeqInit, TruthInit
   DEF IInv, FinalInv, Init

LEMMA StepInv == IInv /\ [Next]_vars => IInv'
<1> SUFFICES ASSUME IInv, [Next]_vars PROVE IInv'
  OBVIOUS
<1>1. TypeOK'
  BY TypeStep DEF IInv
<1>2. StartInv' /\ DoneInv' /\ ReleaseInv'
  BY StartStep, DoneStep, ReleaseStep DEF IInv
<1>3. CountInv' /\ FinalInv'
  BY CountInvStep, FinalStep DEF IInv
<1>4. SeqInv' /\ TruthInv'
  BY <1>1, SeqStep, TruthStep DEF IInv
<1> QED
  BY <1>1, <1>2, <1>3, <1>4 DEF IInv

\* The inductive invariant: the Exec() RPCs and their barrier, the handlers of
\* final reports, who releases which backend, what the barrier of the backends
\* counts, and the numbers of the reports.
THEOREM Invariant == Spec => []IInv
<1>1. Init => IInv
  BY InitInv
<1>2. IInv /\ [Next]_vars => IInv'
  BY StepInv
<1> QED
  BY <1>1, <1>2, PTL DEF Spec

\* Each backend's resources, and then the query's, are given back at most once,
\* whoever ends the query and however many handlers release finished backends:
\* BackendResourceState lets each backend be taken by one of them.
THEOREM ReleasedOnceHolds == Spec => []ReleasedOnce
<1>1. IInv => ReleasedOnce
  <2> SUFFICES ASSUME IInv PROVE ReleasedOnce
    OBVIOUS
  <2>1. DOMAIN freed = Backends \cup {"all"}
    BY DEF IInv, TypeOK, ResourcesType
  <2>2. freed["all"] <= 1 /\ \A b \in Backends : freed[b] <= 1
    BY DEF IInv, ReleaseInv
  <2>3. freed["all"] = 1 => \A b \in Backends : freed[b] = 1
    BY DEF IInv, ReleaseInv
  <2> QED
    BY <2>1, <2>2, <2>3 DEF ReleasedOnce, IInv
<1> QED
  BY <1>1, Invariant, PTL

\* A backend is released only when the coordinator is done with it, and no
\* transition out of EXECUTING runs while Exec() RPCs are under way.
THEOREM ReleasedIsDoneHolds == Spec => []ReleasedIsDone
<1>1. IInv => ReleasedIsDone
  <2> SUFFICES ASSUME IInv PROVE ReleasedIsDone
    OBVIOUS
  <2>1. ASSUME NEW b \in Backends, freed[b] > 0 PROVE IsDone(b)
    <3>1. res.state[b] = "RELEASED"
      BY <2>1 DEF IInv, ReleaseInv
    <3> QED
      BY <3>1 DEF IInv, DoneInv
  <2> QED
    BY <2>1 DEF IInv, StartInv, ReleasedIsDone
<1> QED
  BY <1>1, Invariant, PTL

\* FinalizeHdfsDml() moves the files of an insert only when every instance has
\* been counted, and ApplyExecStatusReport() counts each once.
THEOREM DmlCompleteHolds == Spec => []DmlComplete
<1>1. IInv => DmlComplete
  <2> SUFFICES ASSUME IInv PROVE DmlComplete
    OBVIOUS
  <2>1. \A i \in Instances : dml[i] <= 1
    BY DEF IInv, SeqInv
  <2>2. ASSUME finalized, NEW b \in Backends, NEW i \in InstancesOf(b) PROVE dml[i] = 1
    BY <2>2 DEF IInv, SeqInv, FinalInv
  <2> QED
    BY <2>1, <2>2 DEF DmlComplete
<1> QED
  BY <1>1, Invariant, PTL

\* A backend that counts as done without an error has run all its instances to
\* their end.
THEOREM TruthfulReportsHolds == Spec => []TruthfulReports
<1>1. IInv => TruthfulReports
  BY DEF IInv, TruthInv, TruthfulReports
<1> QED
  BY <1>1, Invariant, PTL
=============================================================================

----------------------------- MODULE DataStream -----------------------------
(***************************************************************************)
(* One exchange: the senders of the instances of a fragment transmit row   *)
(* batches to the receiver of an instance of the next one.  A sender has   *)
(* one RPC in flight; the receiver answers it when the batch is in its     *)
(* queue, and defers it while the queue is full.                           *)
(*                                                                         *)
(* KrpcDataStreamSender::Channel, KrpcDataStreamMgr, KrpcDataStreamRecvr   *)
(* and its SenderQueues, and the ExchangeNode that reads them.  Threads:   *)
(* each sender's, the RPC service threads, the deserialization pool, the   *)
(* maintenance thread, the receiver's fragment instance, and the one that  *)
(* cancels the query.  A batch has size 1.                                 *)
(***************************************************************************)
EXTENDS Integers, Sequences, SequencesExt, FiniteSets

CONSTANTS
    NumSenders,     \* num_senders_
    MaxBatches,     \* a sender sends at most so many batches
    Limit,          \* total_buffer_limit_, in batches
    Threads,        \* datastream_service_num_deserialization_threads
    MaxFaults       \* network errors, failing deserializations and nodes

ASSUME ConstantsAssumption ==
    /\ NumSenders \in Nat \ {0} /\ Threads \in Nat \ {0}
    /\ MaxBatches \in Nat /\ Limit \in Nat /\ MaxFaults \in Nat

Senders == 0..(NumSenders - 1)

VARIABLES
    merging,    \* is_merging_
    snd,        \* the channels of the senders: where, batches sent, remote_recvr_closed_
    rpc,        \* the RPC of a sender: on the way ("data", "eos") or "held" by the receiver
    reg,        \* the receiver is in receiver_map_, then in closed_stream_cache_
    early,      \* early_senders_map_ of the receiver
    taken,      \* early_senders_for_recvr of CreateRecvr()
    queue,      \* sender_queues_
    buffered,   \* num_buffered_bytes_
    charged,    \* whose RPCs the deferred_rpc_tracker_ counts
    cons,       \* where the fragment instance that reads is
    want,       \* the queue whose GetBatch() it is in, or -1
    got,        \* the batches of each sender it got
    over,       \* the queues it read to the end
    failed,     \* some instance of the query has failed, the coordinator knows or will
    cancelled,  \* QueryState::Cancel() has run at the receiver
    faults

sending == <<snd, rpc>>
receiving == <<reg, early, taken, queue, buffered, charged>>
consuming == <<cons, want, got, over>>
vars == <<merging, sending, receiving, consuming, failed, cancelled, faults>>

Queues == IF merging THEN Senders ELSE {0}
QueueOf(s) == IF merging THEN s ELSE 0
NoSenders == [data |-> <<>>, eos |-> <<>>]

Init ==
    /\ merging \in BOOLEAN
    /\ snd = [s \in Senders |-> [at |-> "sending", n |-> 0, closed |-> FALSE]]
    /\ rpc = [s \in Senders |-> "none"]
    /\ reg = "none" /\ early = NoSenders /\ taken = NoSenders
    /\ queue = [i \in Queues |->
                  [batches |-> <<>>, deferred |-> <<>>, tasks |-> 0, adding |-> {},
                   remaining |-> IF merging THEN 1 ELSE NumSenders,
                   ok |-> TRUE, cancelled |-> FALSE]]
    /\ buffered = 0 /\ charged = {}
    /\ cons = "prepare" /\ want = -1
    /\ got = [s \in Senders |-> <<>>] /\ over = {}
    /\ failed = FALSE /\ cancelled = FALSE /\ faults = 0

Fault == faults < MaxFaults /\ faults' = faults + 1

-----------------------------------------------------------------------------
(* The senders.                                                            *)

\* The answers to the RPCs of the senders in S: TransmitDataCompleteCb(),
\* EndDataStreamCompleteCb(), and what the sender makes of the status.
Answered(s, answer) ==
    IF snd[s].at \notin {"sending", "eos"} THEN snd[s]
    ELSE CASE answer = "error" -> [snd[s] EXCEPT !.at = "failed"]
           [] answer = "closed" -> [snd[s] EXCEPT !.closed = TRUE]
           [] answer = "ok" -> IF snd[s].at = "eos" THEN [snd[s] EXCEPT !.at = "done"] ELSE snd[s]

Respond(S, answer) ==
    /\ rpc' = [s \in Senders |-> IF s \in S THEN "none" ELSE rpc[s]]
    /\ snd' = [s \in Senders |-> IF s \in S THEN Answered(s, answer) ELSE snd[s]]
    /\ failed' = (failed \/ \E s \in Senders : snd'[s].at = "failed")

\* Send() of one more batch, after WaitForRpcLocked().
TransmitData(s) ==
    /\ snd[s].at = "sending" /\ rpc[s] = "none" /\ ~snd[s].closed
    /\ snd[s].n < MaxBatches
    /\ snd' = [snd EXCEPT ![s].n = @ + 1]
    /\ rpc' = [rpc EXCEPT ![s] = "data"]
    /\ UNCHANGED <<merging, receiving, consuming, failed, cancelled, faults>>

\* Mutant: EOS is sent without waiting for the answer to the last batch
FlushAtOnce(s) ==
    /\ snd[s].at = "sending" /\ rpc[s] # "data"
    /\ snd' = [snd EXCEPT ![s].at = "eos"]
    /\ rpc' = [rpc EXCEPT ![s] = "eos"]
    /\ UNCHANGED <<merging, receiving, consuming, failed, cancelled, faults>>

\* The instance has no more rows, at any point: WaitForRpc(), SendEosAsync().
FlushFinal(s) ==
    /\ snd[s].at = "sending" /\ rpc[s] = "none"
    /\ IF snd[s].closed
       THEN snd' = [snd EXCEPT ![s].at = "done"] /\ UNCHANGED rpc
       ELSE snd' = [snd EXCEPT ![s].at = "eos"] /\ rpc' = [rpc EXCEPT ![s] = "eos"]
    /\ UNCHANGED <<merging, receiving, consuming, failed, cancelled, faults>>

\* The sender is done with its RPC, whether or not the receiver ever gets it.
Abandon(s, at) ==
    /\ snd[s].at \in {"sending", "eos"}
    /\ snd' = [snd EXCEPT ![s].at = at]
    /\ \/ UNCHANGED rpc
       \/ rpc[s] \in {"data", "eos"} /\ rpc' = [rpc EXCEPT ![s] = "none"]

\* The RPC fails with a network error or, EOS only, times out.  (A server
\* that is too busy is asked again, RetryCb(): the RPC is still on the way.)
HandleFailedRPC(s) ==
    /\ Fault
    /\ rpc[s] # "none"
    /\ Abandon(s, "failed")
    /\ failed' = TRUE
    /\ UNCHANGED <<merging, receiving, consuming, cancelled>>

\* DoTransmitDataRpc() fails before it makes the call (a sidecar is not
\* taken) and TransmitData() returns with rpc_in_flight_ set.  The sender is
\* closed before its instance reports the error, and Teardown() cancels a
\* call that does not exist: that is undefined, and takes the process down,
\* which the coordinator will notice, or the thread waits for good.
TransmitDataFails(s) ==
    /\ Fault
    /\ snd[s].at = "sending" /\ rpc[s] = "none" /\ ~snd[s].closed
    /\ snd[s].n < MaxBatches
    /\ Abandon(s, "lost")
    /\ failed' \in {failed, TRUE}
    /\ UNCHANGED <<merging, receiving, consuming, cancelled>>

\* The query is cancelled at the sender: ShouldTerminate(), Teardown().
CancelSender(s) ==
    /\ failed
    /\ Abandon(s, "cancelled")
    /\ UNCHANGED <<merging, receiving, consuming, failed, cancelled, faults>>

-----------------------------------------------------------------------------
(* The receiver's queues.                                                  *)

\* Mutant: insertions under way are not counted
EmptyQueue(i) == queue[i].batches = <<>> \/ buffered + 1 <= Limit

\* Mutant: an empty queue of a merging receiver waits for room like the others
LimitOnly(i) == buffered + 1 <= Limit \/ buffered = 0

\* SenderQueue::CanEnqueue(): always when nothing is in the queue or about
\* to be, so that a merging receiver never waits for a queue nobody may fill.
\* (Two queues of a merging receiver may read the shared num_buffered_bytes_
\* at once; each then adds one batch more, which WithinLimit allows for.)
CanEnqueue(i) ==
    \/ queue[i].batches = <<>> /\ queue[i].adding = {}
    \/ buffered + 1 <= Limit

\* AddBatchWork() up to the point where it drops the lock.
StartAdding(i, s) ==
    /\ buffered' = buffered + 1
    /\ queue' = [queue EXCEPT ![i].adding = @ \cup {s}]

\* SenderQueue::AddBatch().
AddBatch(i, s) ==
    \/ /\ Fault     \* UnpackRequest() fails
       /\ queue' = [queue EXCEPT ![i].ok = FALSE]
       /\ Respond({s}, "error")
       /\ UNCHANGED <<buffered, charged>>
    \/ /\ UNCHANGED faults
       /\ queue[i].cancelled
       /\ Respond({s}, "closed")
       /\ UNCHANGED <<queue, buffered, charged>>
    \/ /\ UNCHANGED <<faults, snd, failed>>
       /\ ~queue[i].cancelled
       /\ rpc' = [rpc EXCEPT ![s] = "held"]
       /\ IF queue[i].deferred # <<>> \/ ~CanEnqueue(i)
          THEN /\ queue' = [queue EXCEPT ![i].deferred = Append(@, s)]
               /\ charged' = charged \cup {s}
               /\ UNCHANGED buffered
          ELSE StartAdding(i, s) /\ UNCHANGED charged

\* The rest of AddBatchWork(), with the lock again, and the answer.
FinishAdding(i, s) ==
    /\ s \in queue[i].adding
    /\ \/ /\ queue' = [queue EXCEPT ![i].adding = @ \ {s},
                                    ![i].batches = Append(@, <<s, snd[s].n>>)]
          /\ Respond({s}, "ok")
          /\ UNCHANGED <<buffered, faults>>
       \/ /\ Fault  \* the batch cannot be deserialized
          /\ queue' = [queue EXCEPT ![i].adding = @ \ {s}, ![i].ok = FALSE]
          /\ buffered' = buffered - 1
          /\ Respond({s}, "error")
    /\ charged' = charged \ {s}
    /\ UNCHANGED <<merging, reg, early, taken, consuming, cancelled>>

\* A deserialization thread's task, which does nothing when the receiver is
\* gone: then no RPC is deferred.
ProcessDeferredRpc(i) ==
    LET s == Head(queue[i].deferred)
        q == [queue EXCEPT ![i].tasks = @ - 1]
    IN
    /\ queue[i].tasks > 0
    /\ \/ /\ queue[i].deferred = <<>> \/ ~CanEnqueue(i)
          /\ queue' = q
          /\ UNCHANGED <<sending, buffered, charged, failed, faults>>
       \/ /\ queue[i].deferred # <<>> /\ CanEnqueue(i)
          /\ queue' = [q EXCEPT ![i].deferred = Tail(@), ![i].adding = @ \cup {s}]
          /\ buffered' = buffered + 1
          /\ UNCHANGED <<sending, charged, failed, faults>>
       \/ /\ queue[i].deferred # <<>>
          /\ Fault  \* UnpackRequest() fails
          /\ queue' = [q EXCEPT ![i].deferred = Tail(@), ![i].ok = FALSE]
          /\ charged' = charged \ {s}
          /\ Respond({s}, "error")
          /\ UNCHANGED buffered
    /\ UNCHANGED <<merging, reg, early, taken, consuming, cancelled>>

\* SenderQueue::Cancel() of every queue.
CancelStream ==
    LET waiting == UNION {ToSet(queue[i].deferred) : i \in Queues}
    IN  /\ queue' = [i \in Queues |-> [queue[i] EXCEPT !.cancelled = TRUE, !.deferred = <<>>]]
        /\ charged' = charged \ waiting
        /\ Respond(waiting, "closed")

-----------------------------------------------------------------------------
(* The stream manager.                                                     *)

\* FindRecvr() finds neither the receiver nor a trace of it.
Unknown == reg \in {"none", "expired"}

\* The TransmitData() RPC of s arrives.
AddData(s) ==
    /\ rpc[s] = "data"
    /\ \/ /\ Unknown
          /\ early' = [early EXCEPT !.data = Append(@, s)]
          /\ rpc' = [rpc EXCEPT ![s] = "held"]
          /\ UNCHANGED <<snd, queue, buffered, charged, failed, faults>>
       \/ /\ reg = "closed"
          /\ Respond({s}, "closed")
          /\ UNCHANGED <<early, queue, buffered, charged, faults>>
       \/ /\ reg = "registered"
          /\ AddBatch(QueueOf(s), s)
          /\ UNCHANGED early
    /\ UNCHANGED <<merging, reg, taken, consuming, cancelled>>

\* DecrementSenders()
RemoveSender(s) ==
    queue' = [queue EXCEPT ![QueueOf(s)].remaining = IF @ > 0 THEN @ - 1 ELSE 0]

\* The EndDataStream() RPC of s arrives.
CloseSender(s) ==
    /\ rpc[s] = "eos"
    /\ IF Unknown
       THEN /\ early' = [early EXCEPT !.eos = Append(@, s)]
            /\ rpc' = [rpc EXCEPT ![s] = "held"]
            /\ UNCHANGED <<snd, queue, failed>>
       ELSE /\ IF reg = "registered" THEN RemoveSender(s) ELSE UNCHANGED queue
            /\ Respond({s}, "ok")
            /\ UNCHANGED early
    /\ UNCHANGED <<merging, reg, taken, buffered, charged, consuming, cancelled, faults>>

\* Mutant: the early senders stay in the manager's map
CreateRecvrKeepsEarly ==
    /\ cons = "prepare"
    /\ reg' = "registered"
    /\ taken' = early /\ UNCHANGED early
    /\ cons' = "taking"
    /\ UNCHANGED <<merging, sending, queue, buffered, charged, want, got, over,
                   failed, cancelled, faults>>

\* ExchangeNode::Prepare(): the receiver is registered, then the early
\* senders are taken over one by one, without the manager's lock.
CreateRecvr ==
    /\ cons = "prepare"
    /\ reg' = "registered"
    /\ taken' = early /\ early' = NoSenders
    /\ cons' = "taking"
    /\ UNCHANGED <<merging, sending, queue, buffered, charged, want, got, over,
                   failed, cancelled, faults>>

TakeOverEarlySender ==
    LET s == Head(taken.data)
        i == QueueOf(s)
    IN
    /\ cons = "taking" /\ taken.data # <<>>
    /\ taken' = [taken EXCEPT !.data = Tail(@)]
    /\ IF queue[i].cancelled
       THEN Respond({s}, "closed") /\ UNCHANGED <<queue, charged>>
       ELSE /\ queue' = [queue EXCEPT ![i].deferred = Append(@, s), ![i].tasks = @ + 1]
            /\ charged' = charged \cup {s}
            /\ UNCHANGED <<sending, failed>>
    /\ UNCHANGED <<merging, reg, early, buffered, consuming, cancelled, faults>>

TakeOverEos ==
    LET s == Head(taken.eos) IN
    /\ cons = "taking" /\ taken.data = <<>> /\ taken.eos # <<>>
    /\ taken' = [taken EXCEPT !.eos = Tail(@)]
    /\ RemoveSender(s)
    /\ Respond({s}, "ok")
    /\ UNCHANGED <<merging, reg, early, buffered, charged, consuming, cancelled, faults>>

Prepared ==
    /\ cons = "taking" /\ taken = NoSenders
    /\ cons' = "reading"
    /\ UNCHANGED <<merging, sending, receiving, want, got, over, failed, cancelled, faults>>

\* The instance fails before its exchange node makes the receiver.
PrepareFails ==
    /\ Fault
    /\ cons = "prepare" /\ cons' = "never"
    /\ failed' = TRUE
    /\ UNCHANGED <<merging, sending, receiving, want, got, over, cancelled>>

\* Maintenance(): the senders waiting for a receiver have waited too long.
TimeOutEarlySenders ==
    /\ early # NoSenders
    /\ early' = NoSenders
    /\ Respond(ToSet(early.data) \cup ToSet(early.eos), "error")
    /\ UNCHANGED <<merging, reg, taken, queue, buffered, charged, consuming, cancelled, faults>>

\* Maintenance(): the closed stream has been remembered long enough.
ForgetClosedStream ==
    /\ reg = "closed" /\ reg' = "expired"
    /\ UNCHANGED <<merging, sending, early, taken, queue, buffered, charged, consuming,
                   failed, cancelled, faults>>

\* QueryState::Cancel() at the receiver: waits until the instances have
\* prepared, then KrpcDataStreamMgr::Cancel(), once.
Cancel ==
    /\ failed /\ ~cancelled
    /\ cons \notin {"prepare", "taking"}
    /\ cancelled' = TRUE
    /\ IF reg = "registered" THEN CancelStream
       ELSE UNCHANGED <<sending, queue, charged, failed>>
    /\ UNCHANGED <<merging, reg, early, taken, buffered, consuming, faults>>

-----------------------------------------------------------------------------
(* The reader: ExchangeNode and, when merging, SortedRunMerger.            *)

Unread == {i \in Queues \ over : \A s \in Senders : QueueOf(s) = i => got[s] = <<>>}

\* Which queue is read next: any that is not at its end; a merger first
\* gets a batch of every queue, in order.
NextQueue(i) ==
    /\ i \in Queues \ over
    /\ merging /\ Unread # {} => i \in Unread /\ \A j \in Unread : i <= j

StartGetBatch(i) ==
    /\ cons = "reading" /\ want = -1
    /\ NextQueue(i)
    /\ want' = i
    /\ UNCHANGED <<merging, sending, receiving, cons, got, over, failed, cancelled, faults>>

\* GetBatch() waits while none of this is so.
Arrived(i) ==
    queue[i].batches # <<>> \/ ~queue[i].ok \/ queue[i].cancelled \/ queue[i].remaining = 0

\* Mutant: the deferred RPCs are not looked at when a batch is taken
NoTasks(i) == 0

\* How many deserialization tasks GetBatch() starts for deferred RPCs.
TasksFor(i) ==
    LET n == Len(queue[i].deferred) - queue[i].tasks
    IN  IF n < Threads THEN n ELSE Threads

\* The rest of GetBatch(): an error, cancellation, the end, or a batch.
GetBatch ==
    LET i == want
        batch == Head(queue[i].batches)
    IN
    /\ want # -1 /\ Arrived(i)
    /\ want' = -1
    /\ \/ /\ ~queue[i].ok \/ queue[i].cancelled
          /\ cons' = "done"
          /\ failed' = TRUE
          /\ UNCHANGED <<queue, buffered, got, over>>
       \/ /\ queue[i].ok /\ ~queue[i].cancelled
          /\ queue[i].batches = <<>>
          /\ over' = over \cup {i}
          /\ UNCHANGED <<queue, buffered, cons, got, failed>>
       \/ /\ queue[i].ok /\ ~queue[i].cancelled
          /\ queue[i].batches # <<>>
          /\ queue' = [queue EXCEPT ![i].batches = Tail(@),
                                    ![i].tasks = @ + TasksFor(i)]
          /\ buffered' = buffered - 1
          /\ got' = [got EXCEPT ![batch[1]] = Append(@, batch[2])]
          /\ UNCHANGED <<cons, over, failed>>
    /\ UNCHANGED <<merging, sending, reg, early, taken, charged, cancelled, faults>>

\* ReleaseRecvrResources(): the node has all the rows it will return.  At
\* the limit with either kind of receiver, at the end with a merging one.
ReachedLimit ==
    /\ cons = "reading" /\ want = -1
    /\ got # [s \in Senders |-> <<>>] \/ (merging /\ over = Queues)
    /\ cons' = "done"
    /\ CancelStream
    /\ UNCHANGED <<merging, reg, early, taken, buffered, want, got, over, cancelled, faults>>

\* The end of a receiver that does not merge, the instance is cancelled
\* (RETURN_IF_CANCELLED) or fails elsewhere: Close() is next.
StopReading ==
    /\ cons = "reading" /\ want = -1
    /\ cons' = "done"
    /\ \/ /\ (~merging /\ over = Queues) \/ cancelled
          /\ UNCHANGED <<failed, faults>>
       \/ Fault /\ failed' = TRUE
    /\ UNCHANGED <<merging, sending, receiving, want, got, over, cancelled>>

\* KrpcDataStreamRecvr::Close() up to DeregisterRecvr().
DeregisterRecvr ==
    /\ cons = "done" /\ cons' = "closing"
    /\ reg' = "closed"
    /\ CancelStream
    /\ UNCHANGED <<merging, early, taken, buffered, want, got, over, cancelled, faults>>

\* Mutant: Close() does not wait for insertions
CloseNow ==
    /\ cons = "closing"
    /\ cons' = "closed"
    /\ queue' = [i \in Queues |-> [queue[i] EXCEPT !.batches = <<>>]]
    /\ UNCHANGED <<merging, sending, reg, early, taken, buffered, charged, want, got, over,
                   failed, cancelled, faults>>

\* SenderQueue::Close() of every queue, after the pending insertions, and
\* the rest of KrpcDataStreamRecvr::Close().
CloseQueues ==
    /\ cons = "closing"
    /\ \A i \in Queues : queue[i].adding = {}
    /\ cons' = "closed"
    /\ queue' = [i \in Queues |-> [queue[i] EXCEPT !.batches = <<>>]]
    /\ UNCHANGED <<merging, sending, reg, early, taken, buffered, charged, want, got, over,
                   failed, cancelled, faults>>

Next ==
    \/ \E s \in Senders :
          \/ TransmitData(s) \/ FlushFinal(s) \/ HandleFailedRPC(s) \/ TransmitDataFails(s)
          \/ CancelSender(s) \/ AddData(s) \/ CloseSender(s)
          \/ \E i \in Queues : FinishAdding(i, s)
    \/ \E i \in Queues : ProcessDeferredRpc(i) \/ StartGetBatch(i)
    \/ CreateRecvr \/ TakeOverEarlySender \/ TakeOverEos \/ Prepared \/ PrepareFails
    \/ TimeOutEarlySenders \/ ForgetClosedStream \/ Cancel
    \/ GetBatch \/ ReachedLimit \/ StopReading \/ DeregisterRecvr \/ CloseQueues

Spec == Init /\ [][Next]_vars

\* Instances run and end, RPCs arrive, the pools and the maintenance thread
\* run, and a query that failed is cancelled everywhere.
Fairness ==
    /\ \A s \in Senders :
          /\ WF_vars(FlushFinal(s)) /\ WF_vars(CancelSender(s))
          /\ WF_vars(AddData(s)) /\ WF_vars(CloseSender(s))
          /\ \A i \in Senders : WF_vars(i \in Queues /\ FinishAdding(i, s))
    /\ \A i \in Senders : WF_vars(i \in Queues /\ ProcessDeferredRpc(i))
    /\ WF_vars(\E i \in Queues : StartGetBatch(i))
    /\ WF_vars(CreateRecvr \/ TakeOverEarlySender \/ TakeOverEos \/ Prepared)
    /\ WF_vars(TimeOutEarlySenders) /\ WF_vars(Cancel)
    /\ WF_vars(GetBatch) /\ WF_vars(ReachedLimit /\ over = Queues) /\ WF_vars(StopReading /\ faults' = faults)
    /\ WF_vars(DeregisterRecvr) /\ WF_vars(CloseQueues)

FairSpec == Spec /\ Fairness

-----------------------------------------------------------------------------
(* Properties.                                                             *)

InQueue == UNION {ToSet(queue[i].deferred) \cup queue[i].adding : i \in Queues}
InEarly == ToSet(early.data) \cup ToSet(early.eos) \cup ToSet(taken.data) \cup ToSet(taken.eos)

Channel ==
    [at : {"sending", "eos", "done", "failed", "cancelled", "lost"}, n : 0..MaxBatches,
     closed : BOOLEAN]
SenderQueue ==
    [batches : Seq(Senders \X (1..MaxBatches)), deferred : Seq(Senders), tasks : 0..NumSenders,
     adding : SUBSET Senders, remaining : 0..NumSenders, ok : BOOLEAN, cancelled : BOOLEAN]
SenderLists == [data : Seq(Senders), eos : Seq(Senders)]

\* Types.
TypeOK ==
    /\ merging \in BOOLEAN
    /\ snd \in [Senders -> Channel]
    /\ rpc \in [Senders -> {"none", "data", "eos", "held"}]
    /\ reg \in {"none", "registered", "closed", "expired"}
    /\ early \in SenderLists /\ taken \in SenderLists
    /\ queue \in [Queues -> SenderQueue]
    /\ buffered \in Nat /\ charged \subseteq Senders
    /\ cons \in {"prepare", "taking", "reading", "done", "closing", "closed", "never"}
    /\ want \in Queues \cup {-1} /\ over \subseteq Queues
    /\ got \in [Senders -> Seq(1..MaxBatches)]
    /\ failed \in BOOLEAN /\ cancelled \in BOOLEAN /\ faults \in 0..MaxFaults

\* The receiver's side holds an RPC, TransmitData() or EndDataStream(), in
\* exactly one place, the early senders of the manager, the ones CreateRecvr()
\* is taking over, the deferred RPCs or an insertion of its own queue: no
\* RPC is forgotten, and none is answered twice.
HeldOnce ==
    /\ {s \in Senders : rpc[s] = "held"} = InQueue \cup InEarly
    /\ InQueue \cap InEarly = {}
    /\ \A i \in Queues :
          /\ IsInjective(queue[i].deferred)
          /\ ToSet(queue[i].deferred) \cap queue[i].adding = {}
          /\ \A s \in ToSet(queue[i].deferred) \cup queue[i].adding : QueueOf(s) = i
    /\ early = NoSenders \/ taken = NoSenders
    /\ \A e \in {early, taken} :
          IsInjective(e.data) /\ IsInjective(e.eos) /\ ToSet(e.data) \cap ToSet(e.eos) = {}

\* The DCHECK of GetBatch() before it waits: when an RPC is deferred, a task
\* or an insertion is under way that will wake the reader up, so the lost
\* wake-up that would hang the query cannot happen.  And the one after: there
\* are never more tasks than deferred RPCs.
WillWakeUp ==
    \A i \in Queues :
        /\ /\ queue[i].batches = <<>> /\ queue[i].ok
           /\ queue[i].deferred # <<>>
           => queue[i].tasks > 0 \/ queue[i].adding # {}
        /\ ~queue[i].cancelled => queue[i].tasks <= Len(queue[i].deferred)

\* The reader gets each sender's batches in the order they were sent, none
\* twice; and GetBatch() reports the end of a queue only when it has all of
\* them: an EOS never overtakes a batch that was deferred, early or is being
\* deserialized.
Delivered ==
    /\ TypeOK
    /\ \A s \in Senders :
          /\ got[s] = [k \in 1..Len(got[s]) |-> k]
          /\ QueueOf(s) \in over => Len(got[s]) = snd[s].n

\* The batches in the queues and the ones being inserted.
Queued == UNION {{i} \X (1..Len(queue[i].batches)) : i \in Queues}
Adding == UNION {{i} \X queue[i].adding : i \in Queues}

\* ExceedsLimit(), CanEnqueue(): num_buffered_bytes_ counts the batches of a
\* receiver, the ones being deserialized included, until Close(); and they
\* stay within the buffer limit, but for the one batch that every queue may
\* have.
WithinLimit ==
    /\ cons # "closed" => buffered = Cardinality(Queued) + Cardinality(Adding)
    /\ buffered <= (IF Limit = 0 THEN 1 ELSE Limit) + Cardinality(Queues) - 1

\* KrpcDataStreamRecvr::Close() leaves nothing behind that still uses the
\* receiver's memory, its MemTracker or its manager: no RPC is waiting or
\* being deserialized, no batch is queued, the tracker's count is zero.
NothingAfterClose ==
    cons = "closed" =>
        /\ charged = {} /\ InQueue = {}
        /\ \A i \in Queues : queue[i].batches = <<>>

\* A sender waits in Teardown() for a call that was never made, and nobody
\* knows of its error.
Hangs == ~failed /\ \E s \in Senders : snd[s].at = "lost"

\* The reader and the senders end: neither waits forever for a batch, an
\* EOS or room, whichever batches the merger asks for first and whatever
\* fails, times out or is cancelled.  Every RPC is answered, early, deferred,
\* or sent to a receiver that closed or was never made.  The one exception
\* is a sender that hangs in Teardown(), for as long as nothing else fails.
StreamEnds ==
    /\ \A s \in Senders : rpc[s] # "none" ~> rpc[s] = "none" \/ Hangs
    /\ []<>(cons \in {"closed", "never"} \/ Hangs)
    /\ \A s \in Senders : []<>(snd[s].at \in {"done", "failed", "cancelled", "lost"} \/ Hangs)

\* What FlushFinal() relies on when it returns an error: "the error is
\* propagated back to the coordinator, which in turn cancels the query, which
\* will cause the remaining open channels to be closed."
ChannelsClose == \A s \in Senders : <>(snd[s].at \in {"done", "failed", "cancelled"})
=============================================================================

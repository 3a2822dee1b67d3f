-------------------------- MODULE DataStreamProofs --------------------------
(***************************************************************************)
(* Proofs about one exchange, for any number of senders, batches, threads  *)
(* and faults and any buffer limit: HeldOnce, WillWakeUp, Delivered,       *)
(* WithinLimit and NothingAfterClose of DataStream.                        *)
(***************************************************************************)
EXTENDS DataStream, FiniteSetTheorems, TLAPS

-----------------------------------------------------------------------------
(* The inductive invariant.                                                *)

\* The states of the reader and of the registration go together, and a
\* cancelled queue has no deferred RPC.
StageInv ==
    /\ cons \in {"prepare", "never"} => reg = "none"
    /\ cons \in {"taking", "reading", "done"} => reg = "registered"
    /\ cons \in {"closing", "closed"} => reg \in {"closed", "expired"}
    /\ cons # "taking" => taken = NoSenders
    /\ want # -1 => cons = "reading"
    /\ reg = "registered" => early = NoSenders
    /\ \A i \in Queues :
          /\ queue[i].cancelled => queue[i].deferred = <<>>
          /\ cons \in {"closing", "closed"} => queue[i].cancelled
          /\ cons = "closed" => queue[i].batches = <<>> /\ queue[i].adding = {}
    /\ \A s \in Senders : snd[s].closed => queue[QueueOf(s)].cancelled

ChargedInv == charged \subseteq InQueue

\* A batch of s is on its way to the queue; an EOS of s is.
InFlight(s) ==
    \/ rpc[s] = "data"
    \/ rpc[s] = "held" /\ s \notin ToSet(early.eos) \cup ToSet(taken.eos)
Ending(s) ==
    \/ rpc[s] = "eos"
    \/ rpc[s] = "held" /\ s \in ToSet(early.eos) \cup ToSet(taken.eos)

\* A sender sends its EOS last.
EndingInv == \A s \in Senders : Ending(s) => snd[s].at # "sending"

\* The k-th batch of s has been read or can be.
Here(s, k) ==
    \/ k <= Len(got[s])
    \/ \E j \in 1..Len(queue[QueueOf(s)].batches) : queue[QueueOf(s)].batches[j] = <<s, k>>

\* The batches of a queue: of its own senders, none read or still on its
\* way, each sender's in the order it sent them.
OrderInv ==
    /\ \A i \in Queues : \A j \in 1..Len(queue[i].batches) :
          LET s == queue[i].batches[j][1]
              k == queue[i].batches[j][2]
          IN  /\ QueueOf(s) = i
              /\ Len(got[s]) < k /\ k <= snd[s].n
              /\ InFlight(s) => k < snd[s].n
              /\ \A l \in (j + 1)..Len(queue[i].batches) :
                    queue[i].batches[l][1] = s => k < queue[i].batches[l][2]
    /\ \A s \in Senders :
          /\ \A k \in 1..Len(got[s]) : got[s][k] = k
          /\ Len(got[s]) <= snd[s].n
          /\ InFlight(s) => Len(got[s]) < snd[s].n

\* Until the queue is cancelled it misses at most the last batch of a sender,
\* and not even that one when the sender may go on.
CompleteInv ==
    \A s \in Senders : ~queue[QueueOf(s)].cancelled =>
        /\ \A k \in 1..snd[s].n : k < snd[s].n => Here(s, k)
        /\ Ending(s) \/ (snd[s].at \in {"sending", "eos"} /\ rpc[s] = "none") =>
              snd[s].n = 0 \/ Here(s, snd[s].n)

\* The senders that DecrementSenders() has not been called for.
Expected(i) ==
    {s \in Senders :
        /\ QueueOf(s) = i
        /\ \/ snd[s].at \in {"sending", "eos"}
           \/ rpc[s] # "none"
           \/ snd[s].n # 0 /\ ~Here(s, snd[s].n)}

RemainingInv ==
    \A i \in Queues : ~queue[i].cancelled => Cardinality(Expected(i)) <= queue[i].remaining

OverInv ==
    \A s \in Senders : QueueOf(s) \in over =>
        /\ rpc[s] = "none" /\ snd[s].at \notin {"sending", "eos"}
        /\ Len(got[s]) = snd[s].n

\* Every batch beyond the limit is in, or on its way to, a queue of its own.
Filled == {i \in Queues : queue[i].batches # <<>> \/ queue[i].adding # {}}
LimitInv ==
    cons # "closed" =>
        /\ IsFiniteSet(Queued)
        /\ buffered <= (IF Limit = 0 THEN 1 ELSE Limit) - 1 + Cardinality(Filled)

IInv ==
    /\ TypeOK /\ HeldOnce /\ StageInv /\ WillWakeUp /\ ChargedInv
    /\ EndingInv /\ OrderInv /\ CompleteInv /\ RemainingInv /\ OverInv
    /\ LimitInv /\ WithinLimit

-----------------------------------------------------------------------------
(* Facts about the constants and about sequences.                          *)

LEMMA SenderFacts ==
    /\ NumSenders \in Nat /\ NumSenders > 0
    /\ Threads \in Nat /\ Threads > 0
    /\ MaxBatches \in Nat /\ Limit \in Nat /\ MaxFaults \in Nat
BY ConstantsAssumption DEF ConstantsAssumption

LEMMA SendersFinite ==
    /\ IsFiniteSet(Senders) /\ Cardinality(Senders) = NumSenders
    /\ 0 \in Senders
<1>1. NumSenders - 1 \in Int /\ 0 \in Int
  BY SenderFacts
<1>2. IsFiniteSet(0..(NumSenders - 1)) /\ Cardinality(0..(NumSenders - 1)) = NumSenders
  BY <1>1, FS_Interval, SenderFacts
<1> QED
  BY <1>2, SenderFacts DEF Senders

LEMMA QueueFacts ==
    /\ Queues \subseteq Senders /\ IsFiniteSet(Queues) /\ Queues # {}
    /\ \A s \in Senders : QueueOf(s) \in Queues
<1>1. Queues \subseteq Senders
  BY SendersFinite DEF Queues
<1>2. IsFiniteSet(Queues)
  BY <1>1, SendersFinite, FS_Subset
<1> QED
  BY <1>1, <1>2, SendersFinite DEF Queues, QueueOf

LEMMA EmptySet ==
    /\ ToSet(<<>>) = {} /\ IsInjective(<<>>)
BY DEF ToSet, IsInjective

LEMMA AppendSet ==
    ASSUME NEW S, NEW q \in Seq(S), NEW s \in S
    PROVE  /\ Append(q, s) \in Seq(S) /\ Len(Append(q, s)) = Len(q) + 1
           /\ ToSet(Append(q, s)) = ToSet(q) \cup {s}
           /\ IsInjective(q) /\ s \notin ToSet(q) => IsInjective(Append(q, s))
<1>1. /\ Append(q, s) \in Seq(S) /\ Len(Append(q, s)) = Len(q) + 1
      /\ DOMAIN Append(q, s) = 1..(Len(q) + 1) /\ DOMAIN q = 1..Len(q) /\ Len(q) \in Nat
      /\ \A k \in 1..Len(q) : Append(q, s)[k] = q[k]
      /\ Append(q, s)[Len(q) + 1] = s
  OBVIOUS
<1>2. ToSet(Append(q, s)) = ToSet(q) \cup {s}
  BY <1>1 DEF ToSet
<1>3. ASSUME IsInjective(q), s \notin ToSet(q)
      PROVE  IsInjective(Append(q, s))
  BY <1>1, <1>3 DEF ToSet, IsInjective
<1> QED
  BY <1>1, <1>2, <1>3

LEMMA TailSet ==
    ASSUME NEW S, NEW q \in Seq(S), q # <<>>
    PROVE  /\ Tail(q) \in Seq(S) /\ Len(Tail(q)) = Len(q) - 1 /\ Len(q) > 0
           /\ Head(q) \in S /\ Head(q) \in ToSet(q)
           /\ ToSet(Tail(q)) \subseteq ToSet(q) /\ ToSet(q) \subseteq ToSet(Tail(q)) \cup {Head(q)}
           /\ IsInjective(q) => IsInjective(Tail(q)) /\ ToSet(Tail(q)) = ToSet(q) \ {Head(q)}
<1>1. /\ Tail(q) \in Seq(S) /\ Len(Tail(q)) = Len(q) - 1 /\ Len(q) > 0
      /\ DOMAIN Tail(q) = 1..(Len(q) - 1) /\ DOMAIN q = 1..Len(q) /\ Len(q) \in Nat
      /\ \A k \in 1..(Len(q) - 1) : Tail(q)[k] = q[k + 1]
      /\ Head(q) = q[1] /\ q[1] \in S
  OBVIOUS
<1>2. Head(q) \in ToSet(q)
  BY <1>1 DEF ToSet
<1>3. ToSet(Tail(q)) \subseteq ToSet(q)
  BY <1>1 DEF ToSet
<1>4. ToSet(q) \subseteq ToSet(Tail(q)) \cup {Head(q)}
  <2> SUFFICES ASSUME NEW k \in 1..Len(q), k # 1
               PROVE  q[k] \in ToSet(Tail(q))
    BY <1>1 DEF ToSet
  <2>1. k - 1 \in 1..(Len(q) - 1) /\ Tail(q)[k - 1] = q[k]
    BY <1>1
  <2> QED
    BY <2>1, <1>1 DEF ToSet
<1>5. ASSUME IsInjective(q)
      PROVE  IsInjective(Tail(q)) /\ ToSet(Tail(q)) = ToSet(q) \ {Head(q)}
  <2>1. IsInjective(Tail(q))
    BY <1>1, <1>5 DEF IsInjective
  <2>2. Head(q) \notin ToSet(Tail(q))
    BY <1>1, <1>5 DEF IsInjective, ToSet
  <2> QED
    BY <2>1, <2>2, <1>3, <1>4
<1> QED
  BY <1>1, <1>2, <1>3, <1>4, <1>5

\* The senders of a list without repetitions.
LEMMA InjectiveLength ==
    ASSUME NEW q \in Seq(Senders), IsInjective(q)
    PROVE  Len(q) <= NumSenders
<1>1. /\ Len(q) \in Nat /\ q \in [1..Len(q) -> Senders] /\ DOMAIN q = 1..Len(q)
  OBVIOUS
<1>2. q \in Injection(1..Len(q), Senders)
  BY <1>1 DEF Injection, IsInjective
<1>3. IsFiniteSet(1..Len(q)) /\ Cardinality(1..Len(q)) = Len(q)
  BY <1>1, FS_Interval
<1>4. Cardinality(1..Len(q)) <= Cardinality(Senders)
  BY <1>2, SendersFinite, FS_Injection
<1> QED
  BY <1>3, <1>4, SendersFinite

-----------------------------------------------------------------------------
(* What a step may do to one queue.                                        *)

Waits(q) == q.batches # <<>> \/ q.adding # {}

QueueMove(q, r) ==
    \/ r = q
    \/ r = [q EXCEPT !.ok = FALSE]
    \/ /\ ~q.cancelled
       /\ q.deferred # <<>> \/ Waits(q)
       /\ \E s \in Senders : r = [q EXCEPT !.deferred = Append(@, s)]
    \/ ~q.cancelled /\ \E s \in Senders : r = [q EXCEPT !.adding = @ \cup {s}]
    \/ \E s \in Senders, b \in Senders \X (1..MaxBatches) :
          r = [q EXCEPT !.adding = @ \ {s}, !.batches = Append(@, b)]
    \/ \E s \in Senders : r = [q EXCEPT !.adding = @ \ {s}, !.ok = FALSE]
    \/ /\ q.tasks > 0
       /\ q.deferred = <<>> \/ Waits(q)
       /\ r = [q EXCEPT !.tasks = @ - 1]
    \/ /\ q.tasks > 0 /\ q.deferred # <<>>
       /\ r = [q EXCEPT !.tasks = @ - 1, !.deferred = Tail(@), !.adding = @ \cup {Head(q.deferred)}]
    \/ /\ q.tasks > 0 /\ q.deferred # <<>>
       /\ r = [q EXCEPT !.tasks = @ - 1, !.deferred = Tail(@), !.ok = FALSE]
    \/ r = [q EXCEPT !.cancelled = TRUE, !.deferred = <<>>]
    \/ r = [q EXCEPT !.remaining = IF @ > 0 THEN @ - 1 ELSE 0]
    \/ /\ ~q.cancelled
       /\ \E s \in Senders : r = [q EXCEPT !.deferred = Append(@, s), !.tasks = @ + 1]
    \/ /\ ~q.cancelled /\ q.batches # <<>>
       /\ \E n \in Int :
             /\ n = Len(q.deferred) - q.tasks
             /\ r = [q EXCEPT !.batches = Tail(@), !.tasks = @ + IF n < Threads THEN n ELSE Threads]
    \/ q.cancelled /\ r = [q EXCEPT !.batches = <<>>]

LEMMA MergingFixed ==
    ASSUME [Next]_vars
    PROVE  merging' = merging /\ Queues' = Queues
<1>1. merging' = merging
  BY DEF Next, vars, TransmitData, FlushFinal, HandleFailedRPC, TransmitDataFails, CancelSender, AddData, CloseSender,
         FinishAdding, ProcessDeferredRpc, StartGetBatch, CreateRecvr, TakeOverEarlySender,
         TakeOverEos, Prepared, PrepareFails, TimeOutEarlySenders, ForgetClosedStream, Cancel,
         GetBatch, ReachedLimit, StopReading, DeregisterRecvr, CloseQueues
<1> QED
  BY <1>1 DEF Queues

\* A batch that is being inserted has not been read.
LEMMA AddingFacts ==
    ASSUME TypeOK, HeldOnce, OrderInv, NEW i \in Queues, NEW s \in queue[i].adding
    PROVE  /\ s \in Senders /\ QueueOf(s) = i /\ s \in InQueue
           /\ rpc[s] = "held" /\ InFlight(s) /\ ~Ending(s)
           /\ snd[s].n \in 1..MaxBatches
<1>1. s \in Senders
  BY DEF TypeOK, SenderQueue
<1>2. s \in InQueue
  BY DEF InQueue
<1>3. rpc[s] = "held" /\ QueueOf(s) = i /\ s \notin InEarly
  BY <1>2 DEF HeldOnce
<1>4. InFlight(s) /\ ~Ending(s)
  BY <1>3 DEF InEarly, InFlight, Ending
<1>5. Len(got[s]) < snd[s].n /\ Len(got[s]) \in Nat /\ snd[s].n \in 0..MaxBatches
  BY <1>1, <1>4 DEF OrderInv, TypeOK, Channel
<1> QED
  BY <1>1, <1>2, <1>3, <1>4, <1>5, SenderFacts

LEMMA QueueStep ==
    ASSUME TypeOK, HeldOnce, StageInv, OrderInv, [Next]_vars, NEW i \in Queues
    PROVE  QueueMove(queue[i], queue'[i])
<1> DEFINE q == queue[i]
<1> USE DEF QueueMove
<1>0. queue \in [Queues -> SenderQueue] /\ queue[i] \in SenderQueue
  BY DEF TypeOK
<1>1. CASE UNCHANGED queue
  BY <1>1
<1>2. ASSUME NEW s \in Senders, AddData(s) PROVE QueueMove(q, queue'[i])
  <2>1. CASE UNCHANGED queue
    BY <2>1
  <2>2. ASSUME AddBatch(QueueOf(s), s) PROVE QueueMove(q, queue'[i])
    <3> DEFINE j == QueueOf(s)
    <3>0. j \in Queues
      BY QueueFacts
    <3>1. CASE queue' = [queue EXCEPT ![j].ok = FALSE]
      BY <1>0, <3>0, <3>1
    <3>2. CASE UNCHANGED queue
      BY <3>2
    <3>3. CASE /\ ~queue[j].cancelled
               /\ queue[j].deferred # <<>> \/ ~CanEnqueue(j)
               /\ queue' = [queue EXCEPT ![j].deferred = Append(@, s)]
      BY <1>0, <3>0, <3>3 DEF Waits, CanEnqueue
    <3>4. CASE ~queue[j].cancelled /\ StartAdding(j, s)
      BY <1>0, <3>0, <3>4 DEF StartAdding
    <3> QED
      BY <2>2, <3>1, <3>2, <3>3, <3>4 DEF AddBatch
  <2> QED
    BY <1>2, <2>1, <2>2 DEF AddData
<1>3. ASSUME NEW s \in Senders, CloseSender(s) PROVE QueueMove(q, queue'[i])
  <2>1. CASE UNCHANGED queue
    BY <2>1
  <2>2. CASE RemoveSender(s)
    BY <1>0, <2>2, QueueFacts DEF RemoveSender
  <2> QED
    BY <1>3, <2>1, <2>2 DEF CloseSender
<1>4. ASSUME NEW s \in Senders, NEW j \in Queues, FinishAdding(j, s) PROVE QueueMove(q, queue'[i])
  <2>1. CASE queue' = [queue EXCEPT ![j].adding = @ \ {s}, ![j].batches = Append(@, <<s, snd[s].n>>)]
    <3>0. <<s, snd[s].n>> \in Senders \X (1..MaxBatches)
      BY <1>4, AddingFacts DEF FinishAdding
    <3> QED
      BY <1>0, <2>1, <3>0
  <2>2. CASE queue' = [queue EXCEPT ![j].adding = @ \ {s}, ![j].ok = FALSE]
    BY <1>0, <2>2
  <2> QED
    BY <1>4, <2>1, <2>2 DEF FinishAdding
<1>5. ASSUME NEW j \in Queues, ProcessDeferredRpc(j) PROVE QueueMove(q, queue'[i])
  <2> DEFINE s == Head(queue[j].deferred)
  <2>0. queue[j].tasks > 0
    BY <1>5 DEF ProcessDeferredRpc
  <2>1. CASE /\ queue[j].deferred = <<>> \/ ~CanEnqueue(j)
             /\ queue' = [queue EXCEPT ![j].tasks = @ - 1]
    BY <1>0, <2>0, <2>1 DEF Waits, CanEnqueue
  <2>2. CASE /\ queue[j].deferred # <<>>
             /\ queue' = [[queue EXCEPT ![j].tasks = @ - 1] EXCEPT ![j].deferred = Tail(@), ![j].adding = @ \cup {s}]
    <3>1. queue'[j] = [queue[j] EXCEPT !.tasks = @ - 1, !.deferred = Tail(@), !.adding = @ \cup {s}]
      BY <1>0, <2>2 DEF SenderQueue
    <3>2. j # i => queue'[i] = queue[i]
      BY <1>0, <2>2
    <3> QED
      BY <2>0, <2>2, <3>1, <3>2
  <2>3. CASE /\ queue[j].deferred # <<>>
             /\ queue' = [[queue EXCEPT ![j].tasks = @ - 1] EXCEPT ![j].deferred = Tail(@), ![j].ok = FALSE]
    <3>1. queue'[j] = [queue[j] EXCEPT !.tasks = @ - 1, !.deferred = Tail(@), !.ok = FALSE]
      BY <1>0, <2>3 DEF SenderQueue
    <3>2. j # i => queue'[i] = queue[i]
      BY <1>0, <2>3
    <3> QED
      BY <2>0, <2>3, <3>1, <3>2
  <2> QED
    BY <1>5, <2>1, <2>2, <2>3 DEF ProcessDeferredRpc
<1>6. CASE CancelStream
  BY <1>6 DEF CancelStream
<1>7. CASE TakeOverEarlySender
  <2> DEFINE s == Head(taken.data) j == QueueOf(s)
  <2>0. s \in Senders /\ j \in Queues
    <3>1. taken.data \in Seq(Senders) /\ taken.data # <<>>
      BY <1>7 DEF TypeOK, SenderLists, TakeOverEarlySender
    <3> QED
      BY <3>1, TailSet, QueueFacts
  <2>1. CASE UNCHANGED queue
    BY <2>1
  <2>2. CASE /\ ~queue[j].cancelled
             /\ queue' = [queue EXCEPT ![j].deferred = Append(@, s), ![j].tasks = @ + 1]
    <3>1. queue'[j] = [queue[j] EXCEPT !.deferred = Append(@, s), !.tasks = @ + 1]
      BY <1>0, <2>0, <2>2
    <3>2. j # i => queue'[i] = queue[i]
      BY <1>0, <2>0, <2>2
    <3> QED
      BY <2>0, <2>2, <3>1, <3>2
  <2> QED
    BY <1>7, <2>1, <2>2 DEF TakeOverEarlySender
<1>8. CASE TakeOverEos
  <2> DEFINE s == Head(taken.eos)
  <2>1. s \in Senders /\ QueueOf(s) \in Queues
    <3>1. taken.eos \in Seq(Senders) /\ taken.eos # <<>>
      BY <1>8 DEF TypeOK, SenderLists, TakeOverEos
    <3> QED
      BY <3>1, TailSet, QueueFacts
  <2>2. RemoveSender(s)
    BY <1>8 DEF TakeOverEos
  <2> QED
    BY <1>0, <2>1, <2>2 DEF RemoveSender
<1>9. CASE GetBatch
  <2> DEFINE j == want
  <2>0. j \in Queues
    BY <1>9 DEF TypeOK, GetBatch
  <2>1. CASE UNCHANGED queue
    BY <2>1
  <2>2. CASE /\ ~queue[j].cancelled /\ queue[j].batches # <<>>
             /\ queue' = [queue EXCEPT ![j].batches = Tail(@), ![j].tasks = @ + TasksFor(j)]
    <3> DEFINE n == Len(queue[j].deferred) - queue[j].tasks
    <3>0. n \in Int /\ TasksFor(j) = IF n < Threads THEN n ELSE Threads
      BY <1>0, <2>0 DEF TypeOK, SenderQueue, TasksFor
    <3>1. queue'[j] = [queue[j] EXCEPT !.batches = Tail(@), !.tasks = @ + TasksFor(j)]
      BY <1>0, <2>0, <2>2
    <3>2. j # i => queue'[i] = queue[i]
      BY <1>0, <2>0, <2>2
    <3> QED
      BY <2>0, <2>2, <3>0, <3>1, <3>2
  <2> QED
    BY <1>9, <2>1, <2>2 DEF GetBatch
<1>10. CASE CloseQueues
  <2>1. queue[i].cancelled
    BY <1>10 DEF CloseQueues, StageInv
  <2> QED
    BY <1>10, <2>1 DEF CloseQueues
<1> QED
  BY <1>1, <1>2, <1>3, <1>4, <1>5, <1>6, <1>7, <1>8, <1>9, <1>10
     DEF Next, vars, receiving, TransmitData, FlushFinal, HandleFailedRPC, TransmitDataFails, CancelSender, StartGetBatch,
         CreateRecvr, Prepared, PrepareFails, TimeOutEarlySenders, ForgetClosedStream, Cancel,
         ReachedLimit, StopReading, DeregisterRecvr

\* WillWakeUp of one queue.
Awake(q) ==
    /\ /\ q.batches = <<>> /\ q.ok
       /\ q.deferred # <<>>
       => q.tasks > 0 \/ q.adding # {}
    /\ ~q.cancelled => q.tasks <= Len(q.deferred)

LEMMA MoveKeeps ==
    ASSUME NEW q \in SenderQueue, NEW r, QueueMove(q, r),
           IsInjective(q.deferred), IsInjective(r.deferred),
           Awake(q), q.cancelled => q.deferred = <<>>
    PROVE  /\ r \in SenderQueue
           /\ Awake(r)
           /\ r.cancelled => r.deferred = <<>>
           /\ q.cancelled => r.cancelled
<1> DEFINE Good == /\ r \in SenderQueue
                   /\ Awake(r) /\ (r.cancelled => r.deferred = <<>>)
                   /\ (q.cancelled => r.cancelled)
<1>0. /\ q.batches \in Seq(Senders \X (1..MaxBatches)) /\ q.deferred \in Seq(Senders)
      /\ q.tasks \in 0..NumSenders /\ q.adding \in SUBSET Senders
      /\ q.remaining \in 0..NumSenders /\ q.ok \in BOOLEAN /\ q.cancelled \in BOOLEAN
      /\ DOMAIN q = {"batches", "deferred", "tasks", "adding", "remaining", "ok", "cancelled"}
  BY DEF SenderQueue
<1>1. CASE r = q
  BY <1>1
<1>2. CASE r = [q EXCEPT !.ok = FALSE]
  BY <1>0, <1>2 DEF SenderQueue, Awake
<1>3. ASSUME ~q.cancelled, q.deferred # <<>> \/ Waits(q),
             NEW s \in Senders, r = [q EXCEPT !.deferred = Append(@, s)]
      PROVE  Good
  <2>1. r \in SenderQueue
    BY <1>0, <1>3, AppendSet DEF SenderQueue
  <2>2. /\ r.batches = q.batches /\ r.deferred = Append(q.deferred, s) /\ r.tasks = q.tasks
        /\ r.adding = q.adding /\ r.ok = q.ok /\ r.cancelled = q.cancelled
    BY <1>0, <1>3 DEF SenderQueue
  <2>3. Len(r.deferred) = Len(q.deferred) + 1 /\ Len(q.deferred) \in Nat
    BY <1>0, <2>2, AppendSet
  <2> QED
    BY <1>0, <1>3, <2>1, <2>2, <2>3 DEF Awake, Waits
<1>4. ASSUME NEW s \in Senders, r = [q EXCEPT !.adding = @ \cup {s}]
      PROVE  Good
  <2>1. r \in SenderQueue
    BY <1>0, <1>4 DEF SenderQueue
  <2>2. /\ r.batches = q.batches /\ r.deferred = q.deferred /\ r.tasks = q.tasks
        /\ r.adding = q.adding \cup {s} /\ r.ok = q.ok /\ r.cancelled = q.cancelled
    BY <1>0, <1>4 DEF SenderQueue
  <2> QED
    BY <1>0, <2>1, <2>2 DEF Awake
<1>5. ASSUME NEW s \in Senders, NEW b \in Senders \X (1..MaxBatches),
             r = [q EXCEPT !.adding = @ \ {s}, !.batches = Append(@, b)]
      PROVE  Good
  <2>1. r \in SenderQueue
    BY <1>0, <1>5, AppendSet DEF SenderQueue
  <2>2. /\ r.batches = Append(q.batches, b) /\ r.deferred = q.deferred /\ r.tasks = q.tasks
        /\ r.ok = q.ok /\ r.cancelled = q.cancelled
    BY <1>0, <1>5 DEF SenderQueue
  <2>3. r.batches # <<>>
    <3>1. Len(r.batches) = Len(q.batches) + 1 /\ Len(q.batches) \in Nat
      BY <1>0, <2>2, AppendSet
    <3> QED
      BY <3>1
  <2> QED
    BY <1>0, <2>1, <2>2, <2>3 DEF Awake
<1>6. ASSUME NEW s \in Senders, r = [q EXCEPT !.adding = @ \ {s}, !.ok = FALSE]
      PROVE  Good
  BY <1>0, <1>6 DEF SenderQueue, Awake
<1>7. ASSUME q.tasks > 0, q.deferred = <<>> \/ Waits(q), r = [q EXCEPT !.tasks = @ - 1]
      PROVE  Good
  <2>1. r \in SenderQueue
    <3>1. q.tasks - 1 \in 0..NumSenders
      BY <1>0, <1>7, SenderFacts
    <3> QED
      BY <1>0, <1>7, <3>1 DEF SenderQueue
  <2>2. /\ r.batches = q.batches /\ r.deferred = q.deferred /\ r.tasks = q.tasks - 1
        /\ r.adding = q.adding /\ r.ok = q.ok /\ r.cancelled = q.cancelled
    BY <1>0, <1>7 DEF SenderQueue
  <2> QED
    BY <1>0, <1>7, <2>1, <2>2 DEF Awake, Waits
<1>8. ASSUME q.tasks > 0, q.deferred # <<>>,
             r = [q EXCEPT !.tasks = @ - 1, !.deferred = Tail(@), !.adding = @ \cup {Head(q.deferred)}]
      PROVE  Good
  <2>0. /\ Head(q.deferred) \in Senders /\ Tail(q.deferred) \in Seq(Senders)
        /\ Len(Tail(q.deferred)) = Len(q.deferred) - 1
    BY <1>0, <1>8, TailSet
  <2>1. r \in SenderQueue
    <3>1. q.tasks - 1 \in 0..NumSenders
      BY <1>0, <1>8, SenderFacts
    <3> QED
      BY <1>0, <1>8, <2>0, <3>1 DEF SenderQueue
  <2>2. /\ r.batches = q.batches /\ r.deferred = Tail(q.deferred) /\ r.tasks = q.tasks - 1
        /\ r.adding = q.adding \cup {Head(q.deferred)} /\ r.ok = q.ok /\ r.cancelled = q.cancelled
    BY <1>0, <1>8 DEF SenderQueue
  <2> QED
    <3>1. r.tasks <= Len(r.deferred) \/ r.cancelled
      BY <1>0, <1>8, <2>0, <2>2 DEF Awake
    <3>2. r.adding # {}
      BY <2>2
    <3>3. r.cancelled => r.deferred = <<>>
      BY <1>8, <2>2
    <3> QED
      BY <2>1, <2>2, <3>1, <3>2, <3>3 DEF Awake
<1>9. ASSUME q.tasks > 0, q.deferred # <<>>,
             r = [q EXCEPT !.tasks = @ - 1, !.deferred = Tail(@), !.ok = FALSE]
      PROVE  Good
  <2>0. /\ Tail(q.deferred) \in Seq(Senders)
        /\ Len(Tail(q.deferred)) = Len(q.deferred) - 1
    BY <1>0, <1>9, TailSet
  <2>1. r \in SenderQueue
    <3>1. q.tasks - 1 \in 0..NumSenders
      BY <1>0, <1>9, SenderFacts
    <3> QED
      BY <1>0, <1>9, <2>0, <3>1 DEF SenderQueue
  <2>2. /\ r.deferred = Tail(q.deferred) /\ r.tasks = q.tasks - 1
        /\ r.ok = FALSE /\ r.cancelled = q.cancelled
    BY <1>0, <1>9 DEF SenderQueue
  <2> QED
    BY <1>0, <1>9, <2>0, <2>1, <2>2 DEF Awake
<1>10. CASE r = [q EXCEPT !.cancelled = TRUE, !.deferred = <<>>]
  <2>1. r \in SenderQueue
    <3>1. <<>> \in Seq(Senders) /\ <<>> \in Seq(Senders \X (1..MaxBatches))
      BY <1>0, SenderFacts
    <3> QED
      BY <1>0, <1>10, <3>1 DEF SenderQueue
  <2>2. /\ r.tasks = q.tasks /\ r.adding = q.adding /\ r.ok = q.ok
        /\ r.deferred = <<>> /\ r.batches = q.batches /\ r.cancelled
    BY <1>0, <1>10 DEF SenderQueue
  <2> QED
    BY <1>0, <1>10, <2>1, <2>2 DEF Awake
<1>11. CASE r = [q EXCEPT !.remaining = IF @ > 0 THEN @ - 1 ELSE 0]
  <2>1. r \in SenderQueue
    <3>1. (IF q.remaining > 0 THEN q.remaining - 1 ELSE 0) \in 0..NumSenders
      BY <1>0, SenderFacts
    <3> QED
      BY <1>0, <1>11, <3>1 DEF SenderQueue
  <2>2. /\ r.tasks = q.tasks /\ r.adding = q.adding /\ r.ok = q.ok
        /\ r.deferred = q.deferred /\ r.batches = q.batches /\ r.cancelled = q.cancelled
    BY <1>0, <1>11 DEF SenderQueue
  <2> QED
    BY <1>0, <1>11, <2>1, <2>2 DEF Awake
<1>12. ASSUME ~q.cancelled, NEW s \in Senders,
              r = [q EXCEPT !.deferred = Append(@, s), !.tasks = @ + 1]
       PROVE  Good
  <2>0. /\ Append(q.deferred, s) \in Seq(Senders)
        /\ Len(Append(q.deferred, s)) = Len(q.deferred) + 1 /\ Len(q.deferred) \in Nat
    BY <1>0, AppendSet
  <2>1. /\ r.batches = q.batches /\ r.deferred = Append(q.deferred, s) /\ r.tasks = q.tasks + 1
        /\ r.adding = q.adding /\ r.ok = q.ok /\ r.cancelled = q.cancelled
    BY <1>0, <1>12 DEF SenderQueue
  <2>2. Len(r.deferred) <= NumSenders
    BY <2>0, <2>1, InjectiveLength
  <2>3. q.tasks <= Len(q.deferred)
    BY <1>12 DEF Awake
  <2>4. r.tasks \in 0..NumSenders
    BY <1>0, <2>0, <2>1, <2>2, <2>3, SenderFacts
  <2>5. r \in SenderQueue
    BY <1>0, <1>12, <2>0, <2>1, <2>4 DEF SenderQueue
  <2> QED
    BY <1>0, <1>12, <2>0, <2>1, <2>3, <2>5 DEF Awake
<1>13. ASSUME ~q.cancelled, q.batches # <<>>, NEW n \in Int, n = Len(q.deferred) - q.tasks,
              r = [q EXCEPT !.batches = Tail(@), !.tasks = @ + IF n < Threads THEN n ELSE Threads]
       PROVE  Good
  <2>0. /\ Tail(q.batches) \in Seq(Senders \X (1..MaxBatches))
        /\ Len(q.deferred) <= NumSenders /\ Len(q.deferred) \in Nat
        /\ q.tasks <= Len(q.deferred)
        /\ q.deferred = <<>> \/ Len(q.deferred) > 0
    BY <1>0, <1>13, TailSet, InjectiveLength DEF Awake
  <2>1. /\ r.batches = Tail(q.batches) /\ r.deferred = q.deferred
        /\ r.tasks = q.tasks + IF n < Threads THEN n ELSE Threads
        /\ r.adding = q.adding /\ r.ok = q.ok /\ r.cancelled = q.cancelled
    BY <1>0, <1>13 DEF SenderQueue
  <2>2. /\ r.tasks \in 0..NumSenders /\ r.tasks <= Len(q.deferred)
        /\ Len(q.deferred) > 0 => r.tasks > 0
    <3>1. q.tasks \in Nat /\ n \in Nat /\ q.tasks + n = Len(q.deferred)
      BY <1>0, <1>13, <2>0, SenderFacts
    <3> QED
      <4>1. CASE n < Threads
        BY <2>0, <2>1, <3>1, <4>1, SenderFacts
      <4>2. CASE ~(n < Threads)
        BY <2>0, <2>1, <3>1, <4>2, SenderFacts
      <4> QED
        BY <4>1, <4>2
  <2>3. r \in SenderQueue
    BY <1>0, <1>13, <2>0, <2>1, <2>2 DEF SenderQueue
  <2> QED
    BY <1>0, <1>13, <2>0, <2>1, <2>2, <2>3 DEF Awake
<1>14. ASSUME q.cancelled, r = [q EXCEPT !.batches = <<>>]
       PROVE  Good
  <2>1. r \in SenderQueue
    <3>1. <<>> \in Seq(Senders) /\ <<>> \in Seq(Senders \X (1..MaxBatches))
      BY <1>0, SenderFacts
    <3> QED
      BY <1>0, <1>14, <3>1 DEF SenderQueue
  <2>2. /\ r.tasks = q.tasks /\ r.adding = q.adding /\ r.ok = q.ok
        /\ r.deferred = q.deferred /\ r.batches = <<>> /\ r.cancelled
    BY <1>0, <1>14 DEF SenderQueue
  <2> QED
    BY <1>0, <1>14, <2>1, <2>2 DEF Awake
<1> HIDE DEF Good
<1>15. Good
  BY <1>1, <1>2, <1>3, <1>4, <1>5, <1>6, <1>7, <1>8, <1>9, <1>10, <1>11, <1>12, <1>13, <1>14, Zenon
     DEF QueueMove, Good
<1> QED
  BY <1>15 DEF Good

-----------------------------------------------------------------------------
(* The RPCs the receiver's side holds.                                     *)

Members(q) == ToSet(q.deferred) \cup q.adding

QueueSound(q, i) ==
    /\ IsInjective(q.deferred)
    /\ ToSet(q.deferred) \cap q.adding = {}
    /\ \A s \in Members(q) : QueueOf(s) = i

ListsSound(e) ==
    IsInjective(e.data) /\ IsInjective(e.eos) /\ ToSet(e.data) \cap ToSet(e.eos) = {}

LEMMA HeldParts ==
    ASSUME TypeOK, HeldOnce
    PROVE  /\ \A i \in Queues : QueueSound(queue[i], i)
           /\ early = NoSenders \/ taken = NoSenders
           /\ ListsSound(early) /\ ListsSound(taken)
           /\ \A s \in Senders : rpc[s] = "held" <=> s \in InQueue \cup InEarly
           /\ InQueue \cap InEarly = {}
           /\ InQueue \subseteq Senders /\ InEarly \subseteq Senders
           /\ \A i \in Queues : Members(queue[i]) \subseteq InQueue
           /\ \A s \in InQueue : s \in Members(queue[QueueOf(s)])
<1>1. /\ early = NoSenders \/ taken = NoSenders
      /\ InQueue \cap InEarly = {}
  BY DEF HeldOnce
<1>2. \A i \in Queues : QueueSound(queue[i], i)
  BY DEF HeldOnce, QueueSound, Members
<1>3. ListsSound(early) /\ ListsSound(taken)
  BY DEF HeldOnce, ListsSound
<1>4. InQueue \cup InEarly \subseteq Senders /\ \A s \in Senders : rpc[s] = "held" <=> s \in InQueue \cup InEarly
  BY DEF HeldOnce
<1>5. \A i \in Queues : Members(queue[i]) \subseteq InQueue
  BY DEF InQueue, Members
<1>6. \A s \in InQueue : s \in Members(queue[QueueOf(s)])
  <2> SUFFICES ASSUME NEW s \in InQueue PROVE s \in Members(queue[QueueOf(s)])
    OBVIOUS
  <2>1. PICK i \in Queues : s \in Members(queue[i])
    BY DEF InQueue, Members
  <2> QED
    BY <1>2, <2>1 DEF QueueSound
<1> QED
  BY <1>1, <1>2, <1>3, <1>4, <1>5, <1>6

LEMMA HeldFromParts ==
    ASSUME merging' = merging, Queues' = Queues,
           \A i \in Queues : QueueSound(queue'[i], i),
           early' = NoSenders \/ taken' = NoSenders,
           ListsSound(early'), ListsSound(taken'),
           \A s \in Senders : rpc'[s] = "held" <=> s \in InQueue' \cup InEarly',
           InQueue' \cap InEarly' = {},
           InQueue' \subseteq Senders, InEarly' \subseteq Senders
    PROVE  HeldOnce'
<1>1. {s \in Senders : rpc'[s] = "held"} = InQueue' \cup InEarly'
  OBVIOUS
<1>2. \A i \in Queues' :
          /\ IsInjective(queue'[i].deferred)
          /\ ToSet(queue'[i].deferred) \cap queue'[i].adding = {}
          /\ \A s \in ToSet(queue'[i].deferred) \cup queue'[i].adding : QueueOf(s)' = i
  BY DEF QueueSound, Members, QueueOf
<1>3. \A e \in {early', taken'} :
          IsInjective(e.data) /\ IsInjective(e.eos) /\ ToSet(e.data) \cap ToSet(e.eos) = {}
  BY DEF ListsSound
<1> QED
  BY <1>1, <1>2, <1>3 DEF HeldOnce, NoSenders

LEMMA InQueueSame ==
    ASSUME Queues' = Queues, \A i \in Queues : Members(queue'[i]) = Members(queue[i])
    PROVE  InQueue' = InQueue
BY DEF InQueue, Members

LEMMA InQueueAdd ==
    ASSUME Queues' = Queues, NEW i \in Queues, NEW s,
           Members(queue'[i]) = Members(queue[i]) \cup {s},
           \A j \in Queues \ {i} : Members(queue'[j]) = Members(queue[j])
    PROVE  InQueue' = InQueue \cup {s}
<1>1. ASSUME NEW t \in InQueue' PROVE t \in InQueue \cup {s}
  <2>1. PICK j \in Queues : t \in Members(queue'[j])
    BY <1>1 DEF InQueue, Members
  <2>2. t \in Members(queue[j]) \/ t = s
    BY <2>1
  <2> QED
    BY <2>2 DEF InQueue, Members
<1>2. ASSUME NEW t \in InQueue PROVE t \in InQueue'
  <2>1. PICK j \in Queues : t \in Members(queue[j])
    BY <1>2 DEF InQueue, Members
  <2>2. t \in Members(queue'[j])
    BY <2>1
  <2> QED
    BY <2>2 DEF InQueue, Members
<1>3. s \in InQueue'
  <2>1. s \in Members(queue'[i])
    OBVIOUS
  <2> QED
    BY <2>1 DEF InQueue, Members
<1> QED
  BY <1>1, <1>2, <1>3

LEMMA InQueueRemove ==
    ASSUME TypeOK, HeldOnce, Queues' = Queues, NEW i \in Queues, NEW s \in Members(queue[i]),
           Members(queue'[i]) = Members(queue[i]) \ {s},
           \A j \in Queues \ {i} : Members(queue'[j]) = Members(queue[j])
    PROVE  InQueue' = InQueue \ {s}
<1>1. \A j \in Queues : s \in Members(queue[j]) => j = i
  BY HeldParts DEF QueueSound
<1>2. ASSUME NEW t \in InQueue' PROVE t \in InQueue /\ t # s
  <2>1. PICK j \in Queues : t \in Members(queue'[j])
    BY <1>2 DEF InQueue, Members
  <2>2. t \in Members(queue[j]) /\ t # s
    BY <1>1, <2>1
  <2> QED
    BY <2>2 DEF InQueue, Members
<1>3. ASSUME NEW t \in InQueue, t # s PROVE t \in InQueue'
  <2>1. PICK j \in Queues : t \in Members(queue[j])
    BY <1>3 DEF InQueue, Members
  <2>2. t \in Members(queue'[j])
    BY <1>3, <2>1
  <2> QED
    BY <2>2 DEF InQueue, Members
<1> QED
  BY <1>2, <1>3

\* Nothing moves from one place to another.
LEMMA HeldSame ==
    ASSUME TypeOK, HeldOnce, merging' = merging, Queues' = Queues,
           \A i \in Queues : queue'[i].deferred = queue[i].deferred /\ queue'[i].adding = queue[i].adding,
           early' = early, taken' = taken,
           \A s \in Senders : rpc'[s] = "held" <=> rpc[s] = "held"
    PROVE  HeldOnce' /\ InQueue' = InQueue
<1>1. \A i \in Queues : Members(queue'[i]) = Members(queue[i])
  BY DEF Members
<1>2. InQueue' = InQueue
  BY <1>1, InQueueSame
<1>3. InEarly' = InEarly
  BY DEF InEarly
<1>4. \A i \in Queues : QueueSound(queue'[i], i)
  BY <1>1, HeldParts DEF QueueSound
<1> QED
  BY <1>2, <1>3, <1>4, HeldParts, HeldFromParts

LEMMA NoSendersFacts ==
    /\ NoSenders \in SenderLists /\ ListsSound(NoSenders)
    /\ ToSet(NoSenders.data) = {} /\ ToSet(NoSenders.eos) = {}
<1>1. NoSenders.data = <<>> /\ NoSenders.eos = <<>>
  BY DEF NoSenders
<1> QED
  BY <1>1, EmptySet DEF NoSenders, SenderLists, ListsSound

\* The answers to the RPCs of the senders in S.
LEMMA Responses ==
    ASSUME TypeOK, NEW S, NEW answer \in {"ok", "error", "closed"}, Respond(S, answer),
           NEW t \in Senders
    PROVE  /\ t \notin S => snd'[t] = snd[t] /\ rpc'[t] = rpc[t]
           /\ t \in S => /\ rpc'[t] = "none"
                         /\ snd'[t] \in Channel /\ snd'[t].n = snd[t].n
                         /\ answer = "error" => /\ snd'[t].at \notin {"sending", "eos"}
                                                /\ snd'[t].closed = snd[t].closed
                         /\ answer = "closed" => snd'[t].at = snd[t].at
                         /\ answer = "ok" => /\ snd'[t].at \in {snd[t].at, "done"} \ {"eos"}
                                             /\ snd'[t].closed = snd[t].closed
<1>1. snd[t] \in Channel
  BY DEF TypeOK
<1>2. /\ rpc'[t] = IF t \in S THEN "none" ELSE rpc[t]
      /\ snd'[t] = IF t \in S THEN Answered(t, answer) ELSE snd[t]
  BY DEF Respond
<1>3. CASE snd[t].at \notin {"sending", "eos"}
  <2>1. Answered(t, answer) = snd[t]
    BY <1>3 DEF Answered
  <2> QED
    BY <1>1, <1>2, <1>3, <2>1
<1>4. ASSUME snd[t].at \in {"sending", "eos"}, answer = "error"
      PROVE  Answered(t, answer) = [snd[t] EXCEPT !.at = "failed"]
  BY <1>4 DEF Answered
<1>5. ASSUME snd[t].at \in {"sending", "eos"}, answer = "closed"
      PROVE  Answered(t, answer) = [snd[t] EXCEPT !.closed = TRUE]
  BY <1>5 DEF Answered
<1>6. ASSUME snd[t].at \in {"sending", "eos"}, answer = "ok"
      PROVE  Answered(t, answer) = IF snd[t].at = "eos" THEN [snd[t] EXCEPT !.at = "done"] ELSE snd[t]
  BY <1>6 DEF Answered
<1> QED
  BY <1>1, <1>2, <1>3, <1>4, <1>5, <1>6 DEF Channel

-----------------------------------------------------------------------------
(* HeldOnce and ChargedInv, action by action.                              *)

HeldInv == HeldOnce /\ ChargedInv

LEMMA HeldAddBatch ==
    ASSUME TypeOK, HeldInv, merging' = merging /\ Queues' = Queues,
           NEW s \in Senders, rpc[s] = "data", AddBatch(QueueOf(s), s), early' = early, taken' = taken
    PROVE  HeldInv'
<1> DEFINE i == QueueOf(s)
<1>0. i \in Queues /\ queue \in [Queues -> SenderQueue] /\ queue[i] \in SenderQueue /\ rpc \in [Senders -> {"none", "data", "eos", "held"}]
  BY QueueFacts DEF TypeOK
<1>1. s \notin InQueue \cup InEarly
  BY HeldParts DEF HeldInv
<1>2. ASSUME queue' = [queue EXCEPT ![i].ok = FALSE] \/ UNCHANGED queue,
             UNCHANGED charged, Respond({s}, "error") \/ Respond({s}, "closed")
      PROVE  HeldInv'
  <2>1. \A j \in Queues : queue'[j].deferred = queue[j].deferred /\ queue'[j].adding = queue[j].adding
    <3>1. CASE queue' = [queue EXCEPT ![i].ok = FALSE]
      BY <1>0, <3>1 DEF SenderQueue
    <3>2. CASE UNCHANGED queue
      BY <3>2
    <3> QED
      BY <1>2, <3>1, <3>2
  <2>2. \A t \in Senders : rpc'[t] = "held" <=> rpc[t] = "held"
    BY <1>2, Responses
  <2> QED
    BY <1>2, <2>1, <2>2, HeldSame DEF HeldInv, ChargedInv
<1>3. ASSUME queue' = [queue EXCEPT ![i].deferred = Append(@, s)], charged' = charged \cup {s},
             rpc' = [rpc EXCEPT ![s] = "held"]
      PROVE  HeldInv'
  <2>1. queue'[i].deferred = Append(queue[i].deferred, s) /\ queue'[i].adding = queue[i].adding
    BY <1>0, <1>3 DEF SenderQueue
  <2>2. \A j \in Queues \ {i} : queue'[j] = queue[j]
    BY <1>0, <1>3
  <2>3. /\ ToSet(queue'[i].deferred) = ToSet(queue[i].deferred) \cup {s}
        /\ IsInjective(queue'[i].deferred)
    <3>1. queue[i].deferred \in Seq(Senders)
      BY <1>0 DEF SenderQueue
    <3>2. s \notin ToSet(queue[i].deferred) /\ IsInjective(queue[i].deferred)
      BY <1>0, <1>1, HeldParts DEF Members, HeldInv, QueueSound
    <3> QED
      BY <2>1, <3>1, <3>2, AppendSet
  <2>4. Members(queue'[i]) = Members(queue[i]) \cup {s}
    BY <2>1, <2>3 DEF Members
  <2>5. InQueue' = InQueue \cup {s}
    BY <1>0, <2>2, <2>4, InQueueAdd
  <2>6. \A j \in Queues : QueueSound(queue'[j], j)
    <3>1. QueueSound(queue'[i], i)
      <4>1. QueueSound(queue[i], i) /\ s \notin Members(queue[i])
        BY <1>0, <1>1, HeldParts DEF HeldInv
      <4> QED
        BY <2>1, <2>3, <2>4, <4>1 DEF QueueSound, Members
    <3> QED
      BY <2>2, <3>1, HeldParts DEF HeldInv
  <2>7. InEarly' = InEarly
    BY DEF InEarly
  <2>8. HeldOnce'
    BY <1>0, <1>1, <1>3, <2>5, <2>6, <2>7, HeldParts, HeldFromParts DEF HeldInv
  <2> QED
    BY <1>3, <2>5, <2>8 DEF HeldInv, ChargedInv
<1>4. ASSUME StartAdding(i, s), UNCHANGED charged, rpc' = [rpc EXCEPT ![s] = "held"]
      PROVE  HeldInv'
  <2>1. queue'[i].deferred = queue[i].deferred /\ queue'[i].adding = queue[i].adding \cup {s}
    BY <1>0, <1>4 DEF SenderQueue, StartAdding
  <2>2. \A j \in Queues \ {i} : queue'[j] = queue[j]
    BY <1>0, <1>4 DEF StartAdding
  <2>4. Members(queue'[i]) = Members(queue[i]) \cup {s}
    BY <2>1 DEF Members
  <2>5. InQueue' = InQueue \cup {s}
    BY <1>0, <2>2, <2>4, InQueueAdd
  <2>6. \A j \in Queues : QueueSound(queue'[j], j)
    <3>1. QueueSound(queue'[i], i)
      <4>1. QueueSound(queue[i], i) /\ s \notin Members(queue[i])
        BY <1>0, <1>1, HeldParts DEF HeldInv
      <4> QED
        BY <2>1, <2>4, <4>1 DEF QueueSound, Members
    <3> QED
      BY <2>2, <3>1, HeldParts DEF HeldInv
  <2>7. InEarly' = InEarly
    BY DEF InEarly
  <2>8. HeldOnce'
    BY <1>0, <1>1, <1>4, <2>5, <2>6, <2>7, HeldParts, HeldFromParts DEF HeldInv
  <2> QED
    BY <1>4, <2>5, <2>8 DEF HeldInv, ChargedInv
<1> QED
  BY <1>2, <1>3, <1>4, Zenon DEF AddBatch

\* s leaves the queue and is answered.
LEMMA HeldLeave ==
    ASSUME TypeOK, HeldInv, merging' = merging, Queues' = Queues, early' = early, taken' = taken,
           NEW i \in Queues, NEW s \in Members(queue[i]),
           QueueSound(queue'[i], i), Members(queue'[i]) = Members(queue[i]) \ {s},
           \A j \in Queues \ {i} : queue'[j] = queue[j],
           NEW answer \in {"ok", "error", "closed"}, Respond({s}, answer),
           charged' = charged \ {s}
    PROVE  HeldInv'
<1>1. InQueue' = InQueue \ {s}
  BY InQueueRemove DEF HeldInv
<1>2. \A j \in Queues : QueueSound(queue'[j], j)
  BY HeldParts DEF HeldInv
<1>3. InEarly' = InEarly /\ s \notin InEarly /\ s \in Senders
  <2>1. s \in InQueue
    BY HeldParts DEF HeldInv
  <2> QED
    BY <2>1, HeldParts DEF InEarly, HeldInv
<1>4. \A t \in Senders : rpc'[t] = "held" <=> rpc[t] = "held" /\ t # s
  BY Responses
<1>5. HeldOnce'
  BY <1>1, <1>2, <1>3, <1>4, HeldParts, HeldFromParts DEF HeldInv
<1> QED
  BY <1>1, <1>5 DEF HeldInv, ChargedInv

LEMMA HeldFinishAdding ==
    ASSUME TypeOK, HeldInv, OrderInv, merging' = merging, Queues' = Queues,
           NEW i \in Queues, NEW s \in Senders, FinishAdding(i, s)
    PROVE  HeldInv'
<1>0. queue \in [Queues -> SenderQueue] /\ queue[i] \in SenderQueue
  BY DEF TypeOK
<1>1. s \in queue[i].adding /\ early' = early /\ taken' = taken /\ charged' = charged \ {s}
  BY DEF FinishAdding
<1>2. PICK answer \in {"ok", "error", "closed"} : Respond({s}, answer)
  BY DEF FinishAdding
<1>3. queue'[i].deferred = queue[i].deferred /\ queue'[i].adding = queue[i].adding \ {s}
  <2>1. CASE queue' = [queue EXCEPT ![i].adding = @ \ {s}, ![i].batches = Append(@, <<s, snd[s].n>>)]
    <3>1. queue'[i] = [queue[i] EXCEPT !.adding = @ \ {s}, !.batches = Append(@, <<s, snd[s].n>>)]
      BY <1>0, <2>1
    <3> QED
      BY <1>0, <3>1 DEF SenderQueue
  <2>2. CASE queue' = [queue EXCEPT ![i].adding = @ \ {s}, ![i].ok = FALSE]
    <3>1. queue'[i] = [queue[i] EXCEPT !.adding = @ \ {s}, !.ok = FALSE]
      BY <1>0, <2>2
    <3> QED
      BY <1>0, <3>1 DEF SenderQueue
  <2> QED
    BY <2>1, <2>2 DEF FinishAdding
<1>4. \A j \in Queues \ {i} : queue'[j] = queue[j]
  BY <1>0 DEF FinishAdding
<1>5. QueueSound(queue[i], i) /\ s \in Members(queue[i])
  BY <1>1, HeldParts DEF HeldInv, Members
<1>6. Members(queue'[i]) = Members(queue[i]) \ {s} /\ QueueSound(queue'[i], i)
  BY <1>1, <1>3, <1>5 DEF Members, QueueSound
<1> QED
  BY <1>1, <1>2, <1>4, <1>5, <1>6, HeldLeave

LEMMA HeldProcessDeferredRpc ==
    ASSUME TypeOK, HeldInv, merging' = merging, Queues' = Queues,
           NEW i \in Queues, ProcessDeferredRpc(i)
    PROVE  HeldInv'
<1> DEFINE s == Head(queue[i].deferred)
<1>0. /\ queue \in [Queues -> SenderQueue] /\ queue[i] \in SenderQueue
      /\ early' = early /\ taken' = taken
  BY DEF TypeOK, ProcessDeferredRpc
<1>1. CASE UNCHANGED <<sending, charged>> /\ queue' = [queue EXCEPT ![i].tasks = @ - 1]
  <2>1. \A j \in Queues : queue'[j].deferred = queue[j].deferred /\ queue'[j].adding = queue[j].adding
    BY <1>0, <1>1 DEF SenderQueue
  <2>2. \A t \in Senders : rpc'[t] = "held" <=> rpc[t] = "held"
    BY <1>1 DEF sending
  <2> QED
    BY <1>0, <1>1, <2>1, <2>2, HeldSame DEF HeldInv, ChargedInv
<1>a. ASSUME queue[i].deferred # <<>>
      PROVE  /\ s \in ToSet(queue[i].deferred) /\ ToSet(Tail(queue[i].deferred)) = ToSet(queue[i].deferred) \ {s}
             /\ IsInjective(Tail(queue[i].deferred)) /\ s \notin queue[i].adding
             /\ QueueSound(queue[i], i) /\ s \in Members(queue[i])
  <2>1. queue[i].deferred \in Seq(Senders)
    BY <1>0 DEF SenderQueue
  <2>2. QueueSound(queue[i], i)
    BY HeldParts DEF HeldInv
  <2> QED
    BY <1>a, <2>1, <2>2, TailSet DEF QueueSound, Members
<1>2. ASSUME UNCHANGED <<sending, charged>>, queue[i].deferred # <<>>,
             queue' = [[queue EXCEPT ![i].tasks = @ - 1] EXCEPT ![i].deferred = Tail(@), ![i].adding = @ \cup {s}]
      PROVE  HeldInv'
  <2>0. queue'[i] = [queue[i] EXCEPT !.tasks = @ - 1, !.deferred = Tail(@), !.adding = @ \cup {s}]
    BY <1>0, <1>2
  <2>1. queue'[i].deferred = Tail(queue[i].deferred) /\ queue'[i].adding = queue[i].adding \cup {s}
    BY <1>0, <2>0 DEF SenderQueue
  <2>2. \A j \in Queues \ {i} : queue'[j] = queue[j]
    BY <1>0, <1>2
  <2>3. Members(queue'[i]) = Members(queue[i]) /\ QueueSound(queue'[i], i)
    BY <1>2, <1>a, <2>1 DEF Members, QueueSound
  <2>4. InQueue' = InQueue
    BY <2>2, <2>3, InQueueSame
  <2>5. InEarly' = InEarly /\ rpc' = rpc /\ charged' = charged
    BY <1>0, <1>2 DEF InEarly, sending
  <2>6. \A j \in Queues : QueueSound(queue'[j], j)
    BY <2>2, <2>3, HeldParts DEF HeldInv
  <2>7. HeldOnce'
    BY <1>0, <2>4, <2>5, <2>6, HeldParts, HeldFromParts DEF HeldInv
  <2> QED
    BY <2>4, <2>5, <2>7 DEF HeldInv, ChargedInv
<1>3. ASSUME queue[i].deferred # <<>>, Respond({s}, "error"), charged' = charged \ {s},
             queue' = [[queue EXCEPT ![i].tasks = @ - 1] EXCEPT ![i].deferred = Tail(@), ![i].ok = FALSE]
      PROVE  HeldInv'
  <2>0. queue'[i] = [queue[i] EXCEPT !.tasks = @ - 1, !.deferred = Tail(@), !.ok = FALSE]
    BY <1>0, <1>3
  <2>1. queue'[i].deferred = Tail(queue[i].deferred) /\ queue'[i].adding = queue[i].adding
    BY <1>0, <2>0 DEF SenderQueue
  <2>2. \A j \in Queues \ {i} : queue'[j] = queue[j]
    BY <1>0, <1>3
  <2>3. Members(queue'[i]) = Members(queue[i]) \ {s} /\ QueueSound(queue'[i], i)
    BY <1>3, <1>a, <2>1 DEF Members, QueueSound
  <2> QED
    BY <1>0, <1>3, <1>a, <2>2, <2>3, HeldLeave
<1> QED
  BY <1>1, <1>2, <1>3, Zenon DEF ProcessDeferredRpc

LEMMA HeldCancelStream ==
    ASSUME TypeOK, HeldInv, merging' = merging, Queues' = Queues, early' = early, taken' = taken,
           CancelStream
    PROVE  HeldInv'
<1> DEFINE waiting == UNION {ToSet(queue[i].deferred) : i \in Queues}
<1>0. /\ queue \in [Queues -> SenderQueue]
      /\ queue' = [i \in Queues |-> [queue[i] EXCEPT !.cancelled = TRUE, !.deferred = <<>>]]
      /\ charged' = charged \ waiting /\ Respond(waiting, "closed")
  BY DEF TypeOK, CancelStream
<1>1. \A i \in Queues : queue'[i].deferred = <<>> /\ queue'[i].adding = queue[i].adding
  BY <1>0 DEF SenderQueue
<1>2. \A i \in Queues : Members(queue'[i]) = Members(queue[i]) \ waiting
  <2> SUFFICES ASSUME NEW i \in Queues PROVE Members(queue'[i]) = Members(queue[i]) \ waiting
    OBVIOUS
  <2>1. Members(queue'[i]) = queue[i].adding
    BY <1>1, EmptySet DEF Members
  <2>2. \A t \in queue[i].adding : t \notin waiting
    <3> SUFFICES ASSUME NEW t \in queue[i].adding, NEW j \in Queues, t \in ToSet(queue[j].deferred)
                 PROVE  FALSE
      OBVIOUS
    <3>1. QueueSound(queue[i], i) /\ QueueSound(queue[j], j)
      BY HeldParts DEF HeldInv
    <3> QED
      BY <3>1 DEF QueueSound, Members
  <2> QED
    BY <2>1, <2>2 DEF Members
<1>3. InQueue' = InQueue \ waiting
  <2>1. InQueue = UNION {Members(queue[i]) : i \in Queues} /\ InQueue' = UNION {Members(queue'[i]) : i \in Queues}
    BY DEF InQueue, Members
  <2> HIDE DEF waiting
  <2>2. ASSUME NEW t PROVE t \in InQueue' <=> t \in InQueue /\ t \notin waiting
    <3>1. t \in InQueue' <=> \E i \in Queues : t \in Members(queue'[i])
      BY <2>1
    <3>2. t \in InQueue <=> \E i \in Queues : t \in Members(queue[i])
      BY <2>1
    <3> QED
      BY <1>2, <3>1, <3>2
  <2> QED
    BY <2>2
<1>4. waiting \subseteq InQueue
  BY DEF InQueue
<1>5. \A i \in Queues : QueueSound(queue'[i], i)
  <2> SUFFICES ASSUME NEW i \in Queues PROVE QueueSound(queue'[i], i)
    OBVIOUS
  <2>1. QueueSound(queue[i], i) /\ Members(queue'[i]) \subseteq Members(queue[i])
    BY <1>2, HeldParts DEF HeldInv
  <2> QED
    BY <1>1, <2>1, EmptySet DEF QueueSound
<1>6. InEarly' = InEarly
  BY DEF InEarly
<1>7. \A t \in Senders : rpc'[t] = "held" <=> rpc[t] = "held" /\ t \notin waiting
  BY <1>0, Responses
<1> HIDE DEF waiting
<1>8. HeldOnce'
  BY <1>3, <1>4, <1>5, <1>6, <1>7, HeldParts, HeldFromParts DEF HeldInv
<1> QED
  BY <1>0, <1>3, <1>8 DEF HeldInv, ChargedInv

\* The RPC of s arrives before the receiver, or after it was forgotten.
LEMMA HeldEarly ==
    ASSUME TypeOK, HeldInv, StageInv, merging' = merging, Queues' = Queues, Unknown,
           NEW s \in Senders, rpc[s] \in {"data", "eos"}, rpc' = [rpc EXCEPT ![s] = "held"],
           \/ early' = [early EXCEPT !.data = Append(@, s)]
           \/ early' = [early EXCEPT !.eos = Append(@, s)],
           taken' = taken, queue' = queue, charged' = charged
    PROVE  HeldInv'
<1>0. /\ early \in SenderLists /\ early.data \in Seq(Senders) /\ early.eos \in Seq(Senders)
      /\ rpc \in [Senders -> {"none", "data", "eos", "held"}]
  BY DEF TypeOK, SenderLists
<1>1. s \notin InQueue /\ s \notin InEarly
  BY HeldParts DEF HeldInv
<1>2. taken = NoSenders
  BY DEF StageInv, Unknown
<1>3. s \notin ToSet(early.data) /\ s \notin ToSet(early.eos)
  BY <1>1 DEF InEarly
<1>4. ListsSound(early)
  BY HeldParts DEF HeldInv
<1>5. /\ ListsSound(early')
      /\ ToSet(early'.data) \cup ToSet(early'.eos) = ToSet(early.data) \cup ToSet(early.eos) \cup {s}
  <2>1. CASE early' = [early EXCEPT !.data = Append(@, s)]
    <3>1. early'.data = Append(early.data, s) /\ early'.eos = early.eos
      BY <1>0, <2>1 DEF SenderLists
    <3>2. ToSet(early'.data) = ToSet(early.data) \cup {s} /\ IsInjective(early'.data)
      BY <1>0, <1>3, <1>4, <3>1, AppendSet DEF ListsSound
    <3> QED
      BY <1>3, <1>4, <3>1, <3>2 DEF ListsSound
  <2>2. CASE early' = [early EXCEPT !.eos = Append(@, s)]
    <3>1. early'.eos = Append(early.eos, s) /\ early'.data = early.data
      BY <1>0, <2>2 DEF SenderLists
    <3>2. ToSet(early'.eos) = ToSet(early.eos) \cup {s} /\ IsInjective(early'.eos)
      BY <1>0, <1>3, <1>4, <3>1, AppendSet DEF ListsSound
    <3> QED
      BY <1>3, <1>4, <3>1, <3>2 DEF ListsSound
  <2> QED
    BY <2>1, <2>2
<1>6. InEarly' = InEarly \cup {s}
  BY <1>5 DEF InEarly
<1>7. InQueue' = InQueue
  BY InQueueSame
<1>8. ListsSound(taken')
  BY HeldParts DEF HeldInv
<1>9. \A i \in Queues : QueueSound(queue'[i], i)
  BY HeldParts DEF HeldInv
<1>10. \A t \in Senders : rpc'[t] = "held" <=> rpc[t] = "held" \/ t = s
  BY <1>0
<1>11. HeldOnce'
  BY <1>1, <1>2, <1>5, <1>6, <1>7, <1>8, <1>9, <1>10, HeldParts, HeldFromParts DEF HeldInv
<1> QED
  BY <1>7, <1>11 DEF HeldInv, ChargedInv

LEMMA HeldAddData ==
    ASSUME TypeOK, HeldInv, StageInv, merging' = merging, Queues' = Queues,
           NEW s \in Senders, AddData(s)
    PROVE  HeldInv'
<1>0. rpc[s] = "data" /\ taken' = taken
  BY DEF AddData
<1>1. CASE /\ Unknown /\ early' = [early EXCEPT !.data = Append(@, s)]
           /\ rpc' = [rpc EXCEPT ![s] = "held"] /\ UNCHANGED <<queue, charged>>
  BY <1>0, <1>1, HeldEarly
<1>2. ASSUME Respond({s}, "closed"), UNCHANGED <<early, queue, charged>> PROVE HeldInv'
  <2>1. \A t \in Senders : rpc'[t] = "held" <=> rpc[t] = "held"
    BY <1>0, <1>2, Responses
  <2> QED
    BY <1>0, <1>2, <2>1, HeldSame DEF HeldInv, ChargedInv
<1>3. CASE AddBatch(QueueOf(s), s) /\ UNCHANGED early
  BY <1>0, <1>3, HeldAddBatch
<1> QED
  BY <1>1, <1>2, <1>3 DEF AddData

LEMMA HeldCloseSender ==
    ASSUME TypeOK, HeldInv, StageInv, merging' = merging, Queues' = Queues,
           NEW s \in Senders, CloseSender(s)
    PROVE  HeldInv'
<1>0. rpc[s] = "eos" /\ taken' = taken /\ charged' = charged
  BY DEF CloseSender
<1>1. CASE Unknown
  <2>1. early' = [early EXCEPT !.eos = Append(@, s)] /\ rpc' = [rpc EXCEPT ![s] = "held"] /\ queue' = queue
    BY <1>1 DEF CloseSender
  <2> QED
    BY <1>0, <1>1, <2>1, HeldEarly
<1>2. CASE ~Unknown
  <2>1. Respond({s}, "ok") /\ early' = early
    BY <1>2 DEF CloseSender
  <2>2. \A t \in Senders : rpc'[t] = "held" <=> rpc[t] = "held"
    BY <1>0, <2>1, Responses
  <2>3. \A j \in Queues : queue'[j].deferred = queue[j].deferred /\ queue'[j].adding = queue[j].adding
    <3>1. CASE queue' = queue
      BY <3>1
    <3>2. CASE RemoveSender(s)
      BY <3>2, QueueFacts DEF RemoveSender, TypeOK, SenderQueue
    <3> QED
      BY <1>2, <3>1, <3>2 DEF CloseSender
  <2> QED
    BY <1>0, <2>1, <2>2, <2>3, HeldSame DEF HeldInv, ChargedInv
<1> QED
  BY <1>1, <1>2

LEMMA HeldCreateRecvr ==
    ASSUME TypeOK, HeldInv, StageInv, merging' = merging, Queues' = Queues, CreateRecvr
    PROVE  HeldInv'
<1>1. /\ taken = NoSenders /\ taken' = early /\ early' = NoSenders
      /\ rpc' = rpc /\ queue' = queue /\ charged' = charged
  BY DEF CreateRecvr, StageInv, sending
<1>2. InEarly' = InEarly
  BY <1>1, NoSendersFacts DEF InEarly
<1>3. InQueue' = InQueue
  BY <1>1, InQueueSame
<1>4. ListsSound(early') /\ ListsSound(taken') /\ \A i \in Queues : QueueSound(queue'[i], i)
  BY <1>1, HeldParts, NoSendersFacts DEF HeldInv
<1>5. HeldOnce'
  BY <1>1, <1>2, <1>3, <1>4, HeldParts, HeldFromParts DEF HeldInv
<1> QED
  BY <1>1, <1>3, <1>5 DEF HeldInv, ChargedInv

LEMMA HeldTimeOutEarlySenders ==
    ASSUME TypeOK, HeldInv, StageInv, merging' = merging, Queues' = Queues, TimeOutEarlySenders
    PROVE  HeldInv'
<1> DEFINE S == ToSet(early.data) \cup ToSet(early.eos)
<1>1. /\ early' = NoSenders /\ taken' = taken /\ queue' = queue /\ charged' = charged
      /\ Respond(S, "error") /\ early # NoSenders
  BY DEF TimeOutEarlySenders
<1>2. taken = NoSenders
  BY <1>1, HeldParts DEF HeldInv
<1>3. InEarly' = {} /\ InEarly = S
  BY <1>1, <1>2, NoSendersFacts DEF InEarly
<1>4. InQueue' = InQueue
  BY <1>1, InQueueSame
<1>5. ListsSound(early') /\ ListsSound(taken') /\ \A i \in Queues : QueueSound(queue'[i], i)
  BY <1>1, HeldParts, NoSendersFacts DEF HeldInv
<1>6. \A t \in Senders : rpc'[t] = "held" <=> rpc[t] = "held" /\ t \notin S
  BY <1>1, Responses
<1>7. HeldOnce'
  BY <1>1, <1>3, <1>4, <1>5, <1>6, HeldParts, HeldFromParts DEF HeldInv
<1> QED
  BY <1>1, <1>4, <1>7 DEF HeldInv, ChargedInv

\* The first of the early senders.
LEMMA TakenFacts ==
    ASSUME TypeOK, HeldInv, NEW q, q = taken.data \/ q = taken.eos, q # <<>>
    PROVE  /\ q \in Seq(Senders) /\ Head(q) \in Senders /\ QueueOf(Head(q)) \in Queues
           /\ Head(q) \in ToSet(q) /\ ToSet(Tail(q)) = ToSet(q) \ {Head(q)} /\ IsInjective(Tail(q))
           /\ Tail(q) \in Seq(Senders)
           /\ Head(q) \in InEarly /\ Head(q) \notin InQueue /\ rpc[Head(q)] = "held"
           /\ early = NoSenders
<1>1. q \in Seq(Senders)
  BY DEF TypeOK, SenderLists
<1>2. IsInjective(q)
  BY HeldParts DEF HeldInv, ListsSound
<1>3. /\ Head(q) \in Senders /\ QueueOf(Head(q)) \in Queues
      /\ Head(q) \in ToSet(q) /\ ToSet(Tail(q)) = ToSet(q) \ {Head(q)} /\ IsInjective(Tail(q))
      /\ Tail(q) \in Seq(Senders)
  BY <1>1, <1>2, TailSet, QueueFacts
<1>4. Head(q) \in InEarly
  BY <1>3 DEF InEarly
<1>5. taken # NoSenders
  BY DEF NoSenders
<1> QED
  BY <1>1, <1>3, <1>4, <1>5, HeldParts DEF HeldInv

LEMMA HeldTakeOverEarlySender ==
    ASSUME TypeOK, HeldInv, merging' = merging, Queues' = Queues, TakeOverEarlySender
    PROVE  HeldInv'
<1> DEFINE s == Head(taken.data) i == QueueOf(s)
<1>1. /\ taken.data # <<>> /\ taken' = [taken EXCEPT !.data = Tail(@)] /\ early' = early
      /\ taken \in SenderLists /\ queue \in [Queues -> SenderQueue]
  BY DEF TakeOverEarlySender, TypeOK
<1>2. /\ s \in Senders /\ i \in Queues /\ s \in ToSet(taken.data)
      /\ ToSet(Tail(taken.data)) = ToSet(taken.data) \ {s} /\ IsInjective(Tail(taken.data))
      /\ s \in InEarly /\ s \notin InQueue /\ rpc[s] = "held" /\ early = NoSenders
  BY <1>1, TakenFacts
<1>3. taken'.data = Tail(taken.data) /\ taken'.eos = taken.eos
  BY <1>1 DEF SenderLists
<1>4. ListsSound(taken) /\ s \notin ToSet(taken.eos)
  BY <1>2, HeldParts DEF HeldInv, ListsSound
<1>5. ListsSound(taken') /\ ListsSound(early')
  BY <1>1, <1>2, <1>3, <1>4, HeldParts DEF ListsSound, HeldInv
<1>6. InEarly' = InEarly \ {s}
  BY <1>1, <1>2, <1>3, <1>4, NoSendersFacts DEF InEarly
<1>7. CASE Respond({s}, "closed") /\ UNCHANGED <<queue, charged>>
  <2>1. InQueue' = InQueue
    BY <1>7, InQueueSame
  <2>2. \A t \in Senders : rpc'[t] = "held" <=> rpc[t] = "held" /\ t # s
    BY <1>7, Responses
  <2>3. \A j \in Queues : QueueSound(queue'[j], j)
    BY <1>7, HeldParts DEF HeldInv
  <2>4. HeldOnce'
    BY <1>1, <1>2, <1>5, <1>6, <2>1, <2>2, <2>3, HeldParts, HeldFromParts DEF HeldInv
  <2> QED
    BY <1>7, <2>1, <2>4 DEF HeldInv, ChargedInv
<1>8. CASE /\ queue' = [queue EXCEPT ![i].deferred = Append(@, s), ![i].tasks = @ + 1]
           /\ charged' = charged \cup {s} /\ UNCHANGED sending
  <2>0. queue'[i] = [queue[i] EXCEPT !.deferred = Append(@, s), !.tasks = @ + 1]
    BY <1>1, <1>2, <1>8
  <2>1. queue'[i].deferred = Append(queue[i].deferred, s) /\ queue'[i].adding = queue[i].adding
    BY <1>1, <1>2, <2>0 DEF SenderQueue
  <2>2. \A j \in Queues \ {i} : queue'[j] = queue[j]
    BY <1>1, <1>2, <1>8
  <2>3. QueueSound(queue[i], i) /\ s \notin Members(queue[i])
    BY <1>2, HeldParts DEF HeldInv
  <2>4. /\ ToSet(queue'[i].deferred) = ToSet(queue[i].deferred) \cup {s}
        /\ IsInjective(queue'[i].deferred)
    <3>1. queue[i].deferred \in Seq(Senders)
      BY <1>1, <1>2 DEF SenderQueue
    <3>2. s \notin ToSet(queue[i].deferred) /\ IsInjective(queue[i].deferred)
      BY <2>3 DEF QueueSound, Members
    <3> QED
      BY <1>2, <2>1, <3>1, <3>2, AppendSet
  <2>5. Members(queue'[i]) = Members(queue[i]) \cup {s}
    BY <2>1, <2>4 DEF Members
  <2>6. InQueue' = InQueue \cup {s}
    BY <1>2, <2>2, <2>5, InQueueAdd
  <2>7. QueueSound(queue'[i], i)
    BY <2>1, <2>3, <2>4, <2>5 DEF QueueSound, Members
  <2>8. \A j \in Queues : QueueSound(queue'[j], j)
    BY <2>2, <2>7, HeldParts DEF HeldInv
  <2>9. rpc' = rpc
    BY <1>8 DEF sending
  <2>10. HeldOnce'
    BY <1>1, <1>2, <1>5, <1>6, <2>6, <2>8, <2>9, HeldParts, HeldFromParts DEF HeldInv
  <2> QED
    BY <1>8, <2>6, <2>10 DEF HeldInv, ChargedInv
<1> QED
  BY <1>7, <1>8 DEF TakeOverEarlySender

LEMMA HeldTakeOverEos ==
    ASSUME TypeOK, HeldInv, merging' = merging, Queues' = Queues, TakeOverEos
    PROVE  HeldInv'
<1> DEFINE s == Head(taken.eos)
<1>1. /\ taken.eos # <<>> /\ taken' = [taken EXCEPT !.eos = Tail(@)] /\ early' = early
      /\ taken \in SenderLists /\ queue \in [Queues -> SenderQueue]
      /\ RemoveSender(s) /\ Respond({s}, "ok") /\ charged' = charged
  BY DEF TakeOverEos, TypeOK
<1>2. /\ s \in Senders /\ QueueOf(s) \in Queues /\ s \in ToSet(taken.eos)
      /\ ToSet(Tail(taken.eos)) = ToSet(taken.eos) \ {s} /\ IsInjective(Tail(taken.eos))
      /\ s \in InEarly /\ s \notin InQueue /\ rpc[s] = "held" /\ early = NoSenders
  BY <1>1, TakenFacts
<1>3. taken'.eos = Tail(taken.eos) /\ taken'.data = taken.data
  BY <1>1 DEF SenderLists
<1>4. ListsSound(taken) /\ s \notin ToSet(taken.data)
  BY <1>2, HeldParts DEF HeldInv, ListsSound
<1>5. ListsSound(taken') /\ ListsSound(early')
  BY <1>1, <1>2, <1>3, <1>4, HeldParts DEF ListsSound, HeldInv
<1>6. InEarly' = InEarly \ {s}
  BY <1>1, <1>2, <1>3, <1>4, NoSendersFacts DEF InEarly
<1>7. \A j \in Queues : queue'[j].deferred = queue[j].deferred /\ queue'[j].adding = queue[j].adding
  BY <1>1, <1>2 DEF RemoveSender, SenderQueue
<1>8. \A j \in Queues : Members(queue'[j]) = Members(queue[j])
  BY <1>7 DEF Members
<1>9. InQueue' = InQueue
  BY <1>8, InQueueSame
<1>10. \A t \in Senders : rpc'[t] = "held" <=> rpc[t] = "held" /\ t # s
  BY <1>1, Responses
<1>11. \A j \in Queues : QueueSound(queue'[j], j)
  BY <1>7, <1>8, HeldParts DEF HeldInv, QueueSound
<1>12. HeldOnce'
  BY <1>1, <1>2, <1>5, <1>6, <1>9, <1>10, <1>11, HeldParts, HeldFromParts DEF HeldInv
<1> QED
  BY <1>1, <1>9, <1>12 DEF HeldInv, ChargedInv

LEMMA HeldStep ==
    ASSUME TypeOK, HeldInv, StageInv, OrderInv, [Next]_vars
    PROVE  HeldInv'
<1> USE MergingFixed
<1>0. /\ rpc \in [Senders -> {"none", "data", "eos", "held"}] /\ queue \in [Queues -> SenderQueue]
  BY DEF TypeOK
<1>1. ASSUME \A i \in Queues : queue'[i].deferred = queue[i].deferred /\ queue'[i].adding = queue[i].adding,
             early' = early, taken' = taken, charged' = charged,
             \A s \in Senders : rpc'[s] = "held" <=> rpc[s] = "held"
      PROVE  HeldInv'
  BY <1>1, HeldSame DEF HeldInv, ChargedInv
<1>2. ASSUME NEW s \in Senders,
             TransmitData(s) \/ FlushFinal(s) \/ HandleFailedRPC(s) \/ TransmitDataFails(s) \/ CancelSender(s)
      PROVE  HeldInv'
  <2>1. receiving' = receiving
    BY <1>2, Zenon DEF TransmitData, FlushFinal, HandleFailedRPC, TransmitDataFails, CancelSender
  <2>2. \A t \in Senders : rpc'[t] = "held" <=> rpc[t] = "held"
    <3>1. rpc' = rpc \/ \E k \in {"none", "data", "eos"} : rpc' = [rpc EXCEPT ![s] = k] /\ rpc[s] # "held"
      BY <1>2 DEF TransmitData, FlushFinal, HandleFailedRPC, TransmitDataFails, CancelSender, Abandon
    <3> QED
      BY <1>0, <3>1
  <2> QED
    BY <1>1, <2>1, <2>2 DEF receiving
<1>3. CASE GetBatch
  <2>1. UNCHANGED <<sending, early, taken, charged>>
    BY <1>3, Zenon DEF GetBatch
  <2>2. want \in Queues
    BY <1>3 DEF GetBatch, TypeOK
  <2>3. \A i \in Queues : queue'[i].deferred = queue[i].deferred /\ queue'[i].adding = queue[i].adding
    <3>1. CASE UNCHANGED queue
      BY <3>1
    <3>2. CASE queue' = [queue EXCEPT ![want].batches = Tail(@), ![want].tasks = @ + TasksFor(want)]
      <4>1. queue'[want] = [queue[want] EXCEPT !.batches = Tail(@), !.tasks = @ + TasksFor(want)]
        BY <1>0, <2>2, <3>2
      <4>2. \A j \in Queues \ {want} : queue'[j] = queue[j]
        BY <1>0, <2>2, <3>2
      <4>3. queue'[want].deferred = queue[want].deferred /\ queue'[want].adding = queue[want].adding
        BY <1>0, <2>2, <4>1 DEF SenderQueue
      <4> QED
        BY <4>2, <4>3
    <3> QED
      BY <1>3, <3>1, <3>2, Zenon DEF GetBatch
  <2> QED
    BY <1>1, <2>1, <2>3 DEF sending
<1>4. CASE CloseQueues
  <2>1. \A i \in Queues : queue'[i].deferred = queue[i].deferred /\ queue'[i].adding = queue[i].adding
    BY <1>0, <1>4 DEF CloseQueues, SenderQueue
  <2> QED
    BY <1>1, <1>4, <2>1 DEF CloseQueues, sending
<1>5. ASSUME (\E i \in Queues : StartGetBatch(i)) \/ Prepared \/ PrepareFails \/ ForgetClosedStream
                 \/ StopReading \/ UNCHANGED vars
      PROVE  HeldInv'
  <2>1. UNCHANGED <<sending, queue, early, taken, charged>>
    BY <1>5 DEF StartGetBatch, Prepared, PrepareFails, ForgetClosedStream, StopReading, vars, receiving
  <2> QED
    BY <1>1, <2>1 DEF sending
<1>6. ASSUME Cancel \/ ReachedLimit \/ DeregisterRecvr
      PROVE  HeldInv'
  <2>1. UNCHANGED <<early, taken>>
    BY <1>6 DEF Cancel, ReachedLimit, DeregisterRecvr
  <2>2. CancelStream \/ UNCHANGED <<sending, queue, charged>>
    BY <1>6 DEF Cancel, ReachedLimit, DeregisterRecvr
  <2>3. CASE CancelStream
    BY <2>1, <2>3, HeldCancelStream
  <2>4. CASE UNCHANGED <<sending, queue, charged>>
    BY <1>1, <2>1, <2>4 DEF sending
  <2> QED
    BY <2>2, <2>3, <2>4
<1> QED
  BY <1>2, <1>3, <1>4, <1>5, <1>6, HeldAddData, HeldCloseSender, HeldFinishAdding,
     HeldProcessDeferredRpc, HeldCreateRecvr, HeldTakeOverEarlySender, HeldTakeOverEos,
     HeldTimeOutEarlySenders
     DEF Next

-----------------------------------------------------------------------------
(* What a step may do to one sender.                                       *)

SenderMove(s) ==
    LET c == snd[s]
        d == snd'[s]
    IN
    \/ /\ d = c
       /\ rpc'[s] = "none" <=> rpc[s] = "none"
       /\ InFlight(s)' <=> InFlight(s)
       /\ Ending(s)' <=> Ending(s)
    \/ /\ c.at = "sending" /\ rpc[s] = "none" /\ ~c.closed
       /\ d.at = "sending" /\ d.n = c.n + 1 /\ d.n <= MaxBatches /\ ~d.closed
       /\ rpc'[s] = "data"
    \/ /\ c.at = "sending" /\ rpc[s] = "none"
       /\ d.n = c.n /\ d.closed = c.closed
       /\ \/ c.closed /\ d.at = "done" /\ rpc'[s] = "none"
          \/ ~c.closed /\ d.at = "eos" /\ rpc'[s] = "eos"
    \/ /\ c.at \in {"sending", "eos"} /\ d.at \in {"failed", "cancelled", "lost"}
       /\ d.n = c.n /\ d.closed = c.closed
       /\ rpc[s] = "none" => rpc'[s] = "none"
       /\ InFlight(s)' => InFlight(s)
       /\ Ending(s)' => Ending(s)
    \/ /\ rpc[s] # "none" /\ rpc'[s] = "none"
       /\ d.n = c.n
       /\ \/ d.at \in {"failed", "cancelled", "lost", "done"} /\ d.closed = c.closed
          \/ d.at = c.at /\ queue'[QueueOf(s)].cancelled
          \/ Ending(s) /\ d.at \in {c.at, "done"} \ {"eos"} /\ d.closed = c.closed
          \/ /\ s \in queue[QueueOf(s)].adding
             /\ d.at \in {c.at, "done"} \ {"eos"} /\ d.closed = c.closed
             /\ queue'[QueueOf(s)].batches = Append(queue[QueueOf(s)].batches, <<s, c.n>>)

\* A step that does not touch the RPC or the EOS of s.
LEMMA SenderKept ==
    ASSUME TypeOK, HeldInv, NEW s \in Senders, snd'[s] = snd[s], rpc'[s] = rpc[s],
           rpc[s] = "held" => (s \in ToSet(early'.eos) \cup ToSet(taken'.eos) <=>
                               s \in ToSet(early.eos) \cup ToSet(taken.eos))
    PROVE  SenderMove(s)
BY DEF SenderMove, InFlight, Ending

LEMMA SenderAnswered ==
    ASSUME TypeOK, HeldInv, NEW S, NEW answer \in {"ok", "error", "closed"}, Respond(S, answer),
           NEW t \in Senders, rpc[t] = "held" /\ t \notin S =>
                (t \in ToSet(early'.eos) \cup ToSet(taken'.eos) <=>
                 t \in ToSet(early.eos) \cup ToSet(taken.eos)),
           t \in S => /\ rpc[t] # "none"
                      /\ answer = "closed" => queue'[QueueOf(t)].cancelled
                      /\ answer = "ok" =>
                            \/ Ending(t)
                            \/ /\ t \in queue[QueueOf(t)].adding
                               /\ queue'[QueueOf(t)].batches =
                                     Append(queue[QueueOf(t)].batches, <<t, snd[t].n>>)
    PROVE  SenderMove(t)
<1>1. CASE t \notin S
  <2>1. snd'[t] = snd[t] /\ rpc'[t] = rpc[t]
    BY <1>1, Responses
  <2> QED
    BY <1>1, <2>1, SenderKept
<1>2. CASE t \in S
  <2>1. /\ rpc'[t] = "none" /\ snd'[t] \in Channel /\ snd'[t].n = snd[t].n
        /\ answer = "error" => /\ snd'[t].at \notin {"sending", "eos"}
                               /\ snd'[t].closed = snd[t].closed
        /\ answer = "closed" => snd'[t].at = snd[t].at
        /\ answer = "ok" => /\ snd'[t].at \in {snd[t].at, "done"} \ {"eos"}
                            /\ snd'[t].closed = snd[t].closed
    BY <1>2, Responses
  <2>2. snd'[t].at \in {"sending", "eos", "done", "failed", "cancelled", "lost"}
    BY <2>1 DEF Channel
  <2> QED
    BY <1>2, <2>1, <2>2 DEF SenderMove
<1> QED
  BY <1>1, <1>2

LEMMA SenderStep ==
    ASSUME TypeOK, HeldInv, StageInv, OrderInv, [Next]_vars, NEW t \in Senders
    PROVE  SenderMove(t)
<1> DEFINE Eos == ToSet(early.eos) \cup ToSet(taken.eos)
<1>0. /\ rpc \in [Senders -> {"none", "data", "eos", "held"}] /\ snd \in [Senders -> Channel]
      /\ snd[t] \in Channel /\ QueueOf(t) \in Queues
      /\ queue \in [Queues -> SenderQueue]
  BY QueueFacts DEF TypeOK
<1>1. ASSUME UNCHANGED <<sending, early, taken>> PROVE SenderMove(t)
  BY <1>1, SenderKept DEF sending
<1>2. ASSUME NEW s \in Senders, TransmitData(s) PROVE SenderMove(t)
  <2>1. /\ snd[s].at = "sending" /\ rpc[s] = "none" /\ ~snd[s].closed /\ snd[s].n < MaxBatches
        /\ snd' = [snd EXCEPT ![s].n = @ + 1] /\ rpc' = [rpc EXCEPT ![s] = "data"]
        /\ early' = early /\ taken' = taken
    BY <1>2 DEF TransmitData, receiving
  <2>2. CASE t = s
    <3>1. snd'[t] = [snd[t] EXCEPT !.n = @ + 1] /\ rpc'[t] = "data"
      BY <1>0, <2>1, <2>2
    <3>2. /\ snd'[t].at = "sending" /\ snd'[t].n = snd[t].n + 1 /\ snd'[t].closed = snd[t].closed
          /\ snd[t].n + 1 <= MaxBatches
      BY <1>0, <2>1, <2>2, <3>1, SenderFacts DEF Channel
    <3> QED
      BY <2>1, <2>2, <3>1, <3>2 DEF SenderMove
  <2>3. CASE t # s
    BY <1>0, <2>1, <2>3, SenderKept
  <2> QED
    BY <2>2, <2>3
<1>3. ASSUME NEW s \in Senders, FlushFinal(s) PROVE SenderMove(t)
  <2>1. /\ snd[s].at = "sending" /\ rpc[s] = "none"
        /\ \/ snd[s].closed /\ snd' = [snd EXCEPT ![s].at = "done"] /\ rpc' = rpc
           \/ ~snd[s].closed /\ snd' = [snd EXCEPT ![s].at = "eos"] /\ rpc' = [rpc EXCEPT ![s] = "eos"]
        /\ early' = early /\ taken' = taken
    BY <1>3 DEF FlushFinal, receiving
  <2>2. CASE t = s
    <3>1. /\ snd'[t].n = snd[t].n /\ snd'[t].closed = snd[t].closed
          /\ \/ snd[t].closed /\ snd'[t].at = "done" /\ rpc'[t] = "none"
             \/ ~snd[t].closed /\ snd'[t].at = "eos" /\ rpc'[t] = "eos"
      BY <1>0, <2>1, <2>2 DEF Channel
    <3> QED
      BY <2>1, <2>2, <3>1 DEF SenderMove
  <2>3. CASE t # s
    BY <1>0, <2>1, <2>3, SenderKept
  <2> QED
    BY <2>2, <2>3
<1>4. ASSUME NEW s \in Senders, HandleFailedRPC(s) \/ TransmitDataFails(s) \/ CancelSender(s) PROVE SenderMove(t)
  <2>1. early' = early /\ taken' = taken
    BY <1>4 DEF HandleFailedRPC, TransmitDataFails, CancelSender, receiving
  <2>2. PICK a \in {"failed", "cancelled", "lost"} : Abandon(s, a)
    BY <1>4 DEF HandleFailedRPC, TransmitDataFails, CancelSender
  <2>3. /\ snd[s].at \in {"sending", "eos"} /\ snd' = [snd EXCEPT ![s].at = a]
        /\ rpc' = rpc \/ (rpc[s] \in {"data", "eos"} /\ rpc' = [rpc EXCEPT ![s] = "none"])
    BY <2>2 DEF Abandon
  <2>4. CASE t = s
    <3>1. /\ snd'[t].n = snd[t].n /\ snd'[t].closed = snd[t].closed /\ snd'[t].at = a
      BY <1>0, <2>3, <2>4 DEF Channel
    <3>2. rpc'[t] = rpc[t] \/ rpc'[t] = "none"
      BY <1>0, <2>3, <2>4
    <3>3. InFlight(t)' => InFlight(t)
      BY <2>1, <3>2 DEF InFlight
    <3>4. Ending(t)' => Ending(t)
      BY <2>1, <3>2 DEF Ending
    <3> QED
      BY <2>3, <2>4, <3>1, <3>2, <3>3, <3>4 DEF SenderMove
  <2>5. CASE t # s
    BY <1>0, <2>1, <2>3, <2>5, SenderKept
  <2> QED
    BY <2>4, <2>5
<1>5. ASSUME NEW s \in Senders, AddData(s) PROVE SenderMove(t)
  <2>0. rpc[s] = "data" /\ taken' = taken /\ s \notin Eos
    <3>1. rpc[s] = "data" /\ taken' = taken
      BY <1>5 DEF AddData
    <3>2. s \notin InEarly
      BY <3>1, HeldParts DEF HeldInv
    <3> QED
      BY <3>1, <3>2 DEF InEarly
  <2>a. ASSUME early' = early \/ (early' = [early EXCEPT !.data = Append(@, s)]),
               rpc' = [rpc EXCEPT ![s] = "held"], snd' = snd
        PROVE  SenderMove(t)
    <3>1. early'.eos = early.eos
      BY <2>a DEF TypeOK, SenderLists
    <3>2. CASE t = s
      <4>1. rpc'[t] = "held" /\ rpc[t] = "data" /\ snd'[t] = snd[t]
        BY <1>0, <2>0, <2>a, <3>2
      <4>2. InFlight(t)' /\ InFlight(t) /\ ~Ending(t)' /\ ~Ending(t)
        BY <2>0, <3>1, <3>2, <4>1 DEF InFlight, Ending
      <4> QED
        BY <4>1, <4>2 DEF SenderMove
    <3>3. CASE t # s
      BY <1>0, <2>0, <2>a, <3>1, <3>3, SenderKept
    <3> QED
      BY <3>2, <3>3
  <2>b. ASSUME Respond({s}, "error"), early' = early PROVE SenderMove(t)
    BY <2>0, <2>b, SenderAnswered
  <2>c. ASSUME Respond({s}, "closed"), early' = early, queue[QueueOf(s)].cancelled, queue' = queue
        PROVE  SenderMove(t)
    BY <2>0, <2>c, SenderAnswered
  <2>d. reg = "closed" => queue[QueueOf(s)].cancelled
    BY QueueFacts DEF StageInv, TypeOK
  <2>1. CASE Unknown /\ early' = [early EXCEPT !.data = Append(@, s)] /\ rpc' = [rpc EXCEPT ![s] = "held"] /\ snd' = snd
    BY <2>1, <2>a
  <2>2. CASE reg = "closed" /\ Respond({s}, "closed") /\ early' = early /\ queue' = queue
    BY <2>2, <2>c, <2>d
  <2>3. CASE AddBatch(QueueOf(s), s) /\ early' = early
    <3>1. CASE Respond({s}, "error")
      BY <2>3, <3>1, <2>b
    <3>2. CASE queue[QueueOf(s)].cancelled /\ Respond({s}, "closed") /\ queue' = queue
      BY <2>3, <3>2, <2>c
    <3>3. CASE snd' = snd /\ rpc' = [rpc EXCEPT ![s] = "held"]
      BY <2>3, <3>3, <2>a
    <3> QED
      BY <2>3, <3>1, <3>2, <3>3, Zenon DEF AddBatch
  <2> QED
    BY <1>5, <2>1, <2>2, <2>3, Zenon DEF AddData
<1>6. ASSUME NEW s \in Senders, CloseSender(s) PROVE SenderMove(t)
  <2>0. rpc[s] = "eos" /\ taken' = taken
    BY <1>6 DEF CloseSender
  <2>1. CASE Unknown
    <3>1. early' = [early EXCEPT !.eos = Append(@, s)] /\ rpc' = [rpc EXCEPT ![s] = "held"] /\ snd' = snd
      BY <1>6, <2>1 DEF CloseSender
    <3>2. ToSet(early'.eos) = ToSet(early.eos) \cup {s}
      <4>1. early'.eos = Append(early.eos, s) /\ early.eos \in Seq(Senders)
        BY <3>1 DEF TypeOK, SenderLists
      <4> QED
        BY <4>1, AppendSet
    <3>3. CASE t = s
      <4>1. rpc'[t] = "held" /\ rpc[t] = "eos" /\ snd'[t] = snd[t]
        BY <1>0, <2>0, <3>1, <3>3
      <4>2. ~InFlight(t)' /\ ~InFlight(t) /\ Ending(t)' /\ Ending(t)
        BY <2>0, <3>2, <3>3, <4>1 DEF InFlight, Ending
      <4> QED
        BY <4>1, <4>2 DEF SenderMove
    <3>4. CASE t # s
      BY <1>0, <2>0, <3>1, <3>2, <3>4, SenderKept
    <3> QED
      BY <3>3, <3>4
  <2>2. CASE ~Unknown
    <3>1. Respond({s}, "ok") /\ early' = early
      BY <1>6, <2>2 DEF CloseSender
    <3>2. Ending(s)
      BY <2>0 DEF Ending
    <3> QED
      BY <2>0, <3>1, <3>2, SenderAnswered
  <2> QED
    BY <2>1, <2>2
<1>7. ASSUME NEW s \in Senders, NEW i \in Queues, FinishAdding(i, s) PROVE SenderMove(t)
  <2>0. s \in queue[i].adding /\ early' = early /\ taken' = taken
    BY <1>7 DEF FinishAdding
  <2>1. QueueOf(s) = i /\ rpc[s] = "held"
    BY <2>0, AddingFacts DEF HeldInv
  <2>2. CASE Respond({s}, "error")
    BY <2>0, <2>1, <2>2, SenderAnswered
  <2>3. CASE /\ Respond({s}, "ok")
             /\ queue' = [queue EXCEPT ![i].adding = @ \ {s}, ![i].batches = Append(@, <<s, snd[s].n>>)]
    <3>1. queue'[i] = [queue[i] EXCEPT !.adding = @ \ {s}, !.batches = Append(@, <<s, snd[s].n>>)]
      BY <1>0, <2>3
    <3>2. queue'[i].batches = Append(queue[i].batches, <<s, snd[s].n>>)
      BY <1>0, <3>1 DEF SenderQueue
    <3>3. t \in {s} => /\ rpc[t] # "none" /\ t \in queue[QueueOf(t)].adding
                       /\ queue'[QueueOf(t)].batches = Append(queue[QueueOf(t)].batches, <<t, snd[t].n>>)
      BY <2>0, <2>1, <3>2
    <3> QED
      BY <2>0, <2>3, <3>3, SenderAnswered
  <2> QED
    BY <1>7, <2>2, <2>3, Zenon DEF FinishAdding
<1>8. ASSUME NEW i \in Queues, ProcessDeferredRpc(i) PROVE SenderMove(t)
  <2> DEFINE s == Head(queue[i].deferred)
  <2>0. early' = early /\ taken' = taken
    BY <1>8 DEF ProcessDeferredRpc
  <2>1. CASE UNCHANGED sending
    BY <1>1, <2>0, <2>1
  <2>2. CASE queue[i].deferred # <<>> /\ Respond({s}, "error")
    <3>1. queue[i].deferred \in Seq(Senders)
      BY <1>0 DEF SenderQueue
    <3>2. s \in ToSet(queue[i].deferred)
      BY <2>2, <3>1, TailSet
    <3>3. s \in InQueue
      BY <3>2 DEF InQueue
    <3>4. rpc[s] = "held"
      BY <3>3, HeldParts DEF HeldInv
    <3> QED
      BY <2>0, <2>2, <3>4, SenderAnswered
  <2> QED
    BY <1>8, <2>1, <2>2, Zenon DEF ProcessDeferredRpc
<1>9. ASSUME CancelStream, early' = early, taken' = taken PROVE SenderMove(t)
  <2> DEFINE waiting == UNION {ToSet(queue[i].deferred) : i \in Queues}
  <2>1. Respond(waiting, "closed")
    BY <1>9 DEF CancelStream
  <2>2. queue'[QueueOf(t)].cancelled
    BY <1>0, <1>9 DEF CancelStream, SenderQueue
  <2>3. t \in waiting => rpc[t] # "none"
    <3>1. waiting \subseteq InQueue
      BY DEF InQueue
    <3> QED
      BY <3>1, HeldParts DEF HeldInv
  <2> HIDE DEF waiting
  <2> QED
    BY <1>9, <2>1, <2>2, <2>3, SenderAnswered
<1>10. CASE CreateRecvr
  <2>1. UNCHANGED sending /\ taken' = early /\ early' = NoSenders /\ taken = NoSenders
    BY <1>10 DEF CreateRecvr, StageInv
  <2> QED
    BY <2>1, SenderKept, NoSendersFacts DEF sending
<1>11. CASE TakeOverEarlySender
  <2> DEFINE s == Head(taken.data)
  <2>1. /\ taken.data # <<>> /\ taken' = [taken EXCEPT !.data = Tail(@)] /\ early' = early
    BY <1>11 DEF TakeOverEarlySender
  <2>2. taken'.eos = taken.eos
    BY <2>1 DEF TypeOK, SenderLists
  <2>3. CASE UNCHANGED sending
    BY <2>1, <2>2, <2>3, SenderKept DEF sending
  <2>4. CASE queue[QueueOf(s)].cancelled /\ queue' = queue /\ Respond({s}, "closed")
    <3>1. rpc[s] = "held"
      BY <2>1, TakenFacts
    <3> QED
      BY <2>1, <2>2, <2>4, <3>1, SenderAnswered
  <2> QED
    BY <1>11, <2>3, <2>4, Zenon DEF TakeOverEarlySender
<1>12. CASE TakeOverEos
  <2> DEFINE s == Head(taken.eos)
  <2>1. /\ taken.eos # <<>> /\ taken' = [taken EXCEPT !.eos = Tail(@)] /\ early' = early
        /\ Respond({s}, "ok")
    BY <1>12 DEF TakeOverEos
  <2>2. /\ rpc[s] = "held" /\ s \in ToSet(taken.eos) /\ ToSet(Tail(taken.eos)) = ToSet(taken.eos) \ {s}
    BY <2>1, TakenFacts
  <2>3. taken'.eos = Tail(taken.eos)
    BY <2>1 DEF TypeOK, SenderLists
  <2>4. Ending(s)
    BY <2>2 DEF Ending
  <2> QED
    BY <2>1, <2>2, <2>3, <2>4, SenderAnswered
<1>13. CASE TimeOutEarlySenders
  <2> DEFINE S == ToSet(early.data) \cup ToSet(early.eos)
  <2>1. early' = NoSenders /\ taken' = taken /\ Respond(S, "error")
    BY <1>13 DEF TimeOutEarlySenders
  <2>2. t \in S => rpc[t] # "none"
    <3>1. S \subseteq InEarly
      BY DEF InEarly
    <3> QED
      BY <3>1, HeldParts DEF HeldInv
  <2>3. ToSet(early'.eos) = {} /\ ToSet(early.eos) \subseteq S
    BY <2>1, NoSendersFacts
  <2> HIDE DEF S
  <2> QED
    BY <2>1, <2>2, <2>3, SenderAnswered
<1>14. ASSUME (\E i \in Queues : StartGetBatch(i)) \/ Prepared \/ PrepareFails \/ ForgetClosedStream
                 \/ GetBatch \/ StopReading \/ CloseQueues \/ UNCHANGED vars
       PROVE  SenderMove(t)
  <2>1. UNCHANGED <<sending, early, taken>>
    BY <1>14 DEF StartGetBatch, Prepared, PrepareFails, ForgetClosedStream, GetBatch, StopReading,
                 CloseQueues, vars, receiving
  <2> QED
    BY <1>1, <2>1
<1>15. ASSUME Cancel \/ ReachedLimit \/ DeregisterRecvr
       PROVE  SenderMove(t)
  <2>1. UNCHANGED <<early, taken>>
    BY <1>15 DEF Cancel, ReachedLimit, DeregisterRecvr
  <2>2. CancelStream \/ UNCHANGED sending
    BY <1>15 DEF Cancel, ReachedLimit, DeregisterRecvr
  <2> QED
    BY <1>1, <1>9, <2>1, <2>2
<1> QED
  BY <1>2, <1>3, <1>4, <1>5, <1>6, <1>7, <1>8, <1>10, <1>11, <1>12, <1>13, <1>14, <1>15
     DEF Next

-----------------------------------------------------------------------------
(* What a step may do to the batches of one queue and to what is read.     *)

BatchMove(i) ==
    LET q == queue[i]
        r == queue'[i]
    IN
    \/ /\ r.batches = q.batches
       /\ \A s \in Senders : QueueOf(s) = i => got'[s] = got[s]
    \/ /\ got' = got
       /\ \E s \in q.adding : r.batches = Append(q.batches, <<s, snd[s].n>>) /\ rpc'[s] = "none"
    \/ /\ q.batches # <<>> /\ ~q.cancelled /\ UNCHANGED <<sending, early, taken>>
       /\ r.batches = Tail(q.batches)
       /\ got' = [got EXCEPT ![Head(q.batches)[1]] = Append(@, Head(q.batches)[2])]
    \/ q.cancelled /\ r.batches = <<>> /\ got' = got

\* DecrementSenders().
RemainingMove(i) ==
    \/ queue'[i].remaining = queue[i].remaining
    \/ /\ \E s \in Senders : QueueOf(s) = i /\ Ending(s) /\ rpc'[s] = "none"
       /\ queue'[i].batches = queue[i].batches /\ got' = got
       /\ queue'[i].remaining = IF queue[i].remaining > 0 THEN queue[i].remaining - 1 ELSE 0

\* The end of a queue.
OverMove ==
    \/ over' = over
    \/ /\ UNCHANGED <<sending, got>>
       /\ \E i \in Queues :
             /\ over' = over \cup {i}
             /\ ~queue[i].cancelled /\ queue[i].batches = <<>> /\ queue[i].remaining = 0

LEMMA RemoveMove ==
    ASSUME TypeOK, NEW i \in Queues, NEW s \in Senders, RemoveSender(s), Ending(s), rpc'[s] = "none",
           got' = got
    PROVE  BatchMove(i) /\ RemainingMove(i)
<1> DEFINE j == QueueOf(s)
<1>0. queue \in [Queues -> SenderQueue] /\ j \in Queues
  BY QueueFacts DEF TypeOK
<1>1. queue'[j] = [queue[j] EXCEPT !.remaining = IF @ > 0 THEN @ - 1 ELSE 0]
  BY <1>0 DEF RemoveSender
<1>2. /\ queue'[j].batches = queue[j].batches
      /\ queue'[j].remaining = IF queue[j].remaining > 0 THEN queue[j].remaining - 1 ELSE 0
  BY <1>0, <1>1 DEF SenderQueue
<1>3. \A k \in Queues \ {j} : queue'[k] = queue[k]
  BY <1>0 DEF RemoveSender
<1>4. CASE i = j
  BY <1>2, <1>4 DEF BatchMove, RemainingMove
<1>5. CASE i # j
  BY <1>3, <1>5 DEF BatchMove, RemainingMove
<1> QED
  BY <1>4, <1>5

LEMMA BatchStep ==
    ASSUME TypeOK, HeldInv, StageInv, OrderInv, [Next]_vars, NEW i \in Queues
    PROVE  BatchMove(i) /\ RemainingMove(i)
<1>0. queue \in [Queues -> SenderQueue] /\ queue[i] \in SenderQueue
  BY DEF TypeOK
<1>1. ASSUME queue'[i].batches = queue[i].batches, queue'[i].remaining = queue[i].remaining,
             got' = got
      PROVE  BatchMove(i) /\ RemainingMove(i)
  BY <1>1 DEF BatchMove, RemainingMove
<1>2. CASE queue' = queue /\ got' = got
  BY <1>1, <1>2
<1>3. ASSUME NEW s \in Senders, AddData(s) PROVE BatchMove(i) /\ RemainingMove(i)
  <2>0. got' = got
    BY <1>3 DEF AddData, consuming
  <2>1. CASE queue' = queue
    BY <1>2, <2>0, <2>1
  <2>2. CASE AddBatch(QueueOf(s), s)
    <3> DEFINE j == QueueOf(s)
    <3>0. j \in Queues
      BY QueueFacts
    <3>1. CASE queue' = [queue EXCEPT ![j].ok = FALSE]
      BY <1>0, <1>1, <2>0, <3>0, <3>1 DEF SenderQueue
    <3>2. CASE queue' = [queue EXCEPT ![j].deferred = Append(@, s)]
      BY <1>0, <1>1, <2>0, <3>0, <3>2 DEF SenderQueue
    <3>3. CASE StartAdding(j, s)
      BY <1>0, <1>1, <2>0, <3>0, <3>3 DEF SenderQueue, StartAdding
    <3> QED
      BY <1>2, <2>0, <2>2, <3>1, <3>2, <3>3, Zenon DEF AddBatch
  <2> QED
    BY <1>3, <2>1, <2>2, Zenon DEF AddData
<1>4. ASSUME NEW s \in Senders, CloseSender(s) PROVE BatchMove(i) /\ RemainingMove(i)
  <2>0. got' = got /\ rpc[s] = "eos"
    BY <1>4 DEF CloseSender, consuming
  <2>1. CASE queue' = queue
    BY <1>2, <2>0, <2>1
  <2>2. CASE RemoveSender(s) /\ Respond({s}, "ok")
    <3>1. Ending(s) /\ rpc'[s] = "none"
      BY <2>0, <2>2, Responses DEF Ending
    <3> QED
      BY <2>0, <2>2, <3>1, RemoveMove
  <2> QED
    BY <1>4, <2>1, <2>2 DEF CloseSender
<1>5. ASSUME NEW s \in Senders, NEW j \in Queues, FinishAdding(j, s) PROVE BatchMove(i) /\ RemainingMove(i)
  <2>0. got' = got /\ s \in queue[j].adding
    BY <1>5 DEF FinishAdding, consuming
  <2>1. CASE /\ queue' = [queue EXCEPT ![j].adding = @ \ {s}, ![j].batches = Append(@, <<s, snd[s].n>>)]
             /\ Respond({s}, "ok")
    <3>1. rpc'[s] = "none"
      BY <2>1, Responses
    <3>2. queue'[j] = [queue[j] EXCEPT !.adding = @ \ {s}, !.batches = Append(@, <<s, snd[s].n>>)]
      BY <1>0, <2>1
    <3>3. queue'[j].batches = Append(queue[j].batches, <<s, snd[s].n>>) /\ queue'[j].remaining = queue[j].remaining
      BY <1>0, <3>2 DEF SenderQueue
    <3>4. CASE i = j
      BY <2>0, <3>1, <3>3, <3>4 DEF BatchMove, RemainingMove
    <3>5. CASE i # j
      BY <1>0, <1>1, <2>0, <2>1, <3>5
    <3> QED
      BY <3>4, <3>5
  <2>2. CASE queue' = [queue EXCEPT ![j].adding = @ \ {s}, ![j].ok = FALSE]
    BY <1>0, <1>1, <2>0, <2>2 DEF SenderQueue
  <2> QED
    BY <1>5, <2>1, <2>2, Zenon DEF FinishAdding
<1>6. ASSUME NEW j \in Queues, ProcessDeferredRpc(j) PROVE BatchMove(i) /\ RemainingMove(i)
  <2> DEFINE s == Head(queue[j].deferred)
  <2>0. got' = got
    BY <1>6 DEF ProcessDeferredRpc, consuming
  <2>1. CASE queue' = [queue EXCEPT ![j].tasks = @ - 1]
    BY <1>0, <1>1, <2>0, <2>1 DEF SenderQueue
  <2>2. CASE queue' = [[queue EXCEPT ![j].tasks = @ - 1] EXCEPT ![j].deferred = Tail(@), ![j].adding = @ \cup {s}]
    <3>1. queue'[i].batches = queue[i].batches /\ queue'[i].remaining = queue[i].remaining
      <4>1. queue'[j] = [queue[j] EXCEPT !.tasks = @ - 1, !.deferred = Tail(@), !.adding = @ \cup {s}]
        BY <1>0, <2>2
      <4>2. i # j => queue'[i] = queue[i]
        BY <1>0, <2>2
      <4> QED
        BY <1>0, <4>1, <4>2 DEF SenderQueue
    <3> QED
      BY <1>1, <2>0, <3>1
  <2>3. CASE queue' = [[queue EXCEPT ![j].tasks = @ - 1] EXCEPT ![j].deferred = Tail(@), ![j].ok = FALSE]
    <3>1. queue'[i].batches = queue[i].batches /\ queue'[i].remaining = queue[i].remaining
      <4>1. queue'[j] = [queue[j] EXCEPT !.tasks = @ - 1, !.deferred = Tail(@), !.ok = FALSE]
        BY <1>0, <2>3
      <4>2. i # j => queue'[i] = queue[i]
        BY <1>0, <2>3
      <4> QED
        BY <1>0, <4>1, <4>2 DEF SenderQueue
    <3> QED
      BY <1>1, <2>0, <3>1
  <2> QED
    BY <1>6, <2>1, <2>2, <2>3, Zenon DEF ProcessDeferredRpc
<1>7. ASSUME CancelStream, got' = got PROVE BatchMove(i) /\ RemainingMove(i)
  BY <1>0, <1>1, <1>7 DEF CancelStream, SenderQueue
<1>8. CASE TakeOverEarlySender
  <2> DEFINE s == Head(taken.data) j == QueueOf(s)
  <2>0. got' = got /\ j \in Queues
    <3>1. got' = got /\ taken.data # <<>>
      BY <1>8 DEF TakeOverEarlySender, consuming
    <3> QED
      BY <3>1, TakenFacts
  <2>1. CASE queue' = queue
    BY <1>2, <2>0, <2>1
  <2>2. CASE queue' = [queue EXCEPT ![j].deferred = Append(@, s), ![j].tasks = @ + 1]
    <3>1. queue'[j] = [queue[j] EXCEPT !.deferred = Append(@, s), !.tasks = @ + 1]
      BY <1>0, <2>0, <2>2
    <3>2. i # j => queue'[i] = queue[i]
      BY <1>0, <2>0, <2>2
    <3>3. queue'[i].batches = queue[i].batches /\ queue'[i].remaining = queue[i].remaining
      BY <1>0, <3>1, <3>2 DEF SenderQueue
    <3> QED
      BY <1>1, <2>0, <3>3
  <2> QED
    BY <1>8, <2>1, <2>2, Zenon DEF TakeOverEarlySender
<1>9. CASE TakeOverEos
  <2> DEFINE s == Head(taken.eos)
  <2>1. /\ taken.eos # <<>> /\ RemoveSender(s) /\ Respond({s}, "ok") /\ got' = got
    BY <1>9 DEF TakeOverEos, consuming
  <2>2. s \in Senders /\ rpc[s] = "held" /\ s \in ToSet(taken.eos)
    BY <2>1, TakenFacts
  <2>3. Ending(s) /\ rpc'[s] = "none"
    BY <2>1, <2>2, Responses DEF Ending
  <2> QED
    BY <2>1, <2>2, <2>3, RemoveMove
<1>10. CASE GetBatch
  <2> DEFINE j == want batch == Head(queue[j].batches)
  <2>0. j \in Queues
    BY <1>10 DEF TypeOK, GetBatch
  <2>1. CASE queue' = queue /\ got' = got
    BY <1>2, <2>1
  <2>2. CASE /\ queue[j].batches # <<>> /\ ~queue[j].cancelled
             /\ queue' = [queue EXCEPT ![j].batches = Tail(@), ![j].tasks = @ + TasksFor(j)]
             /\ got' = [got EXCEPT ![batch[1]] = Append(@, batch[2])]
    <3>1. queue'[j] = [queue[j] EXCEPT !.batches = Tail(@), !.tasks = @ + TasksFor(j)]
      BY <1>0, <2>0, <2>2
    <3>2. i # j => queue'[i] = queue[i]
      BY <1>0, <2>0, <2>2
    <3>3. queue'[j].batches = Tail(queue[j].batches) /\ queue'[j].remaining = queue[j].remaining
      BY <1>0, <2>0, <3>1 DEF SenderQueue
    <3>4. UNCHANGED <<sending, early, taken>>
      BY <1>10 DEF GetBatch
    <3>5. CASE i = j
      BY <2>2, <3>3, <3>4, <3>5 DEF BatchMove, RemainingMove
    <3>6. CASE i # j
      <4>1. batch = queue[j].batches[1] /\ 1 \in 1..Len(queue[j].batches)
        BY <1>0, <2>0, <2>2 DEF SenderQueue
      <4>2. QueueOf(batch[1]) = j
        BY <2>0, <4>1 DEF OrderInv
      <4>3. \A s \in Senders : QueueOf(s) = i => got'[s] = got[s]
        BY <2>2, <3>6, <4>2 DEF TypeOK
      <4> QED
        BY <3>2, <3>6, <4>3 DEF BatchMove, RemainingMove
    <3> QED
      BY <3>5, <3>6
  <2> QED
    BY <1>10, <2>1, <2>2, Zenon DEF GetBatch
<1>11. CASE CloseQueues
  <2>1. queue[i].cancelled /\ got' = got
    BY <1>11 DEF CloseQueues, StageInv
  <2>2. queue'[i].batches = <<>> /\ queue'[i].remaining = queue[i].remaining
    BY <1>0, <1>11 DEF CloseQueues, SenderQueue
  <2> QED
    BY <2>1, <2>2 DEF BatchMove, RemainingMove
<1>12. ASSUME NEW s \in Senders, TransmitData(s) \/ FlushFinal(s) \/ HandleFailedRPC(s) \/ TransmitDataFails(s) \/ CancelSender(s)
       PROVE  BatchMove(i) /\ RemainingMove(i)
  <2>1. queue' = queue /\ got' = got
    BY <1>12 DEF TransmitData, FlushFinal, HandleFailedRPC, TransmitDataFails, CancelSender, receiving, consuming
  <2> QED
    BY <1>2, <2>1
<1>13. ASSUME (\E j \in Queues : StartGetBatch(j)) \/ CreateRecvr \/ Prepared \/ PrepareFails
                 \/ TimeOutEarlySenders \/ ForgetClosedStream \/ StopReading \/ UNCHANGED vars
       PROVE  BatchMove(i) /\ RemainingMove(i)
  <2>1. queue' = queue /\ got' = got
    BY <1>13 DEF StartGetBatch, CreateRecvr, Prepared, PrepareFails, TimeOutEarlySenders,
                 ForgetClosedStream, StopReading, vars, receiving, consuming
  <2> QED
    BY <1>2, <2>1
<1>14. ASSUME Cancel \/ ReachedLimit \/ DeregisterRecvr
       PROVE  BatchMove(i) /\ RemainingMove(i)
  <2>1. got' = got /\ (CancelStream \/ queue' = queue)
    BY <1>14 DEF Cancel, ReachedLimit, DeregisterRecvr, consuming
  <2> QED
    BY <1>2, <1>7, <2>1
<1> QED
  BY <1>3, <1>4, <1>5, <1>6, <1>8, <1>9, <1>10, <1>11, <1>12, <1>13, <1>14
     DEF Next

LEMMA OverStep ==
    ASSUME TypeOK, [Next]_vars
    PROVE  OverMove
<1>1. CASE GetBatch
  <2>0. want \in Queues /\ queue[want] \in SenderQueue /\ Arrived(want) /\ sending' = sending
    BY <1>1 DEF TypeOK, GetBatch
  <2>1. CASE over' = over
    BY <2>1 DEF OverMove
  <2>2. CASE /\ queue[want].ok /\ ~queue[want].cancelled /\ queue[want].batches = <<>>
             /\ over' = over \cup {want} /\ got' = got
    BY <2>0, <2>2 DEF OverMove, Arrived
  <2> QED
    BY <1>1, <2>1, <2>2, Zenon DEF GetBatch
<1>2. ASSUME NEW s \in Senders,
             \/ TransmitData(s) \/ FlushFinal(s) \/ HandleFailedRPC(s) \/ TransmitDataFails(s) \/ CancelSender(s)
             \/ AddData(s) \/ CloseSender(s) \/ \E i \in Queues : FinishAdding(i, s)
      PROVE  OverMove
  <2>1. over' = over
    BY <1>2 DEF TransmitData, FlushFinal, HandleFailedRPC, TransmitDataFails, CancelSender, AddData, CloseSender, FinishAdding, consuming
  <2> QED
    BY <2>1 DEF OverMove
<1>3. ASSUME \/ \E i \in Queues : ProcessDeferredRpc(i) \/ StartGetBatch(i)
             \/ CreateRecvr \/ TakeOverEarlySender \/ TakeOverEos \/ Prepared \/ PrepareFails
             \/ TimeOutEarlySenders \/ ForgetClosedStream \/ Cancel \/ ReachedLimit \/ StopReading
             \/ DeregisterRecvr \/ CloseQueues \/ UNCHANGED vars
      PROVE  OverMove
  <2>1. over' = over
    BY <1>3 DEF ProcessDeferredRpc, StartGetBatch, CreateRecvr, TakeOverEarlySender, TakeOverEos, Prepared,
                PrepareFails, TimeOutEarlySenders, ForgetClosedStream, Cancel, ReachedLimit, StopReading,
                DeregisterRecvr, CloseQueues, vars, consuming
  <2> QED
    BY <2>1 DEF OverMove
<1> QED
  BY <1>1, <1>2, <1>3 DEF Next

-----------------------------------------------------------------------------
(* The invariant, part by part.                                            *)

LEMMA EndingStep ==
    ASSUME TypeOK, HeldInv, StageInv, OrderInv, EndingInv, [Next]_vars
    PROVE  EndingInv'
<1> SUFFICES ASSUME NEW s \in Senders, Ending(s)' PROVE snd'[s].at # "sending"
  BY DEF EndingInv
<1>1. SenderMove(s)
  BY SenderStep
<1>2. rpc'[s] \in {"eos", "held"}
  BY DEF Ending
<1>3. Ending(s) => snd[s].at # "sending"
  BY DEF EndingInv
<1> QED
  BY <1>1, <1>2, <1>3 DEF SenderMove

\* The reader's steps.
LEMMA ConsumerStep ==
    ASSUME TypeOK, StageInv, HeldInv, [Next]_vars
    PROVE  /\ cons' \in {"prepare", "never"} => reg' = "none"
           /\ cons' \in {"taking", "reading", "done"} => reg' = "registered"
           /\ cons' \in {"closing", "closed"} => reg' \in {"closed", "expired"}
           /\ cons' # "taking" => taken' = NoSenders
           /\ want' # -1 => cons' = "reading"
           /\ reg' = "registered" => early' = NoSenders
           /\ cons' = "closed" => \/ cons = "closed"
                                  \/ cons = "closing" /\ CloseQueues
           /\ cons = "closed" => cons' = "closed"
           /\ cons' = "closing" => \/ cons = "closing"
                                   \/ CancelStream
           /\ cons' \in {"prepare", "taking", "reading", "done", "closing", "closed", "never"}
           /\ reg' \in {"none", "registered", "closed", "expired"}
<1> USE DEF StageInv, TypeOK
<1>1. ASSUME NEW s \in Senders,
             TransmitData(s) \/ FlushFinal(s) \/ HandleFailedRPC(s) \/ TransmitDataFails(s) \/ CancelSender(s)
      PROVE  UNCHANGED <<cons, want, reg, taken, early>>
  BY <1>1 DEF TransmitData, FlushFinal, HandleFailedRPC, TransmitDataFails, CancelSender, receiving, consuming
<1>2. ASSUME NEW s \in Senders, AddData(s) \/ CloseSender(s)
      PROVE  UNCHANGED <<cons, want, reg, taken>> /\ (early' = early \/ reg # "registered")
  BY <1>2 DEF AddData, CloseSender, Unknown, consuming
<1>3. ASSUME NEW i \in Queues, ProcessDeferredRpc(i) \/ (\E s \in Senders : FinishAdding(i, s))
      PROVE  UNCHANGED <<cons, want, reg, taken, early>>
  BY <1>3 DEF ProcessDeferredRpc, FinishAdding, consuming
<1>4. ASSUME NEW i \in Queues, StartGetBatch(i)
      PROVE  UNCHANGED <<cons, reg, taken, early>> /\ cons = "reading"
  BY <1>4 DEF StartGetBatch, receiving
<1>5. ASSUME TakeOverEarlySender \/ TakeOverEos
      PROVE  UNCHANGED <<cons, want, reg, early>> /\ cons = "taking"
  BY <1>5 DEF TakeOverEarlySender, TakeOverEos, consuming
<1>6. CASE TimeOutEarlySenders
  BY <1>6 DEF TimeOutEarlySenders, consuming
<1>7. CASE ForgetClosedStream
  BY <1>7 DEF ForgetClosedStream, consuming
<1>8. CASE Cancel
  BY <1>8 DEF Cancel, consuming
<1>9. CASE GetBatch
  BY <1>9 DEF GetBatch
<1>10. CASE ReachedLimit \/ StopReading
  BY <1>10 DEF ReachedLimit, StopReading, receiving
<1>11. CASE DeregisterRecvr
  BY <1>11 DEF DeregisterRecvr
<1>12. CASE CloseQueues
  <2>1. UNCHANGED <<reg, early, taken, want>> /\ cons = "closing" /\ cons' = "closed"
    BY <1>12 DEF CloseQueues
  <2> QED
    BY <1>12, <2>1
<1>13. CASE CreateRecvr \/ Prepared \/ PrepareFails
  BY <1>13 DEF CreateRecvr, Prepared, PrepareFails, receiving, NoSenders
<1>14. CASE UNCHANGED vars
  BY <1>14 DEF vars, receiving, consuming
<1> QED
  BY <1>1, <1>2, <1>3, <1>4, <1>5, <1>6, <1>7, <1>8, <1>9, <1>10, <1>11, <1>12, <1>13, <1>14 DEF Next

\* Every queue stays well-formed.
LEMMA QueuesStep ==
    ASSUME TypeOK, HeldInv, StageInv, OrderInv, WillWakeUp, [Next]_vars
    PROVE  \A i \in Queues :
              /\ queue'[i] \in SenderQueue /\ Awake(queue'[i])
              /\ queue'[i].cancelled => queue'[i].deferred = <<>>
              /\ queue[i].cancelled => queue'[i].cancelled
<1> SUFFICES ASSUME NEW i \in Queues
             PROVE  /\ queue'[i] \in SenderQueue /\ Awake(queue'[i])
                    /\ queue'[i].cancelled => queue'[i].deferred = <<>>
                    /\ queue[i].cancelled => queue'[i].cancelled
  OBVIOUS
<1>1. QueueMove(queue[i], queue'[i])
  BY QueueStep DEF HeldInv
<1>2. queue[i] \in SenderQueue /\ Awake(queue[i]) /\ (queue[i].cancelled => queue[i].deferred = <<>>)
  BY DEF TypeOK, StageInv, WillWakeUp, Awake
<1>3. IsInjective(queue[i].deferred)
  BY DEF HeldInv, HeldOnce
<1>4. IsInjective(queue'[i].deferred)
  <2>1. HeldInv' /\ Queues' = Queues
    BY HeldStep, MergingFixed
  <2> QED
    BY <2>1 DEF HeldInv, HeldOnce
<1> QED
  BY <1>1, <1>2, <1>3, <1>4, MoveKeeps

LEMMA WakeStep ==
    ASSUME TypeOK, HeldInv, StageInv, OrderInv, WillWakeUp, [Next]_vars
    PROVE  WillWakeUp'
<1>1. Queues' = Queues /\ \A i \in Queues : Awake(queue'[i])
  BY MergingFixed, QueuesStep
<1> QED
  BY <1>1 DEF WillWakeUp, Awake

LEMMA StageStep ==
    ASSUME TypeOK, HeldInv, StageInv, OrderInv, WillWakeUp, [Next]_vars
    PROVE  StageInv'
<1>1. Queues' = Queues /\ \A s \in Senders : QueueOf(s)' = QueueOf(s)
  BY MergingFixed DEF QueueOf
<1>2. ASSUME NEW i \in Queues
      PROVE  /\ queue'[i].cancelled => queue'[i].deferred = <<>>
             /\ cons' \in {"closing", "closed"} => queue'[i].cancelled
             /\ cons' = "closed" => queue'[i].batches = <<>> /\ queue'[i].adding = {}
  <2>1. queue'[i].cancelled => queue'[i].deferred = <<>>
    BY QueuesStep
  <2>2. ASSUME cons' \in {"closing", "closed"} PROVE queue'[i].cancelled
    <3>1. CASE cons \in {"closing", "closed"}
      BY <3>1, QueuesStep DEF StageInv
    <3>2. CASE CancelStream
      BY <3>2 DEF CancelStream, TypeOK, SenderQueue
    <3> QED
      BY <2>2, <3>1, <3>2, ConsumerStep
  <2>3. ASSUME cons' = "closed" PROVE queue'[i].batches = <<>> /\ queue'[i].adding = {}
    <3>1. CASE cons = "closed"
      <4>1. /\ queue[i] \in SenderQueue /\ queue[i].batches = <<>> /\ queue[i].adding = {}
            /\ queue[i].cancelled /\ queue[i].deferred = <<>> /\ reg \in {"closed", "expired"}
        BY <3>1 DEF StageInv, TypeOK
      <4>2. queue'[i].batches = <<>>
        <5>1. BatchMove(i)
          BY BatchStep
        <5> QED
          BY <4>1, <5>1 DEF BatchMove
      <4>3. queue'[i].adding = {}
        <5>1. QueueMove(queue[i], queue'[i])
          BY QueueStep DEF HeldInv
        <5> QED
          BY <4>1, <5>1 DEF QueueMove, SenderQueue
      <4> QED
        BY <4>2, <4>3
    <3>2. CASE CloseQueues
      BY <3>2 DEF CloseQueues, TypeOK, SenderQueue
    <3> QED
      BY <2>3, <3>1, <3>2, ConsumerStep
  <2> QED
    BY <2>1, <2>2, <2>3
<1>3. ASSUME NEW s \in Senders, snd'[s].closed PROVE queue'[QueueOf(s)].cancelled
  <2>1. SenderMove(s) /\ QueueOf(s) \in Queues
    BY SenderStep, QueueFacts
  <2>2. snd[s].closed => queue'[QueueOf(s)].cancelled
    BY <2>1, QueuesStep DEF StageInv
  <2> QED
    BY <1>3, <2>1, <2>2 DEF SenderMove
<1> QED
  BY <1>1, <1>2, <1>3, ConsumerStep DEF StageInv, NoSenders

-----------------------------------------------------------------------------
(* num_buffered_bytes_.                                                    *)

\* What a step may do to the batches that count.
BufferMove ==
    \/ /\ buffered' = buffered
       /\ \A i \in Queues : queue'[i].batches = queue[i].batches /\ queue'[i].adding = queue[i].adding
    \/ buffered' = buffered /\ cons' = "closed"
    \/ \E i \in Queues, s \in Senders :
          /\ \A j \in Queues \ {i} : queue'[j] = queue[j]
          /\ \/ /\ CanEnqueue(i) /\ s \notin queue[i].adding
                /\ buffered' = buffered + 1
                /\ queue'[i].batches = queue[i].batches /\ queue'[i].adding = queue[i].adding \cup {s}
             \/ /\ s \in queue[i].adding /\ buffered' = buffered
                /\ queue'[i].batches = Append(queue[i].batches, <<s, snd[s].n>>)
                /\ queue'[i].adding = queue[i].adding \ {s}
             \/ /\ s \in queue[i].adding /\ buffered' = buffered - 1
                /\ queue'[i].batches = queue[i].batches /\ queue'[i].adding = queue[i].adding \ {s}
             \/ /\ queue[i].batches # <<>> /\ buffered' = buffered - 1
                /\ queue'[i].batches = Tail(queue[i].batches) /\ queue'[i].adding = queue[i].adding

LEMMA BufferStep ==
    ASSUME TypeOK, HeldInv, StageInv, OrderInv, [Next]_vars
    PROVE  BufferMove
<1>0. queue \in [Queues -> SenderQueue]
  BY DEF TypeOK
<1>1. ASSUME \A i \in Queues : queue'[i].batches = queue[i].batches /\ queue'[i].adding = queue[i].adding,
             buffered' = buffered
      PROVE  BufferMove
  BY <1>1 DEF BufferMove
<1>2. CASE queue' = queue /\ buffered' = buffered
  BY <1>1, <1>2
<1>3. ASSUME NEW s \in Senders, AddData(s) PROVE BufferMove
  <2> DEFINE j == QueueOf(s)
  <2>0. rpc[s] = "data" /\ j \in Queues
    BY <1>3, QueueFacts DEF AddData
  <2>1. CASE AddBatch(j, s)
    <3>1. CASE buffered' = buffered /\ queue' = [queue EXCEPT ![j].ok = FALSE]
      BY <1>0, <1>1, <2>0, <3>1 DEF SenderQueue
    <3>2. CASE buffered' = buffered /\ queue' = [queue EXCEPT ![j].deferred = Append(@, s)]
      BY <1>0, <1>1, <2>0, <3>2 DEF SenderQueue
    <3>3. CASE CanEnqueue(j) /\ StartAdding(j, s)
      <4>1. s \notin queue[j].adding
        <5>1. s \notin InQueue
          BY <2>0, HeldParts DEF HeldInv
        <5> QED
          BY <2>0, <5>1 DEF InQueue
      <4>2. queue'[j].batches = queue[j].batches /\ queue'[j].adding = queue[j].adding \cup {s}
        BY <1>0, <2>0, <3>3 DEF StartAdding, SenderQueue
      <4>3. (\A k \in Queues \ {j} : queue'[k] = queue[k]) /\ buffered' = buffered + 1
        BY <1>0, <2>0, <3>3 DEF StartAdding
      <4> QED
        BY <2>0, <3>3, <4>1, <4>2, <4>3 DEF BufferMove
    <3> QED
      BY <1>2, <2>1, <3>1, <3>2, <3>3, Zenon DEF AddBatch
  <2> QED
    BY <1>2, <1>3, <2>1, Zenon DEF AddData
<1>4. ASSUME NEW s \in Senders, RemoveSender(s), buffered' = buffered PROVE BufferMove
  <2>1. \A i \in Queues : queue'[i].batches = queue[i].batches /\ queue'[i].adding = queue[i].adding
    BY <1>0, <1>4, QueueFacts DEF RemoveSender, SenderQueue
  <2> QED
    BY <1>1, <1>4, <2>1
<1>5. ASSUME NEW s \in Senders, CloseSender(s) PROVE BufferMove
  BY <1>2, <1>4, <1>5 DEF CloseSender
<1>6. ASSUME NEW s \in Senders, NEW j \in Queues, FinishAdding(j, s) PROVE BufferMove
  <2>0. s \in queue[j].adding
    BY <1>6 DEF FinishAdding
  <2>1. CASE /\ queue' = [queue EXCEPT ![j].adding = @ \ {s}, ![j].batches = Append(@, <<s, snd[s].n>>)]
             /\ buffered' = buffered
    <3>1. queue'[j] = [queue[j] EXCEPT !.adding = @ \ {s}, !.batches = Append(@, <<s, snd[s].n>>)]
      BY <1>0, <2>1
    <3>2. queue'[j].batches = Append(queue[j].batches, <<s, snd[s].n>>) /\ queue'[j].adding = queue[j].adding \ {s}
      BY <1>0, <3>1 DEF SenderQueue
    <3>3. \A k \in Queues \ {j} : queue'[k] = queue[k]
      BY <1>0, <2>1
    <3> QED
      BY <2>0, <2>1, <3>2, <3>3 DEF BufferMove
  <2>2. CASE /\ queue' = [queue EXCEPT ![j].adding = @ \ {s}, ![j].ok = FALSE]
             /\ buffered' = buffered - 1
    <3>1. queue'[j] = [queue[j] EXCEPT !.adding = @ \ {s}, !.ok = FALSE]
      BY <1>0, <2>2
    <3>2. queue'[j].batches = queue[j].batches /\ queue'[j].adding = queue[j].adding \ {s}
      BY <1>0, <3>1 DEF SenderQueue
    <3>3. \A k \in Queues \ {j} : queue'[k] = queue[k]
      BY <1>0, <2>2
    <3> QED
      BY <2>0, <2>2, <3>2, <3>3 DEF BufferMove
  <2> QED
    BY <1>6, <2>1, <2>2, Zenon DEF FinishAdding
<1>7. ASSUME NEW j \in Queues, ProcessDeferredRpc(j) PROVE BufferMove
  <2> DEFINE s == Head(queue[j].deferred)
  <2>1. CASE queue' = [queue EXCEPT ![j].tasks = @ - 1] /\ buffered' = buffered
    BY <1>0, <1>1, <2>1 DEF SenderQueue
  <2>2. CASE /\ queue[j].deferred # <<>> /\ CanEnqueue(j) /\ buffered' = buffered + 1
             /\ queue' = [[queue EXCEPT ![j].tasks = @ - 1] EXCEPT ![j].deferred = Tail(@), ![j].adding = @ \cup {s}]
    <3>1. queue'[j] = [queue[j] EXCEPT !.tasks = @ - 1, !.deferred = Tail(@), !.adding = @ \cup {s}]
      BY <1>0, <2>2
    <3>2. queue'[j].batches = queue[j].batches /\ queue'[j].adding = queue[j].adding \cup {s}
      BY <1>0, <3>1 DEF SenderQueue
    <3>3. \A k \in Queues \ {j} : queue'[k] = queue[k]
      BY <1>0, <2>2
    <3>4. s \in Senders /\ s \notin queue[j].adding
      <4>1. queue[j].deferred \in Seq(Senders)
        BY <1>0 DEF SenderQueue
      <4>2. QueueSound(queue[j], j)
        BY HeldParts DEF HeldInv
      <4> QED
        BY <2>2, <4>1, <4>2, TailSet DEF QueueSound
    <3> QED
      BY <2>2, <3>2, <3>3, <3>4 DEF BufferMove
  <2>3. CASE /\ queue' = [[queue EXCEPT ![j].tasks = @ - 1] EXCEPT ![j].deferred = Tail(@), ![j].ok = FALSE]
             /\ buffered' = buffered
    <3>1. queue'[j] = [queue[j] EXCEPT !.tasks = @ - 1, !.deferred = Tail(@), !.ok = FALSE]
      BY <1>0, <2>3
    <3>2. queue'[j].batches = queue[j].batches /\ queue'[j].adding = queue[j].adding
      BY <1>0, <3>1 DEF SenderQueue
    <3>3. \A k \in Queues \ {j} : queue'[k] = queue[k]
      BY <1>0, <2>3
    <3> QED
      BY <1>1, <2>3, <3>2, <3>3
  <2> QED
    BY <1>7, <2>1, <2>2, <2>3, Zenon DEF ProcessDeferredRpc
<1>8. ASSUME CancelStream, buffered' = buffered PROVE BufferMove
  <2>1. \A i \in Queues : queue'[i].batches = queue[i].batches /\ queue'[i].adding = queue[i].adding
    BY <1>0, <1>8 DEF CancelStream, SenderQueue
  <2> QED
    BY <1>1, <1>8, <2>1
<1>9. CASE TakeOverEarlySender
  <2> DEFINE s == Head(taken.data) j == QueueOf(s)
  <2>0. buffered' = buffered /\ j \in Queues
    <3>1. buffered' = buffered /\ taken.data # <<>>
      BY <1>9 DEF TakeOverEarlySender
    <3> QED
      BY <3>1, TakenFacts
  <2>2. CASE queue' = [queue EXCEPT ![j].deferred = Append(@, s), ![j].tasks = @ + 1]
    <3>1. queue'[j] = [queue[j] EXCEPT !.deferred = Append(@, s), !.tasks = @ + 1]
      BY <1>0, <2>0, <2>2
    <3>2. queue'[j].batches = queue[j].batches /\ queue'[j].adding = queue[j].adding
      BY <1>0, <2>0, <3>1 DEF SenderQueue
    <3>3. \A k \in Queues \ {j} : queue'[k] = queue[k]
      BY <1>0, <2>0, <2>2
    <3> QED
      BY <1>1, <2>0, <3>2, <3>3
  <2> QED
    BY <1>2, <1>9, <2>0, <2>2, Zenon DEF TakeOverEarlySender
<1>10. CASE TakeOverEos
  <2>1. Head(taken.eos) \in Senders /\ RemoveSender(Head(taken.eos)) /\ buffered' = buffered
    <3>1. RemoveSender(Head(taken.eos)) /\ buffered' = buffered /\ taken.eos # <<>>
      BY <1>10 DEF TakeOverEos
    <3> QED
      BY <3>1, TakenFacts
  <2> QED
    BY <1>4, <2>1
<1>11. CASE GetBatch
  <2> DEFINE j == want
  <2>0. j \in Queues
    BY <1>11 DEF TypeOK, GetBatch
  <2>1. CASE /\ queue[j].batches # <<>> /\ buffered' = buffered - 1
             /\ queue' = [queue EXCEPT ![j].batches = Tail(@), ![j].tasks = @ + TasksFor(j)]
    <3>1. queue'[j] = [queue[j] EXCEPT !.batches = Tail(@), !.tasks = @ + TasksFor(j)]
      BY <1>0, <2>0, <2>1
    <3>2. queue'[j].batches = Tail(queue[j].batches) /\ queue'[j].adding = queue[j].adding
      BY <1>0, <2>0, <3>1 DEF SenderQueue
    <3>3. \A k \in Queues \ {j} : queue'[k] = queue[k]
      BY <1>0, <2>0, <2>1
    <3> QED
      BY <2>0, <2>1, <3>2, <3>3, SendersFinite DEF BufferMove
  <2> QED
    BY <1>2, <1>11, <2>1, Zenon DEF GetBatch
<1>12. CASE CloseQueues
  BY <1>12 DEF CloseQueues, BufferMove
<1>13. ASSUME NEW s \in Senders, TransmitData(s) \/ FlushFinal(s) \/ HandleFailedRPC(s) \/ TransmitDataFails(s) \/ CancelSender(s)
       PROVE  BufferMove
  <2>1. queue' = queue /\ buffered' = buffered
    BY <1>13 DEF TransmitData, FlushFinal, HandleFailedRPC, TransmitDataFails, CancelSender, receiving
  <2> QED
    BY <1>2, <2>1
<1>14. ASSUME (\E j \in Queues : StartGetBatch(j)) \/ CreateRecvr \/ Prepared \/ PrepareFails
                 \/ TimeOutEarlySenders \/ ForgetClosedStream \/ StopReading \/ UNCHANGED vars
       PROVE  BufferMove
  <2>1. queue' = queue /\ buffered' = buffered
    BY <1>14 DEF StartGetBatch, CreateRecvr, Prepared, PrepareFails, TimeOutEarlySenders,
                 ForgetClosedStream, StopReading, vars, receiving
  <2> QED
    BY <1>2, <2>1
<1>15. ASSUME Cancel \/ ReachedLimit \/ DeregisterRecvr
       PROVE  BufferMove
  <2>1. buffered' = buffered /\ (CancelStream \/ queue' = queue)
    BY <1>15 DEF Cancel, ReachedLimit, DeregisterRecvr
  <2> QED
    BY <1>2, <1>8, <2>1
<1> QED
  BY <1>3, <1>5, <1>6, <1>7, <1>9, <1>10, <1>11, <1>12, <1>13, <1>14, <1>15
     DEF Next

LEMMA QueuedIff ==
    /\ \A x : x \in Queued <=> \E i \in Queues : \E k \in 1..Len(queue[i].batches) : x = <<i, k>>
    /\ \A x : x \in Adding <=> \E i \in Queues : \E s \in queue[i].adding : x = <<i, s>>
BY DEF Queued, Adding

LEMMA QueuedIffNext ==
    ASSUME Queues' = Queues
    PROVE  /\ \A x : x \in Queued' <=> \E i \in Queues : \E k \in 1..Len(queue'[i].batches) : x = <<i, k>>
           /\ \A x : x \in Adding' <=> \E i \in Queues : \E s \in queue'[i].adding : x = <<i, s>>
BY DEF Queued, Adding

LEMMA AddingFinite ==
    ASSUME TypeOK
    PROVE  IsFiniteSet(Adding)
<1>1. IsFiniteSet(Queues \X Senders)
  BY QueueFacts, SendersFinite, FS_Product
<1>2. Adding \subseteq Queues \X Senders
  BY QueuedIff DEF TypeOK, SenderQueue
<1> QED
  BY <1>1, <1>2, FS_Subset

LEMMA FilledFinite ==
    /\ IsFiniteSet(Filled) /\ Filled \subseteq Queues
    /\ Cardinality(Filled) \in Nat /\ Cardinality(Filled) <= Cardinality(Queues)
    /\ Cardinality(Queues) \in Nat
<1>1. Filled \subseteq Queues
  BY DEF Filled
<1> QED
  BY <1>1, QueueFacts, FS_Subset, FS_CardinalityType

\* The sets that one move changes.
LEMMA CountSame ==
    ASSUME Queues' = Queues,
           \A i \in Queues : queue'[i].batches = queue[i].batches /\ queue'[i].adding = queue[i].adding
    PROVE  Queued' = Queued /\ Adding' = Adding /\ Filled' = Filled
BY DEF Queued, Adding, Filled

LEMMA BatchesSame ==
    ASSUME Queues' = Queues, \A i \in Queues : queue'[i].batches = queue[i].batches
    PROVE  Queued' = Queued
BY DEF Queued

LEMMA AddingSame ==
    ASSUME Queues' = Queues, \A i \in Queues : queue'[i].adding = queue[i].adding
    PROVE  Adding' = Adding
BY DEF Adding

LEMMA AddingAdd ==
    ASSUME Queues' = Queues, NEW i \in Queues, NEW s, s \notin queue[i].adding,
           \A j \in Queues \ {i} : queue'[j] = queue[j],
           queue'[i].adding = queue[i].adding \cup {s}
    PROVE  Adding' = Adding \cup {<<i, s>>} /\ <<i, s>> \notin Adding
<1>1. <<i, s>> \notin Adding
  BY QueuedIff
<1>2. ASSUME NEW x PROVE x \in Adding' <=> x \in Adding \/ x = <<i, s>>
  <2>1. x \in Adding' <=> \E j \in Queues : \E t \in queue'[j].adding : x = <<j, t>>
    BY QueuedIffNext
  <2>2. x \in Adding <=> \E j \in Queues : \E t \in queue[j].adding : x = <<j, t>>
    BY QueuedIff
  <2> QED
    BY <2>1, <2>2
<1> QED
  BY <1>1, <1>2

LEMMA AddingRemove ==
    ASSUME Queues' = Queues, NEW i \in Queues, NEW s \in queue[i].adding,
           \A j \in Queues \ {i} : queue'[j] = queue[j],
           queue'[i].adding = queue[i].adding \ {s}
    PROVE  Adding' = Adding \ {<<i, s>>} /\ <<i, s>> \in Adding
<1>1. <<i, s>> \in Adding
  BY QueuedIff
<1>2. ASSUME NEW x PROVE x \in Adding' <=> x \in Adding /\ x # <<i, s>>
  <2>1. x \in Adding' <=> \E j \in Queues : \E t \in queue'[j].adding : x = <<j, t>>
    BY QueuedIffNext
  <2>2. x \in Adding <=> \E j \in Queues : \E t \in queue[j].adding : x = <<j, t>>
    BY QueuedIff
  <2> QED
    BY <2>1, <2>2
<1> QED
  BY <1>1, <1>2

LEMMA QueuedAdd ==
    ASSUME TypeOK, Queues' = Queues, NEW i \in Queues, NEW b,
           \A j \in Queues \ {i} : queue'[j] = queue[j],
           Len(queue'[i].batches) = Len(queue[i].batches) + 1
    PROVE  \E x : Queued' = Queued \cup {x} /\ x \notin Queued
<1> DEFINE n == Len(queue[i].batches) + 1
<1>0. n \in Nat /\ Len(queue'[i].batches) = n
  BY DEF TypeOK, SenderQueue
<1>1. <<i, n>> \notin Queued
  <2> SUFFICES ASSUME n \in 1..Len(queue[i].batches) PROVE FALSE
    BY QueuedIff
  <2> QED
    BY DEF TypeOK, SenderQueue
<1>2. ASSUME NEW x PROVE x \in Queued' <=> x \in Queued \/ x = <<i, n>>
  <2>1. x \in Queued' <=> \E j \in Queues : \E k \in 1..Len(queue'[j].batches) : x = <<j, k>>
    BY QueuedIffNext
  <2>2. x \in Queued <=> \E j \in Queues : \E k \in 1..Len(queue[j].batches) : x = <<j, k>>
    BY QueuedIff
  <2>3. Len(queue[i].batches) \in Nat
    BY DEF TypeOK, SenderQueue
  <2>4. \A k : k \in 1..Len(queue'[i].batches) <=> k \in 1..Len(queue[i].batches) \/ k = n
    BY <1>0, <2>3
  <2> HIDE DEF n
  <2> QED
    BY <2>1, <2>2, <2>4
<1> QED
  BY <1>1, <1>2

LEMMA QueuedRemove ==
    ASSUME TypeOK, Queues' = Queues, NEW i \in Queues,
           \A j \in Queues \ {i} : queue'[j] = queue[j],
           Len(queue[i].batches) > 0, Len(queue'[i].batches) = Len(queue[i].batches) - 1
    PROVE  \E x : Queued' = Queued \ {x} /\ x \in Queued
<1> DEFINE n == Len(queue[i].batches)
<1>0. n \in Nat /\ n > 0 /\ Len(queue'[i].batches) = n - 1
  BY DEF TypeOK, SenderQueue
<1>1. <<i, n>> \in Queued
  <2>1. n \in 1..Len(queue[i].batches)
    BY <1>0
  <2> QED
    BY <2>1, QueuedIff
<1>2. ASSUME NEW x PROVE x \in Queued' <=> x \in Queued /\ x # <<i, n>>
  <2>1. x \in Queued' <=> \E j \in Queues : \E k \in 1..Len(queue'[j].batches) : x = <<j, k>>
    BY QueuedIffNext
  <2>2. x \in Queued <=> \E j \in Queues : \E k \in 1..Len(queue[j].batches) : x = <<j, k>>
    BY QueuedIff
  <2>3. \A k : k \in 1..Len(queue'[i].batches) <=> k \in 1..Len(queue[i].batches) /\ k # n
    BY <1>0
  <2> HIDE DEF n
  <2> QED
    BY <2>1, <2>2, <2>3
<1> QED
  BY <1>1, <1>2

\* WithinLimit and what it rests on.
LEMMA LimitStep ==
    ASSUME TypeOK, HeldInv, StageInv, OrderInv, WillWakeUp, LimitInv, WithinLimit, [Next]_vars
    PROVE  LimitInv' /\ WithinLimit' /\ buffered' \in Nat
<1> DEFINE L == IF Limit = 0 THEN 1 ELSE Limit
<1>0. /\ L \in Nat /\ L >= 1 /\ Limit <= L /\ buffered \in Nat
      /\ queue \in [Queues -> SenderQueue] /\ Queues' = Queues /\ merging' = merging
      /\ BufferMove
  BY SenderFacts, MergingFixed, BufferStep DEF TypeOK
<1>f. /\ IsFiniteSet(Filled) /\ Filled \subseteq Queues /\ Cardinality(Filled) \in Nat
      /\ IsFiniteSet(Queues) /\ Cardinality(Filled) <= Cardinality(Queues)
      /\ Cardinality(Queues) \in Nat
  BY FilledFinite, QueueFacts
<1>g. Filled' \subseteq Queues /\ IsFiniteSet(Filled') /\ Cardinality(Filled') \in Nat
      /\ Cardinality(Filled') <= Cardinality(Queues)
  <2>1. Filled' \subseteq Queues
    BY <1>0 DEF Filled
  <2> QED
    BY <1>f, <2>1, FS_Subset, FS_CardinalityType
<1> HIDE DEF L
<1>s. ASSUME cons' # "closed",
             IsFiniteSet(Queued'), buffered' \in Nat,
             buffered' = Cardinality(Queued') + Cardinality(Adding'),
             buffered' <= L - 1 + Cardinality(Filled')
      PROVE  LimitInv' /\ WithinLimit' /\ buffered' \in Nat
  <2>1. buffered' <= L + Cardinality(Queues') - 1
    BY <1>0, <1>s, <1>f, <1>g
  <2> QED
    BY <1>s, <2>1 DEF LimitInv, WithinLimit, L
<1>1. CASE cons' = "closed" /\ buffered' = buffered
  BY <1>0, <1>1 DEF LimitInv, WithinLimit
<1>2. CASE cons' = "closed" /\ buffered' # buffered
  <2>1. cons = "closed" \/ CloseQueues
    BY <1>2, ConsumerStep
  <2>2. cons = "closed"
    BY <1>2, <2>1 DEF CloseQueues
  <2>3. \A i \in Queues : queue[i].batches = <<>> /\ queue[i].adding = {} /\ queue[i].cancelled /\ queue[i].deferred = <<>>
    BY <2>2 DEF StageInv
  <2>4. PICK i \in Queues, s \in Senders : queue'[i].adding = queue[i].adding \cup {s}
    BY <1>0, <1>2, <2>3 DEF BufferMove
  <2>5. queue'[i].adding = {}
    <3>1. StageInv'
      BY StageStep
    <3> QED
      BY <1>0, <1>2, <3>1 DEF StageInv
  <2> QED
    BY <2>4, <2>5
<1>3. CASE cons' # "closed"
  <2>0. cons # "closed"
    BY <1>3, ConsumerStep
  <2>a. /\ IsFiniteSet(Queued) /\ IsFiniteSet(Adding) /\ Cardinality(Queued) \in Nat /\ Cardinality(Adding) \in Nat
        /\ buffered = Cardinality(Queued) + Cardinality(Adding)
        /\ buffered <= L - 1 + Cardinality(Filled)
    BY <2>0, AddingFinite, FS_CardinalityType DEF LimitInv, WithinLimit, L
  <2>1. CASE /\ buffered' = buffered
             /\ \A i \in Queues : queue'[i].batches = queue[i].batches /\ queue'[i].adding = queue[i].adding
    <3>1. Queued' = Queued /\ Adding' = Adding /\ Filled' = Filled
      BY <1>0, <2>1, CountSame
    <3> QED
      BY <1>0, <1>3, <1>s, <2>1, <2>a, <3>1
  <2>2. ASSUME NEW i \in Queues, NEW s \in Senders,
               \A j \in Queues \ {i} : queue'[j] = queue[j],
               CanEnqueue(i), s \notin queue[i].adding, buffered' = buffered + 1,
               queue'[i].batches = queue[i].batches, queue'[i].adding = queue[i].adding \cup {s}
        PROVE  LimitInv' /\ WithinLimit' /\ buffered' \in Nat
    <3>1. Queued' = Queued
      BY <1>0, <2>2, BatchesSame
    <3>2. Adding' = Adding \cup {<<i, s>>} /\ <<i, s>> \notin Adding
      BY <1>0, <2>2, AddingAdd
    <3>3. Cardinality(Adding') = Cardinality(Adding) + 1
      BY <2>a, <3>2, FS_AddElement
    <3>4. Filled' = Filled \cup {i}
      BY <1>0, <2>2 DEF Filled
    <3>5. buffered' <= L - 1 + Cardinality(Filled')
      <4>1. CASE i \in Filled
        <5>1. buffered + 1 <= Limit
          BY <2>2, <4>1 DEF Filled, CanEnqueue
        <5>2. Cardinality(Filled) >= 1
          BY <1>f, <4>1, FS_EmptySet
        <5>3. Filled' = Filled
          BY <3>4, <4>1
        <5> QED
          BY <1>0, <1>f, <2>2, <5>1, <5>2, <5>3, SenderFacts
      <4>2. CASE i \notin Filled
        <5>1. Cardinality(Filled') = Cardinality(Filled) + 1
          BY <1>f, <3>4, <4>2, FS_AddElement
        <5> QED
          BY <1>0, <1>f, <2>2, <2>a, <5>1
      <4> QED
        BY <4>1, <4>2
    <3> QED
      BY <1>0, <1>3, <1>s, <2>2, <2>a, <3>1, <3>3, <3>5
  <2>3. ASSUME NEW i \in Queues, NEW s \in Senders,
               \A j \in Queues \ {i} : queue'[j] = queue[j],
               s \in queue[i].adding, buffered' = buffered,
               queue'[i].batches = Append(queue[i].batches, <<s, snd[s].n>>),
               queue'[i].adding = queue[i].adding \ {s}
        PROVE  LimitInv' /\ WithinLimit' /\ buffered' \in Nat
    <3>0. queue[i].batches \in Seq(Senders \X (1..MaxBatches)) /\ <<s, snd[s].n>> \in Senders \X (1..MaxBatches)
      BY <1>0, <2>3, AddingFacts DEF HeldInv, SenderQueue
    <3>1. Len(queue'[i].batches) = Len(queue[i].batches) + 1 /\ Len(queue[i].batches) \in Nat
      BY <2>3, <3>0, AppendSet
    <3>2. PICK x : Queued' = Queued \cup {x} /\ x \notin Queued
      BY <1>0, <2>3, <3>1, QueuedAdd
    <3>3. Cardinality(Queued') = Cardinality(Queued) + 1 /\ IsFiniteSet(Queued')
      BY <2>a, <3>2, FS_AddElement
    <3>4. Adding' = Adding \ {<<i, s>>} /\ <<i, s>> \in Adding
      BY <1>0, <2>3, AddingRemove
    <3>5. Cardinality(Adding') = Cardinality(Adding) - 1
      BY <2>a, <3>4, FS_RemoveElement
    <3>6. Filled' = Filled
      <4>0. queue'[i].batches # <<>>
        BY <3>1
      <4>1. i \in Filled /\ i \in Filled'
        BY <1>0, <2>3, <4>0 DEF Filled
      <4>2. \A j \in Queues \ {i} : j \in Filled' <=> j \in Filled
        BY <1>0, <2>3 DEF Filled
      <4> QED
        <5>1. \A j \in Queues : j \in Filled' <=> j \in Filled
          BY <4>1, <4>2
        <5> QED
          BY <1>f, <1>g, <5>1
    <3> QED
      BY <1>0, <1>3, <1>s, <2>3, <2>a, <3>3, <3>5, <3>6
  <2>b. ASSUME NEW i \in Queues, \A j \in Queues \ {i} : queue'[j] = queue[j],
               queue[i].batches # <<>> \/ queue[i].adding # {}
        PROVE  Cardinality(Filled) <= Cardinality(Filled') + 1
    <3>1. Filled \ {i} \subseteq Filled'
      BY <1>0, <2>b DEF Filled
    <3>2. i \in Filled
      BY <2>b DEF Filled
    <3>3. Cardinality(Filled \ {i}) = Cardinality(Filled) - 1
      BY <1>f, <3>2, FS_RemoveElement
    <3>4. Cardinality(Filled \ {i}) <= Cardinality(Filled')
      BY <1>g, <3>1, FS_Subset
    <3> QED
      BY <1>f, <1>g, <3>3, <3>4
  <2>4. ASSUME NEW i \in Queues, NEW s \in Senders,
               \A j \in Queues \ {i} : queue'[j] = queue[j],
               s \in queue[i].adding, buffered' = buffered - 1,
               queue'[i].batches = queue[i].batches, queue'[i].adding = queue[i].adding \ {s}
        PROVE  LimitInv' /\ WithinLimit' /\ buffered' \in Nat
    <3>1. Queued' = Queued
      BY <1>0, <2>4, BatchesSame
    <3>2. Adding' = Adding \ {<<i, s>>} /\ <<i, s>> \in Adding
      BY <1>0, <2>4, AddingRemove
    <3>3. Cardinality(Adding') = Cardinality(Adding) - 1 /\ Cardinality(Adding') \in Nat
      BY <2>a, <3>2, FS_RemoveElement, FS_CardinalityType
    <3>4. Cardinality(Filled) <= Cardinality(Filled') + 1
      BY <2>4, <2>b
    <3> QED
      BY <1>0, <1>3, <1>f, <1>g, <1>s, <2>4, <2>a, <3>1, <3>3, <3>4
  <2>5. ASSUME NEW i \in Queues, NEW s \in Senders,
               \A j \in Queues \ {i} : queue'[j] = queue[j],
               queue[i].batches # <<>>, buffered' = buffered - 1,
               queue'[i].batches = Tail(queue[i].batches), queue'[i].adding = queue[i].adding
        PROVE  LimitInv' /\ WithinLimit' /\ buffered' \in Nat
    <3>0. queue[i].batches \in Seq(Senders \X (1..MaxBatches))
      BY <1>0 DEF SenderQueue
    <3>1. Len(queue'[i].batches) = Len(queue[i].batches) - 1 /\ Len(queue[i].batches) > 0
      BY <2>5, <3>0, TailSet
    <3>2. PICK x : Queued' = Queued \ {x} /\ x \in Queued
      BY <1>0, <2>5, <3>1, QueuedRemove
    <3>3. Cardinality(Queued') = Cardinality(Queued) - 1 /\ IsFiniteSet(Queued') /\ Cardinality(Queued') \in Nat
      BY <2>a, <3>2, FS_RemoveElement, FS_CardinalityType
    <3>4. Adding' = Adding
      BY <1>0, <2>5, AddingSame
    <3>5. Cardinality(Filled) <= Cardinality(Filled') + 1
      BY <2>5, <2>b
    <3>6. /\ buffered' = Cardinality(Queued') + Cardinality(Adding') /\ buffered' \in Nat
          /\ buffered' <= L - 1 + Cardinality(Filled')
      <4>1. Cardinality(Adding') = Cardinality(Adding)
        BY <3>4
      <4>2. buffered' = Cardinality(Queued') + Cardinality(Adding')
        BY <2>5, <2>a, <3>3, <4>1
      <4>3. buffered' \in Nat
        BY <2>a, <3>3, <4>1, <4>2
      <4>4. buffered - 1 <= L - 1 + Cardinality(Filled')
        BY <1>0, <1>f, <1>g, <2>a, <3>5
      <4> QED
        BY <2>5, <4>2, <4>3, <4>4
    <3> QED
      BY <1>3, <1>s, <3>3, <3>6
  <2> QED
    BY <1>0, <1>3, <2>1, <2>2, <2>3, <2>4, <2>5, Zenon DEF BufferMove
<1> QED
  BY <1>1, <1>2, <1>3

-----------------------------------------------------------------------------
(* What is read, and when a queue ends.                                    *)

\* What OrderInv says of the batch at j, and of the sender s.
BatchOrder(i, j) ==
    LET s == queue[i].batches[j][1]
        k == queue[i].batches[j][2]
    IN  /\ QueueOf(s) = i
        /\ Len(got[s]) < k /\ k <= snd[s].n
        /\ InFlight(s) => k < snd[s].n
        /\ \A l \in (j + 1)..Len(queue[i].batches) :
              queue[i].batches[l][1] = s => k < queue[i].batches[l][2]

ReadOrder(s) ==
    /\ \A k \in 1..Len(got[s]) : got[s][k] = k
    /\ Len(got[s]) <= snd[s].n
    /\ InFlight(s) => Len(got[s]) < snd[s].n

LEMMA OrderParts ==
    OrderInv <=> /\ \A i \in Queues : \A j \in 1..Len(queue[i].batches) : BatchOrder(i, j)
                 /\ \A s \in Senders : ReadOrder(s)
BY DEF OrderInv, BatchOrder, ReadOrder

\* The numbers of batches only grow, by one and with the batch in flight.
LEMMA SentMove ==
    ASSUME TypeOK, HeldInv, StageInv, OrderInv, [Next]_vars, NEW s \in Senders
    PROVE  /\ snd[s].n \in Nat /\ snd'[s].n \in Nat
           /\ snd'[s].n = snd[s].n \/ snd'[s].n = snd[s].n + 1
           /\ InFlight(s)' => snd'[s].n = snd[s].n + 1 \/ (InFlight(s) /\ snd'[s].n = snd[s].n)
<1>1. SenderMove(s) /\ snd[s].n \in Nat
  BY SenderStep DEF TypeOK, Channel
<1>2. InFlight(s)' => rpc'[s] \in {"data", "held"}
  BY DEF InFlight
<1> QED
  BY <1>1, <1>2 DEF SenderMove

\* The batch that is read is the next one of its sender.
LEMMA HeadIsNext ==
    ASSUME TypeOK, HeldInv, OrderInv, CompleteInv, NEW i \in Queues, ~queue[i].cancelled,
           queue[i].batches # <<>>
    PROVE  LET b == Head(queue[i].batches)
           IN  /\ b = queue[i].batches[1] /\ b[1] \in Senders /\ QueueOf(b[1]) = i
               /\ b[2] = Len(got[b[1]]) + 1 /\ b[2] \in 1..MaxBatches
<1> DEFINE q == queue[i].batches b == Head(q) s == b[1] k == b[2]
<1>0. q \in Seq(Senders \X (1..MaxBatches)) /\ q # <<>>
  BY DEF TypeOK, SenderQueue
<1>1. /\ Len(q) \in Nat /\ 1 \in 1..Len(q) /\ b = q[1]
      /\ b \in Senders \X (1..MaxBatches)
  <2>1. Len(q) \in Nat /\ Len(q) > 0 /\ b = q[1]
    BY <1>0
  <2>2. 1 \in 1..Len(q)
    BY <2>1
  <2>3. q[1] \in Senders \X (1..MaxBatches)
    BY <1>0, <2>2
  <2> QED
    BY <2>1, <2>2, <2>3
<1>2. /\ s \in Senders /\ k \in 1..MaxBatches /\ k \in Nat /\ Len(got[s]) \in Nat /\ snd[s].n \in Nat
  BY <1>1, SenderFacts DEF TypeOK, Channel
<1>3. /\ QueueOf(s) = i /\ Len(got[s]) < k /\ k <= snd[s].n
      /\ \A l \in (1 + 1)..Len(q) : q[l][1] = s => k < q[l][2]
  <2>1. BatchOrder(i, 1)
    BY <1>1, OrderParts
  <2> QED
    BY <1>1, <2>1 DEF BatchOrder
<1>4. k = Len(got[s]) + 1
  <2> DEFINE m == Len(got[s]) + 1
  <2> SUFFICES ASSUME k # m PROVE FALSE
    OBVIOUS
  <2>0. \A x, y, z \in Nat : x < y /\ y <= z /\ y # x + 1 => x + 1 \in 1..z /\ x + 1 < z /\ x + 1 < y
    OBVIOUS
  <2>1. m \in 1..snd[s].n /\ m < snd[s].n /\ m < k
    BY <1>2, <1>3, <2>0
  <2>2. Here(s, m)
    BY <1>2, <1>3, <2>1 DEF CompleteInv
  <2>3. PICK j \in 1..Len(q) : q[j] = <<s, m>>
    <3>0. \A x \in Nat : ~(x + 1 <= x)
      OBVIOUS
    <3>1. ~(m <= Len(got[s]))
      BY <1>2, <3>0
    <3> QED
      BY <1>3, <2>2, <3>1 DEF Here
  <2>4. q[j][1] = s /\ q[j][2] = m
    BY <2>3
  <2>5. j # 1
    BY <1>1, <2>1, <2>4
  <2>6. j \in (1 + 1)..Len(q)
    BY <1>1, <2>5
  <2> QED
    BY <1>2, <1>3, <2>1, <2>4, <2>6
<1> QED
  BY <1>1, <1>2, <1>3, <1>4

LEMMA ReadStep ==
    ASSUME TypeOK, HeldInv, StageInv, OrderInv, CompleteInv, [Next]_vars, NEW s \in Senders
    PROVE  /\ ReadOrder(s)'
           /\ got'[s] = got[s] \/ (got'[s] = Append(got[s], Len(got[s]) + 1) /\ Len(got[s]) < MaxBatches)
<1> DEFINE i == QueueOf(s)
<1>0. i \in Queues /\ BatchMove(i) /\ got \in [Senders -> Seq(1..MaxBatches)] /\ Len(got[s]) \in Nat
  BY QueueFacts, BatchStep DEF TypeOK
<1>1. ReadOrder(s)
  BY OrderParts
<1>2. /\ snd[s].n \in Nat /\ snd'[s].n \in Nat
      /\ snd'[s].n = snd[s].n \/ snd'[s].n = snd[s].n + 1
      /\ InFlight(s)' => snd'[s].n = snd[s].n + 1 \/ (InFlight(s) /\ snd'[s].n = snd[s].n)
  BY SentMove
<1>3. ASSUME got'[s] = got[s] PROVE ReadOrder(s)'
  BY <1>0, <1>1, <1>2, <1>3 DEF ReadOrder
<1>4. ASSUME queue[i].batches # <<>>, ~queue[i].cancelled, UNCHANGED <<sending, early, taken>>,
             got' = [got EXCEPT ![Head(queue[i].batches)[1]] = Append(@, Head(queue[i].batches)[2])],
             Head(queue[i].batches)[1] = s
      PROVE  /\ ReadOrder(s)' /\ got'[s] = Append(got[s], Len(got[s]) + 1)
             /\ Len(got[s]) < MaxBatches
  <2> DEFINE b == Head(queue[i].batches)
  <2>1. b[1] = s /\ b = queue[i].batches[1] /\ b[2] = Len(got[s]) + 1 /\ b[2] \in 1..MaxBatches
    BY <1>0, <1>4, HeadIsNext
  <2>2. got'[s] = Append(got[s], Len(got[s]) + 1)
    BY <1>0, <1>4, <2>1
  <2>3. Len(got[s]) + 1 <= snd[s].n /\ (InFlight(s) => Len(got[s]) + 1 < snd[s].n)
    <3>1. queue[i].batches \in Seq(Senders \X (1..MaxBatches))
      BY <1>0 DEF TypeOK, SenderQueue
    <3>2. 1 \in 1..Len(queue[i].batches)
      BY <1>4, <3>1
    <3>3. BatchOrder(i, 1)
      BY <1>0, <3>2, OrderParts
    <3> QED
      BY <2>1, <3>3 DEF BatchOrder
  <2>4. snd' = snd /\ (InFlight(s)' <=> InFlight(s))
    BY <1>4 DEF sending, InFlight
  <2>5. /\ Len(got'[s]) = Len(got[s]) + 1
        /\ \A k \in 1..(Len(got[s]) + 1) : got'[s][k] = k
    <3>1. got[s] \in Seq(1..MaxBatches)
      BY <1>0
    <3>2. Len(got'[s]) = Len(got[s]) + 1
      BY <2>2, <3>1
    <3>3. ASSUME NEW k \in 1..(Len(got[s]) + 1) PROVE got'[s][k] = k
      <4>1. CASE k = Len(got[s]) + 1
        BY <2>2, <3>1, <4>1
      <4>2. CASE k # Len(got[s]) + 1
        <5>1. k \in 1..Len(got[s])
          BY <1>0, <4>2
        <5>2. got'[s][k] = got[s][k]
          BY <2>2, <3>1, <5>1
        <5> QED
          BY <1>1, <5>1, <5>2 DEF ReadOrder
      <4> QED
        BY <4>1, <4>2
    <3> QED
      BY <3>2, <3>3
  <2>6. ReadOrder(s)'
    BY <2>3, <2>4, <2>5 DEF ReadOrder
  <2>7. Len(got[s]) < MaxBatches
    BY <1>0, <2>1, SenderFacts
  <2> QED
    BY <2>2, <2>6, <2>7
<1>5. ASSUME queue[i].batches # <<>>, ~queue[i].cancelled,
             got' = [got EXCEPT ![Head(queue[i].batches)[1]] = Append(@, Head(queue[i].batches)[2])],
             Head(queue[i].batches)[1] # s
      PROVE  got'[s] = got[s]
  BY <1>0, <1>5
<1> QED
  BY <1>0, <1>3, <1>4, <1>5 DEF BatchMove

LEMMA BatchOrderStep ==
    ASSUME TypeOK, HeldInv, StageInv, OrderInv, CompleteInv, [Next]_vars,
           NEW i \in Queues, NEW j \in 1..Len(queue'[i].batches)
    PROVE  BatchOrder(i, j)'
<1> DEFINE q == queue[i].batches r == queue'[i].batches
<1>0. /\ BatchMove(i) /\ q \in Seq(Senders \X (1..MaxBatches)) /\ Len(q) \in Nat
      /\ \A s \in Senders : QueueOf(s)' = QueueOf(s)
  BY BatchStep, MergingFixed DEF TypeOK, SenderQueue, QueueOf
<1>1. \A k \in 1..Len(q) : BatchOrder(i, k) /\ q[k][1] \in Senders /\ q[k][2] \in Nat
  <2> SUFFICES ASSUME NEW k \in 1..Len(q)
               PROVE  BatchOrder(i, k) /\ q[k][1] \in Senders /\ q[k][2] \in Nat
    OBVIOUS
  <2>1. q[k] \in Senders \X (1..MaxBatches)
    BY <1>0
  <2> QED
    BY <2>1, OrderParts, SenderFacts
<1>2. \A s \in Senders :
        /\ snd[s].n \in Nat /\ snd'[s].n \in Nat /\ Len(got[s]) \in Nat
        /\ snd'[s].n = snd[s].n \/ snd'[s].n = snd[s].n + 1
        /\ InFlight(s)' => snd'[s].n = snd[s].n + 1 \/ (InFlight(s) /\ snd'[s].n = snd[s].n)
  BY SentMove DEF TypeOK
<1>3. CASE r = q /\ \A s \in Senders : QueueOf(s) = i => got'[s] = got[s]
  <2>0. PICK s \in Senders, k \in Nat : s = q[j][1] /\ k = q[j][2]
    BY <1>1, <1>3
  <2>1. BatchOrder(i, j)
    BY <1>1, <1>3
  <2>2. /\ QueueOf(s) = i /\ Len(got[s]) < k /\ k <= snd[s].n
        /\ InFlight(s) => k < snd[s].n
        /\ \A l \in (j + 1)..Len(q) : q[l][1] = s => k < q[l][2]
    BY <2>0, <2>1 DEF BatchOrder
  <2>3. got'[s] = got[s] /\ k <= snd'[s].n /\ (InFlight(s)' => k < snd'[s].n)
    BY <1>2, <1>3, <2>2
  <2>4. QueueOf(s)' = i
    BY <1>0, <2>2
  <2>5. s = queue'[i].batches[j][1] /\ k = queue'[i].batches[j][2]
    BY <1>3, <2>0
  <2> QED
    BY <1>3, <2>2, <2>3, <2>4, <2>5 DEF BatchOrder
<1>4. ASSUME got' = got, NEW t \in queue[i].adding, r = Append(q, <<t, snd[t].n>>), rpc'[t] = "none"
      PROVE  BatchOrder(i, j)'
  <2>0. t \in Senders /\ QueueOf(t) = i /\ InFlight(t) /\ <<t, snd[t].n>> \in Senders \X (1..MaxBatches)
    BY AddingFacts DEF HeldInv
  <2>1. Len(r) = Len(q) + 1 /\ r[Len(q) + 1] = <<t, snd[t].n>> /\ \A l \in 1..Len(q) : r[l] = q[l]
    BY <1>0, <1>4, <2>0
  <2>2. ~InFlight(t)' /\ Len(got[t]) < snd[t].n
    BY <1>4, <2>0, OrderParts DEF InFlight, ReadOrder
  <2>3. CASE j = Len(q) + 1
    <3>1. r[j][1] = t /\ r[j][2] = snd[t].n /\ (j + 1)..Len(r) = {}
      BY <1>0, <2>1, <2>3
    <3>2. snd[t].n <= snd'[t].n
      BY <1>2, <2>0
    <3>3. QueueOf(t)' = i
      BY <1>0, <2>0
    <3> QED
      BY <1>4, <2>2, <3>1, <3>2, <3>3 DEF BatchOrder
  <2>4. CASE j \in 1..Len(q)
    <3>0. PICK s \in Senders, k \in Nat : s = q[j][1] /\ k = q[j][2]
      BY <1>1, <2>4
    <3>1. BatchOrder(i, j) /\ r[j] = q[j]
      BY <1>1, <2>1, <2>4
    <3>2. /\ QueueOf(s) = i /\ Len(got[s]) < k /\ k <= snd[s].n
          /\ InFlight(s) => k < snd[s].n
          /\ \A l \in (j + 1)..Len(q) : q[l][1] = s => k < q[l][2]
      BY <3>0, <3>1 DEF BatchOrder
    <3>3. k <= snd'[s].n /\ (InFlight(s)' => k < snd'[s].n)
      BY <1>2, <3>2
    <3>4. \A l \in (j + 1)..Len(r) : r[l][1] = s => k < r[l][2]
      <4> SUFFICES ASSUME NEW l \in (j + 1)..Len(r), r[l][1] = s PROVE k < r[l][2]
        OBVIOUS
      <4>1. CASE l = Len(q) + 1
        <5>1. r[l][1] = t /\ r[l][2] = snd[t].n
          BY <2>1, <4>1
        <5> QED
          BY <2>0, <3>2, <5>1
      <4>2. CASE l # Len(q) + 1
        <5>1. l \in (j + 1)..Len(q) /\ l \in 1..Len(q)
          <6>1. j \in Nat /\ l \in Nat /\ l >= j + 1 /\ j >= 1 /\ l <= Len(q) + 1
            BY <1>0, <2>1, <2>4
          <6> QED
            <7>1. \A x, y, z \in Nat : y >= x + 1 /\ x >= 1 /\ y <= z + 1 /\ y # z + 1 =>
                     y \in (x + 1)..z /\ y \in 1..z
              OBVIOUS
            <7> QED
              BY <1>0, <4>2, <6>1, <7>1
        <5> QED
          BY <2>1, <3>2, <5>1
      <4> QED
        BY <4>1, <4>2
    <3>5. QueueOf(s)' = i
      BY <1>0, <3>2
    <3>6. s = queue'[i].batches[j][1] /\ k = queue'[i].batches[j][2]
      BY <3>0, <3>1
    <3> QED
      BY <1>4, <3>2, <3>3, <3>4, <3>5, <3>6 DEF BatchOrder
  <2> QED
    BY <1>0, <2>1, <2>3, <2>4
<1>5. ASSUME q # <<>>, ~queue[i].cancelled, UNCHANGED <<sending, early, taken>>, r = Tail(q),
             got' = [got EXCEPT ![Head(q)[1]] = Append(@, Head(q)[2])]
      PROVE  BatchOrder(i, j)'
  <2> DEFINE b == Head(q)
  <2>1. b = q[1] /\ b[1] \in Senders /\ b[2] = Len(got[b[1]]) + 1
    BY <1>5, HeadIsNext
  <2>2. Len(r) = Len(q) - 1 /\ (\A l \in 1..Len(r) : r[l] = q[l + 1]) /\ 1 \in 1..Len(q)
    BY <1>0, <1>5
  <2>3. j + 1 \in 1..Len(q) /\ j + 1 \in (1 + 1)..Len(q) /\ r[j] = q[j + 1] /\ j \in Nat
    <3>1. j \in Nat /\ j >= 1 /\ j <= Len(q) - 1
      BY <1>0, <2>2
    <3>2. r[j] = q[j + 1]
      BY <2>2
    <3> QED
      BY <1>0, <3>1, <3>2
  <2>4. BatchOrder(i, j + 1) /\ BatchOrder(i, 1)
    BY <1>1, <2>2, <2>3
  <2>0. PICK s \in Senders, k \in Nat : s = q[j + 1][1] /\ k = q[j + 1][2]
    BY <1>1, <2>3
  <2>5. /\ QueueOf(s) = i /\ Len(got[s]) < k /\ k <= snd[s].n
        /\ InFlight(s) => k < snd[s].n
        /\ \A l \in (j + 1 + 1)..Len(q) : q[l][1] = s => k < q[l][2]
    BY <2>0, <2>4 DEF BatchOrder
  <2>6. s = b[1] => b[2] < k
    BY <2>0, <2>1, <2>3, <2>4 DEF BatchOrder
  <2>7. snd' = snd /\ (InFlight(s)' <=> InFlight(s))
    BY <1>5 DEF sending, InFlight
  <2>8. Len(got'[s]) < k
    <3>1. CASE s = b[1]
      <4>1. got'[s] = Append(got[s], b[2]) /\ got[s] \in Seq(1..MaxBatches) /\ Len(got'[s]) = Len(got[s]) + 1
        BY <1>5, <2>4, <3>1 DEF TypeOK
      <4> QED
        BY <2>1, <2>6, <3>1, <4>1
    <3>2. CASE s # b[1]
      <4>1. got'[s] = got[s]
        BY <1>5, <2>4, <3>2 DEF TypeOK
      <4> QED
        BY <2>5, <4>1
    <3> QED
      BY <3>1, <3>2
  <2>9. \A l \in (j + 1)..Len(r) : r[l][1] = s => k < r[l][2]
    <3> SUFFICES ASSUME NEW l \in (j + 1)..Len(r), r[l][1] = s PROVE k < r[l][2]
      OBVIOUS
    <3>1. l \in 1..Len(r) /\ l + 1 \in (j + 1 + 1)..Len(q)
      BY <1>0, <2>2, <2>3
    <3> QED
      BY <2>2, <2>5, <3>1
  <2>10. QueueOf(s)' = i
    BY <1>0, <2>5
  <2>11. s = queue'[i].batches[j][1] /\ k = queue'[i].batches[j][2]
    BY <2>0, <2>3
  <2> QED
    BY <2>5, <2>7, <2>8, <2>9, <2>10, <2>11 DEF BatchOrder
<1>6. CASE r = <<>>
  BY <1>6
<1> QED
  BY <1>0, <1>3, <1>4, <1>5, <1>6 DEF BatchMove

LEMMA OrderStep ==
    ASSUME TypeOK, HeldInv, StageInv, OrderInv, CompleteInv, [Next]_vars
    PROVE  OrderInv'
<1>1. Queues' = Queues
  BY MergingFixed
<1>2. \A i \in Queues' : \A j \in 1..Len(queue'[i].batches) : BatchOrder(i, j)'
  BY <1>1, BatchOrderStep
<1>3. \A s \in Senders : ReadOrder(s)'
  BY ReadStep
<1>4. (\A i \in Queues : \A j \in 1..Len(queue[i].batches) : BatchOrder(i, j))'
  BY <1>2
<1> QED
  BY <1>3, <1>4 DEF OrderInv, BatchOrder, ReadOrder

\* A batch that has arrived stays until it is read, and stays read.
LEMMA HereKept ==
    ASSUME TypeOK, HeldInv, StageInv, OrderInv, WillWakeUp, CompleteInv, [Next]_vars,
           NEW s \in Senders, NEW k \in Nat, Here(s, k), ~queue'[QueueOf(s)].cancelled
    PROVE  Here(s, k)'
<1>i. PICK i \in Queues : i = QueueOf(s) /\ i = QueueOf(s)'
  BY QueueFacts, MergingFixed DEF QueueOf
<1> DEFINE q == queue[i].batches r == queue'[i].batches
<1>0. /\ BatchMove(i) /\ ~queue[i].cancelled /\ q \in Seq(Senders \X (1..MaxBatches)) /\ Len(q) \in Nat
      /\ got[s] \in Seq(1..MaxBatches) /\ Len(got[s]) \in Nat
  BY <1>i, BatchStep, QueuesStep DEF TypeOK, SenderQueue
<1>1. k <= Len(got[s]) \/ \E j \in 1..Len(q) : q[j] = <<s, k>>
  BY <1>i DEF Here
<1> SUFFICES k <= Len(got'[s]) \/ \E j \in 1..Len(r) : r[j] = <<s, k>>
  BY <1>i DEF Here
<1>2. CASE r = q /\ \A t \in Senders : QueueOf(t) = i => got'[t] = got[t]
  BY <1>i, <1>1, <1>2
<1>3. ASSUME got' = got, NEW t \in queue[i].adding, r = Append(q, <<t, snd[t].n>>)
      PROVE  k <= Len(got'[s]) \/ \E j \in 1..Len(r) : r[j] = <<s, k>>
  <2>1. Len(r) = Len(q) + 1 /\ \A l \in 1..Len(q) : r[l] = q[l]
    BY <1>0, <1>3
  <2>2. \A l \in 1..Len(q) : l \in 1..Len(r)
    BY <1>0, <2>1
  <2> QED
    BY <1>1, <1>3, <2>1, <2>2
<1>4. ASSUME q # <<>>, r = Tail(q),
             got' = [got EXCEPT ![Head(q)[1]] = Append(@, Head(q)[2])]
      PROVE  k <= Len(got'[s]) \/ \E j \in 1..Len(r) : r[j] = <<s, k>>
  <2> DEFINE b == Head(q)
  <2>1. b = q[1] /\ b[1] \in Senders /\ b[2] = Len(got[b[1]]) + 1
    BY <1>0, <1>4, HeadIsNext
  <2>2. Len(r) = Len(q) - 1 /\ \A l \in 1..Len(r) : r[l] = q[l + 1]
    BY <1>0, <1>4
  <2>3. got'[s] = IF s = b[1] THEN Append(got[s], b[2]) ELSE got[s]
    BY <1>4 DEF TypeOK
  <2>4. Len(Append(got[s], b[2])) = Len(got[s]) + 1
    BY <1>0
  <2>5. Len(got'[s]) = IF s = b[1] THEN Len(got[s]) + 1 ELSE Len(got[s])
    BY <2>3, <2>4
  <2>6. CASE k <= Len(got[s])
    BY <1>0, <2>5, <2>6
  <2>7. ASSUME NEW j \in 1..Len(q), q[j] = <<s, k>>
        PROVE  k <= Len(got'[s]) \/ \E l \in 1..Len(r) : r[l] = <<s, k>>
    <3>1. CASE j = 1
      <4>1. b[1] = s /\ b[2] = k
        BY <2>1, <2>7, <3>1
      <4> QED
        BY <1>0, <2>1, <2>5, <4>1
    <3>2. CASE j # 1
      <4>1. j - 1 \in 1..Len(r) /\ (j - 1) + 1 = j
        BY <1>0, <2>2, <3>2
      <4> QED
        BY <2>2, <2>7, <4>1
    <3> QED
      BY <3>1, <3>2
  <2> QED
    BY <1>1, <2>6, <2>7
<1> QED
  BY <1>0, <1>2, <1>3, <1>4 DEF BatchMove

\* What CompleteInv says of one sender.
LastHere(s) == snd[s].n = 0 \/ Here(s, snd[s].n)
Waiting(s) == Ending(s) \/ (snd[s].at \in {"sending", "eos"} /\ rpc[s] = "none")
Complete(s) ==
    /\ \A k \in 1..snd[s].n : k < snd[s].n => Here(s, k)
    /\ Waiting(s) => LastHere(s)

LEMMA CompleteParts ==
    CompleteInv <=> \A s \in Senders : ~queue[QueueOf(s)].cancelled => Complete(s)
BY DEF CompleteInv, Complete, Waiting, LastHere

\* The batch of a sender that an insertion has put into its queue.
LEMMA AddedHere ==
    ASSUME TypeOK, NEW s \in Senders, NEW n \in Nat, QueueOf(s)' = QueueOf(s),
           queue'[QueueOf(s)].batches = Append(queue[QueueOf(s)].batches, <<s, n>>),
           n \in 1..MaxBatches
    PROVE  Here(s, n)'
<1>i. PICK i \in Queues : i = QueueOf(s) /\ i = QueueOf(s)'
  BY QueueFacts
<1> DEFINE q == queue[i].batches r == queue'[i].batches
<1>1. q \in Seq(Senders \X (1..MaxBatches)) /\ <<s, n>> \in Senders \X (1..MaxBatches)
  BY <1>i DEF TypeOK, SenderQueue
<1>2. r = Append(q, <<s, n>>)
  BY <1>i
<1>3. Len(r) = Len(q) + 1 /\ r[Len(q) + 1] = <<s, n>> /\ Len(q) \in Nat
  BY <1>1, <1>2
<1>4. Len(q) + 1 \in 1..Len(r)
  BY <1>3
<1>5. \E j \in 1..Len(r) : r[j] = <<s, n>>
  BY <1>3, <1>4
<1> QED
  BY <1>i, <1>5 DEF Here

LEMMA CompleteStep ==
    ASSUME TypeOK, HeldInv, StageInv, OrderInv, WillWakeUp, CompleteInv, [Next]_vars
    PROVE  CompleteInv'
<1>q. \A s \in Senders : QueueOf(s)' = QueueOf(s)
  BY MergingFixed DEF QueueOf
<1>c. ASSUME NEW s \in Senders, ~queue'[QueueOf(s)].cancelled
      PROVE  Complete(s)'
  <2> DEFINE n == snd[s].n
  <2>0. /\ QueueOf(s) \in Queues /\ ~queue[QueueOf(s)].cancelled /\ ~snd[s].closed
        /\ n \in Nat /\ SenderMove(s) /\ snd'[s].n \in Nat
    BY <1>c, QueueFacts, QueuesStep, SenderStep, SentMove DEF StageInv
  <2>1. Complete(s)
    BY <2>0, CompleteParts
  <2>2. \A k \in Nat : Here(s, k) => Here(s, k)'
    BY <1>c, HereKept
  <2>m. PICK m \in Nat : m = n
    BY <2>0
  <2>3. /\ \A k \in 1..m : k < m => Here(s, k)'
        /\ LastHere(s) => m = 0 \/ Here(s, m)'
    BY <2>1, <2>2, <2>m DEF Complete, LastHere
  <2>4. ASSUME snd'[s].n = m, Waiting(s)' => m = 0 \/ Here(s, m)'
        PROVE  Complete(s)'
    <3>1. \A k \in 1..snd'[s].n : k < snd'[s].n => Here(s, k)'
      BY <2>3, <2>4
    <3>2. Waiting(s)' => LastHere(s)'
      BY <2>4 DEF LastHere, Here
    <3> QED
      BY <3>1, <3>2 DEF Complete
  <2>5. ASSUME snd'[s].n = m, Waiting(s)' => Waiting(s)
        PROVE  Complete(s)'
    BY <2>1, <2>3, <2>4, <2>5 DEF Complete
  <2>6. CASE /\ snd'[s] = snd[s] /\ (rpc'[s] = "none" <=> rpc[s] = "none")
             /\ Ending(s)' <=> Ending(s)
    BY <2>5, <2>6, <2>m DEF Waiting
  <2>7. CASE /\ snd[s].at = "sending" /\ rpc[s] = "none"
             /\ snd'[s].n = n + 1 /\ rpc'[s] = "data"
    <3>1. m = 0 \/ Here(s, m)'
      BY <2>1, <2>3, <2>7 DEF Complete, Waiting
    <3>2. ASSUME NEW k \in 1..(m + 1), k < m + 1 PROVE Here(s, k)'
      <4>1. k = m \/ (k \in 1..m /\ k < m)
        BY <3>2
      <4> QED
        BY <2>3, <3>1, <3>2, <4>1
    <3>3. ~Waiting(s)'
      BY <2>7 DEF Waiting, Ending
    <3> QED
      BY <2>7, <2>m, <3>2, <3>3 DEF Complete
  <2>8. CASE snd[s].at = "sending" /\ rpc[s] = "none" /\ snd'[s].n = n
    BY <2>5, <2>8, <2>m DEF Waiting
  <2>9. CASE /\ snd[s].at \in {"sending", "eos"} /\ snd'[s].at \in {"failed", "cancelled", "lost"}
             /\ snd'[s].n = n /\ (Ending(s)' => Ending(s))
    BY <2>5, <2>9, <2>m DEF Waiting
  <2>10. CASE /\ rpc'[s] = "none" /\ snd'[s].n = n
              /\ snd'[s].at \in {"failed", "cancelled", "lost", "done"} \/ Ending(s)
    BY <2>5, <2>10, <2>m DEF Waiting, Ending
  <2>11. CASE /\ rpc'[s] = "none" /\ snd'[s].n = n /\ s \in queue[QueueOf(s)].adding
              /\ queue'[QueueOf(s)].batches = Append(queue[QueueOf(s)].batches, <<s, n>>)
    <3>1. m \in 1..MaxBatches
      BY <2>0, <2>11, <2>m, AddingFacts DEF HeldInv
    <3>2. queue'[QueueOf(s)].batches = Append(queue[QueueOf(s)].batches, <<s, m>>)
      BY <2>11, <2>m
    <3>3. Here(s, m)'
      BY <1>q, <3>1, <3>2, AddedHere
    <3> QED
      BY <2>4, <2>11, <2>m, <3>3
  <2> QED
    BY <1>c, <2>0, <2>6, <2>7, <2>8, <2>9, <2>10, <2>11 DEF SenderMove
<1>1. (\A s \in Senders : ~queue[QueueOf(s)].cancelled => Complete(s))'
  BY <1>q, <1>c
<1> QED
  BY <1>1 DEF CompleteInv, Complete, Waiting, LastHere

\* A sender that a queue no longer expects is never expected again.
LEMMA ExpectedShrinks ==
    ASSUME TypeOK, HeldInv, StageInv, OrderInv, WillWakeUp, CompleteInv, [Next]_vars,
           NEW i \in Queues, ~queue'[i].cancelled
    PROVE  /\ Expected(i)' \subseteq Expected(i)
           /\ IsFiniteSet(Expected(i)) /\ IsFiniteSet(Expected(i)')
<1>q. \A s \in Senders : QueueOf(s)' = QueueOf(s)
  BY MergingFixed DEF QueueOf
<1>1. ASSUME NEW s \in Senders, QueueOf(s) = i, s \notin Expected(i)
      PROVE  s \notin Expected(i)'
  <2>1. /\ snd[s].at \notin {"sending", "eos"} /\ rpc[s] = "none" /\ LastHere(s)
        /\ SenderMove(s)
    BY <1>1, SenderStep DEF Expected, LastHere
  <2>2. snd'[s] = snd[s] /\ rpc'[s] = "none"
    BY <2>1 DEF SenderMove
  <2>m. PICK m \in Nat : m = snd[s].n
    BY DEF TypeOK, Channel
  <2>3. m = 0 \/ Here(s, m)'
    BY <1>1, <2>1, <2>m, HereKept DEF LastHere
  <2>4. LastHere(s)'
    BY <2>2, <2>3, <2>m DEF LastHere, Here
  <2> QED
    BY <2>1, <2>2, <2>4 DEF Expected, LastHere
<1>2. Expected(i)' \subseteq Expected(i)
  BY <1>q, <1>1 DEF Expected
<1>3. Expected(i) \subseteq Senders /\ Expected(i)' \subseteq Senders
  BY DEF Expected
<1> QED
  BY <1>2, <1>3, SendersFinite, FS_Subset

\* DecrementSenders() is called once for a sender, when its last batch is there.
LEMMA NotExpected ==
    ASSUME TypeOK, HeldInv, StageInv, OrderInv, WillWakeUp, CompleteInv, EndingInv, [Next]_vars,
           NEW s \in Senders, ~queue'[QueueOf(s)].cancelled, Ending(s), rpc'[s] = "none"
    PROVE  s \in Expected(QueueOf(s)) /\ s \notin Expected(QueueOf(s))'
<1>q. QueueOf(s)' = QueueOf(s) /\ QueueOf(s) \in Queues
  BY MergingFixed, QueueFacts DEF QueueOf
<1>1. rpc[s] # "none" /\ snd[s].at # "sending" /\ SenderMove(s)
  BY SenderStep DEF Ending, EndingInv
<1>2. ~queue[QueueOf(s)].cancelled
  BY <1>q, QueuesStep
<1>3. LastHere(s)
  BY <1>2, CompleteParts DEF Complete, Waiting
<1>4. s \notin queue[QueueOf(s)].adding
  BY <1>q, AddingFacts DEF HeldInv
<1>5. snd[s].at \in {"sending", "eos", "done", "failed", "cancelled", "lost"}
  BY DEF TypeOK, Channel
<1>6. snd'[s].at \notin {"sending", "eos"} /\ snd'[s].n = snd[s].n
  BY <1>1, <1>4, <1>5 DEF SenderMove
<1>m. PICK m \in Nat : m = snd[s].n
  BY DEF TypeOK, Channel
<1>7. m = 0 \/ Here(s, m)'
  BY <1>3, <1>m, HereKept DEF LastHere
<1>8. LastHere(s)'
  BY <1>6, <1>7, <1>m DEF LastHere, Here
<1>9. s \in Expected(QueueOf(s))
  BY <1>1 DEF Expected
<1>10. s \notin Expected(QueueOf(s))'
  BY <1>6, <1>8 DEF Expected, LastHere
<1> QED
  BY <1>9, <1>10

LEMMA RemainingStep ==
    ASSUME TypeOK, HeldInv, StageInv, OrderInv, WillWakeUp, CompleteInv, EndingInv, RemainingInv,
           [Next]_vars
    PROVE  RemainingInv'
<1>0. Queues' = Queues /\ \A s \in Senders : QueueOf(s)' = QueueOf(s)
  BY MergingFixed DEF QueueOf
<1>1. ASSUME NEW i \in Queues, ~queue'[i].cancelled
      PROVE  Cardinality(Expected(i)') <= queue'[i].remaining
  <2>1. /\ Cardinality(Expected(i)) <= queue[i].remaining
        /\ queue[i].remaining \in Nat
    BY <1>1, QueuesStep, SenderFacts DEF RemainingInv, TypeOK, SenderQueue
  <2>2. /\ Expected(i)' \subseteq Expected(i)
        /\ IsFiniteSet(Expected(i)) /\ IsFiniteSet(Expected(i)')
    BY <1>1, ExpectedShrinks
  <2>3. /\ Cardinality(Expected(i)') <= Cardinality(Expected(i))
        /\ Cardinality(Expected(i)) \in Nat /\ Cardinality(Expected(i)') \in Nat
    BY <2>2, FS_Subset, FS_CardinalityType
  <2>4. RemainingMove(i)
    BY BatchStep
  <2>5. CASE queue'[i].remaining = queue[i].remaining
    BY <2>1, <2>3, <2>5
  <2>6. ASSUME NEW s \in Senders, QueueOf(s) = i, Ending(s), rpc'[s] = "none",
               queue'[i].remaining = IF queue[i].remaining > 0 THEN queue[i].remaining - 1 ELSE 0
        PROVE  Cardinality(Expected(i)') <= queue'[i].remaining
    <3>1. s \in Expected(i) /\ s \notin Expected(i)'
      <4>1. s \in Expected(QueueOf(s)) /\ s \notin Expected(QueueOf(s))'
        BY <1>1, <2>6, NotExpected
      <4> QED
        BY <1>0, <2>6, <4>1 DEF Expected
    <3>2. /\ IsFiniteSet(Expected(i) \ {s})
          /\ Cardinality(Expected(i) \ {s}) = Cardinality(Expected(i)) - 1
      BY <2>2, <3>1, FS_RemoveElement
    <3>3. Expected(i)' \subseteq Expected(i) \ {s}
      BY <2>2, <3>1
    <3>4. Cardinality(Expected(i)') <= Cardinality(Expected(i)) - 1
      BY <3>2, <3>3, FS_Subset
    <3>5. \A c, d, r \in Nat : c <= r /\ d <= c - 1 => d <= IF r > 0 THEN r - 1 ELSE 0
      OBVIOUS
    <3> QED
      BY <2>1, <2>3, <2>6, <3>4, <3>5
  <2> QED
    BY <2>4, <2>5, <2>6 DEF RemainingMove
<1>2. (\A i \in Queues : ~queue[i].cancelled => Cardinality(Expected(i)) <= queue[i].remaining)'
  BY <1>0, <1>1
<1> QED
  BY <1>2 DEF RemainingInv

LEMMA OverInvStep ==
    ASSUME TypeOK, HeldInv, StageInv, OrderInv, WillWakeUp, CompleteInv, RemainingInv, OverInv,
           [Next]_vars
    PROVE  OverInv'
<1>q. \A s \in Senders : QueueOf(s)' = QueueOf(s)
  BY MergingFixed DEF QueueOf
<1>1. ASSUME NEW s \in Senders, QueueOf(s) \in over'
      PROVE  /\ rpc'[s] = "none" /\ snd'[s].at \notin {"sending", "eos"}
             /\ Len(got'[s]) = snd'[s].n
  <2>0. OverMove /\ SenderMove(s) /\ QueueOf(s) \in Queues
    BY OverStep, SenderStep, QueueFacts
  <2>t. /\ got[s] \in Seq(1..MaxBatches) /\ Len(got[s]) \in Nat /\ snd[s].n \in Nat
    BY DEF TypeOK, Channel
  <2>1. CASE QueueOf(s) \in over
    <3>1. /\ rpc[s] = "none" /\ snd[s].at \notin {"sending", "eos"}
          /\ Len(got[s]) = snd[s].n
      BY <2>1 DEF OverInv
    <3>2. snd'[s] = snd[s] /\ rpc'[s] = "none"
      BY <2>0, <3>1 DEF SenderMove
    <3>3. Len(got'[s]) <= snd'[s].n
      BY ReadStep DEF ReadOrder
    <3>4. got'[s] = got[s] \/ got'[s] = Append(got[s], Len(got[s]) + 1)
      BY ReadStep
    <3>5. got'[s] # got[s] => Len(got'[s]) = Len(got[s]) + 1
      BY <2>t, <3>4
    <3>6. got'[s] = got[s]
      BY <2>t, <3>1, <3>2, <3>3, <3>5
    <3> QED
      BY <3>1, <3>2, <3>6
  <2>2. CASE QueueOf(s) \notin over
    <3>i. PICK i \in Queues : i = QueueOf(s)
      BY <2>0
    <3>1. /\ UNCHANGED <<sending, got>>
          /\ ~queue[i].cancelled /\ queue[i].batches = <<>> /\ queue[i].remaining = 0
      BY <1>1, <2>0, <2>2, <3>i DEF OverMove
    <3>2. Expected(i) = {}
      <4>1. Expected(i) \subseteq Senders /\ IsFiniteSet(Expected(i))
        BY SendersFinite, FS_Subset DEF Expected
      <4>2. Cardinality(Expected(i)) \in Nat /\ Cardinality(Expected(i)) <= 0
        BY <3>1, <4>1, FS_CardinalityType DEF RemainingInv
      <4>3. Cardinality(Expected(i)) = 0
        BY <4>2
      <4> QED
        BY <4>1, <4>3, FS_EmptySet
    <3>3. /\ snd[s].at \notin {"sending", "eos"} /\ rpc[s] = "none"
          /\ snd[s].n = 0 \/ Here(s, snd[s].n)
      BY <3>i, <3>2 DEF Expected
    <3>4. snd[s].n <= Len(got[s])
      <4>1. Len(queue[i].batches) = 0 /\ 1..0 = {}
        BY <3>1
      <4> QED
        BY <2>t, <3>i, <3>3, <4>1 DEF Here
    <3>5. Len(got[s]) <= snd[s].n
      BY OrderParts DEF ReadOrder
    <3> QED
      BY <2>t, <3>1, <3>3, <3>4, <3>5 DEF sending
  <2> QED
    BY <2>1, <2>2
<1> QED
  BY <1>q, <1>1 DEF OverInv

-----------------------------------------------------------------------------
(* Types.                                                                  *)

SendingOK ==
    /\ snd \in [Senders -> Channel]
    /\ rpc \in [Senders -> {"none", "data", "eos", "held"}]
    /\ failed \in BOOLEAN

LEMMA RespondTypes ==
    ASSUME TypeOK, NEW S, NEW answer \in {"ok", "error", "closed"}, Respond(S, answer)
    PROVE  SendingOK'
<1>1. \A t \in Senders : snd'[t] \in Channel /\ rpc'[t] \in {"none", "data", "eos", "held"}
  BY Responses DEF TypeOK
<1>2. /\ snd' = [s \in Senders |-> IF s \in S THEN Answered(s, answer) ELSE snd[s]]
      /\ rpc' = [s \in Senders |-> IF s \in S THEN "none" ELSE rpc[s]]
  BY DEF Respond
<1>3. snd' = [s \in Senders |-> snd'[s]] /\ rpc' = [s \in Senders |-> rpc'[s]]
  BY <1>2
<1>4. failed' \in BOOLEAN
  BY DEF Respond, TypeOK
<1>5. snd' \in [Senders -> Channel]
  BY <1>1, <1>3
<1>6. rpc' \in [Senders -> {"none", "data", "eos", "held"}]
  BY <1>1, <1>3
<1> QED
  BY <1>4, <1>5, <1>6 DEF SendingOK

LEMMA AbandonTypes ==
    ASSUME TypeOK, NEW s \in Senders, NEW at \in {"failed", "cancelled", "lost"}, Abandon(s, at), failed' \in BOOLEAN
    PROVE  SendingOK'
<1>1. snd' = [snd EXCEPT ![s].at = at] /\ (rpc' = rpc \/ rpc' = [rpc EXCEPT ![s] = "none"])
  BY DEF Abandon
<1>2. snd[s] \in Channel
  BY DEF TypeOK
<1>3. [snd[s] EXCEPT !.at = at] \in Channel
  BY <1>2 DEF Channel
<1>4. snd' \in [Senders -> Channel]
  BY <1>1, <1>3 DEF TypeOK
<1> QED
  BY <1>1, <1>4 DEF SendingOK, TypeOK

LEMMA HoldTypes ==
    ASSUME TypeOK, NEW s \in Senders, NEW r \in {"none", "data", "eos", "held"},
           UNCHANGED <<snd, failed>>, rpc' = [rpc EXCEPT ![s] = r]
    PROVE  SendingOK'
BY DEF SendingOK, TypeOK

LEMMA SendingStep ==
    ASSUME TypeOK, StageInv, [Next]_vars
    PROVE  SendingOK'
<1>1. CASE UNCHANGED <<sending, failed>>
  BY <1>1 DEF SendingOK, TypeOK, sending
<1>2. ASSUME UNCHANGED sending, failed' \in BOOLEAN PROVE SendingOK'
  BY <1>2 DEF SendingOK, TypeOK, sending
<1>3. ASSUME NEW s \in Senders, TransmitData(s) PROVE SendingOK'
  <2>1. /\ snd[s].n < MaxBatches /\ snd' = [snd EXCEPT ![s].n = @ + 1]
        /\ rpc' = [rpc EXCEPT ![s] = "data"] /\ failed' = failed
    BY <1>3 DEF TransmitData
  <2>2. snd[s] \in Channel /\ snd[s].n \in 0..MaxBatches
    BY DEF TypeOK, Channel
  <2>3. snd[s].n + 1 \in 0..MaxBatches
    BY <2>1, <2>2, SenderFacts
  <2>4. [snd[s] EXCEPT !.n = @ + 1] \in Channel
    BY <2>2, <2>3 DEF Channel
  <2>5. snd' \in [Senders -> Channel]
    BY <2>1, <2>4 DEF TypeOK
  <2> QED
    BY <2>1, <2>5 DEF SendingOK, TypeOK
<1>4. ASSUME NEW s \in Senders, FlushFinal(s) PROVE SendingOK'
  <2>1. PICK at \in {"done", "eos"} :
            /\ snd' = [snd EXCEPT ![s].at = at]
            /\ rpc' = rpc \/ rpc' = [rpc EXCEPT ![s] = "eos"]
            /\ failed' = failed
    BY <1>4, Zenon DEF FlushFinal
  <2>2. snd[s] \in Channel
    BY DEF TypeOK
  <2>4. [snd[s] EXCEPT !.at = at] \in Channel
    BY <2>2 DEF Channel
  <2>5. snd' \in [Senders -> Channel]
    BY <2>1, <2>4 DEF TypeOK
  <2> QED
    BY <2>1, <2>5 DEF SendingOK, TypeOK
<1>5. ASSUME NEW s \in Senders, HandleFailedRPC(s) \/ TransmitDataFails(s) \/ CancelSender(s) PROVE SendingOK'
  BY <1>5, AbandonTypes DEF HandleFailedRPC, TransmitDataFails, CancelSender, TypeOK
<1>6. ASSUME NEW s \in Senders, AddData(s) PROVE SendingOK'
  <2>1. ASSUME AddBatch(QueueOf(s), s) PROVE SendingOK'
    BY <2>1, RespondTypes, HoldTypes, Zenon DEF AddBatch
  <2> QED
    BY <1>6, <2>1, RespondTypes, HoldTypes, Zenon DEF AddData
<1>7. ASSUME NEW s \in Senders, CloseSender(s) PROVE SendingOK'
  BY <1>7, RespondTypes, HoldTypes, Zenon DEF CloseSender
<1>8. ASSUME NEW s \in Senders, NEW i \in Queues, FinishAdding(i, s) PROVE SendingOK'
  BY <1>8, RespondTypes, Zenon DEF FinishAdding
<1>9. ASSUME NEW i \in Queues, ProcessDeferredRpc(i) PROVE SendingOK'
  <2>1. PICK s : s = Head(queue[i].deferred)
    OBVIOUS
  <2>2. UNCHANGED <<sending, failed>> \/ Respond({s}, "error")
    BY <1>9, <2>1, Zenon DEF ProcessDeferredRpc
  <2> QED
    BY <1>1, <2>2, RespondTypes
<1>10. ASSUME TakeOverEarlySender PROVE SendingOK'
  <2>1. PICK s : s = Head(taken.data)
    OBVIOUS
  <2>2. UNCHANGED <<sending, failed>> \/ Respond({s}, "closed")
    BY <1>10, <2>1, Zenon DEF TakeOverEarlySender
  <2> QED
    BY <1>1, <2>2, RespondTypes
<1>11. ASSUME TakeOverEos PROVE SendingOK'
  BY <1>11, RespondTypes DEF TakeOverEos
<1>12. ASSUME TimeOutEarlySenders PROVE SendingOK'
  BY <1>12, RespondTypes DEF TimeOutEarlySenders
<1>13. ASSUME CancelStream PROVE SendingOK'
  BY <1>13, RespondTypes DEF CancelStream
<1>14. CASE Cancel
  BY <1>1, <1>13, <1>14 DEF Cancel, sending
<1>15. CASE ReachedLimit \/ DeregisterRecvr
  BY <1>13, <1>15 DEF ReachedLimit, DeregisterRecvr
<1>16. CASE GetBatch
  BY <1>2, <1>16 DEF GetBatch, TypeOK
<1>17. CASE StopReading \/ PrepareFails
  BY <1>2, <1>17 DEF StopReading, PrepareFails, TypeOK
<1>18. CASE \/ CreateRecvr \/ Prepared \/ ForgetClosedStream \/ CloseQueues \/ UNCHANGED vars
            \/ \E i \in Queues : StartGetBatch(i)
  BY <1>1, <1>18 DEF CreateRecvr, Prepared, ForgetClosedStream, CloseQueues, vars, StartGetBatch, sending
<1> QED
  BY <1>3, <1>4, <1>5, <1>6, <1>7, <1>8, <1>9, <1>10, <1>11, <1>12, <1>14, <1>15, <1>16, <1>17, <1>18
     DEF Next

\* No step makes or drops a queue.
LEMMA QueueDomain ==
    ASSUME TypeOK, [Next]_vars
    PROVE  queue' = [i \in Queues |-> queue'[i]]
<1>0. queue = [i \in Queues |-> queue[i]]
  BY DEF TypeOK
<1>1. CASE queue' = queue
  BY <1>0, <1>1
<1>2. ASSUME NEW i, NEW q, queue' = [queue EXCEPT ![i] = q]
      PROVE  queue' = [j \in Queues |-> queue'[j]]
  BY <1>0, <1>2
<1>3. ASSUME NEW s \in Senders, AddData(s)
      PROVE  queue' = [i \in Queues |-> queue'[i]]
  <2>1. ASSUME AddBatch(QueueOf(s), s)
        PROVE  queue' = queue \/ \E i, q : queue' = [queue EXCEPT ![i] = q]
    BY <2>1, Zenon DEF AddBatch, StartAdding
  <2>2. queue' = queue \/ \E i, q : queue' = [queue EXCEPT ![i] = q]
    BY <1>3, <2>1 DEF AddData
  <2> QED
    BY <1>1, <1>2, <2>2
<1>4. ASSUME NEW s \in Senders, RemoveSender(s)
      PROVE  queue' = [i \in Queues |-> queue'[i]]
  BY <1>2, <1>4 DEF RemoveSender
<1>5. ASSUME NEW s \in Senders, CloseSender(s)
      PROVE  queue' = [i \in Queues |-> queue'[i]]
  BY <1>1, <1>4, <1>5 DEF CloseSender
<1>6. ASSUME NEW s \in Senders, NEW i \in Queues, FinishAdding(i, s)
      PROVE  queue' = [j \in Queues |-> queue'[j]]
  <2>1. CASE queue' = [queue EXCEPT ![i].adding = @ \ {s}, ![i].batches = Append(@, <<s, snd[s].n>>)]
    BY <1>0, <2>1
  <2>2. CASE queue' = [queue EXCEPT ![i].adding = @ \ {s}, ![i].ok = FALSE]
    BY <1>0, <2>2
  <2> QED
    BY <1>6, <2>1, <2>2 DEF FinishAdding
<1>7. ASSUME NEW i \in Queues, ProcessDeferredRpc(i)
      PROVE  queue' = [j \in Queues |-> queue'[j]]
  <2> DEFINE q == [queue EXCEPT ![i].tasks = @ - 1]
  <2>1. CASE queue' = q
    BY <1>0, <2>1
  <2>2. CASE queue' = [q EXCEPT ![i].deferred = Tail(@), ![i].adding = @ \cup {Head(queue[i].deferred)}]
    BY <1>0, <2>2
  <2>3. CASE queue' = [q EXCEPT ![i].deferred = Tail(@), ![i].ok = FALSE]
    BY <1>0, <2>3
  <2> QED
    BY <1>7, <2>1, <2>2, <2>3, Zenon DEF ProcessDeferredRpc
<1>8. CASE TakeOverEarlySender
  <2>1. PICK s, i : s = Head(taken.data) /\ i = QueueOf(s)
    OBVIOUS
  <2>2. CASE queue' = [queue EXCEPT ![i].deferred = Append(@, s), ![i].tasks = @ + 1]
    BY <1>0, <2>2
  <2> QED
    BY <1>1, <1>8, <2>1, <2>2, Zenon DEF TakeOverEarlySender
<1>9. CASE TakeOverEos
  BY <1>2, <1>9 DEF TakeOverEos, RemoveSender
<1>10. ASSUME CancelStream PROVE queue' = [i \in Queues |-> queue'[i]]
  BY <1>10 DEF CancelStream
<1>11. CASE Cancel
  BY <1>1, <1>10, <1>11 DEF Cancel
<1>12. CASE ReachedLimit \/ DeregisterRecvr
  BY <1>10, <1>12 DEF ReachedLimit, DeregisterRecvr
<1>13. CASE CloseQueues
  BY <1>13 DEF CloseQueues
<1>14. CASE GetBatch
  <2>1. CASE queue' = [queue EXCEPT ![want].batches = Tail(@), ![want].tasks = @ + TasksFor(want)]
    BY <1>0, <2>1
  <2> QED
    BY <1>1, <1>14, <2>1, Zenon DEF GetBatch
<1>15. ASSUME \/ \E s \in Senders : TransmitData(s) \/ FlushFinal(s) \/ HandleFailedRPC(s) \/ TransmitDataFails(s) \/ CancelSender(s)
              \/ \E i \in Queues : StartGetBatch(i)
              \/ CreateRecvr \/ Prepared \/ PrepareFails \/ TimeOutEarlySenders \/ ForgetClosedStream
              \/ StopReading \/ UNCHANGED vars
       PROVE  queue' = queue
  BY <1>15 DEF TransmitData, FlushFinal, HandleFailedRPC, TransmitDataFails, CancelSender, StartGetBatch, CreateRecvr, Prepared,
               PrepareFails, TimeOutEarlySenders, ForgetClosedStream, StopReading, vars, receiving
<1> QED
  BY <1>1, <1>3, <1>5, <1>6, <1>7, <1>8, <1>9, <1>11, <1>12, <1>13, <1>14, <1>15 DEF Next

LEMMA ListsStep ==
    ASSUME TypeOK, [Next]_vars
    PROVE  early' \in SenderLists /\ taken' \in SenderLists
<1>0. early \in SenderLists /\ taken \in SenderLists /\ NoSenders \in SenderLists
  BY NoSendersFacts DEF TypeOK
<1>d. /\ early.data \in Seq(Senders) /\ early.eos \in Seq(Senders)
      /\ taken.data \in Seq(Senders) /\ taken.eos \in Seq(Senders)
  BY <1>0 DEF SenderLists
<1>e. ASSUME NEW e \in SenderLists, NEW q \in Seq(Senders)
      PROVE  [e EXCEPT !.data = q] \in SenderLists /\ [e EXCEPT !.eos = q] \in SenderLists
  BY <1>e DEF SenderLists
<1>1. CASE UNCHANGED <<early, taken>>
  BY <1>0, <1>1
<1>2. ASSUME NEW s \in Senders, AddData(s) \/ CloseSender(s)
      PROVE  early' \in SenderLists /\ taken' \in SenderLists
  <2>1. /\ taken' = taken
        /\ \/ early' = early
           \/ early' = [early EXCEPT !.data = Append(@, s)]
           \/ early' = [early EXCEPT !.eos = Append(@, s)]
    BY <1>2 DEF AddData, CloseSender
  <2>2. Append(early.data, s) \in Seq(Senders) /\ Append(early.eos, s) \in Seq(Senders)
    BY <1>d
  <2> QED
    BY <1>0, <1>e, <2>1, <2>2
<1>3. CASE TakeOverEarlySender
  <2>1. /\ early' = early /\ taken.data # <<>> /\ taken' = [taken EXCEPT !.data = Tail(@)]
    BY <1>3 DEF TakeOverEarlySender
  <2>2. Tail(taken.data) \in Seq(Senders)
    BY <1>d, <2>1
  <2> QED
    BY <1>0, <1>e, <2>1, <2>2
<1>4. CASE TakeOverEos
  <2>1. /\ early' = early /\ taken.eos # <<>> /\ taken' = [taken EXCEPT !.eos = Tail(@)]
    BY <1>4 DEF TakeOverEos
  <2>2. Tail(taken.eos) \in Seq(Senders)
    BY <1>d, <2>1
  <2> QED
    BY <1>0, <1>e, <2>1, <2>2
<1>5. CASE CreateRecvr \/ TimeOutEarlySenders
  BY <1>0, <1>5 DEF CreateRecvr, TimeOutEarlySenders
<1>6. ASSUME \/ \E s \in Senders : \/ TransmitData(s) \/ FlushFinal(s) \/ HandleFailedRPC(s) \/ TransmitDataFails(s) \/ CancelSender(s)
                                   \/ \E i \in Queues : FinishAdding(i, s)
             \/ \E i \in Queues : ProcessDeferredRpc(i) \/ StartGetBatch(i)
             \/ Prepared \/ PrepareFails \/ ForgetClosedStream \/ Cancel \/ GetBatch \/ ReachedLimit
             \/ StopReading \/ DeregisterRecvr \/ CloseQueues \/ UNCHANGED vars
      PROVE  UNCHANGED <<early, taken>>
  BY <1>6 DEF TransmitData, FlushFinal, HandleFailedRPC, TransmitDataFails, CancelSender, FinishAdding, ProcessDeferredRpc,
              StartGetBatch, Prepared, PrepareFails, ForgetClosedStream, Cancel, GetBatch, ReachedLimit,
              StopReading, DeregisterRecvr, CloseQueues, vars, receiving
<1> QED
  BY <1>1, <1>2, <1>3, <1>4, <1>5, <1>6 DEF Next

\* What is left: the queue that is read, what has been read, cancelled and faults.
LEMMA RestStep ==
    ASSUME TypeOK, HeldInv, StageInv, OrderInv, CompleteInv, [Next]_vars
    PROVE  /\ want' \in Queues \cup {-1} /\ over' \subseteq Queues
           /\ got' \in [Senders -> Seq(1..MaxBatches)]
           /\ cancelled' \in BOOLEAN /\ faults' \in 0..MaxFaults
<1>1. want' \in Queues \cup {-1}
  BY DEF TypeOK, Next, vars, TransmitData, FlushFinal, HandleFailedRPC, TransmitDataFails, CancelSender, AddData, CloseSender,
         FinishAdding, ProcessDeferredRpc, StartGetBatch, CreateRecvr, TakeOverEarlySender,
         TakeOverEos, Prepared, PrepareFails, TimeOutEarlySenders, ForgetClosedStream, Cancel,
         GetBatch, ReachedLimit, StopReading, DeregisterRecvr, CloseQueues, consuming
<1>2. over' \subseteq Queues
  BY OverStep DEF OverMove, TypeOK
<1>3. got' \in [Senders -> Seq(1..MaxBatches)]
  <2>1. \A s \in Senders : got'[s] \in Seq(1..MaxBatches)
    <3> SUFFICES ASSUME NEW s \in Senders PROVE got'[s] \in Seq(1..MaxBatches)
      OBVIOUS
    <3>1. got[s] \in Seq(1..MaxBatches) /\ Len(got[s]) \in Nat
      BY DEF TypeOK
    <3>2. CASE got'[s] = got[s]
      BY <3>1, <3>2
    <3>3. CASE got'[s] = Append(got[s], Len(got[s]) + 1) /\ Len(got[s]) < MaxBatches
      <4>1. Len(got[s]) + 1 \in 1..MaxBatches
        BY <3>1, <3>3, SenderFacts
      <4> QED
        BY <3>1, <3>3, <4>1
    <3> QED
      BY <3>2, <3>3, ReadStep
  <2>2. got' = [s \in Senders |-> got'[s]]
    <3>1. got = [s \in Senders |-> got[s]]
      BY DEF TypeOK
    <3>2. CASE got' = got
      BY <3>1, <3>2
    <3>3. ASSUME NEW a, NEW b, got' = [got EXCEPT ![a] = b]
          PROVE  got' = [s \in Senders |-> got'[s]]
      BY <3>1, <3>3
    <3>4. got' = got \/ \E a, b : got' = [got EXCEPT ![a] = b]
      BY DEF Next, vars, TransmitData, FlushFinal, HandleFailedRPC, TransmitDataFails, CancelSender, AddData, CloseSender,
             FinishAdding, ProcessDeferredRpc, StartGetBatch, CreateRecvr, TakeOverEarlySender,
             TakeOverEos, Prepared, PrepareFails, TimeOutEarlySenders, ForgetClosedStream, Cancel,
             GetBatch, ReachedLimit, StopReading, DeregisterRecvr, CloseQueues, consuming
    <3> QED
      BY <3>2, <3>3, <3>4
  <2> QED
    BY <2>1, <2>2
<1>4. cancelled' \in BOOLEAN
  BY DEF TypeOK, Next, vars, TransmitData, FlushFinal, HandleFailedRPC, TransmitDataFails, CancelSender, AddData, CloseSender,
         FinishAdding, ProcessDeferredRpc, StartGetBatch, CreateRecvr, TakeOverEarlySender,
         TakeOverEos, Prepared, PrepareFails, TimeOutEarlySenders, ForgetClosedStream, Cancel,
         GetBatch, ReachedLimit, StopReading, DeregisterRecvr, CloseQueues
<1>5. faults' \in 0..MaxFaults
  <2>1. faults' = faults \/ Fault
    BY DEF Next, vars, TransmitData, FlushFinal, HandleFailedRPC, TransmitDataFails, CancelSender, AddData, AddBatch, CloseSender,
           FinishAdding, ProcessDeferredRpc, StartGetBatch, CreateRecvr, TakeOverEarlySender,
           TakeOverEos, Prepared, PrepareFails, TimeOutEarlySenders, ForgetClosedStream, Cancel,
           GetBatch, ReachedLimit, StopReading, DeregisterRecvr, CloseQueues
  <2>2. faults \in 0..MaxFaults
    BY DEF TypeOK
  <2> QED
    BY <2>1, <2>2, SenderFacts DEF Fault
<1> QED
  BY <1>1, <1>2, <1>3, <1>4, <1>5

LEMMA TypeStep ==
    ASSUME TypeOK, HeldInv, StageInv, OrderInv, WillWakeUp, CompleteInv, LimitInv, WithinLimit, [Next]_vars
    PROVE  TypeOK'
<1>1. merging' = merging /\ Queues' = Queues /\ merging \in BOOLEAN
  BY MergingFixed DEF TypeOK
<1>2. queue' \in [Queues -> SenderQueue]
  <2>1. \A i \in Queues : queue'[i] \in SenderQueue
    BY QueuesStep
  <2>2. queue' = [i \in Queues |-> queue'[i]]
    BY QueueDomain
  <2> QED
    BY <2>1, <2>2
<1>3. charged' \subseteq Senders
  <2>1. HeldInv'
    BY HeldStep
  <2>2. charged' \subseteq {s \in Senders : rpc'[s] = "held"}
    BY <2>1 DEF HeldInv, ChargedInv, HeldOnce
  <2> QED
    BY <2>2
<1>4. buffered' \in Nat
  BY LimitStep
<1> QED
  BY <1>1, <1>2, <1>3, <1>4, ConsumerStep, SendingStep, ListsStep, RestStep DEF TypeOK, SendingOK

-----------------------------------------------------------------------------
(* The theorems.                                                           *)

LEMMA InitIInv ==
    ASSUME Init
    PROVE  IInv
<1>0. /\ merging \in BOOLEAN
      /\ snd = [s \in Senders |-> [at |-> "sending", n |-> 0, closed |-> FALSE]]
      /\ rpc = [s \in Senders |-> "none"]
      /\ reg = "none" /\ early = NoSenders /\ taken = NoSenders
      /\ queue = [i \in Queues |->
                    [batches |-> <<>>, deferred |-> <<>>, tasks |-> 0, adding |-> {},
                     remaining |-> IF merging THEN 1 ELSE NumSenders,
                     ok |-> TRUE, cancelled |-> FALSE]]
      /\ buffered = 0 /\ charged = {}
      /\ cons = "prepare" /\ want = -1
      /\ got = [s \in Senders |-> <<>>] /\ over = {}
      /\ failed = FALSE /\ cancelled = FALSE /\ faults = 0
  BY DEF Init
<1>q. \A i \in Queues :
        /\ queue[i] \in SenderQueue
        /\ queue[i].batches = <<>> /\ queue[i].deferred = <<>> /\ queue[i].tasks = 0
        /\ queue[i].adding = {} /\ ~queue[i].cancelled /\ queue[i].ok
        /\ queue[i].remaining = IF merging THEN 1 ELSE NumSenders
  BY <1>0, SenderFacts DEF SenderQueue
<1>s. \A s \in Senders :
        /\ snd[s] \in Channel /\ snd[s].at = "sending" /\ snd[s].n = 0 /\ ~snd[s].closed
        /\ rpc[s] = "none" /\ got[s] = <<>> /\ Len(got[s]) = 0
        /\ QueueOf(s) \in Queues
  BY <1>0, SenderFacts, QueueFacts DEF Channel
<1>i. InQueue = {} /\ InEarly = {}
  BY <1>0, <1>q, EmptySet, NoSendersFacts DEF InQueue, InEarly
<1>1. TypeOK
  <2>1. snd \in [Senders -> Channel] /\ rpc \in [Senders -> {"none", "data", "eos", "held"}]
    BY <1>0, <1>s
  <2>2. queue \in [Queues -> SenderQueue]
    BY <1>0, <1>q
  <2>3. got \in [Senders -> Seq(1..MaxBatches)]
    BY <1>0
  <2>4. faults \in 0..MaxFaults /\ buffered \in Nat
    BY <1>0, SenderFacts
  <2> QED
    BY <1>0, <2>1, <2>2, <2>3, <2>4, NoSendersFacts DEF TypeOK
<1>2. HeldOnce
  BY <1>0, <1>q, <1>s, <1>i, EmptySet, NoSendersFacts DEF HeldOnce, ListsSound
<1>3. StageInv
  BY <1>0, <1>q, <1>s DEF StageInv
<1>4. WillWakeUp
  BY <1>q DEF WillWakeUp
<1>5. ChargedInv
  BY <1>0 DEF ChargedInv
<1>6. EndingInv
  BY <1>s DEF EndingInv, Ending
<1>7. OrderInv
  <2>1. \A i \in Queues : 1..Len(queue[i].batches) = {}
    BY <1>q
  <2>2. \A s \in Senders : ~InFlight(s)
    BY <1>s DEF InFlight
  <2>3. 1..0 = {}
    OBVIOUS
  <2> QED
    BY <1>s, <2>1, <2>2, <2>3 DEF OrderInv
<1>8. CompleteInv
  BY <1>s DEF CompleteInv
<1>9. RemainingInv
  <2> SUFFICES ASSUME NEW i \in Queues PROVE Cardinality(Expected(i)) <= queue[i].remaining
    BY DEF RemainingInv
  <2>1. Expected(i) = {s \in Senders : QueueOf(s) = i}
    BY <1>s DEF Expected
  <2>2. CASE merging
    <3>1. Expected(i) = {i}
      BY <2>1, <2>2, QueueFacts DEF QueueOf, Queues
    <3>2. Cardinality({i}) = 1
      BY FS_Singleton
    <3> QED
      BY <1>q, <2>2, <3>1, <3>2
  <2>3. CASE ~merging
    <3>1. Expected(i) = Senders
      BY <2>1, <2>3 DEF QueueOf, Queues
    <3> QED
      BY <1>q, <2>3, <3>1, SendersFinite, SenderFacts
  <2> QED
    BY <2>2, <2>3
<1>10. OverInv
  BY <1>0 DEF OverInv
<1>11. Queued = {} /\ Adding = {} /\ Filled = {}
  <2>1. \A i \in Queues : {i} \X (1..Len(queue[i].batches)) = {} /\ {i} \X queue[i].adding = {}
    BY <1>q
  <2> QED
    BY <1>q, <2>1 DEF Queued, Adding, Filled
<1>12. /\ IsFiniteSet({}) /\ Cardinality({}) = 0
       /\ Cardinality(Queues) \in Nat /\ Cardinality(Queues) # 0
  BY QueueFacts, FS_EmptySet, FS_CardinalityType
<1>13. LimitInv
  BY <1>0, <1>11, <1>12, SenderFacts DEF LimitInv
<1>14. WithinLimit
  BY <1>0, <1>11, <1>12, SenderFacts DEF WithinLimit
<1> QED
  BY <1>1, <1>2, <1>3, <1>4, <1>5, <1>6, <1>7, <1>8, <1>9, <1>10, <1>13, <1>14 DEF IInv

LEMMA NextIInv ==
    ASSUME IInv, [Next]_vars
    PROVE  IInv'
<1> USE DEF IInv
<1>1. HeldInv
  BY DEF HeldInv
<1>2. HeldOnce' /\ ChargedInv'
  BY <1>1, HeldStep DEF HeldInv
<1>3. TypeOK'
  BY <1>1, TypeStep
<1>4. StageInv' /\ WillWakeUp'
  BY <1>1, StageStep, WakeStep
<1>5. EndingInv'
  BY <1>1, EndingStep
<1>6. OrderInv' /\ CompleteInv'
  BY <1>1, OrderStep, CompleteStep
<1>7. RemainingInv' /\ OverInv'
  BY <1>1, RemainingStep, OverInvStep
<1>8. LimitInv' /\ WithinLimit'
  BY <1>1, LimitStep
<1> QED
  BY <1>2, <1>3, <1>4, <1>5, <1>6, <1>7, <1>8

\* The inductive invariant of one exchange: the types, HeldOnce, WillWakeUp
\* and WithinLimit themselves, and what they and the others rest on.
THEOREM Invariant == Spec => []IInv
<1>1. Init => IInv
  BY InitIInv
<1>2. IInv /\ [Next]_vars => IInv'
  BY NextIInv
<1> QED
  BY <1>1, <1>2, PTL DEF Spec

\* No RPC that the receiver's side holds is forgotten or answered twice, early,
\* deferred or being deserialized (KrpcDataStreamMgr::AddData(), CreateRecvr(),
\* SenderQueue::AddBatch(), ProcessDeferredRpc(), Cancel()).
THEOREM HeldOnceHolds == Spec => []HeldOnce
<1>1. IInv => HeldOnce
  BY DEF IInv
<1> QED
  BY <1>1, Invariant, PTL

\* The two DCHECKs of SenderQueue::GetBatch() on deferred RPCs and pending
\* deserialization tasks never fail, so no wake-up of the reader is lost.
THEOREM WillWakeUpHolds == Spec => []WillWakeUp
<1>1. IInv => WillWakeUp
  BY DEF IInv
<1> QED
  BY <1>1, Invariant, PTL

\* GetBatch() returns every sender's batches in order, none twice, and reports
\* the end of a queue only when it has returned all of them.
THEOREM DeliveredHolds == Spec => []Delivered
<1>1. ASSUME IInv PROVE Delivered
  <2>1. TypeOK /\ OrderInv /\ OverInv
    BY <1>1 DEF IInv
  <2>2. ASSUME NEW s \in Senders
        PROVE  /\ got[s] = [k \in 1..Len(got[s]) |-> k]
               /\ QueueOf(s) \in over => Len(got[s]) = snd[s].n
    <3>1. got[s] \in Seq(1..MaxBatches) /\ \A k \in 1..Len(got[s]) : got[s][k] = k
      BY <2>1 DEF TypeOK, OrderInv
    <3>2. got[s] = [k \in 1..Len(got[s]) |-> got[s][k]]
      BY <3>1
    <3>3. got[s] = [k \in 1..Len(got[s]) |-> k]
      BY <3>1, <3>2
    <3> QED
      BY <2>1, <3>3 DEF OverInv
  <2> QED
    BY <2>1, <2>2 DEF Delivered
<1> QED
  BY <1>1, Invariant, PTL

\* num_buffered_bytes_ counts the batches of the receiver, the ones being
\* deserialized included, and CanEnqueue() keeps them within the buffer limit
\* but for one batch of every queue.
THEOREM WithinLimitHolds == Spec => []WithinLimit
<1>1. IInv => WithinLimit
  BY DEF IInv
<1> QED
  BY <1>1, Invariant, PTL

\* KrpcDataStreamRecvr::Close() leaves no RPC, insertion, batch or charge behind.
THEOREM NothingAfterCloseHolds == Spec => []NothingAfterClose
<1>1. ASSUME IInv PROVE NothingAfterClose
  <2> SUFFICES ASSUME cons = "closed"
               PROVE  charged = {} /\ InQueue = {} /\ \A i \in Queues : queue[i].batches = <<>>
    BY DEF NothingAfterClose
  <2>1. \A i \in Queues : queue[i].batches = <<>> /\ queue[i].adding = {} /\ queue[i].deferred = <<>>
    BY <1>1 DEF IInv, StageInv
  <2>2. InQueue = {}
    BY <2>1, EmptySet DEF InQueue
  <2> QED
    BY <1>1, <2>1, <2>2 DEF IInv, ChargedInv
<1> QED
  BY <1>1, Invariant, PTL
=============================================================================

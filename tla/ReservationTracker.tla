-------------------------- MODULE ReservationTracker --------------------------
(***************************************************************************)
(* The tree of buffer reservations (runtime/bufferpool/reservation-        *)
(* tracker.cc) with the query's InitialReservations and the MemTrackers    *)
(* the reservations count against.                                         *)
(*                                                                         *)
(* An increase takes the locks from a tracker towards the root, asking     *)
(* each ancestor for what it cannot give itself, and applies the grants on *)
(* the way back; the lock of an ancestor is released as soon as it has     *)
(* granted, so the whole is not atomic.  The topmost linked MemTracker can *)
(* still refuse, and then the ancestors' grants are taken back.  A         *)
(* transfer locks the two paths below the common ancestor, and not the     *)
(* ancestor.  One action is what a thread does under one lock.             *)
(*                                                                         *)
(* A tracker that nobody owns (the process's, a query's) has no buffers of *)
(* its own.  Close() is a decrease by the whole reservation.               *)
(***************************************************************************)
EXTENDS Integers, Sequences, FiniteSets, SequencesExt, FiniteSetsExt

CONSTANTS
    Trackers, Root,
    PathToRoot,      \* FindPathToRoot(): a tracker, its parent_, and so on to the root
    Limit,           \* reservation_limit_
    Linked,          \* the trackers with a MemTracker
    MemLimit,        \* the limit of a topmost linked MemTracker
    Address,         \* the addresses of the trackers: the lock order of siblings
    Threads,
    Owner,           \* the thread that uses a client's (or sub-) reservation
    Initial,         \* the tracker of the query's InitialReservations
    Claims,          \* initial_reservation_total_claims
    MaxBytes,        \* bound: bytes of one request
    MaxOther,        \* bound: memory of a query that is not reserved
    NoThread

Clients == DOMAIN Owner

\* parent_
Parent(x) == PathToRoot[x][2]

\* The path as a set: x and the trackers above it, or only these.
OnPath(x) == ToSet(PathToRoot[x])
Ancestors(x) == OnPath(x) \ {x}

Children(p) == {x \in Trackers \ {Root} : Parent(x) = p}

\* SubReservations: they only get from and give to their client.
Subs == {x \in Clients : Parent(x) \in Clients}

\* The tracker of the query that the initial reservations are for.
Query == Parent(Initial)

ASSUME TrackerConstants ==
    /\ IsFiniteSet(Trackers) /\ Root \in Trackers /\ Initial \in Trackers \ {Root}
    /\ Limit \in [Trackers -> Nat]
    /\ Linked \subseteq Trackers \ {Root}
    /\ Clients \subseteq Trackers \ {Root, Initial} /\ Owner \in [Clients -> Threads]
    /\ Address \in [Trackers -> Nat]
    /\ \A x, y \in Trackers : Address[x] = Address[y] => x = y
    /\ MemLimit \in Nat /\ Claims \in Nat /\ MaxBytes \in Nat /\ MaxOther \in Nat
    /\ NoThread \notin Threads

\* Following parent_ from a tracker leads to the root, and what is left of the path at a
\* tracker is that tracker's path.
ASSUME PathsToRoot ==
    /\ PathToRoot \in [Trackers -> Seq(Trackers)]
    /\ \A x \in Trackers :
          /\ PathToRoot[x] # <<>> /\ PathToRoot[x][1] = x /\ Last(PathToRoot[x]) = Root
          /\ \A i \in 1..Len(PathToRoot[x]) :
                PathToRoot[PathToRoot[x][i]] = SubSeq(PathToRoot[x], i, Len(PathToRoot[x]))

\* Who is where in the tree: clients and the initial reservations are registered with the
\* trackers of the process, a query or an instance, which nobody owns, and only a client
\* has SubReservations.  A query got its initial reservations, so they fit, and an
\* instance of it has no limit of its own.
ASSUME TreeOfReservations ==
    /\ Children(Initial) = {} /\ Ancestors(Initial) \cap Clients = {}
    /\ \A x \in Clients \ Subs : Ancestors(x) \cap Clients = {}
    /\ \A x \in Subs : Parent(x) \notin Subs
    /\ \A x \in OnPath(Initial) : Claims <= Limit[x]
    /\ \A x \in Clients \ Subs : \A z \in Ancestors(x) :
          Query \in Ancestors(z) => Limit[Query] <= Limit[z]

VARIABLES
    reservation,     \* reservation_
    used,            \* used_reservation_
    children,        \* child_reservations_
    mem,             \* consumption_ of the linked MemTracker, through reservations
    other,           \* the rest of the consumption of a topmost MemTracker
    lock,            \* the holder of a tracker's lock_
    initialLock,     \* the holder of InitialReservations::lock_
    remaining,       \* remaining_initial_reservation_claims_
    th               \* what a thread is doing

vars == <<reservation, used, children, mem, other, lock, initialLock, remaining, th>>

\* GetParentMemTracker() is null: the link whose MemTracker has limits to check.
TopLinks == {x \in Linked : Parent(x) \notin Linked}

Idle == [pc |-> "idle", src |-> Root, dst |-> Root, bytes |-> 0, at |-> Root, ask |-> 0,
         need |-> [x \in Trackers |-> 0], toFit |-> FALSE, alloc |-> FALSE, todo |-> <<>>]

\* A query that has its initial reservation.
Init ==
    /\ reservation = [x \in Trackers |->
                        IF x \in OnPath(Initial) THEN Claims ELSE 0]
    /\ used = [x \in Trackers |-> 0]
    /\ children = [x \in Trackers |-> IF x \in Ancestors(Initial) THEN Claims ELSE 0]
    /\ mem = [x \in Linked |-> reservation[x]]
    /\ other = [x \in TopLinks |-> 0]
    /\ lock = [x \in Trackers |-> NoThread]
    /\ initialLock = NoThread
    /\ remaining = Claims
    /\ th = [t \in Threads |-> Idle]

Unused(x) == reservation[x] - used[x] - children[x]

\* The locks when t gives back all of its own, or just that of x.
Unlocked(t) == [x \in Trackers |-> IF lock[x] = t THEN NoThread ELSE lock[x]]

\* t's operation returns.
Done(t) ==
    /\ lock' = Unlocked(t)
    /\ initialLock' = IF initialLock = t THEN NoThread ELSE initialLock
    /\ th' = [th EXCEPT ![t] = Idle]

\* Mutant: only the topmost link is told.
ChargeTop(x, delta) == IF x \in TopLinks THEN [mem EXCEPT ![x] = @ + delta] ELSE mem

\* Consume(), ConsumeLocal(), Release() or ReleaseLocal() of the linked MemTracker.
Charge(x, delta) == IF x \in Linked THEN [mem EXCEPT ![x] = @ + delta] ELSE mem

Call(t, op) ==
    /\ th[t] = Idle
    /\ th' = [th EXCEPT ![t] = op]
    /\ UNCHANGED <<reservation, used, children, mem, other, lock>>
-----------------------------------------------------------------------------
(***************************************************************************)
(* IncreaseReservation(), IncreaseReservationToFit() and                   *)
(* IncreaseReservationToFitAndAllocate().                                  *)
(***************************************************************************)
IncreaseReservation(t, x, bytes, toFit, alloc) ==
    /\ x \notin Subs /\ Owner[x] = t
    /\ alloc => toFit
    /\ Call(t, [Idle EXCEPT !.pc = "climb", !.src = x, !.at = x, !.bytes = bytes,
                            !.ask = bytes, !.toFit = toFit, !.alloc = alloc])
    /\ UNCHANGED <<initialLock, remaining>>

\* The reservation_increase of a tracker that is asked for th[t].ask bytes.
Increase(t, x) ==
    IF x = th[t].src /\ ~th[t].toFit THEN th[t].ask ELSE Max({0, th[t].ask - Unused(x)})

\* Mutant: only the tracker that asks looks at its limit.
OwnLimitOnly(t, x, incr) == x = th[t].src /\ reservation[x] + incr > Limit[x]

LimitExceeded(t, x, incr) == incr > 0 /\ reservation[x] + incr > Limit[x]

\* A tracker is locked and decides: it has enough, refuses, or asks its parent.
Climb(t) ==
    LET x == th[t].at
        incr == Increase(t, x)
        asked == [th[t] EXCEPT !.need[x] = incr]
        refused == LimitExceeded(t, x, incr)
    IN  /\ th[t].pc = "climb" /\ lock[x] = NoThread
        /\ \/ refused /\ Done(t)
           \/ /\ ~refused
              /\ lock' = [lock EXCEPT ![x] = t]
              /\ th' = [th EXCEPT ![t] =
                    IF incr = 0 \/ x = Root THEN [asked EXCEPT !.pc = "grant"]
                    ELSE [asked EXCEPT !.at = Parent(x), !.ask = incr]]
              /\ UNCHANGED initialLock
        /\ UNCHANGED <<reservation, used, children, mem, other, remaining>>

\* TryConsumeFromMemTracker(): the topmost link checks the limit.
MemRefuses(x, incr) ==
    x \in TopLinks /\ incr > 0 /\ mem[x] + other[x] + incr > MemLimit

\* The tracker on src's path below x, and what it asked for.
Below(x, src) == CHOOSE y \in Children(x) : y \in OnPath(src)

\* The ancestors have granted: this tracker's state changes, and its lock is released.
Grant(t) ==
    LET x == th[t].at
        src == th[t].src
        incr == th[t].need[x]
    IN  /\ th[t].pc = "grant"
        /\ ~MemRefuses(x, incr)
        /\ reservation' = [reservation EXCEPT ![x] = @ + incr]
        /\ mem' = Charge(x, incr)
        /\ children' = IF x = src THEN children
                       ELSE [children EXCEPT ![x] = @ + th[t].need[Below(x, src)]]
        /\ used' = IF x = src /\ th[t].alloc THEN [used EXCEPT ![x] = @ + th[t].bytes] ELSE used
        /\ lock' = [lock EXCEPT ![x] = NoThread]
        /\ th' = [th EXCEPT ![t] = IF x = src THEN Idle ELSE [@ EXCEPT !.at = Below(x, src)]]
        /\ UNCHANGED <<other, initialLock, remaining>>

\* The MemTracker refuses: the parent's reservation is decreased by as much again.
Rollback(t) ==
    LET x == th[t].at
        incr == th[t].need[x]
    IN  /\ th[t].pc = "grant"
        /\ MemRefuses(x, incr)
        /\ th' = [th EXCEPT ![t].pc = "release", ![t].at = Parent(x), ![t].ask = incr]
        /\ UNCHANGED <<reservation, used, children, mem, other, lock, initialLock, remaining>>

(***************************************************************************)
(* DecreaseReservation(): every tracker on the path is locked and changed, *)
(* and all stay locked until the root has been reached.                    *)
(***************************************************************************)
DecreaseReservation(t, x, bytes) ==
    /\ x \notin Subs /\ Owner[x] = t /\ bytes <= Unused(x)
    /\ Call(t, [Idle EXCEPT !.pc = "release", !.src = x, !.at = x, !.ask = bytes])
    /\ UNCHANGED <<initialLock, remaining>>

\* What a decrease takes from a tracker: the same on every level.
Returned(t, x) == th[t].ask

Release(t) ==
    LET x == th[t].at
    IN  /\ th[t].pc = "release" /\ lock[x] = NoThread
        /\ reservation' = [reservation EXCEPT ![x] = @ - Returned(t, x)]
        /\ children' = IF x = th[t].src THEN children ELSE [children EXCEPT ![x] = @ - th[t].ask]
        /\ mem' = Charge(x, 0 - th[t].ask)
        /\ \/ x = Root /\ Done(t)
           \/ /\ x # Root
              /\ lock' = [lock EXCEPT ![x] = t]
              /\ th' = [th EXCEPT ![t].at = Parent(x)]
              /\ UNCHANGED initialLock
        /\ UNCHANGED <<used, other, remaining>>
-----------------------------------------------------------------------------
(***************************************************************************)
(* TransferReservationTo().                                                *)
(***************************************************************************)
\* The lowest common ancestor: its path is what the two paths share.  And the trackers from
\* x up to just below it.
Common(x, y) == CHOOSE z \in Trackers : OnPath(z) = OnPath(x) \cap OnPath(y)
PathBelow(x, top) == SubSeq(PathToRoot[x], 1, Len(PathToRoot[x]) - Len(PathToRoot[top]))

\* Mutant: the source's path is locked first, whatever the addresses.
SourceFirst(x, y) ==
    LET top == Common(x, y)
    IN  PathBelow(x, top) \o PathBelow(y, top)

\* The order in which the two paths are locked: lock_sibling_subtree_first().
LockOrder(x, y) ==
    LET top == Common(x, y)
        p == PathBelow(x, top)
        q == PathBelow(y, top)
    IN  IF p = <<>> \/ q = <<>> \/ Address[Last(p)] < Address[Last(q)] THEN p \o q ELSE q \o p

Transfer(x, y, bytes) ==
    [Idle EXCEPT !.pc = "transfer", !.src = x, !.dst = y, !.bytes = bytes,
                 !.todo = LockOrder(x, y)]

\* A client gives to another of its query (the builder and the probe of a join, once both
\* have claimed theirs); SaveReservation() and RestoreReservation().
TransferReservationTo(t, x, y, bytes) ==
    /\ Owner[x] = t /\ x # y /\ Common(x, y) # Root /\ bytes <= Unused(x)
    /\ x \in Subs => y = Parent(x)
    /\ y \in Subs => x = Parent(y)
    /\ \A s \in Threads : th[s].src = Initial => th[s].dst # y
    /\ Call(t, Transfer(x, y, bytes))
    /\ UNCHANGED <<initialLock, remaining>>

\* InitialReservations::Claim(), by a client that has just been registered and that nobody
\* gives anything yet (the planner sees to it that there is enough, and that it fits), and
\* Return().
Claim(t, y, bytes) ==
    /\ y \notin Subs /\ Owner[y] = t /\ Query \in OnPath(y) /\ initialLock = NoThread
    /\ bytes <= remaining /\ reservation[y] = 0 /\ bytes <= Limit[y]
    /\ \A s \in Threads : th[s].dst # y
    /\ Call(t, Transfer(Initial, y, bytes))
    /\ initialLock' = t
    /\ remaining' = remaining - bytes

Return(t, x, bytes) ==
    /\ x \notin Subs /\ Owner[x] = t /\ Query \in OnPath(x) /\ initialLock = NoThread
    /\ bytes <= Unused(x)
    /\ Call(t, Transfer(x, Initial, bytes))
    /\ initialLock' = t
    /\ UNCHANGED remaining

LockNext(t) ==
    /\ th[t].pc = "transfer" /\ th[t].todo # <<>>
    /\ lock[Head(th[t].todo)] = NoThread
    /\ lock' = [lock EXCEPT ![Head(th[t].todo)] = t]
    /\ th' = [th EXCEPT ![t].todo = Tail(@)]
    /\ UNCHANGED <<reservation, used, children, mem, other, initialLock, remaining>>

\* With all locks: the limits of the receiving path, then every tracker of both paths.
Apply(t) ==
    LET x == th[t].src
        y == th[t].dst
        bytes == th[t].bytes
        top == Common(x, y)
        from == ToSet(PathBelow(x, top))
        to == ToSet(PathBelow(y, top))
        change == [z \in Trackers |-> IF z \in from THEN 0 - bytes
                                      ELSE IF z \in to THEN bytes ELSE 0]
        exceeds == \E z \in to : reservation[z] + bytes > Limit[z]
    IN  /\ th[t].pc = "transfer" /\ th[t].todo = <<>>
        /\ \/ exceeds /\ Done(t) /\ UNCHANGED <<reservation, children, mem>>
           \/ /\ ~exceeds
              /\ reservation' = [z \in Trackers |-> reservation[z] + change[z]]
              /\ mem' = [z \in Linked |-> mem[z] + change[z]]
              /\ children' = [z \in Trackers |->
                                IF z \in {x, y} THEN children[z] ELSE children[z] + change[z]]
              /\ th' = [th EXCEPT ![t].pc = "settle"]
              /\ UNCHANGED <<lock, initialLock>>
        /\ UNCHANGED <<used, other, remaining>>

\* Mutant: the common ancestor's child reservations stay.
NoSettle(t) == UNCHANGED children

\* A source or destination that is the common ancestor is changed without its lock.
SettleAncestor(t) ==
    LET x == th[t].src
        y == th[t].dst
    IN  children' = CASE Common(x, y) = y -> [children EXCEPT ![y] = @ - th[t].bytes]
                      [] Common(x, y) = x -> [children EXCEPT ![x] = @ + th[t].bytes]
                      [] OTHER -> children

\* The transfer returns; Return() then gives back what no claim needs.
Settle(t) ==
    LET excess == reservation[Initial] - remaining
    IN  /\ th[t].pc = "settle"
        /\ SettleAncestor(t)
        /\ \/ /\ th[t].dst = Initial /\ excess > 0
              /\ lock' = Unlocked(t)
              /\ th' = [th EXCEPT ![t] = [Idle EXCEPT !.pc = "release", !.src = Initial,
                                                      !.at = Initial, !.ask = excess]]
              /\ UNCHANGED initialLock
           \/ ~(th[t].dst = Initial /\ excess > 0) /\ Done(t)
        /\ UNCHANGED <<reservation, used, mem, other, remaining>>
-----------------------------------------------------------------------------
\* AllocateFrom() and ReleaseTo()
AllocateFrom(t, x, bytes) ==
    /\ x \notin Subs /\ Owner[x] = t /\ th[t] = Idle /\ lock[x] = NoThread /\ bytes <= Unused(x)
    /\ used' = [used EXCEPT ![x] = @ + bytes]
    /\ UNCHANGED <<reservation, children, mem, other, lock, initialLock, remaining, th>>

ReleaseTo(t, x, bytes) ==
    /\ x \notin Subs /\ Owner[x] = t /\ th[t] = Idle /\ lock[x] = NoThread /\ bytes <= used[x]
    /\ used' = [used EXCEPT ![x] = @ - bytes]
    /\ UNCHANGED <<reservation, children, mem, other, lock, initialLock, remaining, th>>

\* Memory that is not reserved comes and goes: Consume() checks no limit.
OtherMemory(x, bytes) ==
    /\ other' = [other EXCEPT ![x] = bytes]
    /\ UNCHANGED <<reservation, used, children, mem, lock, initialLock, remaining, th>>

Next ==
    \/ \E t \in Threads : Climb(t) \/ Grant(t) \/ Rollback(t) \/ Release(t)
                          \/ LockNext(t) \/ Apply(t) \/ Settle(t)
    \/ \E t \in Threads, x \in Clients, bytes \in 1..MaxBytes :
          \/ \E toFit, alloc \in BOOLEAN : IncreaseReservation(t, x, bytes, toFit, alloc)
          \/ DecreaseReservation(t, x, bytes)
          \/ \E y \in Clients : TransferReservationTo(t, x, y, bytes)
          \/ Claim(t, x, bytes) \/ Return(t, x, bytes)
          \/ AllocateFrom(t, x, bytes) \/ ReleaseTo(t, x, bytes)
    \/ \E x \in TopLinks, bytes \in 0..MaxOther : OtherMemory(x, bytes)

Spec == Init /\ [][Next]_vars
-----------------------------------------------------------------------------
Operation ==
    [pc : {"idle", "climb", "grant", "release", "transfer", "settle"},
     src : Trackers, dst : Trackers, bytes : Nat, at : Trackers, ask : Nat,
     need : [Trackers -> Nat], toFit : BOOLEAN, alloc : BOOLEAN, todo : Seq(Trackers)]

\* The types of the variables.
TypeOK ==
    /\ reservation \in [Trackers -> Nat] /\ used \in [Trackers -> Nat]
    /\ children \in [Trackers -> Nat] /\ mem \in [Linked -> Nat]
    /\ other \in [TopLinks -> 0..MaxOther]
    /\ lock \in [Trackers -> Threads \cup {NoThread}]
    /\ initialLock \in Threads \cup {NoThread} /\ remaining \in 0..Claims
    /\ th \in [Threads -> Operation]

\* CheckConsistency(), in every state and not only where the code asserts it: a tracker
\* stays within its limit, and what is used and what the children have fits in.  (This and
\* the types.)
Consistent ==
    /\ TypeOK
    /\ \A x \in Trackers : /\ reservation[x] <= Limit[x]
                           /\ used[x] + children[x] <= reservation[x]

\* The sum of amount over S: the number of all their bytes.
Total(amount, S) == Cardinality(UNION {{c} \X (1..amount[c]) : c \in S})

\* What the documentation promises of a refused increase ("no modifications are made"), of
\* transfers and of roll-backs: once nothing is under way below a tracker, its child
\* reservations are what its children have, to the byte; and a tracker nobody owns keeps
\* nothing for itself, what it has beyond its children goes back to the root, also when a
\* MemTracker refused after the ancestors had granted.
ChildrenAddUp ==
    /\ \A p \in Trackers :
          (\A c \in Children(p) : lock[c] = NoThread) =>
              children[p] = Total(reservation, Children(p))
    /\ \A p \in Trackers \ (Clients \cup {Initial}) :
          lock[p] = NoThread => reservation[p] = children[p] /\ used[p] = 0

\* The consumption that the linked MemTrackers show is the reservation, and the initial
\* reservations cover what is still to be claimed.
AccountsAgree ==
    /\ \A x \in Linked : mem[x] = reservation[x]
    /\ initialLock = NoThread => reservation[Initial] = remaining

\* The lock thread t waits for.
Waits(t) ==
    CASE th[t].pc \in {"climb", "release"} -> lock[th[t].at]
      [] th[t].pc = "transfer" /\ th[t].todo # <<>> -> lock[Head(th[t].todo)]
      [] OTHER -> NoThread

\* Locks are taken bottom-up and sibling subtrees in the order of their addresses, also by
\* roll-backs and transfers: no threads wait for each other in a circle.
NoLockCycle ==
    \A S \in (SUBSET Threads) \ {{}} : \E t \in S : Waits(t) \notin S
===============================================================================

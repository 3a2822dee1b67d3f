----------------------- MODULE ReservationTrackerProofs -----------------------
(***************************************************************************)
(* The invariants of ReservationTracker, for any tree of trackers, any     *)
(* threads and any numbers: limits and exact sums in every state between   *)
(* two locks, and no cycle of waiting threads.                             *)
(***************************************************************************)
EXTENDS ReservationTracker, FiniteSetTheorems, WellFoundedInduction, TLAPS

(***************************************************************************)
(* The inductive invariant.                                                *)
(*                                                                         *)
(* A tracker's child reservations and the reservation of a child are       *)
(* changed under different locks, so they differ while a thread holds the  *)
(* child's lock.  Pending(c) is what the holder of c's lock has done to    *)
(* only one of the two; Share is what c will have once it is done, and the *)
(* child reservations are the sum of the shares in every state.            *)
(***************************************************************************)
Held(t) == {x \in Trackers : lock[x] = t}

\* What the thread with the operation o has pending at c, whose lock it has.
PendingOf(o, c) ==
    CASE o.pc = "grant" /\ c = o.at -> o.need[c]
      [] o.pc = "release" /\ Parent(c) = o.at -> o.ask
      [] o.pc = "settle" /\ c = o.src /\ c \in Subs -> o.bytes
      [] o.pc = "settle" /\ c = o.dst /\ c \in Subs -> 0 - o.bytes
      [] OTHER -> 0

Pending(c) == IF c = Root \/ lock[c] = NoThread THEN 0 ELSE PendingOf(th[lock[c]], c)

Share == [c \in Trackers |-> reservation[c] + Pending(c)]

\* Clients and the initial reservations; nobody allocates from the other trackers.
Owned == Clients \cup {Initial}
TopClients == Clients \ Subs

\* The trackers a transfer between x and y locks.
Both(x, y) == (OnPath(x) \ OnPath(y)) \cup (OnPath(y) \ OnPath(x))

\* A thread works for a client of its own, or has the lock of the initial reservations.
Uses(t, x) == IF x = Initial THEN initialLock = t ELSE x \in Clients /\ Owner[x] = t

MineOK(t) == th[t].pc # "idle" => Uses(t, th[t].src)

IdleOK(t) == th[t].pc = "idle" => th[t] = Idle /\ Held(t) = {} /\ initialLock # t

\* While the thread climbs, every tracker below has its lock and room for what it asks.
ClimbOK(t) ==
    LET o == th[t]
    IN  o.pc = "climb" =>
          /\ o.src \in TopClients /\ o.at \in OnPath(o.src) /\ o.ask > 0
          /\ Held(t) = OnPath(o.src) \ OnPath(o.at)
          /\ \A z \in Held(t) : o.need[z] = o.ask /\ reservation[z] + o.ask <= Limit[z]
          /\ o.alloc => o.toFit
          /\ o.at = o.src => o.ask = o.bytes
          /\ o.at # o.src /\ o.alloc => o.bytes <= Unused(o.src) + o.ask
          /\ initialLock # t

GrantOK(t) ==
    LET o == th[t]
    IN  o.pc = "grant" =>
          /\ o.src \in TopClients /\ o.at \in OnPath(o.src)
          /\ Held(t) = (OnPath(o.src) \ OnPath(o.at)) \cup {o.at}
          /\ \A z \in Held(t) : /\ o.need[z] = o.need[o.src]
                                /\ reservation[z] + o.need[z] <= Limit[z]
          /\ o.need[o.src] = 0 => o.at = o.src
          /\ o.alloc => o.bytes <= Unused(o.src) + o.need[o.src]
          /\ initialLock # t

ReleaseOK(t) ==
    LET o == th[t]
    IN  o.pc = "release" =>
          /\ o.src \in TopClients \cup {Initial} /\ o.at \in OnPath(o.src)
          /\ Held(t) = OnPath(o.src) \ OnPath(o.at)
          /\ o.at = o.src => o.ask <= Unused(o.src)
          /\ initialLock = t => o.src = Initial

\* The transfers there are: within a client, or between clients and the initial
\* reservations of a query.
ToParent(x, y) == x \in Subs /\ y = Parent(x)
ToSub(x, y) == y \in Subs /\ x = Parent(y)
Across(x, y) == x \in TopClients \cup {Initial} /\ y \in TopClients \cup {Initial} /\ x # y
Transferable(x, y) == ToParent(x, y) \/ ToSub(x, y) \/ Across(x, y)

\* The locks H of the first trackers of order are taken, those of todo are not.
Taken(order, todo, H) ==
    \E k \in 0..Len(order) : /\ todo = SubSeq(order, k + 1, Len(order))
                             /\ H = {order[i] : i \in 1..k}

TransferOK(t) ==
    LET o == th[t]
    IN  o.pc = "transfer" =>
          /\ Transferable(o.src, o.dst) /\ o.bytes <= Unused(o.src)
          /\ Taken(LockOrder(o.src, o.dst), o.todo, Held(t))
          /\ initialLock = t => Initial \in {o.src, o.dst}
          /\ o.dst = Initial => initialLock = t

\* Nobody gives anything to a client that is claiming.
ClaimOK(t) ==
    LET o == th[t]
    IN  o.pc = "transfer" /\ o.src = Initial =>
          /\ Query \in OnPath(o.dst) /\ Owner[o.dst] = t
          /\ reservation[o.dst] = 0 /\ o.bytes <= Limit[o.dst]
          /\ \A s \in Threads \ {t} : th[s].dst # o.dst

SettleOK(t) ==
    LET o == th[t]
    IN  o.pc = "settle" =>
          /\ Transferable(o.src, o.dst) /\ Held(t) = Both(o.src, o.dst)
          /\ o.dst \in Subs => o.bytes <= Unused(o.src) /\ o.bytes <= reservation[o.dst]
          /\ initialLock = t => Initial \in {o.src, o.dst}
          /\ o.dst = Initial => initialLock = t

\* What the initial reservations have beyond what is still to be claimed.
InitialOwed ==
    IF initialLock = NoThread THEN 0
    ELSE LET o == th[initialLock]
         IN  CASE o.pc = "transfer" /\ o.src = Initial -> o.bytes
               [] o.pc = "settle" /\ o.dst = Initial -> o.bytes
               [] o.pc = "release" /\ o.at = Initial -> o.ask
               [] OTHER -> 0

InitialAgrees == reservation[Initial] = remaining + InitialOwed

Bounds ==
    \A x \in Trackers : reservation[x] <= Limit[x] /\ used[x] + children[x] <= reservation[x]

MemAgrees == \A x \in Linked : mem[x] = reservation[x]

\* What nobody owns keeps nothing for itself.
Passed ==
    /\ \A p \in Trackers \ Owned : reservation[p] = children[p]
    /\ \A p \in Trackers \ TopClients : used[p] = 0

SumsAgree == \A p \in Trackers : children[p] = Total(Share, Children(p))

Working(t) ==
    /\ MineOK(t) /\ IdleOK(t) /\ ClimbOK(t) /\ GrantOK(t) /\ ReleaseOK(t)
    /\ TransferOK(t) /\ ClaimOK(t) /\ SettleOK(t)

IInv ==
    /\ TypeOK /\ Bounds /\ MemAgrees /\ Passed /\ SumsAgree /\ InitialAgrees
    /\ \A t \in Threads : Working(t)
-----------------------------------------------------------------------------
(***************************************************************************)
(* The tree.  The paths enter the proofs only through these facts.         *)
(***************************************************************************)
Depth(x) == Len(PathToRoot[x])

\* A non-empty set of numbers has a least one: what the inductions along a path and over
\* the lock order rest on.
LEMMA LeastNumber ==
    ASSUME NEW T \in SUBSET Nat, T # {}
    PROVE  \E n \in T : \A m \in T : n <= m
<1> DEFINE R == OpToRel(<, Nat)
<1>1. IsWellFoundedOn(R, Nat)
  BY NatLessThanWellFounded, Zenon
<1>2. \A m, n \in Nat : m < n => <<m, n>> \in R
  BY SMT DEF OpToRel
<1> HIDE DEF R
<1>3. PICK n \in T : \A m \in T : <<m, n>> \notin R
  BY <1>1, WFMin, Zenon
<1>4. ASSUME NEW m \in T
      PROVE  n <= m
  <2>1. m \in Nat /\ n \in Nat
    OBVIOUS
  <2>2. ~(m < n)
    BY <1>2, <1>3, <2>1, Zenon
  <2> QED
    BY <2>1, <2>2, SMT
<1> QED
  BY <1>4, Zenon

LEMMA PathFacts ==
    ASSUME NEW x \in Trackers
    PROVE  /\ PathToRoot[x] \in Seq(Trackers) /\ Depth(x) \in Nat /\ Depth(x) > 0
           /\ PathToRoot[x][1] = x /\ PathToRoot[x][Depth(x)] = Root
<1>1. /\ PathToRoot[x] \in Seq(Trackers) /\ PathToRoot[x] # <<>> /\ PathToRoot[x][1] = x
      /\ Last(PathToRoot[x]) = Root
  BY PathsToRoot
<1> QED
  BY <1>1 DEF Depth, Last

LEMMA OnPathIs ==
    ASSUME NEW x \in Trackers, NEW z
    PROVE  z \in OnPath(x) <=> \E i \in 1..Depth(x) : z = PathToRoot[x][i]
BY PathFacts DEF OnPath, ToSet, Depth

LEMMA PathAt ==
    ASSUME NEW x \in Trackers, NEW i \in 1..Depth(x), NEW z, z = PathToRoot[x][i]
    PROVE  /\ z \in Trackers /\ Depth(z) = Depth(x) - i + 1
           /\ \A j \in 1..Depth(z) : PathToRoot[z][j] = PathToRoot[x][i + j - 1]
<1>1. PathToRoot[x] \in Seq(Trackers) /\ Depth(x) \in Nat
  BY PathFacts
<1>2. z \in Trackers
  BY <1>1 DEF Depth
<1>3. PathToRoot[z] = SubSeq(PathToRoot[x], i, Len(PathToRoot[x]))
  BY PathsToRoot DEF Depth
<1> QED
  BY <1>1, <1>2, <1>3 DEF Depth

\* A tracker is on its own path, and so is the root.
LEMMA TreeSelf ==
    ASSUME NEW x \in Trackers
    PROVE  /\ x \in OnPath(x) /\ Root \in OnPath(x) /\ OnPath(x) \subseteq Trackers
           /\ Depth(x) \in Nat /\ Depth(x) > 0
<1>1. Depth(x) \in Nat /\ Depth(x) > 0 /\ PathToRoot[x][1] = x /\ PathToRoot[x][Depth(x)] = Root
  BY PathFacts
<1>2. 1 \in 1..Depth(x) /\ Depth(x) \in 1..Depth(x)
  BY <1>1, SMT
<1>3. x \in OnPath(x) /\ Root \in OnPath(x)
  BY <1>1, <1>2, OnPathIs, Zenon
<1>4. OnPath(x) \subseteq Trackers
  BY OnPathIs, PathAt
<1> QED
  BY <1>1, <1>3, <1>4, Zenon

\* A path goes up: it contains the paths of its trackers.
LEMMA TreeUp ==
    ASSUME NEW x \in Trackers, NEW z \in OnPath(x)
    PROVE  /\ z \in Trackers /\ OnPath(z) \subseteq OnPath(x) /\ Depth(z) <= Depth(x)
           /\ Depth(z) = Depth(x) => z = x
<1>1. PICK i \in 1..Depth(x) : z = PathToRoot[x][i]
  BY OnPathIs, Zenon
<1>2. /\ z \in Trackers /\ Depth(z) = Depth(x) - i + 1 /\ Depth(x) \in Nat
      /\ \A j \in 1..Depth(z) : PathToRoot[z][j] = PathToRoot[x][i + j - 1]
  <2>1. Depth(x) \in Nat
    BY PathFacts
  <2> QED
    BY <1>1, <2>1, PathAt
<1>3. Depth(z) <= Depth(x) /\ (Depth(z) = Depth(x) => i = 1)
  BY <1>2, SMT
<1>4. ASSUME NEW w \in OnPath(z)
      PROVE  w \in OnPath(x)
  <2>1. PICK j \in 1..Depth(z) : w = PathToRoot[z][j]
    BY <1>2, OnPathIs, Zenon
  <2>2. i + j - 1 \in 1..Depth(x)
    BY <1>2, <2>1, SMT
  <2> QED
    BY <1>2, <2>1, <2>2, OnPathIs, Zenon
<1>5. Depth(z) = Depth(x) => z = x
  BY <1>1, <1>3, PathFacts, Zenon
<1> QED
  BY <1>2, <1>3, <1>4, <1>5, Zenon

\* Two trackers of a path: the one nearer to the root is above the other.
LEMMA TreeLinear ==
    ASSUME NEW x \in Trackers, NEW z \in OnPath(x), NEW w \in OnPath(x), Depth(z) <= Depth(w)
    PROVE  z \in OnPath(w)
<1>1. PICK i \in 1..Depth(x) : z = PathToRoot[x][i]
  BY OnPathIs, Zenon
<1>2. PICK j \in 1..Depth(x) : w = PathToRoot[x][j]
  BY OnPathIs, Zenon
<1>3. Depth(z) = Depth(x) - i + 1 /\ Depth(x) \in Nat
  BY <1>1, PathAt, PathFacts, Zenon
<1>4. /\ w \in Trackers /\ Depth(w) = Depth(x) - j + 1
      /\ \A k \in 1..Depth(w) : PathToRoot[w][k] = PathToRoot[x][j + k - 1]
  BY <1>2, PathAt, Zenon
<1>5. i - j + 1 \in 1..Depth(w) /\ j + (i - j + 1) - 1 = i
  BY <1>3, <1>4, SMT
<1>6. PathToRoot[w][i - j + 1] = z
  BY <1>1, <1>4, <1>5, SMT
<1> QED
  BY <1>4, <1>5, <1>6, OnPathIs, Zenon

LEMMA TreeParent ==
    ASSUME NEW x \in Trackers, x # Root
    PROVE  /\ Parent(x) \in Trackers /\ Depth(x) = Depth(Parent(x)) + 1
           /\ OnPath(x) = {x} \cup OnPath(Parent(x)) /\ x \notin OnPath(Parent(x))
           /\ Parent(x) \in OnPath(x) /\ Parent(x) # x
<1>1. Depth(x) \in Nat /\ PathToRoot[x][1] = x /\ PathToRoot[x][Depth(x)] = Root /\ Depth(x) > 0
  BY PathFacts
<1>2. Depth(x) # 1
  BY <1>1, SMT
<1>3. 2 \in 1..Depth(x)
  BY <1>1, <1>2, SMT
<1>4. /\ Parent(x) \in Trackers /\ Depth(Parent(x)) = Depth(x) - 2 + 1
      /\ \A j \in 1..Depth(Parent(x)) : PathToRoot[Parent(x)][j] = PathToRoot[x][2 + j - 1]
  BY <1>3, PathAt DEF Parent
<1>5. Parent(x) \in OnPath(x)
  BY <1>3, OnPathIs, Zenon DEF Parent
<1>6. OnPath(Parent(x)) \subseteq OnPath(x)
  BY <1>5, TreeUp, Zenon
<1>7. ASSUME NEW z \in OnPath(x), z # x
      PROVE  z \in OnPath(Parent(x))
  <2>1. PICK i \in 1..Depth(x) : z = PathToRoot[x][i]
    BY OnPathIs, Zenon
  <2>2. i # 1
    BY <1>1, <1>7, <2>1, Zenon
  <2>3. i - 1 \in 1..Depth(Parent(x)) /\ 2 + (i - 1) - 1 = i
    BY <1>1, <1>4, <2>2, SMT
  <2>4. PathToRoot[Parent(x)][i - 1] = z
    BY <1>4, <2>1, <2>3, SMT
  <2> QED
    BY <1>4, <2>3, <2>4, OnPathIs, Zenon
<1>8. x \in OnPath(x)
  BY TreeSelf, Zenon
<1>9. Depth(x) = Depth(Parent(x)) + 1 /\ Depth(Parent(x)) \in Nat
  BY <1>1, <1>3, <1>4, SMT
<1>10. x \notin OnPath(Parent(x))
  <2> SUFFICES ASSUME x \in OnPath(Parent(x)) PROVE FALSE
    OBVIOUS
  <2>1. Depth(x) <= Depth(Parent(x))
    BY <1>4, TreeUp, Zenon
  <2> QED
    BY <1>9, <2>1, SMT
<1>11. Parent(x) # x
  BY <1>10, <1>8, Zenon
<1> QED
  BY <1>4, <1>5, <1>6, <1>7, <1>8, <1>9, <1>10, <1>11, Zenon

LEMMA TreeRoot ==
    /\ Root \in Trackers /\ OnPath(Root) = {Root} /\ Depth(Root) = 1
<1>1. Root \in Trackers
  BY TrackerConstants
<1>2. /\ PathToRoot[Root][Depth(Root)] = Root /\ Depth(Root) \in Nat /\ Depth(Root) > 0
  BY <1>1, PathFacts
<1>3. Depth(Root) \in 1..Depth(Root)
  BY <1>2, SMT
<1>4. Depth(Root) = Depth(Root) - Depth(Root) + 1
  BY <1>1, <1>2, <1>3, PathAt
<1>5. Depth(Root) = 1
  BY <1>2, <1>4, SMT
<1>6. ASSUME NEW z \in OnPath(Root)
      PROVE  z = Root
  <2>1. /\ z \in Trackers /\ Depth(z) <= 1 /\ (Depth(z) = Depth(Root) => z = Root)
    BY <1>1, <1>5, TreeUp, Zenon
  <2>2. Depth(z) \in Nat /\ Depth(z) > 0
    BY <2>1, PathFacts, Zenon
  <2>3. Depth(z) = 1
    BY <2>1, <2>2, SMT
  <2> QED
    BY <2>1, <2>3, <1>5, Zenon
<1>7. Root \in OnPath(Root)
  BY <1>1, TreeSelf, Zenon
<1> QED
  BY <1>1, <1>5, <1>6, <1>7, Zenon

\* A path has one tracker at each depth, so at most one child of a tracker.
LEMMA TreeUnique ==
    ASSUME NEW x \in Trackers, NEW z \in OnPath(x), NEW w \in OnPath(x)
    PROVE  /\ Depth(z) = Depth(w) => z = w
           /\ z # Root /\ w # Root /\ Parent(z) = Parent(w) => z = w
<1>1. z \in Trackers /\ w \in Trackers /\ Depth(z) \in Nat /\ Depth(w) \in Nat
  BY TreeUp, TreeSelf, Zenon
<1>2. ASSUME Depth(z) = Depth(w)
      PROVE  z = w
  <2>1. Depth(z) <= Depth(w)
    BY <1>1, <1>2, SMT
  <2>2. z \in OnPath(w)
    BY <2>1, TreeLinear, Zenon
  <2> QED
    BY <1>1, <1>2, <2>2, TreeUp, Zenon
<1>3. ASSUME z # Root, w # Root, Parent(z) = Parent(w)
      PROVE  z = w
  <2>1. Depth(z) = Depth(Parent(z)) + 1 /\ Depth(w) = Depth(Parent(w)) + 1
    BY <1>1, <1>3, TreeParent, Zenon
  <2>2. Depth(z) = Depth(w)
    BY <2>1, <1>3
  <2> QED
    BY <2>2, <1>2
<1> QED
  BY <1>2, <1>3, Zenon

\* The child of a tracker on a path through it, and what Below() chooses.
LEMMA TreeBelow ==
    ASSUME NEW x \in Trackers, NEW z \in OnPath(x), z # x
    PROVE  /\ Below(z, x) \in Children(z) /\ Below(z, x) \in OnPath(x)
           /\ \A c \in Children(z) : c \in OnPath(x) => c = Below(z, x)
<1>1. PICK i \in 1..Depth(x) : z = PathToRoot[x][i]
  BY OnPathIs, Zenon
<1>2. PathToRoot[x][1] = x /\ Depth(x) \in Nat
  BY PathFacts
<1>3. i # 1
  BY <1>1, <1>2, Zenon
<1>4. i - 1 \in 1..Depth(x)
  BY <1>2, <1>3, SMT
<1>5. PICK b : b = PathToRoot[x][i - 1]
  OBVIOUS
<1>6. /\ b \in Trackers /\ Depth(b) = Depth(x) - (i - 1) + 1
      /\ \A j \in 1..Depth(b) : PathToRoot[b][j] = PathToRoot[x][(i - 1) + j - 1]
  BY <1>4, <1>5, PathAt
<1>7. 2 \in 1..Depth(b) /\ Depth(b) # 1 /\ (i - 1) + 2 - 1 = i
  BY <1>2, <1>6, SMT
<1>8. Parent(b) = z
  BY <1>1, <1>6, <1>7, SMT DEF Parent
<1>9. b # Root
  BY <1>7, TreeRoot
<1>10. b \in Children(z) /\ b \in OnPath(x)
  BY <1>4, <1>5, <1>6, <1>8, <1>9, OnPathIs, Zenon DEF Children
<1>11. Below(z, x) \in Children(z) /\ Below(z, x) \in OnPath(x)
  BY <1>10, Zenon DEF Below
<1>12. ASSUME NEW c \in Children(z), c \in OnPath(x)
       PROVE  c = Below(z, x)
  BY <1>11, <1>12, TreeUnique, Zenon DEF Children
<1> QED
  BY <1>11, <1>12, Zenon
-----------------------------------------------------------------------------
(***************************************************************************)
(* Sums over a finite set of trackers.                                     *)
(***************************************************************************)
BytesOf(f, S) == UNION {{c} \X (1..f[c]) : c \in S}

LEMMA BytesIn ==
    ASSUME NEW f, NEW S, NEW b
    PROVE  b \in BytesOf(f, S) <=> \E c \in S : b \in {c} \X (1..f[c])
BY Zenon DEF BytesOf

LEMMA BytesFinite ==
    ASSUME NEW f \in [Trackers -> Nat], NEW S \in SUBSET Trackers
    PROVE  IsFiniteSet(S) /\ IsFiniteSet(BytesOf(f, S))
<1>1. IsFiniteSet(S)
  <2>1. IsFiniteSet(Trackers)
    BY TrackerConstants
  <2> QED
    BY <2>1, FS_Subset, Zenon
<1> DEFINE T == {{c} \X (1..f[c]) : c \in S}
           g == [c \in S |-> {c} \X (1..f[c])]
<1>2. g \in Surjection(S, T)
  BY Zenon DEF Surjection
<1>3. IsFiniteSet(T)
  <2> HIDE DEF T, g
  <2> QED
    BY <1>1, <1>2, FS_Surjection, Zenon
<1>4. ASSUME NEW U \in T
      PROVE  IsFiniteSet(U)
  <2>1. PICK c \in S : U = {c} \X (1..f[c])
    BY Zenon
  <2>2. f[c] \in Nat
    OBVIOUS
  <2>3. f[c] \in Int /\ 1 \in Int
    BY <2>2, SMT
  <2>4. IsFiniteSet(1..f[c])
    BY <2>3, FS_Interval, Zenon
  <2>5. IsFiniteSet({c})
    BY FS_Singleton, Zenon
  <2> QED
    BY <2>1, <2>4, <2>5, FS_Product, Zenon
<1>5. IsFiniteSet(UNION T)
  <2> HIDE DEF T
  <2> QED
    BY <1>3, <1>4, FS_UNION, Zenon
<1> QED
  BY <1>1, <1>5, Zenon DEF BytesOf

LEMMA TotalType ==
    ASSUME NEW f \in [Trackers -> Nat], NEW S \in SUBSET Trackers
    PROVE  Total(f, S) \in Nat
<1>1. IsFiniteSet(BytesOf(f, S))
  BY BytesFinite, Zenon
<1>2. Cardinality(BytesOf(f, S)) \in Nat
  BY <1>1, FS_CardinalityType, Zenon
<1> QED
  BY <1>2, Zenon DEF Total, BytesOf

\* A tracker and the rest.
LEMMA TotalSplit ==
    ASSUME NEW f \in [Trackers -> Nat], NEW S \in SUBSET Trackers, NEW x \in S
    PROVE  Total(f, S) = Total(f, S \ {x}) + f[x]
<1>1. PICK R : R = BytesOf(f, S \ {x})
  OBVIOUS
<1>2. PICK X : X = {x} \X (1..f[x])
  OBVIOUS
<1>3. IsFiniteSet(R)
  <2>1. S \ {x} \in SUBSET Trackers
    OBVIOUS
  <2> QED
    BY <1>1, <2>1, BytesFinite, Zenon
<1>4. IsFiniteSet(X) /\ Cardinality(X) = f[x]
  <2>1. f[x] \in Nat
    OBVIOUS
  <2>2. f[x] \in Int /\ 1 \in Int
    BY <2>1, SMT
  <2>3. IsFiniteSet(1..f[x]) /\ Cardinality(1..f[x]) = IF 1 > f[x] THEN 0 ELSE f[x] - 1 + 1
    BY <2>2, FS_Interval, Zenon
  <2>4. Cardinality(1..f[x]) = f[x]
    BY <2>1, <2>3, SMT
  <2>5. IsFiniteSet({x}) /\ Cardinality({x}) = 1
    BY FS_Singleton, Zenon
  <2>6. IsFiniteSet(X) /\ Cardinality(X) = Cardinality({x}) * Cardinality(1..f[x])
    BY <1>2, <2>3, <2>5, FS_Product, Zenon
  <2>7. Cardinality(X) = 1 * f[x]
    BY <2>4, <2>5, <2>6, Zenon
  <2> QED
    BY <2>1, <2>6, <2>7, SMT
<1>5. BytesOf(f, S) = R \cup X
  <2>1. ASSUME NEW b
        PROVE  b \in BytesOf(f, S) <=> b \in R \/ b \in X
    <3>1. /\ b \in BytesOf(f, S) <=> \E c \in S : b \in {c} \X (1..f[c])
          /\ b \in R <=> \E c \in S \ {x} : b \in {c} \X (1..f[c])
      BY <1>1, BytesIn, Zenon
    <3>2. CASE b \in BytesOf(f, S)
      <4>1. PICK c \in S : b \in {c} \X (1..f[c])
        BY <3>1, <3>2, Zenon
      <4> QED
        BY <1>2, <3>1, <3>2, <4>1, Zenon
    <3>3. CASE b \in X
      BY <1>2, <3>1, <3>3, Zenon
    <3>4. CASE b \in R
      BY <3>1, <3>4, Zenon
    <3> QED
      BY <3>2, <3>3, <3>4, Zenon
  <2> QED
    BY <2>1, Zenon
<1>6. R \cap X = {}
  <2> SUFFICES ASSUME NEW b \in R, b \in X PROVE FALSE
    BY Zenon
  <2>1. PICK c \in S \ {x} : b \in {c} \X (1..f[c])
    BY <1>1, BytesIn, Zenon
  <2>2. b[1] = c /\ b[1] = x
    BY <1>2, <2>1, SMT
  <2> QED
    BY <2>1, <2>2, Zenon
<1>7. Cardinality(R \cap X) = 0
  BY <1>6, FS_EmptySet, Zenon
<1>8. Cardinality(R \cup X) = Cardinality(R) + Cardinality(X) - Cardinality(R \cap X)
  BY <1>3, <1>4, FS_Union, Zenon
<1>9. Cardinality(R) \in Nat
  BY <1>3, FS_CardinalityType, Zenon
<1>10. Cardinality(BytesOf(f, S)) = Cardinality(R) + f[x]
  <2>1. f[x] \in Nat
    OBVIOUS
  <2>2. Cardinality(BytesOf(f, S)) = Cardinality(R) + f[x] - 0
    BY <1>4, <1>5, <1>7, <1>8, Zenon
  <2> QED
    BY <1>9, <2>1, <2>2, SMT
<1> QED
  BY <1>1, <1>10, Zenon DEF Total, BytesOf

\* Amounts that are the same on the set have the same sum.
LEMMA TotalFrame ==
    ASSUME NEW f \in [Trackers -> Nat], NEW g \in [Trackers -> Nat],
           NEW S \in SUBSET Trackers, \A c \in S : f[c] = g[c]
    PROVE  Total(f, S) = Total(g, S)
<1>1. ASSUME NEW b
      PROVE  b \in BytesOf(f, S) <=> b \in BytesOf(g, S)
  <2>1. /\ b \in BytesOf(f, S) <=> \E c \in S : b \in {c} \X (1..f[c])
        /\ b \in BytesOf(g, S) <=> \E c \in S : b \in {c} \X (1..g[c])
    BY BytesIn, Zenon
  <2>2. \A c \in S : {c} \X (1..f[c]) = {c} \X (1..g[c])
    OBVIOUS
  <2> QED
    BY <2>1, <2>2, Zenon
<1>2. BytesOf(f, S) = BytesOf(g, S)
  BY <1>1, Zenon
<1> QED
  BY <1>2, Zenon DEF Total, BytesOf

\* One amount changes.
LEMMA TotalChange ==
    ASSUME NEW f \in [Trackers -> Nat], NEW g \in [Trackers -> Nat],
           NEW S \in SUBSET Trackers, NEW x \in S, \A c \in S : c # x => f[c] = g[c]
    PROVE  Total(g, S) = Total(f, S) + g[x] - f[x]
<1>1. S \ {x} \in SUBSET Trackers
  OBVIOUS
<1>2. Total(f, S \ {x}) = Total(g, S \ {x})
  BY <1>1, TotalFrame
<1>3. Total(f, S) = Total(f, S \ {x}) + f[x] /\ Total(g, S) = Total(g, S \ {x}) + g[x]
  BY TotalSplit
<1>4. Total(f, S \ {x}) \in Nat
  BY <1>1, TotalType
<1>5. f[x] \in Nat /\ g[x] \in Nat
  OBVIOUS
<1> QED
  BY <1>2, <1>3, <1>4, <1>5, SMT

\* The sum is not less than an amount, or two.
LEMMA TotalAtLeast ==
    ASSUME NEW f \in [Trackers -> Nat], NEW S \in SUBSET Trackers, NEW x \in S
    PROVE  /\ f[x] <= Total(f, S)
           /\ \A y \in S : y # x => f[x] + f[y] <= Total(f, S)
<1>1. S \ {x} \in SUBSET Trackers
  OBVIOUS
<1>2. Total(f, S) = Total(f, S \ {x}) + f[x] /\ Total(f, S \ {x}) \in Nat /\ f[x] \in Nat
  BY <1>1, TotalSplit, TotalType
<1>3. ASSUME NEW y \in S, y # x
      PROVE  f[x] + f[y] <= Total(f, S)
  <2>1. (S \ {x}) \ {y} \in SUBSET Trackers /\ y \in S \ {x}
    BY <1>3
  <2>2. /\ Total(f, S \ {x}) = Total(f, (S \ {x}) \ {y}) + f[y]
        /\ Total(f, (S \ {x}) \ {y}) \in Nat /\ f[y] \in Nat
    BY <1>1, <2>1, TotalSplit, TotalType
  <2> QED
    BY <1>2, <2>2, SMT
<1> QED
  BY <1>2, <1>3, SMT

LEMMA TotalZero ==
    ASSUME NEW f \in [Trackers -> Nat], NEW S \in SUBSET Trackers, \A c \in S : f[c] = 0
    PROVE  Total(f, S) = 0
<1>1. ASSUME NEW b \in BytesOf(f, S)
      PROVE  FALSE
  <2>1. PICK c \in S : b \in {c} \X (1..f[c])
    BY BytesIn, Zenon
  <2>2. f[c] = 0
    BY <2>1
  <2> QED
    BY <2>1, <2>2, SMT
<1>2. BytesOf(f, S) = {}
  BY <1>1, Zenon
<1> QED
  BY <1>2, FS_EmptySet, Zenon DEF Total, BytesOf
-----------------------------------------------------------------------------
(***************************************************************************)
(* Where clients and the initial reservations are in the tree.             *)
(***************************************************************************)
LEMMA ThreadFacts == NoThread \notin Threads
BY TrackerConstants

LEMMA NumberFacts ==
    /\ \A x \in Trackers : Limit[x] \in Nat
    /\ MemLimit \in Nat /\ Claims \in Nat /\ MaxBytes \in Nat /\ MaxOther \in Nat
BY TrackerConstants

LEMMA InitialFacts ==
    /\ Initial \in Trackers /\ Initial # Root /\ Children(Initial) = {}
    /\ Initial \notin Clients /\ Query \in Trackers
<1>1. Initial \in Trackers /\ Initial # Root
  BY TrackerConstants, Zenon
<1>2. Clients \subseteq Trackers \ {Root, Initial}
  BY TrackerConstants, Zenon
<1>3. Children(Initial) = {}
  BY TreeOfReservations, Zenon
<1> QED
  BY <1>1, <1>2, <1>3, TreeParent, Zenon DEF Query

LEMMA ClientFacts ==
    ASSUME NEW x \in Clients
    PROVE  x \in Trackers /\ x # Root /\ x # Initial /\ Owner[x] \in Threads
<1>1. Clients \subseteq Trackers \ {Root, Initial}
  BY TrackerConstants, Zenon
<1>2. Owner \in [Clients -> Threads]
  BY TrackerConstants, Zenon
<1> QED
  BY <1>1, <1>2, Zenon

LEMMA LinkedFacts == Linked \subseteq Trackers /\ Root \notin Linked
<1>1. Linked \subseteq Trackers \ {Root}
  BY TrackerConstants, Zenon
<1> QED
  BY <1>1, Zenon

\* Above a client, or the initial reservations, nobody owns a tracker.
LEMMA TopFacts ==
    ASSUME NEW x \in TopClients \cup {Initial}
    PROVE  /\ x \in Trackers /\ x # Root /\ x \in Owned /\ x \notin Subs
           /\ \A z \in OnPath(x) : z \in Trackers /\ (z # x => z \notin Owned)
<1>1. x \in Trackers /\ x # Root /\ x \in Owned
  BY ClientFacts, InitialFacts, Zenon DEF TopClients, Owned
<1>2. x \notin Subs
  BY InitialFacts, Zenon DEF TopClients, Subs
<1>3. ASSUME NEW z \in OnPath(x), z # x
      PROVE  z \notin Owned
  <2>1. z \notin Clients
    <3>1. /\ Ancestors(Initial) \cap Clients = {}
          /\ \A y \in Clients \ Subs : Ancestors(y) \cap Clients = {}
      BY TreeOfReservations, Zenon
    <3>2. Ancestors(x) \cap Clients = {}
      BY <3>1, Zenon DEF TopClients
    <3> QED
      BY <1>3, <3>2, Zenon DEF Ancestors
  <2>2. z # Initial
    BY <1>1, <1>3, TreeBelow, InitialFacts, Zenon
  <2> QED
    BY <2>1, <2>2, Zenon DEF Owned
<1>4. \A z \in OnPath(x) : z \in Trackers
  BY <1>1, TreeSelf, Zenon
<1> QED
  BY <1>1, <1>2, <1>3, <1>4, Zenon

LEMMA SubFacts ==
    ASSUME NEW x \in Subs
    PROVE  /\ x \in Clients /\ x \in Trackers /\ x # Root /\ x # Initial
           /\ Parent(x) \in TopClients /\ Parent(x) \in Clients /\ Parent(x) # x
           /\ x \in Owned /\ x \notin TopClients /\ Parent(x) \in Trackers /\ Parent(x) # Initial
<1>1. x \in Clients /\ Parent(x) \in Clients
  BY Zenon DEF Subs
<1>2. \A y \in Subs : Parent(y) \notin Subs
  BY TreeOfReservations, Zenon
<1>3. Parent(x) \in TopClients /\ x \notin TopClients
  BY <1>1, <1>2, Zenon DEF TopClients
<1>4. x \in Trackers /\ x # Root /\ x # Initial /\ Parent(x) \in Trackers /\ Parent(x) # Initial
  BY <1>1, ClientFacts, Zenon
<1>5. Parent(x) # x
  BY <1>4, TreeParent, Zenon
<1> QED
  BY <1>1, <1>3, <1>4, <1>5, Zenon DEF Owned
-----------------------------------------------------------------------------
(***************************************************************************)
(* The lowest common ancestor, and the two paths below it.                 *)
(***************************************************************************)
\* A path determines its tracker.
LEMMA TreeInjective ==
    ASSUME NEW x \in Trackers, NEW y \in Trackers, OnPath(x) = OnPath(y)
    PROVE  x = y
<1>1. x \in OnPath(y) /\ y \in OnPath(x) /\ Depth(x) \in Nat /\ Depth(y) \in Nat
  BY TreeSelf, Zenon
<1>2. Depth(x) <= Depth(y) /\ Depth(y) <= Depth(x)
  BY <1>1, TreeUp, Zenon
<1>3. Depth(x) = Depth(y)
  BY <1>1, <1>2, SMT
<1> QED
  BY <1>1, <1>3, TreeUp, Zenon

LEMMA CommonIs ==
    ASSUME NEW x \in Trackers, NEW y \in Trackers
    PROVE  /\ Common(x, y) \in Trackers
           /\ OnPath(Common(x, y)) = OnPath(x) \cap OnPath(y)
           /\ Common(x, y) \in OnPath(x) /\ Common(x, y) \in OnPath(y)
           /\ y \in OnPath(x) => Common(x, y) = y
           /\ x \in OnPath(y) => Common(x, y) = x
<1>1. PICK D : D = {i \in 1..Depth(x) : PathToRoot[x][i] \in OnPath(y)}
  OBVIOUS
<1>2. Depth(x) \in Nat /\ Depth(x) > 0 /\ PathToRoot[x][Depth(x)] = Root
  BY PathFacts, Zenon
<1>3. D \in SUBSET Nat /\ Depth(x) \in 1..Depth(x)
  BY <1>1, <1>2, SMT
<1>4. D # {}
  BY <1>1, <1>2, <1>3, TreeSelf, Zenon
<1>5. PICK i \in D : \A j \in D : i <= j
  BY <1>3, <1>4, LeastNumber, Zenon
<1>6. PICK z : z = PathToRoot[x][i]
  OBVIOUS
<1>7. z \in OnPath(x) /\ z \in OnPath(y) /\ z \in Trackers /\ i \in 1..Depth(x)
  BY <1>1, <1>5, <1>6, OnPathIs, TreeSelf, Zenon
<1>8. OnPath(z) \subseteq OnPath(x) /\ OnPath(z) \subseteq OnPath(y)
  BY <1>7, TreeUp, Zenon
<1>9. ASSUME NEW w \in OnPath(x), w \in OnPath(y)
      PROVE  w \in OnPath(z)
  <2>1. PICK j \in 1..Depth(x) : w = PathToRoot[x][j]
    BY OnPathIs, Zenon
  <2>2. i <= j
    BY <1>1, <1>5, <1>9, <2>1, Zenon
  <2>3. Depth(w) = Depth(x) - j + 1
    BY <2>1, PathAt
  <2>4. Depth(z) = Depth(x) - i + 1
    BY <1>6, <1>7, PathAt
  <2>5. Depth(w) <= Depth(z)
    BY <1>2, <1>7, <2>1, <2>2, <2>3, <2>4, SMT
  <2> QED
    BY <1>7, <2>5, TreeLinear, Zenon
<1>10. OnPath(z) = OnPath(x) \cap OnPath(y)
  BY <1>8, <1>9, Zenon
<1>11. /\ Common(x, y) \in Trackers
       /\ OnPath(Common(x, y)) = OnPath(x) \cap OnPath(y)
  BY <1>7, <1>10, Zenon DEF Common
<1>12. Common(x, y) \in OnPath(x) /\ Common(x, y) \in OnPath(y)
  BY <1>11, TreeSelf, Zenon
<1>13. ASSUME y \in OnPath(x)
       PROVE  Common(x, y) = y
  <2>1. OnPath(y) \subseteq OnPath(x)
    BY <1>13, TreeUp, Zenon
  <2>2. OnPath(Common(x, y)) = OnPath(y)
    BY <1>11, <2>1, Zenon
  <2> QED
    BY <1>11, <2>2, TreeInjective, Zenon
<1>14. ASSUME x \in OnPath(y)
       PROVE  Common(x, y) = x
  <2>1. OnPath(x) \subseteq OnPath(y)
    BY <1>14, TreeUp, Zenon
  <2>2. OnPath(Common(x, y)) = OnPath(x)
    BY <1>11, <2>1, Zenon
  <2> QED
    BY <1>11, <2>2, TreeInjective, Zenon
<1> QED
  BY <1>11, <1>12, <1>13, <1>14, Zenon

\* The part of a path below a tracker on it; the last one is a child of that tracker.
LEMMA PathBelowIs ==
    ASSUME NEW x \in Trackers, NEW top \in OnPath(x)
    PROVE  /\ PathBelow(x, top) \in Seq(Trackers)
           /\ Len(PathBelow(x, top)) = Depth(x) - Depth(top)
           /\ \A i \in 1..Len(PathBelow(x, top)) :
                 PathBelow(x, top)[i] = PathToRoot[x][i] /\ i \in 1..Depth(x)
           /\ ToSet(PathBelow(x, top)) = OnPath(x) \ OnPath(top)
           /\ PathBelow(x, top) = <<>> <=> x = top
<1>1. PathToRoot[x] \in Seq(Trackers) /\ Depth(x) \in Nat /\ Depth(x) > 0
  BY PathFacts
<1>2. /\ top \in Trackers /\ Depth(top) \in Nat /\ Depth(top) > 0 /\ Depth(top) <= Depth(x)
      /\ (Depth(top) = Depth(x) => top = x)
  BY TreeUp, PathFacts
<1>3. PICK q : q = PathBelow(x, top)
  OBVIOUS
<1>4. q = SubSeq(PathToRoot[x], 1, Depth(x) - Depth(top))
  BY <1>3 DEF PathBelow, Depth
<1>5. /\ q \in Seq(Trackers) /\ Len(q) = Depth(x) - Depth(top)
      /\ \A i \in 1..Len(q) : q[i] = PathToRoot[x][i] /\ i \in 1..Depth(x)
  <2>1. PICK n \in Nat : n = Depth(x) - Depth(top)
    BY <1>1, <1>2, SMT
  <2>2. n <= Len(PathToRoot[x]) /\ Depth(x) = Len(PathToRoot[x])
    <3>1. n <= Depth(x)
      BY <1>1, <1>2, <2>1, SMT
    <3>2. Depth(x) = Len(PathToRoot[x])
      BY Zenon DEF Depth
    <3> QED
      BY <3>1, <3>2, Zenon
  <2>3. q = SubSeq(PathToRoot[x], 1, n)
    BY <1>4, <2>1, Zenon
  <2>4. /\ q \in Seq(Trackers) /\ Len(q) = n
        /\ \A i \in 1..n : q[i] = PathToRoot[x][i]
    BY <1>1, <2>2, <2>3, SMT
  <2>5. \A i \in 1..n : i \in 1..Depth(x)
    BY <1>1, <2>2, SMT
  <2> QED
    BY <2>1, <2>4, <2>5, Zenon
<1>6. ASSUME NEW z
      PROVE  z \in ToSet(q) <=> z \in OnPath(x) /\ z \notin OnPath(top)
  <2>1. z \in ToSet(q) <=> \E i \in 1..Len(q) : z = q[i]
    BY <1>5, SMT DEF ToSet
  <2>2. ASSUME NEW i \in 1..Len(q), z = q[i]
        PROVE  z \in OnPath(x) /\ z \notin OnPath(top)
    <3>1. z = PathToRoot[x][i] /\ i \in 1..Depth(x)
      BY <1>5, <2>2
    <3>2. Depth(z) = Depth(x) - i + 1
      BY <3>1, PathAt
    <3>3. z \in OnPath(x)
      BY <3>1, OnPathIs, Zenon
    <3>4. ASSUME z \in OnPath(top) PROVE FALSE
      <4>1. Depth(z) <= Depth(top)
        BY <1>2, <3>4, TreeUp, Zenon
      <4> QED
        BY <1>1, <1>2, <1>5, <2>2, <3>2, <4>1, SMT
    <3> QED
      BY <3>3, <3>4, Zenon
  <2>3. ASSUME z \in OnPath(x), z \notin OnPath(top)
        PROVE  \E i \in 1..Len(q) : z = q[i]
    <3>1. PICK i \in 1..Depth(x) : z = PathToRoot[x][i]
      BY <2>3, OnPathIs, Zenon
    <3>2. Depth(z) = Depth(x) - i + 1
      BY <3>1, PathAt
    <3>3. ~(Depth(z) <= Depth(top))
      BY <2>3, TreeLinear, Zenon
    <3>4. i \in 1..Len(q)
      BY <1>1, <1>2, <1>5, <3>2, <3>3, SMT
    <3> QED
      BY <1>5, <3>1, <3>4, Zenon
  <2> QED
    BY <2>1, <2>2, <2>3, Zenon
<1>7. ToSet(q) = OnPath(x) \ OnPath(top)
  BY <1>6, Zenon
<1>8. q = <<>> <=> Len(q) = 0
  BY <1>5, SMT
<1>9. q = <<>> <=> x = top
  BY <1>1, <1>2, <1>5, <1>8, SMT
<1> QED
  BY <1>3, <1>5, <1>7, <1>9, Zenon

LEMMA PathBelowLast ==
    ASSUME NEW x \in Trackers, NEW top \in OnPath(x), x # top
    PROVE  /\ Last(PathBelow(x, top)) \in OnPath(x) /\ Last(PathBelow(x, top)) \in Trackers
           /\ Last(PathBelow(x, top)) # Root /\ Parent(Last(PathBelow(x, top))) = top
<1>1. PICK q : q = PathBelow(x, top)
  OBVIOUS
<1>2. /\ q \in Seq(Trackers) /\ Len(q) = Depth(x) - Depth(top) /\ q # <<>>
      /\ \A i \in 1..Len(q) : q[i] = PathToRoot[x][i] /\ i \in 1..Depth(x)
  BY <1>1, PathBelowIs
<1>3. Depth(x) \in Nat /\ top \in Trackers /\ Depth(top) \in Nat /\ Depth(top) > 0
  BY TreeUp, PathFacts, Zenon
<1>4. Len(q) \in 1..Len(q)
  BY <1>2, SMT
<1>5. PICK l : l = PathToRoot[x][Len(q)]
  OBVIOUS
<1>6. Last(q) = l /\ Len(q) \in 1..Depth(x)
  BY <1>2, <1>4, <1>5, Zenon DEF Last
<1>7. l \in Trackers /\ Depth(l) = Depth(x) - Len(q) + 1
  BY <1>5, <1>6, PathAt
<1>8. l \in OnPath(x)
  BY <1>5, <1>6, OnPathIs, Zenon
<1>9. Depth(l) = Depth(top) + 1 /\ Depth(l) # 1
  BY <1>2, <1>3, <1>7, SMT
<1>10. l # Root
  BY <1>9, TreeRoot
<1>11. Depth(l) = Depth(Parent(l)) + 1 /\ Parent(l) \in OnPath(l) /\ Parent(l) \in Trackers
  BY <1>7, <1>10, TreeParent, Zenon
<1>12. Depth(Parent(l)) \in Nat
  BY <1>11, PathFacts
<1>13. Depth(Parent(l)) = Depth(top)
  BY <1>3, <1>9, <1>11, <1>12, SMT
<1>14. Parent(l) \in OnPath(x)
  BY <1>8, <1>11, TreeUp, Zenon
<1>15. Parent(l) = top
  BY <1>13, <1>14, TreeUnique, Zenon
<1> QED
  BY <1>1, <1>6, <1>7, <1>8, <1>10, <1>15, Zenon

\* The two sides of a transfer.
LEMMA Sides ==
    ASSUME NEW x \in Trackers, NEW y \in Trackers
    PROVE  /\ ToSet(PathBelow(x, Common(x, y))) = OnPath(x) \ OnPath(y)
           /\ ToSet(PathBelow(y, Common(x, y))) = OnPath(y) \ OnPath(x)
<1>1. PICK c : c = Common(x, y)
  OBVIOUS
<1>2. c \in OnPath(x) /\ c \in OnPath(y) /\ OnPath(c) = OnPath(x) \cap OnPath(y)
  BY <1>1, CommonIs, Zenon
<1>3. /\ ToSet(PathBelow(x, c)) = OnPath(x) \ OnPath(c)
      /\ ToSet(PathBelow(y, c)) = OnPath(y) \ OnPath(c)
  BY <1>2, PathBelowIs
<1> QED
  BY <1>1, <1>2, <1>3, Zenon
-----------------------------------------------------------------------------
(***************************************************************************)
(* The order of the locks: a tracker before those above it, and of two     *)
(* sibling subtrees the one with the lower address before the other.       *)
(***************************************************************************)
Siblings(u, v) ==
    u \in Trackers \ {Root} /\ v \in Trackers \ {Root} /\ Parent(u) = Parent(v)

Before(a, b) ==
    \/ b \in OnPath(a) /\ a # b
    \/ \E u \in OnPath(a), v \in OnPath(b) : Siblings(u, v) /\ Address[u] < Address[v]

LEMMA AddressFacts ==
    /\ \A x \in Trackers : Address[x] \in Nat
    /\ \A x, y \in Trackers : Address[x] = Address[y] => x = y
BY TrackerConstants

LEMMA BeforeIrreflexive ==
    ASSUME NEW a \in Trackers
    PROVE  ~Before(a, a)
<1> SUFFICES ASSUME Before(a, a) PROVE FALSE
  OBVIOUS
<1>1. PICK u \in OnPath(a), v \in OnPath(a) : Siblings(u, v) /\ Address[u] < Address[v]
  BY Zenon DEF Before
<1>2. u = v
  BY <1>1, TreeUnique, Zenon DEF Siblings
<1>3. u \in Trackers
  BY <1>1, Zenon DEF Siblings
<1>4. Address[u] \in Nat /\ Address[u] < Address[u]
  BY <1>1, <1>2, <1>3, AddressFacts, Zenon
<1> QED
  BY <1>4, SMT

\* Above a child: above its sibling too.
LEMMA AboveSibling ==
    ASSUME NEW u, NEW v, Siblings(u, v), NEW c \in OnPath(v), c # v
    PROVE  c \in OnPath(u) /\ c # u
<1>1. u \in Trackers /\ u # Root /\ v \in Trackers /\ v # Root /\ Parent(u) = Parent(v)
  BY Zenon DEF Siblings
<1>2. c \in OnPath(Parent(v))
  BY <1>1, TreeParent, Zenon
<1>3. c \in OnPath(Parent(u))
  BY <1>1, <1>2, Zenon
<1>4. OnPath(u) = {u} \cup OnPath(Parent(u)) /\ u \notin OnPath(Parent(u))
  BY <1>1, TreeParent, Zenon
<1> QED
  BY <1>3, <1>4, SMT

LEMMA BeforeTransitive ==
    ASSUME NEW a \in Trackers, NEW b \in Trackers, NEW c \in Trackers,
           Before(a, b), Before(b, c)
    PROVE  Before(a, c)
<1>1. CASE (b \in OnPath(a) /\ a # b) /\ (c \in OnPath(b) /\ b # c)
  <2>1. c \in OnPath(a)
    BY <1>1, TreeUp, Zenon
  <2>2. a # c
    <3> SUFFICES ASSUME a = c PROVE FALSE
      OBVIOUS
    <3>1. Depth(b) <= Depth(a) /\ Depth(a) <= Depth(b) /\ (Depth(b) = Depth(a) => b = a)
      BY <1>1, TreeUp, Zenon
    <3>2. Depth(a) \in Nat /\ Depth(b) \in Nat
      BY TreeSelf, Zenon
    <3>3. Depth(a) = Depth(b)
      BY <3>1, <3>2, SMT
    <3> QED
      BY <1>1, <3>1, <3>3, Zenon
  <2> QED
    BY <2>1, <2>2, Zenon DEF Before
<1>2. ASSUME b \in OnPath(a), NEW u \in OnPath(b), NEW v \in OnPath(c),
             Siblings(u, v), Address[u] < Address[v]
      PROVE  Before(a, c)
  <2>1. u \in OnPath(a)
    BY <1>2, TreeUp, Zenon
  <2> QED
    BY <1>2, <2>1, Zenon DEF Before
<1>3. ASSUME NEW u \in OnPath(a), NEW v \in OnPath(b), Siblings(u, v),
             Address[u] < Address[v], c \in OnPath(b)
      PROVE  Before(a, c)
  <2>1. CASE v \in OnPath(c)
    BY <1>3, <2>1, Zenon DEF Before
  <2>2. CASE v \notin OnPath(c)
    <3>1. Depth(v) \in Nat /\ Depth(c) \in Nat /\ v \in Trackers
      BY <1>3, TreeSelf, TreeUp, Zenon
    <3>2. ~(Depth(v) <= Depth(c))
      BY <1>3, <2>2, TreeLinear, Zenon
    <3>3. Depth(c) <= Depth(v)
      BY <3>1, <3>2, SMT
    <3>4. c \in OnPath(v)
      BY <1>3, <3>3, TreeLinear, Zenon
    <3>5. c # v
      BY <2>2, TreeSelf, Zenon
    <3>6. c \in OnPath(u) /\ c # u
      BY <1>3, <3>4, <3>5, AboveSibling, Zenon
    <3>7. c \in OnPath(a) /\ u \in Trackers
      BY <1>3, <3>6, TreeUp, Zenon
    <3>8. c # a
      <4> SUFFICES ASSUME c = a PROVE FALSE
        OBVIOUS
      <4>1. Depth(a) <= Depth(u) /\ Depth(u) <= Depth(a) /\ (Depth(a) = Depth(u) => a = u)
        BY <1>3, <3>6, <3>7, TreeUp, Zenon
      <4>2. Depth(a) \in Nat /\ Depth(u) \in Nat
        BY <3>7, TreeSelf, Zenon
      <4>3. Depth(a) = Depth(u)
        BY <4>1, <4>2, SMT
      <4> QED
        BY <3>6, <4>1, <4>3, Zenon
    <3> QED
      BY <3>7, <3>8, Zenon DEF Before
  <2> QED
    BY <2>1, <2>2, Zenon
<1>4. ASSUME NEW u \in OnPath(a), NEW v \in OnPath(b), Siblings(u, v), Address[u] < Address[v],
             NEW v2 \in OnPath(b), NEW w \in OnPath(c), Siblings(v2, w), Address[v2] < Address[w]
      PROVE  Before(a, c)
  <2>1. Depth(v) \in Nat /\ Depth(v2) \in Nat /\ v \in Trackers /\ v2 \in Trackers
    BY <1>4, TreeSelf, TreeUp, Zenon
  <2>2. CASE v = v2
    <3>1. Siblings(u, w)
      BY <1>4, <2>2, Zenon DEF Siblings
    <3>2. u \in Trackers /\ v \in Trackers /\ w \in Trackers
      BY <1>4, Zenon DEF Siblings
    <3>3. Address[u] \in Nat /\ Address[v] \in Nat /\ Address[w] \in Nat
      BY <3>2, AddressFacts, Zenon
    <3>4. Address[u] < Address[w]
      BY <1>4, <2>2, <3>3, SMT
    <3> QED
      BY <1>4, <3>1, <3>4, Zenon DEF Before
  <2>3. CASE v # v2 /\ Depth(v2) <= Depth(v)
    <3>1. v2 \in OnPath(v)
      BY <1>4, <2>3, TreeLinear, Zenon
    <3>2. v2 \in OnPath(u)
      BY <1>4, <2>3, <3>1, AboveSibling, Zenon
    <3>3. v2 \in OnPath(a)
      BY <1>4, <3>2, TreeUp, Zenon
    <3> QED
      BY <1>4, <3>3, Zenon DEF Before
  <2>4. CASE v # v2 /\ Depth(v) <= Depth(v2)
    <3>1. v \in OnPath(v2)
      BY <1>4, <2>4, TreeLinear, Zenon
    <3>2. Siblings(w, v2)
      BY <1>4, Zenon DEF Siblings
    <3>3. v \in OnPath(w)
      BY <2>4, <3>1, <3>2, AboveSibling, Zenon
    <3>4. v \in OnPath(c)
      BY <1>4, <3>3, TreeUp, Zenon
    <3> QED
      BY <1>4, <3>4, Zenon DEF Before
  <2>5. Depth(v2) <= Depth(v) \/ Depth(v) <= Depth(v2)
    BY <2>1, SMT
  <2> QED
    BY <2>2, <2>3, <2>4, <2>5, Zenon
<1>5. \/ b \in OnPath(a) /\ a # b
      \/ \E u \in OnPath(a), v \in OnPath(b) : Siblings(u, v) /\ Address[u] < Address[v]
  BY Zenon DEF Before
<1>6. \/ c \in OnPath(b) /\ b # c
      \/ \E u \in OnPath(b), v \in OnPath(c) : Siblings(u, v) /\ Address[u] < Address[v]
  BY Zenon DEF Before
<1> QED
  BY <1>1, <1>2, <1>3, <1>4, <1>5, <1>6, Zenon

\* A set of trackers that is not empty has one that is before no other of the set.
LEMMA LastInOrder ==
    ASSUME NEW W \in SUBSET Trackers, W # {}
    PROVE  \E w \in W : \A v \in W : ~Before(w, v)
<1> DEFINE Pre(w) == {a \in Trackers : Before(a, w)}
           Rest(w) == Trackers \ Pre(w)
           N == {Cardinality(Rest(w)) : w \in W}
<1>1. \A w \in W : IsFiniteSet(Rest(w)) /\ Cardinality(Rest(w)) \in Nat
  <2>1. IsFiniteSet(Trackers)
    BY TrackerConstants
  <2> TAKE w \in W
  <2>2. Rest(w) \in SUBSET Trackers
    BY Zenon
  <2> HIDE DEF Rest
  <2>3. IsFiniteSet(Rest(w))
    BY <2>1, <2>2, FS_Subset, Zenon
  <2> QED
    BY <2>3, FS_CardinalityType, Zenon
<1>2. N \in SUBSET Nat /\ N # {}
  BY <1>1, Zenon
<1>3. PICK n \in N : \A m \in N : n <= m
  <2> HIDE DEF N
  <2> QED
    BY <1>2, LeastNumber, Zenon
<1>4. PICK w \in W : n = Cardinality(Rest(w))
  BY <1>3, Zenon
<1>5. ASSUME NEW v \in W, Before(w, v)
      PROVE  FALSE
  <2>1. PICK R : R = Rest(w)
    OBVIOUS
  <2>2. PICK R2 : R2 = Rest(v)
    OBVIOUS
  <2>3. R2 \subseteq R
    BY <1>5, <2>1, <2>2, BeforeTransitive, Zenon
  <2>4. w \in R /\ w \notin R2
    BY <1>5, <2>1, <2>2, BeforeIrreflexive, Zenon
  <2>5. /\ IsFiniteSet(R) /\ Cardinality(R) \in Nat /\ Cardinality(R2) \in Nat
        /\ Cardinality(R) <= Cardinality(R2)
    BY <1>1, <1>3, <1>4, <2>1, <2>2, Zenon
  <2>6. Cardinality(R2) <= Cardinality(R) /\ (Cardinality(R) = Cardinality(R2) => R = R2)
    BY <2>3, <2>5, FS_Subset, Zenon
  <2>7. Cardinality(R) = Cardinality(R2)
    BY <2>5, <2>6, SMT
  <2> QED
    BY <2>4, <2>6, <2>7, Zenon
<1> QED
  BY <1>5, Zenon

\* One path below a common ancestor is locked bottom-up.
LEMMA PathOrder ==
    ASSUME NEW x \in Trackers, NEW top \in OnPath(x), NEW q, q = PathBelow(x, top),
           NEW i \in 1..Len(q), NEW j \in 1..Len(q), i < j
    PROVE  Before(q[i], q[j])
<1>1. /\ q[i] = PathToRoot[x][i] /\ i \in 1..Depth(x)
      /\ q[j] = PathToRoot[x][j] /\ j \in 1..Depth(x)
  BY PathBelowIs
<1>2. Depth(q[i]) = Depth(x) - i + 1 /\ Depth(q[j]) = Depth(x) - j + 1 /\ Depth(x) \in Nat
  BY <1>1, PathAt, PathFacts
<1>3. q[i] \in OnPath(x) /\ q[j] \in OnPath(x)
  BY <1>1, OnPathIs, Zenon
<1>4. Depth(q[j]) <= Depth(q[i]) /\ Depth(q[j]) # Depth(q[i])
  BY <1>1, <1>2, SMT
<1>5. q[j] \in OnPath(q[i])
  BY <1>3, <1>4, TreeLinear, Zenon
<1> QED
  BY <1>4, <1>5, Zenon DEF Before

\* Of two paths, the one whose topmost tracker has the lower address comes first.
LEMMA PathsOrder ==
    ASSUME NEW x \in Trackers, NEW y \in Trackers,
           NEW top, top \in OnPath(x), top \in OnPath(y), x # top, y # top,
           NEW p, p = PathBelow(x, top), NEW q, q = PathBelow(y, top),
           Address[Last(p)] < Address[Last(q)],
           NEW i \in 1..Len(p), NEW j \in 1..Len(q)
    PROVE  Before(p[i], q[j])
<1>1. /\ Last(p) \in OnPath(x) /\ Last(p) \in Trackers /\ Last(p) # Root /\ Parent(Last(p)) = top
      /\ Last(q) \in OnPath(y) /\ Last(q) \in Trackers /\ Last(q) # Root /\ Parent(Last(q)) = top
  BY PathBelowLast, Zenon
<1>2. Siblings(Last(p), Last(q))
  BY <1>1, Zenon DEF Siblings
<1>3. ASSUME NEW z \in Trackers, top \in OnPath(z), z # top, NEW r, r = PathBelow(z, top),
             NEW k \in 1..Len(r)
      PROVE  Last(r) \in OnPath(r[k])
  <2>1. /\ r \in Seq(Trackers) /\ Len(r) = Depth(z) - Depth(top)
        /\ \A n \in 1..Len(r) : r[n] = PathToRoot[z][n] /\ n \in 1..Depth(z)
    BY <1>3, PathBelowIs
  <2>2. Len(r) \in Nat /\ Len(r) \in 1..Len(r) /\ k <= Len(r)
    BY <2>1, SMT
  <2>3. /\ r[k] = PathToRoot[z][k] /\ k \in 1..Depth(z)
        /\ r[Len(r)] = PathToRoot[z][Len(r)] /\ Len(r) \in 1..Depth(z)
    BY <2>1, <2>2, Zenon
  <2>4. Depth(r[k]) = Depth(z) - k + 1 /\ Depth(r[Len(r)]) = Depth(z) - Len(r) + 1
    BY <2>3, PathAt
  <2>5. Depth(z) \in Nat
    BY PathFacts
  <2>6. Depth(r[Len(r)]) <= Depth(r[k])
    BY <2>2, <2>4, <2>5, SMT
  <2>7. r[k] \in OnPath(z) /\ r[Len(r)] \in OnPath(z)
    BY <2>3, OnPathIs, Zenon
  <2>8. r[Len(r)] \in OnPath(r[k])
    BY <2>6, <2>7, TreeLinear, Zenon
  <2> QED
    BY <2>8, Zenon DEF Last
<1>4. Last(p) \in OnPath(p[i]) /\ Last(q) \in OnPath(q[j])
  BY <1>3, Zenon
<1> QED
  BY <1>2, <1>4, Zenon DEF Before

\* An ordered pair of ordered lists is an ordered list.
Ordered(s) == \A i, j \in 1..Len(s) : i < j => Before(s[i], s[j])

LEMMA OrderedConcat ==
    ASSUME NEW p \in Seq(Trackers), NEW q \in Seq(Trackers), Ordered(p), Ordered(q),
           \A i \in 1..Len(p), j \in 1..Len(q) : Before(p[i], q[j])
    PROVE  Ordered(p \o q)
<1> SUFFICES ASSUME NEW i \in 1..Len(p \o q), NEW j \in 1..Len(p \o q), i < j
             PROVE  Before((p \o q)[i], (p \o q)[j])
  BY Zenon DEF Ordered
<1>1. Len(p) \in Nat /\ Len(q) \in Nat /\ Len(p \o q) = Len(p) + Len(q)
  BY SMT
<1>2. CASE i <= Len(p) /\ j <= Len(p)
  <2>1. i \in 1..Len(p) /\ j \in 1..Len(p) /\ (p \o q)[i] = p[i] /\ (p \o q)[j] = p[j]
    BY <1>1, <1>2, SMT
  <2> QED
    BY <2>1, Zenon DEF Ordered
<1>3. CASE i <= Len(p) /\ ~(j <= Len(p))
  <2>1. /\ i \in 1..Len(p) /\ j - Len(p) \in 1..Len(q)
        /\ (p \o q)[i] = p[i] /\ (p \o q)[j] = q[j - Len(p)]
    BY <1>1, <1>3, SMT
  <2> QED
    BY <2>1, Zenon
<1>4. CASE ~(i <= Len(p))
  <2>1. /\ i - Len(p) \in 1..Len(q) /\ j - Len(p) \in 1..Len(q) /\ i - Len(p) < j - Len(p)
        /\ (p \o q)[i] = q[i - Len(p)] /\ (p \o q)[j] = q[j - Len(p)]
    BY <1>1, <1>4, SMT
  <2> QED
    BY <2>1, Zenon DEF Ordered
<1> QED
  BY <1>2, <1>3, <1>4, Zenon

LEMMA ToSetConcat ==
    ASSUME NEW p \in Seq(Trackers), NEW q \in Seq(Trackers)
    PROVE  /\ p \o q \in Seq(Trackers)
           /\ ToSet(p \o q) = ToSet(p) \cup ToSet(q)
<1>1. Len(p) \in Nat /\ Len(q) \in Nat /\ Len(p \o q) = Len(p) + Len(q) /\ p \o q \in Seq(Trackers)
  BY SMT
<1>2. ASSUME NEW z
      PROVE  z \in ToSet(p \o q) <=> z \in ToSet(p) \/ z \in ToSet(q)
  <2>1. /\ z \in ToSet(p) <=> \E i \in 1..Len(p) : z = p[i]
        /\ z \in ToSet(q) <=> \E i \in 1..Len(q) : z = q[i]
        /\ z \in ToSet(p \o q) <=> \E i \in 1..Len(p \o q) : z = (p \o q)[i]
    BY <1>1, SMT DEF ToSet
  <2>2. ASSUME NEW i \in 1..Len(p), z = p[i]
        PROVE  \E k \in 1..Len(p \o q) : z = (p \o q)[k]
    <3>1. i \in 1..Len(p \o q) /\ (p \o q)[i] = p[i]
      BY <1>1, SMT
    <3> QED
      BY <2>2, <3>1, Zenon
  <2>3. ASSUME NEW i \in 1..Len(q), z = q[i]
        PROVE  \E k \in 1..Len(p \o q) : z = (p \o q)[k]
    <3>1. Len(p) + i \in 1..Len(p \o q) /\ (p \o q)[Len(p) + i] = q[i]
      BY <1>1, SMT
    <3> QED
      BY <2>3, <3>1, Zenon
  <2>4. ASSUME NEW k \in 1..Len(p \o q), z = (p \o q)[k]
        PROVE  (\E i \in 1..Len(p) : z = p[i]) \/ (\E i \in 1..Len(q) : z = q[i])
    <3>1. CASE k <= Len(p)
      <4>1. k \in 1..Len(p) /\ (p \o q)[k] = p[k]
        BY <1>1, <3>1, SMT
      <4> QED
        BY <2>4, <4>1, Zenon
    <3>2. CASE ~(k <= Len(p))
      <4>1. k - Len(p) \in 1..Len(q) /\ (p \o q)[k] = q[k - Len(p)]
        BY <1>1, <3>2, SMT
      <4> QED
        BY <2>4, <4>1, Zenon
    <3> QED
      BY <3>1, <3>2, Zenon
  <2> QED
    BY <2>1, <2>2, <2>3, <2>4, Zenon
<1> QED
  BY <1>1, <1>2, Zenon

\* lock_sibling_subtree_first(): the locks of a transfer are taken in order.
LEMMA LockOrderIs ==
    ASSUME NEW x \in Trackers, NEW y \in Trackers
    PROVE  /\ LockOrder(x, y) \in Seq(Trackers) /\ Ordered(LockOrder(x, y))
           /\ ToSet(LockOrder(x, y)) = Both(x, y)
<1>1. PICK top : top = Common(x, y)
  OBVIOUS
<1>2. PICK p : p = PathBelow(x, top)
  OBVIOUS
<1>3. PICK q : q = PathBelow(y, top)
  OBVIOUS
<1>4. top \in OnPath(x) /\ top \in OnPath(y)
  BY <1>1, CommonIs, Zenon
<1>5. p \in Seq(Trackers) /\ q \in Seq(Trackers) /\ (p = <<>> <=> x = top) /\ (q = <<>> <=> y = top)
  BY <1>2, <1>3, <1>4, PathBelowIs, Zenon
<1>6. Ordered(p) /\ Ordered(q)
  BY <1>2, <1>3, <1>4, PathOrder, Zenon DEF Ordered
<1>7. ToSet(p) = OnPath(x) \ OnPath(y) /\ ToSet(q) = OnPath(y) \ OnPath(x)
  BY <1>1, <1>2, <1>3, Sides, Zenon
<1>8. /\ p \o q \in Seq(Trackers) /\ q \o p \in Seq(Trackers)
      /\ ToSet(p \o q) = Both(x, y) /\ ToSet(q \o p) = Both(x, y)
  <2>1. /\ p \o q \in Seq(Trackers) /\ q \o p \in Seq(Trackers)
        /\ ToSet(p \o q) = ToSet(p) \cup ToSet(q) /\ ToSet(q \o p) = ToSet(q) \cup ToSet(p)
    BY <1>5, ToSetConcat, Zenon
  <2> QED
    BY <1>7, <2>1 DEF Both
<1>9. LockOrder(x, y) = IF p = <<>> \/ q = <<>> \/ Address[Last(p)] < Address[Last(q)]
                        THEN p \o q ELSE q \o p
  BY <1>1, <1>2, <1>3, Zenon DEF LockOrder
<1>10. CASE p = <<>> \/ q = <<>>
  <2>1. \A i \in 1..Len(p), j \in 1..Len(q) : Before(p[i], q[j])
    BY <1>10, SMT
  <2>2. Ordered(p \o q)
    BY <1>5, <1>6, <2>1, OrderedConcat, Zenon
  <2> QED
    BY <1>8, <1>9, <1>10, <2>2, Zenon
<1>11. CASE p # <<>> /\ q # <<>> /\ Address[Last(p)] < Address[Last(q)]
  <2>1. x # top /\ y # top
    BY <1>5, <1>11, Zenon
  <2>2. \A i \in 1..Len(p), j \in 1..Len(q) : Before(p[i], q[j])
    BY <1>2, <1>3, <1>4, <1>11, <2>1, PathsOrder, Zenon
  <2>3. Ordered(p \o q)
    BY <1>5, <1>6, <2>2, OrderedConcat, Zenon
  <2> QED
    BY <1>8, <1>9, <1>11, <2>3, Zenon
<1>12. CASE p # <<>> /\ q # <<>> /\ ~(Address[Last(p)] < Address[Last(q)])
  <2>1. x # top /\ y # top
    BY <1>5, <1>12, Zenon
  <2>2. Last(p) \in Trackers /\ Last(q) \in Trackers /\ Last(p) \in OnPath(x) /\ Last(q) \in OnPath(y)
    BY <1>2, <1>3, <1>4, <2>1, PathBelowLast, Zenon
  <2>3. Last(p) \in ToSet(p) /\ Last(q) \in ToSet(q)
    BY <1>5, <1>12, SMT DEF Last, ToSet
  <2>4. Last(p) # Last(q)
    BY <1>7, <2>3, Zenon
  <2>5. /\ Address[Last(p)] \in Nat /\ Address[Last(q)] \in Nat
        /\ Address[Last(p)] # Address[Last(q)]
    BY <2>2, <2>4, AddressFacts, Zenon
  <2>6. Address[Last(q)] < Address[Last(p)]
    BY <1>12, <2>5, SMT
  <2>7. \A i \in 1..Len(q), j \in 1..Len(p) : Before(q[i], p[j])
    BY <1>2, <1>3, <1>4, <2>1, <2>6, PathsOrder, Zenon
  <2>8. Ordered(q \o p)
    BY <1>5, <1>6, <2>7, OrderedConcat, Zenon
  <2> QED
    BY <1>8, <1>9, <1>12, <2>8, Zenon
<1> QED
  BY <1>10, <1>11, <1>12, Zenon
-----------------------------------------------------------------------------
(***************************************************************************)
(* The transfers there are.                                                *)
(***************************************************************************)
LEMMA ToParentFacts ==
    ASSUME NEW x, NEW y, ToParent(x, y)
    PROVE  /\ x \in Trackers /\ y \in Trackers /\ x # y /\ x # Root
           /\ OnPath(x) \ OnPath(y) = {x} /\ OnPath(y) \ OnPath(x) = {} /\ Common(x, y) = y
           /\ x \in Subs /\ y \in TopClients /\ y \notin Subs /\ x # Initial /\ y # Initial
           /\ Parent(x) = y
<1>1. x \in Subs /\ y = Parent(x)
  BY Zenon DEF ToParent
<1>2. /\ x \in Trackers /\ x # Root /\ y \in Trackers /\ x # y /\ y \in TopClients
      /\ x # Initial /\ y # Initial /\ y \notin Subs
  BY <1>1, SubFacts, Zenon DEF TopClients
<1>3. OnPath(x) = {x} \cup OnPath(y) /\ x \notin OnPath(y) /\ y \in OnPath(x)
  BY <1>1, <1>2, TreeParent, Zenon
<1>4. OnPath(x) \ OnPath(y) = {x} /\ OnPath(y) \ OnPath(x) = {}
  BY <1>3, SMT
<1>5. Common(x, y) = y
  BY <1>2, <1>3, CommonIs, Zenon
<1> QED
  BY <1>1, <1>2, <1>4, <1>5, Zenon

LEMMA ToSubFacts ==
    ASSUME NEW x, NEW y, ToSub(x, y)
    PROVE  /\ x \in Trackers /\ y \in Trackers /\ x # y /\ y # Root
           /\ OnPath(y) \ OnPath(x) = {y} /\ OnPath(x) \ OnPath(y) = {} /\ Common(x, y) = x
           /\ y \in Subs /\ x \in TopClients /\ x \notin Subs /\ x # Initial /\ y # Initial
           /\ Parent(y) = x
<1>1. ToParent(y, x)
  BY Zenon DEF ToSub, ToParent
<1>2. /\ x \in Trackers /\ y \in Trackers /\ x # y /\ y # Root
      /\ OnPath(y) \ OnPath(x) = {y} /\ OnPath(x) \ OnPath(y) = {}
      /\ y \in Subs /\ x \in TopClients /\ x \notin Subs /\ x # Initial /\ y # Initial
      /\ Parent(y) = x
  BY <1>1, ToParentFacts, Zenon
<1>3. x \in OnPath(y)
  BY <1>2, TreeParent, Zenon
<1>4. Common(x, y) = x
  BY <1>2, <1>3, CommonIs, Zenon
<1> QED
  BY <1>2, <1>4, Zenon

LEMMA AcrossFacts ==
    ASSUME NEW x, NEW y, Across(x, y)
    PROVE  /\ x \in Trackers /\ y \in Trackers /\ x # y /\ x # Root /\ y # Root
           /\ x \notin Subs /\ y \notin Subs /\ x \in Owned /\ y \in Owned
           /\ x \notin OnPath(y) /\ y \notin OnPath(x)
           /\ Common(x, y) # x /\ Common(x, y) # y
           /\ \A z \in OnPath(x) : z # x => z \notin Owned
           /\ \A z \in OnPath(y) : z # y => z \notin Owned
<1>1. x \in TopClients \cup {Initial} /\ y \in TopClients \cup {Initial} /\ x # y
  BY Zenon DEF Across
<1>2. /\ x \in Trackers /\ x # Root /\ x \in Owned /\ x \notin Subs
      /\ \A z \in OnPath(x) : z # x => z \notin Owned
  BY <1>1, TopFacts
<1>3. /\ y \in Trackers /\ y # Root /\ y \in Owned /\ y \notin Subs
      /\ \A z \in OnPath(y) : z # y => z \notin Owned
  BY <1>1, TopFacts
<1>4. x \notin OnPath(y) /\ y \notin OnPath(x)
  BY <1>1, <1>2, <1>3, Zenon
<1>5. Common(x, y) \in OnPath(x) /\ Common(x, y) \in OnPath(y)
  BY <1>2, <1>3, CommonIs, Zenon
<1> QED
  BY <1>1, <1>2, <1>3, <1>4, <1>5, Zenon

LEMMA TransferableFacts ==
    ASSUME NEW x, NEW y, Transferable(x, y)
    PROVE  /\ x \in Trackers /\ y \in Trackers /\ x # y /\ x \in Owned /\ y \in Owned
           /\ x # Root /\ y # Root
           /\ ToParent(x, y) <=> x \in Subs
           /\ ToSub(x, y) <=> y \in Subs
           /\ y = Common(x, y) <=> x \in Subs
           /\ x = Common(x, y) <=> y \in Subs
<1>1. CASE ToParent(x, y)
  <2>1. x \in Trackers /\ y \in Trackers /\ x # y /\ x \in Subs /\ y \in TopClients /\ y \notin Subs
        /\ Common(x, y) = y /\ x # Root
    BY <1>1, ToParentFacts, Zenon
  <2>2. x \in Owned /\ y \in Owned /\ y # Root
    BY <2>1, SubFacts, ClientFacts, Zenon DEF Owned, TopClients
  <2>3. ~ToSub(x, y)
    BY <2>1, Zenon DEF ToSub
  <2> QED
    BY <1>1, <2>1, <2>2, <2>3, Zenon
<1>2. CASE ToSub(x, y)
  <2>1. x \in Trackers /\ y \in Trackers /\ x # y /\ y \in Subs /\ x \in TopClients /\ x \notin Subs
        /\ Common(x, y) = x /\ y # Root
    BY <1>2, ToSubFacts, Zenon
  <2>2. x \in Owned /\ y \in Owned /\ x # Root
    BY <2>1, SubFacts, ClientFacts, Zenon DEF Owned, TopClients
  <2>3. ~ToParent(x, y)
    BY <2>1, Zenon DEF ToParent
  <2> QED
    BY <1>2, <2>1, <2>2, <2>3, Zenon
<1>3. CASE Across(x, y)
  <2>1. /\ x \in Trackers /\ y \in Trackers /\ x # y /\ x # Root /\ y # Root
        /\ x \notin Subs /\ y \notin Subs /\ x \in Owned /\ y \in Owned
        /\ Common(x, y) # x /\ Common(x, y) # y
    BY <1>3, AcrossFacts, Zenon
  <2>2. ~ToParent(x, y) /\ ~ToSub(x, y)
    BY <2>1, Zenon DEF ToParent, ToSub
  <2> QED
    BY <2>1, <2>2, Zenon
<1> QED
  BY <1>1, <1>2, <1>3, Zenon DEF Transferable
-----------------------------------------------------------------------------
(***************************************************************************)
(* Operations.                                                             *)
(***************************************************************************)
LEMMA IdleOp ==
    /\ Idle \in Operation /\ Idle.pc = "idle" /\ Idle.src = Root /\ Idle.dst = Root
BY TreeRoot DEF Idle, Operation

Increasing(x, n, f, a) ==
    [Idle EXCEPT !.pc = "climb", !.src = x, !.at = x, !.bytes = n,
                 !.ask = n, !.toFit = f, !.alloc = a]

LEMMA IncreaseOp ==
    ASSUME NEW x \in Trackers, NEW n \in Nat, NEW f \in BOOLEAN, NEW a \in BOOLEAN,
           NEW o, o = Increasing(x, n, f, a)
    PROVE  /\ o \in Operation /\ o.pc = "climb" /\ o.src = x /\ o.at = x /\ o.bytes = n
           /\ o.ask = n /\ o.toFit = f /\ o.alloc = a /\ o.dst = Root
BY IdleOp DEF Operation, Increasing

Decreasing(x, n) == [Idle EXCEPT !.pc = "release", !.src = x, !.at = x, !.ask = n]

LEMMA DecreaseOp ==
    ASSUME NEW x \in Trackers, NEW n \in Nat, NEW o, o = Decreasing(x, n)
    PROVE  /\ o \in Operation /\ o.pc = "release" /\ o.src = x /\ o.at = x /\ o.ask = n
           /\ o.dst = Root
BY IdleOp DEF Operation, Decreasing

LEMMA TransferOp ==
    ASSUME NEW x \in Trackers, NEW y \in Trackers, NEW n \in Nat, NEW o, o = Transfer(x, y, n)
    PROVE  /\ o \in Operation /\ o.pc = "transfer" /\ o.src = x /\ o.dst = y /\ o.bytes = n
           /\ o.todo = LockOrder(x, y)
<1>1. PICK l \in Seq(Trackers) : l = LockOrder(x, y)
  BY LockOrderIs
<1> QED
  BY <1>1, IdleOp DEF Transfer, Operation

Needing(o, x, n) == [o.need EXCEPT ![x] = n]
AskParent(o, x, y, n) == [[o EXCEPT !.need[x] = n] EXCEPT !.at = y, !.ask = n]
StartGrant(o, x, n) == [[o EXCEPT !.need[x] = n] EXCEPT !.pc = "grant"]

LEMMA AskParentOp ==
    ASSUME NEW p \in Operation, NEW x \in Trackers, NEW y \in Trackers, NEW n \in Nat,
           NEW o, o = AskParent(p, x, y, n)
    PROVE  /\ o \in Operation /\ o.pc = p.pc /\ o.src = p.src /\ o.dst = p.dst
           /\ o.bytes = p.bytes /\ o.at = y /\ o.ask = n /\ o.need = Needing(p, x, n)
           /\ o.toFit = p.toFit /\ o.alloc = p.alloc
BY DEF Operation, Needing, AskParent

LEMMA StartGrantOp ==
    ASSUME NEW p \in Operation, NEW x \in Trackers, NEW n \in Nat,
           NEW o, o = StartGrant(p, x, n)
    PROVE  /\ o \in Operation /\ o.pc = "grant" /\ o.src = p.src /\ o.dst = p.dst
           /\ o.bytes = p.bytes /\ o.at = p.at /\ o.need = Needing(p, x, n)
           /\ o.alloc = p.alloc
BY DEF Operation, Needing, StartGrant

LEMMA MoveOp ==
    ASSUME NEW p \in Operation, NEW y \in Trackers, NEW o, o = [p EXCEPT !.at = y]
    PROVE  /\ o \in Operation /\ o.pc = p.pc /\ o.src = p.src /\ o.dst = p.dst
           /\ o.bytes = p.bytes /\ o.at = y /\ o.ask = p.ask /\ o.need = p.need
           /\ o.alloc = p.alloc
BY DEF Operation

RollingBack(o, y, n) == [o EXCEPT !.pc = "release", !.at = y, !.ask = n]

LEMMA RollbackOp ==
    ASSUME NEW p \in Operation, NEW y \in Trackers, NEW n \in Nat,
           NEW o, o = RollingBack(p, y, n)
    PROVE  /\ o \in Operation /\ o.pc = "release" /\ o.src = p.src /\ o.dst = p.dst
           /\ o.at = y /\ o.ask = n
BY DEF Operation, RollingBack

LEMMA LockedOp ==
    ASSUME NEW p \in Operation, p.todo # <<>>, NEW o, o = [p EXCEPT !.todo = Tail(@)]
    PROVE  /\ o \in Operation /\ o.pc = p.pc /\ o.src = p.src /\ o.dst = p.dst
           /\ o.bytes = p.bytes /\ o.todo = Tail(p.todo)
<1>1. p.todo \in Seq(Trackers)
  BY DEF Operation
<1>2. PICK l \in Seq(Trackers) : l = Tail(p.todo)
  <2>1. PICK k \in Seq(Trackers) : k = p.todo
    BY <1>1
  <2>2. k # <<>>
    BY <2>1
  <2>3. Tail(k) \in Seq(Trackers)
    BY <2>2
  <2> QED
    BY <2>1, <2>3, Zenon
<1>3. o = [p EXCEPT !.todo = l]
  BY <1>2
<1>4. /\ o \in Operation /\ o.pc = p.pc /\ o.src = p.src /\ o.dst = p.dst
      /\ o.bytes = p.bytes /\ o.todo = l
  <2> HIDE <1>2
  <2> QED
    BY <1>3 DEF Operation
<1> QED
  BY <1>2, <1>4, Zenon

LEMMA SettleOp ==
    ASSUME NEW p \in Operation, NEW o, o = [p EXCEPT !.pc = "settle"]
    PROVE  /\ o \in Operation /\ o.pc = "settle" /\ o.src = p.src /\ o.dst = p.dst
           /\ o.bytes = p.bytes
BY DEF Operation

LEMMA OpFields ==
    ASSUME NEW o \in Operation
    PROVE  /\ o.src \in Trackers /\ o.dst \in Trackers /\ o.at \in Trackers
           /\ o.bytes \in Nat /\ o.ask \in Nat /\ o.need \in [Trackers -> Nat]
           /\ o.toFit \in BOOLEAN /\ o.alloc \in BOOLEAN /\ o.todo \in Seq(Trackers)
           /\ o.pc \in {"idle", "climb", "grant", "release", "transfer", "settle"}
BY DEF Operation
-----------------------------------------------------------------------------
(***************************************************************************)
(* What a step of one thread leaves to the others.                         *)
(***************************************************************************)
OnlyThread(t) ==
    /\ \A s \in Threads \ {t} : th'[s] = th[s]
    /\ \A c \in Trackers : \/ lock'[c] = lock[c]
                           \/ lock[c] \in {t, NoThread} /\ lock'[c] \in {t, NoThread}

\* Locks and reservations of others are left alone; the unused reservation of a tracker
\* that somebody else uses does not shrink, and a client that is claiming gets nothing.
Quiet(t) ==
    /\ OnlyThread(t)
    /\ \/ initialLock' = initialLock
       \/ initialLock \in {t, NoThread} /\ initialLock' \in {t, NoThread}
    /\ \A z \in Trackers : lock[z] \notin {t, NoThread} => reservation'[z] = reservation[z]
    /\ \A x \in Owned : Unused(x) <= Unused(x)' \/ Uses(t, x)
    /\ \A y \in Clients : reservation'[y] = reservation[y] \/ Owner[y] = t \/ th[t].dst = y
    /\ \/ th'[t].dst \in {th[t].dst, Root}
       \/ \A s \in Threads : th[s].src = Initial => th[s].dst # th'[t].dst

Undisturbed(s) ==
    /\ th'[s] = th[s] /\ Held(s)' = Held(s) /\ (initialLock' = s <=> initialLock = s)
    /\ \A z \in Held(s) : reservation'[z] = reservation[z]
    /\ th[s].pc # "idle" => \A x : x = th[s].src => Unused(x) <= Unused(x)'
    /\ th[s].pc = "transfer" /\ th[s].src = Initial =>
          /\ reservation'[th[s].dst] = reservation[th[s].dst]
          /\ \A u \in Threads \ {s} : th'[u].dst # th[s].dst

LEMMA HeldOther ==
    ASSUME NEW t \in Threads, NEW s \in Threads \ {t}, OnlyThread(t)
    PROVE  Held(s)' = Held(s)
<1>1. ASSUME NEW c \in Trackers
      PROVE  lock'[c] = s <=> lock[c] = s
  <2>1. \/ lock'[c] = lock[c]
        \/ lock[c] \in {t, NoThread} /\ lock'[c] \in {t, NoThread}
    BY Zenon DEF OnlyThread
  <2>2. s # t /\ s # NoThread
    BY ThreadFacts, Zenon
  <2> QED
    BY <2>1, <2>2, Zenon
<1> QED
  BY <1>1, Zenon DEF Held

LEMMA PendingOther ==
    ASSUME TypeOK, NEW t \in Threads, OnlyThread(t),
           NEW c \in Trackers, lock[c] # t, lock'[c] # t
    PROVE  Pending(c)' = Pending(c)
<1>1. lock'[c] = lock[c]
  <2>1. \/ lock'[c] = lock[c]
        \/ lock[c] \in {t, NoThread} /\ lock'[c] \in {t, NoThread}
    BY Zenon DEF OnlyThread
  <2> QED
    BY <2>1, Zenon
<1>2. CASE c = Root \/ lock[c] = NoThread
  BY <1>1, <1>2, Zenon DEF Pending
<1>3. CASE c # Root /\ lock[c] # NoThread
  <2>1. PICK s : s = lock[c]
    OBVIOUS
  <2>2. s \in Threads \ {t} /\ lock'[c] = s
    BY <1>1, <1>3, <2>1, Zenon DEF TypeOK
  <2>3. th'[s] = th[s]
    BY <2>2, Zenon DEF OnlyThread
  <2>4. Pending(c) = PendingOf(th[s], c) /\ Pending(c)' = PendingOf(th'[s], c)
    BY <1>3, <2>1, <2>2, Zenon DEF Pending, PendingOf
  <2> QED
    BY <2>3, <2>4, Zenon
<1> QED
  BY <1>2, <1>3, Zenon

LEMMA UnusedType ==
    ASSUME TypeOK, NEW x \in Trackers
    PROVE  Unused(x) \in Int
<1>1. reservation[x] \in Nat /\ used[x] \in Nat /\ children[x] \in Nat
  BY DEF TypeOK
<1> QED
  BY <1>1, SMT DEF Unused

\* A thread that is not disturbed goes on as before.
LEMMA WorkingFrame ==
    ASSUME TypeOK, TypeOK', NEW s \in Threads, Working(s), Undisturbed(s)
    PROVE  Working(s)'
<1>1. PICK o : o = th[s]
  OBVIOUS
<1>2. PICK H : H = Held(s)
  OBVIOUS
<1>3. th'[s] = o /\ Held(s)' = H /\ (initialLock' = s <=> initialLock = s) /\ Held(s) = H
  BY <1>1, <1>2, Zenon DEF Undisturbed
<1>4. \A z \in H : reservation'[z] = reservation[z]
  BY <1>2, Zenon DEF Undisturbed
<1>5. o \in Operation /\ o.src \in Trackers /\ o.bytes \in Nat /\ o.ask \in Nat
      /\ o.need \in [Trackers -> Nat] /\ o.dst \in Trackers
  <2>1. o \in Operation
    BY <1>1 DEF TypeOK
  <2> QED
    BY <2>1, OpFields
<1>6. PICK n : n = Unused(o.src)
  OBVIOUS
<1>7. PICK m : m = Unused(o.src)'
  OBVIOUS
<1>8. n \in Int /\ m \in Int
  <2>1. n \in Int
    BY <1>5, <1>6, UnusedType
  <2>2. reservation'[o.src] \in Nat /\ used'[o.src] \in Nat /\ children'[o.src] \in Nat
    BY <1>5 DEF TypeOK
  <2>3. m \in Int
    BY <1>7, <2>2 DEF Unused
  <2> QED
    BY <2>1, <2>3
<1>9. o.pc # "idle" => n <= m
  BY <1>1, <1>6, <1>7, Zenon DEF Undisturbed
<1>10. MineOK(s)'
  BY <1>1, <1>3, Zenon DEF Working, MineOK, Uses
<1>11. IdleOK(s)'
  BY <1>1, <1>3, Zenon DEF Working, IdleOK
<1>12. ClimbOK(s)'
  <2> SUFFICES ASSUME o.pc = "climb"
               PROVE  ClimbOK(s)'
    BY <1>3, Zenon DEF ClimbOK
  <2>1. /\ o.src \in TopClients /\ o.at \in OnPath(o.src) /\ o.ask > 0
        /\ H = OnPath(o.src) \ OnPath(o.at)
        /\ \A z \in H : o.need[z] = o.ask /\ reservation[z] + o.ask <= Limit[z]
        /\ o.alloc => o.toFit
        /\ o.at = o.src => o.ask = o.bytes
        /\ o.at # o.src /\ o.alloc => o.bytes <= n + o.ask
        /\ initialLock # s
    BY <1>1, <1>2, <1>6, Zenon DEF Working, ClimbOK
  <2>2. \A z \in H : o.need[z] = o.ask /\ reservation'[z] + o.ask <= Limit[z]
    BY <1>4, <2>1, Zenon
  <2>3. o.at # o.src /\ o.alloc => o.bytes <= m + o.ask
    <3>1. n <= m
      BY <1>9, SMT
    <3>2. o.bytes <= n + o.ask => o.bytes <= m + o.ask
      BY <1>5, <1>8, <3>1, SMT
    <3> QED
      BY <2>1, <3>2, Zenon
  <2> QED
    BY <1>3, <1>7, <2>1, <2>2, <2>3, Zenon DEF ClimbOK
<1>13. GrantOK(s)'
  <2> SUFFICES ASSUME o.pc = "grant"
               PROVE  GrantOK(s)'
    BY <1>3, Zenon DEF GrantOK
  <2>1. /\ o.src \in TopClients /\ o.at \in OnPath(o.src)
        /\ H = (OnPath(o.src) \ OnPath(o.at)) \cup {o.at}
        /\ \A z \in H : o.need[z] = o.need[o.src] /\ reservation[z] + o.need[z] <= Limit[z]
        /\ o.need[o.src] = 0 => o.at = o.src
        /\ o.alloc => o.bytes <= n + o.need[o.src]
        /\ initialLock # s
    BY <1>1, <1>2, <1>6, Zenon DEF Working, GrantOK
  <2>2. \A z \in H : o.need[z] = o.need[o.src] /\ reservation'[z] + o.need[z] <= Limit[z]
    BY <1>4, <2>1, Zenon
  <2>3. o.alloc => o.bytes <= m + o.need[o.src]
    <3>1. n <= m /\ o.need[o.src] \in Nat
      BY <1>5, <1>9, SMT
    <3>2. o.bytes <= n + o.need[o.src] => o.bytes <= m + o.need[o.src]
      BY <1>5, <1>8, <3>1, SMT
    <3> QED
      BY <2>1, <3>2, Zenon
  <2> QED
    BY <1>3, <1>7, <2>1, <2>2, <2>3, Zenon DEF GrantOK
<1>14. ReleaseOK(s)'
  <2> SUFFICES ASSUME o.pc = "release"
               PROVE  ReleaseOK(s)'
    BY <1>3, Zenon DEF ReleaseOK
  <2>1. /\ o.src \in TopClients \cup {Initial} /\ o.at \in OnPath(o.src)
        /\ H = OnPath(o.src) \ OnPath(o.at)
        /\ o.at = o.src => o.ask <= n
        /\ initialLock = s => o.src = Initial
    BY <1>1, <1>2, <1>6, Zenon DEF Working, ReleaseOK
  <2>2. o.at = o.src => o.ask <= m
    <3>1. n <= m
      BY <1>9, SMT
    <3>2. o.ask <= n => o.ask <= m
      BY <1>5, <1>8, <3>1, SMT
    <3> QED
      BY <2>1, <3>2, Zenon
  <2> QED
    BY <1>3, <1>7, <2>1, <2>2, Zenon DEF ReleaseOK
<1>15. TransferOK(s)'
  <2> SUFFICES ASSUME o.pc = "transfer"
               PROVE  TransferOK(s)'
    BY <1>3, Zenon DEF TransferOK
  <2>1. /\ Transferable(o.src, o.dst) /\ o.bytes <= n
        /\ Taken(LockOrder(o.src, o.dst), o.todo, H)
        /\ initialLock = s => Initial \in {o.src, o.dst}
        /\ o.dst = Initial => initialLock = s
    BY <1>1, <1>2, <1>6, Zenon DEF Working, TransferOK
  <2>2. o.bytes <= m
    <3>1. n <= m
      BY <1>9, SMT
    <3> QED
      BY <1>5, <1>8, <2>1, <3>1, SMT
  <2> QED
    BY <1>3, <1>7, <2>1, <2>2, Zenon DEF TransferOK
<1>17. ClaimOK(s)'
  <2> SUFFICES ASSUME o.pc = "transfer", o.src = Initial
               PROVE  ClaimOK(s)'
    BY <1>3, Zenon DEF ClaimOK
  <2>1. /\ Query \in OnPath(o.dst) /\ Owner[o.dst] = s
        /\ reservation[o.dst] = 0 /\ o.bytes <= Limit[o.dst]
    BY <1>1, Zenon DEF Working, ClaimOK
  <2>2. /\ reservation'[o.dst] = reservation[o.dst]
        /\ \A u \in Threads \ {s} : th'[u].dst # o.dst
    BY <1>1, Zenon DEF Undisturbed
  <2> QED
    BY <1>3, <2>1, <2>2, Zenon DEF ClaimOK
<1>16. SettleOK(s)'
  <2> SUFFICES ASSUME o.pc = "settle"
               PROVE  SettleOK(s)'
    BY <1>3, Zenon DEF SettleOK
  <2>1. /\ Transferable(o.src, o.dst) /\ H = Both(o.src, o.dst)
        /\ o.dst \in Subs => o.bytes <= n /\ o.bytes <= reservation[o.dst]
        /\ initialLock = s => Initial \in {o.src, o.dst}
        /\ o.dst = Initial => initialLock = s
    BY <1>1, <1>2, <1>6, Zenon DEF Working, SettleOK
  <2>2. o.dst \in Subs => o.bytes <= m /\ o.bytes <= reservation'[o.dst]
    <3> SUFFICES ASSUME o.dst \in Subs
                 PROVE  o.bytes <= m /\ o.bytes <= reservation'[o.dst]
      OBVIOUS
    <3>1. n <= m
      BY <1>9, SMT
    <3>2. ToSub(o.src, o.dst)
      BY <2>1, TransferableFacts, Zenon
    <3>3. OnPath(o.dst) \ OnPath(o.src) = {o.dst}
      BY <3>2, ToSubFacts, Zenon
    <3>4. o.dst \in H
      BY <2>1, <3>3, Zenon DEF Both
    <3>5. reservation'[o.dst] = reservation[o.dst]
      BY <1>4, <3>4, Zenon
    <3>6. o.bytes <= m
      BY <1>5, <1>8, <2>1, <3>1, SMT
    <3> QED
      BY <2>1, <3>5, <3>6, Zenon
  <2> QED
    BY <1>3, <1>7, <2>1, <2>2, Zenon DEF SettleOK
<1> QED
  BY <1>10, <1>11, <1>12, <1>13, <1>14, <1>15, <1>16, <1>17, Zenon DEF Working

LEMMA QuietThreads ==
    ASSUME TypeOK, NEW t \in Threads, NEW s \in Threads \ {t}, Quiet(t), Working(s)
    PROVE  Undisturbed(s)
<1>1. OnlyThread(t)
  BY Zenon DEF Quiet
<1>2. th'[s] = th[s]
  BY <1>1, Zenon DEF OnlyThread
<1>3. Held(s)' = Held(s)
  BY <1>1, HeldOther, Zenon
<1>4. s # t /\ s # NoThread
  BY ThreadFacts, Zenon
<1>5. initialLock' = s <=> initialLock = s
  BY <1>4, Zenon DEF Quiet
<1>6. \A z \in Held(s) : reservation'[z] = reservation[z]
  BY <1>4, Zenon DEF Quiet, Held
<1>7. ASSUME th[s].pc # "idle", NEW x, x = th[s].src
      PROVE  Unused(x) <= Unused(x)'
  <2>1. Uses(s, x)
    BY <1>7, Zenon DEF Working, MineOK
  <2>2. x \in Owned
    BY <2>1, Zenon DEF Uses, Owned
  <2>3. ~Uses(t, x)
    BY <1>4, <2>1, Zenon DEF Uses
  <2> QED
    BY <2>2, <2>3, Zenon DEF Quiet
<1>8. ASSUME th[s].pc = "transfer", th[s].src = Initial
      PROVE  /\ reservation'[th[s].dst] = reservation[th[s].dst]
             /\ \A u \in Threads \ {s} : th'[u].dst # th[s].dst
  <2>1. PICK y : y = th[s].dst
    OBVIOUS
  <2>2. /\ Transferable(Initial, y) /\ Owner[y] = s
        /\ \A u \in Threads \ {s} : th[u].dst # y
    BY <1>8, <2>1, Zenon DEF Working, TransferOK, ClaimOK
  <2>3. y \in Owned /\ y # Initial /\ y # Root
    BY <2>2, TransferableFacts, Zenon
  <2>4. y \in Clients
    BY <2>3, Zenon DEF Owned
  <2>5. th[t].dst # y /\ Owner[y] # t
    BY <1>4, <2>2, Zenon
  <2>6. reservation'[y] = reservation[y]
    BY <2>4, <2>5, Zenon DEF Quiet
  <2>7. th'[t].dst # y
    BY <1>8, <2>1, <2>3, <2>5, Zenon DEF Quiet
  <2>8. ASSUME NEW u \in Threads \ {s}
        PROVE  th'[u].dst # y
    <3>1. CASE u = t
      BY <2>7, <3>1, Zenon
    <3>2. CASE u # t
      <4>1. th'[u] = th[u]
        BY <1>1, <3>2, Zenon DEF OnlyThread
      <4> QED
        BY <2>2, <4>1, Zenon
    <3> QED
      BY <3>1, <3>2, Zenon
  <2> QED
    BY <2>1, <2>6, <2>8, Zenon
<1> QED
  BY <1>2, <1>3, <1>5, <1>6, <1>7, <1>8, Zenon DEF Undisturbed
-----------------------------------------------------------------------------
(***************************************************************************)
(* The shares, and how a step may change them.                             *)
(***************************************************************************)
LEMMA PendingType ==
    ASSUME TypeOK, \A s \in Threads : Working(s), NEW c \in Trackers
    PROVE  Pending(c) \in Int /\ reservation[c] + Pending(c) \in Nat
<1>1. reservation[c] \in Nat
  BY DEF TypeOK
<1>2. CASE c = Root \/ lock[c] = NoThread
  <2>1. Pending(c) = 0
    BY <1>2, Zenon DEF Pending
  <2> QED
    BY <1>1, <2>1, SMT
<1>3. CASE c # Root /\ lock[c] # NoThread
  <2>1. PICK s \in Threads : s = lock[c]
    BY <1>3, Zenon DEF TypeOK
  <2>2. PICK o \in Operation : o = th[s]
    BY <2>1 DEF TypeOK
  <2>3. o.bytes \in Nat /\ o.ask \in Nat /\ o.need[c] \in Nat
    BY OpFields
  <2>4. Pending(c) = PendingOf(o, c)
    BY <1>3, <2>1, <2>2, Zenon DEF Pending
  <2>5. \/ PendingOf(o, c) \in {o.need[c], o.ask, o.bytes, 0}
        \/ o.pc = "settle" /\ c = o.dst /\ c \in Subs /\ PendingOf(o, c) = 0 - o.bytes
    BY DEF PendingOf
  <2>6. CASE PendingOf(o, c) \in {o.need[c], o.ask, o.bytes, 0}
    <3>1. PendingOf(o, c) \in Nat
      BY <2>3, <2>6, SMT
    <3> QED
      BY <1>1, <2>4, <3>1, SMT
  <2>7. CASE o.pc = "settle" /\ c = o.dst /\ c \in Subs /\ PendingOf(o, c) = 0 - o.bytes
    <3>1. o.bytes <= reservation[c]
      BY <2>1, <2>2, <2>7, Zenon DEF Working, SettleOK
    <3> QED
      BY <1>1, <2>3, <2>4, <2>7, <3>1, SMT
  <2> QED
    BY <2>5, <2>6, <2>7, Zenon
<1> QED
  BY <1>2, <1>3, Zenon

LEMMA ShareType == TypeOK /\ (\A s \in Threads : Working(s)) => Share \in [Trackers -> Nat]
<1> SUFFICES ASSUME TypeOK, \A s \in Threads : Working(s)
             PROVE  Share \in [Trackers -> Nat]
  OBVIOUS
<1>1. \A c \in Trackers : reservation[c] + Pending(c) \in Nat
  BY PendingType, Zenon
<1> QED
  BY <1>1, Zenon DEF Share

\* One child's share changes with the parent's child reservations, or two change against
\* each other.
NoChange(S, n, m, f, g) == m = n /\ \A c \in S : g[c] = f[c]
OneChange(S, n, m, f, g) ==
    \E c \in S : m = n + g[c] - f[c] /\ \A d \in S : d # c => g[d] = f[d]
TwoChanges(S, n, m, f, g) ==
    \E c, d \in S : /\ c # d /\ m = n + (g[c] - f[c]) + (g[d] - f[d])
                    /\ \A e \in S : e \notin {c, d} => g[e] = f[e]
SumStep(S, n, m, f, g) ==
    NoChange(S, n, m, f, g) \/ OneChange(S, n, m, f, g) \/ TwoChanges(S, n, m, f, g)

LEMMA SumsStep ==
    ASSUME TypeOK, TypeOK', \A s \in Threads : Working(s), (\A s \in Threads : Working(s))',
           SumsAgree, \A p \in Trackers : SumStep(Children(p), children[p], children'[p], Share, Share')
    PROVE  SumsAgree'
<1>1. PICK f \in [Trackers -> Nat] : f = Share
  BY ShareType
<1>2. (TypeOK /\ (\A s \in Threads : Working(s)) => Share \in [Trackers -> Nat])'
  BY ShareType, PTL
<1>3. PICK g \in [Trackers -> Nat] : g = Share'
  BY <1>2
<1>4. ASSUME NEW p \in Trackers
      PROVE  children'[p] = Total(g, Children(p))
  <2>1. PICK S : S = Children(p)
    OBVIOUS
  <2>2. S \in SUBSET Trackers
    BY <2>1, Zenon DEF Children
  <2>3. children[p] = Total(f, S) /\ Total(f, S) \in Nat
    BY <1>1, <2>1, <2>2, TotalType, Zenon DEF SumsAgree
  <2>4. SumStep(S, children[p], children'[p], f, g)
    BY <1>1, <1>3, <2>1, Zenon
  <2>5. CASE NoChange(S, children[p], children'[p], f, g)
    <3> USE <2>5 DEF NoChange
    <3>1. Total(f, S) = Total(g, S)
      BY <2>2, <2>5, TotalFrame
    <3> QED
      BY <2>1, <2>3, <2>5, <3>1, Zenon
  <2>6. CASE OneChange(S, children[p], children'[p], f, g)
    <3>0. PICK c \in S : /\ children'[p] = children[p] + g[c] - f[c]
                         /\ \A d \in S : d # c => g[d] = f[d]
      BY <2>6, Zenon DEF OneChange
    <3>1. Total(g, S) = Total(f, S) + g[c] - f[c]
      BY <2>2, <3>0, TotalChange
    <3> QED
      BY <2>1, <2>3, <3>0, <3>1, Zenon
  <2>7. CASE TwoChanges(S, children[p], children'[p], f, g)
    <3>0. PICK c \in S, d \in S :
             /\ c # d /\ children'[p] = children[p] + (g[c] - f[c]) + (g[d] - f[d])
             /\ \A e \in S : e \notin {c, d} => g[e] = f[e]
      BY <2>7, Zenon DEF TwoChanges
    <3>1. c \in Trackers /\ d \in Trackers
      BY <2>2
    <3>2. f[c] \in Nat /\ g[c] \in Nat /\ f[d] \in Nat /\ g[d] \in Nat
      BY <3>1
    <3>3. PICK h : h = [f EXCEPT ![c] = g[c]]
      OBVIOUS
    <3>4. h \in [Trackers -> Nat] /\ h[c] = g[c] /\ \A e \in Trackers : e # c => h[e] = f[e]
      BY <3>1, <3>2, <3>3
    <3>5. \A e \in S : e # c => f[e] = h[e]
      BY <2>2, <3>4
    <3>6. Total(h, S) = Total(f, S) + h[c] - f[c]
      BY <2>2, <3>4, <3>5, TotalChange
    <3>7. \A e \in S : e # d => h[e] = g[e]
      BY <2>2, <3>0, <3>4
    <3>8. Total(g, S) = Total(h, S) + g[d] - h[d]
      BY <2>2, <3>4, <3>7, TotalChange
    <3>9. h[d] = f[d]
      BY <3>0, <3>1, <3>4
    <3> QED
      BY <2>1, <2>3, <3>0, <3>2, <3>4, <3>6, <3>8, <3>9, SMT
  <2> QED
    BY <2>4, <2>5, <2>6, <2>7, Zenon DEF SumStep
<1> QED
  BY <1>3, <1>4, Zenon DEF SumsAgree

\* The initial reservations, when a step is not about them.
LEMMA InitialFrame ==
    ASSUME TypeOK, InitialAgrees, NEW t \in Threads, OnlyThread(t), initialLock # t,
           initialLock' = initialLock, reservation'[Initial] = reservation[Initial],
           remaining' = remaining
    PROVE  InitialAgrees'
<1>1. CASE initialLock = NoThread
  <2>1. InitialOwed = 0 /\ InitialOwed' = 0
    BY <1>1, Zenon DEF InitialOwed
  <2> QED
    BY <2>1, Zenon DEF InitialAgrees
<1>2. CASE initialLock # NoThread
  <2>1. PICK s : s = initialLock
    OBVIOUS
  <2>2. s \in Threads \ {t} /\ initialLock' = s
    BY <1>2, <2>1, Zenon DEF TypeOK
  <2>3. th'[s] = th[s]
    BY <2>2, Zenon DEF OnlyThread
  <2>4. InitialOwed' = InitialOwed
    BY <1>2, <2>1, <2>2, <2>3, Zenon DEF InitialOwed
  <2> QED
    BY <2>4, Zenon DEF InitialAgrees
<1> QED
  BY <1>1, <1>2, Zenon

LEMMA SameNumbers ==
    ASSUME Bounds, MemAgrees, Passed, UNCHANGED <<reservation, used, children, mem>>
    PROVE  Bounds' /\ MemAgrees' /\ Passed'
<1>1. reservation' = reservation /\ used' = used /\ children' = children /\ mem' = mem
  OBVIOUS
<1> QED
  BY <1>1, Zenon DEF Bounds, MemAgrees, Passed

LEMMA SumsSame ==
    ASSUME TypeOK, TypeOK', \A s \in Threads : Working(s), (\A s \in Threads : Working(s))',
           SumsAgree, children' = children,
           \A c \in Trackers \ {Root} :
              reservation'[c] + Pending(c)' = reservation[c] + Pending(c)
    PROVE  SumsAgree'
<1>1. ASSUME NEW p \in Trackers
      PROVE  SumStep(Children(p), children[p], children'[p], Share, Share')
  <2>1. ASSUME NEW c \in Children(p)
        PROVE  Share'[c] = Share[c]
    <3>1. c \in Trackers \ {Root}
      BY Zenon DEF Children
    <3>2. Share[c] = reservation[c] + Pending(c) /\ Share'[c] = reservation'[c] + Pending(c)'
      BY <3>1, Zenon DEF Share
    <3> QED
      BY <3>1, <3>2, Zenon
  <2> QED
    BY <2>1, Zenon DEF SumStep, NoChange
<1> QED
  BY <1>1, SumsStep, Zenon

\* What is left to show of a thread, by what it is doing.
LEMMA WorkingByPc ==
    ASSUME NEW t \in Threads, MineOK(t)', IdleOK(t)', ClimbOK(t)', GrantOK(t)', ReleaseOK(t)',
           TransferOK(t)', ClaimOK(t)', SettleOK(t)'
    PROVE  Working(t)'
BY Zenon DEF Working

LEMMA WorkingIdle ==
    ASSUME NEW t \in Threads, th'[t] = Idle, Held(t)' = {}, initialLock' # t
    PROVE  Working(t)'
<1>1. th'[t].pc = "idle"
  BY IdleOp, Zenon
<1>2. MineOK(t)' /\ IdleOK(t)'
  BY <1>1, Zenon DEF MineOK, IdleOK
<1>3. /\ ClimbOK(t)' /\ GrantOK(t)' /\ ReleaseOK(t)' /\ TransferOK(t)' /\ ClaimOK(t)'
      /\ SettleOK(t)'
  BY <1>1 DEF ClimbOK, GrantOK, ReleaseOK, TransferOK, ClaimOK, SettleOK
<1> QED
  BY <1>2, <1>3, WorkingByPc, Zenon

LEMMA WorkingClimb ==
    ASSUME NEW t \in Threads, th'[t].pc = "climb", MineOK(t)', ClimbOK(t)'
    PROVE  Working(t)'
<1>1. /\ IdleOK(t)' /\ GrantOK(t)' /\ ReleaseOK(t)' /\ TransferOK(t)' /\ ClaimOK(t)'
      /\ SettleOK(t)'
  BY DEF IdleOK, GrantOK, ReleaseOK, TransferOK, ClaimOK, SettleOK
<1> QED
  BY <1>1, WorkingByPc, Zenon

LEMMA WorkingGrant ==
    ASSUME NEW t \in Threads, th'[t].pc = "grant", MineOK(t)', GrantOK(t)'
    PROVE  Working(t)'
<1>1. /\ IdleOK(t)' /\ ClimbOK(t)' /\ ReleaseOK(t)' /\ TransferOK(t)' /\ ClaimOK(t)'
      /\ SettleOK(t)'
  BY DEF IdleOK, ClimbOK, ReleaseOK, TransferOK, ClaimOK, SettleOK
<1> QED
  BY <1>1, WorkingByPc, Zenon

LEMMA WorkingRelease ==
    ASSUME NEW t \in Threads, th'[t].pc = "release", MineOK(t)', ReleaseOK(t)'
    PROVE  Working(t)'
<1>1. /\ IdleOK(t)' /\ ClimbOK(t)' /\ GrantOK(t)' /\ TransferOK(t)' /\ ClaimOK(t)'
      /\ SettleOK(t)'
  BY DEF IdleOK, ClimbOK, GrantOK, TransferOK, ClaimOK, SettleOK
<1> QED
  BY <1>1, WorkingByPc, Zenon

LEMMA WorkingTransfer ==
    ASSUME NEW t \in Threads, th'[t].pc = "transfer", MineOK(t)', TransferOK(t)', ClaimOK(t)'
    PROVE  Working(t)'
<1>1. /\ IdleOK(t)' /\ ClimbOK(t)' /\ GrantOK(t)' /\ ReleaseOK(t)' /\ SettleOK(t)'
  BY DEF IdleOK, ClimbOK, GrantOK, ReleaseOK, SettleOK
<1> QED
  BY <1>1, WorkingByPc, Zenon

LEMMA WorkingSettle ==
    ASSUME NEW t \in Threads, th'[t].pc = "settle", MineOK(t)', SettleOK(t)'
    PROVE  Working(t)'
<1>1. /\ IdleOK(t)' /\ ClimbOK(t)' /\ GrantOK(t)' /\ ReleaseOK(t)' /\ TransferOK(t)'
      /\ ClaimOK(t)'
  BY DEF IdleOK, ClimbOK, GrantOK, ReleaseOK, TransferOK, ClaimOK
<1> QED
  BY <1>1, WorkingByPc, Zenon

LEMMA OthersGoOn ==
    ASSUME TypeOK, TypeOK', \A s \in Threads : Working(s), NEW t \in Threads, Quiet(t),
           Working(t)'
    PROVE  (\A s \in Threads : Working(s))'
<1>1. ASSUME NEW s \in Threads
      PROVE  Working(s)'
  <2>1. CASE s = t
    BY <2>1, Zenon
  <2>2. CASE s # t
    <3>1. Undisturbed(s)
      BY <2>2, QuietThreads, Zenon
    <3> QED
      BY <3>1, WorkingFrame, Zenon
  <2> QED
    BY <2>1, <2>2, Zenon
<1> QED
  BY <1>1, Zenon
-----------------------------------------------------------------------------
(***************************************************************************)
(* The calls: nothing but the thread and the lock of the initial           *)
(* reservations changes.                                                   *)
(***************************************************************************)
LEMMA CallCommon ==
    ASSUME IInv, NEW t \in Threads, NEW op \in Operation, Call(t, op),
           remaining' \in 0..Claims, initialLock' \in {initialLock, t}
    PROVE  /\ TypeOK' /\ Bounds' /\ MemAgrees' /\ Passed' /\ OnlyThread(t)
           /\ th'[t] = op /\ th[t] = Idle /\ Held(t)' = {} /\ initialLock # t
           /\ \A c \in Trackers : Pending(c)' = Pending(c)
           /\ \A x : Unused(x)' = Unused(x)
           /\ UNCHANGED <<reservation, used, children, mem, lock>>
<1>1. TypeOK /\ Bounds /\ MemAgrees /\ Passed /\ Working(t)
  BY Zenon DEF IInv
<1>2. /\ th[t] = Idle /\ th' = [th EXCEPT ![t] = op] /\ reservation' = reservation
      /\ used' = used /\ children' = children /\ mem' = mem /\ other' = other /\ lock' = lock
  BY Zenon DEF Call
<1>3. th'[t] = op /\ \A s \in Threads \ {t} : th'[s] = th[s]
  BY <1>1, <1>2 DEF TypeOK
<1>4. Held(t) = {} /\ initialLock # t
  BY <1>1, <1>2, IdleOp, Zenon DEF Working, IdleOK
<1>5. OnlyThread(t)
  BY <1>2, <1>3, Zenon DEF OnlyThread
<1>6. Held(t)' = {}
  BY <1>2, <1>4, Zenon DEF Held
<1>7. TypeOK'
  <2>1. th' \in [Threads -> Operation]
    BY <1>1, <1>2 DEF TypeOK
  <2>2. initialLock' \in Threads \cup {NoThread}
    BY <1>1, Zenon DEF TypeOK
  <2> QED
    BY <1>1, <1>2, <2>1, <2>2, Zenon DEF TypeOK
<1>8. Bounds' /\ MemAgrees' /\ Passed'
  BY <1>1, <1>2, SameNumbers
<1>9. ASSUME NEW c \in Trackers
      PROVE  Pending(c)' = Pending(c)
  <2>1. lock[c] # t /\ lock'[c] # t
    BY <1>2, <1>4, Zenon DEF Held
  <2> QED
    BY <1>1, <1>5, <2>1, PendingOther, Zenon
<1>10. \A x : Unused(x)' = Unused(x)
  BY <1>2, Zenon DEF Unused
<1> QED
  BY <1>2, <1>3, <1>4, <1>5, <1>6, <1>7, <1>8, <1>9, <1>10, Zenon

\* The rest, once the operation is known to be in order.
LEMMA CallInductive ==
    ASSUME IInv, NEW t \in Threads, NEW op \in Operation, Call(t, op),
           remaining' \in 0..Claims, initialLock' \in {initialLock, t},
           initialLock' # initialLock => initialLock = NoThread,
           op.dst # Root => \A s \in Threads : th[s].src = Initial => th[s].dst # op.dst,
           Working(t)', InitialAgrees'
    PROVE  IInv'
<1>1. TypeOK /\ SumsAgree /\ \A s \in Threads : Working(s)
  BY Zenon DEF IInv
<1>2. /\ TypeOK' /\ Bounds' /\ MemAgrees' /\ Passed' /\ OnlyThread(t) /\ th'[t] = op
      /\ \A c \in Trackers : Pending(c)' = Pending(c)
      /\ \A x : Unused(x)' = Unused(x)
      /\ reservation' = reservation /\ children' = children
  BY CallCommon, Zenon
<1>3. Quiet(t)
  <2>1. \A x \in Owned : Unused(x) <= Unused(x)'
    <3> TAKE x \in Owned
    <3>1. x \in Trackers
      BY ClientFacts, InitialFacts, Zenon DEF Owned
    <3>2. Unused(x) \in Int /\ Unused(x)' = Unused(x)
      BY <1>1, <1>2, <3>1, UnusedType, Zenon
    <3> QED
      BY <3>2, SMT
  <2>2. \/ initialLock' = initialLock
        \/ initialLock \in {t, NoThread} /\ initialLock' \in {t, NoThread}
    BY Zenon
  <2>3. \/ th'[t].dst \in {th[t].dst, Root}
        \/ \A s \in Threads : th[s].src = Initial => th[s].dst # th'[t].dst
    BY <1>2, Zenon
  <2> QED
    BY <1>2, <2>1, <2>2, <2>3, Zenon DEF Quiet
<1>4. (\A s \in Threads : Working(s))'
  BY <1>1, <1>2, <1>3, OthersGoOn, Zenon
<1>5. SumsAgree'
  <2>1. \A c \in Trackers \ {Root} :
           reservation'[c] + Pending(c)' = reservation[c] + Pending(c)
    BY <1>2, Zenon
  <2> QED
    BY <1>1, <1>2, <1>4, <2>1, SumsSame, Zenon
<1> QED
  BY <1>2, <1>4, <1>5, Zenon DEF IInv

LEMMA IncreaseInductive ==
    ASSUME IInv, NEW t \in Threads, NEW x \in Clients, NEW n \in 1..MaxBytes,
           NEW f \in BOOLEAN, NEW a \in BOOLEAN, IncreaseReservation(t, x, n, f, a)
    PROVE  IInv'
<1>1. PICK o : o = Increasing(x, n, f, a)
  OBVIOUS
<1>2. /\ x \notin Subs /\ Owner[x] = t /\ (a => f) /\ Call(t, o)
      /\ initialLock' = initialLock /\ remaining' = remaining
  BY <1>1, Zenon DEF IncreaseReservation, Increasing
<1>3. TypeOK /\ InitialAgrees /\ remaining \in 0..Claims
  BY Zenon DEF IInv, TypeOK
<1>4. x \in Trackers /\ x # Initial /\ x \in TopClients
  BY <1>2, ClientFacts, Zenon DEF TopClients
<1>5. n \in Nat /\ n > 0
  BY NumberFacts
<1>6. /\ o \in Operation /\ o.pc = "climb" /\ o.src = x /\ o.at = x /\ o.bytes = n
      /\ o.ask = n /\ o.toFit = f /\ o.alloc = a /\ o.dst = Root
  BY <1>1, <1>4, <1>5, IncreaseOp
<1>7. OnlyThread(t) /\ th'[t] = o /\ Held(t)' = {} /\ initialLock # t /\ reservation' = reservation
  BY <1>2, <1>3, <1>6, CallCommon, Zenon
<1>8. MineOK(t)'
  BY <1>2, <1>4, <1>6, <1>7, Zenon DEF MineOK, Uses
<1>9. ClimbOK(t)'
  <2>1. x \in OnPath(x) /\ OnPath(x) \ OnPath(x) = {}
    BY <1>4, TreeSelf, Zenon
  <2> QED
    BY <1>2, <1>4, <1>5, <1>6, <1>7, <2>1, Zenon DEF ClimbOK
<1>10. Working(t)'
  BY <1>6, <1>7, <1>8, <1>9, WorkingClimb, Zenon
<1>11. InitialAgrees'
  BY <1>2, <1>3, <1>7, InitialFrame, Zenon
<1> QED
  BY <1>2, <1>3, <1>6, <1>10, <1>11, CallInductive, Zenon

LEMMA DecreaseInductive ==
    ASSUME IInv, NEW t \in Threads, NEW x \in Clients, NEW n \in 1..MaxBytes,
           DecreaseReservation(t, x, n)
    PROVE  IInv'
<1>1. PICK o : o = Decreasing(x, n)
  OBVIOUS
<1>2. /\ x \notin Subs /\ Owner[x] = t /\ n <= Unused(x) /\ Call(t, o)
      /\ initialLock' = initialLock /\ remaining' = remaining
  BY <1>1, Zenon DEF DecreaseReservation, Decreasing
<1>3. TypeOK /\ InitialAgrees /\ remaining \in 0..Claims
  BY Zenon DEF IInv, TypeOK
<1>4. x \in Trackers /\ x # Initial /\ x \in TopClients
  BY <1>2, ClientFacts, Zenon DEF TopClients
<1>5. n \in Nat
  BY NumberFacts
<1>6. /\ o \in Operation /\ o.pc = "release" /\ o.src = x /\ o.at = x /\ o.ask = n
      /\ o.dst = Root
  BY <1>1, <1>4, <1>5, DecreaseOp
<1>7. /\ OnlyThread(t) /\ th'[t] = o /\ Held(t)' = {} /\ initialLock # t
      /\ reservation' = reservation /\ Unused(x)' = Unused(x)
  BY <1>2, <1>3, <1>6, CallCommon, Zenon
<1>8. MineOK(t)'
  BY <1>2, <1>4, <1>6, <1>7, Zenon DEF MineOK, Uses
<1>9. ReleaseOK(t)'
  <2>1. x \in OnPath(x) /\ OnPath(x) \ OnPath(x) = {}
    BY <1>4, TreeSelf, Zenon
  <2>2. PICK m : m = Unused(x)'
    OBVIOUS
  <2>3. o.ask <= m
    BY <1>2, <1>6, <1>7, <2>2, Zenon
  <2> QED
    BY <1>2, <1>4, <1>6, <1>7, <2>1, <2>2, <2>3, Zenon DEF ReleaseOK
<1>10. Working(t)'
  BY <1>6, <1>7, <1>8, <1>9, WorkingRelease, Zenon
<1>11. InitialAgrees'
  BY <1>2, <1>3, <1>7, InitialFrame, Zenon
<1> QED
  BY <1>2, <1>3, <1>6, <1>10, <1>11, CallInductive, Zenon

\* A transfer begins with no lock taken.
LEMMA TakenNone ==
    ASSUME NEW l \in Seq(Trackers)
    PROVE  Taken(l, l, {})
<1>1. l = SubSeq(l, 1, Len(l))
  OBVIOUS
<1>2. {} = {l[i] : i \in 1..0}
  OBVIOUS
<1>3. 0 \in 0..Len(l) /\ 0 + 1 = 1
  OBVIOUS
<1> QED
  BY <1>1, <1>2, <1>3, Zenon DEF Taken

LEMMA TransferStarts ==
    ASSUME NEW t \in Threads, NEW x, NEW y, Transferable(x, y), NEW n \in Nat,
           th'[t] = Transfer(x, y, n), Held(t)' = {}, n <= Unused(x)', Uses(t, x)',
           initialLock' = t => Initial \in {x, y}, y = Initial => initialLock' = t,
           x = Initial => /\ Query \in OnPath(y) /\ Owner[y] = t
                          /\ reservation'[y] = 0 /\ n <= Limit[y]
                          /\ \A s \in Threads \ {t} : th'[s].dst # y
    PROVE  Working(t)'
<1>1. x \in Trackers /\ y \in Trackers
  BY TransferableFacts, Zenon
<1>2. PICK o \in Operation : o = th'[t]
  BY <1>1, TransferOp
<1>3. /\ o.pc = "transfer" /\ o.src = x /\ o.dst = y /\ o.bytes = n
      /\ o.todo = LockOrder(x, y)
  BY <1>1, <1>2, TransferOp
<1>4. Taken(LockOrder(x, y), LockOrder(x, y), {})
  BY <1>1, LockOrderIs, TakenNone, Zenon
<1>5. MineOK(t)'
  BY <1>2, <1>3, Zenon DEF MineOK
<1>6. TransferOK(t)'
  BY <1>2, <1>3, <1>4, Zenon DEF TransferOK
<1>7. ClaimOK(t)'
  BY <1>2, <1>3, Zenon DEF ClaimOK
<1> QED
  BY <1>2, <1>3, <1>5, <1>6, <1>7, WorkingTransfer, Zenon

LEMMA TransferInductive ==
    ASSUME IInv, NEW t \in Threads, NEW x \in Clients, NEW y \in Clients,
           NEW n \in 1..MaxBytes, TransferReservationTo(t, x, y, n)
    PROVE  IInv'
<1>1. PICK o : o = Transfer(x, y, n)
  OBVIOUS
<1>2. /\ Owner[x] = t /\ x # y /\ n <= Unused(x) /\ Call(t, o)
      /\ (x \in Subs => y = Parent(x)) /\ (y \in Subs => x = Parent(y))
      /\ \A s \in Threads : th[s].src = Initial => th[s].dst # y
      /\ initialLock' = initialLock /\ remaining' = remaining
  BY <1>1, Zenon DEF TransferReservationTo
<1>3. TypeOK /\ InitialAgrees /\ remaining \in 0..Claims
  BY Zenon DEF IInv, TypeOK
<1>4. x \in Trackers /\ x # Initial /\ y \in Trackers /\ y # Initial
  BY <1>2, ClientFacts, Zenon
<1>5. n \in Nat
  BY NumberFacts
<1>6. o \in Operation /\ o.dst = y
  BY <1>1, <1>4, <1>5, TransferOp
<1>7. /\ OnlyThread(t) /\ th'[t] = o /\ Held(t)' = {} /\ initialLock # t
      /\ reservation' = reservation /\ Unused(x)' = Unused(x)
  BY <1>2, <1>3, <1>6, CallCommon, Zenon
<1>8. Transferable(x, y)
  BY <1>2, Zenon DEF Transferable, ToParent, ToSub, Across, TopClients
<1>9. Uses(t, x)'
  BY <1>2, <1>4, Zenon DEF Uses
<1>10. n <= Unused(x)'
  BY <1>2, <1>7, Zenon
<1>11. th'[t] = Transfer(x, y, n) /\ initialLock' # t
  BY <1>1, <1>2, <1>7, Zenon
<1>12. Working(t)'
  BY <1>4, <1>5, <1>7, <1>8, <1>9, <1>10, <1>11, TransferStarts, Zenon
<1>13. InitialAgrees'
  BY <1>2, <1>3, <1>7, InitialFrame, Zenon
<1> QED
  BY <1>2, <1>3, <1>6, <1>12, <1>13, CallInductive, Zenon

\* What an untouched tracker has, and the initial reservations.
LEMMA UnusedInitial ==
    ASSUME TypeOK, Passed, SumsAgree, \A s \in Threads : Working(s)
    PROVE  Unused(Initial) = reservation[Initial]
<1>1. PICK f \in [Trackers -> Nat] : f = Share
  BY ShareType
<1>2. children[Initial] = Total(f, {})
  BY <1>1, InitialFacts, Zenon DEF SumsAgree
<1>3. Total(f, {}) = 0
  BY TotalZero
<1>4. used[Initial] = 0
  <2>1. Initial \in Trackers \ TopClients
    BY InitialFacts, Zenon DEF TopClients
  <2> QED
    BY <2>1, Zenon DEF Passed
<1>5. PICK n \in Nat : n = reservation[Initial]
  BY InitialFacts DEF TypeOK
<1>6. n - 0 - 0 = n
  BY SMT
<1> QED
  BY <1>2, <1>3, <1>4, <1>5, <1>6, Zenon DEF Unused

\* Claim() and Return(): the lock of the initial reservations is taken.
LEMMA ClaimInductive ==
    ASSUME IInv, NEW t \in Threads, NEW y \in Clients, NEW n \in 1..MaxBytes, Claim(t, y, n)
    PROVE  IInv'
<1>1. PICK o : o = Transfer(Initial, y, n)
  OBVIOUS
<1>2. /\ y \notin Subs /\ Owner[y] = t /\ Query \in OnPath(y) /\ initialLock = NoThread
      /\ n <= remaining /\ reservation[y] = 0 /\ n <= Limit[y]
      /\ \A s \in Threads : th[s].dst # y
      /\ Call(t, o) /\ initialLock' = t /\ remaining' = remaining - n
  BY <1>1, Zenon DEF Claim
<1>3. TypeOK /\ InitialAgrees /\ Bounds /\ Passed /\ SumsAgree /\ \A s \in Threads : Working(s)
  BY Zenon DEF IInv
<1>4. y \in Trackers /\ y # Initial /\ Initial \in Trackers /\ y \in TopClients
  BY <1>2, ClientFacts, InitialFacts, Zenon DEF TopClients
<1>5. n \in Nat
  BY NumberFacts
<1>6. /\ o \in Operation /\ o.dst = y /\ o.pc = "transfer" /\ o.src = Initial /\ o.bytes = n
  BY <1>1, <1>4, <1>5, TransferOp
<1>7. remaining' \in 0..Claims
  <2>1. remaining \in 0..Claims
    BY <1>3, Zenon DEF TypeOK
  <2> QED
    BY <1>2, <1>5, <2>1, NumberFacts, SMT
<1>8. /\ OnlyThread(t) /\ th'[t] = o /\ Held(t)' = {}
      /\ reservation' = reservation /\ Unused(Initial)' = Unused(Initial)
  BY <1>2, <1>3, <1>6, <1>7, CallCommon, Zenon
<1>9. Transferable(Initial, y)
  BY <1>4, Zenon DEF Transferable, Across
<1>10. Uses(t, Initial)'
  BY <1>2, Zenon DEF Uses
<1>11. reservation[Initial] = remaining
  <2>1. InitialOwed = 0
    BY <1>2, Zenon DEF InitialOwed
  <2>2. remaining \in 0..Claims
    BY <1>3, Zenon DEF TypeOK
  <2>3. reservation[Initial] = remaining + 0
    BY <1>3, <2>1, Zenon DEF InitialAgrees
  <2> QED
    BY <2>2, <2>3, NumberFacts, SMT
<1>12. n <= Unused(Initial)'
  <2>1. Unused(Initial) = reservation[Initial]
    BY <1>3, UnusedInitial, Zenon
  <2> QED
    BY <1>2, <1>8, <1>11, <2>1, Zenon
<1>13. \A s \in Threads \ {t} : th'[s].dst # y
  BY <1>2, <1>8, Zenon DEF OnlyThread
<1>14. th'[t] = Transfer(Initial, y, n) /\ reservation'[y] = 0
  BY <1>1, <1>2, <1>8, Zenon
<1>15. Working(t)'
  BY <1>2, <1>4, <1>5, <1>8, <1>9, <1>10, <1>12, <1>13, <1>14, TransferStarts, Zenon
<1>16. InitialAgrees'
  <2>1. t # NoThread
    BY ThreadFacts, Zenon
  <2>2. InitialOwed' = n
    BY <1>2, <1>6, <1>8, <2>1 DEF InitialOwed
  <2>3. remaining \in 0..Claims
    BY <1>3, Zenon DEF TypeOK
  <2>4. remaining = (remaining - n) + n
    BY <1>5, <2>3, NumberFacts, SMT
  <2>5. reservation'[Initial] = remaining' + n
    BY <1>2, <1>8, <1>11, <2>4, Zenon
  <2> QED
    BY <2>2, <2>5, Zenon DEF InitialAgrees
<1> QED
  BY <1>2, <1>6, <1>7, <1>15, <1>16, CallInductive, Zenon

LEMMA ReturnInductive ==
    ASSUME IInv, NEW t \in Threads, NEW x \in Clients, NEW n \in 1..MaxBytes, Return(t, x, n)
    PROVE  IInv'
<1>1. PICK o : o = Transfer(x, Initial, n)
  OBVIOUS
<1>2. /\ x \notin Subs /\ Owner[x] = t /\ initialLock = NoThread /\ n <= Unused(x)
      /\ Call(t, o) /\ initialLock' = t /\ remaining' = remaining
  BY <1>1, Zenon DEF Return
<1>3. TypeOK /\ InitialAgrees /\ remaining \in 0..Claims /\ \A s \in Threads : Working(s)
  BY Zenon DEF IInv, TypeOK
<1>4. x \in Trackers /\ x # Initial /\ Initial \in Trackers /\ x \in TopClients
  BY <1>2, ClientFacts, InitialFacts, Zenon DEF TopClients
<1>5. n \in Nat
  BY NumberFacts
<1>6. /\ o \in Operation /\ o.dst = Initial /\ o.pc = "transfer" /\ o.src = x
  BY <1>1, <1>4, <1>5, TransferOp
<1>7. /\ OnlyThread(t) /\ th'[t] = o /\ Held(t)' = {}
      /\ reservation' = reservation /\ Unused(x)' = Unused(x)
  BY <1>2, <1>3, <1>6, CallCommon, Zenon
<1>8. Transferable(x, Initial)
  BY <1>4, Zenon DEF Transferable, Across
<1>9. Uses(t, x)'
  BY <1>2, <1>4, Zenon DEF Uses
<1>10. th'[t] = Transfer(x, Initial, n) /\ n <= Unused(x)'
  BY <1>1, <1>2, <1>7, Zenon
<1>11. Working(t)'
  BY <1>2, <1>4, <1>5, <1>7, <1>8, <1>9, <1>10, TransferStarts, Zenon
<1>12. InitialAgrees'
  <2>1. t # NoThread
    BY ThreadFacts, Zenon
  <2>2. InitialOwed' = 0
    BY <1>2, <1>4, <1>6, <1>7, <2>1 DEF InitialOwed
  <2>3. InitialOwed = 0
    BY <1>2, Zenon DEF InitialOwed
  <2> QED
    BY <1>2, <1>3, <1>7, <2>2, <2>3, Zenon DEF InitialAgrees
\* The initial reservations are nobody's.
<1>13. ASSUME NEW s \in Threads, th[s].src = Initial
       PROVE  FALSE
  <2>1. MineOK(s) /\ IdleOK(s)
    BY <1>3, Zenon DEF Working
  <2>2. th[s].pc # "idle"
    BY <1>13, <2>1, IdleOp, InitialFacts, Zenon DEF IdleOK
  <2>3. initialLock = s
    BY <1>13, <2>1, <2>2, Zenon DEF MineOK, Uses
  <2> QED
    BY <1>2, <2>3, ThreadFacts, Zenon
<1> QED
  BY <1>2, <1>3, <1>6, <1>11, <1>12, <1>13, CallInductive, Zenon
-----------------------------------------------------------------------------
(***************************************************************************)
(* Buffers and memory that is not reserved.                                *)
(***************************************************************************)
LEMMA SumsUnchanged ==
    ASSUME SumsAgree, UNCHANGED <<reservation, children, lock, th>>
    PROVE  SumsAgree'
<1>1. reservation' = reservation /\ children' = children /\ lock' = lock /\ th' = th
  OBVIOUS
<1>2. ASSUME NEW c \in Trackers
      PROVE  Pending(c)' = Pending(c)
  <2>1. CASE c = Root \/ lock[c] = NoThread
    BY <1>1, <2>1, Zenon DEF Pending
  <2>2. CASE c # Root /\ lock[c] # NoThread
    <3>1. PICK o : o = th[lock[c]]
      OBVIOUS
    <3>2. Pending(c) = PendingOf(o, c) /\ Pending(c)' = PendingOf(o, c)
      BY <1>1, <2>2, <3>1, Zenon DEF Pending, PendingOf
    <3> QED
      BY <3>2, Zenon
  <2> QED
    BY <2>1, <2>2, Zenon
<1>3. Share' = Share
  BY <1>1, <1>2, Zenon DEF Share
<1> QED
  BY <1>1, <1>3, Zenon DEF SumsAgree

LEMMA UsedStep ==
    ASSUME IInv, NEW t \in Threads, NEW x \in TopClients, Owner[x] = t, th[t] = Idle,
           NEW m \in Nat, m + children[x] <= reservation[x], used' = [used EXCEPT ![x] = m],
           UNCHANGED <<reservation, children, mem, other, lock, initialLock, remaining, th>>
    PROVE  IInv'
<1>1. /\ TypeOK /\ Bounds /\ MemAgrees /\ Passed /\ SumsAgree /\ InitialAgrees
      /\ \A s \in Threads : Working(s)
  BY Zenon DEF IInv
<1>2. /\ reservation' = reservation /\ children' = children /\ mem' = mem /\ other' = other
      /\ lock' = lock /\ initialLock' = initialLock /\ remaining' = remaining /\ th' = th
  OBVIOUS
<1>3. x \in Clients /\ x \in Trackers /\ x # Initial /\ x \in Owned
  BY ClientFacts, Zenon DEF TopClients, Owned
<1>4. used'[x] = m /\ \A z \in Trackers : z # x => used'[z] = used[z]
  BY <1>1, <1>3 DEF TypeOK
<1>5. used' \in [Trackers -> Nat]
  BY <1>1, <1>3 DEF TypeOK
<1>6. TypeOK'
  BY <1>1, <1>2, <1>5, Zenon DEF TypeOK
<1>7. Bounds'
  <2>1. ASSUME NEW z \in Trackers
        PROVE  reservation[z] <= Limit[z] /\ used'[z] + children[z] <= reservation[z]
    BY <1>1, <1>4, Zenon DEF Bounds
  <2> QED
    BY <1>2, <2>1, Zenon DEF Bounds
<1>8. MemAgrees' /\ Passed'
  <2>1. \A p \in Trackers \ TopClients : used'[p] = 0
    BY <1>1, <1>4, Zenon DEF Passed
  <2> QED
    BY <1>1, <1>2, <2>1, Zenon DEF MemAgrees, Passed
<1>9. Quiet(t)
  <2>1. OnlyThread(t)
    BY <1>2, Zenon DEF OnlyThread
  <2>2. ASSUME NEW z \in Owned
        PROVE  Unused(z) <= Unused(z)' \/ Uses(t, z)
    <3>1. CASE z = x
      BY <1>3, <3>1, Zenon DEF Uses
    <3>2. CASE z # x
      <4>1. z \in Trackers
        BY ClientFacts, InitialFacts, Zenon DEF Owned
      <4>2. Unused(z)' = Unused(z) /\ Unused(z) \in Int
        BY <1>1, <1>2, <1>4, <3>2, <4>1, UnusedType, Zenon DEF Unused
      <4> QED
        BY <4>2, SMT
    <3> QED
      BY <3>1, <3>2, Zenon
  <2> QED
    BY <1>2, <2>1, <2>2, Zenon DEF Quiet
<1>10. Working(t)'
  <2>1. Held(t) = {} /\ initialLock # t
    BY <1>1, IdleOp, Zenon DEF Working, IdleOK
  <2>2. Held(t)' = {}
    BY <1>2, <2>1, Zenon DEF Held
  <2> QED
    BY <1>2, <2>1, <2>2, WorkingIdle, Zenon
<1>11. (\A s \in Threads : Working(s))'
  BY <1>1, <1>6, <1>9, <1>10, OthersGoOn, Zenon
<1>12. InitialAgrees'
  BY <1>1, <1>2, Zenon DEF InitialAgrees, InitialOwed
<1>13. SumsAgree'
  BY <1>1, <1>2, SumsUnchanged, Zenon
<1> QED
  BY <1>6, <1>7, <1>8, <1>11, <1>12, <1>13, Zenon DEF IInv

LEMMA AllocateInductive ==
    ASSUME IInv, NEW t \in Threads, NEW x \in Clients, NEW n \in 1..MaxBytes,
           AllocateFrom(t, x, n) \/ ReleaseTo(t, x, n)
    PROVE  IInv'
<1>1. x \in Trackers /\ x \in TopClients /\ Owner[x] = t /\ th[t] = Idle
  BY ClientFacts, Zenon DEF AllocateFrom, ReleaseTo, TopClients
<1>2. UNCHANGED <<reservation, children, mem, other, lock, initialLock, remaining, th>>
  BY Zenon DEF AllocateFrom, ReleaseTo
<1>3. n \in Nat
  BY NumberFacts
<1>4. TypeOK /\ used[x] + children[x] <= reservation[x]
  BY <1>1, Zenon DEF IInv, Bounds
<1>5. used \in [Trackers -> Nat] /\ used[x] \in Nat /\ children[x] \in Nat /\ reservation[x] \in Nat
  BY <1>1, <1>4 DEF TypeOK
<1>6. CASE AllocateFrom(t, x, n)
  <2>1. used' = [used EXCEPT ![x] = used[x] + n] /\ n <= reservation[x] - used[x] - children[x]
    BY <1>6, Zenon DEF AllocateFrom, Unused
  <2>2. PICK m : m = used[x] + n
    OBVIOUS
  <2>3. m \in Nat /\ m + children[x] <= reservation[x]
    BY <1>3, <1>5, <2>1, <2>2, SMT
  <2> QED
    BY <1>1, <1>2, <2>1, <2>2, <2>3, UsedStep, Zenon
<1>7. CASE ReleaseTo(t, x, n)
  <2>1. used' = [used EXCEPT ![x] = used[x] - n] /\ n <= used[x]
    BY <1>7, Zenon DEF ReleaseTo
  <2>2. PICK m : m = used[x] - n
    OBVIOUS
  <2>3. m \in Nat /\ m + children[x] <= reservation[x]
    BY <1>3, <1>4, <1>5, <2>1, <2>2, SMT
  <2> QED
    BY <1>1, <1>2, <2>1, <2>2, <2>3, UsedStep, Zenon
<1> QED
  BY <1>6, <1>7, Zenon

\* Nothing that the invariant looks at changes.
LEMMA SameState ==
    ASSUME IInv, TypeOK',
           UNCHANGED <<reservation, used, children, mem, lock, initialLock, remaining, th>>
    PROVE  IInv'
<1>1. /\ Bounds /\ MemAgrees /\ Passed /\ SumsAgree /\ InitialAgrees
      /\ \A s \in Threads : Working(s)
  BY Zenon DEF IInv
<1>2. /\ reservation' = reservation /\ used' = used /\ children' = children /\ mem' = mem
      /\ lock' = lock /\ initialLock' = initialLock /\ remaining' = remaining /\ th' = th
  OBVIOUS
<1>3. Bounds' /\ MemAgrees' /\ Passed'
  BY <1>1, <1>2, SameNumbers
<1>4. SumsAgree'
  BY <1>1, <1>2, SumsUnchanged, Zenon
<1>6. InitialAgrees'
  BY <1>1, <1>2, Zenon DEF InitialAgrees, InitialOwed
<1>5. ASSUME NEW s \in Threads
      PROVE  Working(s)'
  <2>1. Working(s)
    BY <1>1, Zenon
  <2>2. MineOK(s)' /\ IdleOK(s)' /\ ClaimOK(s)'
    BY <1>2, <2>1, Zenon DEF Working, MineOK, IdleOK, ClaimOK, Uses, Held
  <2>3. ClimbOK(s)' /\ GrantOK(s)'
    BY <1>2, <2>1, Zenon DEF Working, ClimbOK, GrantOK, Held, Unused
  <2>4. ReleaseOK(s)' /\ TransferOK(s)' /\ SettleOK(s)'
    BY <1>2, <2>1, Zenon DEF Working, ReleaseOK, TransferOK, SettleOK, Held, Unused
  <2> QED
    BY <2>2, <2>3, <2>4, WorkingByPc, Zenon
<1> QED
  BY <1>3, <1>4, <1>5, <1>6, Zenon DEF IInv

LEMMA OtherInductive ==
    ASSUME IInv, NEW x \in TopLinks, NEW n \in 0..MaxOther, OtherMemory(x, n)
    PROVE  IInv'
<1>1. /\ reservation' = reservation /\ used' = used /\ children' = children /\ mem' = mem
      /\ lock' = lock /\ initialLock' = initialLock /\ remaining' = remaining /\ th' = th
      /\ other' = [other EXCEPT ![x] = n]
  BY Zenon DEF OtherMemory
<1>2. TypeOK
  BY Zenon DEF IInv
<1>3. other' \in [TopLinks -> 0..MaxOther]
  BY <1>1, <1>2 DEF TypeOK
<1>4. TypeOK'
  BY <1>1, <1>2, <1>3, Zenon DEF TypeOK
<1> QED
  BY <1>1, <1>4, SameState, Zenon
-----------------------------------------------------------------------------
(***************************************************************************)
(* Steps that take or give back locks.                                     *)
(***************************************************************************)
LEMMA OnlyLocks ==
    ASSUME IInv, TypeOK', NEW t \in Threads, OnlyThread(t),
           UNCHANGED <<reservation, used, children, mem>>,
           \/ initialLock' = initialLock
           \/ initialLock \in {t, NoThread} /\ initialLock' \in {t, NoThread},
           th'[t].dst \in {th[t].dst, Root},
           \A c \in Trackers \ {Root} : Pending(c)' = Pending(c),
           Working(t)', InitialAgrees'
    PROVE  IInv'
<1>1. /\ TypeOK /\ Bounds /\ MemAgrees /\ Passed /\ SumsAgree
      /\ \A s \in Threads : Working(s)
  BY Zenon DEF IInv
<1>2. reservation' = reservation /\ used' = used /\ children' = children /\ mem' = mem
  OBVIOUS
<1>3. Bounds' /\ MemAgrees' /\ Passed'
  BY <1>1, <1>2, SameNumbers
<1>4. Quiet(t)
  <2>1. \A x \in Owned : Unused(x) <= Unused(x)'
    <3> TAKE x \in Owned
    <3>1. x \in Trackers
      BY ClientFacts, InitialFacts, Zenon DEF Owned
    <3>2. Unused(x) \in Int /\ Unused(x)' = Unused(x)
      BY <1>1, <1>2, <3>1, UnusedType, Zenon DEF Unused
    <3> QED
      BY <3>2, SMT
  <2> QED
    BY <1>2, <2>1, Zenon DEF Quiet
<1>5. (\A s \in Threads : Working(s))'
  BY <1>1, <1>4, OthersGoOn, Zenon
<1>6. SumsAgree'
  <2>1. \A c \in Trackers \ {Root} :
           reservation'[c] + Pending(c)' = reservation[c] + Pending(c)
    BY <1>2, Zenon
  <2> QED
    BY <1>1, <1>2, <1>5, <2>1, SumsSame, Zenon
<1> QED
  BY <1>3, <1>5, <1>6, Zenon DEF IInv

\* A thread takes the lock of x and goes on with the operation o.
LEMMA LockStep ==
    ASSUME TypeOK, NEW t \in Threads, NEW x \in Trackers, NEW o \in Operation,
           lock[x] = NoThread, lock' = [lock EXCEPT ![x] = t], th' = [th EXCEPT ![t] = o]
    PROVE  /\ OnlyThread(t) /\ th'[t] = o /\ Held(t)' = Held(t) \cup {x} /\ x \notin Held(t)
           /\ th' \in [Threads -> Operation] /\ lock' \in [Trackers -> Threads \cup {NoThread}]
           /\ Pending(x) = 0
           /\ \A c \in Trackers : c \notin Held(t) /\ c # x => Pending(c)' = Pending(c)
           /\ \A c \in Held(t) \cup {x} : c # Root => Pending(c)' = PendingOf(o, c)
<1>0. t # NoThread
  BY ThreadFacts, Zenon
<1>1. lock'[x] = t /\ \A c \in Trackers : c # x => lock'[c] = lock[c]
  BY DEF TypeOK
<1>2. th'[t] = o /\ \A s \in Threads \ {t} : th'[s] = th[s]
  BY DEF TypeOK
<1>3. th' \in [Threads -> Operation] /\ lock' \in [Trackers -> Threads \cup {NoThread}]
  BY DEF TypeOK
<1>4. OnlyThread(t)
  <2>1. ASSUME NEW c \in Trackers
        PROVE  \/ lock'[c] = lock[c]
               \/ lock[c] \in {t, NoThread} /\ lock'[c] \in {t, NoThread}
    BY <1>1, Zenon
  <2> QED
    BY <1>2, <2>1, Zenon DEF OnlyThread
<1>5. Held(t)' = Held(t) \cup {x} /\ x \notin Held(t)
  <2>1. x \notin Held(t)
    BY <1>0, Zenon DEF Held
  <2>2. ASSUME NEW c
        PROVE  c \in Held(t)' <=> c \in Held(t) \cup {x}
    BY <1>1, Zenon DEF Held
  <2> QED
    BY <2>1, <2>2, Zenon
<1>6. Pending(x) = 0
  BY Zenon DEF Pending
<1>7. ASSUME NEW c \in Trackers, c \notin Held(t), c # x
      PROVE  Pending(c)' = Pending(c)
  <2>1. lock[c] # t /\ lock'[c] # t
    BY <1>1, <1>7, Zenon DEF Held
  <2> QED
    BY <1>4, <2>1, PendingOther, Zenon
<1>8. ASSUME NEW c \in Held(t) \cup {x}, c # Root
      PROVE  Pending(c)' = PendingOf(o, c)
  <2>1. lock'[c] = t
    BY <1>1, Zenon DEF Held
  <2> QED
    BY <1>0, <1>2, <1>8, <2>1, Zenon DEF Pending, PendingOf
<1> QED
  BY <1>2, <1>3, <1>4, <1>5, <1>6, <1>7, <1>8, Zenon

\* An operation returns.
LEMMA DoneStep ==
    ASSUME TypeOK, NEW t \in Threads, Done(t)
    PROVE  /\ OnlyThread(t) /\ th'[t] = Idle /\ Held(t)' = {} /\ initialLock' # t
           /\ th' \in [Threads -> Operation] /\ lock' \in [Trackers -> Threads \cup {NoThread}]
           /\ initialLock' \in Threads \cup {NoThread}
           /\ initialLock = t => initialLock' = NoThread
           /\ initialLock # t => initialLock' = initialLock
           /\ Working(t)' /\ th'[t].dst = Root
           /\ \A c \in Trackers : c \notin Held(t) => Pending(c)' = Pending(c)
           /\ \A c \in Held(t) : Pending(c)' = 0
<1>0. t # NoThread
  BY ThreadFacts, Zenon
<1>1. \A c \in Trackers : lock'[c] = IF lock[c] = t THEN NoThread ELSE lock[c]
  BY Zenon DEF Done, Unlocked
<1>2. th'[t] = Idle /\ \A s \in Threads \ {t} : th'[s] = th[s]
  BY DEF TypeOK, Done
<1>3. /\ th' \in [Threads -> Operation] /\ lock' \in [Trackers -> Threads \cup {NoThread}]
      /\ initialLock' \in Threads \cup {NoThread}
  BY IdleOp DEF TypeOK, Done, Unlocked
<1>4. /\ initialLock = t => initialLock' = NoThread
      /\ initialLock # t => initialLock' = initialLock
  BY Zenon DEF Done
<1>5. OnlyThread(t)
  <2>1. ASSUME NEW c \in Trackers
        PROVE  \/ lock'[c] = lock[c]
               \/ lock[c] \in {t, NoThread} /\ lock'[c] \in {t, NoThread}
    BY <1>1, Zenon
  <2> QED
    BY <1>2, <2>1, Zenon DEF OnlyThread
<1>6. Held(t)' = {} /\ initialLock' # t
  <2>1. \A c \in Trackers : lock'[c] # t
    BY <1>0, <1>1, Zenon
  <2> QED
    BY <1>0, <1>4, <2>1, Zenon DEF Held
<1>7. Working(t)' /\ th'[t].dst = Root
  BY <1>2, <1>6, WorkingIdle, IdleOp, Zenon
<1>8. ASSUME NEW c \in Trackers, c \notin Held(t)
      PROVE  Pending(c)' = Pending(c)
  <2>1. lock[c] # t /\ lock'[c] # t
    BY <1>1, <1>8, Zenon DEF Held
  <2> QED
    BY <1>5, <2>1, PendingOther, Zenon
<1>9. ASSUME NEW c \in Held(t)
      PROVE  Pending(c)' = 0
  <2>1. lock'[c] = NoThread
    BY <1>1, Zenon DEF Held
  <2> QED
    BY <2>1, Zenon DEF Pending
<1> QED
  BY <1>2, <1>3, <1>4, <1>5, <1>6, <1>7, <1>8, <1>9, Zenon

\* What a thread has pending at the trackers it has locked.
LEMMA PendingMine ==
    ASSUME NEW t \in Threads, NEW c \in Held(t), c # Root
    PROVE  Pending(c) = PendingOf(th[t], c)
<1>1. t # NoThread /\ lock[c] = t
  BY ThreadFacts, Zenon DEF Held
<1> QED
  BY <1>1, Zenon DEF Pending

\* An operation returns with nothing changed and nothing pending.
LEMMA DoneInductive ==
    ASSUME IInv, NEW t \in Threads, Done(t),
           UNCHANGED <<reservation, used, children, mem, other, remaining>>,
           \A c \in Held(t) : c # Root => PendingOf(th[t], c) = 0,
           initialLock = t => InitialOwed = 0
    PROVE  IInv'
<1>1. TypeOK /\ InitialAgrees
  BY Zenon DEF IInv
<1>2. /\ OnlyThread(t) /\ th'[t] = Idle /\ Held(t)' = {} /\ initialLock' # t
      /\ th' \in [Threads -> Operation] /\ lock' \in [Trackers -> Threads \cup {NoThread}]
      /\ initialLock' \in Threads \cup {NoThread}
      /\ initialLock = t => initialLock' = NoThread
      /\ initialLock # t => initialLock' = initialLock
      /\ Working(t)' /\ th'[t].dst = Root
      /\ \A c \in Trackers : c \notin Held(t) => Pending(c)' = Pending(c)
      /\ \A c \in Held(t) : Pending(c)' = 0
  BY <1>1, DoneStep, Zenon
<1>3. /\ reservation' = reservation /\ used' = used /\ children' = children /\ mem' = mem
      /\ other' = other /\ remaining' = remaining
  OBVIOUS
<1>4. TypeOK'
  BY <1>1, <1>2, <1>3, Zenon DEF TypeOK
<1>5. ASSUME NEW c \in Trackers \ {Root}
      PROVE  Pending(c)' = Pending(c)
  BY <1>2, PendingMine, Zenon
<1>6. InitialAgrees'
  <2>1. CASE initialLock = t
    <3>1. InitialOwed = 0
      BY <2>1, Zenon
    <3>2. InitialOwed' = 0
      BY <1>2, <2>1, Zenon DEF InitialOwed
    <3> QED
      BY <1>1, <1>3, <3>1, <3>2, Zenon DEF InitialAgrees
  <2>2. CASE initialLock # t
    BY <1>1, <1>2, <1>3, <2>2, InitialFrame, Zenon
  <2> QED
    BY <2>1, <2>2, Zenon
<1>7. \/ initialLock' = initialLock
      \/ initialLock \in {t, NoThread} /\ initialLock' \in {t, NoThread}
  BY <1>2, Zenon
<1>8. th'[t].dst \in {th[t].dst, Root}
  BY <1>2, Zenon
<1> QED
  BY <1>2, <1>3, <1>4, <1>5, <1>6, <1>7, <1>8, OnlyLocks, Zenon
-----------------------------------------------------------------------------
(***************************************************************************)
(* An increase: up the tree.                                               *)
(***************************************************************************)
LEMMA MaxIs ==
    ASSUME NEW n \in Int
    PROVE  /\ Max({0, n}) \in Nat /\ n <= Max({0, n})
           /\ n > 0 => Max({0, n}) = n
<1>1. \E m \in {0, n} : \A k \in {0, n} : m >= k
  <2>1. CASE n > 0
    BY <2>1
  <2>2. CASE ~(n > 0)
    BY <2>2
  <2> QED
    BY <2>1, <2>2
<1>2. /\ Max({0, n}) \in {0, n} /\ \A k \in {0, n} : Max({0, n}) >= k
  BY <1>1, Zenon DEF Max
<1> QED
  BY <1>2

LEMMA UnusedFacts ==
    ASSUME TypeOK, Bounds, Passed, NEW x \in Trackers
    PROVE  /\ Unused(x) \in Nat
           /\ x \notin Owned => Unused(x) = 0
<1>1. reservation[x] \in Nat /\ used[x] \in Nat /\ children[x] \in Nat
  BY DEF TypeOK
<1>2. used[x] + children[x] <= reservation[x]
  BY Zenon DEF Bounds
<1>3. Unused(x) = reservation[x] - used[x] - children[x]
  BY Zenon DEF Unused
<1>4. ASSUME x \notin Owned
      PROVE  Unused(x) = 0
  <2>1. reservation[x] = children[x] /\ used[x] = 0
    BY <1>4, Zenon DEF Passed, Owned, TopClients
  <2> QED
    BY <1>1, <1>3, <2>1, SMT
<1>5. Unused(x) \in Nat
  BY <1>1, <1>2, <1>3, SMT
<1> QED
  BY <1>4, <1>5, Zenon

\* The trackers above a thread's own: they have nothing unused, so all of what is asked for
\* is asked for again.
LEMMA IncreaseIs ==
    ASSUME TypeOK, Bounds, Passed, NEW t \in Threads, ClimbOK(t), th[t].pc = "climb",
           NEW x, x = th[t].at, NEW n, n = Increase(t, x)
    PROVE  /\ n \in Nat
           /\ x # th[t].src => n = th[t].ask /\ n > 0
           /\ x = th[t].src /\ th[t].alloc => th[t].bytes <= Unused(x) + n
<1>1. PICK o \in Operation : o = th[t]
  BY DEF TypeOK
<1>2. /\ o.src \in TopClients /\ x \in OnPath(o.src) /\ o.ask > 0 /\ (o.alloc => o.toFit)
      /\ (x = o.src => o.ask = o.bytes)
  BY <1>1, Zenon DEF ClimbOK
<1>3. x \in Trackers /\ (x # o.src => x \notin Owned)
  BY <1>2, TopFacts, Zenon
<1>4. PICK u \in Nat : u = Unused(x)
  BY <1>3, UnusedFacts, Zenon
<1>5. o.ask \in Nat /\ o.bytes \in Nat
  BY OpFields
<1>6. n = IF x = o.src /\ ~o.toFit THEN o.ask ELSE Max({0, o.ask - u})
  BY <1>1, <1>4, Zenon DEF Increase
<1>7. CASE x = o.src /\ ~o.toFit
  <2>1. n = o.ask /\ ~o.alloc
    BY <1>2, <1>6, <1>7, Zenon
  <2> QED
    BY <1>1, <1>5, <1>7, <2>1, Zenon
<1>8. CASE x = o.src /\ o.toFit
  <2>1. n = Max({0, o.ask - u})
    BY <1>6, <1>8, Zenon
  <2>2. o.ask - u \in Int
    BY <1>5, SMT
  <2>3. n \in Nat /\ o.ask - u <= n
    BY <2>1, <2>2, MaxIs, Zenon
  <2>4. o.bytes <= u + n
    BY <1>2, <1>5, <1>8, <2>3, SMT
  <2> QED
    BY <1>1, <1>4, <1>8, <2>3, <2>4, Zenon
<1>9. CASE x # o.src
  <2>1. n = Max({0, o.ask - u})
    BY <1>6, <1>9, Zenon
  <2>2. u = 0
    BY <1>3, <1>4, <1>9, UnusedFacts, Zenon
  <2>3. o.ask - u \in Int /\ o.ask - u > 0 /\ o.ask - u = o.ask
    BY <1>2, <1>5, <2>2, SMT
  <2>4. n = o.ask
    BY <2>1, <2>3, MaxIs, Zenon
  <2> QED
    BY <1>1, <1>2, <1>5, <1>9, <2>4, Zenon
<1> QED
  BY <1>7, <1>8, <1>9, Zenon

LEMMA PathAntisymmetric ==
    ASSUME NEW x \in Trackers, NEW z \in OnPath(x), x \in OnPath(z)
    PROVE  z = x
<1>1. z \in Trackers /\ Depth(z) <= Depth(x) /\ (Depth(z) = Depth(x) => z = x)
  BY TreeUp, Zenon
<1>2. Depth(x) <= Depth(z)
  BY <1>1, TreeUp, Zenon
<1>3. Depth(x) \in Nat /\ Depth(z) \in Nat
  BY <1>1, TreeSelf, Zenon
<1>4. Depth(z) = Depth(x)
  BY <1>1, <1>2, <1>3, SMT
<1> QED
  BY <1>1, <1>4, Zenon

\* What a thread needs of the trackers it has locked, and of the next.
LEMMA ClimbBooks ==
    ASSUME TypeOK, Bounds, Passed, NEW t \in Threads, ClimbOK(t), th[t].pc = "climb",
           NEW x, x = th[t].at, NEW n, n = Increase(t, x), ~LimitExceeded(t, x, n),
           NEW f, f = Needing(th[t], x, n)
    PROVE  /\ \A z \in Held(t) \cup {x} : f[z] = n /\ reservation[z] + n <= Limit[z]
           /\ th[t].src \in Held(t) \cup {x}
           /\ x = th[t].src => Held(t) = {}
           /\ th[t].alloc => th[t].bytes <= Unused(th[t].src) + n
<1>1. PICK o \in Operation : o = th[t]
  BY DEF TypeOK
<1>2. /\ o.src \in TopClients /\ x \in OnPath(o.src) /\ Held(t) = OnPath(o.src) \ OnPath(x)
      /\ \A z \in Held(t) : o.need[z] = o.ask /\ reservation[z] + o.ask <= Limit[z]
      /\ (x # o.src /\ o.alloc => o.bytes <= Unused(o.src) + o.ask)
  BY <1>1, Zenon DEF ClimbOK
<1>3. /\ n \in Nat /\ (x # o.src => n = o.ask)
      /\ (x = o.src /\ o.alloc => o.bytes <= Unused(x) + n)
  BY <1>1, IncreaseIs, Zenon
<1>4. x \in Trackers /\ o.src \in Trackers /\ o.need \in [Trackers -> Nat]
  BY <1>2, OpFields, TopFacts
<1>5. f[x] = n /\ \A z \in Trackers : z # x => f[z] = o.need[z]
  BY <1>1, <1>3, <1>4 DEF Needing
<1>6. reservation[x] + n <= Limit[x]
  <2>1. reservation[x] \in Nat /\ Limit[x] \in Nat /\ reservation[x] <= Limit[x]
    BY <1>4, NumberFacts DEF TypeOK, Bounds
  <2>2. n > 0 => ~(reservation[x] + n > Limit[x])
    BY Zenon DEF LimitExceeded
  <2> QED
    BY <1>3, <2>1, <2>2, SMT
<1>7. x = o.src => Held(t) = {}
  BY <1>2, Zenon
<1>8. ASSUME NEW z \in Held(t) \cup {x}
      PROVE  f[z] = n /\ reservation[z] + n <= Limit[z]
  <2>1. CASE z = x
    BY <1>5, <1>6, <2>1, Zenon
  <2>2. CASE z # x
    <3>1. z \in Held(t) /\ z \in Trackers
      BY <2>2, Zenon DEF Held
    <3>2. n = o.ask
      BY <1>3, <1>7, <3>1, Zenon
    <3> QED
      BY <1>2, <1>5, <2>2, <3>1, <3>2, Zenon
  <2> QED
    BY <2>1, <2>2, Zenon
<1>9. o.src \in Held(t) \cup {x}
  <2>1. CASE o.src \in OnPath(x)
    BY <1>2, <1>4, <2>1, PathAntisymmetric, Zenon
  <2>2. CASE o.src \notin OnPath(x)
    BY <1>2, <1>4, <2>2, TreeSelf, Zenon
  <2> QED
    BY <2>1, <2>2, Zenon
<1>10. o.alloc => o.bytes <= Unused(o.src) + n
  BY <1>2, <1>3, Zenon
<1> QED
  BY <1>1, <1>7, <1>8, <1>9, <1>10, Zenon

LEMMA ClimbInductive ==
    ASSUME IInv, NEW t \in Threads, Climb(t)
    PROVE  IInv'
<1>1. PICK o \in Operation : o = th[t]
  BY Zenon DEF IInv, TypeOK
<1>2. PICK x : x = o.at
  OBVIOUS
<1>3. PICK n : n = Increase(t, x)
  OBVIOUS
<1>4. /\ TypeOK /\ Bounds /\ MemAgrees /\ Passed /\ InitialAgrees /\ Working(t)
      /\ ClimbOK(t) /\ MineOK(t)
  BY Zenon DEF IInv, Working
<1>5. /\ o.pc = "climb" /\ lock[x] = NoThread /\ reservation' = reservation /\ used' = used
      /\ children' = children /\ mem' = mem /\ other' = other /\ remaining' = remaining
  BY <1>1, <1>2, Zenon DEF Climb
<1>6. /\ o.src \in TopClients /\ x \in OnPath(o.src) /\ Held(t) = OnPath(o.src) \ OnPath(x)
      /\ initialLock # t /\ (o.alloc => o.toFit)
  BY <1>1, <1>2, <1>5, <1>4, Zenon DEF ClimbOK
<1>7. x \in Trackers /\ o.src \in Trackers /\ o.src # Root
  BY <1>6, TopFacts, Zenon
<1>8. ASSUME NEW c
      PROVE  PendingOf(o, c) = 0
  BY <1>5 DEF PendingOf
<1>9. CASE LimitExceeded(t, x, n)
  <2>1. Done(t)
    BY <1>1, <1>2, <1>3, <1>9, Zenon DEF Climb
  <2> QED
    BY <1>1, <1>5, <1>6, <1>8, <2>1, DoneInductive, Zenon
<1>10. CASE ~LimitExceeded(t, x, n)
  <2>1. PICK q : q = IF n = 0 \/ x = Root
                     THEN StartGrant(o, x, n)
                     ELSE AskParent(o, x, Parent(x), n)
    OBVIOUS
  <2>2. /\ lock' = [lock EXCEPT ![x] = t] /\ initialLock' = initialLock
        /\ th' = [th EXCEPT ![t] = q]
    BY <1>1, <1>2, <1>3, <1>10, <2>1, Zenon DEF Climb, StartGrant, AskParent
  <2>3. PICK f : f = Needing(o, x, n)
    OBVIOUS
  <2>4. /\ \A z \in Held(t) \cup {x} : f[z] = n /\ reservation[z] + n <= Limit[z]
        /\ o.src \in Held(t) \cup {x}
        /\ o.alloc => o.bytes <= Unused(o.src) + n
    <3>1. th[t].pc = "climb" /\ x = th[t].at /\ f = Needing(th[t], x, n)
      BY <1>1, <1>2, <1>5, <2>3, Zenon
    <3>2. /\ \A z \in Held(t) \cup {x} : f[z] = n /\ reservation[z] + n <= Limit[z]
          /\ th[t].src \in Held(t) \cup {x}
          /\ th[t].alloc => th[t].bytes <= Unused(th[t].src) + n
      BY <1>3, <1>4, <1>10, <3>1, ClimbBooks
    <3> QED
      BY <1>1, <3>2, Zenon
  <2>5. n \in Nat /\ (x # o.src => n > 0)
    BY <1>1, <1>2, <1>3, <1>4, <1>5, IncreaseIs, Zenon
  <2>6. PICK p : p = Parent(x)
    OBVIOUS
  <2>7. x # Root => p \in Trackers
    BY <1>7, <2>6, TreeParent, Zenon
  <2>8. /\ q \in Operation /\ q.src = o.src /\ q.dst = o.dst /\ q.bytes = o.bytes
        /\ q.need = f /\ q.alloc = o.alloc
        /\ n = 0 \/ x = Root => q.pc = "grant" /\ q.at = x
        /\ ~(n = 0 \/ x = Root) => /\ q.pc = "climb" /\ q.at = p /\ q.ask = n
                                   /\ q.toFit = o.toFit
    <3>1. CASE n = 0 \/ x = Root
      <4>1. q = StartGrant(o, x, n)
        BY <2>1, <3>1, Zenon
      <4> QED
        BY <1>2, <1>7, <2>3, <2>5, <3>1, <4>1, StartGrantOp
    <3>2. CASE ~(n = 0 \/ x = Root)
      <4>1. q = AskParent(o, x, p, n)
        BY <2>1, <2>6, <3>2, Zenon
      <4> QED
        BY <1>5, <1>7, <2>3, <2>5, <2>7, <3>2, <4>1, AskParentOp
    <3> QED
      BY <3>1, <3>2, Zenon
  <2>9. /\ OnlyThread(t) /\ th'[t] = q /\ Held(t)' = Held(t) \cup {x}
        /\ th' \in [Threads -> Operation] /\ lock' \in [Trackers -> Threads \cup {NoThread}]
        /\ Pending(x) = 0
        /\ \A c \in Trackers : c \notin Held(t) /\ c # x => Pending(c)' = Pending(c)
        /\ \A c \in Held(t) \cup {x} : c # Root => Pending(c)' = PendingOf(q, c)
    BY <1>4, <1>5, <1>7, <2>2, <2>8, LockStep, Zenon
  <2>10. TypeOK'
    BY <1>4, <1>5, <2>2, <2>9, Zenon DEF TypeOK
  <2>11. ASSUME NEW c \in Trackers \ {Root}
         PROVE  Pending(c)' = Pending(c)
    <3>1. CASE c \in Held(t) \cup {x}
      <4>1. Pending(c) = 0
        BY <1>1, <1>8, <2>9, <3>1, PendingMine, Zenon
      <4>2. CASE n = 0 \/ x = Root
        <5>1. q.pc = "grant" /\ q.at = x /\ q.need = f
          BY <2>8, <4>2, Zenon
        <5>2. c = x => f[c] = 0
          BY <2>4, <3>1, <4>2, Zenon
        <5>3. PendingOf(q, c) = 0
          BY <5>1, <5>2 DEF PendingOf
        <5> QED
          BY <2>9, <3>1, <4>1, <5>3, Zenon
      <4>3. CASE ~(n = 0 \/ x = Root)
        <5>1. q.pc = "climb"
          BY <2>8, <4>3, Zenon
        <5>2. PendingOf(q, c) = 0
          BY <5>1 DEF PendingOf
        <5> QED
          BY <2>9, <3>1, <4>1, <5>2, Zenon
      <4> QED
        BY <4>2, <4>3, Zenon
    <3>2. CASE c \notin Held(t) \cup {x}
      BY <2>9, <3>2, Zenon
    <3> QED
      BY <3>1, <3>2, Zenon
  <2>12. MineOK(t)'
    <3>1. Uses(t, o.src)
      BY <1>1, <1>4, <1>5, Zenon DEF MineOK
    <3>2. Uses(t, q.src)'
      BY <2>2, <2>8, <3>1, Zenon DEF Uses
    <3> QED
      BY <2>9, <3>2, Zenon DEF MineOK
  <2>13. PICK u : u = Unused(o.src)
    OBVIOUS
  <2>14. Unused(o.src)' = u /\ (o.alloc => o.bytes <= u + n)
    BY <1>5, <2>4, <2>13, Zenon DEF Unused
  <2>15. Working(t)'
    <3>1. CASE n = 0 \/ x = Root
      <4>1. q.pc = "grant" /\ q.at = x
        BY <2>8, <3>1, Zenon
      <4>2. n = 0 => x = o.src
        BY <2>5, SMT
      <4>3. f[o.src] = n /\ f[x] = n
        BY <2>4, Zenon
      <4>4. \A z \in Held(t) \cup {x} : f[z] = f[o.src] /\ reservation'[z] + f[z] <= Limit[z]
        BY <1>5, <2>4, <4>3, Zenon
      <4>5. GrantOK(t)'
        BY <1>6, <2>2, <2>8, <2>9, <2>14, <4>1, <4>2, <4>3, <4>4, Zenon DEF GrantOK
      <4> QED
        BY <2>9, <2>12, <4>1, <4>5, WorkingGrant, Zenon
    <3>2. CASE ~(n = 0 \/ x = Root)
      <4>1. q.pc = "climb" /\ q.at = p /\ q.ask = n /\ q.toFit = o.toFit
        BY <2>8, <3>2, Zenon
      <4>2. n > 0 /\ x # Root
        BY <2>5, <3>2, SMT
      <4>3. /\ OnPath(x) = {x} \cup OnPath(p) /\ x \notin OnPath(p) /\ p \in OnPath(x) /\ p # x
            /\ p \in Trackers
        BY <1>7, <2>6, <4>2, TreeParent, Zenon
      <4>4. p \in OnPath(o.src)
        BY <1>6, <1>7, <4>3, TreeUp, Zenon
      <4>5. p # o.src
        <5> SUFFICES ASSUME p = o.src
                     PROVE  FALSE
          OBVIOUS
        <5>1. x = o.src
          BY <1>6, <1>7, <4>3, PathAntisymmetric, Zenon
        <5> QED
          BY <4>3, <5>1, Zenon
      <4>6. Held(t)' = OnPath(o.src) \ OnPath(p)
        BY <1>6, <2>9, <4>3, Zenon
      <4>7. \A z \in Held(t)' : f[z] = n /\ reservation'[z] + n <= Limit[z]
        BY <1>5, <2>4, <2>9, Zenon
      <4>8. ClimbOK(t)'
        BY <1>6, <2>2, <2>8, <2>9, <2>14, <4>1, <4>2, <4>4, <4>5, <4>6, <4>7, Zenon DEF ClimbOK
      <4> QED
        BY <2>9, <2>12, <4>1, <4>8, WorkingClimb, Zenon
    <3> QED
      BY <3>1, <3>2, Zenon
  <2>16. InitialAgrees'
    BY <1>4, <1>5, <1>6, <2>2, <2>9, InitialFrame, Zenon
  <2>17. th'[t].dst \in {th[t].dst, Root}
    BY <1>1, <2>8, <2>9, Zenon
  <2> QED
    BY <1>5, <2>2, <2>9, <2>10, <2>11, <2>15, <2>16, <2>17, OnlyLocks, Zenon
<1> QED
  BY <1>9, <1>10, Zenon
-----------------------------------------------------------------------------
(***************************************************************************)
(* Steps that change reservations.                                         *)
(***************************************************************************)
LEMMA FinishStep ==
    ASSUME IInv, TypeOK', Bounds', MemAgrees', Passed', InitialAgrees', NEW t \in Threads,
           Quiet(t), Working(t)',
           \A p \in Trackers : SumStep(Children(p), children[p], children'[p], Share, Share')
    PROVE  IInv'
<1>1. TypeOK /\ SumsAgree /\ \A s \in Threads : Working(s)
  BY Zenon DEF IInv
<1>2. (\A s \in Threads : Working(s))'
  BY <1>1, OthersGoOn, Zenon
<1>3. SumsAgree'
  BY <1>1, <1>2, SumsStep, Zenon
<1> QED
  BY <1>2, <1>3, Zenon DEF IInv

\* A reservation and what the MemTracker shows change together.
LEMMA ChargeStep ==
    ASSUME TypeOK, MemAgrees, NEW x \in Trackers, NEW d \in Int, NEW m \in Nat,
           m = reservation[x] + d, reservation' = [reservation EXCEPT ![x] = m],
           mem' = Charge(x, d)
    PROVE  /\ reservation' \in [Trackers -> Nat] /\ mem' \in [Linked -> Nat] /\ MemAgrees'
           /\ reservation'[x] = m
           /\ \A z \in Trackers : z # x => reservation'[z] = reservation[z]
<1>1. reservation \in [Trackers -> Nat] /\ mem \in [Linked -> Nat]
  BY Zenon DEF TypeOK
<1>2. /\ reservation' \in [Trackers -> Nat] /\ reservation'[x] = m
      /\ \A z \in Trackers : z # x => reservation'[z] = reservation[z]
  BY <1>1
<1>3. CASE x \in Linked
  <2>1. mem' = [mem EXCEPT ![x] = mem[x] + d] /\ mem[x] = reservation[x]
    BY <1>3, Zenon DEF Charge, MemAgrees
  <2>2. mem' = [mem EXCEPT ![x] = m]
    BY <2>1, Zenon
  <2>3. mem' \in [Linked -> Nat] /\ mem'[x] = m /\ \A z \in Linked : z # x => mem'[z] = mem[z]
    BY <1>1, <1>3, <2>2
  <2>4. MemAgrees'
    BY <1>2, <2>3, LinkedFacts, Zenon DEF MemAgrees
  <2> QED
    BY <1>2, <2>3, <2>4, Zenon
<1>4. CASE x \notin Linked
  <2>1. mem' = mem
    BY <1>4, Zenon DEF Charge
  <2>2. MemAgrees'
    BY <1>2, <1>4, <2>1, LinkedFacts, Zenon DEF MemAgrees
  <2> QED
    BY <1>1, <1>2, <2>1, <2>2, Zenon
<1> QED
  BY <1>3, <1>4, Zenon

\* A thread gives back the lock of x and goes on with the operation o.
LEMMA UnlockStep ==
    ASSUME TypeOK, NEW t \in Threads, NEW x \in Held(t), NEW o \in Operation,
           lock' = [lock EXCEPT ![x] = NoThread], th' = [th EXCEPT ![t] = o]
    PROVE  /\ OnlyThread(t) /\ th'[t] = o /\ Held(t)' = Held(t) \ {x}
           /\ th' \in [Threads -> Operation] /\ lock' \in [Trackers -> Threads \cup {NoThread}]
           /\ Pending(x)' = 0
           /\ \A c \in Trackers : c \notin Held(t) => Pending(c)' = Pending(c)
           /\ \A c \in Held(t) \ {x} : c # Root => Pending(c)' = PendingOf(o, c)
<1>0. t # NoThread /\ x \in Trackers /\ lock[x] = t
  BY ThreadFacts, Zenon DEF Held
<1>1. lock'[x] = NoThread /\ \A c \in Trackers : c # x => lock'[c] = lock[c]
  BY <1>0 DEF TypeOK
<1>2. th'[t] = o /\ \A s \in Threads \ {t} : th'[s] = th[s]
  BY DEF TypeOK
<1>3. th' \in [Threads -> Operation] /\ lock' \in [Trackers -> Threads \cup {NoThread}]
  BY <1>0 DEF TypeOK
<1>4. OnlyThread(t)
  <2>1. ASSUME NEW c \in Trackers
        PROVE  \/ lock'[c] = lock[c]
               \/ lock[c] \in {t, NoThread} /\ lock'[c] \in {t, NoThread}
    BY <1>0, <1>1, Zenon
  <2> QED
    BY <1>2, <2>1, Zenon DEF OnlyThread
<1>5. Held(t)' = Held(t) \ {x}
  <2>1. ASSUME NEW c
        PROVE  c \in Held(t)' <=> c \in Held(t) \ {x}
    BY <1>0, <1>1, Zenon DEF Held
  <2> QED
    BY <2>1, Zenon
<1>6. Pending(x)' = 0
  BY <1>1, Zenon DEF Pending
<1>7. ASSUME NEW c \in Trackers, c \notin Held(t)
      PROVE  Pending(c)' = Pending(c)
  <2>1. lock[c] # t /\ c # x
    BY <1>0, <1>7, Zenon DEF Held
  <2>2. lock'[c] # t
    BY <1>1, <2>1, Zenon
  <2> QED
    BY <1>4, <2>1, <2>2, PendingOther, Zenon
<1>8. ASSUME NEW c \in Held(t) \ {x}, c # Root
      PROVE  Pending(c)' = PendingOf(o, c)
  <2>1. lock'[c] = t
    BY <1>1, Zenon DEF Held
  <2> QED
    BY <1>0, <1>2, <1>8, <2>1, Zenon DEF Pending, PendingOf
<1> QED
  BY <1>2, <1>3, <1>4, <1>5, <1>6, <1>7, <1>8, Zenon

LEMMA ShareIs ==
    ASSUME NEW c \in Trackers
    PROVE  /\ Share[c] = reservation[c] + Pending(c)
           /\ Share'[c] = reservation'[c] + Pending(c)'
BY Zenon DEF Share
-----------------------------------------------------------------------------
(***************************************************************************)
(* An increase: down the tree, or back.                                    *)
(***************************************************************************)
LEMMA GrantLast ==
    ASSUME IInv, NEW t \in Threads, Grant(t), th[t].at = th[t].src
    PROVE  IInv'
<1>1. PICK o \in Operation : o = th[t]
  BY Zenon DEF IInv, TypeOK
<1>2. PICK x : x = o.at
  OBVIOUS
<1>3. PICK n : n = o.need[x]
  OBVIOUS
<1>4. /\ TypeOK /\ Bounds /\ MemAgrees /\ Passed /\ InitialAgrees /\ Working(t)
      /\ GrantOK(t) /\ MineOK(t)
  BY Zenon DEF IInv, Working
<1>5. /\ o.pc = "grant" /\ x = o.src /\ reservation' = [reservation EXCEPT ![x] = reservation[x] + n]
      /\ mem' = Charge(x, n) /\ children' = children
      /\ used' = IF o.alloc THEN [used EXCEPT ![x] = used[x] + o.bytes] ELSE used
      /\ lock' = [lock EXCEPT ![x] = NoThread] /\ th' = [th EXCEPT ![t] = Idle]
      /\ other' = other /\ initialLock' = initialLock /\ remaining' = remaining
  BY <1>1, <1>2, <1>3, Zenon DEF Grant
<1>6. /\ x \in TopClients /\ Held(t) = {x} /\ reservation[x] + n <= Limit[x]
      /\ (o.alloc => o.bytes <= Unused(x) + n) /\ initialLock # t
  <2>1. /\ x \in TopClients /\ Held(t) = (OnPath(x) \ OnPath(x)) \cup {x}
        /\ \A z \in Held(t) : reservation[z] + o.need[z] <= Limit[z]
        /\ (o.alloc => o.bytes <= Unused(x) + o.need[x]) /\ initialLock # t
    BY <1>1, <1>2, <1>4, <1>5, Zenon DEF GrantOK
  <2>2. Held(t) = {x}
    BY <2>1, Zenon
  <2> QED
    BY <1>3, <2>1, <2>2, Zenon
<1>7. x \in Trackers /\ x # Root /\ x \in Owned /\ x \in Clients /\ x # Initial
  BY <1>6, TopFacts, ClientFacts, Zenon DEF TopClients
<1>8. /\ n \in Nat /\ o.bytes \in Nat /\ reservation[x] \in Nat /\ used[x] \in Nat
      /\ children[x] \in Nat /\ used \in [Trackers -> Nat]
  BY <1>3, <1>4, <1>7, OpFields DEF TypeOK
<1>9. PICK m \in Nat : m = reservation[x] + n
  BY <1>8
<1>10. /\ reservation' \in [Trackers -> Nat] /\ mem' \in [Linked -> Nat] /\ MemAgrees'
       /\ reservation'[x] = m /\ \A z \in Trackers : z # x => reservation'[z] = reservation[z]
  <2>1. n \in Int /\ reservation' = [reservation EXCEPT ![x] = m]
    BY <1>5, <1>8, <1>9
  <2> QED
    BY <1>4, <1>5, <1>7, <1>9, <2>1, ChargeStep, Zenon
<1>11. /\ OnlyThread(t) /\ th'[t] = Idle /\ Held(t)' = Held(t) \ {x}
       /\ th' \in [Threads -> Operation] /\ lock' \in [Trackers -> Threads \cup {NoThread}]
       /\ Pending(x)' = 0
       /\ \A c \in Trackers : c \notin Held(t) => Pending(c)' = Pending(c)
  BY <1>4, <1>5, <1>6, IdleOp, UnlockStep, Zenon
<1>12. PICK k \in Nat : /\ used'[x] = k /\ k + children[x] <= m
                        /\ \A z \in Trackers : z # x => used'[z] = used[z]
                        /\ used' \in [Trackers -> Nat]
  <2>1. CASE o.alloc
    <3>1. used' = [used EXCEPT ![x] = used[x] + o.bytes]
      BY <1>5, <2>1, Zenon
    <3>2. PICK k : k = used[x] + o.bytes
      OBVIOUS
    <3>3. o.bytes <= reservation[x] - used[x] - children[x] + n
      BY <1>6, <2>1, Zenon DEF Unused
    <3>4. k \in Nat /\ k + children[x] <= m
      BY <1>8, <1>9, <3>2, <3>3, SMT
    <3>5. /\ used'[x] = k /\ \A z \in Trackers : z # x => used'[z] = used[z]
          /\ used' \in [Trackers -> Nat]
      BY <1>7, <1>8, <3>1, <3>2, <3>4
    <3> QED
      BY <3>4, <3>5, Zenon
  <2>2. CASE ~o.alloc
    <3>1. used' = used
      BY <1>5, <2>2, Zenon
    <3>2. used[x] + children[x] <= reservation[x]
      BY <1>4, <1>7, Zenon DEF Bounds
    <3>3. used[x] + children[x] <= m
      BY <1>8, <1>9, <3>2, SMT
    <3> QED
      BY <1>8, <3>1, <3>3, Zenon
  <2> QED
    BY <2>1, <2>2, Zenon
<1>13. TypeOK'
  BY <1>4, <1>5, <1>10, <1>11, <1>12, Zenon DEF TypeOK
<1>14. Bounds'
  <2>1. ASSUME NEW z \in Trackers
        PROVE  reservation'[z] <= Limit[z] /\ used'[z] + children'[z] <= reservation'[z]
    <3>1. CASE z = x
      BY <1>5, <1>6, <1>9, <1>10, <1>12, <3>1, Zenon
    <3>2. CASE z # x
      BY <1>4, <1>5, <1>10, <1>12, <3>2, Zenon DEF Bounds
    <3> QED
      BY <3>1, <3>2, Zenon
  <2> QED
    BY <2>1, Zenon DEF Bounds
<1>15. Passed'
  <2>1. \A p \in Trackers \ Owned : reservation'[p] = children'[p]
    BY <1>4, <1>5, <1>7, <1>10, Zenon DEF Passed
  <2>2. \A p \in Trackers \ TopClients : used'[p] = 0
    BY <1>4, <1>6, <1>12, Zenon DEF Passed
  <2> QED
    BY <2>1, <2>2, Zenon DEF Passed
<1>16. Owner[x] = t /\ Uses(t, x)
  BY <1>1, <1>4, <1>5, <1>7, Zenon DEF MineOK, Uses
<1>17. Quiet(t)
  <2>1. ASSUME NEW z \in Owned
        PROVE  Unused(z) <= Unused(z)' \/ Uses(t, z)
    <3>1. CASE z = x
      BY <1>16, <3>1, Zenon
    <3>2. CASE z # x
      <4>1. z \in Trackers
        BY ClientFacts, InitialFacts, Zenon DEF Owned
      <4>2. Unused(z)' = Unused(z) /\ Unused(z) \in Int
        BY <1>4, <1>5, <1>10, <1>12, <3>2, <4>1, UnusedType, Zenon DEF Unused
      <4> QED
        BY <4>2, SMT
    <3> QED
      BY <3>1, <3>2, Zenon
  <2>2. \A z \in Trackers : lock[z] \notin {t, NoThread} => reservation'[z] = reservation[z]
    BY <1>6, <1>10, Zenon DEF Held
  <2>3. \A y \in Clients : reservation'[y] = reservation[y] \/ Owner[y] = t
    BY <1>10, <1>16, ClientFacts, Zenon
  <2>4. th'[t].dst = Root
    BY <1>11, IdleOp, Zenon
  <2> QED
    BY <1>5, <1>11, <2>1, <2>2, <2>3, <2>4, Zenon DEF Quiet
<1>18. Working(t)'
  <2>1. Held(t)' = {}
    BY <1>6, <1>11, Zenon
  <2> QED
    BY <1>5, <1>6, <1>11, <2>1, WorkingIdle, Zenon
<1>19. InitialAgrees'
  BY <1>4, <1>5, <1>6, <1>7, <1>10, <1>11, InitialFacts, InitialFrame, Zenon
<1>20. ASSUME NEW c \in Trackers
       PROVE  Share'[c] = Share[c]
  <2>1. CASE c = x
    <3>1. Pending(x) = n
      <4>1. Pending(x) = PendingOf(o, x)
        BY <1>1, <1>6, <1>7, PendingMine, Zenon
      <4>2. PendingOf(o, x) = n
        BY <1>2, <1>3, <1>5 DEF PendingOf
      <4> QED
        BY <4>1, <4>2, Zenon
    <3>2. Share[x] = reservation[x] + n /\ Share'[x] = m + 0
      BY <1>7, <1>10, <1>11, <3>1, ShareIs, Zenon
    <3>3. m + 0 = m
      BY <1>9, SMT
    <3> QED
      BY <1>9, <2>1, <3>2, <3>3, Zenon
  <2>2. CASE c # x
    <3>1. Pending(c)' = Pending(c) /\ reservation'[c] = reservation[c]
      BY <1>6, <1>10, <1>11, <2>2, Zenon
    <3> QED
      BY <3>1, ShareIs, Zenon
  <2> QED
    BY <2>1, <2>2, Zenon
<1>21. ASSUME NEW p \in Trackers
       PROVE  SumStep(Children(p), children[p], children'[p], Share, Share')
  <2>1. \A c \in Children(p) : Share'[c] = Share[c]
    BY <1>20, Zenon DEF Children
  <2> QED
    BY <1>5, <2>1, Zenon DEF SumStep, NoChange
<1> QED
  BY <1>10, <1>13, <1>14, <1>15, <1>17, <1>18, <1>19, <1>21, FinishStep, Zenon

LEMMA GrantAbove ==
    ASSUME IInv, NEW t \in Threads, Grant(t), th[t].at # th[t].src
    PROVE  IInv'
<1>1. PICK o \in Operation : o = th[t]
  BY Zenon DEF IInv, TypeOK
<1>2. PICK x : x = o.at
  OBVIOUS
<1>3. PICK n : n = o.need[x]
  OBVIOUS
<1>4. PICK b : b = Below(x, o.src)
  OBVIOUS
<1>5. /\ TypeOK /\ Bounds /\ MemAgrees /\ Passed /\ InitialAgrees /\ Working(t)
      /\ GrantOK(t) /\ MineOK(t)
  BY Zenon DEF IInv, Working
<1>6. PICK q : q = [o EXCEPT !.at = b]
  OBVIOUS
<1>7. /\ o.pc = "grant" /\ x # o.src /\ reservation' = [reservation EXCEPT ![x] = reservation[x] + n]
      /\ mem' = Charge(x, n) /\ children' = [children EXCEPT ![x] = children[x] + o.need[b]]
      /\ used' = used /\ lock' = [lock EXCEPT ![x] = NoThread] /\ th' = [th EXCEPT ![t] = q]
      /\ other' = other /\ initialLock' = initialLock /\ remaining' = remaining
  BY <1>1, <1>2, <1>3, <1>4, <1>6, Zenon DEF Grant
<1>8. /\ o.src \in TopClients /\ x \in OnPath(o.src)
      /\ Held(t) = (OnPath(o.src) \ OnPath(x)) \cup {x}
      /\ \A z \in Held(t) : o.need[z] = o.need[o.src] /\ reservation[z] + o.need[z] <= Limit[z]
      /\ o.need[o.src] # 0 /\ (o.alloc => o.bytes <= Unused(o.src) + o.need[o.src])
      /\ initialLock # t
  BY <1>1, <1>2, <1>5, <1>7, Zenon DEF GrantOK
<1>9. x \in Trackers /\ x \notin Owned /\ o.src \in Trackers /\ o.src \in Owned
  BY <1>7, <1>8, TopFacts, Zenon
<1>10. /\ b \in Children(x) /\ b \in OnPath(o.src) /\ b \in Trackers /\ b # Root /\ Parent(b) = x
       /\ OnPath(b) = {b} \cup OnPath(x) /\ b \notin OnPath(x) /\ b # x
  <2>1. b \in Children(x) /\ b \in OnPath(o.src)
    BY <1>4, <1>7, <1>8, <1>9, TreeBelow
  <2>2. b \in Trackers /\ b # Root /\ Parent(b) = x
    BY <2>1, Zenon DEF Children
  <2> QED
    BY <2>1, <2>2, TreeParent, Zenon
<1>11. b \in Held(t) /\ x \in Held(t) /\ o.need[b] = n /\ n = o.need[o.src]
  BY <1>3, <1>8, <1>10, Zenon
<1>12. /\ n \in Nat /\ reservation[x] \in Nat /\ used[x] \in Nat /\ children[x] \in Nat
       /\ children \in [Trackers -> Nat]
  BY <1>3, <1>5, <1>9, OpFields DEF TypeOK
<1>13. PICK m \in Nat : m = reservation[x] + n
  BY <1>12
<1>14. /\ reservation' \in [Trackers -> Nat] /\ mem' \in [Linked -> Nat] /\ MemAgrees'
       /\ reservation'[x] = m /\ \A z \in Trackers : z # x => reservation'[z] = reservation[z]
  <2>1. n \in Int /\ reservation' = [reservation EXCEPT ![x] = m]
    BY <1>7, <1>12, <1>13
  <2> QED
    BY <1>5, <1>7, <1>9, <1>13, <2>1, ChargeStep, Zenon
<1>15. /\ q \in Operation /\ q.pc = "grant" /\ q.src = o.src /\ q.dst = o.dst
       /\ q.bytes = o.bytes /\ q.at = b /\ q.need = o.need /\ q.alloc = o.alloc
  BY <1>6, <1>7, <1>10, MoveOp
<1>16. /\ OnlyThread(t) /\ th'[t] = q /\ Held(t)' = Held(t) \ {x}
       /\ th' \in [Threads -> Operation] /\ lock' \in [Trackers -> Threads \cup {NoThread}]
       /\ Pending(x)' = 0
       /\ \A c \in Trackers : c \notin Held(t) => Pending(c)' = Pending(c)
       /\ \A c \in Held(t) \ {x} : c # Root => Pending(c)' = PendingOf(q, c)
  BY <1>5, <1>7, <1>11, <1>15, UnlockStep, Zenon
<1>17. PICK k \in Nat : k = children[x] + n
  BY <1>12
<1>18. /\ children'[x] = k /\ children' \in [Trackers -> Nat]
       /\ \A z \in Trackers : z # x => children'[z] = children[z]
  <2>1. children' = [children EXCEPT ![x] = k]
    BY <1>7, <1>11, <1>17
  <2> QED
    BY <1>9, <1>12, <2>1
<1>19. TypeOK'
  BY <1>5, <1>7, <1>14, <1>16, <1>18, Zenon DEF TypeOK
<1>20. reservation[x] = children[x] /\ used[x] = 0
  BY <1>5, <1>9, Zenon DEF Passed, Owned, TopClients
<1>21. k = m /\ 0 + k <= m
  BY <1>12, <1>13, <1>17, <1>20, SMT
<1>22. Bounds'
  <2>1. ASSUME NEW z \in Trackers
        PROVE  reservation'[z] <= Limit[z] /\ used'[z] + children'[z] <= reservation'[z]
    <3>1. CASE z = x
      <4>1. m <= Limit[x]
        BY <1>3, <1>8, <1>11, <1>13, Zenon
      <4> QED
        BY <1>7, <1>14, <1>18, <1>20, <1>21, <3>1, <4>1, Zenon
    <3>2. CASE z # x
      BY <1>5, <1>7, <1>14, <1>18, <3>2, Zenon DEF Bounds
    <3> QED
      BY <3>1, <3>2, Zenon
  <2> QED
    BY <2>1, Zenon DEF Bounds
<1>23. Passed'
  <2>1. ASSUME NEW p \in Trackers \ Owned
        PROVE  reservation'[p] = children'[p]
    <3>1. CASE p = x
      BY <1>14, <1>18, <1>21, <3>1, Zenon
    <3>2. CASE p # x
      BY <1>5, <1>14, <1>18, <3>2, Zenon DEF Passed
    <3> QED
      BY <3>1, <3>2, Zenon
  <2> QED
    BY <1>5, <1>7, <2>1, Zenon DEF Passed
<1>24. ASSUME NEW z \in Owned
       PROVE  z \in Trackers /\ z # x /\ Unused(z)' = Unused(z) /\ Unused(z) \in Int
  <2>1. z \in Trackers /\ z # x
    BY <1>9, ClientFacts, InitialFacts, Zenon DEF Owned
  <2> QED
    BY <1>5, <1>7, <1>14, <1>18, <2>1, UnusedType, Zenon DEF Unused
<1>25. Quiet(t)
  <2>1. ASSUME NEW z \in Owned
        PROVE  Unused(z) <= Unused(z)'
    <3>1. Unused(z)' = Unused(z) /\ Unused(z) \in Int
      BY <1>24, Zenon
    <3> QED
      BY <3>1, SMT
  <2>2. \A z \in Trackers : lock[z] \notin {t, NoThread} => reservation'[z] = reservation[z]
    BY <1>11, <1>14, Zenon DEF Held
  <2>3. \A y \in Clients : reservation'[y] = reservation[y]
    BY <1>14, <1>24, Zenon DEF Owned
  <2>4. th'[t].dst = th[t].dst
    BY <1>1, <1>15, <1>16, Zenon
  <2> QED
    BY <1>7, <1>16, <2>1, <2>2, <2>3, <2>4, Zenon DEF Quiet
<1>26. Working(t)'
  <2>1. Uses(t, o.src)
    BY <1>1, <1>5, <1>7, Zenon DEF MineOK
  <2>2. MineOK(t)'
    BY <1>7, <1>15, <1>16, <2>1, Zenon DEF MineOK, Uses
  <2>3. Held(t)' = (OnPath(o.src) \ OnPath(b)) \cup {b}
    <3>1. x \in OnPath(x)
      BY <1>9, TreeSelf, Zenon
    <3> QED
      BY <1>8, <1>10, <1>16, <3>1, Zenon
  <2>4. \A z \in Held(t)' : /\ o.need[z] = o.need[o.src]
                            /\ reservation'[z] + o.need[z] <= Limit[z]
    <3> TAKE z \in Held(t)'
    <3>1. z \in Held(t) /\ z # x
      BY <1>16, Zenon
    <3>2. z \in Trackers
      BY <3>1, Zenon DEF Held
    <3> QED
      BY <1>8, <1>14, <3>1, <3>2, Zenon
  <2>5. PICK u : u = Unused(o.src)
    OBVIOUS
  <2>6. Unused(o.src)' = u /\ (o.alloc => o.bytes <= u + o.need[o.src])
    BY <1>8, <1>9, <1>24, <2>5, Zenon
  <2>7. GrantOK(t)'
    BY <1>7, <1>8, <1>10, <1>15, <1>16, <2>3, <2>4, <2>6, Zenon DEF GrantOK
  <2> QED
    BY <1>15, <1>16, <2>2, <2>7, WorkingGrant, Zenon
<1>27. InitialAgrees'
  <2>1. reservation'[Initial] = reservation[Initial]
    BY <1>14, <1>24, Zenon DEF Owned
  <2> QED
    BY <1>5, <1>7, <1>8, <1>16, <2>1, InitialFrame, Zenon
<1>28. ASSUME NEW c \in Trackers \ {Root}, c # b
       PROVE  Share'[c] = Share[c]
  <2>1. CASE c = x
    <3>1. Pending(x) = n
      <4>1. Pending(x) = PendingOf(o, x)
        BY <1>1, <1>11, <2>1, PendingMine, Zenon
      <4>2. PendingOf(o, x) = n
        BY <1>2, <1>3, <1>7 DEF PendingOf
      <4> QED
        BY <4>1, <4>2, Zenon
    <3>2. Share[x] = reservation[x] + n /\ Share'[x] = m + 0
      BY <1>9, <1>14, <1>16, <3>1, ShareIs, Zenon
    <3>3. m + 0 = m
      BY <1>13, SMT
    <3> QED
      BY <1>13, <2>1, <3>2, <3>3, Zenon
  <2>2. CASE c # x /\ c \in Held(t)
    <3>1. Pending(c) = PendingOf(o, c) /\ Pending(c)' = PendingOf(q, c)
      BY <1>1, <1>16, <2>2, PendingMine, Zenon
    <3>2. PendingOf(o, c) = 0
      BY <1>2, <1>7, <2>2 DEF PendingOf
    <3>3. PendingOf(q, c) = 0
      BY <1>15, <1>28, <2>2 DEF PendingOf
    <3> QED
      BY <1>14, <2>2, <3>1, <3>2, <3>3, ShareIs, Zenon
  <2>3. CASE c \notin Held(t)
    <3>1. Pending(c)' = Pending(c) /\ reservation'[c] = reservation[c]
      BY <1>11, <1>14, <1>16, <2>3, Zenon
    <3> QED
      BY <3>1, ShareIs, Zenon
  <2> QED
    BY <2>1, <2>2, <2>3, Zenon
<1>29. k = children[x] + Share'[b] - Share[b]
  <2>1. Pending(b) = PendingOf(o, b) /\ Pending(b)' = PendingOf(q, b)
    BY <1>1, <1>10, <1>11, <1>16, PendingMine, Zenon
  <2>2. PendingOf(o, b) = 0
    BY <1>2, <1>7, <1>10 DEF PendingOf
  <2>3. PendingOf(q, b) = n
    BY <1>11, <1>15 DEF PendingOf
  <2>4. PICK r \in Nat : r = reservation[b]
    BY <1>5, <1>10 DEF TypeOK
  <2>5. Share[b] = r + 0 /\ Share'[b] = r + n
    BY <1>10, <1>14, <2>1, <2>2, <2>3, <2>4, ShareIs, Zenon
  <2> QED
    BY <1>12, <1>17, <2>5, SMT
<1>30. ASSUME NEW p \in Trackers
       PROVE  SumStep(Children(p), children[p], children'[p], Share, Share')
  <2>1. ASSUME NEW c \in Children(p), c # b
        PROVE  Share'[c] = Share[c]
    BY <1>28, <2>1, Zenon DEF Children
  <2>2. CASE p = x
    <3>1. children'[p] = children[p] + Share'[b] - Share[b] /\ b \in Children(p)
      BY <1>10, <1>18, <1>29, <2>2, Zenon
    <3> QED
      BY <2>1, <3>1, Zenon DEF SumStep, OneChange
  <2>3. CASE p # x
    <3>1. b \notin Children(p) /\ children'[p] = children[p]
      BY <1>10, <1>18, <2>3, Zenon DEF Children
    <3> QED
      BY <2>1, <3>1, Zenon DEF SumStep, NoChange
  <2> QED
    BY <2>2, <2>3, Zenon
<1> QED
  BY <1>14, <1>19, <1>22, <1>23, <1>25, <1>26, <1>27, <1>30, FinishStep, Zenon

LEMMA GrantInductive ==
    ASSUME IInv, NEW t \in Threads, Grant(t)
    PROVE  IInv'
BY GrantLast, GrantAbove, Zenon

\* A thread goes on with the operation o and the locks it has.
LEMMA SameLocks ==
    ASSUME TypeOK, NEW t \in Threads, NEW o \in Operation,
           lock' = lock, th' = [th EXCEPT ![t] = o]
    PROVE  /\ OnlyThread(t) /\ th'[t] = o /\ Held(t)' = Held(t)
           /\ th' \in [Threads -> Operation] /\ lock' \in [Trackers -> Threads \cup {NoThread}]
           /\ \A c \in Trackers : c \notin Held(t) => Pending(c)' = Pending(c)
           /\ \A c \in Held(t) : c # Root => Pending(c)' = PendingOf(o, c)
<1>0. t # NoThread
  BY ThreadFacts, Zenon
<1>2. th'[t] = o /\ \A s \in Threads \ {t} : th'[s] = th[s]
  BY DEF TypeOK
<1>3. th' \in [Threads -> Operation] /\ lock' \in [Trackers -> Threads \cup {NoThread}]
  BY DEF TypeOK
<1>4. OnlyThread(t)
  BY <1>2, Zenon DEF OnlyThread
<1>5. Held(t)' = Held(t)
  BY Zenon DEF Held
<1>7. ASSUME NEW c \in Trackers, c \notin Held(t)
      PROVE  Pending(c)' = Pending(c)
  <2>1. lock[c] # t /\ lock'[c] # t
    BY <1>7, Zenon DEF Held
  <2> QED
    BY <1>4, <2>1, PendingOther, Zenon
<1>8. ASSUME NEW c \in Held(t), c # Root
      PROVE  Pending(c)' = PendingOf(o, c)
  <2>1. lock'[c] = t
    BY Zenon DEF Held
  <2> QED
    BY <1>0, <1>2, <1>8, <2>1, Zenon DEF Pending, PendingOf
<1> QED
  BY <1>2, <1>3, <1>4, <1>5, <1>7, <1>8, Zenon

LEMMA RollbackInductive ==
    ASSUME IInv, NEW t \in Threads, Rollback(t)
    PROVE  IInv'
<1>1. PICK o \in Operation : o = th[t]
  BY Zenon DEF IInv, TypeOK
<1>2. PICK x : x = o.at
  OBVIOUS
<1>3. PICK n : n = o.need[x]
  OBVIOUS
<1>4. PICK p : p = Parent(x)
  OBVIOUS
<1>5. PICK q : q = RollingBack(o, p, n)
  OBVIOUS
<1>6. /\ TypeOK /\ InitialAgrees /\ GrantOK(t) /\ MineOK(t)
  BY Zenon DEF IInv, Working
<1>7. /\ o.pc = "grant" /\ reservation' = reservation /\ used' = used /\ children' = children
      /\ mem' = mem /\ other' = other /\ lock' = lock /\ initialLock' = initialLock
      /\ remaining' = remaining /\ x \in Linked
  BY <1>1, <1>2, <1>3, Zenon DEF Rollback, MemRefuses, TopLinks
<1>8. /\ o.src \in TopClients /\ x \in OnPath(o.src) /\ initialLock # t
      /\ Held(t) = (OnPath(o.src) \ OnPath(x)) \cup {x}
  BY <1>1, <1>2, <1>6, <1>7, Zenon DEF GrantOK
<1>9. x \in Trackers /\ x # Root /\ o.src \in Trackers /\ x \in Held(t)
  BY <1>7, <1>8, TopFacts, LinkedFacts, Zenon
<1>10. /\ p \in Trackers /\ OnPath(x) = {x} \cup OnPath(p) /\ x \notin OnPath(p)
       /\ p \in OnPath(x) /\ p # x
  BY <1>4, <1>9, TreeParent, Zenon
<1>11. p \in OnPath(o.src)
  BY <1>8, <1>9, <1>10, TreeUp, Zenon
<1>12. p # o.src
  <2> SUFFICES ASSUME p = o.src
               PROVE  FALSE
    OBVIOUS
  <2>1. x = o.src
    BY <1>8, <1>9, <1>10, PathAntisymmetric, Zenon
  <2> QED
    BY <1>10, <2>1, Zenon
<1>13. n \in Nat
  BY <1>3, <1>9, OpFields
<1>14. /\ q \in Operation /\ q.pc = "release" /\ q.src = o.src /\ q.dst = o.dst /\ q.at = p
       /\ q.ask = n
  BY <1>5, <1>10, <1>13, RollbackOp
<1>15. th' = [th EXCEPT ![t] = q]
  <2>1. th' = [th EXCEPT ![t].pc = "release", ![t].at = p, ![t].ask = n]
    BY <1>1, <1>2, <1>3, <1>4, Zenon DEF Rollback
  <2> QED
    BY <1>1, <1>5, <1>6, <2>1 DEF TypeOK, RollingBack
<1>16. /\ OnlyThread(t) /\ th'[t] = q /\ Held(t)' = Held(t)
       /\ th' \in [Threads -> Operation] /\ lock' \in [Trackers -> Threads \cup {NoThread}]
       /\ \A c \in Trackers : c \notin Held(t) => Pending(c)' = Pending(c)
       /\ \A c \in Held(t) : c # Root => Pending(c)' = PendingOf(q, c)
  BY <1>6, <1>7, <1>14, <1>15, SameLocks, Zenon
<1>17. TypeOK'
  BY <1>6, <1>7, <1>16, Zenon DEF TypeOK
<1>18. ASSUME NEW c \in Trackers \ {Root}
       PROVE  Pending(c)' = Pending(c)
  <2>1. CASE c \in Held(t)
    <3>1. Pending(c)' = PendingOf(q, c) /\ Pending(c) = PendingOf(o, c)
      BY <1>1, <1>16, <2>1, PendingMine, Zenon
    <3>2. CASE c = x
      <4>1. PendingOf(o, c) = n
        BY <1>2, <1>3, <1>7, <3>2 DEF PendingOf
      <4>2. PendingOf(q, c) = n
        BY <1>4, <1>14, <3>2 DEF PendingOf
      <4> QED
        BY <3>1, <4>1, <4>2, Zenon
    <3>3. CASE c # x
      <4>1. Parent(c) # p
        <5>1. c \in OnPath(o.src)
          BY <1>8, <2>1, <3>3, Zenon
        <5> QED
          BY <1>4, <1>8, <1>9, <3>3, <5>1, TreeUnique, Zenon
      <4>2. PendingOf(o, c) = 0
        BY <1>2, <1>7, <3>3 DEF PendingOf
      <4>3. PendingOf(q, c) = 0
        BY <1>14, <4>1 DEF PendingOf
      <4> QED
        BY <3>1, <4>2, <4>3, Zenon
    <3> QED
      BY <3>2, <3>3, Zenon
  <2>2. CASE c \notin Held(t)
    BY <1>16, <2>2, Zenon
  <2> QED
    BY <2>1, <2>2, Zenon
<1>19. Working(t)'
  <2>1. Uses(t, o.src)
    BY <1>1, <1>6, <1>7, Zenon DEF MineOK
  <2>2. MineOK(t)'
    BY <1>7, <1>14, <1>16, <2>1, Zenon DEF MineOK, Uses
  <2>3. Held(t)' = OnPath(o.src) \ OnPath(p)
    BY <1>8, <1>10, <1>16, Zenon
  <2>4. ReleaseOK(t)'
    BY <1>7, <1>8, <1>11, <1>12, <1>14, <1>16, <2>3, Zenon DEF ReleaseOK
  <2> QED
    BY <1>14, <1>16, <2>2, <2>4, WorkingRelease, Zenon
<1>20. InitialAgrees'
  BY <1>6, <1>7, <1>8, <1>16, InitialFrame, Zenon
<1>21. th'[t].dst \in {th[t].dst, Root}
  BY <1>1, <1>14, <1>16, Zenon
<1> QED
  BY <1>7, <1>16, <1>17, <1>18, <1>19, <1>20, <1>21, OnlyLocks, Zenon
-----------------------------------------------------------------------------
(***************************************************************************)
(* A decrease.                                                             *)
(***************************************************************************)
LEMMA ReleasePlace ==
    ASSUME IInv, NEW t \in Threads, Release(t), NEW o, o = th[t]
    PROVE  /\ o \in Operation /\ o.pc = "release" /\ lock[o.at] = NoThread
           /\ o.src \in TopClients \cup {Initial} /\ o.at \in OnPath(o.src)
           /\ Held(t) = OnPath(o.src) \ OnPath(o.at)
           /\ o.at = o.src => o.ask <= Unused(o.src)
           /\ initialLock = t <=> o.src = Initial
           /\ Uses(t, o.src) /\ o.src \in Trackers /\ o.src # Root /\ o.src \in Owned
           /\ o.at \in Trackers /\ (o.at # o.src => o.at \notin Owned) /\ o.ask \in Nat
           /\ (o.at = Initial => o.src = Initial)
<1>1. TypeOK /\ ReleaseOK(t) /\ MineOK(t)
  BY Zenon DEF IInv, Working
<1>2. o \in Operation
  BY <1>1, Zenon DEF TypeOK
<1>3. o.pc = "release" /\ lock[o.at] = NoThread
  BY Zenon DEF Release
<1>4. /\ o.src \in TopClients \cup {Initial} /\ o.at \in OnPath(o.src)
      /\ Held(t) = OnPath(o.src) \ OnPath(o.at)
      /\ (o.at = o.src => o.ask <= Unused(o.src)) /\ (initialLock = t => o.src = Initial)
  BY <1>1, <1>3, Zenon DEF ReleaseOK
<1>5. Uses(t, o.src)
  BY <1>1, <1>3, Zenon DEF MineOK
<1>6. o.src = Initial => initialLock = t
  BY <1>5, Zenon DEF Uses
<1>7. /\ o.src \in Trackers /\ o.src # Root /\ o.src \in Owned
      /\ o.at \in Trackers /\ (o.at # o.src => o.at \notin Owned)
  BY <1>4, TopFacts, Zenon
<1>8. o.ask \in Nat
  BY <1>2, OpFields
<1>9. o.at = Initial => o.src = Initial
  BY <1>7, Zenon DEF Owned
<1> QED
  BY <1>2, <1>3, <1>4, <1>5, <1>6, <1>7, <1>8, <1>9, Zenon

\* The child a decrease comes from has given up its bytes, and the parent still counts them.
LEMMA ReleaseBelow ==
    ASSUME IInv, NEW t \in Threads, Release(t), NEW o, o = th[t], o.at # o.src,
           NEW b, b = Below(o.at, o.src)
    PROVE  /\ b \in Children(o.at) /\ b \in Held(t) /\ b \in Trackers /\ b # Root
           /\ Parent(b) = o.at /\ b # o.at
           /\ Pending(b) = o.ask /\ o.ask <= children[o.at]
           /\ \A c \in Held(t) : c # Root /\ c # b => PendingOf(o, c) = 0
<1>1. /\ o.pc = "release" /\ o.src \in Trackers /\ o.at \in OnPath(o.src) /\ o.at \in Trackers
      /\ Held(t) = OnPath(o.src) \ OnPath(o.at) /\ o.ask \in Nat
  BY ReleasePlace, Zenon
<1>2. /\ b \in Children(o.at) /\ b \in OnPath(o.src)
      /\ \A c \in Children(o.at) : c \in OnPath(o.src) => c = b
  BY <1>1, TreeBelow, Zenon
<1>3. b \in Trackers /\ b # Root /\ Parent(b) = o.at
  BY <1>2, Zenon DEF Children
<1>4. b \notin OnPath(o.at) /\ b # o.at
  BY <1>3, TreeParent, Zenon
<1>5. b \in Held(t)
  BY <1>1, <1>2, <1>4, Zenon
<1>6. Pending(b) = o.ask
  <2>1. Pending(b) = PendingOf(o, b)
    BY <1>3, <1>5, PendingMine, Zenon
  <2>2. PendingOf(o, b) = o.ask
    BY <1>1, <1>3 DEF PendingOf
  <2> QED
    BY <2>1, <2>2, Zenon
<1>7. o.ask <= children[o.at]
  <2>1. TypeOK /\ SumsAgree /\ \A s \in Threads : Working(s)
    BY Zenon DEF IInv
  <2>2. PICK f \in [Trackers -> Nat] : f = Share
    BY <2>1, ShareType, Zenon
  <2>3. Children(o.at) \in SUBSET Trackers
    BY Zenon DEF Children
  <2>4. f[b] <= Total(f, Children(o.at)) /\ Total(f, Children(o.at)) \in Nat
    BY <1>2, <2>3, TotalAtLeast, TotalType, Zenon
  <2>5. children[o.at] = Total(f, Children(o.at))
    BY <1>1, <2>1, <2>2, Zenon DEF SumsAgree
  <2>6. reservation[b] \in Nat
    BY <1>3, <2>1 DEF TypeOK
  <2>7. f[b] = reservation[b] + o.ask
    BY <1>3, <1>6, <2>2, ShareIs, Zenon
  <2> QED
    BY <1>1, <2>4, <2>5, <2>6, <2>7, SMT
<1>8. ASSUME NEW c \in Held(t), c # Root, c # b
      PROVE  PendingOf(o, c) = 0
  <2>1. c \in Trackers /\ c \in OnPath(o.src)
    BY <1>1, Zenon DEF Held
  <2>2. Parent(c) # o.at
    BY <1>2, <1>8, <2>1, Zenon DEF Children
  <2> QED
    BY <1>1, <2>2 DEF PendingOf
<1> QED
  BY <1>2, <1>3, <1>4, <1>5, <1>6, <1>7, <1>8, Zenon

LEMMA ReleaseNumbers ==
    ASSUME IInv, NEW t \in Threads, Release(t), NEW o, o = th[t], NEW x, x = o.at
    PROVE  /\ reservation' \in [Trackers -> Nat] /\ mem' \in [Linked -> Nat]
           /\ children' \in [Trackers -> Nat] /\ used' = used
           /\ MemAgrees' /\ Bounds' /\ Passed'
           /\ reservation'[x] = reservation[x] - o.ask
           /\ \A z \in Trackers : z # x => reservation'[z] = reservation[z]
           /\ x = o.src => children' = children
           /\ x # o.src => children'[x] = children[x] - o.ask
           /\ \A z \in Trackers : z # x => children'[z] = children[z]
<1>1. /\ TypeOK /\ Bounds /\ MemAgrees /\ Passed
  BY Zenon DEF IInv
<1>2. /\ x \in Trackers /\ o.ask \in Nat /\ (x = o.src => o.ask <= Unused(x))
      /\ (x # o.src => x \notin Owned) /\ (x = o.src => x \in Owned)
  BY ReleasePlace, Zenon
<1>3. /\ reservation' = [reservation EXCEPT ![x] = reservation[x] - o.ask]
      /\ children' = IF x = o.src THEN children ELSE [children EXCEPT ![x] = children[x] - o.ask]
      /\ mem' = Charge(x, 0 - o.ask) /\ used' = used
  BY Zenon DEF Release, Returned
<1>4. /\ reservation[x] \in Nat /\ used[x] \in Nat /\ children[x] \in Nat /\ Limit[x] \in Nat
      /\ children \in [Trackers -> Nat]
  BY <1>1, <1>2, NumberFacts DEF TypeOK
<1>5. used[x] + children[x] <= reservation[x] /\ reservation[x] <= Limit[x]
  BY <1>1, <1>2, Zenon DEF Bounds
<1>6. PICK m : m = reservation[x] - o.ask
  OBVIOUS
<1>7. PICK k : /\ k \in Nat /\ k = IF x = o.src THEN children[x] ELSE children[x] - o.ask
               /\ m \in Nat /\ used[x] + k <= m /\ m <= Limit[x]
               /\ (x # o.src => m = k)
  <2>1. CASE x = o.src
    <3>1. o.ask <= reservation[x] - used[x] - children[x]
      BY <1>2, <2>1, Zenon DEF Unused
    <3>2. m \in Nat /\ used[x] + children[x] <= m /\ m <= Limit[x]
      BY <1>2, <1>4, <1>5, <1>6, <3>1, SMT
    <3> QED
      BY <1>4, <2>1, <3>2, Zenon
  <2>2. CASE x # o.src
    <3>1. o.ask <= children[x]
      BY <2>2, ReleaseBelow, Zenon
    <3>2. reservation[x] = children[x] /\ used[x] = 0
      BY <1>1, <1>2, <2>2, Zenon DEF Passed, Owned, TopClients
    <3>3. PICK k : k = children[x] - o.ask
      OBVIOUS
    <3>4. k \in Nat /\ m \in Nat /\ used[x] + k <= m /\ m <= Limit[x] /\ m = k
      BY <1>2, <1>4, <1>5, <1>6, <3>1, <3>2, <3>3, SMT
    <3> QED
      BY <2>2, <3>3, <3>4, Zenon
  <2> QED
    BY <2>1, <2>2, Zenon
<1>8. /\ reservation' \in [Trackers -> Nat] /\ mem' \in [Linked -> Nat] /\ MemAgrees'
      /\ reservation'[x] = m /\ \A z \in Trackers : z # x => reservation'[z] = reservation[z]
  <2>1. reservation' = [reservation EXCEPT ![x] = m]
    BY <1>3, <1>6, Zenon
  <2>2. PICK d \in Int : d = 0 - o.ask
    BY <1>2, SMT
  <2>3. m = reservation[x] + d
    BY <1>2, <1>4, <1>6, <2>2, SMT
  <2>4. mem' = Charge(x, d)
    BY <1>3, <2>2, Zenon
  <2> QED
    BY <1>1, <1>2, <1>7, <2>1, <2>3, <2>4, ChargeStep, Zenon
<1>9. /\ children' \in [Trackers -> Nat] /\ children'[x] = k
      /\ \A z \in Trackers : z # x => children'[z] = children[z]
      /\ x = o.src => children' = children
  <2>1. CASE x = o.src
    BY <1>3, <1>4, <1>7, <2>1, Zenon
  <2>2. CASE x # o.src
    <3>1. children' = [children EXCEPT ![x] = k] /\ k \in Nat
      BY <1>3, <1>7, <2>2, Zenon
    <3> QED
      BY <1>2, <1>4, <2>2, <3>1
  <2> QED
    BY <2>1, <2>2, Zenon
<1>10. Bounds'
  <2>1. ASSUME NEW z \in Trackers
        PROVE  reservation'[z] <= Limit[z] /\ used'[z] + children'[z] <= reservation'[z]
    <3>1. CASE z = x
      BY <1>3, <1>7, <1>8, <1>9, <3>1, Zenon
    <3>2. CASE z # x
      BY <1>1, <1>3, <1>8, <1>9, <3>2, Zenon DEF Bounds
    <3> QED
      BY <3>1, <3>2, Zenon
  <2> QED
    BY <2>1, Zenon DEF Bounds
<1>11. Passed'
  <2>1. ASSUME NEW p \in Trackers \ Owned
        PROVE  reservation'[p] = children'[p]
    <3>1. CASE p = x
      BY <1>2, <1>7, <1>8, <1>9, <3>1, Zenon
    <3>2. CASE p # x
      BY <1>1, <1>8, <1>9, <3>2, Zenon DEF Passed
    <3> QED
      BY <3>1, <3>2, Zenon
  <2> QED
    BY <1>1, <1>3, <2>1, Zenon DEF Passed
<1> QED
  BY <1>3, <1>6, <1>7, <1>8, <1>9, <1>10, <1>11, Zenon

LEMMA ReleaseQuiet ==
    ASSUME IInv, NEW t \in Threads, Release(t), OnlyThread(t),
           th'[t].dst \in {th[t].dst, Root},
           \/ initialLock' = initialLock
           \/ initialLock = t /\ initialLock' = NoThread
    PROVE  Quiet(t)
<1>1. PICK o : o = th[t]
  OBVIOUS
<1>2. PICK x : x = o.at
  OBVIOUS
<1>3. TypeOK
  BY Zenon DEF IInv
<1>4. /\ used' = used /\ (x = o.src => children' = children)
      /\ \A z \in Trackers : z # x => reservation'[z] = reservation[z]
      /\ \A z \in Trackers : z # x => children'[z] = children[z]
  BY <1>1, <1>2, ReleaseNumbers
<1>5. /\ x \in Trackers /\ lock[x] = NoThread /\ Uses(t, o.src)
      /\ (x # o.src => x \notin Owned)
  BY <1>1, <1>2, ReleasePlace, Zenon
<1>6. ASSUME NEW z \in Owned
      PROVE  Unused(z) <= Unused(z)' \/ Uses(t, z)
  <2>1. CASE z = x
    BY <1>5, <2>1, Zenon
  <2>2. CASE z # x
    <3>1. z \in Trackers
      BY ClientFacts, InitialFacts, Zenon DEF Owned
    <3>2. Unused(z)' = Unused(z) /\ Unused(z) \in Int
      BY <1>3, <1>4, <2>2, <3>1, UnusedType, Zenon DEF Unused
    <3> QED
      BY <3>2, SMT
  <2> QED
    BY <2>1, <2>2, Zenon
<1>7. ASSUME NEW y \in Clients
      PROVE  reservation'[y] = reservation[y] \/ Owner[y] = t
  <2>1. y \in Trackers /\ y # Initial /\ y \in Owned
    BY ClientFacts, Zenon DEF Owned
  <2>2. CASE y = x
    BY <1>5, <2>1, <2>2, Zenon DEF Uses
  <2>3. CASE y # x
    BY <1>4, <2>1, <2>3, Zenon
  <2> QED
    BY <2>2, <2>3, Zenon
<1>8. \A z \in Trackers : lock[z] \notin {t, NoThread} => reservation'[z] = reservation[z]
  BY <1>4, <1>5, Zenon
<1>9. \/ initialLock' = initialLock
      \/ initialLock \in {t, NoThread} /\ initialLock' \in {t, NoThread}
  BY Zenon
<1> QED
  BY <1>6, <1>7, <1>8, <1>9, Zenon DEF Quiet

LEMMA ReleaseSums ==
    ASSUME IInv, NEW t \in Threads, Release(t), NEW o, o = th[t], NEW x, x = o.at,
           \A c \in Trackers \ {Root} : c \notin Held(t) /\ c # x => Pending(c)' = Pending(c),
           \A c \in Held(t) : c # Root => Pending(c)' = 0,
           x # Root => Pending(x)' = o.ask,
           NEW p \in Trackers
    PROVE  SumStep(Children(p), children[p], children'[p], Share, Share')
<1>1. /\ o \in Operation /\ o.pc = "release" /\ lock[x] = NoThread /\ x \in Trackers /\ o.ask \in Nat
      /\ Held(t) = OnPath(o.src) \ OnPath(x)
  BY ReleasePlace, Zenon
<1>2. /\ reservation'[x] = reservation[x] - o.ask
      /\ \A z \in Trackers : z # x => reservation'[z] = reservation[z]
      /\ x = o.src => children' = children
      /\ x # o.src => children'[x] = children[x] - o.ask
      /\ \A z \in Trackers : z # x => children'[z] = children[z]
  BY ReleaseNumbers
<1>3. PICK b : b = Below(x, o.src)
  OBVIOUS
<1>4. x # o.src =>
        /\ b \in Children(x) /\ b \in Held(t) /\ b \in Trackers /\ b # Root /\ b # x
        /\ Pending(b) = o.ask
        /\ \A c \in Held(t) : c # Root /\ c # b => PendingOf(o, c) = 0
  BY <1>3, ReleaseBelow, Zenon
<1>5. x = o.src => Held(t) = {}
  BY <1>1, Zenon
<1>6. reservation[x] \in Nat /\ \A c \in Trackers : reservation[c] \in Nat /\ children[c] \in Nat
  BY <1>1 DEF IInv, TypeOK
<1>7. ASSUME NEW c \in Trackers \ {Root}, ~(x # o.src /\ c = b)
      PROVE  Share'[c] = Share[c]
  <2>1. CASE c = x
    <3>1. Pending(x) = 0 /\ Pending(x)' = o.ask
      BY <1>1, <2>1, Zenon DEF Pending
    <3>2. Share[x] = reservation[x] + 0 /\ Share'[x] = (reservation[x] - o.ask) + o.ask
      BY <1>1, <1>2, <3>1, ShareIs, Zenon
    <3>3. Share[x] = Share'[x]
      BY <1>1, <1>6, <3>2, SMT
    <3> QED
      BY <2>1, <3>3, Zenon
  <2>2. CASE c # x /\ c \in Held(t)
    <3>1. x # o.src /\ c # b
      BY <1>5, <1>7, <2>2, Zenon
    <3>2. Pending(c) = 0
      BY <1>4, <2>2, <3>1, PendingMine, Zenon
    <3> QED
      BY <1>2, <2>2, <3>2, ShareIs, Zenon
  <2>3. CASE c # x /\ c \notin Held(t)
    BY <1>2, <2>3, ShareIs, Zenon
  <2> QED
    BY <2>1, <2>2, <2>3, Zenon
<1>8. CASE p = x /\ x # o.src
  <2>1. b \in Children(p) /\ b \in Trackers /\ b # x /\ Pending(b) = o.ask /\ Pending(b)' = 0
    BY <1>4, <1>8, Zenon
  <2>2. Share[b] = reservation[b] + o.ask /\ Share'[b] = reservation[b] + 0
    BY <1>2, <2>1, ShareIs, Zenon
  <2>3. children'[p] = children[p] - o.ask
    BY <1>2, <1>8, Zenon
  <2>4. children'[p] = children[p] + Share'[b] - Share[b]
    <3>1. reservation[b] \in Nat /\ children[p] \in Nat
      BY <1>6, <2>1, Zenon
    <3> QED
      BY <1>1, <2>2, <2>3, <3>1, SMT
  <2>5. \A d \in Children(p) : d # b => Share'[d] = Share[d]
    BY <1>7, Zenon DEF Children
  <2> QED
    BY <2>1, <2>4, <2>5, Zenon DEF SumStep, OneChange
<1>9. CASE ~(p = x /\ x # o.src)
  <2>1. children'[p] = children[p]
    BY <1>2, <1>9, Zenon
  <2>2. ASSUME NEW c \in Children(p)
        PROVE  Share'[c] = Share[c]
    <3>1. c \in Trackers \ {Root} /\ Parent(c) = p
      BY Zenon DEF Children
    <3>2. ~(x # o.src /\ c = b)
      BY <1>4, <1>9, <3>1, Zenon DEF Children
    <3> QED
      BY <1>7, <3>1, <3>2, Zenon
  <2> QED
    BY <2>1, <2>2, Zenon DEF SumStep, NoChange
<1> QED
  BY <1>8, <1>9, Zenon

LEMMA ReleaseInductive ==
    ASSUME IInv, NEW t \in Threads, Release(t)
    PROVE  IInv'
<1>1. PICK o : o = th[t]
  OBVIOUS
<1>2. PICK x : x = o.at
  OBVIOUS
<1>3. TypeOK /\ InitialAgrees
  BY Zenon DEF IInv
<1>4. /\ o \in Operation /\ o.pc = "release" /\ lock[x] = NoThread
      /\ o.src \in TopClients \cup {Initial} /\ x \in OnPath(o.src)
      /\ Held(t) = OnPath(o.src) \ OnPath(x)
      /\ (initialLock = t <=> o.src = Initial)
      /\ Uses(t, o.src) /\ o.src \in Trackers /\ o.src # Root /\ o.ask \in Nat
      /\ x \in Trackers /\ (x = Initial => o.src = Initial)
  BY <1>1, <1>2, ReleasePlace, Zenon
<1>5. /\ reservation' \in [Trackers -> Nat] /\ mem' \in [Linked -> Nat]
      /\ children' \in [Trackers -> Nat] /\ used' = used
      /\ MemAgrees' /\ Bounds' /\ Passed'
      /\ reservation'[x] = reservation[x] - o.ask
      /\ \A z \in Trackers : z # x => reservation'[z] = reservation[z]
  BY <1>1, <1>2, ReleaseNumbers
<1>6. other' = other /\ remaining' = remaining
  BY Zenon DEF Release
<1>7. CASE x = Root
  <2>1. Done(t)
    BY <1>1, <1>2, <1>7, Zenon DEF Release
  <2>2. /\ OnlyThread(t) /\ th'[t] = Idle /\ Held(t)' = {} /\ initialLock' # t
        /\ th' \in [Threads -> Operation] /\ lock' \in [Trackers -> Threads \cup {NoThread}]
        /\ initialLock' \in Threads \cup {NoThread}
        /\ initialLock = t => initialLock' = NoThread
        /\ initialLock # t => initialLock' = initialLock
        /\ Working(t)' /\ th'[t].dst = Root
        /\ \A c \in Trackers : c \notin Held(t) => Pending(c)' = Pending(c)
        /\ \A c \in Held(t) : Pending(c)' = 0
    BY <1>3, <2>1, DoneStep, Zenon
  <2>3. TypeOK'
    BY <1>3, <1>5, <1>6, <2>2, Zenon DEF TypeOK
  <2>4. Quiet(t)
    BY <2>2, ReleaseQuiet, Zenon
  <2>5. reservation'[Initial] = reservation[Initial] /\ x # Initial
    BY <1>5, <1>7, InitialFacts, Zenon
  <2>6. InitialAgrees'
    <3>1. CASE initialLock = t
      <4>1. initialLock # NoThread
        BY <3>1, ThreadFacts, Zenon
      <4>2. InitialOwed = 0
        BY <1>1, <1>2, <1>4, <2>5, <3>1, <4>1 DEF InitialOwed
      <4>3. InitialOwed' = 0
        BY <2>2, <3>1, Zenon DEF InitialOwed
      <4> QED
        BY <1>3, <1>6, <2>5, <4>2, <4>3, Zenon DEF InitialAgrees
    <3>2. CASE initialLock # t
      BY <1>3, <1>6, <2>2, <2>5, <3>2, InitialFrame, Zenon
    <3> QED
      BY <3>1, <3>2, Zenon
  <2>7. ASSUME NEW p \in Trackers
        PROVE  SumStep(Children(p), children[p], children'[p], Share, Share')
    <3>1. \A c \in Trackers \ {Root} : c \notin Held(t) /\ c # x => Pending(c)' = Pending(c)
      BY <2>2, Zenon
    <3>2. \A c \in Held(t) : c # Root => Pending(c)' = 0
      BY <2>2, Zenon
    <3> QED
      BY <1>1, <1>2, <1>7, <3>1, <3>2, ReleaseSums, Zenon
  <2> QED
    BY <1>5, <2>2, <2>3, <2>4, <2>6, <2>7, FinishStep, Zenon
<1>8. CASE x # Root
  <2>1. PICK p : p = Parent(x)
    OBVIOUS
  <2>2. /\ p \in Trackers /\ OnPath(x) = {x} \cup OnPath(p) /\ x \notin OnPath(p)
        /\ p \in OnPath(x) /\ p # x
    BY <1>4, <1>8, <2>1, TreeParent, Zenon
  <2>3. p \in OnPath(o.src)
    BY <1>4, <2>2, TreeUp, Zenon
  <2>4. p # o.src
    <3> SUFFICES ASSUME p = o.src
                 PROVE  FALSE
      OBVIOUS
    <3>1. x = o.src
      BY <1>4, <2>2, PathAntisymmetric, Zenon
    <3> QED
      BY <2>2, <3>1, Zenon
  <2>5. PICK q : q = [o EXCEPT !.at = p]
    OBVIOUS
  <2>6. /\ q \in Operation /\ q.pc = "release" /\ q.src = o.src /\ q.dst = o.dst /\ q.at = p
        /\ q.ask = o.ask
    BY <1>4, <2>2, <2>5, MoveOp
  <2>7. lock' = [lock EXCEPT ![x] = t] /\ initialLock' = initialLock
    BY <1>1, <1>2, <1>8, Zenon DEF Release
  <2>8. th' = [th EXCEPT ![t] = q]
    <3>1. th' = [th EXCEPT ![t].at = p]
      BY <1>1, <1>2, <1>8, <2>1, Zenon DEF Release
    <3> QED
      BY <1>1, <1>3, <2>5, <3>1 DEF TypeOK
  <2>9. /\ OnlyThread(t) /\ th'[t] = q /\ Held(t)' = Held(t) \cup {x} /\ x \notin Held(t)
        /\ th' \in [Threads -> Operation] /\ lock' \in [Trackers -> Threads \cup {NoThread}]
        /\ \A c \in Trackers : c \notin Held(t) /\ c # x => Pending(c)' = Pending(c)
        /\ \A c \in Held(t) \cup {x} : c # Root => Pending(c)' = PendingOf(q, c)
    BY <1>3, <1>4, <2>6, <2>7, <2>8, LockStep, Zenon
  <2>10. TypeOK'
    BY <1>3, <1>5, <1>6, <2>7, <2>9, Zenon DEF TypeOK
  <2>11. Quiet(t)
    BY <1>1, <2>6, <2>7, <2>9, ReleaseQuiet, Zenon
  <2>12. Working(t)'
    <3>1. MineOK(t)'
      BY <1>4, <2>6, <2>7, <2>9, Zenon DEF MineOK, Uses
    <3>2. Held(t)' = OnPath(o.src) \ OnPath(p)
      BY <1>4, <2>2, <2>9, Zenon
    <3>3. ReleaseOK(t)'
      BY <1>4, <2>3, <2>4, <2>6, <2>7, <2>9, <3>2, Zenon DEF ReleaseOK
    <3> QED
      BY <2>6, <2>9, <3>1, <3>3, WorkingRelease, Zenon
  <2>13. InitialAgrees'
    <3>1. CASE initialLock # t
      <4>1. Initial # x
        BY <1>4, <3>1, Zenon
      <4>2. reservation'[Initial] = reservation[Initial]
        BY <1>5, <4>1, InitialFacts, Zenon
      <4> QED
        BY <1>3, <1>6, <2>7, <2>9, <3>1, <4>2, InitialFrame, Zenon
    <3>2. CASE initialLock = t
      <4>1. initialLock # NoThread /\ o.src = Initial /\ p # Initial
        BY <1>4, <2>4, <3>2, ThreadFacts, Zenon
      <4>2. InitialOwed' = 0
        BY <2>6, <2>7, <2>9, <3>2, <4>1 DEF InitialOwed
      <4>3. CASE x = Initial
        <5>1. InitialOwed = o.ask
          BY <1>1, <1>2, <1>4, <3>2, <4>1, <4>3 DEF InitialOwed
        <5>2. reservation[Initial] = remaining + o.ask
          BY <1>3, <5>1, Zenon DEF InitialAgrees
        <5>3. reservation'[Initial] = reservation[Initial] - o.ask
          BY <1>5, <4>3, Zenon
        <5>4. remaining \in Nat
          <6>1. remaining \in 0..Claims
            BY <1>3, Zenon DEF TypeOK
          <6> QED
            BY <6>1, NumberFacts, SMT
        <5>5. reservation'[Initial] = remaining + 0
          BY <1>4, <5>2, <5>3, <5>4, SMT
        <5> QED
          BY <1>6, <4>2, <5>5, Zenon DEF InitialAgrees
      <4>4. CASE x # Initial
        <5>1. InitialOwed = 0
          BY <1>1, <1>2, <1>4, <3>2, <4>1, <4>4 DEF InitialOwed
        <5>2. reservation'[Initial] = reservation[Initial]
          BY <1>5, <4>4, InitialFacts, Zenon
        <5> QED
          BY <1>3, <1>6, <4>2, <5>1, <5>2, Zenon DEF InitialAgrees
      <4> QED
        BY <4>3, <4>4, Zenon
    <3> QED
      BY <3>1, <3>2, Zenon
  <2>14. ASSUME NEW e \in Trackers
         PROVE  SumStep(Children(e), children[e], children'[e], Share, Share')
    <3>1. \A c \in Trackers \ {Root} : c \notin Held(t) /\ c # x => Pending(c)' = Pending(c)
      BY <2>9, Zenon
    <3>2. ASSUME NEW c \in Held(t), c # Root
          PROVE  Pending(c)' = 0
      <4>1. c # x /\ c \in OnPath(o.src)
        BY <1>4, <2>9, Zenon
      <4>2. Parent(c) # p
        BY <1>4, <1>8, <2>1, <3>2, <4>1, TreeUnique, Zenon
      <4>3. PendingOf(q, c) = 0
        BY <2>6, <4>2 DEF PendingOf
      <4> QED
        BY <2>9, <3>2, <4>3, Zenon
    <3>3. Pending(x)' = o.ask
      <4>1. PendingOf(q, x) = o.ask
        BY <2>1, <2>6 DEF PendingOf
      <4> QED
        BY <1>8, <2>9, <4>1, Zenon
    <3> QED
      BY <1>1, <1>2, <3>1, <3>2, <3>3, ReleaseSums, Zenon
  <2> QED
    BY <1>5, <2>9, <2>10, <2>11, <2>12, <2>13, <2>14, FinishStep, Zenon
<1> QED
  BY <1>7, <1>8, Zenon
-----------------------------------------------------------------------------
(***************************************************************************)
(* A transfer: the locks.                                                  *)
(***************************************************************************)
LEMMA TakenStep ==
    ASSUME NEW l \in Seq(Trackers), NEW todo, NEW H, Taken(l, todo, H), todo # <<>>
    PROVE  /\ Head(todo) \in Trackers /\ Head(todo) \in ToSet(l)
           /\ Taken(l, Tail(todo), H \cup {Head(todo)})
           /\ Ordered(l) => \A h \in H : Before(h, Head(todo))
<1>1. PICK k \in 0..Len(l) : todo = SubSeq(l, k + 1, Len(l)) /\ H = {l[i] : i \in 1..k}
  BY Zenon DEF Taken
<1>2. Len(l) \in Nat /\ k \in Nat
  OBVIOUS
<1>3. k # Len(l)
  <2> SUFFICES ASSUME k = Len(l)
               PROVE  FALSE
    OBVIOUS
  <2>1. SubSeq(l, Len(l) + 1, Len(l)) = <<>>
    OBVIOUS
  <2> QED
    BY <1>1, <2>1, Zenon
<1>4. k + 1 \in 1..Len(l) /\ k + 1 \in 0..Len(l)
  BY <1>2, <1>3, SMT
<1>5. Head(todo) = l[k + 1] /\ Tail(todo) = SubSeq(l, (k + 1) + 1, Len(l))
  BY <1>1, <1>2, <1>4
<1>6. l[k + 1] \in Trackers
  BY <1>4
<1>7. l[k + 1] \in ToSet(l)
  <2>1. DOMAIN l = 1..Len(l)
    OBVIOUS
  <2> QED
    BY <1>4, <2>1, Zenon DEF ToSet
<1>8. H \cup {l[k + 1]} = {l[i] : i \in 1..(k + 1)}
  <2>1. 1..(k + 1) = (1..k) \cup {k + 1}
    BY <1>2, SMT
  <2>2. ASSUME NEW h
        PROVE  h \in H \cup {l[k + 1]} <=> h \in {l[i] : i \in 1..(k + 1)}
    BY <1>1, <2>1, Zenon
  <2> QED
    BY <2>2, Zenon
<1>9. Taken(l, Tail(todo), H \cup {Head(todo)})
  BY <1>4, <1>5, <1>8, Zenon DEF Taken
<1>10. ASSUME Ordered(l), NEW h \in H
       PROVE  Before(h, l[k + 1])
  <2>1. PICK i \in 1..k : h = l[i]
    BY <1>1, Zenon
  <2>2. i \in 1..Len(l) /\ i < k + 1
    BY <1>2, <1>4, <2>1, SMT
  <2> QED
    BY <1>4, <1>10, <2>1, <2>2, Zenon DEF Ordered
<1> QED
  BY <1>5, <1>6, <1>7, <1>9, <1>10, Zenon

LEMMA TakenAll ==
    ASSUME NEW l \in Seq(Trackers), NEW H, Taken(l, <<>>, H)
    PROVE  H = ToSet(l)
<1>1. PICK k \in 0..Len(l) : <<>> = SubSeq(l, k + 1, Len(l)) /\ H = {l[i] : i \in 1..k}
  BY Zenon DEF Taken
<1>2. Len(l) \in Nat /\ k \in Nat
  OBVIOUS
<1>3. k = Len(l)
  <2> SUFFICES ASSUME k # Len(l)
               PROVE  FALSE
    OBVIOUS
  <2>1. k + 1 \in 1..Len(l)
    BY <1>2, SMT
  <2>2. Len(SubSeq(l, k + 1, Len(l))) = Len(l) - k
    BY <1>2, <2>1
  <2>3. Len(<<>>) = 0
    OBVIOUS
  <2>4. Len(l) - k = 0
    BY <1>1, <2>2, <2>3, Zenon
  <2> QED
    BY <1>2, <2>4, SMT
<1>4. DOMAIN l = 1..Len(l)
  OBVIOUS
<1> QED
  BY <1>1, <1>3, <1>4, Zenon DEF ToSet

LEMMA TransferPlace ==
    ASSUME IInv, NEW t \in Threads, NEW o, o = th[t], o.pc = "transfer"
    PROVE  /\ o \in Operation /\ Transferable(o.src, o.dst) /\ o.bytes <= Unused(o.src)
           /\ Taken(LockOrder(o.src, o.dst), o.todo, Held(t))
           /\ initialLock = t <=> Initial \in {o.src, o.dst}
           /\ Uses(t, o.src) /\ o.src \in Trackers /\ o.dst \in Trackers /\ o.bytes \in Nat
           /\ LockOrder(o.src, o.dst) \in Seq(Trackers) /\ Ordered(LockOrder(o.src, o.dst))
           /\ ToSet(LockOrder(o.src, o.dst)) = Both(o.src, o.dst)
<1>1. TypeOK /\ TransferOK(t) /\ MineOK(t)
  BY Zenon DEF IInv, Working
<1>2. o \in Operation
  BY <1>1, Zenon DEF TypeOK
<1>3. /\ Transferable(o.src, o.dst) /\ o.bytes <= Unused(o.src)
      /\ Taken(LockOrder(o.src, o.dst), o.todo, Held(t))
      /\ (initialLock = t => Initial \in {o.src, o.dst}) /\ (o.dst = Initial => initialLock = t)
  BY <1>1, Zenon DEF TransferOK
<1>4. Uses(t, o.src)
  BY <1>1, Zenon DEF MineOK
<1>5. o.src = Initial => initialLock = t
  BY <1>4, Zenon DEF Uses
<1>6. o.src \in Trackers /\ o.dst \in Trackers /\ o.bytes \in Nat
  BY <1>2, OpFields
<1>7. /\ LockOrder(o.src, o.dst) \in Seq(Trackers) /\ Ordered(LockOrder(o.src, o.dst))
      /\ ToSet(LockOrder(o.src, o.dst)) = Both(o.src, o.dst)
  BY <1>6, LockOrderIs, Zenon
<1> QED
  BY <1>2, <1>3, <1>4, <1>5, <1>6, <1>7, Zenon

LEMMA LockNextInductive ==
    ASSUME IInv, NEW t \in Threads, LockNext(t)
    PROVE  IInv'
<1>1. PICK o : o = th[t]
  OBVIOUS
<1>2. TypeOK /\ InitialAgrees /\ ClaimOK(t) /\ \A s \in Threads : Working(s)
  BY Zenon DEF IInv, Working
<1>3. PICK x : x = Head(o.todo)
  OBVIOUS
<1>4. /\ o.pc = "transfer" /\ o.todo # <<>> /\ lock[x] = NoThread
      /\ lock' = [lock EXCEPT ![x] = t] /\ initialLock' = initialLock
      /\ reservation' = reservation /\ used' = used /\ children' = children /\ mem' = mem
      /\ other' = other /\ remaining' = remaining
  BY <1>1, <1>3, Zenon DEF LockNext
<1>5. /\ o \in Operation /\ Transferable(o.src, o.dst) /\ o.bytes <= Unused(o.src)
      /\ Taken(LockOrder(o.src, o.dst), o.todo, Held(t))
      /\ (initialLock = t <=> Initial \in {o.src, o.dst})
      /\ Uses(t, o.src) /\ o.src \in Trackers /\ o.dst \in Trackers
      /\ LockOrder(o.src, o.dst) \in Seq(Trackers)
  BY <1>1, <1>4, TransferPlace, Zenon
<1>6. x \in Trackers /\ Taken(LockOrder(o.src, o.dst), Tail(o.todo), Held(t) \cup {x})
  BY <1>3, <1>4, <1>5, TakenStep, Zenon
<1>7. PICK q : q = [o EXCEPT !.todo = Tail(@)]
  OBVIOUS
<1>8. /\ q \in Operation /\ q.pc = "transfer" /\ q.src = o.src /\ q.dst = o.dst
      /\ q.bytes = o.bytes /\ q.todo = Tail(o.todo)
  BY <1>4, <1>5, <1>7, LockedOp
<1>9. th' = [th EXCEPT ![t] = q]
  <2>1. th' = [th EXCEPT ![t].todo = Tail(@)]
    BY Zenon DEF LockNext
  <2> QED
    BY <1>1, <1>2, <1>7, <2>1 DEF TypeOK
<1>10. /\ OnlyThread(t) /\ th'[t] = q /\ Held(t)' = Held(t) \cup {x} /\ x \notin Held(t)
       /\ th' \in [Threads -> Operation] /\ lock' \in [Trackers -> Threads \cup {NoThread}]
       /\ Pending(x) = 0
       /\ \A c \in Trackers : c \notin Held(t) /\ c # x => Pending(c)' = Pending(c)
       /\ \A c \in Held(t) \cup {x} : c # Root => Pending(c)' = PendingOf(q, c)
  BY <1>2, <1>4, <1>6, <1>8, <1>9, LockStep, Zenon
<1>11. TypeOK'
  BY <1>2, <1>4, <1>10, Zenon DEF TypeOK
<1>12. ASSUME NEW c \in Trackers \ {Root}
       PROVE  Pending(c)' = Pending(c)
  <2>1. PendingOf(o, c) = 0
    BY <1>4 DEF PendingOf
  <2>2. PendingOf(q, c) = 0
    BY <1>8 DEF PendingOf
  <2>3. CASE c \in Held(t) \cup {x}
    BY <1>1, <1>10, <2>1, <2>2, <2>3, PendingMine, Zenon
  <2>4. CASE c \notin Held(t) \cup {x}
    BY <1>10, <2>4, Zenon
  <2> QED
    BY <2>3, <2>4, Zenon
<1>13. Working(t)'
  <2>1. MineOK(t)'
    BY <1>4, <1>5, <1>8, <1>10, Zenon DEF MineOK, Uses
  <2>2. PICK u : u = Unused(o.src)
    OBVIOUS
  <2>3. Unused(o.src)' = u /\ o.bytes <= u
    BY <1>4, <1>5, <2>2, Zenon DEF Unused
  <2>4. TransferOK(t)'
    BY <1>4, <1>5, <1>6, <1>8, <1>10, <2>3, Zenon DEF TransferOK
  <2>5. ClaimOK(t)'
    <3> SUFFICES ASSUME o.src = Initial
                 PROVE  ClaimOK(t)'
      BY <1>8, <1>10, Zenon DEF ClaimOK
    <3>1. /\ Query \in OnPath(o.dst) /\ Owner[o.dst] = t
          /\ reservation[o.dst] = 0 /\ o.bytes <= Limit[o.dst]
          /\ \A s \in Threads \ {t} : th[s].dst # o.dst
      BY <1>1, <1>2, <1>4, Zenon DEF ClaimOK
    <3>2. \A s \in Threads \ {t} : th'[s].dst # o.dst
      BY <1>10, <3>1, Zenon DEF OnlyThread
    <3> QED
      BY <1>4, <1>8, <1>10, <3>1, <3>2, Zenon DEF ClaimOK
  <2> QED
    BY <1>8, <1>10, <2>1, <2>4, <2>5, WorkingTransfer, Zenon
<1>14. InitialAgrees'
  <2>1. CASE initialLock = t
    <3>1. t # NoThread
      BY ThreadFacts, Zenon
    <3>2. InitialOwed = IF o.src = Initial THEN o.bytes ELSE 0
      BY <1>1, <1>4, <2>1, <3>1 DEF InitialOwed
    <3>3. InitialOwed' = IF o.src = Initial THEN o.bytes ELSE 0
      BY <1>4, <1>8, <1>10, <2>1, <3>1 DEF InitialOwed
    <3> QED
      BY <1>2, <1>4, <3>2, <3>3, Zenon DEF InitialAgrees
  <2>2. CASE initialLock # t
    BY <1>2, <1>4, <1>10, <2>2, InitialFrame, Zenon
  <2> QED
    BY <2>1, <2>2, Zenon
<1>15. th'[t].dst \in {th[t].dst, Root}
  BY <1>1, <1>8, <1>10, Zenon
<1> QED
  BY <1>4, <1>10, <1>11, <1>12, <1>13, <1>14, <1>15, OnlyLocks, Zenon
-----------------------------------------------------------------------------
(***************************************************************************)
(* What a tracker has, its ancestors have too.                             *)
(***************************************************************************)
LEMMA PendingNat ==
    ASSUME TypeOK, NEW c \in Trackers, c \notin Subs
    PROVE  Pending(c) \in Nat
<1>1. CASE c = Root \/ lock[c] = NoThread
  <2>1. Pending(c) = 0
    BY <1>1, Zenon DEF Pending
  <2> QED
    BY <2>1
<1>2. CASE c # Root /\ lock[c] # NoThread
  <2>1. PICK s \in Threads : s = lock[c]
    BY <1>2, Zenon DEF TypeOK
  <2>2. PICK o \in Operation : o = th[s]
    BY <2>1 DEF TypeOK
  <2>3. o.bytes \in Nat /\ o.ask \in Nat /\ o.need[c] \in Nat
    BY OpFields
  <2>4. Pending(c) = PendingOf(o, c)
    BY <1>2, <2>1, <2>2, Zenon DEF Pending
  <2>5. PendingOf(o, c) \in {o.need[c], o.ask, o.bytes, 0}
    BY DEF PendingOf
  <2> QED
    BY <2>3, <2>4, <2>5, SMT
<1> QED
  BY <1>1, <1>2, Zenon

LEMMA ShareCovers ==
    ASSUME IInv, NEW f, f = Share, NEW c \in Trackers, c \notin Subs
    PROVE  f \in [Trackers -> Nat] /\ reservation[c] <= f[c]
<1>1. TypeOK /\ \A s \in Threads : Working(s)
  BY Zenon DEF IInv
<1>2. f \in [Trackers -> Nat]
  BY <1>1, ShareType, Zenon
<1>3. PICK n \in Nat : n = Pending(c)
  BY <1>1, PendingNat, Zenon
<1>4. reservation[c] \in Nat
  BY <1>1 DEF TypeOK
<1>5. f[c] = reservation[c] + n
  BY <1>3, ShareIs, Zenon
<1>6. reservation[c] <= f[c]
  BY <1>4, <1>5, SMT
<1> QED
  BY <1>2, <1>6, Zenon

LEMMA ParentCovers ==
    ASSUME IInv, NEW v \in Trackers, v # Root, v \notin Subs, NEW p, p = Parent(v)
    PROVE  /\ reservation[v] <= children[p] /\ children[p] <= reservation[p]
           /\ reservation[v] <= reservation[p]
<1>1. TypeOK /\ Bounds /\ SumsAgree
  BY Zenon DEF IInv
<1>2. PICK f : f = Share
  OBVIOUS
<1>3. f \in [Trackers -> Nat] /\ reservation[v] <= f[v]
  BY <1>2, ShareCovers, Zenon
<1>4. p \in Trackers
  BY TreeParent, Zenon
<1>5. v \in Children(p) /\ Children(p) \in SUBSET Trackers
  BY Zenon DEF Children
<1>6. f[v] <= Total(f, Children(p)) /\ children[p] = Total(f, Children(p))
  BY <1>1, <1>2, <1>3, <1>4, <1>5, TotalAtLeast, Zenon DEF SumsAgree
<1>7. /\ reservation[v] \in Nat /\ f[v] \in Nat /\ children[p] \in Nat /\ used[p] \in Nat
      /\ reservation[p] \in Nat
  BY <1>1, <1>3, <1>4 DEF TypeOK
<1>8. used[p] + children[p] <= reservation[p]
  BY <1>1, <1>4, Zenon DEF Bounds
<1>9. f[v] <= children[p]
  BY <1>6, Zenon
<1> QED
  BY <1>3, <1>7, <1>8, <1>9, SMT

LEMMA ParentCoversTwo ==
    ASSUME IInv, NEW v \in Trackers, v # Root, v \notin Subs,
           NEW w \in Trackers, w # Root, w \notin Subs, v # w, Parent(v) = Parent(w)
    PROVE  reservation[v] + reservation[w] <= children[Parent(v)]
<1>1. TypeOK /\ SumsAgree
  BY Zenon DEF IInv
<1>2. PICK f : f = Share
  OBVIOUS
<1>3. f \in [Trackers -> Nat] /\ reservation[v] <= f[v] /\ reservation[w] <= f[w]
  BY <1>2, ShareCovers, Zenon
<1>4. PICK p \in Trackers : p = Parent(v)
  BY TreeParent, Zenon
<1>5. v \in Children(p) /\ w \in Children(p) /\ Children(p) \in SUBSET Trackers
  BY <1>4, Zenon DEF Children
<1>6. f[v] + f[w] <= Total(f, Children(p)) /\ children[p] = Total(f, Children(p))
  BY <1>1, <1>2, <1>3, <1>5, TotalAtLeast, Zenon DEF SumsAgree
<1>7. /\ reservation[v] \in Nat /\ f[v] \in Nat /\ reservation[w] \in Nat /\ f[w] \in Nat
      /\ children[p] \in Nat
  BY <1>1, <1>3 DEF TypeOK
<1>8. f[v] + f[w] <= children[p]
  BY <1>6, Zenon
<1>9. reservation[v] + reservation[w] <= children[p]
  BY <1>3, <1>7, <1>8, SMT
<1> QED
  BY <1>4, <1>9, Zenon

LEMMA PathCovers ==
    ASSUME IInv, NEW x \in TopClients \cup {Initial}, NEW z \in OnPath(x), NEW w \in OnPath(z)
    PROVE  reservation[z] <= reservation[w]
<1>1. TypeOK
  BY Zenon DEF IInv
<1>2. /\ x \in Trackers /\ z \in Trackers /\ OnPath(z) \subseteq OnPath(x)
      /\ \A v \in OnPath(x) : v \in Trackers
  BY TopFacts, TreeUp, Zenon
<1>3. ASSUME NEW v \in OnPath(x)
      PROVE  v \notin Subs
  <2>1. CASE v = x
    BY <2>1, TopFacts, Zenon
  <2>2. CASE v # x
    <3>1. v \notin Owned
      BY <2>2, TopFacts, Zenon
    <3> QED
      BY <3>1, SubFacts, Zenon
  <2> QED
    BY <2>1, <2>2, Zenon
<1>4. \A v \in Trackers : reservation[v] \in Nat
  BY <1>1 DEF TypeOK
<1> DEFINE Short(v) == ~(reservation[z] <= reservation[v])
           Up(v) == Depth(z) - Depth(v)
           N == {Up(v) : v \in {u \in OnPath(z) : Short(u)}}
<1> SUFFICES ASSUME Short(w)
             PROVE  FALSE
  OBVIOUS
<1>5. ASSUME NEW v \in OnPath(z)
      PROVE  Up(v) \in Nat /\ Depth(v) \in Nat /\ Depth(z) \in Nat
  <2>1. v \in Trackers /\ Depth(v) <= Depth(z)
    BY <1>2, TreeUp, Zenon
  <2>2. Depth(v) \in Nat /\ Depth(z) \in Nat
    BY <1>2, <2>1, TreeSelf, Zenon
  <2> QED
    BY <2>1, <2>2, SMT
<1>6. N \in SUBSET Nat
  BY <1>5
<1>7. N # {}
  OBVIOUS
<1>8. PICK n \in N : \A m \in N : n <= m
  <2> HIDE DEF N
  <2> QED
    BY <1>6, <1>7, LeastNumber
<1>9. PICK u \in OnPath(z) : Short(u) /\ n = Up(u)
  OBVIOUS
<1>10. u \in Trackers
  BY <1>2, <1>9, Zenon
<1>11. u # z
  <2> SUFFICES ASSUME u = z
               PROVE  FALSE
    OBVIOUS
  <2>1. reservation[z] \in Nat /\ ~(reservation[z] <= reservation[z])
    BY <1>2, <1>4, <1>9, Zenon
  <2> QED
    BY <2>1, SMT
<1>12. PICK v : v = Below(u, z)
  OBVIOUS
<1>13. v \in Children(u) /\ v \in OnPath(z)
  BY <1>2, <1>9, <1>11, <1>12, TreeBelow, Zenon
<1>14. v \in Trackers /\ v # Root /\ Parent(v) = u
  BY <1>13, Zenon DEF Children
<1>15. Depth(v) = Depth(u) + 1
  BY <1>14, TreeParent, Zenon
<1>16. ~Short(v)
  <2> SUFFICES ASSUME Short(v)
               PROVE  FALSE
    OBVIOUS
  <2>1. Up(v) \in N
    BY <1>13
  <2>2. n <= Up(v)
    BY <1>8, <2>1, Zenon
  <2>3. /\ Depth(u) \in Nat /\ Depth(v) \in Nat /\ Depth(z) \in Nat
        /\ Depth(z) - Depth(u) <= Depth(z) - Depth(v)
    BY <1>5, <1>9, <1>13, <2>2, Zenon
  <2> QED
    BY <1>15, <2>3, SMT
<1>17. reservation[v] <= reservation[u]
  <2>1. v \notin Subs
    BY <1>2, <1>3, <1>13, Zenon
  <2> QED
    BY <1>14, <2>1, ParentCovers, Zenon
<1>18. /\ reservation[z] \in Nat /\ reservation[v] \in Nat /\ reservation[u] \in Nat
       /\ reservation[z] <= reservation[v]
  BY <1>2, <1>4, <1>10, <1>14, <1>16, Zenon
<1>19. reservation[z] <= reservation[u]
  BY <1>17, <1>18, SMT
<1> QED
  BY <1>9, <1>19, Zenon

LEMMA InstanceLimits ==
    ASSUME NEW y \in TopClients, NEW z \in OnPath(y), z # y, Query \in OnPath(z), Query # z
    PROVE  Limit[Query] <= Limit[z]
<1>1. y \in Clients \ Subs /\ z \in Ancestors(y) /\ Query \in Ancestors(z)
  BY Zenon DEF TopClients, Ancestors
<1> QED
  BY <1>1, TreeOfReservations, Zenon

\* A claim fits: what the client's instance gets, the query has, for it has the initial
\* reservations.
LEMMA ClaimFits ==
    ASSUME IInv, NEW t \in Threads, NEW o, o = th[t], o.pc = "transfer", o.src = Initial,
           NEW z \in OnPath(o.dst) \ OnPath(Initial)
    PROVE  reservation[z] + o.bytes <= Limit[z]
<1>1. PICK y : y = o.dst
  OBVIOUS
<1>2. PICK n : n = o.bytes
  OBVIOUS
<1>3. TypeOK /\ Bounds /\ Passed /\ ClaimOK(t)
  BY Zenon DEF IInv, Working
<1>4. Transferable(Initial, y) /\ n <= Unused(Initial) /\ n \in Nat /\ y \in Trackers
  BY <1>1, <1>2, TransferPlace, Zenon
<1>5. /\ Query \in OnPath(y) /\ reservation[y] = 0 /\ n <= Limit[y]
  BY <1>1, <1>2, <1>3, Zenon DEF ClaimOK
<1>6. y # Initial /\ y \notin Subs /\ y \in Clients /\ y \in TopClients
  <2>1. y # Initial /\ y \in Owned /\ (ToSub(Initial, y) <=> y \in Subs)
    BY <1>4, TransferableFacts, Zenon
  <2>2. ~ToSub(Initial, y)
    BY ToSubFacts, Zenon
  <2> QED
    BY <2>1, <2>2, Zenon DEF Owned, TopClients
<1>7. CASE z = y
  <2>1. 0 + n = n
    BY <1>4, SMT
  <2> QED
    BY <1>2, <1>5, <1>7, <2>1, Zenon
<1>8. CASE z # y
  <2>1. z \in OnPath(y) /\ z \notin OnPath(Initial) /\ z \in Trackers
    BY <1>1, <1>4, TreeUp, Zenon
  <2>2. /\ Query \in Trackers /\ Initial \in Trackers /\ Initial # Root /\ Query \in OnPath(Initial)
        /\ Initial \notin Subs /\ Query # Initial
    BY InitialFacts, SubFacts, TreeParent, Zenon DEF Query
  <2>3. OnPath(Query) \subseteq OnPath(Initial)
    BY <2>2, TreeUp, Zenon
  <2>4. Query \in OnPath(z) /\ Query # z
    <3>1. Query # z
      BY <2>1, <2>2, Zenon
    <3>2. z \notin OnPath(Query)
      BY <2>1, <2>3, Zenon
    <3>3. Depth(z) \in Nat /\ Depth(Query) \in Nat
      BY <2>1, <2>2, TreeSelf, Zenon
    <3>4. ~(Depth(z) <= Depth(Query))
      BY <1>4, <1>5, <2>1, <3>2, TreeLinear, Zenon
    <3>5. Depth(Query) <= Depth(z)
      BY <3>3, <3>4, SMT
    <3> QED
      BY <1>4, <1>5, <2>1, <3>1, <3>5, TreeLinear, Zenon
  <2>5. Limit[Query] <= Limit[z]
    BY <1>6, <1>8, <2>1, <2>4, InstanceLimits, Zenon
  <2>6. PICK w : w = Below(Query, z)
    OBVIOUS
  <2>7. w \in Children(Query) /\ w \in OnPath(z)
    BY <2>1, <2>4, <2>6, TreeBelow, Zenon
  <2>8. w \in Trackers /\ w # Root /\ Parent(w) = Query
    BY <2>7, Zenon DEF Children
  <2>9. w \in OnPath(y)
    BY <1>4, <2>1, <2>7, TreeUp, Zenon
  <2>10. w # Initial /\ w \notin Subs
    <3>1. w # y => w \notin Owned
      BY <1>6, <2>9, TopFacts, Zenon
    <3> QED
      BY <1>6, <3>1, SubFacts, Zenon DEF Owned
  <2>11. reservation[w] + reservation[Initial] <= children[Query]
    <3>1. Parent(w) = Parent(Initial)
      BY <2>8, Zenon DEF Query
    <3>2. reservation[w] + reservation[Initial] <= children[Parent(w)]
      BY <2>2, <2>8, <2>10, <3>1, ParentCoversTwo, Zenon
    <3> QED
      BY <2>8, <3>2, Zenon
  <2>12. reservation[z] <= reservation[w]
    BY <1>6, <2>1, <2>7, PathCovers, Zenon
  <2>13. used[Query] + children[Query] <= reservation[Query] /\ reservation[Query] <= Limit[Query]
    BY <1>3, <2>2, Zenon DEF Bounds
  <2>14. n <= reservation[Initial] - used[Initial] - children[Initial]
    BY <1>4, Zenon DEF Unused
  <2>15. /\ reservation[Query] \in Nat /\ used[Query] \in Nat /\ children[Query] \in Nat
         /\ reservation[Initial] \in Nat /\ used[Initial] \in Nat /\ children[Initial] \in Nat
         /\ reservation[z] \in Nat /\ reservation[w] \in Nat
         /\ Limit[z] \in Nat /\ Limit[Query] \in Nat
    BY <1>3, <2>1, <2>2, <2>8, NumberFacts DEF TypeOK
  <2>16. reservation[z] + n <= Limit[z]
    BY <1>4, <2>5, <2>11, <2>12, <2>13, <2>14, <2>15, SMT
  <2> QED
    BY <1>2, <2>16, Zenon
<1> QED
  BY <1>7, <1>8, Zenon
-----------------------------------------------------------------------------
(***************************************************************************)
(* A transfer: the reservations.                                           *)
(***************************************************************************)
\* S gives and T gets n bytes.
Change(z, S, T, n) == IF z \in S THEN 0 - n ELSE IF z \in T THEN n ELSE 0

Moves(S, T, x, y, n) ==
    /\ reservation' = [z \in Trackers |-> reservation[z] + Change(z, S, T, n)]
    /\ mem' = [z \in Linked |-> mem[z] + Change(z, S, T, n)]
    /\ children' = [z \in Trackers |->
                      IF z \in {x, y} THEN children[z] ELSE children[z] + Change(z, S, T, n)]

\* Tracker by tracker.
Moved(S, T, x, y, n) ==
    /\ \A z \in S : reservation'[z] = reservation[z] - n
    /\ \A z \in T : reservation'[z] = reservation[z] + n
    /\ \A z \in Trackers : z \notin S /\ z \notin T => reservation'[z] = reservation[z]
    /\ \A z \in S : z # x => children'[z] = children[z] - n
    /\ \A z \in T : z # y => children'[z] = children[z] + n
    /\ \A z \in Trackers : z \notin S /\ z \notin T => children'[z] = children[z]
    /\ children'[x] = children[x] /\ children'[y] = children[y]

\* The two outcomes of Apply().
Fits(T, n) == \A z \in T : ~(reservation[z] + n > Limit[z])

Refused(t, T, n) ==
    /\ ~Fits(T, n) /\ Done(t)
    /\ reservation' = reservation /\ children' = children /\ mem' = mem

Accepted(t, S, T, x, y, n) ==
    /\ Fits(T, n) /\ Moves(S, T, x, y, n) /\ th' = [th EXCEPT ![t].pc = "settle"]
    /\ lock' = lock /\ initialLock' = initialLock

\* The same with the function of Apply().
Delta(x, y, n) ==
    [z \in Trackers |-> IF z \in ToSet(PathBelow(x, Common(x, y))) THEN 0 - n
                        ELSE IF z \in ToSet(PathBelow(y, Common(x, y))) THEN n ELSE 0]

Adds(a, x, y) ==
    /\ reservation' = [z \in Trackers |-> reservation[z] + a[z]]
    /\ mem' = [z \in Linked |-> mem[z] + a[z]]
    /\ children' = [z \in Trackers |->
                      IF z \in {x, y} THEN children[z] ELSE children[z] + a[z]]

LEMMA ApplyIs ==
    ASSUME IInv, NEW t \in Threads, Apply(t), NEW o, o = th[t],
           NEW x, x = o.src, NEW y, y = o.dst,
           NEW S, S = OnPath(x) \ OnPath(y), NEW T, T = OnPath(y) \ OnPath(x)
    PROVE  Refused(t, T, o.bytes) \/ Accepted(t, S, T, x, y, o.bytes)
<1>1. o.pc = "transfer"
  BY Zenon DEF Apply
<1>2. x \in Trackers /\ y \in Trackers
  BY <1>1, TransferPlace, Zenon
<1>4. ToSet(PathBelow(x, Common(x, y))) = S /\ ToSet(PathBelow(y, Common(x, y))) = T
  BY <1>2, Sides, Zenon
<1>5. \/ /\ \E z \in T : reservation[z] + o.bytes > Limit[z]
         /\ Done(t) /\ reservation' = reservation /\ children' = children /\ mem' = mem
      \/ /\ \A z \in T : ~(reservation[z] + o.bytes > Limit[z])
         /\ Moves(S, T, x, y, o.bytes) /\ th' = [th EXCEPT ![t].pc = "settle"]
         /\ lock' = lock /\ initialLock' = initialLock
  <2>2. PICK a : a = Delta(x, y, o.bytes)
    OBVIOUS
  <2>3. \A z \in Trackers : a[z] = Change(z, S, T, o.bytes)
    BY <1>4, <2>2, Zenon DEF Change, Delta
  <2>4. \/ /\ \E z \in ToSet(PathBelow(y, Common(x, y))) : reservation[z] + o.bytes > Limit[z]
           /\ Done(t) /\ reservation' = reservation /\ children' = children /\ mem' = mem
        \/ /\ ~\E z \in ToSet(PathBelow(y, Common(x, y))) : reservation[z] + o.bytes > Limit[z]
           /\ Adds(a, x, y) /\ th' = [th EXCEPT ![t].pc = "settle"]
           /\ lock' = lock /\ initialLock' = initialLock
    <3>1. \/ /\ \E z \in ToSet(PathBelow(th[t].dst, Common(th[t].src, th[t].dst))) :
                  reservation[z] + th[t].bytes > Limit[z]
             /\ Done(t) /\ reservation' = reservation /\ children' = children /\ mem' = mem
          \/ /\ ~\E z \in ToSet(PathBelow(th[t].dst, Common(th[t].src, th[t].dst))) :
                   reservation[z] + th[t].bytes > Limit[z]
             /\ Adds(Delta(th[t].src, th[t].dst, th[t].bytes), th[t].src, th[t].dst)
             /\ th' = [th EXCEPT ![t].pc = "settle"] /\ lock' = lock /\ initialLock' = initialLock
      BY Zenon DEF Apply, Adds, Delta
    <3> QED
      BY <2>2, <3>1, Zenon
  <2>5. Adds(a, x, y) => Moves(S, T, x, y, o.bytes)
    <3>1. [z \in Trackers |-> reservation[z] + a[z]]
            = [z \in Trackers |-> reservation[z] + Change(z, S, T, o.bytes)]
      BY <2>3, Zenon
    <3>2. [z \in Linked |-> mem[z] + a[z]] = [z \in Linked |-> mem[z] + Change(z, S, T, o.bytes)]
      BY <2>3, LinkedFacts, Zenon
    <3>3. [z \in Trackers |-> IF z \in {x, y} THEN children[z] ELSE children[z] + a[z]]
            = [z \in Trackers |-> IF z \in {x, y} THEN children[z]
                                  ELSE children[z] + Change(z, S, T, o.bytes)]
      BY <2>3, Zenon
    <3> QED
      BY <3>1, <3>2, <3>3, Zenon DEF Moves, Adds
  <2> QED
    BY <1>4, <2>4, <2>5, Zenon
<1> QED
  BY <1>5, Zenon DEF Refused, Accepted, Fits

\* Of the trackers on the two paths only the ends have reservations of their own.
LEMMA SidesFacts ==
    ASSUME NEW x, NEW y, Transferable(x, y),
           NEW S, S = OnPath(x) \ OnPath(y), NEW T, T = OnPath(y) \ OnPath(x)
    PROVE  /\ S \subseteq Trackers /\ T \subseteq Trackers /\ S \cap T = {}
           /\ x \notin T /\ y \notin S /\ Root \notin S /\ Root \notin T
           /\ \A z \in S : z # x => z \notin Owned
           /\ \A z \in T : z # y => z \notin Owned
           /\ x \notin Subs /\ y \notin Subs => Across(x, y)
<1>1. x \in Trackers /\ y \in Trackers
  BY TransferableFacts, Zenon
<1>2. /\ x \in OnPath(x) /\ y \in OnPath(y) /\ Root \in OnPath(x) /\ Root \in OnPath(y)
      /\ OnPath(x) \subseteq Trackers /\ OnPath(y) \subseteq Trackers
  BY <1>1, TreeSelf, Zenon
<1>3. /\ S \subseteq Trackers /\ T \subseteq Trackers /\ S \cap T = {}
      /\ x \notin T /\ y \notin S /\ Root \notin S /\ Root \notin T
  BY <1>2, Zenon
<1>4. CASE ToParent(x, y)
  <2>1. S = {x} /\ T = {} /\ x \in Subs
    BY <1>4, ToParentFacts, Zenon
  <2> QED
    BY <1>3, <2>1, Zenon
<1>5. CASE ToSub(x, y)
  <2>1. S = {} /\ T = {y} /\ y \in Subs
    BY <1>5, ToSubFacts, Zenon
  <2> QED
    BY <1>3, <2>1, Zenon
<1>6. CASE Across(x, y)
  <2>1. /\ \A z \in OnPath(x) : z # x => z \notin Owned
        /\ \A z \in OnPath(y) : z # y => z \notin Owned
    BY <1>6, AcrossFacts, Zenon
  <2> QED
    BY <1>3, <1>6, <2>1, Zenon
<1> QED
  BY <1>4, <1>5, <1>6, Zenon DEF Transferable

LEMMA SourceCovers ==
    ASSUME IInv, NEW t \in Threads, NEW o, o = th[t], o.pc = "transfer",
           NEW z \in OnPath(o.src) \ OnPath(o.dst)
    PROVE  o.bytes <= reservation[z]
<1>1. PICK x : x = o.src
  OBVIOUS
<1>2. /\ Transferable(x, o.dst) /\ o.bytes \in Nat /\ o.bytes <= Unused(x)
      /\ x \in Trackers
  BY <1>1, TransferPlace, Zenon
<1>3. TypeOK
  BY Zenon DEF IInv
<1>4. z \in Trackers
  BY <1>1, <1>2, TreeUp, Zenon
<1>5. /\ reservation[x] \in Nat /\ used[x] \in Nat /\ children[x] \in Nat
      /\ reservation[z] \in Nat
  BY <1>2, <1>3, <1>4 DEF TypeOK
<1>6. o.bytes <= reservation[x] - used[x] - children[x]
  BY <1>2, Zenon DEF Unused
<1>7. o.bytes <= reservation[x]
  BY <1>2, <1>5, <1>6, SMT
<1>8. CASE z = x
  BY <1>7, <1>8, Zenon
<1>9. CASE z # x
  <2>1. Across(x, o.dst)
    <3>1. ~ToParent(x, o.dst)
      <4> SUFFICES ASSUME ToParent(x, o.dst)
                   PROVE  FALSE
        OBVIOUS
      <4>1. OnPath(x) \ OnPath(o.dst) = {x}
        BY ToParentFacts, Zenon
      <4> QED
        BY <1>1, <1>9, <4>1, Zenon
    <3>2. ~ToSub(x, o.dst)
      <4> SUFFICES ASSUME ToSub(x, o.dst)
                   PROVE  FALSE
        OBVIOUS
      <4>1. OnPath(x) \ OnPath(o.dst) = {}
        BY ToSubFacts, Zenon
      <4> QED
        BY <1>1, <4>1, Zenon
    <3> QED
      BY <1>2, <3>1, <3>2, Zenon DEF Transferable
  <2>2. x \in TopClients \cup {Initial}
    BY <2>1, Zenon DEF Across
  <2>3. x \in OnPath(x) /\ z \in OnPath(x)
    BY <1>1, <1>2, TreeSelf, Zenon
  <2>4. reservation[x] <= reservation[z]
    BY <2>2, <2>3, PathCovers, Zenon
  <2> QED
    BY <1>2, <1>5, <1>7, <2>4, SMT
<1> QED
  BY <1>8, <1>9, Zenon

LEMMA MovesNumbers ==
    ASSUME IInv, NEW t \in Threads, NEW o, o = th[t], o.pc = "transfer",
           NEW x, x = o.src, NEW y, y = o.dst, NEW n, n = o.bytes,
           NEW S, S = OnPath(x) \ OnPath(y), NEW T, T = OnPath(y) \ OnPath(x),
           Fits(T, n), Moves(S, T, x, y, n), used' = used
    PROVE  /\ reservation' \in [Trackers -> Nat] /\ mem' \in [Linked -> Nat]
           /\ children' \in [Trackers -> Nat] /\ MemAgrees' /\ Bounds' /\ Passed'
           /\ Moved(S, T, x, y, n)
<1>1. TypeOK /\ Bounds /\ MemAgrees /\ Passed
  BY Zenon DEF IInv
<1>2. /\ Transferable(x, y) /\ n \in Nat /\ n <= Unused(x) /\ x \in Trackers /\ y \in Trackers
  BY TransferPlace, Zenon
<1>3. /\ S \subseteq Trackers /\ T \subseteq Trackers /\ S \cap T = {}
      /\ x \notin T /\ y \notin S /\ Root \notin S /\ Root \notin T
      /\ \A z \in S : z # x => z \notin Owned
      /\ \A z \in T : z # y => z \notin Owned
  BY <1>2, SidesFacts
<1>4. x \in Owned /\ y \in Owned
  BY <1>2, TransferableFacts, Zenon
<1>5. \A z \in Trackers : /\ reservation[z] \in Nat /\ children[z] \in Nat /\ used[z] \in Nat
                          /\ Limit[z] \in Nat
  BY <1>1, NumberFacts DEF TypeOK
<1>6. \A z \in Trackers : reservation'[z] = reservation[z] + Change(z, S, T, n)
  BY Zenon DEF Moves
<1>7. \A z \in Trackers :
         children'[z] = IF z \in {x, y} THEN children[z] ELSE children[z] + Change(z, S, T, n)
  BY Zenon DEF Moves
\* Tracker by tracker.
<1>8. ASSUME NEW z \in S
      PROVE  /\ reservation'[z] = reservation[z] - n /\ reservation'[z] \in Nat
             /\ z # x => children'[z] = children[z] - n /\ children'[z] = reservation'[z]
             /\ z = x => children'[z] = children[z]
             /\ children'[z] \in Nat
             /\ reservation'[z] <= Limit[z] /\ used'[z] + children'[z] <= reservation'[z]
  <2>1. z \in Trackers /\ Change(z, S, T, n) = 0 - n
    BY <1>3, Zenon DEF Change
  <2>2. n <= reservation[z]
    BY SourceCovers, Zenon
  <2>3. /\ reservation[z] \in Nat /\ children[z] \in Nat /\ used[z] \in Nat /\ Limit[z] \in Nat
        /\ reservation[z] <= Limit[z] /\ used[z] + children[z] <= reservation[z]
    BY <1>1, <1>5, <2>1, Zenon DEF Bounds
  <2>4. reservation'[z] = reservation[z] + (0 - n)
    BY <1>6, <2>1, Zenon
  <2>5. reservation'[z] = reservation[z] - n /\ reservation'[z] \in Nat /\ reservation'[z] <= Limit[z]
    BY <1>2, <2>2, <2>3, <2>4, SMT
  <2>6. CASE z = x
    <3>1. children'[z] = children[z]
      BY <1>7, <2>1, <2>6, Zenon
    <3>2. n <= reservation[z] - used[z] - children[z]
      BY <1>2, <2>6, Zenon DEF Unused
    <3>3. used[z] + children[z] <= reservation'[z]
      BY <1>2, <2>3, <2>5, <3>2, SMT
    <3> QED
      BY <2>3, <2>5, <2>6, <3>1, <3>3, Zenon
  <2>7. CASE z # x
    <3>1. children'[z] = children[z] + (0 - n)
      BY <1>3, <1>7, <2>1, <2>7, Zenon
    <3>2. reservation[z] = children[z] /\ used[z] = 0
      BY <1>1, <1>3, <2>1, <2>7, Zenon DEF Passed, Owned, TopClients
    <3>3. children'[z] = reservation'[z] /\ children'[z] = children[z] - n
      BY <1>2, <2>3, <2>4, <3>1, <3>2, SMT
    <3>4. 0 + children'[z] <= reservation'[z]
      BY <2>5, <3>3, SMT
    <3> QED
      BY <2>5, <2>7, <3>2, <3>3, <3>4, Zenon
  <2> QED
    BY <2>6, <2>7, Zenon
<1>9. ASSUME NEW z \in T
      PROVE  /\ reservation'[z] = reservation[z] + n /\ reservation'[z] \in Nat
             /\ z # y => children'[z] = children[z] + n /\ children'[z] = reservation'[z]
             /\ z = y => children'[z] = children[z]
             /\ children'[z] \in Nat
             /\ reservation'[z] <= Limit[z] /\ used'[z] + children'[z] <= reservation'[z]
  <2>1. z \in Trackers /\ Change(z, S, T, n) = n
    BY <1>3, Zenon DEF Change
  <2>2. ~(reservation[z] + n > Limit[z])
    BY Zenon DEF Fits
  <2>3. /\ reservation[z] \in Nat /\ children[z] \in Nat /\ used[z] \in Nat /\ Limit[z] \in Nat
        /\ reservation[z] <= Limit[z] /\ used[z] + children[z] <= reservation[z]
    BY <1>1, <1>5, <2>1, Zenon DEF Bounds
  <2>4. reservation'[z] = reservation[z] + n
    BY <1>6, <2>1, Zenon
  <2>5. reservation'[z] \in Nat /\ reservation'[z] <= Limit[z]
    BY <1>2, <2>2, <2>3, <2>4, SMT
  <2>6. CASE z = y
    <3>1. children'[z] = children[z]
      BY <1>7, <2>1, <2>6, Zenon
    <3>2. used[z] + children[z] <= reservation'[z]
      BY <1>2, <2>3, <2>4, SMT
    <3> QED
      BY <2>3, <2>4, <2>5, <2>6, <3>1, <3>2, Zenon
  <2>7. CASE z # y
    <3>1. children'[z] = children[z] + n
      BY <1>3, <1>7, <2>1, <2>7, Zenon
    <3>2. reservation[z] = children[z] /\ used[z] = 0
      BY <1>1, <1>3, <2>1, <2>7, Zenon DEF Passed, Owned, TopClients
    <3>3. children'[z] = reservation'[z]
      BY <2>4, <3>1, <3>2, Zenon
    <3>4. 0 + children'[z] <= reservation'[z]
      BY <2>5, <3>3, SMT
    <3> QED
      BY <2>4, <2>5, <2>7, <3>1, <3>2, <3>3, <3>4, Zenon
  <2> QED
    BY <2>6, <2>7, Zenon
<1>10. ASSUME NEW z \in Trackers, z \notin S, z \notin T
       PROVE  reservation'[z] = reservation[z] /\ children'[z] = children[z]
  <2>1. Change(z, S, T, n) = 0
    BY <1>10, Zenon DEF Change
  <2>2. reservation[z] + 0 = reservation[z] /\ children[z] + 0 = children[z]
    BY <1>5, SMT
  <2> QED
    BY <1>6, <1>7, <2>1, <2>2, Zenon
<1>11. children'[x] = children[x] /\ children'[y] = children[y]
  BY <1>2, <1>7, Zenon
<1>12. ASSUME NEW z \in Trackers
       PROVE  /\ reservation'[z] \in Nat /\ children'[z] \in Nat
              /\ reservation'[z] <= Limit[z] /\ used'[z] + children'[z] <= reservation'[z]
              /\ z \notin Owned => reservation'[z] = children'[z]
  <2>1. CASE z \in S
    BY <1>4, <1>8, <2>1, Zenon
  <2>2. CASE z \in T
    BY <1>4, <1>9, <2>2, Zenon
  <2>3. CASE z \notin S /\ z \notin T
    BY <1>1, <1>5, <1>10, <2>3, Zenon DEF Bounds, Passed
  <2> QED
    BY <2>1, <2>2, <2>3, Zenon
<1>13. reservation' \in [Trackers -> Nat] /\ children' \in [Trackers -> Nat]
  <2>1. /\ reservation' = [z \in Trackers |-> reservation'[z]]
        /\ children' = [z \in Trackers |-> children'[z]]
    BY Zenon DEF Moves
  <2> QED
    BY <1>12, <2>1, Zenon
<1>14. Bounds' /\ Passed'
  BY <1>1, <1>12, Zenon DEF Bounds, Passed
<1>15. ASSUME NEW z \in Linked
       PROVE  mem'[z] = reservation'[z] /\ mem'[z] \in Nat
  <2>1. z \in Trackers /\ mem[z] = reservation[z]
    BY <1>1, LinkedFacts, Zenon DEF MemAgrees
  <2>2. mem'[z] = mem[z] + Change(z, S, T, n)
    BY Zenon DEF Moves
  <2> QED
    BY <1>6, <1>12, <2>1, <2>2, Zenon
<1>16. mem' \in [Linked -> Nat] /\ MemAgrees'
  <2>1. mem' = [z \in Linked |-> mem'[z]]
    BY Zenon DEF Moves
  <2> QED
    BY <1>15, <2>1, Zenon DEF MemAgrees
<1>17. Moved(S, T, x, y, n)
  BY <1>8, <1>9, <1>10, <1>11, Zenon DEF Moved
<1> QED
  BY <1>13, <1>14, <1>16, <1>17, Zenon

\* The trackers from x up to below top, and whose children they are.
LEMMA PathChildren ==
    ASSUME NEW x \in Trackers, NEW top \in OnPath(x), NEW S, S = OnPath(x) \ OnPath(top),
           NEW p \in Trackers
    PROVE  /\ p \in S \cup {top} /\ p # x =>
                /\ Below(p, x) \in Children(p) /\ Below(p, x) \in S
                /\ \A c \in Children(p) : c \in S => c = Below(p, x)
           /\ p \notin S \cup {top} \/ p = x => \A c \in Children(p) : c \notin S
<1>1. ASSUME NEW c \in Children(p)
      PROVE  c \in Trackers /\ c # Root /\ Parent(c) = p /\ OnPath(c) = {c} \cup OnPath(p) /\ p # c
             /\ c \notin OnPath(p) /\ p \in OnPath(c)
  <2>1. c \in Trackers /\ c # Root /\ Parent(c) = p
    BY Zenon DEF Children
  <2> QED
    BY <2>1, TreeParent, Zenon
<1>2. top \in Trackers /\ OnPath(top) \subseteq OnPath(x)
  BY TreeUp, Zenon
<1>3. ASSUME p \in S \cup {top}, p # x
      PROVE  /\ Below(p, x) \in Children(p) /\ Below(p, x) \in S
             /\ \A c \in Children(p) : c \in S => c = Below(p, x)
  <2>1. p \in OnPath(x)
    BY <1>3, Zenon
  <2>2. PICK b : b = Below(p, x)
    OBVIOUS
  <2>3. /\ b \in Children(p) /\ b \in OnPath(x)
        /\ \A c \in Children(p) : c \in OnPath(x) => c = b
    BY <1>3, <2>1, <2>2, TreeBelow, Zenon
  <2>4. b \notin OnPath(top)
    <3> SUFFICES ASSUME b \in OnPath(top)
                 PROVE  FALSE
      OBVIOUS
    <3>1. OnPath(b) \subseteq OnPath(top)
      BY <1>2, TreeUp, Zenon
    <3>2. p \in OnPath(top)
      BY <1>1, <2>3, <3>1, Zenon
    <3>3. p = top
      BY <1>3, <3>2, Zenon
    <3> QED
      BY <1>1, <2>3, <3>3, Zenon
  <2> QED
    BY <2>2, <2>3, <2>4, Zenon
<1>4. ASSUME p \notin S \cup {top} \/ p = x, NEW c \in Children(p), c \in S
      PROVE  FALSE
  <2>1. c \in OnPath(x) /\ c \notin OnPath(top)
    BY <1>4, Zenon
  <2>2. p \in OnPath(x)
    BY <1>1, <2>1, TreeUp, Zenon
  <2>3. CASE p = x
    <3>1. x \in OnPath(c)
      BY <1>1, <2>3, Zenon
    <3>2. c = x
      BY <2>1, <3>1, PathAntisymmetric, Zenon
    <3> QED
      BY <1>1, <2>3, <3>2, Zenon
  <2>4. CASE p \notin S \cup {top} /\ p # x
    <3>1. p \in OnPath(top) /\ p # top
      BY <2>2, <2>4, Zenon
    <3>2. PICK b : b = Below(p, top)
      OBVIOUS
    <3>3. b \in Children(p) /\ b \in OnPath(top)
      BY <1>2, <3>1, <3>2, TreeBelow, Zenon
    <3>4. b \in OnPath(x) /\ b # Root /\ Parent(b) = p /\ c # Root /\ Parent(c) = p
      BY <1>1, <1>2, <3>3, Zenon
    <3>5. b = c
      BY <2>1, <3>4, TreeUnique, Zenon
    <3> QED
      BY <2>1, <3>3, <3>5, Zenon
  <2> QED
    BY <1>4, <2>3, <2>4, Zenon
<1> QED
  BY <1>3, <1>4, Zenon

LEMMA MovedAcross ==
    ASSUME TypeOK, NEW x, NEW y, Across(x, y), NEW n \in Nat,
           NEW S, S = OnPath(x) \ OnPath(y), NEW T, T = OnPath(y) \ OnPath(x),
           Moved(S, T, x, y, n),
           \A c \in Trackers \ {Root} : c \notin S /\ c \notin T => Pending(c)' = Pending(c),
           \A c \in S \cup T : Pending(c) = 0 /\ Pending(c)' = 0,
           NEW p \in Trackers
    PROVE  SumStep(Children(p), children[p], children'[p], Share, Share')
<1>1. /\ x \in Trackers /\ y \in Trackers /\ x \notin OnPath(y) /\ y \notin OnPath(x)
      /\ Common(x, y) # x /\ Common(x, y) # y
  BY AcrossFacts, Zenon
<1>2. PICK top : top = Common(x, y)
  OBVIOUS
<1>3. /\ top \in Trackers /\ top \in OnPath(x) /\ top \in OnPath(y)
      /\ OnPath(top) = OnPath(x) \cap OnPath(y) /\ top # x /\ top # y
  BY <1>1, <1>2, CommonIs, Zenon
<1>4. /\ S = OnPath(x) \ OnPath(top) /\ T = OnPath(y) \ OnPath(top) /\ S \cap T = {}
      /\ top \notin S /\ top \notin T
  BY <1>3, Zenon
<1>5. S \subseteq Trackers /\ T \subseteq Trackers
  BY <1>1, TreeSelf, Zenon
<1>6. \A c \in Trackers : reservation[c] \in Nat /\ children[c] \in Nat
  BY DEF TypeOK
<1>7. ASSUME NEW c \in S
      PROVE  Share[c] \in Nat /\ Share'[c] - Share[c] = 0 - n /\ Share'[c] \in Int
  <2>1. c \in Trackers /\ reservation[c] \in Nat
    BY <1>5, <1>6, Zenon
  <2>2. Share[c] = reservation[c] + 0 /\ Share'[c] = (reservation[c] - n) + 0
    BY <2>1, ShareIs, Zenon DEF Moved
  <2> QED
    BY <2>1, <2>2, SMT
<1>8. ASSUME NEW c \in T
      PROVE  Share[c] \in Nat /\ Share'[c] - Share[c] = n /\ Share'[c] \in Int
  <2>1. c \in Trackers /\ reservation[c] \in Nat
    BY <1>5, <1>6, Zenon
  <2>2. Share[c] = reservation[c] + 0 /\ Share'[c] = (reservation[c] + n) + 0
    BY <2>1, ShareIs, Zenon DEF Moved
  <2> QED
    BY <2>1, <2>2, SMT
<1>9. ASSUME NEW c \in Children(p), c \notin S, c \notin T
      PROVE  Share'[c] = Share[c]
  <2>1. c \in Trackers \ {Root}
    BY Zenon DEF Children
  <2>2. reservation'[c] = reservation[c] /\ Pending(c)' = Pending(c)
    BY <1>9, <2>1, Zenon DEF Moved
  <2> QED
    BY <2>1, <2>2, ShareIs, Zenon
<1>10. PICK v : v = Below(p, x)
  OBVIOUS
<1>11. PICK w : w = Below(p, y)
  OBVIOUS
<1>12. /\ p \in S \cup {top} /\ p # x =>
            v \in Children(p) /\ v \in S /\ \A c \in Children(p) : c \in S => c = v
       /\ p \notin S \cup {top} \/ p = x => \A c \in Children(p) : c \notin S
  BY <1>1, <1>3, <1>4, <1>10, PathChildren
<1>13. /\ p \in T \cup {top} /\ p # y =>
            w \in Children(p) /\ w \in T /\ \A c \in Children(p) : c \in T => c = w
       /\ p \notin T \cup {top} \/ p = y => \A c \in Children(p) : c \notin T
  BY <1>1, <1>3, <1>4, <1>11, PathChildren
<1>14. x \in OnPath(x) /\ y \in OnPath(y)
  BY <1>1, TreeSelf, Zenon
<1>15. x \notin T /\ y \notin S
  BY <1>14, Zenon
<1>16. CASE p = top
  <2>1. v \in Children(p) /\ v \in S /\ \A c \in Children(p) : c \in S => c = v
    BY <1>3, <1>12, <1>16, Zenon
  <2>2. w \in Children(p) /\ w \in T /\ \A c \in Children(p) : c \in T => c = w
    BY <1>3, <1>13, <1>16, Zenon
  <2>3. children'[p] = children[p]
    BY <1>4, <1>16, Zenon DEF Moved
  <2>4. v # w
    BY <1>4, <2>1, <2>2, Zenon
  <2>5. Share'[v] - Share[v] = 0 - n /\ Share'[w] - Share[w] = n
    BY <1>7, <1>8, <2>1, <2>2, Zenon
  <2>6. children[p] = children[p] + (0 - n) + n
    BY <1>6, SMT
  <2>7. children'[p] = children[p] + (Share'[v] - Share[v]) + (Share'[w] - Share[w])
    BY <2>3, <2>5, <2>6, Zenon
  <2>8. \A e \in Children(p) : e \notin {v, w} => Share'[e] = Share[e]
    BY <1>9, <2>1, <2>2, Zenon
  <2> QED
    BY <2>1, <2>2, <2>4, <2>7, <2>8, Zenon DEF SumStep, TwoChanges
<1>17. CASE p \in S /\ p # x
  <2>1. v \in Children(p) /\ v \in S /\ \A c \in Children(p) : c \in S => c = v
    BY <1>12, <1>17, Zenon
  <2>2. \A c \in Children(p) : c \notin T
    <3>1. p \notin T \cup {top}
      BY <1>4, <1>17, Zenon
    <3> QED
      BY <1>13, <3>1, Zenon
  <2>3. children'[p] = children[p] - n
    BY <1>17, Zenon DEF Moved
  <2>4. children'[p] = children[p] + Share'[v] - Share[v]
    <3>1. Share[v] \in Nat /\ Share'[v] - Share[v] = 0 - n /\ Share'[v] \in Int
      BY <1>7, <2>1, Zenon
    <3>2. children[p] \in Nat
      BY <1>6, Zenon
    <3> QED
      BY <2>3, <3>1, <3>2, SMT
  <2>5. \A d \in Children(p) : d # v => Share'[d] = Share[d]
    BY <1>9, <2>1, <2>2, Zenon
  <2> QED
    BY <2>1, <2>4, <2>5, Zenon DEF SumStep, OneChange
<1>18. CASE p \in T /\ p # y
  <2>1. w \in Children(p) /\ w \in T /\ \A c \in Children(p) : c \in T => c = w
    BY <1>13, <1>18, Zenon
  <2>2. \A c \in Children(p) : c \notin S
    <3>1. p \notin S \cup {top}
      BY <1>4, <1>18, Zenon
    <3> QED
      BY <1>12, <3>1, Zenon
  <2>3. children'[p] = children[p] + n
    BY <1>18, Zenon DEF Moved
  <2>4. children'[p] = children[p] + Share'[w] - Share[w]
    <3>1. Share[w] \in Nat /\ Share'[w] - Share[w] = n /\ Share'[w] \in Int
      BY <1>8, <2>1, Zenon
    <3>2. children[p] \in Nat
      BY <1>6, Zenon
    <3> QED
      BY <2>3, <3>1, <3>2, SMT
  <2>5. \A d \in Children(p) : d # w => Share'[d] = Share[d]
    BY <1>9, <2>1, <2>2, Zenon
  <2> QED
    BY <2>1, <2>4, <2>5, Zenon DEF SumStep, OneChange
<1>19. CASE p # top /\ ~(p \in S /\ p # x) /\ ~(p \in T /\ p # y)
  <2>1. \A c \in Children(p) : c \notin S
    BY <1>12, <1>19, Zenon
  <2>2. \A c \in Children(p) : c \notin T
    BY <1>13, <1>19, Zenon
  <2>3. children'[p] = children[p]
    BY <1>19, Zenon DEF Moved
  <2>4. \A c \in Children(p) : Share'[c] = Share[c]
    BY <1>9, <2>1, <2>2, Zenon
  <2> QED
    BY <2>3, <2>4, Zenon DEF SumStep, NoChange
<1> QED
  BY <1>16, <1>17, <1>18, <1>19, Zenon

\* Between a client and its SubReservation the parent's side is pending.
LEMMA MovedWithin ==
    ASSUME TypeOK, NEW x, NEW y, ToParent(x, y) \/ ToSub(x, y), NEW n \in Nat,
           NEW S, S = OnPath(x) \ OnPath(y), NEW T, T = OnPath(y) \ OnPath(x),
           Moved(S, T, x, y, n),
           \A c \in Trackers \ {Root} : c \notin S /\ c \notin T => Pending(c)' = Pending(c),
           \A c \in S : Pending(c) = 0 /\ Pending(c)' = n,
           \A c \in T : Pending(c) = 0 /\ Pending(c)' = 0 - n,
           NEW p \in Trackers
    PROVE  SumStep(Children(p), children[p], children'[p], Share, Share')
<1>1. x \in Trackers /\ y \in Trackers /\ S \subseteq {x} /\ T \subseteq {y}
  <2>1. CASE ToParent(x, y)
    BY <2>1, ToParentFacts, Zenon
  <2>2. CASE ToSub(x, y)
    BY <2>2, ToSubFacts, Zenon
  <2> QED
    BY <2>1, <2>2, Zenon
<1>2. \A c \in Trackers : reservation[c] \in Nat
  BY DEF TypeOK
<1>3. ASSUME NEW c \in Children(p)
      PROVE  Share'[c] = Share[c]
  <2>1. c \in Trackers \ {Root} /\ reservation[c] \in Nat
    BY <1>2, Zenon DEF Children
  <2>2. CASE c \in S
    <3>1. Share[c] = reservation[c] + 0 /\ Share'[c] = (reservation[c] - n) + n
      BY <2>1, <2>2, ShareIs, Zenon DEF Moved
    <3> QED
      BY <2>1, <3>1, SMT
  <2>3. CASE c \in T
    <3>1. Share[c] = reservation[c] + 0 /\ Share'[c] = (reservation[c] + n) + (0 - n)
      BY <2>1, <2>3, ShareIs, Zenon DEF Moved
    <3> QED
      BY <2>1, <3>1, SMT
  <2>4. CASE c \notin S /\ c \notin T
    BY <2>1, <2>4, ShareIs, Zenon DEF Moved
  <2> QED
    BY <2>2, <2>3, <2>4, Zenon
<1>4. children'[p] = children[p]
  BY <1>1, Zenon DEF Moved
<1> QED
  BY <1>3, <1>4, Zenon DEF SumStep, NoChange

LEMMA ApplyInductive ==
    ASSUME IInv, NEW t \in Threads, Apply(t)
    PROVE  IInv'
<1>1. PICK o : o = th[t]
  OBVIOUS
<1>2. PICK x : x = o.src
  OBVIOUS
<1>3. PICK y : y = o.dst
  OBVIOUS
<1>4. PICK n : n = o.bytes
  OBVIOUS
<1>5. PICK S : S = OnPath(x) \ OnPath(y)
  OBVIOUS
<1>6. PICK T : T = OnPath(y) \ OnPath(x)
  OBVIOUS
<1>7. /\ o.pc = "transfer" /\ Held(t) = S \cup T
      /\ used' = used /\ other' = other /\ remaining' = remaining
      /\ Refused(t, T, n) \/ Accepted(t, S, T, x, y, n)
  <2>1. o.pc = "transfer" /\ used' = used /\ other' = other /\ remaining' = remaining
    BY <1>1, Zenon DEF Apply
  <2>3. Held(t) = S \cup T
    <3>1. /\ Taken(LockOrder(x, y), o.todo, Held(t)) /\ LockOrder(x, y) \in Seq(Trackers)
          /\ ToSet(LockOrder(x, y)) = Both(x, y)
      BY <1>1, <1>2, <1>3, <2>1, TransferPlace, Zenon
    <3>2. o.todo = <<>>
      BY <1>1, Zenon DEF Apply
    <3>3. Held(t) = Both(x, y)
      BY <3>1, <3>2, TakenAll, Zenon
    <3> QED
      BY <1>5, <1>6, <3>3, Zenon DEF Both
  <2>2. Refused(t, T, o.bytes) \/ Accepted(t, S, T, x, y, o.bytes)
    BY <1>1, <1>2, <1>3, <1>5, <1>6, ApplyIs, Zenon
  <2> QED
    BY <1>4, <2>1, <2>2, <2>3, Zenon
<1>8. /\ o \in Operation /\ Transferable(x, y) /\ n <= Unused(x)
      /\ (initialLock = t <=> Initial \in {x, y})
      /\ Uses(t, x) /\ x \in Trackers /\ y \in Trackers /\ n \in Nat
  BY <1>1, <1>2, <1>3, <1>4, <1>7, TransferPlace, Zenon
<1>9. TypeOK /\ InitialAgrees
  BY Zenon DEF IInv
<1>10. /\ S \subseteq Trackers /\ T \subseteq Trackers /\ S \cap T = {}
       /\ x \notin T /\ y \notin S /\ Root \notin S /\ Root \notin T
       /\ \A z \in S : z # x => z \notin Owned
       /\ \A z \in T : z # y => z \notin Owned
       /\ x \notin Subs /\ y \notin Subs => Across(x, y)
  BY <1>5, <1>6, <1>8, SidesFacts
<1>11. ASSUME NEW c
       PROVE  PendingOf(o, c) = 0
  BY <1>7 DEF PendingOf
<1>12. t # NoThread
  BY ThreadFacts, Zenon
<1>13. initialLock = t => InitialOwed = IF x = Initial THEN n ELSE 0
  BY <1>1, <1>2, <1>4, <1>7, <1>12 DEF InitialOwed
<1>14. CASE Refused(t, T, n)
  <2>1. PICK z \in T : reservation[z] + n > Limit[z]
    BY <1>14, Zenon DEF Refused, Fits
  <2>2. x # Initial
    <3> SUFFICES ASSUME x = Initial
                 PROVE  FALSE
      OBVIOUS
    <3>1. reservation[z] + n <= Limit[z]
      BY <1>1, <1>2, <1>3, <1>4, <1>6, <1>7, <2>1, ClaimFits, Zenon
    <3>2. reservation[z] \in Nat /\ Limit[z] \in Nat
      BY <1>9, <1>10, <2>1, NumberFacts DEF TypeOK
    <3> QED
      BY <1>8, <2>1, <3>1, <3>2, SMT
  <2>3. initialLock = t => InitialOwed = 0
    BY <1>13, <2>2, Zenon
  <2>4. \A c \in Held(t) : c # Root => PendingOf(th[t], c) = 0
    BY <1>1, <1>11, Zenon
  <2> QED
    BY <1>7, <1>14, <2>3, <2>4, DoneInductive, Zenon DEF Refused
<1>15. CASE Accepted(t, S, T, x, y, n)
  <2>1. /\ reservation' \in [Trackers -> Nat] /\ mem' \in [Linked -> Nat]
        /\ children' \in [Trackers -> Nat] /\ MemAgrees' /\ Bounds' /\ Passed'
        /\ Moved(S, T, x, y, n)
    <3>1. Fits(T, n) /\ Moves(S, T, x, y, n)
      BY <1>15, Zenon DEF Accepted
    <3> QED
      BY <1>1, <1>2, <1>3, <1>4, <1>5, <1>6, <1>7, <3>1, MovesNumbers, Zenon
  <2>2. PICK q : q = [o EXCEPT !.pc = "settle"]
    OBVIOUS
  <2>3. /\ q \in Operation /\ q.pc = "settle" /\ q.src = x /\ q.dst = y /\ q.bytes = n
    BY <1>2, <1>3, <1>4, <1>8, <2>2, SettleOp
  <2>4. th' = [th EXCEPT ![t] = q]
    BY <1>1, <1>9, <1>15, <2>2 DEF TypeOK, Accepted
  <2>5. lock' = lock /\ initialLock' = initialLock
    BY <1>15, Zenon DEF Accepted
  <2>6. /\ OnlyThread(t) /\ th'[t] = q /\ Held(t)' = Held(t)
        /\ th' \in [Threads -> Operation] /\ lock' \in [Trackers -> Threads \cup {NoThread}]
        /\ \A c \in Trackers : c \notin Held(t) => Pending(c)' = Pending(c)
        /\ \A c \in Held(t) : c # Root => Pending(c)' = PendingOf(q, c)
    BY <1>9, <2>3, <2>4, <2>5, SameLocks, Zenon
  <2>7. TypeOK'
    BY <1>7, <1>9, <2>1, <2>5, <2>6, Zenon DEF TypeOK
  <2>8. \A z \in Trackers : reservation[z] \in Nat /\ used[z] \in Nat /\ children[z] \in Nat
    BY <1>9 DEF TypeOK
  \* Nobody else is affected.
  <2>9. ASSUME NEW z \in Owned
        PROVE  Unused(z) <= Unused(z)' \/ Uses(t, z)
    <3>1. z \in Trackers
      BY ClientFacts, InitialFacts, Zenon DEF Owned
    <3>2. reservation[z] \in Nat /\ used[z] \in Nat /\ children[z] \in Nat
      BY <2>8, <3>1, Zenon
    <3>3. CASE z \in S
      BY <1>8, <1>10, <3>3, Zenon
    <3>4. CASE z \in T
      <4>1. reservation'[z] = reservation[z] + n /\ children'[z] = children[z]
        BY <1>10, <2>1, <3>4, Zenon DEF Moved
      <4>2. /\ Unused(z) = reservation[z] - used[z] - children[z]
            /\ Unused(z)' = (reservation[z] + n) - used[z] - children[z]
        BY <1>7, <4>1, Zenon DEF Unused
      <4>3. Unused(z) <= Unused(z)'
        BY <1>8, <3>2, <4>2, SMT
      <4> QED
        BY <4>3, Zenon
    <3>5. CASE z \notin S /\ z \notin T
      <4>1. reservation'[z] = reservation[z] /\ children'[z] = children[z]
        BY <2>1, <3>1, <3>5, Zenon DEF Moved
      <4>2. Unused(z)' = Unused(z) /\ Unused(z) \in Int
        BY <1>7, <1>9, <3>1, <4>1, UnusedType, Zenon DEF Unused
      <4> QED
        BY <4>2, SMT
    <3> QED
      BY <3>3, <3>4, <3>5, Zenon
  <2>10. ASSUME NEW z \in Clients
         PROVE  reservation'[z] = reservation[z] \/ Owner[z] = t \/ th[t].dst = z
    <3>1. z \in Trackers /\ z \in Owned /\ z # Initial
      BY ClientFacts, Zenon DEF Owned
    <3>2. CASE z \in S
      BY <1>8, <1>10, <3>1, <3>2, Zenon DEF Uses
    <3>3. CASE z \in T
      BY <1>1, <1>3, <1>10, <3>1, <3>3, Zenon
    <3>4. CASE z \notin S /\ z \notin T
      BY <2>1, <3>1, <3>4, Zenon DEF Moved
    <3> QED
      BY <3>2, <3>3, <3>4, Zenon
  <2>11. Quiet(t)
    <3>1. ASSUME NEW z \in Trackers, lock[z] \notin {t, NoThread}
          PROVE  reservation'[z] = reservation[z]
      <4>1. z \notin S /\ z \notin T
        BY <1>7, <3>1, Zenon DEF Held
      <4> QED
        BY <2>1, <4>1, Zenon DEF Moved
    <3>2. th'[t].dst = th[t].dst
      BY <1>1, <1>3, <2>3, <2>6, Zenon
    <3> QED
      BY <2>5, <2>6, <2>9, <2>10, <3>1, <3>2, Zenon DEF Quiet
  <2>12. Working(t)'
    <3>1. MineOK(t)'
      BY <1>8, <2>3, <2>5, <2>6, Zenon DEF MineOK, Uses
    <3>2. Held(t)' = Both(x, y)
      BY <1>5, <1>6, <1>7, <2>6, Zenon DEF Both
    <3>3. PICK u : u = Unused(x)'
      OBVIOUS
    <3>4. ASSUME y \in Subs
          PROVE  n <= u /\ n <= reservation'[y]
      <4>1. ToSub(x, y)
        BY <1>8, <3>4, TransferableFacts, Zenon
      <4>2. S = {} /\ T = {y}
        BY <1>5, <1>6, <4>1, ToSubFacts, Zenon
      <4>3. reservation'[y] = reservation[y] + n /\ reservation'[x] = reservation[x]
            /\ children'[x] = children[x]
        BY <1>8, <1>10, <2>1, <4>2, Zenon DEF Moved
      <4>4. u = Unused(x)
        BY <1>7, <3>3, <4>3, Zenon DEF Unused
      <4>5. reservation[y] \in Nat
        BY <1>8, <2>8, Zenon
      <4>6. n <= reservation'[y]
        BY <1>8, <4>3, <4>5, SMT
      <4> QED
        BY <1>8, <4>4, <4>6, Zenon
    <3>5. SettleOK(t)'
      BY <1>8, <2>3, <2>5, <2>6, <3>2, <3>3, <3>4, Zenon DEF SettleOK
    <3> QED
      BY <2>3, <2>6, <3>1, <3>5, WorkingSettle, Zenon
  <2>13. InitialAgrees'
    <3>0. Initial \in Owned /\ Initial \in Trackers
      BY InitialFacts, Zenon DEF Owned
    <3>1. CASE initialLock # t
      <4>1. Initial \notin S /\ Initial \notin T
        BY <1>8, <1>10, <3>0, <3>1, Zenon
      <4>2. reservation'[Initial] = reservation[Initial]
        BY <2>1, <3>0, <4>1, Zenon DEF Moved
      <4> QED
        BY <1>7, <1>9, <2>5, <2>6, <3>1, <4>2, InitialFrame, Zenon
    <3>2. CASE initialLock = t
      <4>1. InitialOwed' = IF y = Initial THEN n ELSE 0
        BY <1>12, <2>3, <2>5, <2>6, <3>2 DEF InitialOwed
      <4>2. Across(x, y)
        <5>1. x \notin Subs /\ y \notin Subs
          <6>1. ~ToParent(x, y) /\ ~ToSub(x, y)
            BY <1>8, <3>2, ToParentFacts, ToSubFacts, Zenon
          <6> QED
            BY <1>8, <6>1, TransferableFacts, Zenon
        <5> QED
          BY <1>10, <5>1, Zenon
      <4>3. x \in S /\ y \in T /\ x # y
        <5>1. x \notin OnPath(y) /\ y \notin OnPath(x) /\ x # y
          BY <4>2, AcrossFacts, Zenon
        <5> QED
          BY <1>5, <1>6, <1>8, <5>1, TreeSelf, Zenon
      <4>4. remaining \in Nat
        <5>1. remaining \in 0..Claims
          BY <1>9, Zenon DEF TypeOK
        <5> QED
          BY <5>1, NumberFacts, SMT
      <4>5. CASE x = Initial
        <5>1. reservation[Initial] = remaining + n
          BY <1>9, <1>13, <3>2, <4>5, Zenon DEF InitialAgrees
        <5>2. reservation'[Initial] = reservation[Initial] - n
          BY <2>1, <4>3, <4>5, Zenon DEF Moved
        <5>3. reservation'[Initial] = remaining + 0
          BY <1>8, <4>4, <5>1, <5>2, SMT
        <5>4. InitialOwed' = 0
          BY <4>1, <4>3, <4>5, Zenon
        <5> QED
          BY <1>7, <5>3, <5>4, Zenon DEF InitialAgrees
      <4>6. CASE x # Initial
        <5>1. y = Initial
          BY <1>8, <3>2, <4>6, Zenon
        <5>2. reservation[Initial] = remaining + 0
          BY <1>9, <1>13, <3>2, <4>6, Zenon DEF InitialAgrees
        <5>3. reservation'[Initial] = reservation[Initial] + n
          BY <2>1, <4>3, <5>1, Zenon DEF Moved
        <5>4. reservation'[Initial] = remaining + n
          BY <1>8, <4>4, <5>2, <5>3, SMT
        <5>5. InitialOwed' = n
          BY <4>1, <5>1, Zenon
        <5> QED
          BY <1>7, <5>4, <5>5, Zenon DEF InitialAgrees
      <4> QED
        BY <4>5, <4>6, Zenon
    <3> QED
      BY <3>1, <3>2, Zenon
  <2>14. ASSUME NEW p \in Trackers
         PROVE  SumStep(Children(p), children[p], children'[p], Share, Share')
    <3>1. \A c \in Trackers \ {Root} : c \notin S /\ c \notin T => Pending(c)' = Pending(c)
      BY <1>7, <2>6, Zenon
    <3>2. ASSUME NEW c \in S \cup T
          PROVE  Pending(c) = 0 /\ Pending(c)' = PendingOf(q, c)
      <4>1. c \in Held(t) /\ c # Root
        BY <1>7, <1>10, Zenon
      <4>2. Pending(c) = PendingOf(o, c)
        BY <1>1, <4>1, PendingMine, Zenon
      <4> QED
        BY <1>11, <2>6, <4>1, <4>2, Zenon
    <3>3. CASE Across(x, y)
      <4>1. x \notin Subs /\ y \notin Subs
        BY <3>3, AcrossFacts, Zenon
      <4>2. \A c \in S \cup T : PendingOf(q, c) = 0
        <5> TAKE c \in S \cup T
        <5>1. ~(c = q.src /\ c \in Subs) /\ ~(c = q.dst /\ c \in Subs)
          BY <2>3, <4>1, Zenon
        <5> QED
          BY <2>3, <5>1 DEF PendingOf
      <4>3. \A c \in S \cup T : Pending(c) = 0 /\ Pending(c)' = 0
        BY <3>2, <4>2, Zenon
      <4> QED
        BY <1>5, <1>6, <1>8, <1>9, <2>1, <3>1, <3>3, <4>3, MovedAcross, Zenon
    <3>4. CASE ToParent(x, y) \/ ToSub(x, y)
      <4>1. S \subseteq {x} /\ T \subseteq {y} /\ x # y /\ (S # {} => x \in Subs)
            /\ (T # {} => y \in Subs)
        <5>1. CASE ToParent(x, y)
          BY <1>5, <1>6, <5>1, ToParentFacts, Zenon
        <5>2. CASE ToSub(x, y)
          BY <1>5, <1>6, <5>2, ToSubFacts, Zenon
        <5> QED
          BY <3>4, <5>1, <5>2, Zenon
      <4>2. ASSUME NEW c \in S
            PROVE  PendingOf(q, c) = n
        <5>1. c = q.src /\ c \in Subs /\ c # q.dst
          BY <2>3, <4>1, Zenon
        <5> QED
          BY <2>3, <5>1 DEF PendingOf
      <4>3. ASSUME NEW c \in T
            PROVE  PendingOf(q, c) = 0 - n
        <5>1. c = q.dst /\ c \in Subs /\ c # q.src
          BY <2>3, <4>1, Zenon
        <5> QED
          BY <2>3, <5>1, Zenon DEF PendingOf
      <4>4. \A c \in S : Pending(c) = 0 /\ Pending(c)' = n
        BY <3>2, <4>2, Zenon
      <4>5. \A c \in T : Pending(c) = 0 /\ Pending(c)' = 0 - n
        BY <3>2, <4>3, Zenon
      <4> QED
        BY <1>5, <1>6, <1>8, <1>9, <2>1, <3>1, <3>4, <4>4, <4>5, MovedWithin, Zenon
    <3> QED
      BY <1>8, <3>3, <3>4, Zenon DEF Transferable
  <2> QED
    BY <2>1, <2>7, <2>11, <2>12, <2>13, <2>14, FinishStep, Zenon
<1> QED
  BY <1>7, <1>14, <1>15, Zenon

-----------------------------------------------------------------------------
(***************************************************************************)
(* A transfer: the common ancestor, and what Return() gives back.          *)
(***************************************************************************)
LEMMA SettlePlace ==
    ASSUME IInv, NEW t \in Threads, NEW o, o = th[t], o.pc = "settle"
    PROVE  /\ o \in Operation /\ Transferable(o.src, o.dst) /\ Held(t) = Both(o.src, o.dst)
           /\ o.dst \in Subs => o.bytes <= Unused(o.src)
           /\ initialLock = t <=> Initial \in {o.src, o.dst}
           /\ Uses(t, o.src) /\ o.src \in Trackers /\ o.dst \in Trackers /\ o.bytes \in Nat
<1>1. TypeOK /\ SettleOK(t) /\ MineOK(t)
  BY Zenon DEF IInv, Working
<1>2. o \in Operation
  BY <1>1, Zenon DEF TypeOK
<1>3. /\ Transferable(o.src, o.dst) /\ Held(t) = Both(o.src, o.dst)
      /\ (o.dst \in Subs => o.bytes <= Unused(o.src))
      /\ (initialLock = t => Initial \in {o.src, o.dst}) /\ (o.dst = Initial => initialLock = t)
  BY <1>1, Zenon DEF SettleOK
<1>4. Uses(t, o.src)
  BY <1>1, Zenon DEF MineOK
<1>5. o.src = Initial => initialLock = t
  BY <1>4, Zenon DEF Uses
<1>6. o.src \in Trackers /\ o.dst \in Trackers /\ o.bytes \in Nat
  BY <1>2, OpFields
<1> QED
  BY <1>2, <1>3, <1>4, <1>5, <1>6, Zenon

\* A thread gives back all its locks.
LEMMA UnlockAllStep ==
    ASSUME TypeOK, NEW t \in Threads, NEW o \in Operation,
           lock' = Unlocked(t), th' = [th EXCEPT ![t] = o]
    PROVE  /\ OnlyThread(t) /\ th'[t] = o /\ Held(t)' = {}
           /\ th' \in [Threads -> Operation] /\ lock' \in [Trackers -> Threads \cup {NoThread}]
           /\ \A c \in Trackers : c \notin Held(t) => Pending(c)' = Pending(c)
           /\ \A c \in Held(t) : Pending(c)' = 0
<1>0. t # NoThread
  BY ThreadFacts, Zenon
<1>1. \A c \in Trackers : lock'[c] = IF lock[c] = t THEN NoThread ELSE lock[c]
  BY Zenon DEF Unlocked
<1>2. th'[t] = o /\ \A s \in Threads \ {t} : th'[s] = th[s]
  BY DEF TypeOK
<1>3. th' \in [Threads -> Operation] /\ lock' \in [Trackers -> Threads \cup {NoThread}]
  BY DEF TypeOK, Unlocked
<1>4. OnlyThread(t)
  <2>1. ASSUME NEW c \in Trackers
        PROVE  \/ lock'[c] = lock[c]
               \/ lock[c] \in {t, NoThread} /\ lock'[c] \in {t, NoThread}
    BY <1>1, Zenon
  <2> QED
    BY <1>2, <2>1, Zenon DEF OnlyThread
<1>5. Held(t)' = {}
  <2>1. \A c \in Trackers : lock'[c] # t
    BY <1>0, <1>1, Zenon
  <2> QED
    BY <2>1, Zenon DEF Held
<1>6. ASSUME NEW c \in Trackers, c \notin Held(t)
      PROVE  Pending(c)' = Pending(c)
  <2>1. lock[c] # t /\ lock'[c] # t
    BY <1>1, <1>6, Zenon DEF Held
  <2> QED
    BY <1>4, <2>1, PendingOther, Zenon
<1>7. ASSUME NEW c \in Held(t)
      PROVE  Pending(c)' = 0
  <2>1. lock'[c] = NoThread
    BY <1>1, Zenon DEF Held
  <2> QED
    BY <2>1, Zenon DEF Pending
<1> QED
  BY <1>2, <1>3, <1>4, <1>5, <1>6, <1>7, Zenon

\* What a transfer within a client has pending at the SubReservation.
LEMMA SettlePending ==
    ASSUME IInv, NEW t \in Threads, NEW o, o = th[t], o.pc = "settle",
           NEW x, x = o.src, NEW y, y = o.dst, NEW n, n = o.bytes
    PROVE  /\ ToParent(x, y) => Held(t) = {x} /\ Pending(x) = n
           /\ ToSub(x, y) => Held(t) = {y} /\ Pending(y) = 0 - n
           /\ Across(x, y) => \A c \in Held(t) : Pending(c) = 0
<1>1. Held(t) = Both(x, y) /\ x # y
  BY SettlePlace, TransferableFacts, Zenon
<1>2. ASSUME ToParent(x, y)
      PROVE  Held(t) = {x} /\ Pending(x) = n
  <2>1. Held(t) = {x} /\ x # Root /\ x \in Subs
    BY <1>1, <1>2, ToParentFacts, Zenon DEF Both
  <2>2. Pending(x) = PendingOf(o, x)
    BY <2>1, PendingMine, Zenon
  <2>3. PendingOf(o, x) = n
    <3>1. o.pc = "settle" /\ x = o.src /\ x \in Subs /\ x # o.dst /\ n = o.bytes
      BY <1>1, <2>1, Zenon
    <3> QED
      BY <3>1 DEF PendingOf
  <2> QED
    BY <2>1, <2>2, <2>3, Zenon
<1>3. ASSUME ToSub(x, y)
      PROVE  Held(t) = {y} /\ Pending(y) = 0 - n
  <2>1. Held(t) = {y} /\ y # Root /\ y \in Subs
    BY <1>1, <1>3, ToSubFacts, Zenon DEF Both
  <2>2. Pending(y) = PendingOf(o, y)
    BY <2>1, PendingMine, Zenon
  <2>3. PendingOf(o, y) = 0 - n
    <3>1. o.pc = "settle" /\ y = o.dst /\ y \in Subs /\ y # o.src /\ n = o.bytes
      BY <1>1, <2>1, Zenon
    <3> QED
      BY <3>1 DEF PendingOf
  <2> QED
    BY <2>1, <2>2, <2>3, Zenon
<1>4. ASSUME Across(x, y), NEW c \in Held(t)
      PROVE  Pending(c) = 0
  <2>1. x \notin Subs /\ y \notin Subs
    BY <1>4, AcrossFacts, Zenon
  <2>2. PendingOf(o, c) = 0
    <3>1. o.pc = "settle" /\ ~(c = o.src /\ c \in Subs) /\ ~(c = o.dst /\ c \in Subs)
      BY <2>1, Zenon
    <3> QED
      BY <3>1 DEF PendingOf
  <2>3. CASE c = Root
    BY <2>3, Zenon DEF Pending
  <2>4. CASE c # Root
    BY <2>2, <2>4, PendingMine, Zenon
  <2> QED
    BY <2>3, <2>4, Zenon
<1> QED
  BY <1>2, <1>3, <1>4, Zenon

\* The child reservations of the source or destination that is the common ancestor.
Settled(x, y, n) ==
    /\ ToParent(x, y) => children'[y] = children[y] - n
    /\ ToSub(x, y) => children'[x] = children[x] + n
    /\ \A z \in Trackers : ~(ToParent(x, y) /\ z = y) /\ ~(ToSub(x, y) /\ z = x) =>
                             children'[z] = children[z]

LEMMA SettleNumbers ==
    ASSUME IInv, NEW t \in Threads, Settle(t), NEW o, o = th[t],
           NEW x, x = o.src, NEW y, y = o.dst, NEW n, n = o.bytes
    PROVE  /\ children' \in [Trackers -> Nat] /\ Bounds' /\ MemAgrees' /\ Passed'
           /\ Settled(x, y, n)
<1>1. /\ o.pc = "settle" /\ reservation' = reservation /\ used' = used /\ mem' = mem
      /\ SettleAncestor(t)
  BY Zenon DEF Settle
<1>2. /\ Transferable(x, y) /\ (y \in Subs => n <= Unused(x)) /\ n \in Nat
      /\ x \in Trackers /\ y \in Trackers
  BY <1>1, SettlePlace, Zenon
<1>3. /\ x # y /\ x \in Owned /\ y \in Owned
      /\ (ToParent(x, y) <=> x \in Subs) /\ (ToSub(x, y) <=> y \in Subs)
      /\ (y = Common(x, y) <=> x \in Subs) /\ (x = Common(x, y) <=> y \in Subs)
  BY <1>2, TransferableFacts, Zenon
<1>4. TypeOK /\ Bounds /\ MemAgrees /\ Passed /\ SumsAgree /\ \A s \in Threads : Working(s)
  BY Zenon DEF IInv
<1>5. /\ children \in [Trackers -> Nat]
      /\ \A z \in Trackers : reservation[z] \in Nat /\ children[z] \in Nat /\ used[z] \in Nat
  BY <1>4 DEF TypeOK
<1>6. children' = CASE Common(x, y) = y -> [children EXCEPT ![y] = @ - n]
                    [] Common(x, y) = x -> [children EXCEPT ![x] = @ + n]
                    [] OTHER -> children
  BY <1>1, Zenon DEF SettleAncestor
<1>7. \A z \in Trackers : used[z] + children[z] <= reservation[z] /\ reservation[z] <= Limit[z]
  BY <1>4, Zenon DEF Bounds
<1>8. CASE ToParent(x, y)
  <2>1. x \in Children(y) /\ y \notin Subs
    BY <1>8, ToParentFacts, Zenon DEF Children
  <2>2. children' = [children EXCEPT ![y] = children[y] - n]
    BY <1>3, <1>6, <1>8, <2>1
  <2>3. n <= children[y]
    <3>1. PICK f \in [Trackers -> Nat] : f = Share
      BY <1>4, ShareType
    <3>2. PICK C : C = Children(y)
      OBVIOUS
    <3>3. C \in SUBSET Trackers /\ x \in C
      BY <2>1, <3>2, Zenon DEF Children
    <3>4. Pending(x) = n
      BY <1>1, <1>8, SettlePending
    <3>5. f[x] = reservation[x] + n
      BY <1>2, <3>1, <3>4, ShareIs, Zenon
    <3>6. children[y] = Total(f, C)
      BY <1>2, <1>4, <3>1, <3>2, Zenon DEF SumsAgree
    <3>7. f[x] <= Total(f, C)
      BY <3>3, TotalAtLeast
    <3>8. f[x] <= children[y] /\ reservation[x] \in Nat /\ children[y] \in Nat
      BY <1>2, <1>5, <3>6, <3>7, Zenon
    <3> QED
      BY <1>2, <3>5, <3>8, SMT
  <2>4. children[y] - n \in Nat /\ used[y] + (children[y] - n) <= reservation[y]
    <3>1. children[y] \in Nat /\ used[y] \in Nat /\ reservation[y] \in Nat
          /\ used[y] + children[y] <= reservation[y]
      BY <1>2, <1>5, <1>7, Zenon
    <3> QED
      BY <1>2, <2>3, <3>1, SMT
  <2>5. /\ children' \in [Trackers -> Nat] /\ children'[y] = children[y] - n
        /\ \A z \in Trackers : z # y => children'[z] = children[z]
    BY <1>2, <1>5, <2>2, <2>4
  <2>6. ~ToSub(x, y)
    BY <1>3, <2>1, Zenon
  <2>7. Settled(x, y, n)
    BY <1>8, <2>5, <2>6, Zenon DEF Settled
  <2>8. \A z \in Trackers : used'[z] + children'[z] <= reservation'[z] /\ reservation'[z] <= Limit[z]
    BY <1>1, <1>7, <2>4, <2>5, Zenon
  <2>9. Bounds' /\ MemAgrees'
    BY <1>1, <1>4, <2>8, Zenon DEF Bounds, MemAgrees
  <2>10. Passed'
    BY <1>1, <1>3, <1>4, <2>5, Zenon DEF Passed
  <2> QED
    BY <2>5, <2>7, <2>9, <2>10, Zenon
<1>9. CASE ToSub(x, y)
  <2>1. x \notin Subs
    BY <1>9, ToSubFacts, Zenon
  <2>2. children' = [children EXCEPT ![x] = children[x] + n]
    BY <1>3, <1>6, <1>9, <2>1
  <2>3. n <= Unused(x)
    BY <1>2, <1>3, <1>9, Zenon
  <2>4. children[x] + n \in Nat /\ used[x] + (children[x] + n) <= reservation[x]
    <3>1. children[x] \in Nat /\ used[x] \in Nat /\ reservation[x] \in Nat
      BY <1>2, <1>5, Zenon
    <3>2. n <= reservation[x] - used[x] - children[x]
      BY <2>3, Zenon DEF Unused
    <3> QED
      BY <1>2, <3>1, <3>2, SMT
  <2>5. /\ children' \in [Trackers -> Nat] /\ children'[x] = children[x] + n
        /\ \A z \in Trackers : z # x => children'[z] = children[z]
    BY <1>2, <1>5, <2>2, <2>4
  <2>6. ~ToParent(x, y)
    BY <1>3, <2>1, Zenon
  <2>7. Settled(x, y, n)
    BY <1>9, <2>5, <2>6, Zenon DEF Settled
  <2>8. \A z \in Trackers : used'[z] + children'[z] <= reservation'[z] /\ reservation'[z] <= Limit[z]
    BY <1>1, <1>7, <2>4, <2>5, Zenon
  <2>9. Bounds' /\ MemAgrees'
    BY <1>1, <1>4, <2>8, Zenon DEF Bounds, MemAgrees
  <2>10. Passed'
    BY <1>1, <1>3, <1>4, <2>5, Zenon DEF Passed
  <2> QED
    BY <2>5, <2>7, <2>9, <2>10, Zenon
<1>10. CASE Across(x, y)
  <2>1. x \notin Subs /\ y \notin Subs
    BY <1>10, AcrossFacts, Zenon
  <2>2. children' = children
    BY <1>3, <1>6, <2>1
  <2>3. Settled(x, y, n)
    BY <1>3, <2>1, <2>2, Zenon DEF Settled
  <2>4. Bounds' /\ MemAgrees' /\ Passed'
    BY <1>1, <1>4, <2>2, Zenon DEF Bounds, MemAgrees, Passed
  <2> QED
    BY <1>5, <2>2, <2>3, <2>4, Zenon
<1> QED
  BY <1>2, <1>8, <1>9, <1>10, Zenon DEF Transferable

LEMMA SettleSums ==
    ASSUME IInv, NEW t \in Threads, Settle(t), NEW o, o = th[t],
           NEW x, x = o.src, NEW y, y = o.dst, NEW n, n = o.bytes,
           \A c \in Trackers : c \notin Held(t) => Pending(c)' = Pending(c),
           \A c \in Held(t) : Pending(c)' = 0,
           NEW p \in Trackers
    PROVE  SumStep(Children(p), children[p], children'[p], Share, Share')
<1>1. o.pc = "settle" /\ reservation' = reservation
  BY Zenon DEF Settle
<1>2. Settled(x, y, n)
  BY SettleNumbers, Zenon
<1>3. Transferable(x, y) /\ n \in Nat /\ x \in Trackers /\ y \in Trackers /\ x # y
  BY <1>1, SettlePlace, TransferableFacts, Zenon
<1>4. /\ ToParent(x, y) => Held(t) = {x} /\ Pending(x) = n
      /\ ToSub(x, y) => Held(t) = {y} /\ Pending(y) = 0 - n
      /\ Across(x, y) => \A c \in Held(t) : Pending(c) = 0
  BY <1>1, SettlePending
<1>5. \A z \in Trackers : reservation[z] \in Nat /\ children[z] \in Nat
  BY DEF IInv, TypeOK
<1>6. ASSUME NEW c \in Children(p), c \notin Held(t)
      PROVE  Share'[c] = Share[c]
  <2>1. c \in Trackers
    BY Zenon DEF Children
  <2> QED
    BY <1>1, <1>6, <2>1, ShareIs, Zenon
<1>7. CASE ToParent(x, y)
  <2>1. Parent(x) = y /\ x # Root
    BY <1>7, ToParentFacts, Zenon
  <2>2. ~ToSub(x, y)
    BY <1>7, ToParentFacts, ToSubFacts, Zenon
  <2>3. Share[x] = reservation[x] + n /\ Share'[x] = reservation[x] + 0
    BY <1>1, <1>3, <1>4, <1>7, ShareIs, Zenon
  <2>4. CASE p = y
    <3>1. x \in Children(p)
      BY <1>3, <2>1, <2>4, Zenon DEF Children
    <3>2. children'[p] = children[p] - n
      BY <1>2, <1>7, <2>4, Zenon DEF Settled
    <3>3. reservation[x] \in Nat /\ children[p] \in Nat
      BY <1>3, <1>5, Zenon
    <3>4. children'[p] = children[p] + Share'[x] - Share[x]
      BY <1>3, <2>3, <3>2, <3>3, SMT
    <3>5. \A d \in Children(p) : d # x => Share'[d] = Share[d]
      BY <1>4, <1>6, <1>7, Zenon
    <3> QED
      BY <3>1, <3>4, <3>5, Zenon DEF SumStep, OneChange
  <2>5. CASE p # y
    <3>1. x \notin Children(p)
      BY <2>1, <2>5, Zenon DEF Children
    <3>2. children'[p] = children[p]
      BY <1>2, <2>2, <2>5, Zenon DEF Settled
    <3>3. \A d \in Children(p) : Share'[d] = Share[d]
      BY <1>4, <1>6, <1>7, <3>1, Zenon
    <3> QED
      BY <3>2, <3>3, Zenon DEF SumStep, NoChange
  <2> QED
    BY <2>4, <2>5, Zenon
<1>8. CASE ToSub(x, y)
  <2>1. Parent(y) = x /\ y # Root
    BY <1>8, ToSubFacts, Zenon
  <2>2. ~ToParent(x, y)
    BY <1>8, ToParentFacts, ToSubFacts, Zenon
  <2>3. Share[y] = reservation[y] + (0 - n) /\ Share'[y] = reservation[y] + 0
    BY <1>1, <1>3, <1>4, <1>8, ShareIs, Zenon
  <2>4. CASE p = x
    <3>1. y \in Children(p)
      BY <1>3, <2>1, <2>4, Zenon DEF Children
    <3>2. children'[p] = children[p] + n
      BY <1>2, <1>8, <2>4, Zenon DEF Settled
    <3>3. reservation[y] \in Nat /\ children[p] \in Nat
      BY <1>3, <1>5, Zenon
    <3>4. children'[p] = children[p] + Share'[y] - Share[y]
      BY <1>3, <2>3, <3>2, <3>3, SMT
    <3>5. \A d \in Children(p) : d # y => Share'[d] = Share[d]
      BY <1>4, <1>6, <1>8, Zenon
    <3> QED
      BY <3>1, <3>4, <3>5, Zenon DEF SumStep, OneChange
  <2>5. CASE p # x
    <3>1. y \notin Children(p)
      BY <2>1, <2>5, Zenon DEF Children
    <3>2. children'[p] = children[p]
      BY <1>2, <2>2, <2>5, Zenon DEF Settled
    <3>3. \A d \in Children(p) : Share'[d] = Share[d]
      BY <1>4, <1>6, <1>8, <3>1, Zenon
    <3> QED
      BY <3>2, <3>3, Zenon DEF SumStep, NoChange
  <2> QED
    BY <2>4, <2>5, Zenon
<1>9. CASE Across(x, y)
  <2>1. ~ToParent(x, y) /\ ~ToSub(x, y)
    BY <1>9, AcrossFacts, ToParentFacts, ToSubFacts, Zenon
  <2>2. children'[p] = children[p]
    BY <1>2, <2>1, Zenon DEF Settled
  <2>3. ASSUME NEW d \in Children(p), d \in Held(t)
        PROVE  Share'[d] = Share[d]
    <3>1. d \in Trackers /\ Pending(d) = 0 /\ Pending(d)' = 0
      BY <1>4, <1>9, <2>3, Zenon DEF Children
    <3> QED
      BY <1>1, <3>1, ShareIs, Zenon
  <2> QED
    BY <1>6, <2>2, <2>3, Zenon DEF SumStep, NoChange
<1> QED
  BY <1>3, <1>7, <1>8, <1>9, Zenon DEF Transferable

LEMMA SettleQuiet ==
    ASSUME IInv, NEW t \in Threads, Settle(t), OnlyThread(t), th'[t].dst = Root,
           \/ initialLock' = initialLock
           \/ initialLock = t /\ initialLock' = NoThread
    PROVE  Quiet(t)
<1>1. PICK o : o = th[t]
  OBVIOUS
<1>2. PICK x : x = o.src
  OBVIOUS
<1>3. PICK y : y = o.dst
  OBVIOUS
<1>4. PICK n : n = o.bytes
  OBVIOUS
<1>5. o.pc = "settle" /\ reservation' = reservation /\ used' = used
  BY <1>1, Zenon DEF Settle
<1>6. Settled(x, y, n)
  BY <1>1, <1>2, <1>3, <1>4, SettleNumbers, Zenon
<1>7. Uses(t, x) /\ n \in Nat /\ TypeOK
  BY <1>1, <1>2, <1>4, <1>5, SettlePlace, Zenon DEF IInv
<1>8. ASSUME NEW z \in Owned
      PROVE  Unused(z) <= Unused(z)' \/ Uses(t, z)
  <2>1. z \in Trackers
    BY ClientFacts, InitialFacts, Zenon DEF Owned
  <2>2. reservation[z] \in Nat /\ used[z] \in Nat /\ children[z] \in Nat
    BY <1>7, <2>1 DEF TypeOK
  <2>3. CASE z = x
    BY <1>7, <2>3, Zenon
  <2>4. CASE ToParent(x, y) /\ z = y
    <3>1. children'[z] = children[z] - n
      BY <1>6, <2>4, Zenon DEF Settled
    <3>2. /\ Unused(z) = reservation[z] - used[z] - children[z]
          /\ Unused(z)' = reservation[z] - used[z] - (children[z] - n)
      BY <1>5, <3>1, Zenon DEF Unused
    <3>3. Unused(z) <= Unused(z)'
      BY <1>7, <2>2, <3>2, SMT
    <3> QED
      BY <3>3, Zenon
  <2>5. CASE z # x /\ ~(ToParent(x, y) /\ z = y)
    <3>1. children'[z] = children[z]
      BY <1>6, <2>1, <2>5, Zenon DEF Settled
    <3>2. Unused(z)' = Unused(z) /\ Unused(z) \in Int
      BY <1>5, <1>7, <2>1, <3>1, UnusedType, Zenon DEF Unused
    <3> QED
      BY <3>2, SMT
  <2> QED
    BY <2>3, <2>4, <2>5, Zenon
<1> QED
  BY <1>5, <1>8, Zenon DEF Quiet

LEMMA SettleInductive ==
    ASSUME IInv, NEW t \in Threads, Settle(t)
    PROVE  IInv'
<1>1. PICK o : o = th[t]
  OBVIOUS
<1>2. PICK x : x = o.src
  OBVIOUS
<1>3. PICK y : y = o.dst
  OBVIOUS
<1>4. PICK n : n = o.bytes
  OBVIOUS
<1>5. PICK e : e = reservation[Initial] - remaining
  OBVIOUS
<1>6. /\ o.pc = "settle" /\ reservation' = reservation /\ used' = used /\ mem' = mem
      /\ other' = other /\ remaining' = remaining
      /\ \/ /\ y = Initial /\ e > 0 /\ lock' = Unlocked(t) /\ initialLock' = initialLock
            /\ th' = [th EXCEPT ![t] = Decreasing(Initial, e)]
         \/ ~(y = Initial /\ e > 0) /\ Done(t)
  BY <1>1, <1>3, <1>5, Zenon DEF Settle, Decreasing
<1>7. /\ children' \in [Trackers -> Nat] /\ Bounds' /\ MemAgrees' /\ Passed'
      /\ Settled(x, y, n)
  BY <1>1, <1>2, <1>3, <1>4, SettleNumbers, Zenon
<1>8. /\ Transferable(x, y) /\ (initialLock = t <=> Initial \in {x, y}) /\ n \in Nat
      /\ x \in Trackers /\ y \in Trackers
  BY <1>1, <1>2, <1>3, <1>4, <1>6, SettlePlace, Zenon
<1>9. TypeOK /\ InitialAgrees /\ Passed /\ SumsAgree /\ \A s \in Threads : Working(s)
  BY Zenon DEF IInv
<1>10. t # NoThread
  BY ThreadFacts, Zenon
<1>11. initialLock = t => InitialOwed = IF y = Initial THEN n ELSE 0
  BY <1>1, <1>3, <1>4, <1>6, <1>10 DEF InitialOwed
<1>12. remaining \in Nat /\ reservation[Initial] \in Nat /\ Initial \in Trackers
  <2>1. remaining \in 0..Claims /\ reservation \in [Trackers -> Nat]
    BY <1>9, Zenon DEF TypeOK
  <2>2. Initial \in Trackers
    BY InitialFacts, Zenon
  <2> QED
    BY <2>1, <2>2, NumberFacts, SMT
<1>13. CASE /\ y = Initial /\ e > 0 /\ lock' = Unlocked(t) /\ initialLock' = initialLock
            /\ th' = [th EXCEPT ![t] = Decreasing(Initial, e)]
  <2>1. e \in Nat /\ e <= reservation[Initial] /\ reservation[Initial] = remaining + e
    BY <1>5, <1>12, <1>13, SMT
  <2>2. PICK q : q = Decreasing(Initial, e)
    OBVIOUS
  <2>3. /\ q \in Operation /\ q.pc = "release" /\ q.src = Initial /\ q.at = Initial /\ q.ask = e
        /\ q.dst = Root
    BY <1>12, <2>1, <2>2, DecreaseOp
  <2>4. th' = [th EXCEPT ![t] = q] /\ lock' = Unlocked(t) /\ initialLock' = initialLock
    BY <1>13, <2>2, Zenon
  <2>5. /\ OnlyThread(t) /\ th'[t] = q /\ Held(t)' = {}
        /\ th' \in [Threads -> Operation] /\ lock' \in [Trackers -> Threads \cup {NoThread}]
        /\ \A c \in Trackers : c \notin Held(t) => Pending(c)' = Pending(c)
        /\ \A c \in Held(t) : Pending(c)' = 0
    BY <1>9, <2>3, <2>4, UnlockAllStep, Zenon
  <2>6. TypeOK'
    BY <1>6, <1>7, <1>9, <2>4, <2>5, Zenon DEF TypeOK
  <2>7. initialLock = t
    BY <1>8, <1>13, Zenon
  <2>8. Quiet(t)
    BY <2>3, <2>4, <2>5, SettleQuiet, Zenon
  <2>9. Unused(Initial)' = reservation[Initial]
    <3>1. Unused(Initial) = reservation[Initial]
      BY <1>9, UnusedInitial, Zenon
    <3>2. ~ToParent(x, y) /\ ~ToSub(x, y)
      BY <1>13, ToParentFacts, ToSubFacts, Zenon
    <3>3. children'[Initial] = children[Initial]
      BY <1>7, <1>12, <3>2, Zenon DEF Settled
    <3> QED
      BY <1>6, <3>1, <3>3, Zenon DEF Unused
  <2>10. Working(t)'
    <3>1. MineOK(t)'
      BY <2>3, <2>4, <2>5, <2>7, Zenon DEF MineOK, Uses
    <3>2. Initial \in OnPath(Initial)
      BY <1>12, TreeSelf, Zenon
    <3>3. Held(t)' = OnPath(Initial) \ OnPath(Initial)
      BY <2>5, Zenon
    <3>4. PICK u : u = Unused(Initial)'
      OBVIOUS
    <3>5. e <= u
      BY <2>1, <2>9, <3>4, Zenon
    <3>6. ReleaseOK(t)'
      BY <2>3, <2>5, <3>2, <3>3, <3>4, <3>5, Zenon DEF ReleaseOK
    <3> QED
      BY <2>3, <2>5, <3>1, <3>6, WorkingRelease, Zenon
  <2>11. InitialAgrees'
    <3>1. InitialOwed' = e
      BY <1>10, <2>3, <2>4, <2>5, <2>7 DEF InitialOwed
    <3> QED
      BY <1>6, <2>1, <3>1, Zenon DEF InitialAgrees
  <2>12. \A p \in Trackers : SumStep(Children(p), children[p], children'[p], Share, Share')
    BY <1>1, <2>5, SettleSums, Zenon
  <2> QED
    BY <1>7, <2>6, <2>8, <2>10, <2>11, <2>12, FinishStep, Zenon
<1>14. CASE ~(y = Initial /\ e > 0) /\ Done(t)
  <2>1. /\ OnlyThread(t) /\ th'[t] = Idle /\ Held(t)' = {} /\ initialLock' # t
        /\ th' \in [Threads -> Operation] /\ lock' \in [Trackers -> Threads \cup {NoThread}]
        /\ initialLock' \in Threads \cup {NoThread}
        /\ initialLock = t => initialLock' = NoThread
        /\ initialLock # t => initialLock' = initialLock
        /\ Working(t)' /\ th'[t].dst = Root
        /\ \A c \in Trackers : c \notin Held(t) => Pending(c)' = Pending(c)
        /\ \A c \in Held(t) : Pending(c)' = 0
    BY <1>9, <1>14, DoneStep, Zenon
  <2>2. TypeOK'
    BY <1>6, <1>7, <1>9, <2>1, Zenon DEF TypeOK
  <2>3. Quiet(t)
    BY <2>1, SettleQuiet, Zenon
  <2>4. InitialAgrees'
    <3>1. CASE initialLock # t
      BY <1>6, <1>9, <2>1, <3>1, InitialFrame, Zenon
    <3>2. CASE initialLock = t
      <4>1. InitialOwed' = 0
        BY <2>1, <3>2, Zenon DEF InitialOwed
      <4>2. InitialOwed = 0
        <5>1. CASE y = Initial
          <6>1. reservation[Initial] = remaining + n
            BY <1>9, <1>11, <3>2, <5>1, Zenon DEF InitialAgrees
          <6>2. ~(e > 0)
            BY <1>14, <5>1, Zenon
          <6>3. n = 0
            BY <1>5, <1>8, <1>12, <6>1, <6>2, SMT
          <6> QED
            BY <1>11, <3>2, <5>1, <6>3, Zenon
        <5>2. CASE y # Initial
          BY <1>11, <3>2, <5>2, Zenon
        <5> QED
          BY <5>1, <5>2, Zenon
      <4> QED
        BY <1>6, <1>9, <4>1, <4>2, Zenon DEF InitialAgrees
    <3> QED
      BY <3>1, <3>2, Zenon
  <2>5. \A p \in Trackers : SumStep(Children(p), children[p], children'[p], Share, Share')
    BY <1>1, <2>1, SettleSums, Zenon
  <2> QED
    BY <1>7, <2>1, <2>2, <2>3, <2>4, <2>5, FinishStep, Zenon
<1> QED
  BY <1>6, <1>13, <1>14, Zenon

-----------------------------------------------------------------------------
(***************************************************************************)
(* The start: a query that has its initial reservation.                    *)
(***************************************************************************)
LEMMA InitialFits ==
    ASSUME NEW z \in OnPath(Initial)
    PROVE  Claims <= Limit[z]
BY TreeOfReservations, Zenon

\* Of the children of a tracker, only the one on the path of the initial reservations has any.
LEMMA InitSums ==
    ASSUME NEW f \in [Trackers -> Nat],
           \A z \in Trackers : f[z] = IF z \in OnPath(Initial) THEN Claims ELSE 0,
           NEW p \in Trackers
    PROVE  Total(f, Children(p)) = IF p \in Ancestors(Initial) THEN Claims ELSE 0
<1>1. PICK C : C = Children(p)
  OBVIOUS
<1>2. C \in SUBSET Trackers
  BY <1>1, Zenon DEF Children
<1>3. Initial \in Trackers /\ Initial # Root /\ Children(Initial) = {} /\ Claims \in Nat
  BY InitialFacts, NumberFacts, Zenon
<1>4. CASE p \in Ancestors(Initial)
  <2>1. p \in OnPath(Initial) /\ p # Initial
    BY <1>4, Zenon DEF Ancestors
  <2>2. PICK b : b = Below(p, Initial)
    OBVIOUS
  <2>3. /\ b \in C /\ b \in OnPath(Initial)
        /\ \A c \in C : c \in OnPath(Initial) => c = b
    BY <1>1, <1>3, <2>1, <2>2, TreeBelow, Zenon
  <2>4. PICK g : g = [z \in Trackers |-> 0]
    OBVIOUS
  <2>5. g \in [Trackers -> Nat] /\ \A z \in Trackers : g[z] = 0
    BY <2>4
  <2>6. Total(g, C) = 0
    BY <1>2, <2>5, TotalZero
  <2>7. \A c \in C : c # b => g[c] = f[c]
    BY <1>2, <2>3, <2>5, Zenon
  <2>8. Total(f, C) = Total(g, C) + f[b] - g[b]
    BY <1>2, <2>3, <2>5, <2>7, TotalChange
  <2>9. f[b] = Claims /\ g[b] = 0
    BY <1>2, <2>3, <2>5, Zenon
  <2>10. Total(f, C) = Claims
    BY <1>3, <2>6, <2>8, <2>9, SMT
  <2> QED
    BY <1>1, <1>4, <2>10, Zenon
<1>5. CASE p \notin Ancestors(Initial)
  <2>1. ASSUME NEW c \in C, c \in OnPath(Initial)
        PROVE  FALSE
    <3>1. c \in Trackers /\ c # Root /\ Parent(c) = p
      BY <1>1, Zenon DEF Children
    <3>2. p \in OnPath(c)
      BY <3>1, TreeParent, Zenon
    <3>3. p \in OnPath(Initial)
      BY <1>3, <2>1, <3>2, TreeUp, Zenon
    <3>4. p # Initial
      BY <1>1, <1>3, Zenon
    <3> QED
      BY <1>5, <3>3, <3>4, Zenon DEF Ancestors
  <2>2. \A c \in C : f[c] = 0
    BY <1>2, <2>1, Zenon
  <2>3. Total(f, C) = 0
    BY <1>2, <2>2, TotalZero
  <2> QED
    BY <1>1, <1>5, <2>3, Zenon
<1> QED
  BY <1>4, <1>5, Zenon

LEMMA InitInv == Init => IInv
<1> SUFFICES ASSUME Init PROVE IInv
  OBVIOUS
<1>1. /\ Initial \in Trackers /\ Initial # Root /\ Claims \in Nat /\ MaxOther \in Nat
      /\ Linked \subseteq Trackers
  BY InitialFacts, NumberFacts, LinkedFacts, Zenon
<1>2. \A z \in Trackers : /\ reservation[z] = IF z \in OnPath(Initial) THEN Claims ELSE 0
                          /\ children[z] = IF z \in Ancestors(Initial) THEN Claims ELSE 0
                          /\ used[z] = 0 /\ lock[z] = NoThread
  BY Zenon DEF Init
<1>3. remaining = Claims /\ initialLock = NoThread /\ \A t \in Threads : th[t] = Idle
  BY Zenon DEF Init
<1>4. \A z \in Linked : mem[z] = reservation[z]
  BY Zenon DEF Init
<1>5. Initial \in OnPath(Initial)
  BY <1>1, TreeSelf, Zenon
<1>6. TypeOK
  <2>1. reservation \in [Trackers -> Nat] /\ used \in [Trackers -> Nat] /\ children \in [Trackers -> Nat]
    <3>1. 0 \in Nat
      OBVIOUS
    <3> QED
      BY <1>1, <3>1, Zenon DEF Init
  <2>2. mem \in [Linked -> Nat]
    <3>1. \A z \in Linked : reservation[z] \in Nat
      BY <1>1, <2>1, Zenon
    <3> QED
      BY <3>1, Zenon DEF Init
  <2>3. other \in [TopLinks -> 0..MaxOther]
    <3>1. 0 \in 0..MaxOther
      BY <1>1, SMT
    <3> QED
      BY <3>1, Zenon DEF Init
  <2>4. remaining \in 0..Claims
    BY <1>1, <1>3, SMT
  <2>5. lock \in [Trackers -> Threads \cup {NoThread}] /\ initialLock \in Threads \cup {NoThread}
    BY Zenon DEF Init
  <2>6. th \in [Threads -> Operation]
    BY IdleOp, Zenon DEF Init
  <2> QED
    BY <2>1, <2>2, <2>3, <2>4, <2>5, <2>6, Zenon DEF TypeOK
<1>7. Bounds
  <2>1. ASSUME NEW z \in Trackers
        PROVE  reservation[z] <= Limit[z] /\ used[z] + children[z] <= reservation[z]
    <3>1. Limit[z] \in Nat
      BY NumberFacts, Zenon
    <3>2. used[z] = 0
      BY <1>2, Zenon
    <3>3. CASE z \in OnPath(Initial)
      <4>1. reservation[z] = Claims /\ children[z] \in {0, Claims}
        BY <1>2, <3>3, Zenon
      <4>2. Claims <= Limit[z]
        BY <3>3, InitialFits, Zenon
      <4> QED
        BY <1>1, <3>1, <3>2, <4>1, <4>2, SMT
    <3>4. CASE z \notin OnPath(Initial)
      <4>1. reservation[z] = 0 /\ children[z] = 0
        BY <1>2, <3>4, Zenon DEF Ancestors
      <4> QED
        BY <3>1, <3>2, <4>1, SMT
    <3> QED
      BY <3>3, <3>4, Zenon
  <2> QED
    BY <2>1, Zenon DEF Bounds
<1>8. MemAgrees
  BY <1>4, Zenon DEF MemAgrees
<1>9. Passed
  <2>1. ASSUME NEW z \in Trackers \ Owned
        PROVE  reservation[z] = children[z]
    <3>1. z # Initial
      BY Zenon DEF Owned
    <3> QED
      BY <1>2, <3>1, Zenon DEF Ancestors
  <2> QED
    BY <1>2, <2>1, Zenon DEF Passed
<1>10. SumsAgree
  <2>1. ASSUME NEW c \in Trackers
        PROVE  Share[c] = reservation[c]
    <3>1. Pending(c) = 0
      BY <1>2, Zenon DEF Pending
    <3>2. Share[c] = reservation[c] + 0 /\ reservation[c] \in Nat
      BY <1>6, <3>1, ShareIs DEF TypeOK
    <3> QED
      BY <3>2, SMT
  <2>2. PICK f : f = Share
    OBVIOUS
  <2>3. f \in [Trackers -> Nat] /\ \A z \in Trackers : f[z] = IF z \in OnPath(Initial) THEN Claims ELSE 0
    <3>1. \A c \in Trackers : f[c] \in Nat
      BY <1>6, <2>1, <2>2 DEF TypeOK
    <3>2. f = [c \in Trackers |-> f[c]]
      BY <2>2, Zenon DEF Share
    <3> QED
      BY <1>2, <2>1, <2>2, <3>1, <3>2, Zenon
  <2>4. ASSUME NEW p \in Trackers
        PROVE  children[p] = Total(f, Children(p))
    BY <1>2, <2>3, InitSums, Zenon
  <2> QED
    BY <2>2, <2>4, Zenon DEF SumsAgree
<1>11. InitialAgrees
  <2>1. InitialOwed = 0
    BY <1>3, Zenon DEF InitialOwed
  <2>2. reservation[Initial] = Claims
    BY <1>1, <1>2, <1>5, Zenon
  <2>3. Claims = Claims + 0
    BY <1>1, SMT
  <2> QED
    BY <1>3, <2>1, <2>2, <2>3, Zenon DEF InitialAgrees
<1>12. ASSUME NEW t \in Threads
       PROVE  Working(t)
  <2>1. th[t].pc = "idle" /\ th[t] = Idle
    BY <1>3, IdleOp, Zenon
  <2>2. t # NoThread
    BY ThreadFacts, Zenon
  <2>3. Held(t) = {} /\ initialLock # t
    BY <1>2, <1>3, <2>2, Zenon DEF Held
  <2>4. MineOK(t) /\ IdleOK(t)
    BY <2>1, <2>3, Zenon DEF MineOK, IdleOK
  <2>5. /\ ClimbOK(t) /\ GrantOK(t) /\ ReleaseOK(t) /\ TransferOK(t) /\ ClaimOK(t)
        /\ SettleOK(t)
    BY <2>1 DEF ClimbOK, GrantOK, ReleaseOK, TransferOK, ClaimOK, SettleOK
  <2> QED
    BY <2>4, <2>5, Zenon DEF Working
<1> QED
  BY <1>6, <1>7, <1>8, <1>9, <1>10, <1>11, <1>12, Zenon DEF IInv

LEMMA NextInv == IInv /\ [Next]_vars => IInv'
<1> SUFFICES ASSUME IInv, [Next]_vars PROVE IInv'
  OBVIOUS
<1>1. ASSUME NEW t \in Threads,
             \/ Climb(t) \/ Grant(t) \/ Rollback(t) \/ Release(t)
             \/ LockNext(t) \/ Apply(t) \/ Settle(t)
      PROVE  IInv'
  BY <1>1, ClimbInductive, GrantInductive, RollbackInductive, ReleaseInductive,
     LockNextInductive, ApplyInductive, SettleInductive, Zenon
<1>2. ASSUME NEW t \in Threads, NEW x \in Clients, NEW n \in 1..MaxBytes,
             \/ \E f, a \in BOOLEAN : IncreaseReservation(t, x, n, f, a)
             \/ DecreaseReservation(t, x, n)
             \/ \E y \in Clients : TransferReservationTo(t, x, y, n)
             \/ Claim(t, x, n) \/ Return(t, x, n)
             \/ AllocateFrom(t, x, n) \/ ReleaseTo(t, x, n)
      PROVE  IInv'
  BY <1>2, IncreaseInductive, DecreaseInductive, TransferInductive, ClaimInductive,
     ReturnInductive, AllocateInductive, Zenon
<1>3. CASE \E x \in TopLinks, n \in 0..MaxOther : OtherMemory(x, n)
  BY <1>3, OtherInductive, Zenon
<1>4. CASE UNCHANGED vars
  <2>1. TypeOK'
    BY <1>4, Zenon DEF vars, TypeOK, IInv
  <2> QED
    BY <1>4, <2>1, SameState, Zenon DEF vars
<1> QED
  BY <1>1, <1>2, <1>3, <1>4, Zenon DEF Next

\* The inductive invariant, and with it the types, always holds.
THEOREM Invariant == Spec => []IInv
BY InitInv, NextInv, PTL DEF Spec

-----------------------------------------------------------------------------
(***************************************************************************)
(* The theorems.                                                           *)
(***************************************************************************)
\* CheckConsistency() holds in every state, also between two locks of an operation: a
\* tracker stays within its limit, and what is used and what its children have fits into
\* its reservation.
THEOREM ReservationsConsistent == Spec => []Consistent
<1>1. IInv => Consistent
  BY Zenon DEF IInv, Bounds, Consistent
<1> QED
  BY <1>1, Invariant, PTL

\* Once nothing is under way below a tracker, its child reservations are what its children
\* have, and a tracker nobody owns keeps nothing: refused increases, roll-backs, transfers
\* and decreases leave no byte behind.
THEOREM ChildrenAlwaysAddUp == Spec => []ChildrenAddUp
<1>1. IInv => ChildrenAddUp
  <2> SUFFICES ASSUME IInv PROVE ChildrenAddUp
    OBVIOUS
  <2>1. TypeOK /\ Passed /\ SumsAgree /\ \A s \in Threads : Working(s)
    BY Zenon DEF IInv
  <2>2. PICK f \in [Trackers -> Nat] : f = Share
    BY <2>1, ShareType
  <2>3. PICK r \in [Trackers -> Nat] : r = reservation
    BY <2>1, Zenon DEF TypeOK
  <2>4. ASSUME NEW p \in Trackers, \A c \in Children(p) : lock[c] = NoThread
        PROVE  children[p] = Total(reservation, Children(p))
    <3>1. PICK C : C = Children(p)
      OBVIOUS
    <3>2. C \in SUBSET Trackers
      BY <3>1, Zenon DEF Children
    <3>3. ASSUME NEW c \in C
          PROVE  f[c] = r[c]
      <4>1. c \in Trackers /\ Pending(c) = 0
        BY <2>4, <3>1, <3>2, Zenon DEF Pending
      <4>2. f[c] = r[c] + 0 /\ r[c] \in Nat
        BY <2>2, <2>3, <4>1, ShareIs
      <4> QED
        BY <4>2, SMT
    <3>4. Total(f, C) = Total(r, C)
      BY <3>2, <3>3, TotalFrame
    <3>5. children[p] = Total(f, C)
      BY <2>1, <2>2, <3>1, Zenon DEF SumsAgree
    <3> QED
      BY <2>3, <3>1, <3>4, <3>5, Zenon
  <2>5. ASSUME NEW p \in Trackers \ (Clients \cup {Initial})
        PROVE  reservation[p] = children[p] /\ used[p] = 0
    BY <2>1, Zenon DEF Passed, Owned, TopClients
  <2> QED
    BY <2>4, <2>5, Zenon DEF ChildrenAddUp
<1> QED
  BY <1>1, Invariant, PTL

\* The linked MemTrackers show the reservations, level by level, and between two claims or
\* returns the initial reservations are exactly what is still to be claimed.
THEOREM AccountsAlwaysAgree == Spec => []AccountsAgree
<1>1. IInv => AccountsAgree
  <2> SUFFICES ASSUME IInv PROVE AccountsAgree
    OBVIOUS
  <2>1. TypeOK /\ MemAgrees /\ InitialAgrees
    BY Zenon DEF IInv
  <2>2. ASSUME initialLock = NoThread
        PROVE  reservation[Initial] = remaining
    <3>1. InitialOwed = 0
      BY <2>2, Zenon DEF InitialOwed
    <3>2. reservation[Initial] = remaining + 0
      BY <2>1, <3>1, Zenon DEF InitialAgrees
    <3>3. remaining \in 0..Claims
      BY <2>1, Zenon DEF TypeOK
    <3> QED
      BY <3>2, <3>3, NumberFacts, SMT
  <2> QED
    BY <2>1, <2>2, Zenon DEF AccountsAgree, MemAgrees
<1> QED
  BY <1>1, Invariant, PTL

\* On one path the trackers that are locked already come before the one above them.
LEMMA PathHeldBefore ==
    ASSUME NEW x \in Trackers, NEW a \in OnPath(x), NEW h \in OnPath(x) \ OnPath(a)
    PROVE  Before(h, a)
<1>1. a \in Trackers /\ h \in Trackers
  BY TreeUp, Zenon
<1>2. a # h
  BY <1>1, TreeSelf, Zenon
<1>3. Depth(h) \in Nat /\ Depth(a) \in Nat
  BY <1>1, TreeSelf, Zenon
<1>4. ~(Depth(h) <= Depth(a))
  BY TreeLinear, Zenon
<1>5. Depth(a) <= Depth(h)
  BY <1>3, <1>4, SMT
<1>6. a \in OnPath(h)
  BY <1>5, TreeLinear, Zenon
<1> QED
  BY <1>2, <1>6, Zenon DEF Before

\* A thread that waits for a lock has only locks that come before it.
LEMMA WaitsInOrder ==
    ASSUME IInv, NEW t \in Threads, Waits(t) \in Threads
    PROVE  \E w \in Trackers : Waits(t) = lock[w] /\ \A h \in Held(t) : Before(h, w)
<1>1. TypeOK /\ ClimbOK(t) /\ ReleaseOK(t)
  BY Zenon DEF IInv, Working
<1>2. PICK o : o = th[t]
  OBVIOUS
<1>3. o \in Operation
  BY <1>1, <1>2, Zenon DEF TypeOK
<1>4. o.src \in Trackers /\ o.at \in Trackers
  BY <1>3, OpFields
<1>5. CASE o.pc \in {"climb", "release"}
  <2>1. o.at \in OnPath(o.src) /\ Held(t) = OnPath(o.src) \ OnPath(o.at)
    <3>1. CASE o.pc = "climb"
      BY <1>1, <1>2, <3>1, Zenon DEF ClimbOK
    <3>2. CASE o.pc = "release"
      BY <1>1, <1>2, <3>2, Zenon DEF ReleaseOK
    <3> QED
      BY <1>5, <3>1, <3>2, Zenon
  <2>2. Waits(t) = lock[o.at]
    BY <1>2, <1>5 DEF Waits
  <2>3. \A h \in Held(t) : Before(h, o.at)
    BY <1>4, <2>1, PathHeldBefore, Zenon
  <2> QED
    BY <1>4, <2>2, <2>3, Zenon
<1>6. CASE o.pc = "transfer" /\ o.todo # <<>>
  <2>1. PICK l : l = LockOrder(o.src, o.dst)
    OBVIOUS
  <2>2. Taken(l, o.todo, Held(t)) /\ l \in Seq(Trackers) /\ Ordered(l)
    BY <1>2, <1>6, <2>1, TransferPlace, Zenon
  <2>3. Head(o.todo) \in Trackers /\ \A h \in Held(t) : Before(h, Head(o.todo))
    BY <1>6, <2>2, TakenStep, Zenon
  <2>4. Waits(t) = lock[Head(o.todo)]
    BY <1>2, <1>6 DEF Waits
  <2> QED
    BY <2>3, <2>4, Zenon
<1>7. CASE ~(o.pc \in {"climb", "release"}) /\ ~(o.pc = "transfer" /\ o.todo # <<>>)
  <2>1. Waits(t) = NoThread
    BY <1>2, <1>7 DEF Waits
  <2> QED
    BY <2>1, ThreadFacts, Zenon
<1> QED
  BY <1>5, <1>6, <1>7, Zenon

\* No threads wait for each other in a circle, however increases, decreases, roll-backs and
\* transfers of any number of threads meet on any tree: a thread only waits for a lock that
\* comes after all it has, in one order for everybody.
THEOREM LocksNeverCycle == Spec => []NoLockCycle
<1>1. IInv => NoLockCycle
  <2> SUFFICES ASSUME IInv, NEW S \in (SUBSET Threads) \ {{}}, \A t \in S : Waits(t) \in S
               PROVE  FALSE
    BY Zenon DEF NoLockCycle
  <2>1. ASSUME NEW t \in S
        PROVE  \E w \in Trackers : Waits(t) = lock[w] /\ \A h \in Held(t) : Before(h, w)
    BY WaitsInOrder, Zenon
  <2>2. PICK W : W = {w \in Trackers : lock[w] \in S}
    OBVIOUS
  <2>3. W \in SUBSET Trackers /\ W # {}
    <3>1. PICK t \in S : TRUE
      BY Zenon
    <3> QED
      BY <2>1, <2>2, <3>1, Zenon
  <2>4. PICK w \in W : \A v \in W : ~Before(w, v)
    BY <2>3, LastInOrder, Zenon
  <2>5. PICK s \in S : s = lock[w]
    BY <2>2, <2>4, Zenon
  <2>6. w \in Held(s)
    BY <2>2, <2>5, Zenon DEF Held
  <2>7. PICK v \in Trackers : Waits(s) = lock[v] /\ Before(w, v)
    BY <2>1, <2>6, Zenon
  <2>8. v \in W
    BY <2>2, <2>7, Zenon
  <2> QED
    BY <2>4, <2>7, <2>8, Zenon
<1> QED
  BY <1>1, Invariant, PTL
===============================================================================

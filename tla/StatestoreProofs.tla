--------------------------- MODULE StatestoreProofs ---------------------------
(***************************************************************************)
(* Proofs about the statestored and its subscribers, for any number of     *)
(* subscribers, registrations, processes, statestoreds and faults.         *)
(*                                                                         *)
(* IInv, the bookkeeping, is inductive by itself and has no hypothesis;    *)
(* RegisteredIsScheduled follows from it.  On top of it, each inductive    *)
(* together with what is below it:                                         *)
(*                                                                         *)
(*   - LeakInv, for NoLeakedEntries: a full queue takes a registration out *)
(*     of the map and leaves its entries, so the queues have room for all  *)
(*     registrations;                                                      *)
(*   - CopyInv, for CopyIsTopicAtVersion: a handler that stalls between    *)
(*     its registration check and its lock may apply the update of one     *)
(*     registration under another, so none does;                           *)
(*   - LastInv, for LastIsProcessed: a registration that is executed late  *)
(*     replaces the one the process knows and gets its updates             *)
(*     acknowledged by a failed check, so there is none.                   *)
(***************************************************************************)
EXTENDS Statestore, FiniteSetTheorems, TLAPS

-----------------------------------------------------------------------------
(* The inductive invariants.                                               *)

(***************************************************************************)
(* A topic whose log lists every entry exactly once, under its version.    *)
(***************************************************************************)
Sound(t) ==
    /\ t.log = {<<t.entries[k].version, k>> : k \in {j \in BackendIds : HasEntry(t, j)}}
    /\ \A k, j \in BackendIds :
          HasEntry(t, k) /\ t.entries[k].version = t.entries[j].version => k = j
    /\ \A k \in BackendIds : t.entries[k].version <= t.last
    /\ t.log # {} => \E k \in BackendIds : <<t.last, k>> \in t.log

\* The registrations: the current one of an id is its own, is not unregistered and has
\* both chains; chains and calls are of registrations that were made; a worker waits for
\* every live call, for one at a time.
RegInv ==
    /\ \A s \in Subs : LET r == subscribers[s] IN r # 0 =>
          /\ r < nextReg /\ regs[r].sub = s /\ ~regs[r].unregistered
          /\ upd[r].pc # "none" /\ r \in hb
    /\ \A r \in RegIds : upd[r].pc # "none" \/ r \in hb => r < nextReg /\ regs[r].sub \in Subs
    /\ \A c \in calls : /\ c.reg < nextReg /\ regs[c.reg].sub \in Subs
                        /\ c.live => upd[c.reg].pc = "calling"
    /\ \A c, d \in calls : c.live /\ d.live /\ c.reg = d.reg => c = d

\* The answer of a handler: an entry has a key, and "acked" has something to do.
ChainInv ==
    \A r \in RegIds :
        /\ upd[r].item # "none" => upd[r].key \in BackendIds
        /\ upd[r].pc = "acked" => upd[r].from # -1 \/ upd[r].item # "none"
        /\ upd[r].pc \in {"put", "unwanted"} => upd[r].key \in BackendIds

\* A process that ended can be started again.
ProcInv == \A s \in Subs : ~sub[s].up => sub[s].inc < MaxInc

IInv == TypeOK /\ Sound(topic) /\ RegInv /\ ChainInv /\ ProcInv

(***************************************************************************)
(* No entry leaks while no queue is full: a chain is of a registration     *)
(* that is current or marked as unregistered; what is recorded, or is      *)
(* about to be, is not newer than the topic, and what a worker holds is    *)
(* newer than what is recorded.                                            *)
(***************************************************************************)
Recorded(r, k) == Current(r) /\ regs[r].transient[k] = topic.entries[k].version

Pending(r) == upd[r].pc \in {"put", "unwanted"}

PendingEntry(r, k) ==
    Pending(r) /\ upd[r].key = k /\ upd[r].version = topic.entries[k].version

LeakInv ==
    /\ \A r \in RegIds : upd[r].pc # "none" => Current(r) \/ regs[r].unregistered
    /\ \A r \in RegIds : Current(r) => \A k \in BackendIds : regs[r].transient[k] <= topic.last
    /\ \A r \in RegIds : Pending(r) =>
          /\ upd[r].version <= topic.entries[upd[r].key].version
          /\ Current(r) => regs[r].transient[upd[r].key] < upd[r].version
    /\ \A k \in BackendIds : View(topic)[k] # "none" =>
          \E r \in RegIds : Recorded(r, k) \/ PendingEntry(r, k)

(***************************************************************************)
(* The copies, while no handler stalls between its check and its lock: an  *)
(* update says the truth about every entry not changed since it was built, *)
(* a copy about every entry not changed since it was updated, and a        *)
(* registration that was acknowledged is of the statestored the copy of    *)
(* its process comes from.                                                 *)
(***************************************************************************)
TrueDelta(t, d) ==
    /\ d.is_delta <=> d.from > 0
    /\ d.to <= t.last
    /\ \A k \in BackendIds :
          IF HasEntry(t, k)
            THEN t.entries[k].version <= d.to =>
                   d.items[k] = IF t.entries[k].version <= d.from THEN "no item"
                                ELSE IF ~t.entries[k].deleted THEN t.entries[k].value
                                ELSE IF d.is_delta THEN "deleted" ELSE "no item"
            ELSE d.items[k] = "no item"

TrueCopy(t, copy, version) ==
    /\ version <= t.last
    /\ \A k \in BackendIds :
          IF HasEntry(t, k)
            THEN t.entries[k].version <= version => copy[k] = View(t)[k]
            ELSE copy[k] = "none"

Acknowledged(r) ==
    \/ regs[r].last > 0 \/ upd[r].pc \in {"replied", "acked"}
    \/ \E c \in calls : c.reg = r /\ c.delta.is_delta

ProcessCopy(s) ==
    /\ sub[s].source <= epoch
    /\ sub[s].source # 0 => sub[s].version # -1
    /\ sub[s].mode = "running" => sub[s].reg # 0 /\ sub[s].resp.reg = 0
    /\ sub[s].resp.reg # 0 => sub[s].reg = 0
    /\ \A r \in {sub[s].reg, sub[s].resp.reg} \ {0} :
          /\ r < nextReg /\ regs[r].sub = s
          /\ Acknowledged(r) => sub[s].source = regs[r].epoch
    /\ sub[s].source = epoch => TrueCopy(topic, sub[s].copy, sub[s].version)

CallCopy(c) ==
    /\ c.stage = "checked" /\ SubOf(c).mode = "running" => c.reg = SubOf(c).reg
    /\ regs[c.reg].epoch = epoch => TrueDelta(topic, c.delta)

CopyInv ==
    /\ \A r \in RegIds : regs[r].epoch <= epoch
    /\ \A s \in Subs : ProcessCopy(s)
    /\ \A c \in calls : CallCopy(c)

(***************************************************************************)
(* What the statestored believes a subscriber has processed, when besides  *)
(* no registration is executed late: a process knows no other registration *)
(* than the current one of its id, and an answer of its handlers speaks of *)
(* versions it has processed.                                              *)
(***************************************************************************)
Mine(s) == subscribers[s] # 0 /\ sub[s].inc = regs[subscribers[s]].inc

ChainLast(r) ==
    /\ upd[r].pc = "replied" /\ upd[r].from = -1 => upd[r].to <= ProcessedOf(r)
    /\ upd[r].pc \in {"replied", "acked"} /\ upd[r].from # -1 => upd[r].from <= ProcessedOf(r)
    /\ regs[r].last <= ProcessedOf(r) \/ (upd[r].pc = "acked" /\ upd[r].from # -1)

OwnLast(s) ==
    Mine(s) => /\ sub[s].reg \in {0, subscribers[s]} /\ sub[s].resp.reg \in {0, subscribers[s]}
               /\ ChainLast(subscribers[s])

CallTo == \A c \in calls : c.live => upd[c.reg].to = c.delta.to

LastInv ==
    /\ late = {} /\ CallTo
    /\ \A r \in RegIds : regs[r].sub \in Subs => regs[r].inc <= sub[regs[r].sub].inc
    /\ \A s \in Subs : sub[s].version <= sub[s].processed /\ OwnLast(s)

-----------------------------------------------------------------------------
(***************************************************************************)
(* The topic.                                                              *)
(***************************************************************************)
\* What a critical section of the topic's lock does to it: an entry that changes gets a
\* version above all there were.
Later(t, w) ==
    /\ w \in Topics /\ Sound(w)
    /\ t.last <= w.last
    /\ \A k \in BackendIds :
          \/ w.entries[k] = t.entries[k]
          \/ t.last < w.entries[k].version /\ HasEntry(w, k)

LEMMA BackendIdsFinite == IsFiniteSet(BackendIds)
<1>1. IsFiniteSet(1..MaxInc)
  BY StatestoreConstants, FS_Interval
<1>2. IsFiniteSet(Subs)
  BY StatestoreConstants
<1> QED
  BY <1>1, <1>2, FS_Product DEF BackendIds

\* The entries of D change, and the log follows.
Changed(t, w, D) ==
    /\ \A k \in BackendIds \ D : w.entries[k] = t.entries[k]
    /\ \A k \in D : t.last < w.entries[k].version /\ w.entries[k].version <= w.last
    /\ \A k, j \in D : w.entries[k].version = w.entries[j].version => k = j
    /\ w.log = {e \in t.log : e[2] \notin D} \cup {<<w.entries[k].version, k>> : k \in D}
    /\ D = {} => w.last = t.last
    /\ D # {} => \E k \in D : w.entries[k].version = w.last

\* Topic::Put() of an entry.
Replaced(t, k, e) ==
    [entries |-> [t.entries EXCEPT ![k] = e],
     log |-> (IF HasEntry(t, k) THEN {x \in t.log : x[1] # t.entries[k].version}
              ELSE t.log) \cup {<<t.last + 1, k>>},
     last |-> t.last + 1]

\* A topic that is in order stays so when some of its entries change.
LEMMA ChangeSound ==
    ASSUME NEW t \in Topics, Sound(t), NEW w \in Topics, NEW D \in SUBSET BackendIds,
           Changed(t, w, D)
    PROVE  Later(t, w)
<1> USE DEF Changed
<1>1. /\ t.last \in Nat /\ w.last \in Nat
      /\ \A k \in BackendIds : t.entries[k].version \in Nat /\ w.entries[k].version \in Nat
  BY DEF Topics, Entry
<1>2. \A k \in BackendIds : t.entries[k].version <= t.last
  BY DEF Sound
<1>3. t.last <= w.last
  BY <1>1
<1>4. \A k \in D : HasEntry(w, k)
  BY <1>1 DEF HasEntry
<1>5. \A k \in BackendIds \ D : HasEntry(w, k) <=> HasEntry(t, k)
  BY DEF HasEntry
<1>6. \A k \in BackendIds : w.entries[k].version <= w.last
  BY <1>1, <1>2, <1>3
<1>7. \A k, j \in BackendIds :
          HasEntry(w, k) /\ w.entries[k].version = w.entries[j].version => k = j
  <2> SUFFICES ASSUME NEW k \in BackendIds, NEW j \in BackendIds, HasEntry(w, k),
                      w.entries[k].version = w.entries[j].version
               PROVE  k = j
    OBVIOUS
  <2>1. CASE k \in D /\ j \in D
    BY <2>1
  <2>2. CASE k \notin D /\ j \notin D
    BY <2>2, <1>5 DEF Sound
  <2>3. CASE k \in D /\ j \notin D
    BY <2>3, <1>1, <1>2
  <2>4. CASE k \notin D /\ j \in D
    BY <2>4, <1>1, <1>2
  <2> QED
    BY <2>1, <2>2, <2>3, <2>4
<1>8. \A e : e \in t.log <=> \E k \in BackendIds : HasEntry(t, k) /\ e = <<t.entries[k].version, k>>
  BY DEF Sound
<1>9. w.log = {<<w.entries[k].version, k>> : k \in {j \in BackendIds : HasEntry(w, j)}}
  <2>1. ASSUME NEW e \in w.log
        PROVE  \E k \in BackendIds : HasEntry(w, k) /\ e = <<w.entries[k].version, k>>
    <3>1. CASE e \in t.log /\ e[2] \notin D
      <4>1. PICK k \in BackendIds : HasEntry(t, k) /\ e = <<t.entries[k].version, k>>
        BY <3>1, <1>8
      <4>2. k \notin D
        BY <3>1, <4>1
      <4> QED
        BY <4>1, <4>2, <1>5
    <3>2. CASE \E k \in D : e = <<w.entries[k].version, k>>
      BY <3>2, <1>4
    <3> QED
      BY <3>1, <3>2
  <2>2. ASSUME NEW k \in BackendIds, HasEntry(w, k)
        PROVE  <<w.entries[k].version, k>> \in w.log
    <3>1. CASE k \in D
      BY <3>1
    <3>2. CASE k \notin D
      <4>1. HasEntry(t, k) /\ w.entries[k].version = t.entries[k].version
        BY <2>2, <3>2, <1>5
      <4>2. <<t.entries[k].version, k>> \in t.log
        BY <4>1, <1>8
      <4>3. <<t.entries[k].version, k>>[2] = k
        OBVIOUS
      <4> QED
        BY <3>2, <4>1, <4>2, <4>3
    <3> QED
      BY <3>1, <3>2
  <2> QED
    BY <2>1, <2>2
<1>10. ASSUME w.log # {} PROVE \E k \in BackendIds : <<w.last, k>> \in w.log
  <2>1. CASE D = {}
    <3>1. w.log = t.log
      BY <2>1
    <3> QED
      BY <2>1, <3>1, <1>10 DEF Sound
  <2>2. CASE D # {}
    BY <2>2
  <2> QED
    BY <2>1, <2>2
<1>11. Sound(w)
  BY <1>6, <1>7, <1>9, <1>10 DEF Sound
<1> QED
  BY <1>3, <1>4, <1>11 DEF Later

LEMMA SameTopic == ASSUME NEW t \in Topics, Sound(t) PROVE Later(t, t)
<1>1. t.last \in Nat
  BY DEF Topics
<1> QED
  BY <1>1 DEF Later

\* One entry that is put or deleted.
LEMMA PutLater ==
    ASSUME NEW t \in Topics, Sound(t), NEW k \in BackendIds, NEW e \in Entry,
           e.version = t.last + 1,
           NEW w, w = Replaced(t, k, e)
    PROVE  /\ Later(t, w) /\ w.last = t.last + 1 /\ w.entries[k] = e
           /\ \A j \in BackendIds \ {k} : w.entries[j] = t.entries[j]
<1> USE DEF Replaced
<1>1. t.last \in Nat /\ t.entries \in [BackendIds -> Entry] /\ t.log \in SUBSET (Nat \X BackendIds)
  BY DEF Topics
<1>2. /\ w.last = t.last + 1 /\ w.entries = [t.entries EXCEPT ![k] = e]
      /\ w.entries[k] = e /\ \A j \in BackendIds \ {k} : w.entries[j] = t.entries[j]
  BY <1>1
<1>3. w.log = {x \in t.log : x[2] \notin {k}} \cup {<<w.entries[j].version, j>> : j \in {k}}
  <2>1. w.log = (IF HasEntry(t, k) THEN {x \in t.log : x[1] # t.entries[k].version}
                 ELSE t.log) \cup {<<t.last + 1, k>>}
    OBVIOUS
  <2>2. {<<w.entries[j].version, j>> : j \in {k}} = {<<t.last + 1, k>>}
    BY <1>2
  <2>3. ASSUME NEW x \in t.log
        PROVE  x[2] = k <=> HasEntry(t, k) /\ x[1] = t.entries[k].version
    <3>1. PICK j \in BackendIds : HasEntry(t, j) /\ x = <<t.entries[j].version, j>>
      BY DEF Sound
    <3>2. x[1] = t.entries[j].version /\ x[2] = j
      BY <3>1
    <3> QED
      BY <3>1, <3>2 DEF Sound
  <2> QED
    BY <2>1, <2>2, <2>3
<1>4. w \in Topics
  <2>1. w.entries \in [BackendIds -> Entry]
    BY <1>1, <1>2
  <2>2. w.log \in SUBSET (Nat \X BackendIds)
    BY <1>1
  <2>3. w = [entries |-> w.entries, log |-> w.log, last |-> w.last]
    OBVIOUS
  <2> QED
    BY <1>1, <1>2, <2>1, <2>2, <2>3 DEF Topics
<1>5. PICK D \in SUBSET BackendIds : D = {k}
  OBVIOUS
<1>6. Changed(t, w, D)
  BY <1>1, <1>2, <1>3, <1>5 DEF Changed
<1>7. Later(t, w)
  BY <1>4, <1>6, ChangeSound
<1> QED
  BY <1>2, <1>7

\* Topic::Put() and DeleteIfVersionsMatch()
LEMMA PutIsReplaced ==
    ASSUME NEW t \in Topics, NEW k \in BackendIds, NEW v \in Items
    PROVE  \E e \in Entry : e.version = t.last + 1 /\ Put(t, k, v, FALSE) = Replaced(t, k, e)
<1>1. t.last \in Nat
  BY DEF Topics
<1>2. PICK e : e = [value |-> v, version |-> t.last + 1, deleted |-> FALSE]
  OBVIOUS
<1>3. e \in Entry /\ e.version = t.last + 1
  BY <1>1, <1>2 DEF Entry, Items
<1>4. Put(t, k, v, FALSE) = Replaced(t, k, e)
  BY <1>2 DEF Put, Replaced
<1> QED
  BY <1>3, <1>4

LEMMA DeleteIsLater ==
    ASSUME NEW t \in Topics, Sound(t), NEW k \in BackendIds, NEW v \in Nat,
           NEW w, w = DeleteIfVersionsMatch(t, v, k)
    PROVE  /\ Later(t, w)
           /\ \A j \in BackendIds \ {k} : w.entries[j] = t.entries[j]
           /\ t.entries[k].version = v => View(w)[k] = "none"
           /\ t.entries[k].version # v => w = t
<1>1. CASE HasEntry(t, k) /\ t.entries[k].version = v
  <2>1. t.last \in Nat /\ t.entries[k] \in Entry
    BY DEF Topics
  <2>2. PICK e : e = [value |-> t.entries[k].value, version |-> t.last + 1, deleted |-> TRUE]
    OBVIOUS
  <2>3. e \in Entry /\ e.version = t.last + 1 /\ e.deleted
    BY <2>1, <2>2 DEF Entry
  <2>4. w = Replaced(t, k, e)
    BY <1>1, <2>2 DEF DeleteIfVersionsMatch, Put, Replaced
  <2>5. /\ Later(t, w) /\ w.entries[k] = e
        /\ \A j \in BackendIds \ {k} : w.entries[j] = t.entries[j]
    BY <2>3, <2>4, PutLater
  <2>6. View(w)[k] = "none"
    BY <2>3, <2>5 DEF View
  <2> QED
    BY <1>1, <2>5, <2>6
<1>2. CASE ~(HasEntry(t, k) /\ t.entries[k].version = v)
  <2>1. w = t
    BY <1>2 DEF DeleteIfVersionsMatch
  <2>2. Later(t, t)
    BY SameTopic
  <2>3. ~HasEntry(t, k) => View(t)[k] = "none"
    BY DEF View
  <2> QED
    BY <1>2, <2>1, <2>2, <2>3
<1> QED
  BY <1>1, <1>2

\* DeleteAllTransientEntries(): what the registration recorded is no longer live.
LEMMA WithoutTransientIsLater ==
    ASSUME NEW t \in Topics, Sound(t), NEW r, NEW w \in WithoutTransient(t, r)
    PROVE  /\ Later(t, w)
           /\ \A k \in BackendIds :
                 \/ w.entries[k] = t.entries[k] /\ ~(HasEntry(t, k) /\ t.entries[k].version = regs[r].transient[k])
                 \/ View(w)[k] = "none"
<1> DEFINE D == Unchanged(t, r)
<1>1. D \subseteq BackendIds
  BY DEF Unchanged
<1>2. IsFiniteSet(D)
  BY <1>1, BackendIdsFinite, FS_Subset
<1>3. PICK n \in Nat : n = Cardinality(D)
  BY <1>2, FS_CardinalityType
<1>4. PICK f \in Bijection(D, 1..n) : w = DeletedInOrder(t, f)
  BY <1>3 DEF WithoutTransient
<1>5. /\ f \in [D -> 1..n] /\ DOMAIN f = D
      /\ \A i, j \in D : f[i] = f[j] => i = j
      /\ \A m \in 1..n : \E j \in D : f[j] = m
  <2>1. f \in Injection(D, 1..n) /\ f \in Surjection(D, 1..n)
    BY <1>4 DEF Bijection
  <2> HIDE DEF D
  <2>2. f \in [D -> 1..n] /\ IsInjective(f) /\ \A m \in 1..n : \E j \in D : f[j] = m
    BY <2>1 DEF Injection, Surjection
  <2> QED
    BY <2>2 DEF IsInjective
<1>6. w = [entries |-> [k \in BackendIds |->
                          IF k \in D THEN [value |-> t.entries[k].value,
                                           version |-> t.last + f[k], deleted |-> TRUE]
                          ELSE t.entries[k]],
           log |-> {e \in t.log : e[2] \notin D} \cup {<<t.last + f[k], k>> : k \in D},
           last |-> t.last + n]
  BY <1>3, <1>4, <1>5 DEF DeletedInOrder
<1>7. D = {} <=> n = 0
  BY <1>2, <1>3, FS_EmptySet
<1>8. \A k \in BackendIds : k \in D <=> HasEntry(t, k) /\ t.entries[k].version = regs[r].transient[k]
  BY DEF Unchanged
<1> HIDE DEF D
<1>9. /\ t.last \in Nat /\ \A k \in BackendIds : t.entries[k] \in Entry
      /\ t.log \in SUBSET (Nat \X BackendIds) /\ \A k \in D : f[k] \in 1..n
  BY <1>5 DEF Topics
<1>10. /\ w.last = t.last + n
       /\ \A k \in BackendIds \ D : w.entries[k] = t.entries[k]
       /\ \A k \in D : w.entries[k] = [value |-> t.entries[k].value,
                                       version |-> t.last + f[k], deleted |-> TRUE]
       /\ w.log = {e \in t.log : e[2] \notin D} \cup {<<t.last + f[k], k>> : k \in D}
  BY <1>1, <1>6
<1>11. ASSUME NEW k \in D
       PROVE  w.entries[k] \in Entry /\ w.entries[k].deleted /\ w.entries[k].version = t.last + f[k]
  <2>1. f[k] \in Nat /\ t.last + f[k] \in Nat /\ t.entries[k].value \in Items
    BY <1>1, <1>9 DEF Entry, Items
  <2>2. w.entries[k] = [value |-> t.entries[k].value, version |-> t.last + f[k], deleted |-> TRUE]
    BY <1>10
  <2> QED
    BY <2>1, <2>2 DEF Entry, Items
<1>12. w \in Topics
  <2>1. w.entries \in [BackendIds -> Entry]
    <3>1. \A k \in BackendIds : w.entries[k] \in Entry
      BY <1>9, <1>10, <1>11
    <3>2. w.entries = [k \in BackendIds |-> w.entries[k]]
      BY <1>6
    <3> QED
      BY <3>1, <3>2
  <2>2. w.log \in SUBSET (Nat \X BackendIds)
    BY <1>1, <1>9, <1>10
  <2>3. w = [entries |-> w.entries, log |-> w.log, last |-> w.last]
    BY <1>6
  <2>4. w.last \in Nat
    BY <1>9, <1>10
  <2> QED
    BY <2>1, <2>2, <2>3, <2>4 DEF Topics
<1>13. /\ \A k \in D : t.last < w.entries[k].version /\ w.entries[k].version <= w.last
       /\ \A i, j \in D : w.entries[i].version = w.entries[j].version => i = j
  BY <1>5, <1>9, <1>10, <1>11
<1>14. w.log = {e \in t.log : e[2] \notin D} \cup {<<w.entries[k].version, k>> : k \in D}
  <2>1. {<<t.last + f[k], k>> : k \in D} = {<<w.entries[k].version, k>> : k \in D}
    BY <1>11
  <2> QED
    BY <1>10, <2>1
<1>15. /\ D = {} => w.last = t.last
       /\ D # {} => \E k \in D : w.entries[k].version = w.last
  BY <1>5, <1>7, <1>9, <1>10, <1>11
<1>16. Later(t, w)
  <2>1. Changed(t, w, D)
    BY <1>10, <1>13, <1>14, <1>15 DEF Changed
  <2> QED
    BY <1>1, <1>12, <2>1, ChangeSound
<1>17. \A k \in D : View(w)[k] = "none"
  BY <1>1, <1>11 DEF View
<1> QED
  BY <1>8, <1>10, <1>16, <1>17

\* An update is well-formed.
LEMMA LogVersionType ==
    ASSUME NEW t \in Topics, Sound(t)
    PROVE  LogVersion(t) \in Nat /\ LogVersion(t) <= t.last /\ (t.log # {} => LogVersion(t) = t.last)
<1>1. t.last \in Nat /\ \A k \in BackendIds : t.entries[k].version \in Nat
  BY DEF Topics, Entry
<1>2. CASE t.log = {}
  BY <1>1, <1>2 DEF LogVersion, TOPIC_INITIAL_VERSION
<1>3. CASE t.log # {}
  <2> DEFINE versions == {e[1] : e \in t.log}
  <2>1. \A e \in t.log : e[1] \in Nat /\ e[1] <= t.last
    BY <1>1 DEF Sound
  <2>2. t.last \in versions
    <3>1. PICK k \in BackendIds : <<t.last, k>> \in t.log
      BY <1>3 DEF Sound
    <3>2. <<t.last, k>>[1] = t.last
      OBVIOUS
    <3> QED
      BY <3>1, <3>2
  <2>3. \A v \in versions : (\A e \in t.log : e[1] <= v) => v = t.last
    BY <1>1, <2>1, <2>2
  <2>4. \E v \in versions : \A e \in t.log : e[1] <= v
    BY <2>1, <2>2
  <2>5. LogVersion(t) = t.last
    BY <1>3, <2>3, <2>4 DEF LogVersion
  <2> QED
    BY <1>1, <2>5
<1> QED
  BY <1>2, <1>3

LEMMA BuildDeltaType ==
    ASSUME NEW t \in Topics, Sound(t), NEW from \in Nat, NEW d, d = BuildDelta(t, from)
    PROVE  d \in Deltas /\ d.to = LogVersion(t) /\ d.from = from /\ (d.is_delta <=> from > 0)
<1> DEFINE Item(k) == IF ~t.entries[k].deleted THEN t.entries[k].value
                      ELSE IF from > 0 THEN "deleted" ELSE "no item"
           Its == [k \in BackendIds |-> IF \E e \in t.log : e[1] > from /\ e[2] = k
                                          THEN Item(k) ELSE "no item"]
<1>1. \A k \in BackendIds : /\ t.entries[k].value \in Items
                            /\ t.entries[k].deleted \in BOOLEAN
  BY DEF Topics, Entry, Items
<1>2. LogVersion(t) \in Nat
  BY LogVersionType
<1>3. \A k \in BackendIds : Item(k) \in Items \cup {"no item", "deleted"}
  BY <1>1
<1>4. d = [is_delta |-> from > 0, from |-> from, to |-> LogVersion(t), items |-> Its]
  BY DEF BuildDelta, TOPIC_INITIAL_VERSION
<1> HIDE DEF Item
<1>5. Its \in [BackendIds -> Items \cup {"no item", "deleted"}]
  BY <1>3
<1> HIDE DEF Its
<1>6. /\ d.is_delta = (from > 0) /\ d.from = from /\ d.to = LogVersion(t) /\ d.items = Its
      /\ d = [is_delta |-> d.is_delta, from |-> d.from, to |-> d.to, items |-> d.items]
  <2>1. d.is_delta = (from > 0)
    BY <1>4
  <2>2. d.from = from /\ d.to = LogVersion(t) /\ d.items = Its
    BY <1>4
  <2> QED
    BY <1>4, <2>1, <2>2
<1>7. (from > 0) \in BOOLEAN
  OBVIOUS
<1>8. d.is_delta \in BOOLEAN /\ (d.is_delta <=> from > 0)
  BY <1>6, <1>7
<1> QED
  BY <1>2, <1>5, <1>6, <1>8 DEF Deltas

-----------------------------------------------------------------------------
(***************************************************************************)
(* The inductive invariant, action by action.                              *)
(***************************************************************************)
\* The bounds are naturals.
LEMMA Bounds ==
    /\ MaxRegs \in Nat /\ MaxInc \in Nat /\ MaxEpoch \in Nat /\ MaxQueue \in Nat
    /\ MaxFaults \in Nat /\ MaxMissed \in Nat /\ MaxMissed > 0 /\ MaxInc > 0 /\ MaxEpoch > 0
BY StatestoreConstants

LEMMA InitLayer == Init => IInv
<1> SUFFICES ASSUME Init PROVE IInv
  OBVIOUS
<1>1. EmptyTopic \in Topics /\ Sound(EmptyTopic)
  <2>1. \A k \in BackendIds : EmptyTopic.entries[k] = NoEntry
    BY DEF EmptyTopic
  <2>2. \A k \in BackendIds : ~HasEntry(EmptyTopic, k) /\ EmptyTopic.entries[k].version = 0
    BY <2>1 DEF HasEntry, NoEntry
  <2>3. EmptyTopic.log = {} /\ EmptyTopic.last = 0
    BY DEF EmptyTopic
  <2>4. EmptyTopic \in Topics
    BY DEF EmptyTopic, Topics, Entry, NoEntry
  <2>5. Sound(EmptyTopic)
    BY <2>2, <2>3 DEF Sound
  <2> QED
    BY <2>4, <2>5
<1>2. NoReg \in Registrations
  BY Bounds DEF NoReg, Registrations
<1>3. Chain("none") \in Chains /\ Chain("none").pc = "none" /\ Chain("none").item = "none"
  BY DEF Chain, Chains, Items
<1>4. NewProcess(1) \in Processes /\ NewProcess(1).up
  BY Bounds DEF NewProcess, Processes, Items
<1>5. TypeOK
  BY <1>1, <1>2, <1>3, <1>4, Bounds DEF Init, TypeOK, RegIds
<1>6. RegInv
  BY <1>3 DEF Init, RegInv
<1>7. ChainInv /\ ProcInv
  BY <1>3, <1>4 DEF Init, ChainInv, ProcInv
<1> QED
  BY <1>1, <1>5, <1>6, <1>7 DEF Init, IInv

\* What a step can rely on of one registration.
LEMMA RegFacts ==
    ASSUME IInv, NEW r \in RegIds
    PROVE  /\ regs[r] \in Registrations /\ upd[r] \in Chains
           /\ upd[r].pc # "none" \/ r \in hb => regs[r].sub \in Subs /\ r < nextReg
           /\ \A s \in Subs : subscribers[s] = r => regs[r].sub = s
BY Bounds DEF IInv, TypeOK, RegInv, RegIds

\* The variables that most steps leave alone, or change in what RegInv does not mention.
RegsOk ==
    /\ regs' \in [RegIds -> Registrations]
    /\ \A i \in RegIds : regs'[i].sub = regs[i].sub /\ regs'[i].unregistered = regs[i].unregistered

SubscribersOk ==
    /\ subscribers' \in [Subs -> 0..MaxRegs]
    /\ \A s \in Subs : subscribers'[s] \in {0, subscribers[s]}

TopicOk == topic' \in Topics /\ Sound(topic')

SubOk ==
    /\ sub' \in [Subs -> Processes]
    /\ \A s \in Subs : sub'[s].up = sub[s].up /\ sub'[s].inc = sub[s].inc

Calls == [reg : RegIds, delta : Deltas, stage : {"sent", "checked"}, live : BOOLEAN]

LEMMA Same ==
    ASSUME IInv
    PROVE  /\ regs' = regs => RegsOk
           /\ subscribers' = subscribers => SubscribersOk
           /\ topic' = topic => TopicOk
           /\ sub' = sub => SubOk
           /\ faults' = faults => faults' \in 0..MaxFaults
           /\ topic \in Topics /\ Sound(topic)
           /\ regs \in [RegIds -> Registrations] /\ upd \in [RegIds -> Chains]
           /\ sub \in [Subs -> Processes] /\ calls \subseteq Calls
           /\ subscribers \in [Subs -> 0..MaxRegs]
BY DEF IInv, TypeOK, RegsOk, SubscribersOk, TopicOk, SubOk, Calls

\* A chain as ChainInv wants it.
GoodChain(x) ==
    /\ x \in Chains
    /\ x.item # "none" => x.key \in BackendIds
    /\ x.pc = "acked" => x.from # -1 \/ x.item # "none"
    /\ x.pc \in {"put", "unwanted"} => x.key \in BackendIds

\* The calls as RegInv wants them, when the chain of r becomes x.
CallsOk(r, x) ==
    /\ calls' \subseteq Calls
    /\ \A c \in calls' : /\ c.reg < nextReg /\ regs[c.reg].sub \in Subs
                         /\ c.live => IF c.reg = r THEN x.pc = "calling" ELSE upd[c.reg].pc = "calling"
    /\ \A c, d \in calls' : c.live /\ d.live /\ c.reg = d.reg => c = d

\* Calls that stay, of a chain that was not waiting for one.
LEMMA SameCalls ==
    ASSUME IInv, NEW r \in RegIds, NEW x, upd[r].pc # "calling", calls' \subseteq calls
    PROVE  CallsOk(r, x)
BY DEF IInv, TypeOK, RegInv, CallsOk, Calls

LEMMA OldChain == ASSUME IInv, NEW r \in RegIds PROVE GoodChain(upd[r])
BY DEF IInv, TypeOK, ChainInv, GoodChain

\* A step that changes the chain of one registration.
LEMMA ChainStep ==
    ASSUME IInv, NEW r \in RegIds, upd[r].pc # "none", NEW x, GoodChain(x),
           upd' = [upd EXCEPT ![r] = x],
           x.pc = "none" => subscribers'[regs[r].sub] # r,
           RegsOk, SubscribersOk, TopicOk, SubOk, CallsOk(r, x),
           faults' \in 0..MaxFaults,
           epoch' = epoch, nextReg' = nextReg, missed' = missed, hb' = hb, late' = late
    PROVE  IInv'
<1> USE DEF GoodChain, RegsOk, SubscribersOk, TopicOk, SubOk, CallsOk, Calls
<1>1. upd'[r] = x /\ \A i \in RegIds \ {r} : upd'[i] = upd[i]
  BY DEF IInv, TypeOK
<1>2. TypeOK'
  BY DEF IInv, TypeOK
<1>3. RegInv'
  <2>1. ASSUME NEW s \in Subs, subscribers'[s] # 0
        PROVE  /\ subscribers'[s] < nextReg /\ regs'[subscribers'[s]].sub = s
               /\ ~regs'[subscribers'[s]].unregistered
               /\ upd'[subscribers'[s]].pc # "none" /\ subscribers'[s] \in hb
    <3>1. subscribers'[s] = subscribers[s] /\ subscribers[s] \in RegIds
      BY <2>1, Bounds DEF IInv, TypeOK, RegIds
    <3>2. /\ subscribers[s] < nextReg /\ regs[subscribers[s]].sub = s
          /\ ~regs[subscribers[s]].unregistered
          /\ upd[subscribers[s]].pc # "none" /\ subscribers[s] \in hb
      BY <2>1, <3>1 DEF IInv, RegInv
    <3>3. CASE subscribers[s] = r
      BY <3>1, <3>2, <3>3, <1>1
    <3>4. CASE subscribers[s] # r
      BY <3>1, <3>2, <3>4, <1>1
    <3> QED
      BY <3>3, <3>4
  <2>2. ASSUME NEW i \in RegIds, upd'[i].pc # "none" \/ i \in hb
        PROVE  i < nextReg /\ regs'[i].sub \in Subs
    <3>1. upd[i].pc # "none" \/ i \in hb
      BY <2>2, <1>1
    <3> QED
      BY <3>1 DEF IInv, RegInv
  <2>3. ASSUME NEW c \in calls'
        PROVE  /\ c.reg < nextReg /\ regs'[c.reg].sub \in Subs
               /\ c.live => upd'[c.reg].pc = "calling"
    <3>1. c.reg \in RegIds
      BY <2>3
    <3> QED
      BY <3>1, <2>3, <1>1
  <2>4. \A c, d \in calls' : c.live /\ d.live /\ c.reg = d.reg => c = d
    OBVIOUS
  <2> QED
    BY <2>1, <2>2, <2>3, <2>4 DEF RegInv
<1>4. ChainInv'
  BY <1>1 DEF IInv, ChainInv
<1>5. ProcInv'
  BY DEF IInv, ProcInv
<1> QED
  BY <1>2, <1>3, <1>4, <1>5 DEF IInv

LEMMA TakeUpdateLayer == ASSUME IInv, NEW r \in RegIds, TakeUpdate(r) PROVE IInv'
<1> DEFINE x == [upd[r] EXCEPT !.pc = IF Current(r) THEN "found" ELSE "none"]
<1>1. upd \in [RegIds -> Chains] /\ regs \in [RegIds -> Registrations]
  BY Same
<1>2. upd' = [upd EXCEPT ![r] = x] /\ upd[r].pc = "queued"
  BY <1>1 DEF TakeUpdate, Chains
<1>3. GoodChain(x) /\ x.pc \in {"found", "none"} /\ (x.pc = "none" => ~Current(r))
  BY <1>1, OldChain DEF GoodChain, Chains
<1>4. regs[r].sub \in Subs
  BY <1>2, RegFacts
<1> HIDE DEF x
<1>5. x.pc = "none" => subscribers'[regs[r].sub] # r
  BY <1>3, <1>4 DEF TakeUpdate, Current
<1>6. RegsOk
  BY <1>1 DEF TakeUpdate, Released, Registrations, RegsOk
<1>7. CallsOk(r, x)
  BY <1>2, SameCalls DEF TakeUpdate
<1>8. SubscribersOk /\ TopicOk /\ SubOk /\ faults' \in 0..MaxFaults
  BY Same DEF TakeUpdate
<1>9. epoch' = epoch /\ nextReg' = nextReg /\ missed' = missed /\ hb' = hb /\ late' = late
  BY DEF TakeUpdate
<1> QED
  BY <1>2, <1>3, <1>5, <1>6, <1>7, <1>8, <1>9, ChainStep

LEMMA SendTopicUpdateLayer == ASSUME IInv, NEW r \in RegIds, SendTopicUpdate(r) PROVE IInv'
<1>1. /\ upd \in [RegIds -> Chains] /\ regs \in [RegIds -> Registrations]
      /\ topic \in Topics /\ Sound(topic) /\ calls \subseteq Calls
  BY Same
<1>2. PICK d : d = BuildDelta(topic, regs[r].last)
  OBVIOUS
<1>3. regs[r].last \in Nat
  BY <1>1 DEF Registrations
<1>4. d \in Deltas /\ d.to \in Nat
  BY <1>1, <1>2, <1>3, BuildDeltaType DEF Deltas
<1>5. upd[r].pc = "found" /\ regs[r].sub \in Subs /\ r < nextReg
  BY RegFacts DEF SendTopicUpdate
<1>6. SubscribersOk /\ TopicOk /\ SubOk /\ RegsOk /\ faults' \in 0..MaxFaults
  BY Same DEF SendTopicUpdate
<1>7. epoch' = epoch /\ nextReg' = nextReg /\ missed' = missed /\ hb' = hb /\ late' = late
  BY DEF SendTopicUpdate
<1>8. CASE sub[regs[r].sub].up
  <2> DEFINE x == [upd[r] EXCEPT !.pc = "calling", !.to = d.to]
  <2>1. upd' = [upd EXCEPT ![r] = x]
    BY <1>1, <1>2, <1>8 DEF SendTopicUpdate, Chains
  <2>2. GoodChain(x) /\ x.pc = "calling"
    BY <1>1, <1>4, OldChain DEF GoodChain, Chains
  <2> HIDE DEF x
  <2>3. PICK c : c = [reg |-> r, delta |-> d, stage |-> "sent", live |-> TRUE]
    OBVIOUS
  <2>4. c \in Calls /\ c.reg = r
    BY <2>3, <1>4 DEF Calls
  <2>5. calls' = calls \cup {c}
    BY <1>2, <1>8, <2>3 DEF SendTopicUpdate
  <2>6. CallsOk(r, x)
    <3>1. \A b \in calls : b.live => b.reg # r
      BY <1>5 DEF IInv, RegInv
    <3> QED
      BY <1>1, <1>5, <2>2, <2>4, <2>5, <3>1 DEF CallsOk, IInv, RegInv
  <2> QED
    BY <1>5, <1>6, <1>7, <2>1, <2>2, <2>6, ChainStep
<1>9. CASE ~sub[regs[r].sub].up
  <2> DEFINE x == [upd[r] EXCEPT !.pc = "done"]
  <2>1. upd' = [upd EXCEPT ![r] = x]
    BY <1>1, <1>9 DEF SendTopicUpdate, Chains
  <2>2. GoodChain(x) /\ x.pc = "done"
    BY <1>1, OldChain DEF GoodChain, Chains
  <2> HIDE DEF x
  <2>3. CallsOk(r, x)
    BY <1>5, <1>9, SameCalls DEF SendTopicUpdate
  <2> QED
    BY <1>5, <1>6, <1>7, <2>1, <2>2, <2>3, ChainStep
<1> QED
  BY <1>8, <1>9

LEMMA AckUpdateLayer == ASSUME IInv, NEW r \in RegIds, AckUpdate(r) PROVE IInv'
<1> DEFINE x == [upd[r] EXCEPT !.pc = IF upd[r].from # -1 \/ upd[r].item # "none"
                                        THEN "acked" ELSE "done"]
<1>1. upd \in [RegIds -> Chains] /\ regs \in [RegIds -> Registrations]
  BY Same
<1>2. upd' = [upd EXCEPT ![r] = x] /\ upd[r].pc = "replied"
  BY <1>1 DEF AckUpdate, Chains
<1>3. GoodChain(x) /\ x.pc # "none"
  BY <1>1, OldChain DEF GoodChain, Chains
<1> HIDE DEF x
<1>4. RegsOk
  BY <1>1, ZenonT(40) DEF AckUpdate, Chains, Registrations, RegsOk
<1>5. CallsOk(r, x)
  BY <1>2, SameCalls DEF AckUpdate
<1>6. SubscribersOk /\ TopicOk /\ SubOk /\ faults' \in 0..MaxFaults
  BY Same DEF AckUpdate
<1>7. epoch' = epoch /\ nextReg' = nextReg /\ missed' = missed /\ hb' = hb /\ late' = late
  BY DEF AckUpdate
<1> QED
  BY <1>2, <1>3, <1>4, <1>5, <1>6, <1>7, ChainStep

LEMMA ApplyReturnedLayer == ASSUME IInv, NEW r \in RegIds, ApplyReturned(r) PROVE IInv'
<1>1. /\ upd \in [RegIds -> Chains] /\ regs \in [RegIds -> Registrations]
      /\ topic \in Topics /\ Sound(topic)
  BY Same
<1>2. upd[r].pc = "acked" /\ upd[r] \in Chains
  BY <1>1 DEF ApplyReturned
<1>3. SubscribersOk /\ SubOk /\ faults' \in 0..MaxFaults
  BY Same DEF ApplyReturned
<1>4. epoch' = epoch /\ nextReg' = nextReg /\ missed' = missed /\ hb' = hb /\ late' = late
  BY DEF ApplyReturned
<1>5. CASE upd[r].from # -1
  <2> DEFINE x == [upd[r] EXCEPT !.pc = "done"]
  <2>1. upd' = [upd EXCEPT ![r] = x]
    BY <1>1, <1>5 DEF ApplyReturned, Chains
  <2>2. GoodChain(x) /\ x.pc = "done"
    BY <1>1, OldChain DEF GoodChain, Chains
  <2> HIDE DEF x
  <2>3. RegsOk
    <3>1. upd[r].from \in Nat
      BY <1>2, <1>5 DEF Chains
    <3>2. regs' = [regs EXCEPT ![r].last = upd[r].from]
      BY <1>5 DEF ApplyReturned
    <3> QED
      BY <1>1, <3>1, <3>2 DEF Registrations, RegsOk
  <2>4. CallsOk(r, x)
    BY <1>2, SameCalls DEF ApplyReturned
  <2>5. TopicOk
    BY <1>5, Same DEF ApplyReturned
  <2> QED
    BY <1>2, <1>3, <1>4, <2>1, <2>2, <2>3, <2>4, <2>5, ChainStep
<1>6. CASE upd[r].from = -1
  <2> DEFINE x == [upd[r] EXCEPT !.pc = "put", !.version = topic'.last]
  <2>1. upd[r].key \in BackendIds /\ upd[r].item \in Items
    BY <1>2, <1>6 DEF IInv, ChainInv, Chains
  <2>2. topic' = Put(topic, upd[r].key, upd[r].item, FALSE)
    BY <1>6 DEF ApplyReturned
  <2>3. PICK e \in Entry : e.version = topic.last + 1 /\ topic' = Replaced(topic, upd[r].key, e)
    BY <1>1, <2>1, <2>2, PutIsReplaced
  <2>4. Later(topic, topic')
    BY <1>1, <2>1, <2>3, PutLater
  <2>5. TopicOk /\ topic'.last \in Nat
    BY <2>4 DEF Later, TopicOk, Topics
  <2>6. upd' = [upd EXCEPT ![r] = x]
    BY <1>1, <1>6 DEF ApplyReturned, Chains
  <2>7. GoodChain(x) /\ x.pc = "put"
    BY <1>1, <2>1, <2>5, OldChain DEF GoodChain, Chains
  <2> HIDE DEF x
  <2>8. RegsOk
    BY <1>6, Same DEF ApplyReturned
  <2>9. CallsOk(r, x)
    BY <1>2, SameCalls DEF ApplyReturned
  <2> QED
    BY <1>2, <1>3, <1>4, <2>5, <2>6, <2>7, <2>8, <2>9, ChainStep
<1> QED
  BY <1>5, <1>6

LEMMA AddTransientEntriesLayer ==
    ASSUME IInv, NEW r \in RegIds, AddTransientEntries(r) PROVE IInv'
<1>1. upd \in [RegIds -> Chains] /\ regs \in [RegIds -> Registrations]
  BY Same
<1>2. upd[r].pc = "put" /\ upd[r].key \in BackendIds /\ upd[r].version \in Nat
  BY <1>1 DEF AddTransientEntries, IInv, ChainInv, Chains
<1>3. SubscribersOk /\ TopicOk /\ SubOk /\ faults' \in 0..MaxFaults
  BY Same DEF AddTransientEntries
<1>4. epoch' = epoch /\ nextReg' = nextReg /\ missed' = missed /\ hb' = hb /\ late' = late
  BY DEF AddTransientEntries
<1>5. PICK pc \in {"unwanted", "done"} : upd' = [upd EXCEPT ![r].pc = pc]
  BY DEF AddTransientEntries
<1> DEFINE x == [upd[r] EXCEPT !.pc = pc]
<1>6. upd' = [upd EXCEPT ![r] = x]
  BY <1>1, <1>5 DEF Chains
<1>7. GoodChain(x) /\ x.pc # "none"
  BY <1>1, <1>2, OldChain DEF GoodChain, Chains
<1> HIDE DEF x
<1>8. RegsOk
  <2>1. CASE Refused(r)
    BY <2>1, Same DEF AddTransientEntries
  <2>2. CASE ~Refused(r)
    <3>1. regs' = [regs EXCEPT ![r].transient[upd[r].key] = upd[r].version]
      BY <2>2 DEF AddTransientEntries
    <3> QED
      BY <1>1, <1>2, <3>1 DEF Registrations, RegsOk
  <2> QED
    BY <2>1, <2>2
<1>9. CallsOk(r, x)
  BY <1>2, SameCalls DEF AddTransientEntries
<1> QED
  BY <1>2, <1>3, <1>4, <1>6, <1>7, <1>8, <1>9, ChainStep

LEMMA CleanUpLayer == ASSUME IInv, NEW r \in RegIds, CleanUp(r) PROVE IInv'
<1> DEFINE x == [upd[r] EXCEPT !.pc = "done"]
<1>1. upd \in [RegIds -> Chains] /\ topic \in Topics /\ Sound(topic)
  BY Same
<1>2. upd[r].pc = "unwanted" /\ upd[r].key \in BackendIds /\ upd[r].version \in Nat
  BY <1>1 DEF CleanUp, IInv, ChainInv, Chains
<1>3. upd' = [upd EXCEPT ![r] = x]
  BY <1>1 DEF CleanUp, Chains
<1>4. GoodChain(x) /\ x.pc = "done"
  BY <1>1, OldChain DEF GoodChain, Chains
<1> HIDE DEF x
<1>5. topic' = DeleteIfVersionsMatch(topic, upd[r].version, upd[r].key)
  BY DEF CleanUp
<1>6. Later(topic, topic')
  BY <1>1, <1>2, <1>5, DeleteIsLater
<1>7. TopicOk
  BY <1>6 DEF Later, TopicOk
<1>8. SubscribersOk /\ RegsOk /\ SubOk /\ faults' \in 0..MaxFaults
  BY Same DEF CleanUp
<1>9. epoch' = epoch /\ nextReg' = nextReg /\ missed' = missed /\ hb' = hb /\ late' = late
  BY DEF CleanUp
<1>10. CallsOk(r, x)
  BY <1>2, SameCalls DEF CleanUp
<1> QED
  BY <1>2, <1>3, <1>4, <1>7, <1>8, <1>9, <1>10, ChainStep

\* A chain that is queued, done, or over.
LEMMA FreshChain ==
    ASSUME NEW pc \in {"queued", "done", "none"}
    PROVE  GoodChain(Chain(pc)) /\ Chain(pc).pc = pc /\ Chain(pc).item = "none"
BY DEF Chain, GoodChain, Chains, Items

LEMMA ReleasedRegs == ASSUME IInv, NEW r \in RegIds, regs' = Released(r) PROVE RegsOk
<1>1. regs \in [RegIds -> Registrations]
  BY Same
<1> QED
  BY <1>1 DEF Released, Registrations, RegsOk

LEMMA FinishUpdateLayer == ASSUME IInv, NEW r \in RegIds, FinishUpdate(r) PROVE IInv'
<1> DEFINE s == regs[r].sub
           stop == ~Current(r) \/ Failed(missed[s])
<1>1. upd \in [RegIds -> Chains] /\ subscribers \in [Subs -> 0..MaxRegs]
  BY Same
<1>2. upd[r].pc = "done"
  BY DEF FinishUpdate
<1>3. s \in Subs
  BY <1>2, RegFacts
<1>4. ~Failed(missed[s])
  <2>1. missed[s] \in -1..(MaxMissed - 1)
    BY <1>3 DEF IInv, TypeOK
  <2> QED
    BY <2>1, Bounds DEF Failed
<1>5. PICK full \in BOOLEAN :
        /\ upd' = [upd EXCEPT ![r] = Chain(IF stop \/ full THEN "none" ELSE "queued")]
        /\ subscribers' = IF ~stop /\ full THEN [subscribers EXCEPT ![s] = 0] ELSE subscribers
        /\ regs' = IF stop \/ full THEN Released(r) ELSE regs
  BY DEF FinishUpdate, LimitReached
<1>6. stop <=> ~(subscribers[s] = r)
  BY <1>3, <1>4 DEF Current
<1> HIDE DEF stop, s
<1>7. PICK pc \in {"queued", "none"} : pc = IF stop \/ full THEN "none" ELSE "queued"
  OBVIOUS
<1>8. upd' = [upd EXCEPT ![r] = Chain(pc)]
  BY <1>5, <1>7
<1>9. GoodChain(Chain(pc)) /\ Chain(pc).pc = pc
  BY FreshChain
<1>10. SubscribersOk
  BY <1>1, <1>3, <1>5, Bounds DEF SubscribersOk
<1>11. pc = "none" => subscribers'[s] # r
  <2>1. r # 0
    BY Bounds DEF RegIds
  <2> QED
    BY <1>1, <1>3, <1>5, <1>6, <1>7, <2>1
<1>12. RegsOk
  BY <1>5, Same, ReleasedRegs
<1>13. CallsOk(r, Chain(pc))
  BY <1>2, SameCalls DEF FinishUpdate
<1>14. TopicOk /\ SubOk /\ faults' \in 0..MaxFaults
  BY Same DEF FinishUpdate
<1>15. epoch' = epoch /\ nextReg' = nextReg /\ missed' = missed /\ hb' = hb /\ late' = late
  BY DEF FinishUpdate
<1> QED
  BY <1>2, <1>8, <1>9, <1>10, <1>11, <1>12, <1>13, <1>14, <1>15, ChainStep DEF s

-----------------------------------------------------------------------------
\* The handlers, and what else leaves the chains alone.
CallsStay ==
    /\ calls' \subseteq Calls
    /\ \A c \in calls' : /\ c.reg < nextReg /\ regs[c.reg].sub \in Subs
                         /\ c.live => upd[c.reg].pc = "calling"
    /\ \A c, d \in calls' : c.live /\ d.live /\ c.reg = d.reg => c = d

LEMMA FewerCalls == ASSUME IInv, calls' \subseteq calls PROVE CallsStay
BY DEF IInv, TypeOK, RegInv, CallsStay, Calls

\* A step that changes no chain.
LEMMA QuietStep ==
    ASSUME IInv, upd' = upd, regs' \in [RegIds -> Registrations],
           \A i \in RegIds : regs'[i].sub = regs[i].sub,
           \A s \in Subs : subscribers'[s] # 0 =>
              ~regs'[subscribers'[s]].unregistered /\ subscribers'[s] \in hb',
           SubscribersOk, TopicOk, CallsStay, hb' \subseteq hb,
           sub' \in [Subs -> Processes], ProcInv',
           missed' \in [Subs -> -1..(MaxMissed - 1)],
           faults' \in 0..MaxFaults, late' \subseteq Subs, epoch' = epoch, nextReg' = nextReg
    PROVE  IInv'
<1> USE DEF SubscribersOk, TopicOk, CallsStay, Calls
<1>1. TypeOK'
  BY DEF IInv, TypeOK
<1>2. ChainInv'
  BY DEF IInv, ChainInv
<1>3. RegInv'
  <2>1. ASSUME NEW s \in Subs, subscribers'[s] # 0
        PROVE  /\ subscribers'[s] < nextReg /\ regs'[subscribers'[s]].sub = s
               /\ upd'[subscribers'[s]].pc # "none"
    <3>1. subscribers'[s] = subscribers[s] /\ subscribers[s] \in RegIds
      BY <2>1, Bounds DEF IInv, TypeOK, RegIds
    <3> QED
      BY <2>1, <3>1 DEF IInv, RegInv
  <2>2. \A i \in RegIds : upd'[i].pc # "none" \/ i \in hb' => i < nextReg /\ regs'[i].sub \in Subs
    BY DEF IInv, RegInv
  <2>3. ASSUME NEW c \in calls'
        PROVE  /\ c.reg < nextReg /\ regs'[c.reg].sub \in Subs
               /\ c.live => upd'[c.reg].pc = "calling"
    <3>1. c.reg \in RegIds
      BY <2>3
    <3> QED
      BY <3>1, <2>3
  <2> QED
    BY <2>1, <2>2, <2>3 DEF RegInv
<1> QED
  BY <1>1, <1>2, <1>3 DEF IInv

\* The current registrations are in hb and not unregistered.
LEMMA CurrentFacts ==
    ASSUME IInv, NEW s \in Subs, subscribers[s] # 0
    PROVE  /\ subscribers[s] \in RegIds /\ subscribers[s] \in hb /\ regs[subscribers[s]].sub = s
           /\ ~regs[subscribers[s]].unregistered /\ subscribers[s] < nextReg
           /\ upd[subscribers[s]].pc # "none"
<1>1. subscribers[s] \in 0..MaxRegs
  BY DEF IInv, TypeOK
<1> QED
  BY <1>1, Bounds DEF IInv, RegInv, RegIds

\* A step of the processes and their calls only.
LEMMA ProcessesStep ==
    ASSUME IInv, sub' \in [Subs -> Processes], ProcInv', CallsStay,
           faults' \in 0..MaxFaults, late' \subseteq Subs, 
           UNCHANGED <<epoch, topic, subscribers, regs, nextReg, missed, upd, hb>>
    PROVE  IInv'
<1>1. /\ regs' \in [RegIds -> Registrations] /\ \A i \in RegIds : regs'[i].sub = regs[i].sub
      /\ missed' \in [Subs -> -1..(MaxMissed - 1)] /\ upd' = upd /\ hb' \subseteq hb
      /\ epoch' = epoch /\ nextReg' = nextReg
  BY DEF IInv, TypeOK
<1>2. SubscribersOk /\ TopicOk
  BY Same
<1>3. \A s \in Subs : subscribers'[s] # 0 =>
              ~regs'[subscribers'[s]].unregistered /\ subscribers'[s] \in hb'
  BY CurrentFacts
<1> QED
  BY <1>1, <1>2, <1>3, QuietStep

\* A handler that answers.
LEMMA ReplyStep ==
    ASSUME IInv, NEW c \in calls, NEW x, Reply(c, x), GoodChain(x), x.pc # "none", SubOk,
           UNCHANGED <<epoch, topic, subscribers, regs, nextReg, missed, hb, late, faults>>
    PROVE  IInv'
<1>1. c \in Calls /\ c.reg \in RegIds /\ c.live \in BOOLEAN
  BY Same DEF Calls
<1>2. calls' = calls \ {c}
  BY DEF Reply
<1>3. SubscribersOk /\ TopicOk /\ RegsOk /\ faults' \in 0..MaxFaults
  BY Same
<1>4. CASE c.live
  <2>1. upd[c.reg].pc = "calling" /\ upd' = [upd EXCEPT ![c.reg] = x]
    BY <1>4 DEF IInv, RegInv, Reply
  <2>2. CallsOk(c.reg, x)
    <3>1. \A b \in calls' : b.live => b.reg # c.reg
      BY <1>2, <1>4 DEF IInv, RegInv
    <3> QED
      BY <1>2, <3>1, Same DEF IInv, RegInv, CallsOk
  <2> QED
    BY <1>1, <1>3, <2>1, <2>2, ChainStep
<1>5. CASE ~c.live
  <2>1. upd' = upd
    BY <1>5 DEF Reply
  <2>2. CallsStay
    BY <1>2, FewerCalls
  <2>3. sub' \in [Subs -> Processes] /\ ProcInv' /\ late' \subseteq Subs
    BY DEF SubOk, IInv, TypeOK, ProcInv
  <2> QED
    BY <1>3, <2>1, <2>2, <2>3, ProcessesStep
<1> QED
  BY <1>4, <1>5

\* The answers.
LEMMA AnswerChains ==
    ASSUME IInv, NEW c \in calls
    PROVE  /\ GoodChain(Skipped(c)) /\ Skipped(c).pc = "done"
           /\ \A from \in Nat \cup {-1}, key \in BackendIds \cup {<<>>}, item \in Items :
                 (item # "none" => key \in BackendIds) =>
                   GoodChain(Processed(c, from, key, item)) /\ Processed(c, from, key, item).pc = "replied"
<1>1. c.reg \in RegIds
  BY Same DEF Calls
<1>2. GoodChain(upd[c.reg]) /\ upd[c.reg] \in Chains
  BY <1>1, OldChain DEF GoodChain
<1>3. GoodChain(Skipped(c)) /\ Skipped(c).pc = "done"
  BY <1>2 DEF Skipped, GoodChain, Chains
<1>4. ASSUME NEW from \in Nat \cup {-1}, NEW key \in BackendIds \cup {<<>>}, NEW item \in Items,
             item # "none" => key \in BackendIds
      PROVE  GoodChain(Processed(c, from, key, item)) /\ Processed(c, from, key, item).pc = "replied"
  BY <1>2, <1>4 DEF Processed, GoodChain, Chains
<1> QED
  BY <1>3, <1>4

LEMMA ReceiveUpdateLayer == ASSUME IInv, NEW c \in calls, ReceiveUpdate(c) PROVE IInv'
<1>1. UNCHANGED <<epoch, topic, subscribers, regs, nextReg, missed, hb, late, faults, sub>>
  BY DEF ReceiveUpdate
<1>2. SubOk
  BY <1>1, Same
<1>3. CASE Reply(c, Skipped(c))
  <2>1. GoodChain(Skipped(c)) /\ Skipped(c).pc # "none"
    BY AnswerChains
  <2> QED
    BY <1>1, <1>2, <1>3, <2>1, ReplyStep
<1>4. CASE Reply(c, Processed(c, -1, <<>>, "none"))
  <2>1. PICK x : x = Processed(c, -1, <<>>, "none")
    OBVIOUS
  <2>2. GoodChain(x) /\ x.pc = "replied"
    BY <2>1, AnswerChains DEF Items
  <2> QED
    BY <1>1, <1>2, <1>4, <2>1, <2>2, ReplyStep
<1>5. CASE calls' = (calls \ {c}) \cup {[c EXCEPT !.stage = "checked"]} /\ upd' = upd
  <2>1. c \in Calls
    BY Same
  <2>2. PICK d : d = [c EXCEPT !.stage = "checked"]
    OBVIOUS
  <2>3. d \in Calls /\ d.reg = c.reg /\ d.live = c.live
    BY <2>1, <2>2 DEF Calls
  <2>4. CallsStay
    <3>1. calls' \subseteq Calls
      BY <1>5, <2>2, <2>3, Same
    <3>3. \A a, b \in calls : a.live /\ b.live /\ a.reg = b.reg => a = b
      BY DEF IInv, RegInv
    <3>4. \A a \in calls : a.reg < nextReg /\ regs[a.reg].sub \in Subs /\ (a.live => upd[a.reg].pc = "calling")
      BY DEF IInv, RegInv
    <3>5. \A a \in calls' : a = d \/ (a \in calls /\ a # c)
      <4>1. calls' = (calls \ {c}) \cup {d}
        BY <1>5, <2>2
      <4> QED
        BY <4>1
    <3>6. \A a, b \in calls' : a.live /\ b.live /\ a.reg = b.reg => a = b
      BY <2>3, <3>3, <3>5
    <3> QED
      BY <2>3, <3>1, <3>4, <3>5, <3>6 DEF CallsStay
  <2>5. sub' \in [Subs -> Processes] /\ ProcInv' /\ late' \subseteq Subs /\ faults' \in 0..MaxFaults
    BY <1>1 DEF IInv, TypeOK, ProcInv
  <2> QED
    BY <1>1, <1>5, <2>4, <2>5, ProcessesStep
<1> QED
  BY <1>3, <1>4, <1>5 DEF ReceiveUpdate

LEMMA SkipUpdateLayer == ASSUME IInv, NEW c \in calls, SkipUpdate(c) PROVE IInv'
<1>1. UNCHANGED <<epoch, topic, subscribers, regs, nextReg, missed, hb, late, faults, sub>>
  BY DEF SkipUpdate
<1>2. SubOk
  BY <1>1, Same
<1>3. GoodChain(Skipped(c)) /\ Skipped(c).pc # "none" /\ Reply(c, Skipped(c))
  BY AnswerChains DEF SkipUpdate
<1> QED
  BY <1>1, <1>2, <1>3, ReplyStep

\* What a subscriber makes of a delta.
LEMMA MembershipType ==
    ASSUME IInv, NEW s \in Subs, NEW d \in Deltas
    PROVE  /\ OwnKey(s) \in BackendIds
           /\ OwnAfter(s, d) \in Items /\ sub[s] \in Processes
           /\ ApplyDelta(sub[s].copy, d) \in [BackendIds -> Items]
           /\ UpdateMembership(s, d) =
                 [sub[s] EXCEPT !.copy = ApplyDelta(sub[s].copy, d),
                    !.own = IF NeedsLocalBackendUpdate(OwnAfter(s, d), sub[s].local)
                              THEN sub[s].local ELSE OwnAfter(s, d)]
<1>1. sub[s] \in Processes
  BY Same
<1>2. OwnKey(s) \in BackendIds
  BY <1>1 DEF OwnKey, BackendIds, Processes
<1>3. OwnAfter(s, d) \in Items
  BY <1>1 DEF OwnAfter, Processes, Items
<1>4. ApplyDelta(sub[s].copy, d) \in [BackendIds -> Items]
  <2>1. sub[s].copy \in [BackendIds -> Items] /\ d.items \in [BackendIds -> Items \cup {"no item", "deleted"}]
    BY <1>1 DEF Processes, Deltas
  <2> QED
    BY <2>1 DEF ApplyDelta, Items
<1> QED
  BY <1>1, <1>2, <1>3, <1>4 DEF UpdateMembership

\* The process after it has processed a delta of a statestored.
AfterUpdate(s, d, e) ==
    [UpdateMembership(s, d) EXCEPT
       !.version = d.to, !.source = e,
       !.processed = IF sub[s].source = e THEN Max({sub[s].processed, d.to}) ELSE d.to]

LEMMA MaxOfTwo ==
    ASSUME NEW a \in Nat, NEW b \in Nat
    PROVE  Max({a, b}) \in {a, b} /\ Max({a, b}) >= a /\ Max({a, b}) >= b
<1>1. \E x \in {a, b} : \A y \in {a, b} : x >= y
  OBVIOUS
<1> QED
  BY <1>1 DEF Max

LEMMA AfterUpdateType ==
    ASSUME IInv, NEW s \in Subs, NEW d \in Deltas, NEW e \in 0..MaxEpoch
    PROVE  /\ AfterUpdate(s, d, e) \in Processes
           /\ AfterUpdate(s, d, e).up = sub[s].up /\ AfterUpdate(s, d, e).inc = sub[s].inc
           /\ AfterUpdate(s, d, e).mode = sub[s].mode /\ AfterUpdate(s, d, e).reg = sub[s].reg
           /\ AfterUpdate(s, d, e).resp = sub[s].resp
           /\ AfterUpdate(s, d, e).version = d.to /\ AfterUpdate(s, d, e).source = e
           /\ AfterUpdate(s, d, e).copy = ApplyDelta(sub[s].copy, d)
           /\ AfterUpdate(s, d, e).processed >= d.to
           /\ sub[s].source = e => AfterUpdate(s, d, e).processed >= sub[s].processed
<1> DEFINE own == IF NeedsLocalBackendUpdate(OwnAfter(s, d), sub[s].local)
                    THEN sub[s].local ELSE OwnAfter(s, d)
           n == IF sub[s].source = e THEN Max({sub[s].processed, d.to}) ELSE d.to
           cp == ApplyDelta(sub[s].copy, d)
<1>1. sub[s] \in Processes /\ sub[s].processed \in Nat /\ d.to \in Nat /\ sub[s].local \in Items
  BY MembershipType DEF Processes, Deltas
<1>2. own \in Items /\ cp \in [BackendIds -> Items]
  BY <1>1, MembershipType
<1>3. n \in Nat /\ n >= d.to /\ (sub[s].source = e => n >= sub[s].processed)
  BY <1>1, MaxOfTwo
<1>4. AfterUpdate(s, d, e) = [sub[s] EXCEPT !.copy = cp, !.own = own, !.version = d.to,
                                            !.source = e, !.processed = n]
  BY MembershipType DEF AfterUpdate, Processes
<1> HIDE DEF own, n, cp
<1>5. PICK p : p = AfterUpdate(s, d, e)
  OBVIOUS
<1>6. p \in Processes
  BY <1>1, <1>2, <1>3, <1>4, <1>5 DEF Processes
<1>7. /\ p.up = sub[s].up /\ p.inc = sub[s].inc /\ p.mode = sub[s].mode /\ p.reg = sub[s].reg
      /\ p.resp = sub[s].resp /\ p.version = d.to /\ p.source = e /\ p.copy = cp /\ p.processed = n
  BY <1>1, <1>4, <1>5 DEF Processes
<1> QED
  BY <1>3, <1>5, <1>6, <1>7 DEF cp

LEMMA ProcessUpdateLayer == ASSUME IInv, NEW c \in calls, ProcessUpdate(c) PROVE IInv'
<1> DEFINE s == regs[c.reg].sub
           d == c.delta
           e == regs[c.reg].epoch
           publish == NeedsLocalBackendUpdate(OwnAfter(s, d), sub[s].local)
<1>1. UNCHANGED <<epoch, topic, subscribers, regs, nextReg, missed, hb, late, faults>>
  BY DEF ProcessUpdate
<1>2. c.reg \in RegIds /\ d \in Deltas
  BY Same DEF Calls
<1>3. s \in Subs
  BY DEF IInv, RegInv
<1>4. e \in 0..MaxEpoch /\ sub[s] \in Processes /\ sub \in [Subs -> Processes]
  BY <1>2, <1>3, Same DEF Registrations
<1>5. CASE WrongBase(s, d)
  <2>1. Reply(c, Processed(c, sub[s].version, <<>>, "none")) /\ sub' = sub
    BY <1>5 DEF ProcessUpdate
  <2>2. PICK x : x = Processed(c, sub[s].version, <<>>, "none")
    OBVIOUS
  <2>3. sub[s].version \in Nat \cup {-1} /\ "none" \in Items
    BY <1>4 DEF Processes, Items
  <2>4. GoodChain(x) /\ x.pc = "replied"
    BY <2>2, <2>3, AnswerChains
  <2>5. SubOk
    BY <2>1, Same
  <2> QED
    BY <1>1, <2>1, <2>2, <2>4, <2>5, ReplyStep
<1>6. CASE ~WrongBase(s, d)
  <2>1. /\ Reply(c, Processed(c, -1, OwnKey(s), IF publish THEN sub[s].local ELSE "none"))
        /\ sub' = [sub EXCEPT ![s] = AfterUpdate(s, d, e)]
    BY <1>6 DEF ProcessUpdate, AfterUpdate
  <2>2. PICK item \in Items : item = IF publish THEN sub[s].local ELSE "none"
    BY <1>4 DEF Processes, Items
  <2>3. PICK x : x = Processed(c, -1, OwnKey(s), item)
    OBVIOUS
  <2>4. OwnKey(s) \in BackendIds
    BY <1>2, <1>3, MembershipType
  <2>5. GoodChain(x) /\ x.pc = "replied"
    BY <2>3, <2>4, AnswerChains, SMTT(30)
  <2>6. SubOk
    <3>1. /\ AfterUpdate(s, d, e) \in Processes
          /\ AfterUpdate(s, d, e).up = sub[s].up /\ AfterUpdate(s, d, e).inc = sub[s].inc
      BY <1>2, <1>3, <1>4, AfterUpdateType
    <3> QED
      BY <1>3, <1>4, <2>1, <3>1 DEF SubOk
  <2>7. Reply(c, x)
    BY <2>1, <2>2, <2>3
  <2> QED
    BY <1>1, <2>5, <2>6, <2>7, ReplyStep
<1> QED
  BY <1>5, <1>6

\* The worker stops waiting.
LEMMA TimeoutUpdateLayer == ASSUME IInv, NEW r \in RegIds, TimeoutUpdate(r) PROVE IInv'
<1>1. upd[r].pc # "none" /\ upd' = [upd EXCEPT ![r] = Chain("done")]
  BY DEF TimeoutUpdate
<1>2. GoodChain(Chain("done")) /\ Chain("done").pc = "done"
  BY FreshChain
<1>3. SubscribersOk /\ TopicOk /\ RegsOk /\ SubOk
  BY Same DEF TimeoutUpdate
<1>4. faults' \in 0..MaxFaults
  BY Bounds DEF TimeoutUpdate, Fault, IInv, TypeOK
<1>5. epoch' = epoch /\ nextReg' = nextReg /\ missed' = missed /\ hb' = hb /\ late' = late
  BY DEF TimeoutUpdate
<1>6. calls' = {IF c.reg = r THEN [c EXCEPT !.live = FALSE] ELSE c : c \in calls}
  BY DEF TimeoutUpdate
<1>7. CallsOk(r, Chain("done"))
  <2>1. ASSUME NEW b \in calls'
        PROVE  \/ b \in calls /\ b.reg # r
               \/ b \in Calls /\ ~b.live /\ \E c \in calls : b.reg = c.reg
    <3>1. PICK c \in calls : b = IF c.reg = r THEN [c EXCEPT !.live = FALSE] ELSE c
      BY <1>6, <2>1
    <3>2. c \in Calls
      BY Same
    <3> QED
      BY <3>1, <3>2 DEF Calls
  <2>2. \A c \in calls : c \in Calls /\ c.reg < nextReg /\ regs[c.reg].sub \in Subs
                         /\ (c.live => upd[c.reg].pc = "calling")
    BY Same DEF IInv, RegInv
  <2>3. \A a, b \in calls : a.live /\ b.live /\ a.reg = b.reg => a = b
    BY DEF IInv, RegInv
  <2>4. \A a, b \in calls' : a.live /\ b.live /\ a.reg = b.reg => a = b
    BY <2>1, <2>3
  <2> QED
    BY <2>1, <2>2, <2>4 DEF CallsOk
<1> QED
  BY <1>1, <1>2, <1>3, <1>4, <1>5, <1>7, ChainStep

\* A request that goes out again.
LEMMA RepeatUpdateLayer == ASSUME IInv, NEW c \in calls, RepeatUpdate(c) PROVE IInv'
<1>1. PICK a, b : a = [c EXCEPT !.live = FALSE] /\ b = [c EXCEPT !.stage = "sent"]
  OBVIOUS
<1>2. c \in Calls /\ c.live
  BY Same DEF RepeatUpdate
<1>3. a \in Calls /\ ~a.live /\ a.reg = c.reg /\ b \in Calls /\ b.reg = c.reg
  BY <1>1, <1>2 DEF Calls
<1>4. calls' = (calls \ {c}) \cup {a, b}
  BY <1>1 DEF RepeatUpdate
<1>5. \A x \in calls : x \in Calls /\ x.reg < nextReg /\ regs[x.reg].sub \in Subs
                       /\ (x.live => upd[x.reg].pc = "calling")
  BY Same DEF IInv, RegInv
<1>6. \A x, y \in calls : x.live /\ y.live /\ x.reg = y.reg => x = y
  BY DEF IInv, RegInv
<1>7. \A x, y \in calls' : x.live /\ y.live /\ x.reg = y.reg => x = y
  BY <1>2, <1>3, <1>4, <1>6
<1>8. CallsStay
  BY <1>2, <1>3, <1>4, <1>5, <1>7 DEF CallsStay
<1>9. sub' \in [Subs -> Processes] /\ ProcInv' /\ late' \subseteq Subs /\ faults' \in 0..MaxFaults
  BY Bounds DEF RepeatUpdate, Fault, IInv, TypeOK, ProcInv
<1> QED
  BY <1>8, <1>9, ProcessesStep DEF RepeatUpdate
-----------------------------------------------------------------------------
\* Heartbeats.
LEMMA DropHeartbeatLayer == ASSUME IInv, NEW r \in RegIds, DropHeartbeat(r) PROVE IInv'
<1>1. /\ regs' \in [RegIds -> Registrations] /\ \A i \in RegIds : regs'[i].sub = regs[i].sub
      /\ missed' \in [Subs -> -1..(MaxMissed - 1)] /\ upd' = upd /\ hb' \subseteq hb
      /\ epoch' = epoch /\ nextReg' = nextReg /\ sub' \in [Subs -> Processes] /\ ProcInv'
      /\ faults' \in 0..MaxFaults /\ late' \subseteq Subs
  BY DEF IInv, TypeOK, ProcInv, DropHeartbeat
<1>2. SubscribersOk /\ TopicOk /\ CallsStay
  BY Same, FewerCalls DEF DropHeartbeat
<1>3. ASSUME NEW s \in Subs, subscribers'[s] # 0
      PROVE  ~regs'[subscribers'[s]].unregistered /\ subscribers'[s] \in hb'
  <2>1. subscribers' = subscribers /\ regs' = regs /\ hb' = hb \ {r} /\ ~Current(r)
    BY DEF DropHeartbeat
  <2>2. subscribers[s] # r
    BY <1>3, <2>1, CurrentFacts DEF Current
  <2> QED
    BY <1>3, <2>1, <2>2, CurrentFacts
<1> QED
  BY <1>1, <1>2, <1>3, QuietStep

LEMMA HeartbeatOkLayer == ASSUME IInv, NEW r \in RegIds, HeartbeatOk(r) PROVE IInv'
<1> DEFINE s == regs[r].sub
<1>1. s \in Subs /\ subscribers[s] = r /\ r \in hb
  BY DEF HeartbeatOk, Current
<1>2. PICK full \in BOOLEAN :
        /\ hb' = IF full THEN hb \ {r} ELSE hb
        /\ subscribers' = IF full THEN [subscribers EXCEPT ![s] = 0] ELSE subscribers
  BY DEF HeartbeatOk, LimitReached
<1>3. /\ regs' = regs /\ upd' = upd /\ epoch' = epoch /\ nextReg' = nextReg /\ sub' = sub
      /\ faults' = faults /\ late' = late /\ topic' = topic /\ calls' = calls
      /\ missed' = [missed EXCEPT ![s] = 0]
  BY DEF HeartbeatOk
<1> HIDE DEF s
<1>4. /\ regs' \in [RegIds -> Registrations] /\ \A i \in RegIds : regs'[i].sub = regs[i].sub
      /\ hb' \subseteq hb /\ sub' \in [Subs -> Processes] /\ ProcInv'
      /\ faults' \in 0..MaxFaults /\ late' \subseteq Subs
  BY <1>2, <1>3 DEF IInv, TypeOK, ProcInv
<1>5. missed' \in [Subs -> -1..(MaxMissed - 1)]
  BY <1>1, <1>3, Bounds DEF IInv, TypeOK
<1>6. SubscribersOk
  BY <1>1, <1>2, Same, Bounds DEF SubscribersOk
<1>7. TopicOk /\ CallsStay
  BY <1>3, Same, FewerCalls
<1>8. ASSUME NEW z \in Subs, subscribers'[z] # 0
      PROVE  ~regs'[subscribers'[z]].unregistered /\ subscribers'[z] \in hb'
  <2>1. subscribers'[z] = subscribers[z] /\ (full => z # s)
    BY <1>1, <1>2, <1>8, Same
  <2>2. full => subscribers[z] # r
    BY <1>1, <1>8, <2>1, CurrentFacts DEF s
  <2> QED
    BY <1>2, <1>3, <1>8, <2>1, <2>2, CurrentFacts
<1> QED
  BY <1>3, <1>4, <1>5, <1>6, <1>7, <1>8, QuietStep

LEMMA HeartbeatFailedLayer == ASSUME IInv, NEW r \in RegIds, HeartbeatFailed(r) PROVE IInv'
<1> DEFINE s == regs[r].sub
           failed == Failed(missed[s] + 1)
<1>1. s \in Subs /\ subscribers[s] = r /\ r \in hb
  BY DEF HeartbeatFailed, Current
<1>2. PICK full \in BOOLEAN :
        /\ hb' = IF failed \/ full THEN hb \ {r} ELSE hb
        /\ subscribers' = IF failed \/ full THEN [subscribers EXCEPT ![s] = 0] ELSE subscribers
  BY DEF HeartbeatFailed, LimitReached
<1>3. /\ upd' = upd /\ epoch' = epoch /\ nextReg' = nextReg /\ sub' = sub
      /\ late' = late /\ calls' = calls
      /\ missed' = [missed EXCEPT ![s] = IF failed THEN -1 ELSE missed[s] + 1]
      /\ topic' \in IF failed THEN WithoutTransient(topic, r) ELSE {topic}
      /\ regs' = IF failed THEN [regs EXCEPT ![r].unregistered = TRUE] ELSE regs
  BY DEF HeartbeatFailed
<1>4. faults' \in 0..MaxFaults
  BY Bounds DEF HeartbeatFailed, Fault, IInv, TypeOK
<1>5. missed' \in [Subs -> -1..(MaxMissed - 1)]
  <2>1. missed \in [Subs -> -1..(MaxMissed - 1)]
    BY DEF IInv, TypeOK
  <2>2. ~failed => missed[s] + 1 \in -1..(MaxMissed - 1)
    BY <1>1, <2>1, Bounds DEF Failed
  <2>3. -1 \in -1..(MaxMissed - 1)
    BY Bounds
  <2> HIDE DEF failed, s
  <2> QED
    BY <1>1, <1>3, <2>1, <2>2, <2>3
<1> HIDE DEF s, failed
<1>6. regs' \in [RegIds -> Registrations] /\ \A i \in RegIds : regs'[i].sub = regs[i].sub
  BY <1>3, Same DEF Registrations
<1>7. hb' \subseteq hb /\ sub' \in [Subs -> Processes] /\ ProcInv' /\ late' \subseteq Subs
  BY <1>2, <1>3 DEF IInv, TypeOK, ProcInv
<1>8. SubscribersOk
  BY <1>1, <1>2, Same, Bounds DEF SubscribersOk
<1>9. TopicOk
  <2>1. Later(topic, topic')
    BY <1>3, Same, SameTopic, WithoutTransientIsLater
  <2> QED
    BY <2>1 DEF Later, TopicOk
<1>10. CallsStay
  BY <1>3, FewerCalls
<1>11. ASSUME NEW z \in Subs, subscribers'[z] # 0
       PROVE  ~regs'[subscribers'[z]].unregistered /\ subscribers'[z] \in hb'
  <2>1. subscribers'[z] = subscribers[z] /\ (failed \/ full => z # s)
    BY <1>1, <1>2, <1>11, Same
  <2>2. failed \/ full => subscribers[z] # r
    BY <1>1, <1>11, <2>1, CurrentFacts DEF s
  <2>3. subscribers[z] \in RegIds /\ ~regs[subscribers[z]].unregistered /\ subscribers[z] \in hb
    BY <1>11, <2>1, CurrentFacts
  <2>4. regs'[subscribers[z]] = regs[subscribers[z]]
    BY <1>3, <2>2, <2>3, Same
  <2> QED
    BY <1>2, <2>1, <2>2, <2>3, <2>4
<1> QED
  BY <1>3, <1>4, <1>5, <1>6, <1>7, <1>8, <1>9, <1>10, <1>11, QuietStep

-----------------------------------------------------------------------------
\* The processes.
LEMMA OneProcess ==
    ASSUME IInv, NEW s \in Subs, NEW p \in Processes, sub' = [sub EXCEPT ![s] = p],
           p.up = sub[s].up, p.inc = sub[s].inc
    PROVE  /\ sub' \in [Subs -> Processes] /\ ProcInv'
           /\ \A z \in Subs : sub'[z].up = sub[z].up /\ sub'[z].inc = sub[z].inc
<1>1. sub \in [Subs -> Processes]
  BY Same
<1>2. sub'[s] = p /\ \A z \in Subs \ {s} : sub'[z] = sub[z]
  BY <1>1
<1> QED
  BY <1>1, <1>2 DEF IInv, ProcInv

LEMMA RecoverLayer ==
    ASSUME IInv, NEW s \in Subs, Recover(s), faults' \in 0..MaxFaults PROVE IInv'
<1>1. sub' = [sub EXCEPT ![s].mode = "registering", ![s].reg = 0]
  BY DEF Recover
<1>2. sub' \in [Subs -> Processes] /\ ProcInv'
  <2>1. sub[s] \in Processes /\ 0 \in 0..MaxRegs
    BY Same, Bounds
  <2>2. PICK p : p = [sub[s] EXCEPT !.mode = "registering", !.reg = 0]
    OBVIOUS
  <2>3. p \in Processes /\ p.up = sub[s].up /\ p.inc = sub[s].inc
    BY <2>1, <2>2 DEF Processes
  <2>4. sub' = [sub EXCEPT ![s] = p]
    BY <1>1, <2>1, <2>2, Same DEF Processes
  <2> QED
    BY <2>3, <2>4, OneProcess
<1>3. late' \subseteq Subs
  BY DEF Recover, IInv, TypeOK
<1>4. CallsStay
  BY FewerCalls DEF Recover
<1> QED
  BY <1>2, <1>3, <1>4, ProcessesStep DEF Recover

LEMMA FinishRegisterLayer == ASSUME IInv, NEW s \in Subs, FinishRegister(s) PROVE IInv'
<1>1. sub[s] \in Processes /\ sub[s].resp.reg \in 0..MaxRegs /\ 0 \in 0..MaxRegs
  BY Same, Bounds DEF Processes
<1>2. PICK m \in {"running", "registering"} : m = IF sub[s].resp.ok THEN "running" ELSE "registering"
  OBVIOUS
<1>3. PICK g \in BOOLEAN : g = (sub[s].registered \/ sub[s].resp.ok)
  OBVIOUS
<1>4. PICK x : x = [reg |-> 0, ok |-> TRUE]
  OBVIOUS
<1>5. x \in [reg : 0..MaxRegs, ok : BOOLEAN]
  BY <1>1, <1>4
<1>6. PICK p : p = [sub[s] EXCEPT !.reg = sub[s].resp.reg, !.resp = x, !.mode = m, !.registered = g]
  OBVIOUS
<1>7. sub' = [sub EXCEPT ![s] = p]
  <2>1. sub' = [sub EXCEPT ![s].reg = sub[s].resp.reg, ![s].resp = x, ![s].mode = m, ![s].registered = g]
    BY <1>2, <1>3, <1>4 DEF FinishRegister
  <2> QED
    BY <2>1, <1>1, <1>6, Same DEF Processes
<1>8. p \in Processes /\ p.up = sub[s].up /\ p.inc = sub[s].inc
  BY <1>1, <1>5, <1>6 DEF Processes
<1>9. sub' \in [Subs -> Processes] /\ ProcInv'
  BY <1>7, <1>8, OneProcess
<1>10. late' \subseteq Subs /\ faults' \in 0..MaxFaults
  BY DEF FinishRegister, IInv, TypeOK
<1>11. CallsStay
  BY FewerCalls DEF FinishRegister
<1> QED
  BY <1>9, <1>10, <1>11, ProcessesStep DEF FinishRegister

LEMMA LoseRegisterReplyLayer == ASSUME IInv, NEW s \in Subs, LoseRegisterReply(s) PROVE IInv'
<1>1. sub' = [sub EXCEPT ![s].resp = [reg |-> 0, ok |-> TRUE]]
  BY DEF LoseRegisterReply
<1>2. sub' \in [Subs -> Processes] /\ ProcInv'
  <2>1. sub[s] \in Processes /\ 0 \in 0..MaxRegs
    BY Same, Bounds
  <2>2. PICK x : x = [reg |-> 0, ok |-> TRUE]
    OBVIOUS
  <2>3. x \in [reg : 0..MaxRegs, ok : BOOLEAN]
    BY <2>1, <2>2
  <2>4. PICK p : p = [sub[s] EXCEPT !.resp = x]
    OBVIOUS
  <2>5. p \in Processes /\ p.up = sub[s].up /\ p.inc = sub[s].inc
    BY <2>1, <2>3, <2>4 DEF Processes
  <2>6. sub' = [sub EXCEPT ![s] = p]
    BY <1>1, <2>1, <2>2, <2>4, Same DEF Processes
  <2> QED
    BY <2>5, <2>6, OneProcess
<1>3. late' \subseteq Subs /\ faults' \in 0..MaxFaults
  BY Bounds DEF LoseRegisterReply, Fault, IInv, TypeOK
<1>4. CallsStay
  BY FewerCalls DEF LoseRegisterReply
<1> QED
  BY <1>2, <1>3, <1>4, ProcessesStep DEF LoseRegisterReply

LEMMA AbandonRegisterLayer == ASSUME IInv, NEW s \in Subs, AbandonRegister(s) PROVE IInv'
<1>1. sub' \in [Subs -> Processes] /\ ProcInv' /\ late' \subseteq Subs /\ faults' \in 0..MaxFaults
  BY Bounds DEF AbandonRegister, Fault, IInv, ProcInv, TypeOK
<1>2. CallsStay
  BY FewerCalls DEF AbandonRegister
<1> QED
  BY <1>1, <1>2, ProcessesStep DEF AbandonRegister

LEMMA SetLocalBackendLayer == ASSUME IInv, NEW s \in Subs, SetLocalBackend(s) PROVE IInv'
<1>1. PICK v \in {"running", "quiescing"} : sub' = [sub EXCEPT ![s].local = v]
  BY DEF SetLocalBackend
<1>2. sub' \in [Subs -> Processes] /\ ProcInv'
  <2>1. sub[s] \in Processes /\ v \in Items
    BY Same DEF Items
  <2>2. PICK p : p = [sub[s] EXCEPT !.local = v]
    OBVIOUS
  <2>3. p \in Processes /\ p.up = sub[s].up /\ p.inc = sub[s].inc
    BY <2>1, <2>2 DEF Processes
  <2>4. sub' = [sub EXCEPT ![s] = p]
    BY <1>1, <2>1, <2>2, Same DEF Processes
  <2> QED
    BY <2>3, <2>4, OneProcess
<1>3. late' \subseteq Subs /\ faults' \in 0..MaxFaults
  BY DEF SetLocalBackend, IInv, TypeOK
<1>4. CallsStay
  BY FewerCalls DEF SetLocalBackend
<1> QED
  BY <1>2, <1>3, <1>4, ProcessesStep DEF SetLocalBackend

\* A process that has just started.
LEMMA NewProcessType ==
    ASSUME NEW i \in 1..MaxInc
    PROVE  /\ NewProcess(i) \in Processes /\ NewProcess(i).up /\ NewProcess(i).inc = i
           /\ NewProcess(i).reg = 0 /\ NewProcess(i).resp = [reg |-> 0, ok |-> TRUE]
           /\ NewProcess(i).source = 0 /\ NewProcess(i).mode = "registering"
           /\ NewProcess(i).version = -1 /\ NewProcess(i).processed = 0
BY Bounds DEF NewProcess, Processes, Items

LEMMA BootLayer == ASSUME IInv, NEW s \in Subs, Boot(s) PROVE IInv'
<1>1. sub[s].inc + 1 \in 1..MaxInc
  BY Same, Bounds DEF Boot, IInv, ProcInv, Processes
<1>2. PICK p : p = NewProcess(sub[s].inc + 1)
  OBVIOUS
<1>3. p \in Processes /\ p.up
  BY <1>1, <1>2, NewProcessType
<1>4. sub' = [sub EXCEPT ![s] = p]
  BY <1>2 DEF Boot
<1>5. sub' \in [Subs -> Processes] /\ \A z \in Subs : sub'[z].up \/ sub'[z] = sub[z]
  BY <1>3, <1>4, Same
<1>6. ProcInv' /\ late' \subseteq Subs /\ faults' \in 0..MaxFaults
  BY <1>5 DEF Boot, IInv, ProcInv, TypeOK
<1>7. CallsStay
  BY FewerCalls DEF Boot
<1> QED
  BY <1>5, <1>6, <1>7, ProcessesStep DEF Boot

LEMMA CrashLayer == ASSUME IInv, NEW s \in Subs, Crash(s) PROVE IInv'
<1>1. /\ sub' = [sub EXCEPT ![s].up = FALSE] /\ sub[s].inc < MaxInc
      /\ calls' = {c \in calls : regs[c.reg].sub # s}
      /\ upd' = [r \in RegIds |-> IF regs[r].sub = s /\ upd[r].pc = "calling"
                                    THEN Chain("done") ELSE upd[r]]
      /\ UNCHANGED <<epoch, topic, subscribers, regs, nextReg, missed, hb, late>>
  BY DEF Crash
<1>2. faults' \in 0..MaxFaults
  BY Bounds DEF Crash, Fault, IInv, TypeOK
<1>3. sub' \in [Subs -> Processes] /\ ProcInv'
  <2>1. sub \in [Subs -> Processes]
    BY Same
  <2>2. PICK p : p = [sub[s] EXCEPT !.up = FALSE]
    OBVIOUS
  <2>3. p \in Processes /\ p.inc = sub[s].inc
    BY <2>1, <2>2, ZenonT(40) DEF Processes
  <2>4. sub' = [sub EXCEPT ![s] = p]
    BY <1>1, <2>1, <2>2 DEF Processes
  <2>5. sub'[s] = p /\ \A z \in Subs \ {s} : sub'[z] = sub[z]
    BY <2>1, <2>4
  <2> QED
    BY <1>1, <2>1, <2>3, <2>4, <2>5 DEF IInv, ProcInv
<1>4. \A r \in RegIds : GoodChain(upd'[r]) /\ (upd'[r].pc = "none" <=> upd[r].pc = "none")
                        /\ (upd[r].pc = "calling" /\ regs[r].sub # s => upd'[r] = upd[r])
  BY <1>1, OldChain, FreshChain
<1>5. upd' \in [RegIds -> Chains] /\ ChainInv'
  <2>1. upd' = [r \in RegIds |-> upd'[r]]
    BY <1>1
  <2>2. upd' \in [RegIds -> Chains]
    BY <1>4, <2>1 DEF GoodChain
  <2> QED
    BY <1>4, <2>2 DEF ChainInv, GoodChain
<1>6. TypeOK'
  BY <1>1, <1>2, <1>3, <1>5 DEF IInv, TypeOK
<1>7. RegInv'
  <2>1. \A z \in Subs : subscribers[z] # 0 => subscribers[z] \in RegIds
    BY CurrentFacts
  <2>2. \A c \in calls' : c \in calls /\ c.reg \in RegIds /\ regs[c.reg].sub # s
    BY <1>1, Same DEF Calls
  <2> QED
    BY <1>1, <1>4, <2>1, <2>2 DEF IInv, RegInv
<1>8. Sound(topic')
  BY <1>1, Same
<1> QED
  BY <1>3, <1>5, <1>6, <1>7, <1>8 DEF IInv

\* Another statestored.
LEMMA EmptyTopicFacts ==
    /\ EmptyTopic \in Topics /\ Sound(EmptyTopic) /\ EmptyTopic.last = 0
    /\ \A k \in BackendIds : ~HasEntry(EmptyTopic, k) /\ View(EmptyTopic)[k] = "none"
<1>1. \A k \in BackendIds : EmptyTopic.entries[k] = NoEntry
  BY DEF EmptyTopic
<1>2. \A k \in BackendIds : ~HasEntry(EmptyTopic, k) /\ EmptyTopic.entries[k].version = 0
  BY <1>1 DEF HasEntry, NoEntry
<1>3. EmptyTopic.log = {} /\ EmptyTopic.last = 0
  BY DEF EmptyTopic
<1>4. EmptyTopic \in Topics
  BY DEF EmptyTopic, Topics, Entry, NoEntry
<1>5. Sound(EmptyTopic)
  BY <1>2, <1>3 DEF Sound
<1>6. \A k \in BackendIds : View(EmptyTopic)[k] = "none"
  BY <1>2 DEF View
<1> QED
  BY <1>2, <1>3, <1>4, <1>5, <1>6

LEMMA RestartStatestoreLayer == ASSUME IInv, RestartStatestore PROVE IInv'
<1>1. /\ epoch' = epoch + 1 /\ epoch < MaxEpoch /\ topic' = EmptyTopic
      /\ subscribers' = [s \in Subs |-> 0] /\ missed' = [s \in Subs |-> -1]
      /\ upd' = [r \in RegIds |-> Chain("none")] /\ hb' = {} /\ late' = {}
      /\ calls' = {[c EXCEPT !.live = FALSE] : c \in calls}
      /\ sub' = [s \in Subs |-> [sub[s] EXCEPT !.resp = [reg |-> 0, ok |-> TRUE]]]
      /\ UNCHANGED <<regs, nextReg>>
  BY DEF RestartStatestore
<1>2. faults' \in 0..MaxFaults
  BY Bounds DEF RestartStatestore, Fault, IInv, TypeOK
<1>3. epoch' \in 1..MaxEpoch
  BY <1>1, Bounds DEF IInv, TypeOK
<1>4. sub' \in [Subs -> Processes] /\ ProcInv'
  <2>1. sub \in [Subs -> Processes]
    BY Same
  <2>2. ASSUME NEW s \in Subs
        PROVE  sub'[s] \in Processes /\ sub'[s].up = sub[s].up /\ sub'[s].inc = sub[s].inc
    <3>1. PICK x : x = [reg |-> 0, ok |-> TRUE]
      OBVIOUS
    <3>2. x \in [reg : 0..MaxRegs, ok : BOOLEAN]
      BY <3>1, Bounds
    <3>3. PICK p : p = [sub[s] EXCEPT !.resp = x]
      OBVIOUS
    <3>4. p \in Processes /\ p.up = sub[s].up /\ p.inc = sub[s].inc
      BY <2>1, <3>2, <3>3 DEF Processes
    <3>5. sub'[s] = p
      BY <1>1, <3>1, <3>3
    <3> QED
      BY <3>4, <3>5
  <2>3. sub' \in [Subs -> Processes]
    BY <1>1, <2>2
  <2> QED
    BY <2>2, <2>3 DEF IInv, ProcInv
<1>5. ASSUME NEW b \in calls'
      PROVE  b \in Calls /\ ~b.live /\ b.reg < nextReg /\ regs[b.reg].sub \in Subs
  <2>1. PICK c \in calls : b = [c EXCEPT !.live = FALSE]
    BY <1>1, <1>5
  <2>2. c \in Calls /\ c.reg < nextReg /\ regs[c.reg].sub \in Subs
    BY Same DEF IInv, RegInv
  <2> QED
    BY <2>1, <2>2 DEF Calls
<1>6. GoodChain(Chain("none")) /\ Chain("none").pc = "none"
  BY FreshChain
<1>7. upd' \in [RegIds -> Chains] /\ ChainInv'
  BY <1>1, <1>6 DEF GoodChain, ChainInv
<1>8. TypeOK'
  <2>1. calls' \subseteq Calls
    BY <1>5
  <2>2. subscribers' \in [Subs -> 0..MaxRegs] /\ missed' \in [Subs -> -1..(MaxMissed - 1)]
    BY <1>1, Bounds
  <2>3. regs' \in [RegIds -> Registrations] /\ nextReg' \in 1..(MaxRegs + 1)
    BY <1>1 DEF IInv, TypeOK
  <2> QED
    BY <1>1, <1>2, <1>3, <1>4, <1>7, <2>1, <2>2, <2>3, EmptyTopicFacts DEF TypeOK, Calls
<1>9. RegInv'
  <2>1. \A s \in Subs : subscribers'[s] = 0
    BY <1>1
  <2>2. \A r \in RegIds : upd'[r].pc = "none" /\ r \notin hb'
    BY <1>1, <1>6
  <2> QED
    BY <1>1, <1>5, <2>1, <2>2 DEF RegInv
<1>10. Sound(topic')
  BY <1>1, EmptyTopicFacts
<1> QED
  BY <1>4, <1>7, <1>8, <1>9, <1>10 DEF IInv

-----------------------------------------------------------------------------
\* A new registration.
LEMMA NewRegFacts ==
    ASSUME IInv, NEW s \in Subs
    PROVE  /\ NewReg(s) \in Registrations /\ NewReg(s).sub = s /\ ~NewReg(s).unregistered
           /\ NewReg(s).last = 0 /\ NewReg(s).epoch = epoch /\ NewReg(s).inc = sub[s].inc
           /\ \A k \in BackendIds : NewReg(s).transient[k] = 0
<1>1. sub[s].inc \in 0..MaxInc /\ epoch \in 0..MaxEpoch
  BY Bounds, Same DEF IInv, TypeOK, Processes
<1>2. PICK n : n = NoReg
  OBVIOUS
<1>3. /\ n \in Registrations /\ ~n.unregistered /\ n.last = 0
      /\ \A k \in BackendIds : n.transient[k] = 0
  BY <1>2, Bounds DEF NoReg, Registrations
<1>4. NewReg(s) = [n EXCEPT !.sub = s, !.inc = sub[s].inc, !.epoch = epoch]
  BY <1>2 DEF NewReg
<1> QED
  BY <1>1, <1>3, <1>4 DEF Registrations

LEMMA LimitBoolean == ASSUME NEW w, NEW b \in LimitReached(w) PROVE b \in BOOLEAN
<1>1. (Cardinality(w) >= MaxQueue) \in BOOLEAN
  OBVIOUS
<1>2. b = FALSE \/ b = (Cardinality(w) >= MaxQueue)
  BY DEF LimitReached
<1> QED
  BY <1>1, <1>2

\* What RegisterSubscriber() does, with the outcome of the two offers.
LEMMA RegisterFacts ==
    ASSUME IInv, NEW s \in Subs, RegisterSubscriber(s)
    PROVE  \E full \in LimitReached(UpdateQueue), fullHb \in LimitReached(hb), r \in RegIds, old \in 0..MaxRegs :
           /\ r = nextReg /\ old = subscribers[s] /\ r # old /\ r \notin hb /\ upd[r].pc = "none"
           /\ full \in BOOLEAN /\ fullHb \in BOOLEAN
           /\ nextReg' = r + 1
           /\ topic' \in IF old = 0 THEN {topic} ELSE WithoutTransient(topic, old)
           /\ regs' \in [RegIds -> Registrations]
           /\ regs'[r] = NewReg(s)
           /\ old # 0 => regs'[old] = [regs[old] EXCEPT !.unregistered = TRUE]
           /\ \A i \in RegIds \ {r, old} : regs'[i] = regs[i]
           /\ missed' = [missed EXCEPT ![s] = 0]
           /\ subscribers' = [subscribers EXCEPT ![s] = IF full \/ fullHb THEN 0 ELSE r]
           /\ upd' = IF full THEN upd ELSE [upd EXCEPT ![r] = Chain("queued")]
           /\ hb' = IF full \/ fullHb THEN hb ELSE hb \cup {r}
           /\ epoch' = epoch
<1>1. PICK r \in RegIds : r = nextReg
  BY Bounds DEF RegisterSubscriber, RegIds, IInv, TypeOK
<1>2. PICK old \in 0..MaxRegs : old = subscribers[s]
  BY DEF IInv, TypeOK
<1>3. PICK full \in LimitReached(UpdateQueue), fullHb \in LimitReached(hb) :
        /\ nextReg' = nextReg + 1
        /\ topic' \in IF old = 0 THEN {topic} ELSE WithoutTransient(topic, old)
        /\ regs' = [i \in RegIds |-> IF i = r THEN NewReg(s)
                                     ELSE IF i = old THEN [regs[i] EXCEPT !.unregistered = TRUE]
                                     ELSE regs[i]]
        /\ missed' = [missed EXCEPT ![s] = 0]
        /\ subscribers' = [subscribers EXCEPT ![s] = IF full \/ fullHb THEN 0 ELSE r]
        /\ upd' = IF full THEN upd ELSE [upd EXCEPT ![r] = Chain("queued")]
        /\ hb' = IF full \/ fullHb THEN hb ELSE hb \cup {r}
        /\ UNCHANGED epoch
  BY <1>1, <1>2 DEF RegisterSubscriber
<1>4. full \in BOOLEAN /\ fullHb \in BOOLEAN
  BY LimitBoolean
<1>5. old # 0 => old \in RegIds /\ old < r
  BY <1>1, <1>2, CurrentFacts
<1>6. r # old /\ r \notin hb /\ upd[r].pc = "none" /\ r # 0
  BY <1>1, <1>5, RegFacts, Bounds DEF IInv, TypeOK, RegIds
<1>7. \A i \in RegIds : regs'[i] = IF i = r THEN NewReg(s)
                                     ELSE IF i = old THEN [regs[i] EXCEPT !.unregistered = TRUE]
                                     ELSE regs[i]
  BY <1>3
<1>8. regs' \in [RegIds -> Registrations]
  <2>1. \A i \in RegIds : [regs[i] EXCEPT !.unregistered = TRUE] \in Registrations
    BY Same DEF Registrations
  <2>2. \A i \in RegIds : regs'[i] \in Registrations
    BY <1>7, <2>1, Same, NewRegFacts
  <2>3. regs' = [i \in RegIds |-> regs'[i]]
    BY <1>3
  <2> QED
    BY <2>2, <2>3
<1>9. /\ regs'[r] = NewReg(s)
      /\ old # 0 => regs'[old] = [regs[old] EXCEPT !.unregistered = TRUE]
      /\ \A i \in RegIds \ {r, old} : regs'[i] = regs[i]
  BY <1>5, <1>6, <1>7
<1> HIDE DEF RegisterSubscriber
<1>10. /\ r = nextReg /\ old = subscribers[s] /\ r # old /\ r \notin hb /\ upd[r].pc = "none"
       /\ full \in BOOLEAN /\ fullHb \in BOOLEAN
       /\ nextReg' = r + 1
       /\ topic' \in IF old = 0 THEN {topic} ELSE WithoutTransient(topic, old)
       /\ missed' = [missed EXCEPT ![s] = 0]
       /\ subscribers' = [subscribers EXCEPT ![s] = IF full \/ fullHb THEN 0 ELSE r]
       /\ upd' = IF full THEN upd ELSE [upd EXCEPT ![r] = Chain("queued")]
       /\ hb' = IF full \/ fullHb THEN hb ELSE hb \cup {r}
       /\ epoch' = epoch
  BY <1>1, <1>2, <1>3, <1>4, <1>6
<1> QED
  BY <1>8, <1>9, <1>10, Zenon

LEMMA RegisterSubscriberLayer ==
    ASSUME IInv, NEW s \in Subs, RegisterSubscriber(s), sub' \in [Subs -> Processes], ProcInv',
           calls' = calls, faults' = faults, late' \subseteq late
    PROVE  IInv'
<1>1. PICK full \in LimitReached(UpdateQueue), fullHb \in LimitReached(hb), r \in RegIds, old \in 0..MaxRegs :
           /\ r = nextReg /\ old = subscribers[s] /\ r # old /\ r \notin hb /\ upd[r].pc = "none"
           /\ full \in BOOLEAN /\ fullHb \in BOOLEAN
           /\ nextReg' = r + 1
           /\ topic' \in IF old = 0 THEN {topic} ELSE WithoutTransient(topic, old)
           /\ regs' \in [RegIds -> Registrations]
           /\ regs'[r] = NewReg(s)
           /\ old # 0 => regs'[old] = [regs[old] EXCEPT !.unregistered = TRUE]
           /\ \A i \in RegIds \ {r, old} : regs'[i] = regs[i]
           /\ missed' = [missed EXCEPT ![s] = 0]
           /\ subscribers' = [subscribers EXCEPT ![s] = IF full \/ fullHb THEN 0 ELSE r]
           /\ upd' = IF full THEN upd ELSE [upd EXCEPT ![r] = Chain("queued")]
           /\ hb' = IF full \/ fullHb THEN hb ELSE hb \cup {r}
           /\ epoch' = epoch
  BY RegisterFacts
<1>2. \A i \in RegIds \ {r} : regs'[i].sub = regs[i].sub
  <2>1. ASSUME NEW i \in RegIds PROVE [regs[i] EXCEPT !.unregistered = TRUE].sub = regs[i].sub
    BY Same DEF Registrations
  <2>2. ASSUME NEW i \in RegIds \ {r} PROVE regs'[i].sub = regs[i].sub
    <3>1. i # 0
      BY Bounds DEF RegIds
    <3>2. CASE i = old
      BY <1>1, <2>1, <3>1, <3>2
    <3>3. CASE i # old
      BY <1>1, <3>3
    <3> QED
      BY <3>2, <3>3
  <2> QED
    BY <2>2
<1>3. r \in 1..MaxRegs /\ nextReg' \in 1..(MaxRegs + 1)
  BY <1>1, Bounds DEF RegIds
<1>4. Later(topic, topic')
  BY <1>1, Same, SameTopic, WithoutTransientIsLater
<1>5. GoodChain(Chain("queued")) /\ Chain("queued").pc = "queued"
  BY FreshChain
<1>6. upd' \in [RegIds -> Chains] /\ \A i \in RegIds \ {r} : upd'[i] = upd[i]
  BY <1>1, <1>5, Same DEF GoodChain
<1>7. upd'[r] = IF full THEN upd[r] ELSE Chain("queued")
  BY <1>1, Same
<1>8. subscribers' \in [Subs -> 0..MaxRegs] /\ hb' \subseteq RegIds
      /\ missed' \in [Subs -> -1..(MaxMissed - 1)]
  BY <1>1, <1>3, Bounds DEF IInv, TypeOK
<1>9. TypeOK'
  BY <1>1, <1>3, <1>4, <1>6, <1>8 DEF IInv, TypeOK, Later
<1>10. ChainInv'
  <2>1. \A i \in RegIds : GoodChain(upd'[i])
    BY <1>5, <1>6, <1>7, OldChain
  <2> QED
    BY <2>1 DEF ChainInv, GoodChain
<1>11. RegInv'
  <2>1. ASSUME NEW z \in Subs, subscribers'[z] # 0
        PROVE  /\ subscribers'[z] < nextReg' /\ regs'[subscribers'[z]].sub = z
               /\ ~regs'[subscribers'[z]].unregistered
               /\ upd'[subscribers'[z]].pc # "none" /\ subscribers'[z] \in hb'
    <3>1. CASE z = s
      <4>1. subscribers'[z] = r /\ ~full /\ ~fullHb
        BY <1>1, <2>1, <3>1, Same
      <4> QED
        BY <1>1, <1>3, <1>5, <1>7, <3>1, <4>1, NewRegFacts
    <3>2. CASE z # s
      <4>1. subscribers'[z] = subscribers[z]
        BY <1>1, <3>2, Same
      <4>2. /\ subscribers[z] \in RegIds /\ subscribers[z] < r /\ regs[subscribers[z]].sub = z
            /\ ~regs[subscribers[z]].unregistered /\ upd[subscribers[z]].pc # "none"
            /\ subscribers[z] \in hb
        BY <1>1, <2>1, <4>1, CurrentFacts
      <4>3. subscribers[z] # r
        BY <1>3, <4>2
      <4>4. subscribers[z] # old
        BY <1>1, <2>1, <3>2, <4>1, <4>2, CurrentFacts
      <4>5. regs'[subscribers[z]] = regs[subscribers[z]] /\ upd'[subscribers[z]] = upd[subscribers[z]]
        BY <1>1, <1>6, <4>2, <4>3, <4>4
      <4>6. subscribers[z] < nextReg'
        BY <1>1, <1>3, <4>2, <1>8 DEF RegIds
      <4> QED
        BY <1>1, <4>1, <4>2, <4>5, <4>6
    <3> QED
      BY <3>1, <3>2
  <2>2. ASSUME NEW i \in RegIds, upd'[i].pc # "none" \/ i \in hb'
        PROVE  i < nextReg' /\ regs'[i].sub \in Subs
    <3>1. CASE i = r
      BY <1>1, <1>3, <3>1, NewRegFacts
    <3>2. CASE i # r
      <4>1. upd[i].pc # "none" \/ i \in hb
        BY <1>1, <1>6, <2>2, <3>2
      <4>2. i < r /\ regs[i].sub \in Subs
        BY <1>1, <4>1, RegFacts
      <4> QED
        BY <1>1, <1>2, <1>3, <3>2, <4>2 DEF RegIds
    <3> QED
      BY <3>1, <3>2
  <2>3. ASSUME NEW c \in calls
        PROVE  /\ c.reg < nextReg' /\ regs'[c.reg].sub \in Subs
               /\ c.live => upd'[c.reg].pc = "calling"
    <3>1. c.reg \in RegIds /\ c.reg < r /\ regs[c.reg].sub \in Subs /\ (c.live => upd[c.reg].pc = "calling")
      BY <1>1, Same DEF IInv, RegInv, Calls
    <3> QED
      BY <1>1, <1>2, <1>3, <1>6, <3>1 DEF RegIds
  <2> QED
    BY <2>1, <2>2, <2>3 DEF IInv, RegInv
<1> QED
  BY <1>4, <1>9, <1>10, <1>11 DEF IInv, Later

LEMMA RegisterLayer == ASSUME IInv, NEW s \in Subs, Register(s) PROVE IInv'
<1>1. RegisterSubscriber(s) /\ calls' = calls /\ faults' = faults /\ late' \subseteq late
  BY DEF Register
<1>2. nextReg \in 0..MaxRegs /\ 0 \in 0..MaxRegs
  BY <1>1, Bounds DEF RegisterSubscriber, IInv, TypeOK
<1>3. PICK b \in BOOLEAN : b = (subscribers'[s] = nextReg)
  OBVIOUS
<1>4. PICK x : x = [reg |-> nextReg, ok |-> b]
  OBVIOUS
<1>5. x \in [reg : 0..MaxRegs, ok : BOOLEAN]
  BY <1>2, <1>4
<1>6. PICK p : p = [sub[s] EXCEPT !.reg = 0, !.resp = x]
  OBVIOUS
<1>7. p \in Processes /\ p.up = sub[s].up /\ p.inc = sub[s].inc
  <2>1. sub[s] \in Processes
    BY Same
  <2> QED
    BY <1>2, <1>5, <1>6, <2>1 DEF Processes
<1>8. sub' = [sub EXCEPT ![s] = p]
  <2>1. sub' = [sub EXCEPT ![s].reg = 0, ![s].resp = x]
    BY <1>3, <1>4 DEF Register
  <2> QED
    BY <2>1, <1>6, Same DEF Processes
<1>9. sub' \in [Subs -> Processes] /\ ProcInv'
  BY <1>7, <1>8, OneProcess
<1> QED
  BY <1>1, <1>9, RegisterSubscriberLayer

LEMMA LateRegisterLayer == ASSUME IInv, NEW s \in Subs, LateRegister(s) PROVE IInv'
<1>1. /\ RegisterSubscriber(s) /\ calls' = calls /\ faults' = faults /\ late' \subseteq late
      /\ sub' = sub
  BY DEF LateRegister
<1>2. sub' \in [Subs -> Processes] /\ ProcInv'
  BY <1>1 DEF IInv, TypeOK, ProcInv
<1> QED
  BY <1>1, <1>2, RegisterSubscriberLayer

LEMMA NextLayer == ASSUME IInv, [Next]_vars PROVE IInv'
<1>1. CASE vars' = vars
  BY <1>1 DEF vars, IInv, TypeOK, Sound, RegInv, ChainInv, ProcInv
<1>2. CASE Next
  <2>1. ASSUME NEW r \in RegIds,
               TakeUpdate(r) \/ SendTopicUpdate(r) \/ AckUpdate(r) \/ ApplyReturned(r)
                 \/ AddTransientEntries(r) \/ CleanUp(r) \/ FinishUpdate(r)
                 \/ DropHeartbeat(r) \/ HeartbeatOk(r) \/ HeartbeatFailed(r) \/ TimeoutUpdate(r)
        PROVE  IInv'
    BY <2>1, TakeUpdateLayer, SendTopicUpdateLayer, AckUpdateLayer, ApplyReturnedLayer,
       AddTransientEntriesLayer, CleanUpLayer, FinishUpdateLayer, DropHeartbeatLayer,
       HeartbeatOkLayer, HeartbeatFailedLayer, TimeoutUpdateLayer
  <2>2. ASSUME NEW c \in calls,
               ReceiveUpdate(c) \/ SkipUpdate(c) \/ ProcessUpdate(c) \/ RepeatUpdate(c)
        PROVE  IInv'
    BY <2>2, ReceiveUpdateLayer, SkipUpdateLayer, ProcessUpdateLayer, RepeatUpdateLayer
  <2>3. ASSUME NEW s \in Subs, EnterRecovery(s) \/ NeedlessRecovery(s)
        PROVE  IInv'
    <3>1. Recover(s) /\ faults' \in 0..MaxFaults
      BY <2>3, Bounds DEF EnterRecovery, NeedlessRecovery, Fault, IInv, TypeOK
    <3> QED
      BY <3>1, RecoverLayer
  <2>4. ASSUME NEW s \in Subs,
               Register(s) \/ FinishRegister(s) \/ Boot(s) \/ LateRegister(s)
                 \/ LoseRegisterReply(s) \/ AbandonRegister(s) \/ SetLocalBackend(s) \/ Crash(s)
        PROVE  IInv'
    BY <2>4, RegisterLayer, FinishRegisterLayer, BootLayer, LateRegisterLayer,
       LoseRegisterReplyLayer, AbandonRegisterLayer, SetLocalBackendLayer, CrashLayer
  <2>5. ASSUME RestartStatestore PROVE IInv'
    BY <2>5, RestartStatestoreLayer
  <2> QED
    BY <1>2, <2>1, <2>2, <2>3, <2>4, <2>5, Zenon
       DEF Next, UpdateStep, HeartbeatStep, HandlerStep, ProcessStep, Environment
<1> QED
  BY <1>1, <1>2

\* The types and the bookkeeping of registrations, chains and calls, for every number of
\* subscribers, registrations, processes, statestoreds and faults, and any queue limit.
THEOREM Invariant == Spec => []IInv
<1>1. Init => IInv
  BY InitLayer
<1>2. IInv /\ [Next]_vars => IInv'
  BY NextLayer
<1> QED
  BY <1>1, <1>2, PTL DEF Spec

\* RegisteredIsScheduled: a registered subscriber has a next topic update and a next
\* heartbeat, also when queues are full, RPCs fail and registrations come late.
THEOREM RegisteredIsScheduledHolds == Spec => []RegisteredIsScheduled
<1>1. IInv => RegisteredIsScheduled
  BY DEF IInv, RegInv, RegisteredIsScheduled
<1> QED
  BY <1>1, Invariant, PTL

-----------------------------------------------------------------------------
(***************************************************************************)
(* No entry leaks, when the pools have room for every registration.        *)
(***************************************************************************)
Roomy == MaxRegs <= MaxQueue

\* OfferUpdate() of r succeeds.
LEMMA NeverFull ==
    ASSUME Roomy, NEW r \in RegIds, NEW w, w \subseteq RegIds, r \notin w, NEW full \in LimitReached(w)
    PROVE  full = FALSE
<1>1. IsFiniteSet(RegIds) /\ Cardinality(RegIds) = MaxRegs
  BY Bounds, FS_Interval DEF RegIds
<1>2. IsFiniteSet(RegIds \ {r}) /\ Cardinality(RegIds \ {r}) = MaxRegs - 1
  BY <1>1, FS_RemoveElement
<1>3. w \subseteq RegIds \ {r}
  OBVIOUS
<1>4. Cardinality(w) <= MaxRegs - 1 /\ Cardinality(w) \in Nat
  BY <1>2, <1>3, FS_Subset, FS_CardinalityType
<1>5. ~(Cardinality(w) >= MaxQueue)
  BY <1>4, Bounds DEF Roomy
<1>6. full = FALSE \/ full = (Cardinality(w) >= MaxQueue)
  BY DEF LimitReached
<1> QED
  BY <1>5, <1>6, LimitBoolean

\* A step in which the registration o, or nobody (0), leaves the map, and no entry is put,
\* recorded or taken back.
Leaving(o) ==
    /\ Later(topic, topic')
    /\ \A k \in BackendIds :
          \/ topic'.entries[k] = topic.entries[k] /\ (o = 0 \/ ~(HasEntry(topic, k) /\ Recorded(o, k)))
          \/ View(topic')[k] = "none"
    /\ \A i \in RegIds :
          /\ Current(i) /\ i # o => Current(i)' /\ regs'[i].transient = regs[i].transient
          /\ \/ ~Current(i)'
             \/ Current(i) /\ regs'[i].transient = regs[i].transient
             \/ ~Pending(i)' /\ \A k \in BackendIds : regs'[i].transient[k] = 0
          /\ Pending(i) \/ Pending(i)' => upd'[i] = upd[i]
          /\ upd'[i].pc # "none" => Current(i)' \/ regs'[i].unregistered

\* Versions of a later topic.
LEMMA LaterVersions ==
    ASSUME NEW t \in Topics, Sound(t), NEW w, Later(t, w)
    PROVE  /\ t.last \in Nat /\ w.last \in Nat /\ t.last <= w.last
           /\ \A k \in BackendIds :
                 /\ t.entries[k].version \in Nat /\ w.entries[k].version \in Nat
                 /\ t.entries[k].version <= w.entries[k].version
                 /\ t.entries[k].version <= t.last /\ w.entries[k].version <= w.last
<1>1. /\ t.last \in Nat /\ w.last \in Nat /\ t.last <= w.last
      /\ \A k \in BackendIds : t.entries[k].version \in Nat /\ w.entries[k].version \in Nat
  BY DEF Topics, Entry, Later
<1>2. \A k \in BackendIds : t.entries[k].version <= t.last /\ w.entries[k].version <= w.last
  BY DEF Later, Sound
<1>3. \A k \in BackendIds : t.entries[k].version <= w.entries[k].version
  BY <1>1, <1>2 DEF Later
<1> QED
  BY <1>1, <1>2, <1>3

LEMMA LeavingKeeps ==
    ASSUME IInv, LeakInv, NEW o, Leaving(o)
    PROVE  LeakInv'
<1>1. topic \in Topics /\ Sound(topic) /\ Later(topic, topic')
  BY Same DEF Leaving
<1>2. /\ topic.last \in Nat /\ topic'.last \in Nat /\ topic.last <= topic'.last
      /\ \A k \in BackendIds :
            /\ topic.entries[k].version \in Nat /\ topic'.entries[k].version \in Nat
            /\ topic.entries[k].version <= topic'.entries[k].version
  BY <1>1, LaterVersions
<1>3. \A r \in RegIds : upd'[r].pc # "none" => Current(r)' \/ regs'[r].unregistered
  BY DEF Leaving
<1>4. ASSUME NEW i \in RegIds, Current(i)'
      PROVE  \A k \in BackendIds : regs'[i].transient[k] <= topic'.last
  <2>1. CASE Current(i) /\ regs'[i].transient = regs[i].transient
    <3>1. \A k \in BackendIds : regs[i].transient[k] \in Nat
      BY Same DEF Registrations
    <3>2. \A k \in BackendIds : regs[i].transient[k] <= topic.last
      BY <2>1 DEF LeakInv
    <3> QED
      BY <2>1, <3>1, <3>2, <1>2
  <2>2. CASE \A k \in BackendIds : regs'[i].transient[k] = 0
    BY <2>2, <1>2
  <2> QED
    BY <1>4, <2>1, <2>2 DEF Leaving
<1>5. ASSUME NEW i \in RegIds, Pending(i)'
      PROVE  /\ upd'[i].version <= topic'.entries[upd'[i].key].version
             /\ Current(i)' => regs'[i].transient[upd'[i].key] < upd'[i].version
  <2>1. upd'[i] = upd[i]
    BY <1>5 DEF Leaving
  <2>2. Pending(i)
    BY <1>5, <2>1 DEF Pending
  <2>3. upd[i].key \in BackendIds /\ upd[i].version \in Nat
    BY <2>2, OldChain DEF Pending, GoodChain, Chains
  <2>4. /\ upd[i].version <= topic.entries[upd[i].key].version
        /\ Current(i) => regs[i].transient[upd[i].key] < upd[i].version
    BY <2>2 DEF LeakInv
  <2>5. Current(i)' => Current(i) /\ regs'[i].transient = regs[i].transient
    BY <1>5 DEF Leaving
  <2> QED
    BY <2>1, <2>3, <2>4, <2>5, <1>2
<1>6. ASSUME NEW k \in BackendIds, View(topic')[k] # "none"
      PROVE  \E i \in RegIds : Recorded(i, k)' \/ PendingEntry(i, k)'
  <2>1. topic'.entries[k] = topic.entries[k] /\ (o = 0 \/ ~(HasEntry(topic, k) /\ Recorded(o, k)))
    BY <1>6 DEF Leaving
  <2>2. View(topic)[k] # "none" /\ HasEntry(topic, k)
    BY <1>6, <2>1 DEF View, HasEntry
  <2>3. PICK i \in RegIds : Recorded(i, k) \/ PendingEntry(i, k)
    BY <2>2 DEF LeakInv
  <2>4. CASE Recorded(i, k)
    <3>1. i # o
      BY <2>1, <2>2, <2>4, Bounds DEF RegIds
    <3> QED
      BY <2>1, <2>4, <3>1 DEF Recorded, Leaving
  <2>5. CASE PendingEntry(i, k)
    <3>1. upd'[i] = upd[i]
      BY <2>5 DEF PendingEntry, Leaving
    <3> QED
      BY <2>1, <2>5, <3>1 DEF PendingEntry, Pending
  <2> QED
    BY <2>3, <2>4, <2>5
<1> QED
  BY <1>3, <1>4, <1>5, <1>6 DEF LeakInv

\* Nobody leaves, the topic stays.
Staying ==
    /\ topic' = topic /\ subscribers' = subscribers
    /\ \A i \in RegIds :
          /\ regs'[i].sub = regs[i].sub /\ regs'[i].unregistered = regs[i].unregistered
          /\ Current(i) => regs'[i].transient = regs[i].transient
          /\ Pending(i) \/ Pending(i)' => upd'[i] = upd[i]
          /\ upd'[i].pc # "none" => upd[i].pc # "none"

LEMMA StayingKeeps == ASSUME IInv, LeakInv, Staying PROVE LeakInv'
<1>1. Later(topic, topic')
  BY Same, SameTopic DEF Staying
<1>2. \A i \in RegIds : Current(i)' <=> Current(i)
  BY DEF Staying, Current
<1>3. \A k \in BackendIds : topic'.entries[k] = topic.entries[k]
  BY DEF Staying
<1>4. \A i \in RegIds : upd'[i].pc # "none" => Current(i)' \/ regs'[i].unregistered
  BY <1>2 DEF Staying, LeakInv
<1>5. Leaving(0)
  BY <1>1, <1>2, <1>3, <1>4 DEF Leaving, Staying
<1> QED
  BY <1>5, LeavingKeeps

\* One chain changes, that held no entry and holds none.
LEMMA ChainStays ==
    ASSUME IInv, NEW r \in RegIds, NEW x, upd' = [upd EXCEPT ![r] = x],
           ~Pending(r), x.pc \notin {"put", "unwanted"}, x.pc # "none" => upd[r].pc # "none",
           RegsOk, \A i \in RegIds : Current(i) => regs'[i].transient = regs[i].transient,
           topic' = topic, subscribers' = subscribers
    PROVE  Staying
<1>1. upd'[r] = x /\ \A i \in RegIds \ {r} : upd'[i] = upd[i]
  BY Same
<1>2. ~Pending(r)' /\ \A i \in RegIds : Pending(i) \/ Pending(i)' => upd'[i] = upd[i]
  BY <1>1 DEF Pending
<1>3. \A i \in RegIds : upd'[i].pc # "none" => upd[i].pc # "none"
  BY <1>1
<1> QED
  BY <1>2, <1>3 DEF Staying, RegsOk

LEMMA TakeUpdateLeak == ASSUME IInv, NEW r \in RegIds, TakeUpdate(r) PROVE Staying
<1>1. upd \in [RegIds -> Chains] /\ regs \in [RegIds -> Registrations]
  BY Same
<1>2. PICK pc \in {"found", "none"} : upd' = [upd EXCEPT ![r].pc = pc]
  BY DEF TakeUpdate
<1>3. PICK x : x = [upd[r] EXCEPT !.pc = pc]
  OBVIOUS
<1>4. upd' = [upd EXCEPT ![r] = x] /\ x.pc = pc
  BY <1>1, <1>2, <1>3 DEF Chains
<1>5. ~Pending(r) /\ upd[r].pc # "none"
  BY DEF Pending, TakeUpdate
<1>6. RegsOk
  BY <1>1 DEF TakeUpdate, Released, Registrations, RegsOk
<1>7. \A i \in RegIds : Current(i) => regs'[i].transient = regs[i].transient
  BY <1>1 DEF TakeUpdate, Released, Registrations
<1> QED
  BY <1>4, <1>5, <1>6, <1>7, ChainStays DEF TakeUpdate

LEMMA SendTopicUpdateLeak == ASSUME IInv, NEW r \in RegIds, SendTopicUpdate(r) PROVE Staying
<1>1. upd \in [RegIds -> Chains]
  BY Same
<1>2. PICK x : upd' = [upd EXCEPT ![r] = x] /\ x.pc \in {"calling", "done"}
  BY <1>1 DEF SendTopicUpdate, Chains
<1>3. ~Pending(r) /\ upd[r].pc # "none"
  BY DEF Pending, SendTopicUpdate
<1>4. RegsOk /\ regs' = regs
  BY Same DEF SendTopicUpdate
<1> QED
  BY <1>2, <1>3, <1>4, ChainStays DEF SendTopicUpdate

LEMMA AckUpdateLeak == ASSUME IInv, NEW r \in RegIds, AckUpdate(r) PROVE Staying
<1>1. upd \in [RegIds -> Chains] /\ regs \in [RegIds -> Registrations]
  BY Same
<1>2. PICK pc \in {"acked", "done"} : upd' = [upd EXCEPT ![r].pc = pc]
  BY DEF AckUpdate
<1>3. PICK x : x = [upd[r] EXCEPT !.pc = pc]
  OBVIOUS
<1>4. upd' = [upd EXCEPT ![r] = x] /\ x.pc = pc
  BY <1>1, <1>2, <1>3 DEF Chains
<1>5. ~Pending(r) /\ upd[r].pc # "none"
  BY DEF Pending, AckUpdate
<1>6. RegsOk /\ \A i \in RegIds : regs'[i].transient = regs[i].transient
  BY <1>1, ZenonT(40) DEF AckUpdate, Chains, Registrations, RegsOk
<1> QED
  BY <1>4, <1>5, <1>6, ChainStays DEF AckUpdate

LEMMA FinishUpdateLeak == ASSUME Roomy, IInv, NEW r \in RegIds, FinishUpdate(r) PROVE Staying
<1> DEFINE s == regs[r].sub
           stop == ~Current(r) \/ Failed(missed[s])
<1>1. upd \in [RegIds -> Chains] /\ regs \in [RegIds -> Registrations]
  BY Same
<1>2. upd[r].pc = "done" /\ s \in Subs
  BY RegFacts DEF FinishUpdate
<1>3. ~Failed(missed[s])
  <2>1. missed[s] \in -1..(MaxMissed - 1)
    BY <1>2 DEF IInv, TypeOK
  <2> QED
    BY <2>1, Bounds DEF Failed
<1>4. PICK full \in LimitReached(UpdateQueue) :
        /\ upd' = [upd EXCEPT ![r] = Chain(IF stop \/ full THEN "none" ELSE "queued")]
        /\ subscribers' = IF ~stop /\ full THEN [subscribers EXCEPT ![s] = 0] ELSE subscribers
        /\ regs' = IF stop \/ full THEN Released(r) ELSE regs
  BY DEF FinishUpdate
<1>5. full = FALSE
  <2>1. UpdateQueue \subseteq RegIds /\ r \notin UpdateQueue
    BY <1>2 DEF UpdateQueue
  <2> QED
    BY <2>1, NeverFull
<1>6. PICK pc \in {"none", "queued"} : upd' = [upd EXCEPT ![r] = Chain(pc)]
  BY <1>4
<1>7. Chain(pc).pc = pc
  BY FreshChain
<1>8. subscribers' = subscribers /\ topic' = topic
  BY <1>4, <1>5 DEF FinishUpdate
<1>9. RegsOk
  BY <1>4, Same, ReleasedRegs
<1>10. \A i \in RegIds : Current(i) => regs'[i].transient = regs[i].transient
  <2>1. regs' = regs \/ (regs' = Released(r) /\ ~Current(r))
    BY <1>3, <1>4, <1>5
  <2> QED
    BY <1>1, <2>1 DEF Released
<1>11. ~Pending(r)
  BY <1>2 DEF Pending
<1> QED
  BY <1>2, <1>6, <1>7, <1>8, <1>9, <1>10, <1>11, ChainStays

\* A step that leaves chains, topic and registrations alone.
LEMMA NothingLeaks ==
    ASSUME upd' = upd, topic' = topic, subscribers' = subscribers, regs' = regs
    PROVE  Staying
BY DEF Staying, Pending

LEMMA ReplyLeak ==
    ASSUME IInv, NEW c \in calls, NEW x, Reply(c, x), x.pc \in {"done", "replied"},
           UNCHANGED <<topic, subscribers, regs>>
    PROVE  Staying
<1>1. c.reg \in RegIds
  BY Same DEF Calls
<1>2. CASE c.live
  <2>1. upd[c.reg].pc = "calling" /\ upd' = [upd EXCEPT ![c.reg] = x]
    BY <1>2 DEF IInv, RegInv, Reply
  <2>2. RegsOk /\ ~Pending(c.reg)
    BY <2>1, Same DEF Pending
  <2> QED
    BY <1>1, <2>1, <2>2, ChainStays
<1>3. CASE ~c.live
  BY <1>3, NothingLeaks DEF Reply
<1> QED
  BY <1>2, <1>3

LEMMA HandlerLeak ==
    ASSUME IInv, NEW c \in calls,
           ReceiveUpdate(c) \/ SkipUpdate(c) \/ ProcessUpdate(c) \/ RepeatUpdate(c)
    PROVE  Staying
<1>1. UNCHANGED <<topic, subscribers, regs>>
  BY DEF ReceiveUpdate, SkipUpdate, ProcessUpdate, RepeatUpdate
<1>2. CASE upd' = upd
  BY <1>1, <1>2, NothingLeaks
<1>3. CASE \E x : Reply(c, x) /\ x.pc \in {"done", "replied"}
  BY <1>1, <1>3, ReplyLeak
<1>4. c.reg \in RegIds /\ upd[c.reg] \in Chains
  BY Same DEF Calls
<1>5. Skipped(c).pc = "done"
  BY <1>4 DEF Skipped, Chains
<1>6. ASSUME NEW from, NEW key, NEW item PROVE Processed(c, from, key, item).pc = "replied"
  BY <1>4 DEF Processed, Chains
<1> QED
  BY <1>2, <1>3, <1>5, <1>6 DEF ReceiveUpdate, SkipUpdate, ProcessUpdate, RepeatUpdate

LEMMA TimeoutUpdateLeak == ASSUME IInv, NEW r \in RegIds, TimeoutUpdate(r) PROVE Staying
<1>1. upd[r].pc \in {"calling", "replied"} /\ upd' = [upd EXCEPT ![r] = Chain("done")]
  BY DEF TimeoutUpdate
<1>2. Chain("done").pc = "done" /\ ~Pending(r)
  BY <1>1, FreshChain DEF Pending
<1>3. RegsOk /\ regs' = regs
  BY Same DEF TimeoutUpdate
<1> QED
  BY <1>1, <1>2, <1>3, ChainStays DEF TimeoutUpdate

LEMMA CrashLeak == ASSUME IInv, NEW s \in Subs, Crash(s) PROVE Staying
<1>1. /\ upd' = [r \in RegIds |-> IF regs[r].sub = s /\ upd[r].pc = "calling"
                                    THEN Chain("done") ELSE upd[r]]
      /\ UNCHANGED <<topic, subscribers, regs>>
  BY DEF Crash
<1>2. Chain("done").pc = "done"
  BY FreshChain
<1>3. ASSUME NEW i \in RegIds
      PROVE  upd'[i] = upd[i] \/ (upd[i].pc = "calling" /\ upd'[i].pc = "done")
  BY <1>1, <1>2
<1>4. ASSUME NEW i \in RegIds, Pending(i) \/ Pending(i)' PROVE upd'[i] = upd[i]
  BY <1>3, <1>4 DEF Pending
<1> QED
  BY <1>1, <1>3, <1>4 DEF Staying

\* Heartbeats of a subscriber that is not given up.
LEMMA HeartbeatLeak ==
    ASSUME Roomy, IInv, NEW r \in RegIds,
           \/ DropHeartbeat(r) \/ HeartbeatOk(r)
           \/ HeartbeatFailed(r) /\ ~Failed(missed[regs[r].sub] + 1)
    PROVE  Staying
<1>1. hb \ {r} \subseteq RegIds /\ r \notin hb \ {r}
  BY DEF IInv, TypeOK
<1>2. \A full \in LimitReached(hb \ {r}) : full = FALSE
  BY <1>1, NeverFull
<1>3. upd' = upd /\ topic' = topic /\ regs' = regs /\ subscribers' = subscribers
  BY <1>2 DEF DropHeartbeat, HeartbeatOk, HeartbeatFailed
<1> QED
  BY <1>3, NothingLeaks

\* The steps of the processes, but for Crash() and the registration.
LEMMA ProcessLeak ==
    ASSUME NEW s \in Subs,
           \/ EnterRecovery(s) \/ NeedlessRecovery(s) \/ FinishRegister(s) \/ Boot(s)
           \/ LoseRegisterReply(s) \/ AbandonRegister(s) \/ SetLocalBackend(s)
    PROVE  Staying
<1>1. upd' = upd /\ topic' = topic /\ regs' = regs /\ subscribers' = subscribers
  BY DEF EnterRecovery, NeedlessRecovery, Recover, FinishRegister, Boot, LoseRegisterReply,
         AbandonRegister, SetLocalBackend
<1> QED
  BY <1>1, NothingLeaks

\* The worker puts the entry: it holds it now.
LEMMA ApplyReturnedLeak ==
    ASSUME IInv, LeakInv, NEW r \in RegIds, ApplyReturned(r) PROVE LeakInv'
<1>1. /\ upd \in [RegIds -> Chains] /\ regs \in [RegIds -> Registrations]
      /\ topic \in Topics /\ Sound(topic)
  BY Same
<1>2. upd[r].pc = "acked" /\ upd[r] \in Chains /\ ~Pending(r)
  BY <1>1 DEF ApplyReturned, Pending
<1>3. CASE upd[r].from # -1
  <2>1. PICK x : x = [upd[r] EXCEPT !.pc = "done"]
    OBVIOUS
  <2>2. upd' = [upd EXCEPT ![r] = x] /\ x.pc = "done"
    BY <1>1, <1>3, <2>1 DEF ApplyReturned, Chains
  <2>3. regs' = [regs EXCEPT ![r].last = upd[r].from] /\ topic' = topic /\ subscribers' = subscribers
    BY <1>3 DEF ApplyReturned
  <2>4. upd[r].from \in Nat
    BY <1>2, <1>3 DEF Chains
  <2>5. RegsOk /\ \A i \in RegIds : regs'[i].transient = regs[i].transient
    BY <1>1, <2>3, <2>4 DEF Registrations, RegsOk
  <2>6. Staying
    BY <1>2, <2>2, <2>3, <2>5, ChainStays
  <2> QED
    BY <2>6, StayingKeeps
<1>4. CASE upd[r].from = -1
  <2>1. PICK k \in BackendIds : k = upd[r].key /\ upd[r].item \in Items
    BY <1>2, <1>4 DEF IInv, ChainInv, Chains
  <2>2. topic' = Put(topic, k, upd[r].item, FALSE)
    BY <1>4, <2>1 DEF ApplyReturned
  <2>3. PICK e \in Entry : e.version = topic.last + 1 /\ topic' = Replaced(topic, k, e)
    BY <1>1, <2>1, <2>2, PutIsReplaced
  <2>4. /\ Later(topic, topic') /\ topic'.last = topic.last + 1 /\ topic'.entries[k] = e
        /\ \A j \in BackendIds \ {k} : topic'.entries[j] = topic.entries[j]
    BY <1>1, <2>1, <2>3, PutLater
  <2>5. /\ topic.last \in Nat /\ topic'.last \in Nat
        /\ \A j \in BackendIds : /\ topic.entries[j].version \in Nat /\ topic'.entries[j].version \in Nat
                                 /\ topic.entries[j].version <= topic'.entries[j].version
    BY <1>1, <2>4, LaterVersions
  <2>6. PICK x : x = [upd[r] EXCEPT !.pc = "put", !.version = topic'.last]
    OBVIOUS
  <2>7. upd' = [upd EXCEPT ![r] = x] /\ x.pc = "put" /\ x.version = topic'.last /\ x.key = k
    BY <1>1, <1>4, <2>1, <2>6 DEF ApplyReturned, Chains
  <2>8. upd'[r] = x /\ \A i \in RegIds \ {r} : upd'[i] = upd[i]
    BY <1>1, <2>7
  <2>9. regs' = regs /\ subscribers' = subscribers
    BY <1>4 DEF ApplyReturned
  <2>10. \A i \in RegIds : Current(i)' <=> Current(i)
    BY <2>9 DEF Current
  <2>11. \A i \in RegIds : upd'[i].pc # "none" => Current(i)' \/ regs'[i].unregistered
    <3>1. \A i \in RegIds : upd'[i].pc # "none" => upd[i].pc # "none"
      BY <1>2, <2>8
    <3> QED
      BY <2>9, <2>10, <3>1 DEF LeakInv
  <2>12. \A i \in RegIds, j \in BackendIds : regs[i].transient[j] \in Nat
    BY <1>1 DEF Registrations
  <2>13. \A i \in RegIds : Current(i) => \A j \in BackendIds : regs[i].transient[j] <= topic.last
    BY DEF LeakInv
  <2>14. \A i \in RegIds : Current(i)' => \A j \in BackendIds : regs'[i].transient[j] <= topic'.last
    BY <2>4, <2>5, <2>9, <2>10, <2>12, <2>13
  <2>15. ASSUME NEW i \in RegIds, Pending(i)'
         PROVE  /\ upd'[i].version <= topic'.entries[upd'[i].key].version
                /\ Current(i)' => regs'[i].transient[upd'[i].key] < upd'[i].version
    <3>1. CASE i = r
      BY <3>1, <2>1, <2>3, <2>4, <2>5, <2>7, <2>8, <2>9, <2>10, <2>12, <2>13
    <3>2. CASE i # r
      <4>1. upd'[i] = upd[i] /\ Pending(i)
        BY <3>2, <2>8, <2>15 DEF Pending
      <4>2. upd[i].key \in BackendIds /\ upd[i].version \in Nat
        BY <4>1, OldChain DEF Pending, GoodChain, Chains
      <4>3. /\ upd[i].version <= topic.entries[upd[i].key].version
            /\ Current(i) => regs[i].transient[upd[i].key] < upd[i].version
        BY <4>1 DEF LeakInv
      <4> QED
        BY <4>1, <4>2, <4>3, <2>5, <2>9, <2>10
    <3> QED
      BY <3>1, <3>2
  <2>16. ASSUME NEW j \in BackendIds, View(topic')[j] # "none"
         PROVE  \E i \in RegIds : Recorded(i, j)' \/ PendingEntry(i, j)'
    <3>1. CASE j = k
      <4>1. PendingEntry(r, k)'
        BY <2>3, <2>4, <2>7, <2>8 DEF PendingEntry, Pending
      <4> QED
        BY <3>1, <4>1
    <3>2. CASE j # k
      <4>1. topic'.entries[j] = topic.entries[j]
        BY <3>2, <2>4
      <4>2. View(topic)[j] # "none"
        BY <2>16, <4>1 DEF View, HasEntry
      <4>3. PICK i \in RegIds : Recorded(i, j) \/ PendingEntry(i, j)
        BY <4>2 DEF LeakInv
      <4>4. CASE Recorded(i, j)
        BY <4>1, <4>4, <2>9, <2>10 DEF Recorded
      <4>5. CASE PendingEntry(i, j)
        <5>1. upd'[i] = upd[i]
          BY <4>5, <1>2, <2>8 DEF PendingEntry
        <5> QED
          BY <4>1, <4>5, <5>1 DEF PendingEntry, Pending
      <4> QED
        BY <4>3, <4>4, <4>5
    <3> QED
      BY <3>1, <3>2
  <2> QED
    BY <2>11, <2>14, <2>15, <2>16 DEF LeakInv
<1> QED
  BY <1>3, <1>4

\* The worker records the entry it holds, unless the registration is gone.
LEMMA AddTransientEntriesLeak ==
    ASSUME IInv, LeakInv, NEW r \in RegIds, AddTransientEntries(r) PROVE LeakInv'
<1>1. /\ upd \in [RegIds -> Chains] /\ regs \in [RegIds -> Registrations]
      /\ topic \in Topics /\ Sound(topic)
  BY Same
<1>2. upd[r].pc = "put" /\ Pending(r)
  BY DEF AddTransientEntries, Pending
<1>3. PICK k \in BackendIds, v \in Nat : k = upd[r].key /\ v = upd[r].version
  BY <1>1, <1>2 DEF IInv, ChainInv, Chains
<1>4. topic' = topic /\ subscribers' = subscribers
  BY DEF AddTransientEntries
<1>5. PICK pc \in {"unwanted", "done"} : /\ upd' = [upd EXCEPT ![r].pc = pc]
                                         /\ pc = IF Refused(r) THEN "unwanted" ELSE "done"
  BY DEF AddTransientEntries
<1>6. PICK x : x = [upd[r] EXCEPT !.pc = pc]
  OBVIOUS
<1>7. upd'[r] = x /\ x.pc = pc /\ x.key = k /\ x.version = v /\ \A i \in RegIds \ {r} : upd'[i] = upd[i]
  BY <1>1, <1>3, <1>5, <1>6 DEF Chains
<1>8. RegsOk /\ \A i \in RegIds : Current(i)' <=> Current(i)
  <2>1. CASE Refused(r)
    BY <1>4, <2>1, Same DEF AddTransientEntries, Current
  <2>2. CASE ~Refused(r)
    <3>1. regs' = [regs EXCEPT ![r].transient[k] = v]
      BY <1>3, <2>2 DEF AddTransientEntries
    <3>2. RegsOk
      BY <1>1, <3>1 DEF Registrations, RegsOk
    <3> QED
      BY <1>4, <3>2 DEF RegsOk, Current
  <2> QED
    BY <2>1, <2>2
<1>9. \A i \in RegIds : upd'[i].pc # "none" => Current(i)' \/ regs'[i].unregistered
  <2>1. \A i \in RegIds : upd'[i].pc # "none" => upd[i].pc # "none"
    BY <1>2, <1>7
  <2> QED
    BY <1>8, <2>1 DEF LeakInv, RegsOk
<1>10. CASE Refused(r)
  <2>1. regs' = regs /\ pc = "unwanted"
    BY <1>5, <1>10 DEF AddTransientEntries
  <2>2. \A i \in RegIds : /\ Pending(i)' <=> Pending(i)
                          /\ upd'[i].key = upd[i].key /\ upd'[i].version = upd[i].version
    BY <1>2, <1>3, <1>7, <2>1 DEF Pending
  <2>3. \A i \in RegIds, j \in BackendIds : /\ Recorded(i, j)' <=> Recorded(i, j)
                                            /\ PendingEntry(i, j)' <=> PendingEntry(i, j)
    BY <1>4, <1>8, <2>1, <2>2 DEF Recorded, PendingEntry
  <2>4. /\ \A i \in RegIds : Current(i)' => \A j \in BackendIds : regs'[i].transient[j] <= topic'.last
        /\ \A i \in RegIds : Pending(i)' =>
             /\ upd'[i].version <= topic'.entries[upd'[i].key].version
             /\ Current(i)' => regs'[i].transient[upd'[i].key] < upd'[i].version
    BY <1>4, <1>8, <2>1, <2>2 DEF LeakInv
  <2>5. \A j \in BackendIds : View(topic')[j] # "none" =>
           \E i \in RegIds : Recorded(i, j)' \/ PendingEntry(i, j)'
    BY <1>4, <2>3 DEF LeakInv
  <2> QED
    BY <1>9, <2>4, <2>5 DEF LeakInv
<1>11. CASE ~Refused(r)
  <2>1. regs' = [regs EXCEPT ![r].transient[k] = v] /\ pc = "done"
    BY <1>3, <1>5, <1>11 DEF AddTransientEntries
  <2>2. /\ regs'[r].transient = [regs[r].transient EXCEPT ![k] = v]
        /\ \A i \in RegIds \ {r} : regs'[i] = regs[i]
    BY <1>1, <2>1 DEF Registrations
  <2>3. /\ regs'[r].transient[k] = v
        /\ \A j \in BackendIds \ {k} : regs'[r].transient[j] = regs[r].transient[j]
    BY <1>1, <2>2 DEF Registrations
  <2>4. Current(r)
    BY <1>2, <1>11 DEF LeakInv, Refused
  <2>5. v <= topic.entries[k].version /\ regs[r].transient[k] < v
    BY <1>2, <1>3, <2>4 DEF LeakInv
  <2>6. /\ topic.last \in Nat /\ topic.entries[k].version \in Nat /\ topic.entries[k].version <= topic.last
        /\ regs[r].transient[k] \in Nat
    BY <1>1 DEF Topics, Entry, Sound, Registrations
  <2>7. ~Pending(r)' /\ \A i \in RegIds \ {r} : (Pending(i)' <=> Pending(i))
    BY <1>7, <2>1 DEF Pending
  <2>8. ASSUME NEW i \in RegIds, Current(i)'
        PROVE  \A j \in BackendIds : regs'[i].transient[j] <= topic'.last
    <3>1. \A j \in BackendIds : regs[i].transient[j] <= topic.last
      BY <1>8, <2>8 DEF LeakInv
    <3>2. CASE i # r
      BY <3>1, <3>2, <1>4, <2>2
    <3>3. CASE i = r
      <4>1. v <= topic.last
        BY <2>5, <2>6
      <4>2. \A j \in BackendIds : regs'[r].transient[j] = IF j = k THEN v ELSE regs[r].transient[j]
        BY <2>3
      <4> QED
        BY <3>1, <3>3, <4>1, <4>2, <1>4
    <3> QED
      BY <3>2, <3>3
  <2>9. ASSUME NEW i \in RegIds, Pending(i)'
        PROVE  /\ upd'[i].version <= topic'.entries[upd'[i].key].version
               /\ Current(i)' => regs'[i].transient[upd'[i].key] < upd'[i].version
    <3>1. i # r /\ Pending(i) /\ upd'[i] = upd[i] /\ regs'[i] = regs[i]
      BY <2>2, <2>7, <2>9, <1>7
    <3> QED
      BY <3>1, <1>4, <1>8 DEF LeakInv
  <2>10. ASSUME NEW j \in BackendIds, View(topic')[j] # "none"
         PROVE  \E i \in RegIds : Recorded(i, j)' \/ PendingEntry(i, j)'
    <3>1. PICK i \in RegIds : Recorded(i, j) \/ PendingEntry(i, j)
      BY <1>4, <2>10 DEF LeakInv
    <3>2. CASE i # r
      <4>1. upd'[i] = upd[i] /\ regs'[i] = regs[i]
        BY <3>2, <2>2, <1>7
      <4> QED
        BY <3>1, <3>2, <4>1, <1>4, <1>8, <2>7 DEF Recorded, PendingEntry
    <3>3. CASE i = r /\ j = k
      <4>1. topic.entries[k].version = v
        BY <3>1, <3>3, <1>3, <2>5, <2>6 DEF Recorded, PendingEntry
      <4>2. Recorded(r, k)'
        BY <4>1, <1>4, <1>8, <2>3, <2>4 DEF Recorded
      <4> QED
        BY <3>3, <4>2
    <3>4. CASE i = r /\ j # k
      <4>1. Recorded(r, j)
        BY <3>1, <3>4, <1>3 DEF PendingEntry
      <4>2. Recorded(r, j)'
        BY <3>4, <4>1, <1>4, <1>8, <2>3 DEF Recorded
      <4> QED
        BY <4>2
    <3> QED
      BY <3>2, <3>3, <3>4
  <2> QED
    BY <1>9, <2>8, <2>9, <2>10 DEF LeakInv
<1> QED
  BY <1>10, <1>11

\* The worker takes the entry back.
LEMMA CleanUpLeak == ASSUME IInv, LeakInv, NEW r \in RegIds, CleanUp(r) PROVE LeakInv'
<1>1. upd \in [RegIds -> Chains] /\ topic \in Topics /\ Sound(topic)
  BY Same
<1>2. upd[r].pc = "unwanted" /\ Pending(r)
  BY DEF CleanUp, Pending
<1>3. PICK k \in BackendIds, v \in Nat : k = upd[r].key /\ v = upd[r].version
  BY <1>1, <1>2 DEF IInv, ChainInv, Chains
<1>4. regs' = regs /\ subscribers' = subscribers
  BY DEF CleanUp
<1>5. topic' = DeleteIfVersionsMatch(topic, v, k)
  BY <1>3 DEF CleanUp
<1>6. /\ Later(topic, topic')
      /\ \A j \in BackendIds \ {k} : topic'.entries[j] = topic.entries[j]
      /\ topic.entries[k].version = v => View(topic')[k] = "none"
      /\ topic.entries[k].version # v => topic' = topic
  BY <1>1, <1>5, DeleteIsLater
<1>7. PICK x : x = [upd[r] EXCEPT !.pc = "done"]
  OBVIOUS
<1>8. upd'[r] = x /\ x.pc = "done" /\ \A i \in RegIds \ {r} : upd'[i] = upd[i]
  BY <1>1, <1>7 DEF CleanUp, Chains
<1>9. /\ topic.last \in Nat /\ topic'.last \in Nat /\ topic.last <= topic'.last
      /\ \A j \in BackendIds : /\ topic.entries[j].version \in Nat /\ topic'.entries[j].version \in Nat
                               /\ topic.entries[j].version <= topic'.entries[j].version
  BY <1>1, <1>6, LaterVersions
<1>10. \A i \in RegIds : Current(i)' <=> Current(i)
  BY <1>4 DEF Current
<1>11. ~Pending(r)' /\ \A i \in RegIds \ {r} : (Pending(i)' <=> Pending(i))
  BY <1>8 DEF Pending
<1>12. \A i \in RegIds : upd'[i].pc # "none" => Current(i)' \/ regs'[i].unregistered
  <2>1. \A i \in RegIds : upd'[i].pc # "none" => upd[i].pc # "none"
    BY <1>2, <1>8
  <2> QED
    BY <1>4, <1>10, <2>1 DEF LeakInv
<1>13. ASSUME NEW i \in RegIds, Current(i)'
       PROVE  \A j \in BackendIds : regs'[i].transient[j] <= topic'.last
  <2>1. \A j \in BackendIds : regs[i].transient[j] <= topic.last /\ regs[i].transient[j] \in Nat
    BY <1>10, <1>13, Same DEF LeakInv, Registrations
  <2> QED
    BY <2>1, <1>4, <1>9
<1>14. ASSUME NEW i \in RegIds, Pending(i)'
       PROVE  /\ upd'[i].version <= topic'.entries[upd'[i].key].version
              /\ Current(i)' => regs'[i].transient[upd'[i].key] < upd'[i].version
  <2>1. upd'[i] = upd[i] /\ Pending(i)
    BY <1>8, <1>11, <1>14
  <2>2. upd[i].key \in BackendIds /\ upd[i].version \in Nat
    BY <2>1, OldChain DEF Pending, GoodChain, Chains
  <2>3. /\ upd[i].version <= topic.entries[upd[i].key].version
        /\ Current(i) => regs[i].transient[upd[i].key] < upd[i].version
    BY <2>1 DEF LeakInv
  <2> QED
    BY <2>1, <2>2, <2>3, <1>4, <1>9, <1>10
<1>15. ASSUME NEW j \in BackendIds, View(topic')[j] # "none"
       PROVE  \E i \in RegIds : Recorded(i, j)' \/ PendingEntry(i, j)'
  <2>1. topic'.entries[j] = topic.entries[j] /\ (j = k => topic.entries[k].version # v)
    BY <1>6, <1>15
  <2>2. View(topic)[j] # "none"
    BY <1>15, <2>1 DEF View, HasEntry
  <2>3. PICK i \in RegIds : Recorded(i, j) \/ PendingEntry(i, j)
    BY <2>2 DEF LeakInv
  <2>4. CASE Recorded(i, j)
    BY <2>1, <2>4, <1>4, <1>10 DEF Recorded
  <2>5. CASE PendingEntry(i, j)
    <3>1. i # r
      BY <2>1, <2>5, <1>3 DEF PendingEntry
    <3>2. upd'[i] = upd[i]
      BY <3>1, <1>8
    <3> QED
      BY <2>1, <2>5, <3>2 DEF PendingEntry, Pending
  <2> QED
    BY <2>3, <2>4, <2>5
<1> QED
  BY <1>12, <1>13, <1>14, <1>15 DEF LeakInv

\* A subscriber that missed too many heartbeats is unregistered.
LEMMA HeartbeatFailedLeak ==
    ASSUME IInv, LeakInv, NEW r \in RegIds, HeartbeatFailed(r), Failed(missed[regs[r].sub] + 1)
    PROVE  LeakInv'
<1>1. PICK s \in Subs : s = regs[r].sub /\ subscribers[s] = r
  BY DEF HeartbeatFailed, Current
<1>2. /\ subscribers' = [subscribers EXCEPT ![s] = 0] /\ upd' = upd
      /\ topic' \in WithoutTransient(topic, r)
      /\ regs' = [regs EXCEPT ![r].unregistered = TRUE]
  BY <1>1 DEF HeartbeatFailed
<1>3. /\ regs'[r].unregistered /\ \A i \in RegIds : regs'[i].sub = regs[i].sub /\ regs'[i].transient = regs[i].transient
      /\ \A i \in RegIds \ {r} : regs'[i] = regs[i]
  BY <1>2, Same DEF Registrations
<1>4. subscribers'[s] = 0 /\ \A z \in Subs \ {s} : subscribers'[z] = subscribers[z]
  BY <1>2, Same
<1>5. /\ Later(topic, topic')
      /\ \A k \in BackendIds :
            \/ topic'.entries[k] = topic.entries[k] /\ ~(HasEntry(topic, k) /\ topic.entries[k].version = regs[r].transient[k])
            \/ View(topic')[k] = "none"
  BY <1>2, Same, WithoutTransientIsLater
<1>6. ~Current(r)' /\ \A i \in RegIds \ {r} : (Current(i)' <=> Current(i))
  <2>1. r # 0 /\ \A i \in RegIds : i # 0
    BY Bounds DEF RegIds
  <2> QED
    BY <1>1, <1>3, <1>4, <2>1 DEF Current
<1>7. \A i \in RegIds : upd'[i].pc # "none" => Current(i)' \/ regs'[i].unregistered
  BY <1>2, <1>3, <1>6 DEF LeakInv
<1>8. Leaving(r)
  BY <1>2, <1>3, <1>5, <1>6, <1>7 DEF Leaving, Recorded, Pending
<1> QED
  BY <1>8, LeavingKeeps

\* A new registration replaces the old one.
LEMMA RegisterSubscriberLeak ==
    ASSUME Roomy, IInv, LeakInv, NEW s \in Subs, RegisterSubscriber(s)
    PROVE  LeakInv'
<1>1. PICK full \in LimitReached(UpdateQueue), fullHb \in LimitReached(hb), r \in RegIds, old \in 0..MaxRegs :
           /\ r = nextReg /\ old = subscribers[s] /\ r # old /\ r \notin hb /\ upd[r].pc = "none"
           /\ topic' \in IF old = 0 THEN {topic} ELSE WithoutTransient(topic, old)
           /\ regs'[r] = NewReg(s)
           /\ old # 0 => regs'[old] = [regs[old] EXCEPT !.unregistered = TRUE]
           /\ \A i \in RegIds \ {r, old} : regs'[i] = regs[i]
           /\ subscribers' = [subscribers EXCEPT ![s] = IF full \/ fullHb THEN 0 ELSE r]
           /\ upd' = IF full THEN upd ELSE [upd EXCEPT ![r] = Chain("queued")]
  BY RegisterFacts
<1>2. full = FALSE /\ fullHb = FALSE
  <2>1. UpdateQueue \subseteq RegIds /\ r \notin UpdateQueue
    BY <1>1 DEF UpdateQueue
  <2>2. hb \subseteq RegIds
    BY DEF IInv, TypeOK
  <2> QED
    BY <1>1, <2>1, <2>2, NeverFull
<1>3. subscribers'[s] = r /\ \A z \in Subs \ {s} : subscribers'[z] = subscribers[z]
  BY <1>1, <1>2, Same
<1>4. upd'[r].pc = "queued" /\ \A i \in RegIds \ {r} : upd'[i] = upd[i]
  BY <1>1, <1>2, Same, FreshChain
<1>5. /\ regs'[r].sub = s /\ \A k \in BackendIds : regs'[r].transient[k] = 0
  BY <1>1, NewRegFacts
<1>6. old # 0 => /\ old \in RegIds /\ regs'[old].unregistered /\ regs[old].sub = s
                 /\ regs'[old].sub = s /\ regs'[old].transient = regs[old].transient
  <2>1. old # 0 => old \in RegIds /\ regs[old].sub = s
    BY <1>1, CurrentFacts
  <2> QED
    BY <1>1, <2>1, Same DEF Registrations
<1>7. \A i \in RegIds : i # 0 /\ (Current(i) => upd[i].pc # "none")
  BY Bounds, CurrentFacts DEF RegIds, Current
<1>8. /\ Current(r)' /\ ~Current(r)
      /\ \A i \in RegIds \ {r, old} : (Current(i)' <=> Current(i)) /\ regs'[i] = regs[i]
      /\ old # 0 => ~Current(old)'
  <2>1. Current(r)' /\ ~Current(r)
    BY <1>1, <1>3, <1>5, <1>7 DEF Current
  <2>2. ASSUME NEW i \in RegIds \ {r, old} PROVE (Current(i)' <=> Current(i)) /\ regs'[i] = regs[i]
    BY <1>1, <1>3, <1>7 DEF Current
  <2>3. old # 0 => ~Current(old)'
    BY <1>1, <1>3, <1>6 DEF Current
  <2> QED
    BY <2>1, <2>2, <2>3
<1>9. Later(topic, topic') /\ \A k \in BackendIds :
            \/ topic'.entries[k] = topic.entries[k] /\ (old = 0 \/ ~(HasEntry(topic, k) /\ Recorded(old, k)))
            \/ View(topic')[k] = "none"
  <2>1. CASE old = 0
    BY <1>1, <2>1, Same, SameTopic
  <2>2. CASE old # 0
    <3>1. topic' \in WithoutTransient(topic, old)
      BY <1>1, <2>2
    <3>2. /\ Later(topic, topic')
          /\ \A k \in BackendIds :
                \/ topic'.entries[k] = topic.entries[k] /\ ~(HasEntry(topic, k) /\ topic.entries[k].version = regs[old].transient[k])
                \/ View(topic')[k] = "none"
      BY <3>1, Same, WithoutTransientIsLater
    <3> QED
      BY <3>2 DEF Recorded
  <2> QED
    BY <2>1, <2>2
<1>10. ASSUME NEW i \in RegIds, Pending(i) \/ Pending(i)' PROVE upd'[i] = upd[i]
  BY <1>1, <1>4, <1>10 DEF Pending
<1>11. ~Pending(r)'
  BY <1>4 DEF Pending
<1>12. ASSUME NEW i \in RegIds, upd'[i].pc # "none" PROVE Current(i)' \/ regs'[i].unregistered
  <2>1. CASE i = r
    BY <2>1, <1>8
  <2>2. CASE i = old
    BY <2>2, <1>6, <1>7
  <2>3. CASE i # r /\ i # old
    BY <2>3, <1>4, <1>8, <1>12 DEF LeakInv
  <2> QED
    BY <2>1, <2>2, <2>3
<1>13. ASSUME NEW i \in RegIds
       PROVE  /\ Current(i) /\ i # old => Current(i)' /\ regs'[i].transient = regs[i].transient
              /\ \/ ~Current(i)'
                 \/ Current(i) /\ regs'[i].transient = regs[i].transient
                 \/ ~Pending(i)' /\ \A k \in BackendIds : regs'[i].transient[k] = 0
  <2>1. CASE i = r
    BY <2>1, <1>5, <1>8, <1>11
  <2>2. CASE i = old
    BY <2>2, <1>7, <1>8
  <2>3. CASE i # r /\ i # old
    BY <2>3, <1>8
  <2> QED
    BY <2>1, <2>2, <2>3
<1>14. Leaving(old)
  BY <1>9, <1>10, <1>12, <1>13 DEF Leaving
<1> QED
  BY <1>14, LeavingKeeps

\* Another statestored has an empty topic and no chains.
LEMMA RestartLeak == ASSUME RestartStatestore PROVE LeakInv'
<1>1. /\ topic' = EmptyTopic /\ subscribers' = [s \in Subs |-> 0]
      /\ upd' = [r \in RegIds |-> Chain("none")]
  BY DEF RestartStatestore
<1>2. \A r \in RegIds : upd'[r].pc = "none" /\ ~Pending(r)' /\ ~Current(r)'
  <2>1. Chain("none").pc = "none"
    BY FreshChain
  <2>2. \A r \in RegIds : r # 0
    BY Bounds DEF RegIds
  <2> QED
    BY <1>1, <2>1, <2>2 DEF Pending, Current
<1>3. \A k \in BackendIds : View(topic')[k] = "none"
  BY <1>1, EmptyTopicFacts
<1> QED
  BY <1>2, <1>3 DEF LeakInv

LEMMA InitLeak == Init => LeakInv
<1> SUFFICES ASSUME Init PROVE LeakInv
  OBVIOUS
<1>1. \A r \in RegIds : upd[r].pc = "none" /\ ~Pending(r) /\ ~Current(r)
  <2>1. Chain("none").pc = "none"
    BY FreshChain
  <2>2. \A r \in RegIds : r # 0
    BY Bounds DEF RegIds
  <2> QED
    BY <2>1, <2>2 DEF Init, Pending, Current
<1>2. \A k \in BackendIds : View(topic)[k] = "none"
  BY EmptyTopicFacts DEF Init
<1> QED
  BY <1>1, <1>2 DEF LeakInv

LEMMA NextLeak == ASSUME Roomy, IInv, LeakInv, [Next]_vars PROVE LeakInv'
<1>1. CASE vars' = vars
  BY <1>1, NothingLeaks, StayingKeeps DEF vars
<1>2. CASE Next
  <2>1. ASSUME NEW r \in RegIds,
               TakeUpdate(r) \/ SendTopicUpdate(r) \/ AckUpdate(r) \/ ApplyReturned(r)
                 \/ AddTransientEntries(r) \/ CleanUp(r) \/ FinishUpdate(r) \/ TimeoutUpdate(r)
        PROVE  LeakInv'
    BY <2>1, TakeUpdateLeak, SendTopicUpdateLeak, AckUpdateLeak, ApplyReturnedLeak,
       AddTransientEntriesLeak, CleanUpLeak, FinishUpdateLeak, TimeoutUpdateLeak, StayingKeeps
  <2>2. ASSUME NEW r \in RegIds, DropHeartbeat(r) \/ HeartbeatOk(r) \/ HeartbeatFailed(r)
        PROVE  LeakInv'
    BY <2>2, HeartbeatLeak, HeartbeatFailedLeak, StayingKeeps
  <2>3. ASSUME NEW c \in calls,
               ReceiveUpdate(c) \/ SkipUpdate(c) \/ ProcessUpdate(c) \/ RepeatUpdate(c)
        PROVE  LeakInv'
    BY <2>3, HandlerLeak, StayingKeeps
  <2>4. ASSUME NEW s \in Subs, Register(s) \/ LateRegister(s)
        PROVE  LeakInv'
    BY <2>4, RegisterSubscriberLeak DEF Register, LateRegister
  <2>5. ASSUME NEW s \in Subs,
               \/ EnterRecovery(s) \/ NeedlessRecovery(s) \/ FinishRegister(s) \/ Boot(s) \/ Crash(s)
               \/ LoseRegisterReply(s) \/ AbandonRegister(s) \/ SetLocalBackend(s)
        PROVE  LeakInv'
    BY <2>5, ProcessLeak, CrashLeak, StayingKeeps
  <2>6. ASSUME RestartStatestore PROVE LeakInv'
    BY <2>6, RestartLeak
  <2> QED
    BY <1>2, <2>1, <2>2, <2>3, <2>4, <2>5, <2>6, Zenon
       DEF Next, UpdateStep, HeartbeatStep, HandlerStep, ProcessStep, Environment
<1> QED
  BY <1>1, <1>2

\* NoLeakedEntries, in a statestored whose pools have room for every registration
\* (statestore_max_subscribers): whatever comes between Put() and AddTransientEntries(),
\* a live entry of the transient topic has somebody who will delete it.
THEOREM NoLeakedEntriesHolds ==
    ASSUME MaxRegs <= MaxQueue
    PROVE  Spec => []NoLeakedEntries
<1>1. Roomy
  BY DEF Roomy
<1>2. Init => IInv /\ LeakInv
  BY InitLayer, InitLeak
<1>3. IInv /\ LeakInv /\ [Next]_vars => (IInv /\ LeakInv)'
  BY <1>1, NextLayer, NextLeak
<1>4. LeakInv => NoLeakedEntries
  BY DEF LeakInv, NoLeakedEntries, Recorded, PendingEntry, Pending
<1> QED
  BY <1>2, <1>3, <1>4, PTL DEF Spec

-----------------------------------------------------------------------------
(***************************************************************************)
(* The copies agree with the topic.                                        *)
(***************************************************************************)
LEMMA TopicFacts ==
    ASSUME NEW t \in Topics, NEW k \in BackendIds
    PROVE  /\ t.last \in Nat /\ t.entries[k].version \in Nat /\ t.entries[k].value \in Items
           /\ t.entries[k].deleted \in BOOLEAN
BY DEF Topics, Entry, Items

\* What was true of the topic stays true of a later one.
LEMMA LaterDelta ==
    ASSUME NEW t \in Topics, Sound(t), NEW w, Later(t, w), NEW d \in Deltas, TrueDelta(t, d)
    PROVE  TrueDelta(w, d)
<1>1. d.to \in Nat /\ d.to <= t.last
  BY DEF Deltas, TrueDelta
<1>2. t.last <= w.last /\ t.last \in Nat /\ w.last \in Nat
  BY LaterVersions
<1>3. ASSUME NEW k \in BackendIds
      PROVE  IF HasEntry(w, k)
            THEN w.entries[k].version <= d.to =>
                   d.items[k] = IF w.entries[k].version <= d.from THEN "no item"
                                ELSE IF ~w.entries[k].deleted THEN w.entries[k].value
                                ELSE IF d.is_delta THEN "deleted" ELSE "no item"
            ELSE d.items[k] = "no item"
  <2>1. CASE w.entries[k] = t.entries[k]
    BY <2>1 DEF TrueDelta, HasEntry
  <2>2. CASE t.last < w.entries[k].version /\ HasEntry(w, k)
    <3>1. w.entries[k].version \in Nat
      BY LaterVersions
    <3>2. ~(w.entries[k].version <= d.to)
      BY <1>1, <1>2, <2>2, <3>1
    <3> QED
      BY <2>2, <3>2
  <2> QED
    BY <2>1, <2>2 DEF Later
<1>4. d.to <= w.last
  BY <1>1, <1>2
<1>5. d.is_delta <=> d.from > 0
  BY DEF TrueDelta
<1> QED
  BY <1>3, <1>4, <1>5 DEF TrueDelta

LEMMA LaterCopy ==
    ASSUME NEW t \in Topics, Sound(t), NEW w, Later(t, w), NEW cp, NEW v \in Nat \cup {-1},
           TrueCopy(t, cp, v)
    PROVE  TrueCopy(w, cp, v)
<1>1. v <= t.last /\ t.last <= w.last /\ t.last \in Nat /\ w.last \in Nat
  BY LaterVersions DEF TrueCopy
<1>2. ASSUME NEW k \in BackendIds
      PROVE  IF HasEntry(w, k) THEN w.entries[k].version <= v => cp[k] = View(w)[k]
             ELSE cp[k] = "none"
  <2>1. CASE w.entries[k] = t.entries[k]
    <3>1. View(w)[k] = View(t)[k] /\ (HasEntry(w, k) <=> HasEntry(t, k))
      BY <2>1 DEF View, HasEntry
    <3> QED
      BY <2>1, <3>1 DEF TrueCopy
  <2>2. CASE t.last < w.entries[k].version /\ HasEntry(w, k)
    <3>1. w.entries[k].version \in Nat
      BY LaterVersions
    <3>2. ~(w.entries[k].version <= v)
      BY <1>1, <2>2, <3>1
    <3> QED
      BY <2>2, <3>2
  <2> QED
    BY <2>1, <2>2 DEF Later
<1> QED
  BY <1>1, <1>2 DEF TrueCopy

\* BuildDelta() says the truth.
LEMMA BuildDeltaTrue ==
    ASSUME NEW t \in Topics, Sound(t), NEW from \in Nat, NEW d, d = BuildDelta(t, from)
    PROVE  TrueDelta(t, d)
<1>1. d.to = LogVersion(t) /\ d.from = from /\ (d.is_delta <=> from > 0) /\ d \in Deltas
  BY BuildDeltaType
<1>2. d.to <= t.last
  BY <1>1, LogVersionType
<1>3. \A k \in BackendIds :
        d.items[k] = IF \E e \in t.log : e[1] > from /\ e[2] = k
                       THEN IF ~t.entries[k].deleted THEN t.entries[k].value
                            ELSE IF from > 0 THEN "deleted" ELSE "no item"
                       ELSE "no item"
  BY DEF BuildDelta, TOPIC_INITIAL_VERSION
<1>4. ASSUME NEW k \in BackendIds
      PROVE  (\E e \in t.log : e[1] > from /\ e[2] = k) <=> HasEntry(t, k) /\ t.entries[k].version > from
  <2>1. ASSUME NEW e \in t.log, e[1] > from, e[2] = k
        PROVE  HasEntry(t, k) /\ t.entries[k].version > from
    <3>1. PICK j \in BackendIds : HasEntry(t, j) /\ e = <<t.entries[j].version, j>>
      BY DEF Sound
    <3> QED
      BY <2>1, <3>1
  <2>2. ASSUME HasEntry(t, k), t.entries[k].version > from
        PROVE  \E e \in t.log : e[1] > from /\ e[2] = k
    <3>1. <<t.entries[k].version, k>> \in t.log
      BY <2>2 DEF Sound
    <3> QED
      BY <2>2, <3>1
  <2> QED
    BY <2>1, <2>2
<1>5. ASSUME NEW k \in BackendIds
      PROVE  IF HasEntry(t, k)
            THEN t.entries[k].version <= d.to =>
                   d.items[k] = IF t.entries[k].version <= d.from THEN "no item"
                                ELSE IF ~t.entries[k].deleted THEN t.entries[k].value
                                ELSE IF d.is_delta THEN "deleted" ELSE "no item"
            ELSE d.items[k] = "no item"
  <2>1. t.entries[k].version \in Nat
    BY TopicFacts
  <2>2. CASE HasEntry(t, k) /\ t.entries[k].version > from
    <3>1. d.items[k] = IF ~t.entries[k].deleted THEN t.entries[k].value
                       ELSE IF from > 0 THEN "deleted" ELSE "no item"
      BY <1>3, <1>4, <2>2
    <3>2. ~(t.entries[k].version <= d.from)
      BY <1>1, <2>1, <2>2
    <3> QED
      BY <1>1, <2>2, <3>1, <3>2
  <2>3. CASE ~(HasEntry(t, k) /\ t.entries[k].version > from)
    <3>1. d.items[k] = "no item"
      BY <1>3, <1>4, <2>3
    <3>2. HasEntry(t, k) => t.entries[k].version <= d.from
      BY <1>1, <2>1, <2>3
    <3> QED
      BY <3>1, <3>2
  <2> QED
    BY <2>2, <2>3
<1> QED
  BY <1>1, <1>2, <1>5 DEF TrueDelta

\* A true update makes a true copy, from nothing or on top of one at the right version.
LEMMA ApplyTrue ==
    ASSUME NEW t \in Topics, NEW d \in Deltas, TrueDelta(t, d),
           NEW cp \in [BackendIds -> Items], NEW v \in Nat,
           d.is_delta => TrueCopy(t, cp, v) /\ d.from = v
    PROVE  TrueCopy(t, ApplyDelta(cp, d), d.to)
<1>1. /\ d.from \in Nat /\ d.to \in Nat /\ d.to <= t.last /\ (d.is_delta <=> d.from > 0)
      /\ d.is_delta \in BOOLEAN
  BY DEF Deltas, TrueDelta
<1>2. PICK base : base = IF d.is_delta THEN cp ELSE [k \in BackendIds |-> "none"]
  OBVIOUS
<1>3. \A k \in BackendIds : ApplyDelta(cp, d)[k] =
            IF d.items[k] = "no item" THEN base[k]
            ELSE IF d.items[k] = "deleted" THEN "none" ELSE d.items[k]
  BY <1>2 DEF ApplyDelta
<1>4. ASSUME NEW k \in BackendIds
      PROVE  IF HasEntry(t, k)
               THEN t.entries[k].version <= d.to => ApplyDelta(cp, d)[k] = View(t)[k]
               ELSE ApplyDelta(cp, d)[k] = "none"
  <2>1. /\ t.entries[k].version \in Nat /\ t.entries[k].value \in {"none", "running", "quiescing"}
    BY TopicFacts DEF Items
  <2>2. View(t)[k] = IF HasEntry(t, k) /\ ~t.entries[k].deleted THEN t.entries[k].value ELSE "none"
    BY DEF View
  <2>3. CASE ~HasEntry(t, k)
    <3>1. d.items[k] = "no item" /\ base[k] = "none"
      BY <1>2, <2>3 DEF TrueDelta, TrueCopy
    <3> QED
      BY <1>3, <2>3, <3>1
  <2>4. CASE HasEntry(t, k) /\ t.entries[k].version <= d.to /\ t.entries[k].version <= d.from
    <3>1. d.items[k] = "no item"
      BY <2>4 DEF TrueDelta
    <3>2. d.is_delta
      BY <1>1, <2>1, <2>4 DEF HasEntry
    <3>3. cp[k] = View(t)[k]
      BY <2>4, <3>2 DEF TrueCopy
    <3> QED
      BY <1>2, <1>3, <2>4, <3>1, <3>2, <3>3
  <2>5. CASE HasEntry(t, k) /\ t.entries[k].version <= d.to /\ ~(t.entries[k].version <= d.from)
    <3>1. d.items[k] = IF ~t.entries[k].deleted THEN t.entries[k].value
                       ELSE IF d.is_delta THEN "deleted" ELSE "no item"
      BY <2>5 DEF TrueDelta
    <3>2. CASE ~t.entries[k].deleted
      BY <1>3, <2>1, <2>2, <2>5, <3>1, <3>2
    <3>3. CASE t.entries[k].deleted /\ d.is_delta
      BY <1>3, <2>2, <2>5, <3>1, <3>3
    <3>4. CASE t.entries[k].deleted /\ ~d.is_delta
      BY <1>2, <1>3, <2>2, <2>5, <3>1, <3>4
    <3> QED
      BY <3>2, <3>3, <3>4
  <2> QED
    BY <2>3, <2>4, <2>5
<1> QED
  BY <1>1, <1>4 DEF TrueCopy

\* What CopyInv says of a process does not change.
SameCopy(p, q) ==
    /\ q.mode = p.mode /\ q.reg = p.reg /\ q.resp.reg = p.resp.reg
    /\ q.source = p.source /\ q.version = p.version /\ q.copy = p.copy

\* A registration keeps what it is, and a new one is of this statestored.
RegsKeep ==
    /\ nextReg' >= nextReg
    /\ \A i \in RegIds : /\ regs'[i].epoch <= epoch
                         /\ i < nextReg => regs'[i].epoch = regs[i].epoch /\ regs'[i].sub = regs[i].sub

\* No registration is acknowledged that was not before, except those of M.
NewlyAcknowledged(M) ==
    \A i \in RegIds \ M : i < nextReg /\ Acknowledged(i)' => Acknowledged(i)

\* The calls were there.
OldCalls ==
    \A b \in calls' : \E c \in calls : b.reg = c.reg /\ b.delta = c.delta /\ b.stage \in {"sent", c.stage}

LEMMA CallFacts ==
    ASSUME IInv, NEW c \in calls
    PROVE  /\ c \in Calls /\ c.reg \in RegIds /\ c.delta \in Deltas /\ c.reg < nextReg
           /\ regs[c.reg].sub \in Subs /\ regs[c.reg] \in Registrations
BY Same DEF Calls, IInv, RegInv

\* What a step leaves of the process of s, in a later topic.
LEMMA ProcessCopyKept ==
    ASSUME IInv, CopyInv, NEW s \in Subs, SameCopy(sub[s], sub'[s]), RegsKeep,
           NEW M, NewlyAcknowledged(M), sub[s].reg \notin M, sub[s].resp.reg \notin M,
           epoch' = epoch, nextReg' \in Nat, Later(topic, topic')
    PROVE  ProcessCopy(s)'
<1> USE DEF SameCopy
<1>1. ProcessCopy(s)
  BY DEF CopyInv
<1>2. sub[s] \in Processes /\ topic \in Topics /\ Sound(topic) /\ nextReg \in Nat
  BY Same DEF IInv, TypeOK
<1>3. sub[s].reg \in 0..MaxRegs /\ sub[s].resp.reg \in 0..MaxRegs /\ sub[s].version \in Nat \cup {-1}
  BY <1>2 DEF Processes
<1>4. ASSUME NEW i \in {sub[s].reg, sub[s].resp.reg} \ {0}
      PROVE  /\ i < nextReg' /\ regs'[i].sub = s
             /\ Acknowledged(i)' => sub'[s].source = regs'[i].epoch
  <2>1. i \in RegIds
    BY <1>3, Bounds DEF RegIds
  <2>2. /\ i < nextReg /\ regs[i].sub = s
        /\ Acknowledged(i) => sub[s].source = regs[i].epoch
    BY <1>1, <1>4 DEF ProcessCopy
  <2>3. Acknowledged(i)' => Acknowledged(i)
    BY <1>4, <2>1, <2>2 DEF NewlyAcknowledged
  <2>4. i \in Nat
    BY <2>1, Bounds DEF RegIds
  <2> QED
    BY <1>2, <2>1, <2>2, <2>3, <2>4 DEF RegsKeep
<1>5. sub'[s].source = epoch' => TrueCopy(topic', sub'[s].copy, sub'[s].version)
  <2>1. sub[s].source = epoch => TrueCopy(topic, sub[s].copy, sub[s].version)
    BY <1>1 DEF ProcessCopy
  <2> QED
    BY <1>2, <1>3, <2>1, LaterCopy
<1> QED
  BY <1>1, <1>4, <1>5 DEF ProcessCopy

\* A call that was there.
LEMMA CallCopyKept ==
    ASSUME IInv, CopyInv, NEW b, NEW c \in calls, b.reg = c.reg, b.delta = c.delta,
           RegsKeep, NEW s \in Subs, s = regs[c.reg].sub,
           b.stage = "checked" /\ sub'[s].mode = "running" =>
             c.stage = "checked" /\ sub[s].mode = "running" /\ sub'[s].reg = sub[s].reg,
           epoch' = epoch, Later(topic, topic')
    PROVE  CallCopy(b)'
<1>1. CallCopy(c)
  BY DEF CopyInv
<1>2. c.reg \in RegIds /\ c.delta \in Deltas /\ c.reg < nextReg
  BY CallFacts
<1>3. regs'[c.reg].epoch = regs[c.reg].epoch /\ regs'[c.reg].sub = s
  BY <1>2 DEF RegsKeep
<1>4. topic \in Topics /\ Sound(topic)
  BY Same
<1>5. regs[c.reg].epoch = epoch => TrueDelta(topic', c.delta)
  BY <1>1, <1>2, <1>4, LaterDelta DEF CallCopy
<1>6. c.stage = "checked" /\ sub[s].mode = "running" => c.reg = sub[s].reg
  BY <1>1 DEF CallCopy, SubOf
<1> QED
  BY <1>3, <1>5, <1>6 DEF CallCopy, SubOf

CopyQuiet ==
    /\ RegsKeep /\ NewlyAcknowledged({}) /\ OldCalls /\ \A s \in Subs : SameCopy(sub[s], sub'[s])
    /\ epoch' = epoch /\ nextReg' \in Nat /\ Later(topic, topic')

LEMMA CopyQuietKeeps == ASSUME IInv, CopyInv, CopyQuiet PROVE CopyInv'
<1>1. \A r \in RegIds : regs'[r].epoch <= epoch'
  BY DEF CopyQuiet, RegsKeep
<1>2. ASSUME NEW s \in Subs PROVE ProcessCopy(s)'
  <2>1. PICK M : M = {}
    OBVIOUS
  <2>2. NewlyAcknowledged(M) /\ sub[s].reg \notin M /\ sub[s].resp.reg \notin M
    BY <2>1 DEF CopyQuiet
  <2> QED
    BY <2>2, ProcessCopyKept DEF CopyQuiet
<1>3. ASSUME NEW b \in calls' PROVE CallCopy(b)'
  <2>1. PICK c \in calls : b.reg = c.reg /\ b.delta = c.delta /\ b.stage \in {"sent", c.stage}
    BY DEF CopyQuiet, OldCalls
  <2>2. PICK s \in Subs : s = regs[c.reg].sub
    BY CallFacts
  <2>3. b.stage = "checked" => c.stage = "checked"
    BY <2>1
  <2>4. b.stage = "checked" /\ sub'[s].mode = "running" =>
          c.stage = "checked" /\ sub[s].mode = "running" /\ sub'[s].reg = sub[s].reg
    BY <2>3 DEF CopyQuiet, SameCopy
  <2> QED
    BY <2>1, <2>2, <2>4, CallCopyKept DEF CopyQuiet
<1> QED
  BY <1>1, <1>2, <1>3 DEF CopyInv

\* How the parts of CopyQuiet come about.
RegsStay == \A i \in RegIds : regs'[i].epoch = regs[i].epoch /\ regs'[i].sub = regs[i].sub

LEMMA RegsStayKeep == ASSUME IInv, CopyInv, RegsStay, nextReg' = nextReg PROVE RegsKeep /\ nextReg' \in Nat
<1>1. nextReg \in Nat
  BY DEF IInv, TypeOK
<1> QED
  BY <1>1 DEF RegsKeep, RegsStay, CopyInv

LEMMA SameCalls2 == ASSUME calls' \subseteq calls PROVE OldCalls
BY DEF OldCalls

LEMMA AckStays ==
    ASSUME OldCalls, NEW M,
           \A i \in RegIds \ M : regs'[i].last > 0 \/ upd'[i].pc \in {"replied", "acked"} => Acknowledged(i)
    PROVE  NewlyAcknowledged(M)
<1>1. ASSUME NEW i \in RegIds \ M, Acknowledged(i)' PROVE Acknowledged(i)
  <2>1. CASE regs'[i].last > 0 \/ upd'[i].pc \in {"replied", "acked"}
    BY <2>1
  <2>2. CASE \E b \in calls' : b.reg = i /\ b.delta.is_delta
    BY <2>2 DEF OldCalls, Acknowledged
  <2> QED
    BY <1>1, <2>1, <2>2 DEF Acknowledged
<1> QED
  BY <1>1 DEF NewlyAcknowledged

\* A step of one chain.
LEMMA ChainCopyStep ==
    ASSUME IInv, CopyInv, NEW r \in RegIds, NEW x, upd' = [upd EXCEPT ![r] = x],
           x.pc \in {"replied", "acked"} => Acknowledged(r),
           RegsStay, \A i \in RegIds \ {r} : regs'[i].last = regs[i].last,
           regs'[r].last > 0 => Acknowledged(r),
           OldCalls, sub' = sub, epoch' = epoch, nextReg' = nextReg, Later(topic, topic')
    PROVE  CopyInv'
<1>1. upd'[r] = x /\ \A i \in RegIds \ {r} : upd'[i] = upd[i]
  BY Same
<1>2. ASSUME NEW i \in RegIds, regs'[i].last > 0 \/ upd'[i].pc \in {"replied", "acked"}
      PROVE  Acknowledged(i)
  <2>1. CASE i = r
    BY <1>1, <1>2, <2>1
  <2>2. CASE i # r
    BY <1>1, <1>2, <2>2 DEF Acknowledged
  <2> QED
    BY <2>1, <2>2
<1>3. NewlyAcknowledged({})
  BY <1>2, AckStays
<1>4. \A s \in Subs : SameCopy(sub[s], sub'[s])
  BY DEF SameCopy
<1>5. CopyQuiet
  BY <1>3, <1>4, RegsStayKeep DEF CopyQuiet
<1> QED
  BY <1>5, CopyQuietKeeps

\* A step that leaves chains, calls and processes alone, but for what SameCopy allows.
LEMMA QuietCopyStep ==
    ASSUME IInv, CopyInv, upd' = upd, RegsStay, \A i \in RegIds : regs'[i].last = regs[i].last,
           OldCalls, \A s \in Subs : SameCopy(sub[s], sub'[s]),
           epoch' = epoch, nextReg' = nextReg, Later(topic, topic')
    PROVE  CopyInv'
<1>1. NewlyAcknowledged({})
  <2>1. \A i \in RegIds : regs'[i].last > 0 \/ upd'[i].pc \in {"replied", "acked"} => Acknowledged(i)
    BY DEF Acknowledged
  <2> QED
    BY <2>1, AckStays
<1>2. CopyQuiet
  BY <1>1, RegsStayKeep DEF CopyQuiet
<1> QED
  BY <1>2, CopyQuietKeeps

LEMMA StillThere ==
    ASSUME IInv
    PROVE  /\ topic' = topic => Later(topic, topic')
           /\ regs' = regs => RegsStay /\ \A i \in RegIds : regs'[i].last = regs[i].last
           /\ calls' = calls => OldCalls
           /\ sub' = sub => \A s \in Subs : SameCopy(sub[s], sub'[s])
BY Same, SameTopic DEF RegsStay, OldCalls, SameCopy

LEMMA TakeUpdateCopy == ASSUME IInv, CopyInv, NEW r \in RegIds, TakeUpdate(r) PROVE CopyInv'
<1>1. upd \in [RegIds -> Chains] /\ regs \in [RegIds -> Registrations]
  BY Same
<1>2. PICK pc \in {"found", "none"} : upd' = [upd EXCEPT ![r].pc = pc]
  BY DEF TakeUpdate
<1>3. PICK x : x = [upd[r] EXCEPT !.pc = pc]
  OBVIOUS
<1>4. upd' = [upd EXCEPT ![r] = x] /\ x.pc = pc
  BY <1>1, <1>2, <1>3 DEF Chains
<1>5. RegsStay /\ \A i \in RegIds \ {r} : regs'[i].last = regs[i].last
  BY <1>1 DEF TakeUpdate, Released, Registrations, RegsStay
<1>6. regs'[r].last > 0 => Acknowledged(r)
  <2>1. regs'[r].last = regs[r].last \/ regs'[r].last = 0
    BY <1>1 DEF TakeUpdate, Released, Registrations
  <2> QED
    BY <2>1 DEF Acknowledged
<1>7. OldCalls /\ sub' = sub /\ epoch' = epoch /\ nextReg' = nextReg /\ Later(topic, topic')
  BY StillThere DEF TakeUpdate
<1> QED
  BY <1>4, <1>5, <1>6, <1>7, ChainCopyStep

LEMMA AckUpdateCopy == ASSUME IInv, CopyInv, NEW r \in RegIds, AckUpdate(r) PROVE CopyInv'
<1>1. upd \in [RegIds -> Chains] /\ regs \in [RegIds -> Registrations]
  BY Same
<1>2. PICK x : upd' = [upd EXCEPT ![r] = x]
  BY <1>1 DEF AckUpdate, Chains
<1>3. Acknowledged(r)
  BY DEF AckUpdate, Acknowledged
<1>4. RegsStay /\ \A i \in RegIds \ {r} : regs'[i].last = regs[i].last
  BY <1>1 DEF AckUpdate, Registrations, RegsStay
<1>5. OldCalls /\ sub' = sub /\ epoch' = epoch /\ nextReg' = nextReg /\ Later(topic, topic')
  BY StillThere DEF AckUpdate
<1> QED
  BY <1>2, <1>3, <1>4, <1>5, ChainCopyStep

LEMMA ApplyReturnedCopy == ASSUME IInv, CopyInv, NEW r \in RegIds, ApplyReturned(r) PROVE CopyInv'
<1>1. /\ upd \in [RegIds -> Chains] /\ regs \in [RegIds -> Registrations]
      /\ topic \in Topics /\ Sound(topic)
  BY Same
<1>2. PICK x : upd' = [upd EXCEPT ![r] = x]
  BY <1>1 DEF ApplyReturned, Chains
<1>3. Acknowledged(r) /\ upd[r].pc = "acked" /\ upd[r] \in Chains
  BY <1>1 DEF ApplyReturned, Acknowledged
<1>4. RegsStay /\ \A i \in RegIds \ {r} : regs'[i].last = regs[i].last
  <2>1. CASE regs' = regs
    BY <2>1, StillThere
  <2>2. CASE regs' = [regs EXCEPT ![r].last = upd[r].from]
    BY <1>1, <2>2 DEF Registrations, RegsStay
  <2> QED
    BY <2>1, <2>2 DEF ApplyReturned
<1>5. OldCalls /\ sub' = sub /\ epoch' = epoch /\ nextReg' = nextReg
  BY StillThere DEF ApplyReturned
<1>6. Later(topic, topic')
  <2>1. CASE upd[r].from # -1
    BY <2>1, StillThere DEF ApplyReturned
  <2>2. CASE upd[r].from = -1
    <3>1. PICK k \in BackendIds : k = upd[r].key /\ upd[r].item \in Items
      BY <1>3, <2>2 DEF IInv, ChainInv, Chains
    <3>2. topic' = Put(topic, k, upd[r].item, FALSE)
      BY <2>2, <3>1 DEF ApplyReturned
    <3>3. PICK e \in Entry : e.version = topic.last + 1 /\ topic' = Replaced(topic, k, e)
      BY <1>1, <3>1, <3>2, PutIsReplaced
    <3> QED
      BY <1>1, <3>1, <3>3, PutLater
  <2> QED
    BY <2>1, <2>2
<1> QED
  BY <1>2, <1>3, <1>4, <1>5, <1>6, ChainCopyStep

LEMMA AddTransientEntriesCopy ==
    ASSUME IInv, CopyInv, NEW r \in RegIds, AddTransientEntries(r) PROVE CopyInv'
<1>1. upd \in [RegIds -> Chains] /\ regs \in [RegIds -> Registrations]
  BY Same
<1>2. PICK pc \in {"unwanted", "done"} : upd' = [upd EXCEPT ![r].pc = pc]
  BY DEF AddTransientEntries
<1>3. PICK x : x = [upd[r] EXCEPT !.pc = pc]
  OBVIOUS
<1>4. upd' = [upd EXCEPT ![r] = x] /\ x.pc = pc
  BY <1>1, <1>2, <1>3 DEF Chains
<1>5. RegsStay /\ \A i \in RegIds : regs'[i].last = regs[i].last
  <2>1. CASE regs' = regs
    BY <2>1, StillThere
  <2>2. CASE regs' = [regs EXCEPT ![r].transient[upd[r].key] = upd[r].version]
    BY <1>1, <2>2 DEF Registrations, RegsStay
  <2> QED
    BY <2>1, <2>2 DEF AddTransientEntries
<1>6. OldCalls /\ sub' = sub /\ epoch' = epoch /\ nextReg' = nextReg /\ Later(topic, topic')
  BY StillThere DEF AddTransientEntries
<1>7. regs'[r].last > 0 => Acknowledged(r)
  BY <1>5 DEF Acknowledged
<1> QED
  BY <1>4, <1>5, <1>6, <1>7, ChainCopyStep

LEMMA CleanUpCopy == ASSUME IInv, CopyInv, NEW r \in RegIds, CleanUp(r) PROVE CopyInv'
<1>1. upd \in [RegIds -> Chains] /\ topic \in Topics /\ Sound(topic)
  BY Same
<1>2. upd[r].key \in BackendIds /\ upd[r].version \in Nat
  BY <1>1 DEF CleanUp, IInv, ChainInv, Chains
<1>3. PICK x : x = [upd[r] EXCEPT !.pc = "done"]
  OBVIOUS
<1>4. upd' = [upd EXCEPT ![r] = x] /\ x.pc = "done"
  BY <1>1, <1>3 DEF CleanUp, Chains
<1>5. Later(topic, topic')
  BY <1>1, <1>2, DeleteIsLater DEF CleanUp
<1>6. /\ OldCalls /\ sub' = sub /\ epoch' = epoch /\ nextReg' = nextReg
      /\ RegsStay /\ \A i \in RegIds : regs'[i].last = regs[i].last
  BY StillThere DEF CleanUp
<1>7. regs'[r].last > 0 => Acknowledged(r)
  BY <1>6 DEF Acknowledged
<1> QED
  BY <1>4, <1>5, <1>6, <1>7, ChainCopyStep

LEMMA FinishUpdateCopy == ASSUME IInv, CopyInv, NEW r \in RegIds, FinishUpdate(r) PROVE CopyInv'
<1>1. regs \in [RegIds -> Registrations]
  BY Same
<1>2. PICK pc \in {"none", "queued"} : upd' = [upd EXCEPT ![r] = Chain(pc)]
  BY DEF FinishUpdate
<1>3. Chain(pc).pc = pc
  BY FreshChain
<1>4. regs' = regs \/ regs' = Released(r)
  BY DEF FinishUpdate
<1>5. RegsStay /\ \A i \in RegIds \ {r} : regs'[i].last = regs[i].last
  <2>1. CASE regs' = regs
    BY <2>1, StillThere
  <2>2. CASE regs' = Released(r)
    BY <1>1, <2>2 DEF Released, Registrations, RegsStay
  <2> QED
    BY <1>4, <2>1, <2>2
<1>6. regs'[r].last > 0 => Acknowledged(r)
  <2>1. regs'[r].last = regs[r].last \/ regs'[r].last = 0
    BY <1>1, <1>4 DEF Released, Registrations
  <2> QED
    BY <2>1 DEF Acknowledged
<1>7. OldCalls /\ sub' = sub /\ epoch' = epoch /\ nextReg' = nextReg /\ Later(topic, topic')
  BY StillThere DEF FinishUpdate
<1> QED
  BY <1>2, <1>3, <1>5, <1>6, <1>7, ChainCopyStep

LEMMA HeartbeatCopy ==
    ASSUME IInv, CopyInv, NEW r \in RegIds, DropHeartbeat(r) \/ HeartbeatOk(r) \/ HeartbeatFailed(r)
    PROVE  CopyInv'
<1>1. upd' = upd /\ calls' = calls /\ sub' = sub /\ epoch' = epoch /\ nextReg' = nextReg
  BY DEF DropHeartbeat, HeartbeatOk, HeartbeatFailed
<1>2. regs' = regs \/ regs' = [regs EXCEPT ![r].unregistered = TRUE]
  BY DEF DropHeartbeat, HeartbeatOk, HeartbeatFailed
<1>3. RegsStay /\ \A i \in RegIds : regs'[i].last = regs[i].last
  <2>1. CASE regs' = regs
    BY <2>1, StillThere
  <2>2. CASE regs' = [regs EXCEPT ![r].unregistered = TRUE]
    BY <2>2, Same DEF Registrations, RegsStay
  <2> QED
    BY <1>2, <2>1, <2>2
<1>4. Later(topic, topic')
  <2>1. topic' = topic \/ topic' \in WithoutTransient(topic, r)
    BY DEF DropHeartbeat, HeartbeatOk, HeartbeatFailed
  <2> QED
    BY <2>1, Same, SameTopic, WithoutTransientIsLater
<1>5. OldCalls /\ \A s \in Subs : SameCopy(sub[s], sub'[s])
  BY <1>1, StillThere
<1> QED
  BY <1>1, <1>3, <1>4, <1>5, QuietCopyStep

LEMMA TimeoutUpdateCopy == ASSUME IInv, CopyInv, NEW r \in RegIds, TimeoutUpdate(r) PROVE CopyInv'
<1>1. upd' = [upd EXCEPT ![r] = Chain("done")] /\ Chain("done").pc = "done"
  BY FreshChain DEF TimeoutUpdate
<1>2. OldCalls
  <2>1. calls' = {IF c.reg = r THEN [c EXCEPT !.live = FALSE] ELSE c : c \in calls}
    BY DEF TimeoutUpdate
  <2>2. ASSUME NEW b \in calls'
        PROVE  \E c \in calls : b.reg = c.reg /\ b.delta = c.delta /\ b.stage \in {"sent", c.stage}
    <3>1. PICK c \in calls : b = IF c.reg = r THEN [c EXCEPT !.live = FALSE] ELSE c
      BY <2>1, <2>2
    <3>2. c \in Calls
      BY Same
    <3>3. b.reg = c.reg /\ b.delta = c.delta /\ b.stage = c.stage
      BY <3>1, <3>2 DEF Calls
    <3> QED
      BY <3>3
  <2> QED
    BY <2>2 DEF OldCalls
<1>3. /\ sub' = sub /\ epoch' = epoch /\ nextReg' = nextReg /\ Later(topic, topic')
      /\ RegsStay /\ \A i \in RegIds : regs'[i].last = regs[i].last
  BY StillThere DEF TimeoutUpdate
<1>4. regs'[r].last > 0 => Acknowledged(r)
  BY <1>3 DEF Acknowledged
<1> QED
  BY <1>1, <1>2, <1>3, <1>4, ChainCopyStep

LEMMA RepeatUpdateCopy == ASSUME IInv, CopyInv, NEW c \in calls, RepeatUpdate(c) PROVE CopyInv'
<1>1. PICK a, b : a = [c EXCEPT !.live = FALSE] /\ b = [c EXCEPT !.stage = "sent"]
  OBVIOUS
<1>2. c \in Calls
  BY Same
<1>3. /\ a.reg = c.reg /\ a.delta = c.delta /\ a.stage = c.stage
      /\ b.reg = c.reg /\ b.delta = c.delta /\ b.stage = "sent"
  BY <1>1, <1>2 DEF Calls
<1>4. calls' = (calls \ {c}) \cup {a, b}
  BY <1>1 DEF RepeatUpdate
<1>5. OldCalls
  BY <1>3, <1>4 DEF OldCalls
<1>6. /\ upd' = upd /\ epoch' = epoch /\ nextReg' = nextReg /\ Later(topic, topic')
      /\ RegsStay /\ \A i \in RegIds : regs'[i].last = regs[i].last
      /\ \A s \in Subs : SameCopy(sub[s], sub'[s])
  BY StillThere DEF RepeatUpdate
<1> QED
  BY <1>5, <1>6, QuietCopyStep

\* The process changes in what CopyInv does not mention.
LEMMA SetLocalBackendCopy == ASSUME IInv, CopyInv, NEW s \in Subs, SetLocalBackend(s) PROVE CopyInv'
<1>1. PICK v : sub' = [sub EXCEPT ![s].local = v]
  BY DEF SetLocalBackend
<1>2. \A z \in Subs : SameCopy(sub[z], sub'[z])
  BY <1>1, Same DEF SameCopy, Processes
<1>3. /\ upd' = upd /\ epoch' = epoch /\ nextReg' = nextReg /\ Later(topic, topic') /\ OldCalls
      /\ RegsStay /\ \A i \in RegIds : regs'[i].last = regs[i].last
  BY StillThere DEF SetLocalBackend
<1> QED
  BY <1>2, <1>3, QuietCopyStep

LEMMA AbandonRegisterCopy == ASSUME IInv, CopyInv, NEW s \in Subs, AbandonRegister(s) PROVE CopyInv'
<1>1. /\ upd' = upd /\ epoch' = epoch /\ nextReg' = nextReg /\ Later(topic, topic') /\ OldCalls
      /\ RegsStay /\ \A i \in RegIds : regs'[i].last = regs[i].last
      /\ \A z \in Subs : SameCopy(sub[z], sub'[z])
  BY StillThere DEF AbandonRegister
<1> QED
  BY <1>1, QuietCopyStep

LEMMA CrashCopy == ASSUME IInv, CopyInv, NEW s \in Subs, Crash(s) PROVE CopyInv'
<1>1. /\ sub' = [sub EXCEPT ![s].up = FALSE]
      /\ calls' = {c \in calls : regs[c.reg].sub # s}
      /\ upd' = [r \in RegIds |-> IF regs[r].sub = s /\ upd[r].pc = "calling"
                                    THEN Chain("done") ELSE upd[r]]
      /\ UNCHANGED <<epoch, topic, subscribers, regs, nextReg, missed, hb, late>>
  BY DEF Crash
<1>2. \A z \in Subs : SameCopy(sub[z], sub'[z])
  BY <1>1, Same DEF SameCopy, Processes
<1>3. OldCalls
  BY <1>1, SameCalls2
<1>4. Later(topic, topic') /\ RegsStay
  BY <1>1, StillThere
<1>5. \A i \in RegIds : upd'[i] = upd[i] \/ upd'[i].pc = "done"
  BY <1>1, FreshChain
<1>6. NewlyAcknowledged({})
  <2>1. \A i \in RegIds : regs'[i].last > 0 \/ upd'[i].pc \in {"replied", "acked"} => Acknowledged(i)
    BY <1>1, <1>5 DEF Acknowledged
  <2> QED
    BY <1>3, <2>1, AckStays
<1>7. CopyQuiet
  BY <1>1, <1>2, <1>3, <1>4, <1>6, RegsStayKeep DEF CopyQuiet
<1> QED
  BY <1>7, CopyQuietKeeps

\* The request goes out.
LEMMA SendTopicUpdateCopy == ASSUME IInv, CopyInv, NEW r \in RegIds, SendTopicUpdate(r) PROVE CopyInv'
<1>1. upd \in [RegIds -> Chains] /\ regs \in [RegIds -> Registrations] /\ topic \in Topics /\ Sound(topic)
  BY Same
<1>2. PICK d : d = BuildDelta(topic, regs[r].last)
  OBVIOUS
<1>3. regs[r].last \in Nat
  BY <1>1 DEF Registrations
<1>4. d \in Deltas /\ (d.is_delta <=> regs[r].last > 0) /\ TrueDelta(topic, d)
  BY <1>1, <1>2, <1>3, BuildDeltaType, BuildDeltaTrue
<1>5. /\ sub' = sub /\ epoch' = epoch /\ nextReg' = nextReg /\ Later(topic, topic') /\ regs' = regs
      /\ RegsStay /\ \A i \in RegIds : regs'[i].last = regs[i].last /\ topic' = topic
  BY StillThere DEF SendTopicUpdate
<1>6. CASE ~sub[regs[r].sub].up
  <2>1. PICK x : x = [upd[r] EXCEPT !.pc = "done"]
    OBVIOUS
  <2>2. upd' = [upd EXCEPT ![r] = x] /\ x.pc = "done"
    BY <1>1, <1>6, <2>1 DEF SendTopicUpdate, Chains
  <2>3. OldCalls
    BY <1>6, StillThere DEF SendTopicUpdate
  <2>4. regs'[r].last > 0 => Acknowledged(r)
    BY <1>5 DEF Acknowledged
  <2> QED
    BY <1>5, <2>2, <2>3, <2>4, ChainCopyStep
<1>7. CASE sub[regs[r].sub].up
  <2>1. PICK x : x = [upd[r] EXCEPT !.pc = "calling", !.to = d.to]
    OBVIOUS
  <2>2. upd' = [upd EXCEPT ![r] = x] /\ x.pc = "calling"
    BY <1>1, <1>2, <1>7, <2>1 DEF SendTopicUpdate, Chains
  <2>3. upd'[r] = x /\ \A i \in RegIds \ {r} : upd'[i] = upd[i]
    BY <1>1, <2>2
  <2>4. PICK c : c = [reg |-> r, delta |-> d, stage |-> "sent", live |-> TRUE]
    OBVIOUS
  <2>5. calls' = calls \cup {c} /\ c.reg = r /\ c.delta = d /\ c.stage = "sent"
    BY <1>2, <1>7, <2>4 DEF SendTopicUpdate
  <2>6. NewlyAcknowledged({})
    <3>1. ASSUME NEW i \in RegIds, Acknowledged(i)' PROVE Acknowledged(i)
      <4>1. CASE regs'[i].last > 0 \/ upd'[i].pc \in {"replied", "acked"}
        BY <1>5, <2>2, <2>3, <4>1 DEF Acknowledged
      <4>2. CASE \E b \in calls' : b.reg = i /\ b.delta.is_delta
        BY <1>4, <2>5, <4>2 DEF Acknowledged
      <4> QED
        BY <3>1, <4>1, <4>2 DEF Acknowledged
    <3> QED
      BY <3>1 DEF NewlyAcknowledged
  <2>7. RegsKeep /\ nextReg' \in Nat
    BY <1>5, RegsStayKeep
  <2>8. \A i \in RegIds : regs'[i].epoch <= epoch'
    BY <1>5 DEF CopyInv
  <2>9. ASSUME NEW s \in Subs PROVE ProcessCopy(s)'
    <3>1. SameCopy(sub[s], sub'[s])
      BY <1>5 DEF SameCopy
    <3>2. PICK M : M = {}
      OBVIOUS
    <3>3. NewlyAcknowledged(M) /\ sub[s].reg \notin M /\ sub[s].resp.reg \notin M
      BY <2>6, <3>2
    <3> QED
      BY <1>5, <2>7, <3>1, <3>3, ProcessCopyKept
  <2>10. ASSUME NEW b \in calls' PROVE CallCopy(b)'
    <3>1. CASE b \in calls
      <4>1. PICK s \in Subs : s = regs[b.reg].sub
        BY <3>1, CallFacts
      <4> QED
        BY <1>5, <2>7, <3>1, <4>1, CallCopyKept
    <3>2. CASE b = c
      BY <1>4, <1>5, <2>5, <3>2 DEF CallCopy
    <3> QED
      BY <2>5, <3>1, <3>2
  <2> QED
    BY <2>8, <2>9, <2>10 DEF CopyInv
<1> QED
  BY <1>6, <1>7

\* A handler that answers, and leaves its process as it is.
LEMMA ReplyCopy ==
    ASSUME IInv, CopyInv, NEW c \in calls, NEW x, Reply(c, x),
           x.pc \in {"replied", "acked"} => Acknowledged(c.reg),
           UNCHANGED <<epoch, topic, regs, nextReg, sub>>
    PROVE  CopyInv'
<1>1. c.reg \in RegIds
  BY CallFacts
<1>2. /\ Later(topic, topic') /\ RegsStay /\ \A i \in RegIds : regs'[i].last = regs[i].last
      /\ \A z \in Subs : SameCopy(sub[z], sub'[z])
  BY StillThere
<1>3. OldCalls
  BY SameCalls2 DEF Reply
<1>4. CASE c.live
  <2>1. upd' = [upd EXCEPT ![c.reg] = x]
    BY <1>4 DEF Reply
  <2>2. regs'[c.reg].last > 0 => Acknowledged(c.reg)
    BY <1>1, <1>2 DEF Acknowledged
  <2> QED
    BY <1>1, <1>2, <1>3, <2>1, <2>2, ChainCopyStep
<1>5. CASE ~c.live
  <2>1. upd' = upd
    BY <1>5 DEF Reply
  <2> QED
    BY <1>2, <1>3, <2>1, QuietCopyStep
<1> QED
  BY <1>4, <1>5

LEMMA SkippedCopy ==
    ASSUME IInv, CopyInv, NEW c \in calls, Reply(c, Skipped(c)),
           UNCHANGED <<epoch, topic, regs, nextReg, sub>>
    PROVE  CopyInv'
<1>1. Skipped(c).pc = "done"
  BY AnswerChains
<1> QED
  BY <1>1, ReplyCopy

\* The registration a process knows is its own.
LEMMA OwnRegistration ==
    ASSUME IInv, CopyInv, NEW z \in Subs, NEW i \in RegIds, sub[z].reg = i \/ sub[z].resp.reg = i
    PROVE  regs[i].sub = z
<1>1. i # 0
  BY Bounds DEF RegIds
<1> QED
  BY <1>1 DEF CopyInv, ProcessCopy

LEMMA CopyParts ==
    ASSUME RegsKeep, epoch' = epoch, \A s \in Subs : ProcessCopy(s)', \A b \in calls' : CallCopy(b)'
    PROVE  CopyInv'
BY DEF CopyInv, RegsKeep

\* An answer that acknowledges.
LEMMA RepliedAcknowledges ==
    ASSUME IInv, CopyInv, NEW c \in calls, NEW x, Reply(c, x), regs' = regs
    PROVE  NewlyAcknowledged({c.reg})
<1>1. OldCalls /\ c.reg \in RegIds
  BY SameCalls2, CallFacts DEF Reply
<1>2. \A i \in RegIds \ {c.reg} : upd'[i] = upd[i]
  BY <1>1, Same DEF Reply
<1>3. \A i \in RegIds \ {c.reg} :
        regs'[i].last > 0 \/ upd'[i].pc \in {"replied", "acked"} => Acknowledged(i)
  BY <1>2 DEF Acknowledged
<1>4. PICK r, M : r = c.reg /\ M = {r}
  OBVIOUS
<1>5. NewlyAcknowledged(M)
  BY <1>1, <1>3, <1>4, AckStays
<1> QED
  BY <1>4, <1>5 DEF NewlyAcknowledged

LEMMA ReceiveUpdateCopy == ASSUME IInv, CopyInv, NEW c \in calls, ReceiveUpdate(c) PROVE CopyInv'
<1>1. UNCHANGED <<epoch, topic, regs, nextReg, sub>> /\ c.stage = "sent"
  BY DEF ReceiveUpdate
<1>2. /\ c \in Calls /\ c.reg \in RegIds
  BY CallFacts
<1>3. PICK s \in Subs : s = regs[c.reg].sub
  BY CallFacts
<1>4. /\ Later(topic, topic') /\ RegsKeep /\ nextReg' \in Nat
      /\ \A z \in Subs : SameCopy(sub[z], sub'[z])
  BY <1>1, StillThere, RegsStayKeep
<1>5. CASE Reply(c, Skipped(c))
  BY <1>1, <1>5, SkippedCopy
<1>6. CASE ~CheckRegistrationId(c) /\ Reply(c, Processed(c, -1, <<>>, "none"))
  <2>1. sub[s].reg # 0 /\ sub[s].reg # c.reg
    BY <1>3, <1>6 DEF CheckRegistrationId, SubOf
  <2>2. sub[s].resp.reg = 0
    BY <2>1 DEF CopyInv, ProcessCopy
  <2>3. PICK r, M : r = c.reg /\ M = {r}
    OBVIOUS
  <2>4. r \in RegIds /\ r # 0
    BY <1>2, <2>3, Bounds DEF RegIds
  <2>5. NewlyAcknowledged(M)
    <3>1. NewlyAcknowledged({c.reg})
      BY <1>1, <1>6, RepliedAcknowledges
    <3> QED
      BY <2>3, <3>1 DEF NewlyAcknowledged
  <2>6. ASSUME NEW z \in Subs PROVE sub[z].reg \notin M /\ sub[z].resp.reg \notin M
    <3>1. CASE z = s
      BY <2>1, <2>2, <2>3, <2>4, <3>1
    <3>2. CASE z # s
      <4>1. sub[z].reg # r /\ sub[z].resp.reg # r
        BY <1>3, <2>3, <2>4, <3>2, OwnRegistration
      <4> QED
        BY <2>3, <4>1
    <3> QED
      BY <3>1, <3>2
  <2>7. \A z \in Subs : ProcessCopy(z)'
    BY <1>1, <1>4, <2>5, <2>6, ProcessCopyKept
  <2>8. ASSUME NEW b \in calls' PROVE CallCopy(b)'
    <3>1. b \in calls
      BY <1>6 DEF Reply
    <3>2. PICK z \in Subs : z = regs[b.reg].sub
      BY <3>1, CallFacts
    <3> QED
      BY <1>1, <1>4, <3>1, <3>2, CallCopyKept
  <2> QED
    BY <1>1, <1>4, <2>7, <2>8, CopyParts
<1>7. CASE /\ CheckRegistrationId(c) /\ upd' = upd
           /\ calls' = (calls \ {c}) \cup {[c EXCEPT !.stage = "checked"]}
  <2>1. PICK d : d = [c EXCEPT !.stage = "checked"]
    OBVIOUS
  <2>2. d.reg = c.reg /\ d.delta = c.delta /\ d.stage = "checked"
    BY <1>2, <2>1 DEF Calls
  <2>3. calls' = (calls \ {c}) \cup {d}
    BY <1>7, <2>1
  <2>4. NewlyAcknowledged({})
    <3>1. ASSUME NEW i \in RegIds, Acknowledged(i)' PROVE Acknowledged(i)
      BY <1>1, <1>7, <2>2, <2>3, <3>1 DEF Acknowledged
    <3> QED
      BY <3>1 DEF NewlyAcknowledged
  <2>5. ASSUME NEW z \in Subs PROVE ProcessCopy(z)'
    <3>1. PICK M : M = {}
      OBVIOUS
    <3>2. NewlyAcknowledged(M) /\ sub[z].reg \notin M /\ sub[z].resp.reg \notin M
      BY <2>4, <3>1
    <3> QED
      BY <1>1, <1>4, <3>2, ProcessCopyKept
  <2>6. ASSUME NEW b \in calls' PROVE CallCopy(b)'
    <3>1. CASE b \in calls
      <4>1. PICK z \in Subs : z = regs[b.reg].sub
        BY <3>1, CallFacts
      <4> QED
        BY <1>1, <1>4, <3>1, <4>1, CallCopyKept
    <3>2. CASE b = d
      <4>1. sub[s].reg \in {0, c.reg}
        BY <1>3, <1>7 DEF CheckRegistrationId, SubOf
      <4>2. sub[s].mode = "running" => c.reg = sub[s].reg
        BY <4>1 DEF CopyInv, ProcessCopy
      <4>3. regs[c.reg].epoch = epoch => TrueDelta(topic, c.delta)
        BY DEF CopyInv, CallCopy
      <4> QED
        BY <1>1, <1>3, <2>2, <3>2, <4>2, <4>3 DEF CallCopy, SubOf
    <3> QED
      BY <2>3, <3>1, <3>2
  <2> QED
    BY <1>1, <1>4, <2>5, <2>6, CopyParts
<1> QED
  BY <1>5, <1>6, <1>7 DEF ReceiveUpdate

LEMMA SkipUpdateCopy == ASSUME IInv, CopyInv, NEW c \in calls, SkipUpdate(c) PROVE CopyInv'
BY SkippedCopy DEF SkipUpdate

\* The update is processed.
LEMMA ProcessUpdateCopy == ASSUME IInv, CopyInv, NEW c \in calls, ProcessUpdate(c) PROVE CopyInv'
<1>1. UNCHANGED <<epoch, topic, regs, nextReg>> /\ c.stage = "checked"
  BY DEF ProcessUpdate
<1>2. PICK d \in Deltas, r \in RegIds : d = c.delta /\ r = c.reg
  BY CallFacts
<1>3. PICK s \in Subs, e \in 0..MaxEpoch : s = regs[r].sub /\ e = regs[r].epoch
  BY <1>2, CallFacts DEF Registrations
<1>4. /\ sub[s].mode = "running" /\ sub[s] \in Processes /\ ProcessCopy(s) /\ CallCopy(c)
      /\ sub \in [Subs -> Processes] /\ topic \in Topics /\ Sound(topic)
  BY <1>2, <1>3, Same DEF ProcessUpdate, CopyInv
<1>5. r = sub[s].reg /\ r # 0 /\ sub[s].resp.reg = 0
  BY <1>1, <1>2, <1>3, <1>4 DEF CallCopy, ProcessCopy, SubOf
<1>6. d.is_delta => Acknowledged(r)
  BY <1>2, SMTT(40) DEF Acknowledged
<1>7. Acknowledged(r) => sub[s].source = e
  BY <1>3, <1>4, <1>5 DEF ProcessCopy
<1>8. CASE WrongBase(s, d)
  <2>1. Reply(c, Processed(c, sub[s].version, <<>>, "none")) /\ sub' = sub
    BY <1>2, <1>3, <1>8 DEF ProcessUpdate
  <2>2. Acknowledged(c.reg)
    BY <1>2, <1>6, <1>8 DEF WrongBase
  <2> QED
    BY <1>1, <2>1, <2>2, ReplyCopy
<1>9. CASE ~WrongBase(s, d)
  <2>1. PICK x : Reply(c, x) /\ sub' = [sub EXCEPT ![s] = AfterUpdate(s, d, e)]
    BY <1>2, <1>3, <1>9 DEF ProcessUpdate, AfterUpdate
  <2>2. PICK p : p = AfterUpdate(s, d, e)
    OBVIOUS
  <2>3. /\ p.mode = sub[s].mode /\ p.reg = sub[s].reg /\ p.resp = sub[s].resp
        /\ p.version = d.to /\ p.source = e /\ p.copy = ApplyDelta(sub[s].copy, d)
    BY <2>2, AfterUpdateType
  <2>4. sub'[s] = p /\ \A z \in Subs \ {s} : sub'[z] = sub[z]
    BY <1>4, <2>1, <2>2
  <2>5. /\ Later(topic, topic') /\ RegsKeep /\ nextReg' \in Nat
    BY <1>1, StillThere, RegsStayKeep
  <2>6. PICK M : M = {r}
    OBVIOUS
  <2>7. NewlyAcknowledged(M)
    <3>1. NewlyAcknowledged({c.reg})
      BY <1>1, <2>1, RepliedAcknowledges
    <3> QED
      BY <1>2, <2>6, <3>1 DEF NewlyAcknowledged
  <2>8. e = epoch => TrueCopy(topic, p.copy, p.version)
    <3> SUFFICES ASSUME e = epoch PROVE TrueCopy(topic, p.copy, p.version)
      OBVIOUS
    <3>1. TrueDelta(topic, d)
      BY <1>2, <1>3, <1>4 DEF CallCopy
    <3>2. ASSUME d.is_delta
          PROVE  TrueCopy(topic, sub[s].copy, sub[s].version) /\ d.from = sub[s].version /\ sub[s].version \in Nat
      <4>1. sub[s].source = epoch
        BY <1>6, <1>7, <3>2
      <4>2. epoch # 0
        BY DEF IInv, TypeOK
      <4>3. TrueCopy(topic, sub[s].copy, sub[s].version) /\ sub[s].version # -1
        BY <1>4, <4>1, <4>2 DEF ProcessCopy
      <4> QED
        BY <1>4, <1>9, <3>2, <4>3 DEF WrongBase, Processes
    <3>3. PICK v \in Nat : d.is_delta => v = sub[s].version
      BY <3>2
    <3>4. sub[s].copy \in [BackendIds -> Items]
      BY <1>4 DEF Processes
    <3>5. d.is_delta => TrueCopy(topic, sub[s].copy, v) /\ d.from = v
      BY <3>2, <3>3
    <3> QED
      BY <1>4, <2>3, <3>1, <3>4, <3>5, ApplyTrue
  <2>9. ProcessCopy(s)'
    <3>1. e <= epoch
      BY <1>3 DEF CopyInv
    <3>2. d.to # -1
      <4>1. d.to \in Nat
        BY DEF Deltas
      <4> QED
        BY <4>1
    <3>3. r < nextReg
      BY <1>4, <1>5 DEF ProcessCopy
    <3>4. {sub'[s].reg, sub'[s].resp.reg} \ {0} = {r}
      BY <1>5, <2>3, <2>4
    <3>5. \A i \in {sub'[s].reg, sub'[s].resp.reg} \ {0} :
             i < nextReg' /\ regs'[i].sub = s /\ sub'[s].source = regs'[i].epoch
      BY <1>1, <1>3, <2>3, <2>4, <3>3, <3>4
    <3>6. sub'[s].reg # 0 /\ sub'[s].resp.reg = 0
      BY <1>5, <2>3, <2>4
    <3>7. sub'[s].source <= epoch' /\ sub'[s].version # -1
      BY <1>1, <2>3, <2>4, <3>1, <3>2
    <3>8. sub'[s].source = epoch' => TrueCopy(topic', sub'[s].copy, sub'[s].version)
      BY <1>1, <2>3, <2>4, <2>8
    <3> QED
      BY <3>5, <3>6, <3>7, <3>8 DEF ProcessCopy
  <2>10. ASSUME NEW z \in Subs, z # s PROVE ProcessCopy(z)'
    <3>1. sub[z].reg # r /\ sub[z].resp.reg # r
      BY <1>3, <2>10, OwnRegistration
    <3>2. SameCopy(sub[z], sub'[z])
      BY <2>4, <2>10 DEF SameCopy
    <3>3. sub[z].reg \notin M /\ sub[z].resp.reg \notin M
      BY <2>6, <3>1
    <3> QED
      BY <1>1, <2>5, <2>7, <3>2, <3>3, ProcessCopyKept
  <2>11. ASSUME NEW b \in calls' PROVE CallCopy(b)'
    <3>1. b \in calls
      BY <2>1 DEF Reply
    <3>2. PICK z \in Subs : z = regs[b.reg].sub
      BY <3>1, CallFacts
    <3>3. sub'[z].mode = sub[z].mode /\ sub'[z].reg = sub[z].reg
      BY <2>3, <2>4
    <3> QED
      BY <1>1, <2>5, <3>1, <3>2, <3>3, CallCopyKept
  <2> QED
    BY <1>1, <2>5, <2>9, <2>10, <2>11, CopyParts
<1> QED
  BY <1>8, <1>9

\* A step of one process, which leaves statestored and calls alone.
LEMMA ProcessCopyStep ==
    ASSUME IInv, CopyInv, NEW s \in Subs, NEW p, sub' = [sub EXCEPT ![s] = p], ProcessCopy(s)',
           \A c \in calls : regs[c.reg].sub = s /\ c.stage = "checked" /\ p.mode = "running" =>
             sub[s].mode = "running" /\ p.reg = sub[s].reg,
           UNCHANGED <<epoch, topic, regs, nextReg, upd, calls>>
    PROVE  CopyInv'
<1>1. sub'[s] = p /\ \A z \in Subs \ {s} : sub'[z] = sub[z]
  BY Same
<1>2. /\ Later(topic, topic') /\ RegsKeep /\ nextReg' \in Nat /\ OldCalls
  BY StillThere, RegsStayKeep
<1>3. PICK M : M = {}
  OBVIOUS
<1>4. NewlyAcknowledged(M)
  BY DEF NewlyAcknowledged, Acknowledged
<1>5. ASSUME NEW z \in Subs, z # s PROVE ProcessCopy(z)'
  <2>1. SameCopy(sub[z], sub'[z]) /\ sub[z].reg \notin M /\ sub[z].resp.reg \notin M
    BY <1>1, <1>3, <1>5 DEF SameCopy
  <2> QED
    BY <1>2, <1>4, <2>1, ProcessCopyKept
<1>6. ASSUME NEW c \in calls' PROVE CallCopy(c)'
  <2>1. c \in calls
    OBVIOUS
  <2>2. PICK z \in Subs : z = regs[c.reg].sub
    BY <2>1, CallFacts
  <2>3. c.stage = "checked" /\ sub'[z].mode = "running" => sub[z].mode = "running" /\ sub'[z].reg = sub[z].reg
    BY <1>1, <2>1, <2>2
  <2> QED
    BY <1>2, <2>1, <2>2, <2>3, CallCopyKept
<1> QED
  BY <1>2, <1>5, <1>6, CopyParts

\* What the process gets of a registration: it keeps its copy.
LEMMA KeepsCopy ==
    ASSUME IInv, CopyInv, NEW s \in Subs, NEW p, sub'[s] = p,
           p.source = sub[s].source, p.version = sub[s].version, p.copy = sub[s].copy,
           p.mode = "running" => p.reg # 0,
           p.reg # 0 => p.resp.reg = 0,
           \A i \in {p.reg, p.resp.reg} \ {0} : i \in {sub[s].reg, sub[s].resp.reg},
           UNCHANGED <<epoch, topic, regs, nextReg, upd, calls>>
    PROVE  ProcessCopy(s)'
<1>1. ProcessCopy(s)
  BY DEF CopyInv
<1>2. \A i \in RegIds : Acknowledged(i)' <=> Acknowledged(i)
  BY DEF Acknowledged
<1>3. ASSUME NEW i \in {p.reg, p.resp.reg} \ {0}
      PROVE  i < nextReg' /\ regs'[i].sub = s /\ (Acknowledged(i)' => p.source = regs'[i].epoch)
  <2>1. i \in {sub[s].reg, sub[s].resp.reg} \ {0}
    OBVIOUS
  <2>2. i \in RegIds
    BY <2>1, Same, Bounds DEF Processes, RegIds
  <2> QED
    BY <1>1, <1>2, <2>1, <2>2 DEF ProcessCopy
<1> QED
  BY <1>1, <1>3 DEF ProcessCopy

LEMMA RecoverCopy == ASSUME IInv, CopyInv, NEW s \in Subs, Recover(s) PROVE CopyInv'
<1>1. sub' = [sub EXCEPT ![s].mode = "registering", ![s].reg = 0] /\ sub[s].mode = "running"
      /\ UNCHANGED <<epoch, topic, regs, nextReg, upd, calls>>
  BY DEF Recover
<1>2. sub[s] \in Processes /\ sub \in [Subs -> Processes]
  BY Same
<1>3. PICK p : p = [sub[s] EXCEPT !.mode = "registering", !.reg = 0]
  OBVIOUS
<1>4. sub' = [sub EXCEPT ![s] = p] /\ sub'[s] = p
  BY <1>1, <1>2, <1>3 DEF Processes
<1>5. /\ p.mode = "registering" /\ p.reg = 0 /\ p.resp = sub[s].resp
      /\ p.source = sub[s].source /\ p.version = sub[s].version /\ p.copy = sub[s].copy
  BY <1>2, <1>3 DEF Processes
<1>6. ProcessCopy(s)'
  BY <1>1, <1>4, <1>5, KeepsCopy
<1>7. \A c \in calls : regs[c.reg].sub = s /\ c.stage = "checked" /\ p.mode = "running" =>
        sub[s].mode = "running" /\ p.reg = sub[s].reg
  BY <1>5
<1>8. sub' = [sub EXCEPT ![s] = p]
  BY <1>4
<1>9. UNCHANGED <<epoch, topic, regs, nextReg, upd, calls>>
  BY <1>1
<1> QED
  BY <1>6, <1>7, <1>8, <1>9, ProcessCopyStep

LEMMA FinishRegisterCopy ==
    ASSUME IInv, CopyInv, ~MayStall, NEW s \in Subs, FinishRegister(s) PROVE CopyInv'
<1>1. UNCHANGED <<epoch, topic, regs, nextReg, upd, calls>> /\ sub[s].resp.reg # 0 /\ Checked(s) = {}
  BY DEF FinishRegister
<1>2. sub[s] \in Processes /\ sub \in [Subs -> Processes]
  BY Same
<1>3. PICK m : m = IF sub[s].resp.ok THEN "running" ELSE "registering"
  OBVIOUS
<1>4. PICK g : g = (sub[s].registered \/ sub[s].resp.ok)
  OBVIOUS
<1>5. PICK x : x = [reg |-> 0, ok |-> TRUE]
  OBVIOUS
<1>6. PICK p : p = [sub[s] EXCEPT !.reg = sub[s].resp.reg, !.resp = x, !.mode = m, !.registered = g]
  OBVIOUS
<1>7. sub' = [sub EXCEPT ![s] = p] /\ sub'[s] = p
  <2>1. sub' = [sub EXCEPT ![s].reg = sub[s].resp.reg, ![s].resp = x, ![s].mode = m, ![s].registered = g]
    BY <1>3, <1>4, <1>5 DEF FinishRegister
  <2> QED
    BY <2>1, <1>2, <1>6 DEF Processes
<1>8. /\ p.reg = sub[s].resp.reg /\ p.resp.reg = 0
      /\ p.source = sub[s].source /\ p.version = sub[s].version /\ p.copy = sub[s].copy
  BY <1>2, <1>5, <1>6 DEF Processes
<1>9. ProcessCopy(s)'
  BY <1>1, <1>7, <1>8, KeepsCopy
<1>10. \A c \in calls : ~(regs[c.reg].sub = s /\ c.stage = "checked")
  BY <1>1 DEF Checked
<1> QED
  BY <1>1, <1>7, <1>9, <1>10, ProcessCopyStep

LEMMA LoseRegisterReplyCopy == ASSUME IInv, CopyInv, NEW s \in Subs, LoseRegisterReply(s) PROVE CopyInv'
<1>1. sub' = [sub EXCEPT ![s].resp = [reg |-> 0, ok |-> TRUE]]
      /\ UNCHANGED <<epoch, topic, regs, nextReg, upd, calls>>
  BY DEF LoseRegisterReply
<1>2. sub[s] \in Processes /\ sub \in [Subs -> Processes]
  BY Same
<1>3. PICK x : x = [reg |-> 0, ok |-> TRUE]
  OBVIOUS
<1>4. PICK p : p = [sub[s] EXCEPT !.resp = x]
  OBVIOUS
<1>5. sub' = [sub EXCEPT ![s] = p] /\ sub'[s] = p
  BY <1>1, <1>2, <1>3, <1>4 DEF Processes
<1>6. /\ p.reg = sub[s].reg /\ p.resp.reg = 0 /\ p.mode = sub[s].mode
      /\ p.source = sub[s].source /\ p.version = sub[s].version /\ p.copy = sub[s].copy
  BY <1>2, <1>3, <1>4 DEF Processes
<1>7. p.mode = "running" => p.reg # 0
  <2>1. ProcessCopy(s)
    BY DEF CopyInv
  <2>2. sub[s].mode = "running" => sub[s].reg # 0
    BY <2>1 DEF ProcessCopy
  <2> QED
    BY <1>6, <2>2
<1>8. ProcessCopy(s)'
  BY <1>1, <1>5, <1>6, <1>7, KeepsCopy
<1>9. \A c \in calls : regs[c.reg].sub = s /\ c.stage = "checked" /\ p.mode = "running" =>
        sub[s].mode = "running" /\ p.reg = sub[s].reg
  BY <1>6
<1>10. sub' = [sub EXCEPT ![s] = p]
  BY <1>5
<1>11. UNCHANGED <<epoch, topic, regs, nextReg, upd, calls>>
  BY <1>1
<1> QED
  BY <1>8, <1>9, <1>10, <1>11, ProcessCopyStep

LEMMA BootCopy == ASSUME IInv, CopyInv, NEW s \in Subs, Boot(s) PROVE CopyInv'
<1>1. sub[s].inc + 1 \in 1..MaxInc
  BY Same, Bounds DEF Boot, IInv, ProcInv, Processes
<1>2. PICK p : p = NewProcess(sub[s].inc + 1)
  OBVIOUS
<1>3. p.reg = 0 /\ p.resp = [reg |-> 0, ok |-> TRUE] /\ p.source = 0 /\ p.mode = "registering"
  BY <1>1, <1>2, NewProcessType
<1>4. sub' = [sub EXCEPT ![s] = p] /\ UNCHANGED <<epoch, topic, regs, nextReg, upd, calls>>
  BY <1>2 DEF Boot
<1>5. sub'[s] = p
  BY <1>4, Same
<1>6. p.resp.reg = 0
  BY <1>3
<1>7. epoch \in 1..MaxEpoch
  BY DEF IInv, TypeOK
<1>8. ProcessCopy(s)'
  BY <1>3, <1>4, <1>5, <1>6, <1>7 DEF ProcessCopy
<1> QED
  BY <1>3, <1>4, <1>8, ProcessCopyStep

\* What RegisterSubscriber() leaves of the registrations.
LEMMA RegisterKeeps ==
    ASSUME IInv, CopyInv, NEW s \in Subs, RegisterSubscriber(s), calls' = calls
    PROVE  /\ RegsKeep /\ NewlyAcknowledged({}) /\ epoch' = epoch /\ nextReg' \in Nat
           /\ nextReg \in RegIds /\ nextReg < nextReg' /\ regs'[nextReg].sub = s
           /\ Later(topic, topic')
           /\ ~(regs'[nextReg].last > 0) /\ upd'[nextReg].pc \notin {"replied", "acked"}
           /\ \A c \in calls : c.reg # nextReg
<1>1. PICK full \in LimitReached(UpdateQueue), fullHb \in LimitReached(hb), r \in RegIds, old \in 0..MaxRegs :
           /\ r = nextReg /\ old = subscribers[s] /\ r # old /\ upd[r].pc = "none"
           /\ nextReg' = r + 1
           /\ topic' \in IF old = 0 THEN {topic} ELSE WithoutTransient(topic, old)
           /\ regs'[r] = NewReg(s)
           /\ old # 0 => regs'[old] = [regs[old] EXCEPT !.unregistered = TRUE]
           /\ \A i \in RegIds \ {r, old} : regs'[i] = regs[i]
           /\ upd' = IF full THEN upd ELSE [upd EXCEPT ![r] = Chain("queued")]
           /\ epoch' = epoch
  BY RegisterFacts
<1>2. r \in Nat
  BY Bounds DEF RegIds
<1>3. /\ regs'[r].sub = s /\ regs'[r].epoch = epoch /\ regs'[r].last = 0
  BY <1>1, NewRegFacts
<1>4. ASSUME NEW i \in RegIds, i # r
      PROVE  /\ regs'[i].epoch = regs[i].epoch /\ regs'[i].sub = regs[i].sub /\ regs'[i].last = regs[i].last
             /\ upd'[i] = upd[i]
  <2>1. i # 0
    BY Bounds DEF RegIds
  <2>2. CASE i = old
    BY <1>1, <1>4, <2>1, <2>2, Same DEF Registrations
  <2>3. CASE i # old
    BY <1>1, <1>4, <2>3, Same
  <2> QED
    BY <2>2, <2>3
<1>5. upd'[r].pc \notin {"replied", "acked"}
  BY <1>1, Same, FreshChain
<1>6. \A c \in calls : c.reg # r
  BY <1>1, <1>2, CallFacts
<1>7. Later(topic, topic')
  BY <1>1, Same, SameTopic, WithoutTransientIsLater
<1>8. epoch <= epoch
  BY DEF IInv, TypeOK
<1>9. RegsKeep
  BY <1>1, <1>2, <1>3, <1>4, <1>8 DEF RegsKeep, CopyInv
<1>10. NewlyAcknowledged({})
  <2>1. ASSUME NEW i \in RegIds, i < nextReg, Acknowledged(i)' PROVE Acknowledged(i)
    BY <1>1, <1>2, <1>4, <2>1 DEF Acknowledged
  <2> QED
    BY <2>1 DEF NewlyAcknowledged
<1> QED
  BY <1>1, <1>2, <1>3, <1>5, <1>6, <1>7, <1>9, <1>10

LEMMA LateRegisterCopy == ASSUME IInv, CopyInv, NEW s \in Subs, LateRegister(s) PROVE CopyInv'
<1>1. RegisterSubscriber(s) /\ calls' = calls /\ sub' = sub
  BY DEF LateRegister
<1>2. RegsKeep /\ NewlyAcknowledged({}) /\ epoch' = epoch /\ nextReg' \in Nat /\ Later(topic, topic')
  BY <1>1, RegisterKeeps
<1>3. OldCalls /\ \A z \in Subs : SameCopy(sub[z], sub'[z])
  BY <1>1, StillThere
<1>4. CopyQuiet
  BY <1>2, <1>3 DEF CopyQuiet
<1> QED
  BY <1>4, CopyQuietKeeps

LEMMA RegisterCopy == ASSUME IInv, CopyInv, NEW s \in Subs, Register(s) PROVE CopyInv'
<1>1. RegisterSubscriber(s) /\ calls' = calls /\ sub[s].mode = "registering" /\ sub[s].resp.reg = 0
  BY DEF Register
<1>2. /\ RegsKeep /\ NewlyAcknowledged({}) /\ epoch' = epoch /\ nextReg' \in Nat
      /\ nextReg \in RegIds /\ nextReg < nextReg' /\ regs'[nextReg].sub = s
      /\ Later(topic, topic')
      /\ ~(regs'[nextReg].last > 0) /\ upd'[nextReg].pc \notin {"replied", "acked"}
      /\ \A c \in calls : c.reg # nextReg
  BY <1>1, RegisterKeeps
<1>3. PICK r \in RegIds : r = nextReg
  BY <1>2
<1>4. PICK x, b : x = [reg |-> r, ok |-> b] /\ b = (subscribers'[s] = nextReg)
  OBVIOUS
<1>5. PICK p : p = [sub[s] EXCEPT !.reg = 0, !.resp = x]
  OBVIOUS
<1>6. sub[s] \in Processes /\ sub \in [Subs -> Processes]
  BY Same
<1>7. sub' = [sub EXCEPT ![s] = p]
  <2>1. sub' = [sub EXCEPT ![s].reg = 0, ![s].resp = x]
    BY <1>3, <1>4 DEF Register
  <2> QED
    BY <2>1, <1>5, <1>6 DEF Processes
<1>8. sub'[s] = p /\ \A z \in Subs \ {s} : sub'[z] = sub[z]
  BY <1>6, <1>7
<1>9. /\ p.reg = 0 /\ p.resp = x /\ x.reg = r /\ p.mode = "registering"
      /\ p.source = sub[s].source /\ p.version = sub[s].version /\ p.copy = sub[s].copy
  BY <1>1, <1>4, <1>5, <1>6 DEF Processes
<1>10. ~Acknowledged(r)'
  BY <1>1, <1>2, <1>3 DEF Acknowledged
<1>11. ProcessCopy(s)'
  <2>1. ProcessCopy(s) /\ topic \in Topics /\ Sound(topic)
    BY Same DEF CopyInv
  <2>2. {sub'[s].reg, sub'[s].resp.reg} \ {0} = {r}
    BY <1>3, <1>8, <1>9, Bounds DEF RegIds
  <2>3. \A i \in {sub'[s].reg, sub'[s].resp.reg} \ {0} :
           i < nextReg' /\ regs'[i].sub = s /\ ~Acknowledged(i)'
    BY <1>2, <1>3, <1>10, <2>2
  <2>4. sub'[s].source = epoch' => TrueCopy(topic', sub'[s].copy, sub'[s].version)
    <3>1. sub[s].source = epoch => TrueCopy(topic, sub[s].copy, sub[s].version)
      BY <2>1 DEF ProcessCopy
    <3>2. sub[s].version \in Nat \cup {-1}
      BY <1>6 DEF Processes
    <3> QED
      BY <1>2, <1>8, <1>9, <2>1, <3>1, <3>2, LaterCopy
  <2>5. /\ sub'[s].source <= epoch' /\ (sub'[s].source # 0 => sub'[s].version # -1)
        /\ sub'[s].mode = "registering" /\ sub'[s].reg = 0
    BY <1>2, <1>8, <1>9, <2>1 DEF ProcessCopy
  <2> QED
    BY <2>3, <2>4, <2>5 DEF ProcessCopy
<1>12. ASSUME NEW z \in Subs, z # s PROVE ProcessCopy(z)'
  <2>1. PICK M : M = {}
    OBVIOUS
  <2>2. /\ NewlyAcknowledged(M) /\ sub[z].reg \notin M /\ sub[z].resp.reg \notin M
        /\ SameCopy(sub[z], sub'[z])
    BY <1>2, <1>8, <1>12, <2>1 DEF SameCopy
  <2> QED
    BY <1>2, <2>2, ProcessCopyKept
<1>13. ASSUME NEW c \in calls' PROVE CallCopy(c)'
  <2>1. c \in calls
    BY <1>1
  <2>2. PICK z \in Subs : z = regs[c.reg].sub
    BY <2>1, CallFacts
  <2>3. sub'[z].mode = "running" => sub[z].mode = "running" /\ sub'[z].reg = sub[z].reg
    BY <1>8, <1>9
  <2> QED
    BY <1>2, <2>1, <2>2, <2>3, CallCopyKept
<1> QED
  BY <1>2, <1>11, <1>12, <1>13, CopyParts

\* Another statestored: what there is comes from an earlier one.
LEMMA RestartCopy == ASSUME IInv, CopyInv, RestartStatestore PROVE CopyInv'
<1>1. /\ epoch' = epoch + 1 /\ regs' = regs /\ nextReg' = nextReg
      /\ upd' = [r \in RegIds |-> Chain("none")]
      /\ calls' = {[c EXCEPT !.live = FALSE] : c \in calls}
      /\ sub' = [s \in Subs |-> [sub[s] EXCEPT !.resp = [reg |-> 0, ok |-> TRUE]]]
  BY DEF RestartStatestore
<1>2. epoch \in Nat /\ \A r \in RegIds : regs[r].epoch \in Nat /\ regs[r].epoch <= epoch
  BY Bounds, Same DEF IInv, TypeOK, CopyInv, Registrations
<1>3. \A r \in RegIds : regs'[r].epoch <= epoch' /\ regs'[r].epoch # epoch'
  BY <1>1, <1>2
<1>4. ASSUME NEW b \in calls'
      PROVE  \E c \in calls : b.reg = c.reg /\ b.delta = c.delta /\ b.stage = c.stage
  <2>1. PICK c \in calls : b = [c EXCEPT !.live = FALSE]
    BY <1>1, <1>4
  <2>2. c \in Calls
    BY Same
  <2>3. b.reg = c.reg /\ b.delta = c.delta /\ b.stage = c.stage
    BY <2>1, <2>2 DEF Calls
  <2> QED
    BY <2>3
<1>5. ASSUME NEW s \in Subs
      PROVE  /\ sub'[s].mode = sub[s].mode /\ sub'[s].reg = sub[s].reg /\ sub'[s].resp.reg = 0
             /\ sub'[s].source = sub[s].source /\ sub'[s].version = sub[s].version
  <2>1. PICK x : x = [reg |-> 0, ok |-> TRUE]
    OBVIOUS
  <2>2. sub'[s] = [sub[s] EXCEPT !.resp = x] /\ sub[s] \in Processes
    BY <1>1, <2>1, Same
  <2> QED
    BY <2>1, <2>2 DEF Processes
<1>6. ASSUME NEW i \in RegIds, Acknowledged(i)' PROVE Acknowledged(i)
  <2>1. upd'[i].pc = "none"
    BY <1>1, FreshChain
  <2> QED
    BY <1>1, <1>4, <1>6, <2>1 DEF Acknowledged
<1>7. ASSUME NEW s \in Subs PROVE ProcessCopy(s)'
  <2>1. ProcessCopy(s) /\ sub[s] \in Processes /\ sub[s].source \in 0..MaxEpoch
    BY Same DEF CopyInv, Processes
  <2>2. sub[s].source <= epoch' /\ sub[s].source # epoch'
    BY <1>1, <1>2, <2>1, Bounds DEF ProcessCopy
  <2>3. ASSUME NEW i \in {sub[s].reg} \ {0}
        PROVE  i < nextReg /\ regs[i].sub = s /\ (Acknowledged(i)' => sub[s].source = regs[i].epoch)
    <3>1. i \in RegIds
      BY <2>1, Bounds DEF Processes, RegIds
    <3> QED
      BY <1>6, <2>1, <3>1 DEF ProcessCopy
  <2>4. {sub'[s].reg, sub'[s].resp.reg} \ {0} = {sub[s].reg} \ {0}
    BY <1>5
  <2>5. \A i \in {sub'[s].reg, sub'[s].resp.reg} \ {0} :
           i < nextReg' /\ regs'[i].sub = s /\ (Acknowledged(i)' => sub'[s].source = regs'[i].epoch)
    BY <1>1, <1>5, <2>3, <2>4
  <2> QED
    BY <1>5, <2>1, <2>2, <2>5 DEF ProcessCopy
<1>8. ASSUME NEW b \in calls' PROVE CallCopy(b)'
  <2>1. PICK c \in calls : b.reg = c.reg /\ b.delta = c.delta /\ b.stage = c.stage
    BY <1>4
  <2>2. c.reg \in RegIds /\ regs[c.reg].sub \in Subs /\ CallCopy(c)
    BY CallFacts DEF CopyInv
  <2> QED
    BY <1>1, <1>3, <1>5, <2>1, <2>2 DEF CallCopy, SubOf
<1> QED
  BY <1>3, <1>7, <1>8 DEF CopyInv

LEMMA InitCopy == Init => CopyInv
<1> SUFFICES ASSUME Init PROVE CopyInv
  OBVIOUS
<1>1. NewProcess(1).reg = 0 /\ NewProcess(1).resp = [reg |-> 0, ok |-> TRUE]
      /\ NewProcess(1).source = 0 /\ NewProcess(1).mode = "registering"
  BY NewProcessType, Bounds
<1>2. \A s \in Subs : sub[s] = NewProcess(1)
  BY DEF Init
<1>3. \A s \in Subs : sub[s].resp.reg = 0
  BY <1>1, <1>2
<1>4. \A s \in Subs : ProcessCopy(s)
  BY <1>1, <1>2, <1>3 DEF Init, ProcessCopy
<1>5. \A r \in RegIds : regs[r].epoch <= epoch
  BY DEF Init, NoReg
<1> QED
  BY <1>4, <1>5 DEF Init, CopyInv

LEMMA NextCopy == ASSUME ~MayStall, IInv, CopyInv, [Next]_vars PROVE CopyInv'
<1>1. CASE vars' = vars
  BY <1>1, StillThere, QuietCopyStep DEF vars
<1>2. CASE Next
  <2>1. ASSUME NEW r \in RegIds,
               TakeUpdate(r) \/ SendTopicUpdate(r) \/ AckUpdate(r) \/ ApplyReturned(r)
                 \/ AddTransientEntries(r) \/ CleanUp(r) \/ FinishUpdate(r)
                 \/ DropHeartbeat(r) \/ HeartbeatOk(r) \/ HeartbeatFailed(r) \/ TimeoutUpdate(r)
        PROVE  CopyInv'
    BY <2>1, TakeUpdateCopy, SendTopicUpdateCopy, AckUpdateCopy, ApplyReturnedCopy,
       AddTransientEntriesCopy, CleanUpCopy, FinishUpdateCopy, HeartbeatCopy, TimeoutUpdateCopy
  <2>2. ASSUME NEW c \in calls,
               ReceiveUpdate(c) \/ SkipUpdate(c) \/ ProcessUpdate(c) \/ RepeatUpdate(c)
        PROVE  CopyInv'
    BY <2>2, ReceiveUpdateCopy, SkipUpdateCopy, ProcessUpdateCopy, RepeatUpdateCopy
  <2>3. ASSUME NEW s \in Subs, EnterRecovery(s) \/ NeedlessRecovery(s)
        PROVE  CopyInv'
    BY <2>3, RecoverCopy DEF EnterRecovery, NeedlessRecovery
  <2>4. ASSUME NEW s \in Subs,
               Register(s) \/ FinishRegister(s) \/ Boot(s) \/ LateRegister(s)
                 \/ LoseRegisterReply(s) \/ AbandonRegister(s) \/ SetLocalBackend(s) \/ Crash(s)
        PROVE  CopyInv'
    BY <2>4, RegisterCopy, FinishRegisterCopy, BootCopy, LateRegisterCopy,
       LoseRegisterReplyCopy, AbandonRegisterCopy, SetLocalBackendCopy, CrashCopy
  <2>5. ASSUME RestartStatestore PROVE CopyInv'
    BY <2>5, RestartCopy
  <2> QED
    BY <1>2, <2>1, <2>2, <2>3, <2>4, <2>5, Zenon
       DEF Next, UpdateStep, HeartbeatStep, HandlerStep, ProcessStep, Environment
<1> QED
  BY <1>1, <1>2

\* CopyIsTopicAtVersion, as long as no handler stalls between its registration check and
\* its lock: across re-registrations, lost and repeated updates, crashed subscribers and
\* statestoreds that start from nothing, a copy is the topic up to its version.
THEOREM CopyIsTopicAtVersionHolds ==
    ASSUME ~MayStall
    PROVE  Spec => []CopyIsTopicAtVersion
<1>1. Init => IInv /\ CopyInv
  BY InitLayer, InitCopy
<1>2. IInv /\ CopyInv /\ [Next]_vars => (IInv /\ CopyInv)'
  BY NextLayer, NextCopy
<1>3. CopyInv => CopyIsTopicAtVersion
  BY DEF CopyInv, ProcessCopy, TrueCopy, CopyIsTopicAtVersion
<1> QED
  BY <1>1, <1>2, <1>3, PTL DEF Spec

-----------------------------------------------------------------------------
(***************************************************************************)
(* What the statestored believes a subscriber has processed.               *)
(***************************************************************************)
\* What LastInv says of a process, but for the registration it may forget.
SameLast(p, q) ==
    /\ q.inc = p.inc /\ q.source = p.source /\ q.version = p.version /\ q.processed = p.processed
    /\ q.reg \in {0, p.reg, p.resp.reg} /\ q.resp.reg \in {0, p.reg, p.resp.reg}

RegsLast == \A i \in RegIds : regs'[i].sub = regs[i].sub /\ regs'[i].inc = regs[i].inc
                              /\ regs'[i].epoch = regs[i].epoch

LEMMA ProcessedNat ==
    ASSUME IInv, NEW r \in RegIds, regs[r].sub \in Subs
    PROVE  ProcessedOf(r) \in Nat /\ regs[r].last \in Nat
<1>1. sub[regs[r].sub].processed \in Nat /\ regs[r].last \in Nat
  BY Same DEF Processes, Registrations
<1> QED
  BY <1>1 DEF ProcessedOf

LEMMA ProcessedSame ==
    ASSUME RegsLast, \A s \in Subs : SameLast(sub[s], sub'[s]), NEW i \in RegIds, regs[i].sub \in Subs
    PROVE  ProcessedOf(i)' = ProcessedOf(i)
<1>1. PICK s \in Subs : s = regs[i].sub /\ s = regs'[i].sub
  BY DEF RegsLast
<1>2. sub'[s].source = sub[s].source /\ sub'[s].processed = sub[s].processed
  BY DEF SameLast
<1>3. regs'[i].epoch = regs[i].epoch
  BY DEF RegsLast
<1> QED
  BY <1>1, <1>2, <1>3 DEF ProcessedOf

\* A registration that the process knows, or will.
Judged(i) == Current(i) /\ sub[regs[i].sub].inc = regs[i].inc

\* The current registration of an id keeps what LastInv says of it.
LEMMA OwnLastKept ==
    ASSUME IInv, NEW s \in Subs, OwnLast(s), RegsLast, SameLast(sub[s], sub'[s]),
           subscribers'[s] \in {0, subscribers[s]},
           \A i \in RegIds : Judged(i) /\ regs[i].sub = s /\ ChainLast(i) => ChainLast(i)'
    PROVE  OwnLast(s)'
<1> SUFFICES ASSUME Mine(s)'
             PROVE  /\ sub'[s].reg \in {0, subscribers'[s]} /\ sub'[s].resp.reg \in {0, subscribers'[s]}
                    /\ ChainLast(subscribers[s])' 
  BY DEF OwnLast, Mine
<1>1. subscribers'[s] = subscribers[s] /\ subscribers[s] # 0
  BY DEF Mine
<1>2. PICK r \in RegIds : r = subscribers[s] /\ Current(r) /\ regs[r].sub = s
  BY <1>1, CurrentFacts DEF Current
<1>3. Mine(s)
  BY <1>1, <1>2 DEF Mine, RegsLast, SameLast
<1>4. /\ sub[s].reg \in {0, r} /\ sub[s].resp.reg \in {0, r} /\ ChainLast(r)
  BY <1>2, <1>3 DEF OwnLast
<1>5. ChainLast(r)'
  BY <1>2, <1>3, <1>4 DEF Judged, Mine
<1>6. ChainLast(subscribers[s])'
  BY <1>1, <1>2, <1>5 DEF ChainLast, ProcessedOf
<1> QED
  BY <1>1, <1>2, <1>4, <1>6 DEF SameLast

\* A step in which no process processes anything and nobody registers.
LastQuiet ==
    /\ RegsLast /\ CallTo' /\ late' = {}
    /\ \A s \in Subs : SameLast(sub[s], sub'[s]) /\ subscribers'[s] \in {0, subscribers[s]}
    /\ \A i \in RegIds : Judged(i) /\ ChainLast(i) => ChainLast(i)'

LEMMA LastQuietKeeps == ASSUME IInv, LastInv, LastQuiet PROVE LastInv'
<1>1. ASSUME NEW i \in RegIds, regs'[i].sub \in Subs PROVE regs'[i].inc <= sub'[regs'[i].sub].inc
  <2>1. PICK s \in Subs : s = regs[i].sub /\ s = regs'[i].sub
    BY <1>1 DEF LastQuiet, RegsLast
  <2> QED
    BY <2>1 DEF LastQuiet, RegsLast, SameLast, LastInv
<1>2. ASSUME NEW s \in Subs PROVE sub'[s].version <= sub'[s].processed /\ OwnLast(s)'
  <2>1. sub'[s].version <= sub'[s].processed
    BY DEF LastInv, LastQuiet, SameLast
  <2>2. OwnLast(s)'
    BY OwnLastKept DEF LastInv, LastQuiet
  <2> QED
    BY <2>1, <2>2
<1> QED
  BY <1>1, <1>2 DEF LastInv, LastQuiet

\* A worker waits for the calls there were, and for an update of the version it has noted.
CallsLast(r, x) ==
    \A c \in calls' :
        /\ c.reg \in RegIds
        /\ c.live => \/ c.reg = r /\ x.to = c.delta.to
                     \/ c.reg # r /\ c \in calls

SubscribersLast == \A s \in Subs : subscribers'[s] \in {0, subscribers[s]}

OthersLast(r) == \A i \in RegIds \ {r} : regs'[i].last = regs[i].last

\* A step of the chain of r.
LEMMA ChainLastStep ==
    ASSUME IInv, LastInv, NEW r \in RegIds, NEW x, upd' = [upd EXCEPT ![r] = x], RegsLast,
           OthersLast(r), Judged(r) /\ ChainLast(r) => ChainLast(r)', CallsLast(r, x),
           SubscribersLast, sub' = sub, late' = late
    PROVE  LastInv'
<1> USE DEF OthersLast, SubscribersLast, CallsLast
<1>1. upd'[r] = x /\ \A i \in RegIds \ {r} : upd'[i] = upd[i]
  BY Same
<1>2. \A s \in Subs : SameLast(sub[s], sub'[s])
  BY DEF SameLast
<1>3. CallTo'
  BY <1>1 DEF CallTo, LastInv
<1>4. ASSUME NEW i \in RegIds, Judged(i), ChainLast(i) PROVE ChainLast(i)'
  <2>1. CASE i = r
    BY <1>4, <2>1
  <2>2. CASE i # r
    <3>1. ProcessedOf(i)' = ProcessedOf(i)
      BY <1>2, <1>4, ProcessedSame DEF Judged, Current
    <3> QED
      BY <1>1, <1>4, <2>2, <3>1 DEF ChainLast
  <2> QED
    BY <2>1, <2>2
<1>5. LastQuiet
  BY <1>2, <1>3, <1>4 DEF LastQuiet, LastInv
<1> QED
  BY <1>5, LastQuietKeeps

LiveCallsLast ==
    \A b \in calls' : b.live => \E c \in calls : c.live /\ c.reg = b.reg /\ c.delta = b.delta

\* A step that leaves the chains alone.
LEMMA QuietLastStep ==
    ASSUME IInv, LastInv, upd' = upd, RegsLast, \A i \in RegIds : regs'[i].last = regs[i].last,
           \A s \in Subs : SameLast(sub[s], sub'[s]), SubscribersLast, LiveCallsLast, late' = {}
    PROVE  LastInv'
<1> USE DEF SubscribersLast, LiveCallsLast
<1>1. CallTo'
  BY DEF CallTo, LastInv
<1>2. ASSUME NEW i \in RegIds, Judged(i), ChainLast(i) PROVE ChainLast(i)'
  <2>1. ProcessedOf(i)' = ProcessedOf(i)
    BY <1>2, ProcessedSame DEF Judged, Current
  <2> QED
    BY <1>2, <2>1 DEF ChainLast
<1>3. LastQuiet
  BY <1>1, <1>2 DEF LastQuiet
<1> QED
  BY <1>3, LastQuietKeeps


\* No handler answers a worker that is not waiting.
LEMMA NobodyCalls ==
    ASSUME IInv, NEW r \in RegIds, upd[r].pc # "calling", calls' = calls
    PROVE  \A x : CallsLast(r, x)
BY CallFacts DEF IInv, RegInv, CallsLast

LEMMA ProcessesStay ==
    ASSUME sub' = sub, RegsLast, NEW i \in RegIds, regs[i].sub \in Subs
    PROVE  ProcessedOf(i)' = ProcessedOf(i)
<1>1. \A s \in Subs : SameLast(sub[s], sub'[s])
  BY DEF SameLast
<1> QED
  BY <1>1, ProcessedSame

\* A worker that has no answer left to apply.
LEMMA SettledChain ==
    ASSUME IInv, NEW r \in RegIds, Judged(r), ChainLast(r), sub' = sub, RegsLast,
           ~(upd[r].pc = "acked" /\ upd[r].from # -1), upd'[r].pc \notin {"replied", "acked"},
           regs'[r].last \in {0, regs[r].last}
    PROVE  ChainLast(r)'
<1>1. ProcessedOf(r)' = ProcessedOf(r)
  BY ProcessesStay DEF Judged, Current
<1>2. ProcessedOf(r) \in Nat
  BY ProcessedNat DEF Judged, Current
<1>3. regs[r].last <= ProcessedOf(r)
  BY DEF ChainLast
<1>4. regs'[r].last <= ProcessedOf(r)
  BY <1>2, <1>3
<1> QED
  BY <1>1, <1>4 DEF ChainLast

LEMMA SameRegs ==
    ASSUME IInv
    PROVE  /\ regs' = regs => RegsLast /\ \A i \in RegIds : regs'[i].last = regs[i].last /\ OthersLast(i)
           /\ sub' = sub => \A s \in Subs : SameLast(sub[s], sub'[s])
           /\ subscribers' = subscribers => SubscribersLast
BY DEF RegsLast, SameLast, OthersLast, SubscribersLast

LEMMA ReleasedLast ==
    ASSUME IInv, NEW r \in RegIds, regs' = Released(r)
    PROVE  RegsLast /\ regs'[r].last = 0 /\ OthersLast(r)
BY Same DEF Released, Registrations, RegsLast, OthersLast

LEMMA TakeUpdateLast == ASSUME IInv, LastInv, NEW r \in RegIds, TakeUpdate(r) PROVE LastInv'
<1>1. upd \in [RegIds -> Chains] /\ regs \in [RegIds -> Registrations]
  BY Same
<1>2. PICK pc \in {"found", "none"} : upd' = [upd EXCEPT ![r].pc = pc]
  BY DEF TakeUpdate
<1>3. PICK x : x = [upd[r] EXCEPT !.pc = pc]
  OBVIOUS
<1>4. upd' = [upd EXCEPT ![r] = x] /\ x.pc = pc /\ upd'[r] = x
  BY <1>1, <1>2, <1>3 DEF Chains
<1>5. upd[r].pc = "queued" /\ sub' = sub /\ late' = late /\ calls' = calls /\ subscribers' = subscribers
  BY DEF TakeUpdate
<1>6. RegsLast /\ regs'[r].last \in {0, regs[r].last} /\ OthersLast(r)
  <2>1. CASE regs' = regs
    BY <2>1, SameRegs
  <2>2. CASE regs' = Released(r)
    BY <2>2, ReleasedLast
  <2> QED
    BY <2>1, <2>2 DEF TakeUpdate
<1>7. Judged(r) /\ ChainLast(r) => ChainLast(r)'
  BY <1>4, <1>5, <1>6, SettledChain
<1>8. \A y : CallsLast(r, y)
  BY <1>5, NobodyCalls
<1> QED
  BY <1>4, <1>5, <1>6, <1>7, <1>8, SameRegs, ChainLastStep

LEMMA AckUpdateLast == ASSUME IInv, LastInv, NEW r \in RegIds, AckUpdate(r) PROVE LastInv'
<1>1. upd \in [RegIds -> Chains] /\ regs \in [RegIds -> Registrations]
  BY Same
<1>2. PICK pc \in {"acked", "done"} :
        upd' = [upd EXCEPT ![r].pc = pc] /\ (pc = "acked" <=> upd[r].from # -1 \/ upd[r].item # "none")
  BY DEF AckUpdate
<1>3. PICK x : x = [upd[r] EXCEPT !.pc = pc]
  OBVIOUS
<1>4. upd' = [upd EXCEPT ![r] = x] /\ x.pc = pc /\ upd'[r] = x /\ x.from = upd[r].from
  BY <1>1, <1>2, <1>3 DEF Chains
<1>5. upd[r].pc = "replied" /\ sub' = sub /\ late' = late /\ calls' = calls /\ subscribers' = subscribers
  BY DEF AckUpdate
<1>6. RegsLast /\ regs'[r].last = upd[r].to /\ OthersLast(r)
  BY <1>1 DEF AckUpdate, Registrations, RegsLast, OthersLast
<1>7. ASSUME Judged(r), ChainLast(r) PROVE ChainLast(r)'
  <2>1. ProcessedOf(r)' = ProcessedOf(r)
    BY <1>5, <1>6, <1>7, ProcessesStay DEF Judged, Current
  <2> QED
    BY <1>2, <1>4, <1>5, <1>6, <1>7, <2>1 DEF ChainLast
<1>8. \A y : CallsLast(r, y)
  BY <1>5, NobodyCalls
<1> QED
  BY <1>4, <1>5, <1>6, <1>7, <1>8, SameRegs, ChainLastStep

LEMMA ApplyReturnedLast == ASSUME IInv, LastInv, NEW r \in RegIds, ApplyReturned(r) PROVE LastInv'
<1>1. upd \in [RegIds -> Chains] /\ regs \in [RegIds -> Registrations]
  BY Same
<1>2. upd[r].pc = "acked" /\ sub' = sub /\ late' = late /\ calls' = calls /\ subscribers' = subscribers
  BY DEF ApplyReturned
<1>3. \A y : CallsLast(r, y)
  BY <1>2, NobodyCalls
<1>4. CASE upd[r].from # -1
  <2>1. PICK x : x = [upd[r] EXCEPT !.pc = "done"]
    OBVIOUS
  <2>2. upd' = [upd EXCEPT ![r] = x] /\ x.pc = "done" /\ upd'[r] = x
    BY <1>1, <1>4, <2>1 DEF ApplyReturned, Chains
  <2>3. RegsLast /\ regs'[r].last = upd[r].from /\ OthersLast(r)
    BY <1>1, <1>4 DEF ApplyReturned, Registrations, RegsLast, OthersLast
  <2>4. ASSUME Judged(r), ChainLast(r) PROVE ChainLast(r)'
    <3>1. ProcessedOf(r)' = ProcessedOf(r)
      BY <1>2, <2>3, <2>4, ProcessesStay DEF Judged, Current
    <3> QED
      BY <1>2, <1>4, <2>2, <2>3, <2>4, <3>1 DEF ChainLast
  <2> QED
    BY <1>2, <1>3, <2>2, <2>3, <2>4, SameRegs, ChainLastStep
<1>5. CASE upd[r].from = -1
  <2>1. PICK v : v = topic'.last
    OBVIOUS
  <2>2. PICK x : x = [upd[r] EXCEPT !.pc = "put", !.version = v]
    OBVIOUS
  <2>3. upd' = [upd EXCEPT ![r].pc = "put", ![r].version = v] /\ regs' = regs
    BY <1>5, <2>1 DEF ApplyReturned
  <2>4. upd' = [upd EXCEPT ![r] = x] /\ x.pc = "put" /\ upd'[r] = x
    BY <1>1, <2>2, <2>3 DEF Chains
  <2>5. RegsLast /\ OthersLast(r) /\ regs'[r].last = regs[r].last
    BY <2>3, SameRegs
  <2>6. Judged(r) /\ ChainLast(r) => ChainLast(r)'
    BY <1>2, <1>5, <2>4, <2>5, SettledChain
  <2> QED
    BY <1>2, <1>3, <2>4, <2>5, <2>6, SameRegs, ChainLastStep
<1> QED
  BY <1>4, <1>5

LEMMA AddTransientEntriesLast ==
    ASSUME IInv, LastInv, NEW r \in RegIds, AddTransientEntries(r) PROVE LastInv'
<1>1. upd \in [RegIds -> Chains] /\ regs \in [RegIds -> Registrations]
  BY Same
<1>2. PICK pc \in {"unwanted", "done"} : upd' = [upd EXCEPT ![r].pc = pc]
  BY DEF AddTransientEntries
<1>3. PICK x : x = [upd[r] EXCEPT !.pc = pc]
  OBVIOUS
<1>4. upd' = [upd EXCEPT ![r] = x] /\ x.pc = pc /\ upd'[r] = x
  BY <1>1, <1>2, <1>3 DEF Chains
<1>5. upd[r].pc = "put" /\ sub' = sub /\ late' = late /\ calls' = calls /\ subscribers' = subscribers
  BY DEF AddTransientEntries
<1>6. RegsLast /\ OthersLast(r) /\ regs'[r].last = regs[r].last
  <2>1. CASE regs' = regs
    BY <2>1, SameRegs
  <2>2. CASE regs' = [regs EXCEPT ![r].transient[upd[r].key] = upd[r].version]
    BY <1>1, <2>2 DEF Registrations, RegsLast, OthersLast
  <2> QED
    BY <2>1, <2>2 DEF AddTransientEntries
<1>7. Judged(r) /\ ChainLast(r) => ChainLast(r)'
  BY <1>4, <1>5, <1>6, SettledChain
<1>8. \A y : CallsLast(r, y)
  BY <1>5, NobodyCalls
<1> QED
  BY <1>4, <1>5, <1>6, <1>7, <1>8, SameRegs, ChainLastStep

LEMMA CleanUpLast == ASSUME IInv, LastInv, NEW r \in RegIds, CleanUp(r) PROVE LastInv'
<1>1. upd \in [RegIds -> Chains]
  BY Same
<1>2. PICK x : x = [upd[r] EXCEPT !.pc = "done"]
  OBVIOUS
<1>3. upd' = [upd EXCEPT ![r] = x] /\ x.pc = "done" /\ upd'[r] = x
  BY <1>1, <1>2 DEF CleanUp, Chains
<1>4. upd[r].pc = "unwanted" /\ sub' = sub /\ late' = late /\ calls' = calls /\ subscribers' = subscribers
  BY DEF CleanUp
<1>5. RegsLast /\ OthersLast(r) /\ regs'[r].last = regs[r].last
  BY SameRegs DEF CleanUp
<1>6. Judged(r) /\ ChainLast(r) => ChainLast(r)'
  BY <1>3, <1>4, <1>5, SettledChain
<1>7. \A y : CallsLast(r, y)
  BY <1>4, NobodyCalls
<1> QED
  BY <1>3, <1>4, <1>5, <1>6, <1>7, SameRegs, ChainLastStep

LEMMA FinishUpdateLast == ASSUME IInv, LastInv, NEW r \in RegIds, FinishUpdate(r) PROVE LastInv'
<1>1. PICK pc \in {"none", "queued"} : upd' = [upd EXCEPT ![r] = Chain(pc)]
  BY DEF FinishUpdate
<1>2. PICK x : x = Chain(pc)
  OBVIOUS
<1>3. upd' = [upd EXCEPT ![r] = x] /\ upd'[r] = x /\ x.pc = pc
  BY <1>1, <1>2, FreshChain, Same
<1>4. upd[r].pc = "done" /\ sub' = sub /\ late' = late /\ calls' = calls
  BY DEF FinishUpdate
<1>5. SubscribersLast
  <2>1. subscribers' = subscribers \/ subscribers' = [subscribers EXCEPT ![regs[r].sub] = 0]
    BY DEF FinishUpdate
  <2> QED
    BY <2>1, Same DEF SubscribersLast
<1>6. RegsLast /\ regs'[r].last \in {0, regs[r].last} /\ OthersLast(r)
  <2>1. CASE regs' = regs
    BY <2>1, SameRegs
  <2>2. CASE regs' = Released(r)
    BY <2>2, ReleasedLast
  <2> QED
    BY <2>1, <2>2 DEF FinishUpdate
<1>7. Judged(r) /\ ChainLast(r) => ChainLast(r)'
  BY <1>3, <1>4, <1>6, SettledChain
<1>8. \A y : CallsLast(r, y)
  BY <1>4, NobodyCalls
<1> QED
  BY <1>3, <1>4, <1>5, <1>6, <1>7, <1>8, ChainLastStep

LEMMA TimeoutUpdateLast == ASSUME IInv, LastInv, NEW r \in RegIds, TimeoutUpdate(r) PROVE LastInv'
<1>1. PICK x : x = Chain("done")
  OBVIOUS
<1>2. upd' = [upd EXCEPT ![r] = x] /\ upd'[r] = x /\ x.pc = "done"
  BY <1>1, FreshChain, Same DEF TimeoutUpdate
<1>3. upd[r].pc \in {"calling", "replied"} /\ sub' = sub /\ late' = late /\ subscribers' = subscribers
  BY DEF TimeoutUpdate
<1>4. RegsLast /\ OthersLast(r) /\ regs'[r].last = regs[r].last
  BY SameRegs DEF TimeoutUpdate
<1>5. Judged(r) /\ ChainLast(r) => ChainLast(r)'
  BY <1>2, <1>3, <1>4, SettledChain
<1>6. ASSUME NEW b \in calls' PROVE b.reg \in RegIds /\ (b.live => (b.reg # r /\ b \in calls))
  <2>1. PICK c \in calls : b = IF c.reg = r THEN [c EXCEPT !.live = FALSE] ELSE c
    BY <1>6 DEF TimeoutUpdate
  <2>2. c \in Calls
    BY Same
  <2>3. CASE c.reg = r
    BY <2>1, <2>2, <2>3 DEF Calls
  <2>4. CASE c.reg # r
    BY <2>1, <2>2, <2>4 DEF Calls
  <2> QED
    BY <2>3, <2>4
<1>7. CallsLast(r, x)
  BY <1>6 DEF CallsLast
<1> QED
  BY <1>2, <1>3, <1>4, <1>5, <1>7, SameRegs, ChainLastStep

LEMMA SendTopicUpdateLast == ASSUME IInv, LastInv, NEW r \in RegIds, SendTopicUpdate(r) PROVE LastInv'
<1>1. upd \in [RegIds -> Chains]
  BY Same
<1>2. PICK d : d = BuildDelta(topic, regs[r].last)
  OBVIOUS
<1>3. upd[r].pc = "found" /\ sub' = sub /\ late' = late /\ subscribers' = subscribers
  BY DEF SendTopicUpdate
<1>4. RegsLast /\ OthersLast(r) /\ regs'[r].last = regs[r].last
  BY SameRegs DEF SendTopicUpdate
<1>5. \A c \in calls : c.reg \in RegIds /\ (c.live => c.reg # r)
  BY <1>3, CallFacts DEF IInv, RegInv
<1>6. CASE ~sub[regs[r].sub].up
  <2>1. PICK x : x = [upd[r] EXCEPT !.pc = "done"]
    OBVIOUS
  <2>2. upd' = [upd EXCEPT ![r] = x] /\ x.pc = "done" /\ upd'[r] = x /\ calls' = calls
    BY <1>1, <1>6, <2>1 DEF SendTopicUpdate, Chains
  <2>3. Judged(r) /\ ChainLast(r) => ChainLast(r)'
    BY <1>3, <1>4, <2>2, SettledChain
  <2>4. CallsLast(r, x)
    BY <1>3, <2>2, NobodyCalls
  <2> QED
    BY <1>3, <1>4, <2>2, <2>3, <2>4, SameRegs, ChainLastStep
<1>7. CASE sub[regs[r].sub].up
  <2>1. PICK x : x = [upd[r] EXCEPT !.pc = "calling", !.to = d.to]
    OBVIOUS
  <2>2. upd' = [upd EXCEPT ![r] = x] /\ x.pc = "calling" /\ x.to = d.to /\ upd'[r] = x
    BY <1>1, <1>2, <1>7, <2>1 DEF SendTopicUpdate, Chains
  <2>3. PICK c : c = [reg |-> r, delta |-> d, stage |-> "sent", live |-> TRUE]
    OBVIOUS
  <2>4. calls' = calls \cup {c} /\ c.reg = r /\ c.delta = d
    BY <1>2, <1>7, <2>3 DEF SendTopicUpdate
  <2>5. Judged(r) /\ ChainLast(r) => ChainLast(r)'
    BY <1>3, <1>4, <2>2, SettledChain
  <2>6. CallsLast(r, x)
    BY <1>5, <2>2, <2>4 DEF CallsLast
  <2> QED
    BY <1>3, <1>4, <2>2, <2>5, <2>6, SameRegs, ChainLastStep
<1> QED
  BY <1>6, <1>7


LEMMA FewerLive == ASSUME calls' \subseteq calls PROVE LiveCallsLast
BY DEF LiveCallsLast

LEMMA HeartbeatLast ==
    ASSUME IInv, LastInv, NEW r \in RegIds, DropHeartbeat(r) \/ HeartbeatOk(r) \/ HeartbeatFailed(r)
    PROVE  LastInv'
<1>1. upd' = upd /\ calls' = calls /\ sub' = sub /\ late' = late
  BY DEF DropHeartbeat, HeartbeatOk, HeartbeatFailed
<1>2. regs' = regs \/ regs' = [regs EXCEPT ![r].unregistered = TRUE]
  BY DEF DropHeartbeat, HeartbeatOk, HeartbeatFailed
<1>3. RegsLast /\ \A i \in RegIds : regs'[i].last = regs[i].last
  <2>1. CASE regs' = regs
    BY <2>1, SameRegs
  <2>2. CASE regs' = [regs EXCEPT ![r].unregistered = TRUE]
    BY <2>2, Same DEF Registrations, RegsLast
  <2> QED
    BY <1>2, <2>1, <2>2
<1>4. SubscribersLast
  <2>1. subscribers' = subscribers \/ subscribers' = [subscribers EXCEPT ![regs[r].sub] = 0]
    BY DEF DropHeartbeat, HeartbeatOk, HeartbeatFailed
  <2> QED
    BY <2>1, Same DEF SubscribersLast
<1>5. late' = {} /\ LiveCallsLast /\ \A s \in Subs : SameLast(sub[s], sub'[s])
  BY <1>1, FewerLive, SameRegs DEF LastInv
<1> QED
  BY <1>1, <1>3, <1>4, <1>5, QuietLastStep

LEMMA RepeatUpdateLast == ASSUME IInv, LastInv, NEW c \in calls, RepeatUpdate(c) PROVE LastInv'
<1>1. PICK a, b : a = [c EXCEPT !.live = FALSE] /\ b = [c EXCEPT !.stage = "sent"]
  OBVIOUS
<1>2. c \in Calls /\ c.live
  BY Same DEF RepeatUpdate
<1>3. ~a.live /\ b.reg = c.reg /\ b.delta = c.delta
  BY <1>1, <1>2 DEF Calls
<1>4. calls' = (calls \ {c}) \cup {a, b}
  BY <1>1 DEF RepeatUpdate
<1>5. LiveCallsLast
  BY <1>2, <1>3, <1>4 DEF LiveCallsLast
<1>6. /\ upd' = upd /\ late' = {} /\ SubscribersLast
      /\ RegsLast /\ \A i \in RegIds : regs'[i].last = regs[i].last
      /\ \A s \in Subs : SameLast(sub[s], sub'[s])
  BY SameRegs DEF RepeatUpdate, LastInv
<1> QED
  BY <1>5, <1>6, QuietLastStep

\* A step of one process, which learns of no registration.
LEMMA ProcessLastStep ==
    ASSUME IInv, LastInv, NEW s \in Subs, NEW p, sub' = [sub EXCEPT ![s] = p], SameLast(sub[s], p),
           UNCHANGED <<regs, subscribers, upd, calls, late>>
    PROVE  LastInv'
<1>1. \A z \in Subs : SameLast(sub[z], sub'[z])
  BY Same DEF SameLast
<1>2. /\ late' = {} /\ SubscribersLast /\ LiveCallsLast
      /\ RegsLast /\ \A i \in RegIds : regs'[i].last = regs[i].last
  BY SameRegs, FewerLive DEF LastInv
<1> QED
  BY <1>1, <1>2, QuietLastStep

LEMMA SetLocalBackendLast == ASSUME IInv, LastInv, NEW s \in Subs, SetLocalBackend(s) PROVE LastInv'
<1>1. PICK v : sub' = [sub EXCEPT ![s].local = v]
  BY DEF SetLocalBackend
<1>2. PICK p : p = [sub[s] EXCEPT !.local = v]
  OBVIOUS
<1>3. sub' = [sub EXCEPT ![s] = p] /\ SameLast(sub[s], p)
  BY <1>1, <1>2, Same DEF SameLast, Processes
<1> QED
  BY <1>3, ProcessLastStep DEF SetLocalBackend

LEMMA RecoverLast == ASSUME IInv, LastInv, NEW s \in Subs, Recover(s) PROVE LastInv'
<1>1. sub[s] \in Processes /\ sub \in [Subs -> Processes]
  BY Same
<1>2. PICK p : p = [sub[s] EXCEPT !.mode = "registering", !.reg = 0]
  OBVIOUS
<1>3. sub' = [sub EXCEPT ![s] = p]
  BY <1>1, <1>2 DEF Recover, Processes
<1>4. SameLast(sub[s], p)
  BY <1>1, <1>2 DEF SameLast, Processes
<1> QED
  BY <1>3, <1>4, ProcessLastStep DEF Recover

LEMMA FinishRegisterLast == ASSUME IInv, LastInv, NEW s \in Subs, FinishRegister(s) PROVE LastInv'
<1>1. sub[s] \in Processes /\ sub \in [Subs -> Processes]
  BY Same
<1>2. PICK m : m = IF sub[s].resp.ok THEN "running" ELSE "registering"
  OBVIOUS
<1>3. PICK g : g = (sub[s].registered \/ sub[s].resp.ok)
  OBVIOUS
<1>4. PICK x : x = [reg |-> 0, ok |-> TRUE]
  OBVIOUS
<1>5. PICK p : p = [sub[s] EXCEPT !.reg = sub[s].resp.reg, !.resp = x, !.mode = m, !.registered = g]
  OBVIOUS
<1>6. sub' = [sub EXCEPT ![s] = p]
  <2>1. sub' = [sub EXCEPT ![s].reg = sub[s].resp.reg, ![s].resp = x, ![s].mode = m, ![s].registered = g]
    BY <1>2, <1>3, <1>4 DEF FinishRegister
  <2> QED
    BY <2>1, <1>1, <1>5 DEF Processes
<1>7. SameLast(sub[s], p)
  BY <1>1, <1>4, <1>5 DEF SameLast, Processes
<1> QED
  BY <1>6, <1>7, ProcessLastStep DEF FinishRegister

LEMMA LoseRegisterReplyLast == ASSUME IInv, LastInv, NEW s \in Subs, LoseRegisterReply(s) PROVE LastInv'
<1>1. sub[s] \in Processes /\ sub \in [Subs -> Processes]
  BY Same
<1>2. PICK x : x = [reg |-> 0, ok |-> TRUE]
  OBVIOUS
<1>3. PICK p : p = [sub[s] EXCEPT !.resp = x]
  OBVIOUS
<1>4. sub' = [sub EXCEPT ![s] = p]
  BY <1>1, <1>2, <1>3 DEF LoseRegisterReply, Processes
<1>5. SameLast(sub[s], p)
  BY <1>1, <1>2, <1>3 DEF SameLast, Processes
<1> QED
  BY <1>4, <1>5, ProcessLastStep DEF LoseRegisterReply

LEMMA CrashLast == ASSUME IInv, LastInv, NEW s \in Subs, Crash(s) PROVE LastInv'
<1>1. /\ sub' = [sub EXCEPT ![s].up = FALSE]
      /\ calls' = {c \in calls : regs[c.reg].sub # s}
      /\ upd' = [r \in RegIds |-> IF regs[r].sub = s /\ upd[r].pc = "calling"
                                    THEN Chain("done") ELSE upd[r]]
      /\ UNCHANGED <<subscribers, regs, late>>
  BY DEF Crash
<1>2. \A z \in Subs : SameLast(sub[z], sub'[z])
  BY <1>1, Same DEF SameLast, Processes
<1>3. SubscribersLast /\ RegsLast /\ late' = {}
  BY <1>1, SameRegs DEF LastInv
<1>4. \A i \in RegIds : upd'[i] = upd[i] \/ (upd[i].pc = "calling" /\ upd'[i].pc = "done")
  BY <1>1, FreshChain
<1>5. CallTo'
  <2>1. ASSUME NEW c \in calls', c.live PROVE upd'[c.reg].to = c.delta.to
    <3>1. c \in calls /\ regs[c.reg].sub # s /\ c.reg \in RegIds
      BY <1>1, <2>1, CallFacts
    <3>2. upd'[c.reg] = upd[c.reg]
      BY <1>1, <3>1
    <3> QED
      BY <2>1, <3>1, <3>2 DEF LastInv, CallTo
  <2> QED
    BY <2>1 DEF CallTo
<1>6. ASSUME NEW i \in RegIds, Judged(i), ChainLast(i) PROVE ChainLast(i)'
  <2>1. ProcessedOf(i)' = ProcessedOf(i)
    BY <1>2, <1>3, <1>6, ProcessedSame DEF Judged, Current
  <2> QED
    BY <1>1, <1>4, <1>6, <2>1 DEF ChainLast
<1>7. LastQuiet
  BY <1>2, <1>3, <1>5, <1>6 DEF LastQuiet, SubscribersLast
<1> QED
  BY <1>7, LastQuietKeeps

\* A handler that leaves its process as it is.
LEMMA ReplyLast ==
    ASSUME IInv, LastInv, NEW c \in calls, NEW x, Reply(c, x),
           c.live /\ Judged(c.reg) /\ ChainLast(c.reg) => ChainLast(c.reg)',
           UNCHANGED <<subscribers, regs, sub, late>>
    PROVE  LastInv'
<1>1. PICK r \in RegIds : r = c.reg
  BY CallFacts
<1>2. /\ SubscribersLast /\ RegsLast /\ OthersLast(r)
      /\ \A i \in RegIds : regs'[i].last = regs[i].last
      /\ \A s \in Subs : SameLast(sub[s], sub'[s])
  BY SameRegs
<1>3. calls' = calls \ {c}
  BY DEF Reply
<1>4. CASE c.live
  <2>1. upd' = [upd EXCEPT ![r] = x]
    BY <1>1, <1>4 DEF Reply
  <2>2. CallsLast(r, x)
    BY <1>1, <1>3, <1>4, CallFacts DEF CallsLast, IInv, RegInv
  <2> QED
    BY <1>1, <1>2, <1>4, <2>1, <2>2, ChainLastStep
<1>5. CASE ~c.live
  <2>1. upd' = upd /\ LiveCallsLast /\ late' = {}
    BY <1>3, <1>5, FewerLive DEF Reply, LastInv
  <2> QED
    BY <1>2, <2>1, QuietLastStep
<1> QED
  BY <1>4, <1>5

LEMMA SkippedLast ==
    ASSUME IInv, LastInv, NEW c \in calls, Reply(c, Skipped(c)),
           UNCHANGED <<subscribers, regs, sub, late>>
    PROVE  LastInv'
<1>1. PICK r \in RegIds : r = c.reg
  BY CallFacts
<1>2. PICK x : x = Skipped(c)
  OBVIOUS
<1>3. x.pc = "done"
  BY <1>2, AnswerChains
<1>4. ASSUME c.live, Judged(r), ChainLast(r) PROVE ChainLast(r)'
  <2>1. upd[r].pc = "calling"
    BY <1>1, <1>4 DEF IInv, RegInv
  <2>2. upd'[r] = x
    BY <1>1, <1>2, <1>4, Same DEF Reply
  <2>3. RegsLast /\ regs'[r].last \in {0, regs[r].last}
    BY SameRegs
  <2> QED
    BY <1>3, <1>4, <2>1, <2>2, <2>3, SettledChain
<1> QED
  BY <1>1, <1>2, <1>4, ReplyLast

LEMMA SkipUpdateLast == ASSUME IInv, LastInv, NEW c \in calls, SkipUpdate(c) PROVE LastInv'
BY SkippedLast DEF SkipUpdate


\* A failed registration check: then the registration is not the process's.
LEMMA ReceiveUpdateLast == ASSUME IInv, LastInv, NEW c \in calls, ReceiveUpdate(c) PROVE LastInv'
<1>1. UNCHANGED <<subscribers, regs, sub, late>>
  BY DEF ReceiveUpdate
<1>2. CASE Reply(c, Skipped(c))
  BY <1>1, <1>2, SkippedLast
<1>3. CASE ~CheckRegistrationId(c) /\ Reply(c, Processed(c, -1, <<>>, "none"))
  <2>1. PICK s \in Subs, r \in RegIds : r = c.reg /\ s = regs[r].sub
    BY CallFacts
  <2>2. ASSUME Judged(c.reg) PROVE FALSE
    <3>1. Mine(s) /\ subscribers[s] = r
      BY <2>1, <2>2, Bounds DEF Judged, Current, Mine, RegIds
    <3>2. sub[s].reg \in {0, r}
      BY <3>1 DEF LastInv, OwnLast
    <3> QED
      BY <1>3, <2>1, <3>2 DEF CheckRegistrationId, SubOf
  <2>3. PICK x : x = Processed(c, -1, <<>>, "none")
    OBVIOUS
  <2> QED
    BY <1>1, <1>3, <2>2, <2>3, ReplyLast
<1>4. CASE calls' = (calls \ {c}) \cup {[c EXCEPT !.stage = "checked"]} /\ upd' = upd
  <2>1. PICK b : b = [c EXCEPT !.stage = "checked"]
    OBVIOUS
  <2>2. b.reg = c.reg /\ b.delta = c.delta /\ b.live = c.live
    BY <2>1, CallFacts DEF Calls
  <2>3. calls' = (calls \ {c}) \cup {b}
    BY <1>4, <2>1
  <2>4. LiveCallsLast
    BY <2>2, <2>3 DEF LiveCallsLast
  <2>5. /\ late' = {} /\ SubscribersLast
        /\ RegsLast /\ \A i \in RegIds : regs'[i].last = regs[i].last
        /\ \A s \in Subs : SameLast(sub[s], sub'[s])
    BY <1>1, SameRegs DEF LastInv
  <2> QED
    BY <1>4, <2>4, <2>5, QuietLastStep
<1> QED
  BY <1>2, <1>3, <1>4 DEF ReceiveUpdate

\* What is processed answers the worker.
LEMMA AnswerParts ==
    ASSUME IInv, NEW c \in calls, NEW from, NEW key, NEW item, NEW x, x = Processed(c, from, key, item)
    PROVE  x.pc = "replied" /\ x.from = from /\ x.to = upd[c.reg].to
<1>1. upd[c.reg] \in Chains
  BY CallFacts, Same
<1> QED
  BY <1>1 DEF Processed, Chains

\* A process and its registration that stay as they are.
LEMMA OwnLastSame ==
    ASSUME IInv, LastInv, NEW z \in Subs, sub'[z] = sub[z], subscribers'[z] = subscribers[z],
           \A q \in RegIds : q = subscribers[z] =>
              /\ upd'[q] = upd[q] /\ regs'[q].sub = regs[q].sub /\ regs'[q].inc = regs[q].inc
              /\ regs'[q].epoch = regs[q].epoch /\ regs'[q].last = regs[q].last
    PROVE  sub'[z].version <= sub'[z].processed /\ OwnLast(z)'
<1>1. sub[z].version <= sub[z].processed /\ OwnLast(z)
  BY DEF LastInv
<1>2. CASE subscribers[z] = 0
  BY <1>1, <1>2 DEF OwnLast, Mine
<1>3. CASE subscribers[z] # 0
  <2>1. PICK q \in RegIds : q = subscribers[z] /\ regs[q].sub = z
    BY <1>3, CurrentFacts
  <2>2. /\ upd'[q] = upd[q] /\ regs'[q].sub = z /\ regs'[q].inc = regs[q].inc
        /\ regs'[q].epoch = regs[q].epoch /\ regs'[q].last = regs[q].last
    BY <2>1
  <2>3. ProcessedOf(q)' = ProcessedOf(q)
    BY <2>1, <2>2 DEF ProcessedOf
  <2>4. ASSUME Mine(z)' PROVE Mine(z)
    BY <2>1, <2>2, <2>4 DEF Mine
  <2>5. ChainLast(q) => ChainLast(q)'
    BY <2>2, <2>3 DEF ChainLast
  <2>6. ChainLast(q)' => ChainLast(subscribers[z])'
    BY <2>1 DEF ChainLast, ProcessedOf
  <2>7. OwnLast(z)'
    BY <1>1, <2>1, <2>4, <2>5, <2>6 DEF OwnLast
  <2> QED
    BY <1>1, <2>7
<1> QED
  BY <1>2, <1>3

LEMMA ProcessUpdateLast ==
    ASSUME IInv, CopyInv, LastInv, NEW c \in calls, ProcessUpdate(c) PROVE LastInv'
<1>1. UNCHANGED <<epoch, topic, subscribers, regs, nextReg, late>> /\ c.stage = "checked"
  BY DEF ProcessUpdate
<1>2. PICK d \in Deltas, r \in RegIds : d = c.delta /\ r = c.reg
  BY CallFacts
<1>3. PICK s \in Subs, e \in 0..MaxEpoch : s = regs[r].sub /\ e = regs[r].epoch
  BY <1>2, CallFacts DEF Registrations
<1>4. /\ sub[s].mode = "running" /\ sub[s] \in Processes /\ ProcessCopy(s) /\ CallCopy(c)
      /\ sub \in [Subs -> Processes] /\ upd \in [RegIds -> Chains]
  BY <1>2, <1>3, Same DEF ProcessUpdate, CopyInv
<1>5. r = sub[s].reg /\ r # 0
  BY <1>1, <1>2, <1>3, <1>4, SMTT(40) DEF CallCopy, ProcessCopy, SubOf
<1>6. d.is_delta => sub[s].source = e
  <2>1. d.is_delta => Acknowledged(r)
    BY <1>2 DEF Acknowledged
  <2> QED
    BY <1>3, <1>4, <1>5, <2>1 DEF ProcessCopy
<1>7. sub[s].version <= sub[s].processed /\ sub[s].processed \in Nat /\ sub[s].version \in Nat \cup {-1}
  BY <1>4 DEF LastInv, Processes
<1>8. c.live => upd[r].pc = "calling" /\ upd[r].to = d.to
  BY <1>2 DEF IInv, RegInv, LastInv, CallTo
<1>9. CASE WrongBase(s, d)
  <2>1. Reply(c, Processed(c, sub[s].version, <<>>, "none")) /\ sub' = sub
    BY <1>2, <1>3, <1>9 DEF ProcessUpdate
  <2>2. PICK x : x = Processed(c, sub[s].version, <<>>, "none")
    OBVIOUS
  <2>3. x.pc = "replied" /\ x.from = sub[s].version
    BY <2>2, AnswerParts
  <2>4. sub[s].source = e /\ sub[s].version # -1
    BY <1>6, <1>9 DEF WrongBase
  <2>5. ASSUME c.live, Judged(r), ChainLast(r) PROVE ChainLast(r)'
    <3>1. ProcessedOf(r)' = ProcessedOf(r) /\ ProcessedOf(r) = sub[s].processed
      BY <1>1, <1>3, <2>1, <2>4 DEF ProcessedOf
    <3>2. upd'[r] = x
      BY <1>2, <1>4, <2>1, <2>2, <2>5 DEF Reply
    <3>3. regs'[r].last <= ProcessedOf(r)
      BY <1>1, <1>8, <2>5 DEF ChainLast
    <3> QED
      BY <1>7, <2>3, <2>4, <3>1, <3>2, <3>3 DEF ChainLast
  <2> QED
    BY <1>1, <1>2, <2>1, <2>2, <2>5, ReplyLast
<1>10. CASE ~WrongBase(s, d)
  <2>1. PICK x, key, item : /\ Reply(c, x) /\ x = Processed(c, -1, key, item)
                            /\ sub' = [sub EXCEPT ![s] = AfterUpdate(s, d, e)]
    BY <1>2, <1>3, <1>10 DEF ProcessUpdate, AfterUpdate
  <2>2. PICK p : p = AfterUpdate(s, d, e)
    OBVIOUS
  <2>3. /\ p.reg = sub[s].reg /\ p.resp = sub[s].resp /\ p.inc = sub[s].inc
        /\ p.version = d.to /\ p.source = e /\ p \in Processes
        /\ p.processed >= d.to /\ (sub[s].source = e => p.processed >= sub[s].processed)
    BY <2>2, AfterUpdateType
  <2>4. sub'[s] = p /\ \A z \in Subs \ {s} : sub'[z] = sub[z]
    BY <1>4, <2>1, <2>2
  <2>5. x.pc = "replied" /\ x.from = -1 /\ x.to = upd[r].to
    BY <1>2, <2>1, AnswerParts
  <2>6. /\ \A i \in RegIds \ {r} : upd'[i] = upd[i]
        /\ IF c.live THEN upd'[r] = x ELSE upd'[r] = upd[r]
    BY <1>2, <1>4, <2>1 DEF Reply
  <2>7. CallTo'
    <3>1. ASSUME NEW b \in calls', b.live PROVE upd'[b.reg].to = b.delta.to
      <4>1. b \in calls /\ b # c /\ b.reg \in RegIds
        BY <2>1, <3>1, CallFacts DEF Reply
      <4>2. upd'[b.reg] = upd[b.reg]
        <5>1. CASE b.reg = r
          BY <1>2, <2>6, <3>1, <4>1, <5>1 DEF IInv, RegInv
        <5>2. CASE b.reg # r
          BY <2>6, <4>1, <5>2
        <5> QED
          BY <5>1, <5>2
      <4> QED
        BY <3>1, <4>1, <4>2 DEF LastInv, CallTo
    <3> QED
      BY <3>1 DEF CallTo
  <2>8. ASSUME NEW z \in Subs, z # s PROVE sub'[z].version <= sub'[z].processed /\ OwnLast(z)'
    <3>1. \A q \in RegIds : q = subscribers[z] => q # r
      BY <1>3, <2>8, CurrentFacts, Bounds DEF RegIds
    <3> QED
      BY <1>1, <2>4, <2>6, <2>8, <3>1, OwnLastSame
  <2>9. OwnLast(s)'
    <3> SUFFICES ASSUME Mine(s)' PROVE /\ p.reg \in {0, subscribers[s]} /\ p.resp.reg \in {0, subscribers[s]}
                                       /\ ChainLast(subscribers[s])'
      BY <1>1, <2>4 DEF OwnLast
    <3>1. Mine(s)
      BY <1>1, <2>3, <2>4 DEF Mine
    <3>2. /\ sub[s].reg \in {0, subscribers[s]} /\ sub[s].resp.reg \in {0, subscribers[s]}
          /\ ChainLast(subscribers[s])
      BY <3>1 DEF LastInv, OwnLast
    <3>3. subscribers[s] = r
      BY <1>5, <3>2
    <3>4. ChainLast(r)
      BY <3>2, <3>3
    <3>5. ProcessedOf(r)' = p.processed
      BY <1>1, <1>3, <2>3, <2>4 DEF ProcessedOf
    <3>6. PICK n \in Nat, m \in Nat, k \in Nat :
             n = ProcessedOf(r) /\ m = p.processed /\ k = regs[r].last
      BY <1>3, <2>3, ProcessedNat DEF Processes
    <3>7. n <= m
      <4>1. CASE sub[s].source = e
        BY <1>3, <1>7, <2>3, <3>6, <4>1 DEF ProcessedOf
      <4>2. CASE sub[s].source # e
        BY <1>3, <3>6, <4>2 DEF ProcessedOf
      <4> QED
        BY <4>1, <4>2
    <3>8. CASE c.live
      <4>1. k <= m
        BY <1>8, <3>4, <3>6, <3>7, <3>8 DEF ChainLast
      <4>2. regs'[r].last <= ProcessedOf(r)'
        BY <1>1, <3>5, <3>6, <4>1
      <4>3. upd'[r].to <= ProcessedOf(r)'
        BY <1>8, <2>3, <2>5, <2>6, <3>5, <3>8
      <4>4. ChainLast(r)'
        BY <2>5, <2>6, <3>8, <4>2, <4>3 DEF ChainLast
      <4> QED
        BY <1>1, <2>3, <3>2, <3>3, <4>4 DEF ChainLast, ProcessedOf
    <3>9. CASE ~c.live
      <4>1. upd'[r] = upd[r] /\ regs'[r] = regs[r] /\ upd[r] \in Chains
        BY <1>1, <1>4, <2>6, <3>9
      <4>2. upd[r].to \in Nat /\ upd[r].from \in Nat \cup {-1}
        BY <4>1 DEF Chains
      <4>3. /\ upd[r].to <= n => upd[r].to <= m
            /\ upd[r].from <= n => upd[r].from <= m
            /\ k <= n => k <= m
        BY <3>7, <4>2
      <4>4. ChainLast(r)'
        BY <3>4, <3>5, <3>6, <4>1, <4>3 DEF ChainLast
      <4> QED
        BY <1>1, <2>3, <3>2, <3>3, <4>4 DEF ChainLast, ProcessedOf
    <3> QED
      BY <3>8, <3>9
  <2>10. sub'[s].version <= sub'[s].processed
    <3>1. d.to \in Nat /\ p.processed \in Nat
      BY <2>3 DEF Deltas, Processes
    <3> QED
      BY <2>3, <2>4, <3>1
  <2>11. ASSUME NEW i \in RegIds, regs'[i].sub \in Subs PROVE regs'[i].inc <= sub'[regs'[i].sub].inc
    BY <1>1, <2>3, <2>4, <2>11 DEF LastInv
  <2> QED
    BY <1>1, <2>7, <2>8, <2>9, <2>10, <2>11 DEF LastInv
<1> QED
  BY <1>9, <1>10

LEMMA BootLast == ASSUME IInv, LastInv, NEW s \in Subs, Boot(s) PROVE LastInv'
<1>1. sub[s].inc \in Nat /\ sub[s].inc + 1 \in 1..MaxInc
  BY Same, Bounds DEF Boot, IInv, ProcInv, Processes
<1>2. PICK p : p = NewProcess(sub[s].inc + 1)
  OBVIOUS
<1>3. p.version = -1 /\ p.processed = 0 /\ p.inc = sub[s].inc + 1
  BY <1>1, <1>2, NewProcessType
<1>4. sub' = [sub EXCEPT ![s] = p] /\ UNCHANGED <<regs, subscribers, upd, calls, late>>
  BY <1>2 DEF Boot
<1>5. sub'[s] = p /\ \A z \in Subs \ {s} : sub'[z] = sub[z]
  BY <1>4, Same
<1>6. ASSUME NEW i \in RegIds, regs[i].sub = s PROVE regs[i].inc <= sub[s].inc /\ regs[i].inc \in Nat
  BY <1>6, Same, Bounds DEF LastInv, Registrations
<1>7. ASSUME NEW i \in RegIds, regs'[i].sub \in Subs PROVE regs'[i].inc <= sub'[regs'[i].sub].inc
  <2>1. CASE regs[i].sub = s
    BY <1>1, <1>3, <1>4, <1>5, <1>6, <2>1
  <2>2. CASE regs[i].sub # s
    BY <1>4, <1>5, <1>7, <2>2 DEF LastInv
  <2> QED
    BY <2>1, <2>2
<1>8. ~Mine(s)'
  <2> SUFFICES ASSUME Mine(s)' PROVE FALSE
    OBVIOUS
  <2>1. PICK q \in RegIds : q = subscribers[s] /\ regs[q].sub = s
    BY <1>4, CurrentFacts DEF Mine
  <2>2. regs[q].inc = sub[s].inc + 1
    BY <1>3, <1>4, <1>5, <2>1 DEF Mine
  <2> QED
    BY <1>1, <1>6, <2>1, <2>2
<1>9. ASSUME NEW z \in Subs PROVE sub'[z].version <= sub'[z].processed /\ OwnLast(z)'
  <2>1. CASE z = s
    BY <1>3, <1>5, <1>8, <2>1 DEF OwnLast
  <2>2. CASE z # s
    BY <1>4, <1>5, <2>2, OwnLastSame
  <2> QED
    BY <2>1, <2>2
<1> QED
  BY <1>4, <1>7, <1>9 DEF LastInv, CallTo

LEMMA RestartLast == ASSUME IInv, LastInv, RestartStatestore PROVE LastInv'
<1>1. /\ regs' = regs /\ subscribers' = [s \in Subs |-> 0] /\ late' = {}
      /\ calls' = {[c EXCEPT !.live = FALSE] : c \in calls}
      /\ sub' = [s \in Subs |-> [sub[s] EXCEPT !.resp = [reg |-> 0, ok |-> TRUE]]]
  BY DEF RestartStatestore
<1>2. ASSUME NEW b \in calls' PROVE ~b.live
  <2>1. PICK c \in calls : b = [c EXCEPT !.live = FALSE]
    BY <1>1, <1>2
  <2> QED
    BY <2>1, CallFacts DEF Calls
<1>3. ASSUME NEW s \in Subs
      PROVE  sub'[s].inc = sub[s].inc /\ sub'[s].version = sub[s].version /\ sub'[s].processed = sub[s].processed
  <2>1. PICK x : x = [reg |-> 0, ok |-> TRUE]
    OBVIOUS
  <2>2. sub'[s] = [sub[s] EXCEPT !.resp = x] /\ sub[s] \in Processes
    BY <1>1, <2>1, Same
  <2> QED
    BY <2>1, <2>2 DEF Processes
<1>4. \A s \in Subs : OwnLast(s)'
  BY <1>1 DEF OwnLast, Mine
<1> QED
  BY <1>1, <1>2, <1>3, <1>4 DEF LastInv, CallTo

LEMMA RegisterLast == ASSUME IInv, CopyInv, LastInv, NEW s \in Subs, Register(s) PROVE LastInv'
<1>1. RegisterSubscriber(s) /\ calls' = calls /\ late' = late
  BY DEF Register
<1>2. PICK full \in LimitReached(UpdateQueue), fullHb \in LimitReached(hb), r \in RegIds, old \in 0..MaxRegs :
           /\ r = nextReg /\ old = subscribers[s] /\ r # old
           /\ regs'[r] = NewReg(s)
           /\ old # 0 => regs'[old] = [regs[old] EXCEPT !.unregistered = TRUE]
           /\ \A i \in RegIds \ {r, old} : regs'[i] = regs[i]
           /\ subscribers' = [subscribers EXCEPT ![s] = IF full \/ fullHb THEN 0 ELSE r]
           /\ upd' = IF full THEN upd ELSE [upd EXCEPT ![r] = Chain("queued")]
  BY <1>1, RegisterFacts
<1>3. /\ \A c \in calls : c.reg # r
      /\ upd'[r].pc \notin {"replied", "acked"}
  BY <1>1, <1>2, RegisterKeeps
<1>4. PICK x, b : x = [reg |-> r, ok |-> b] /\ b = (subscribers'[s] = nextReg)
  OBVIOUS
<1>5. PICK p : p = [sub[s] EXCEPT !.reg = 0, !.resp = x]
  OBVIOUS
<1>6. sub[s] \in Processes /\ sub \in [Subs -> Processes]
  BY Same
<1>7. sub' = [sub EXCEPT ![s] = p]
  <2>1. sub' = [sub EXCEPT ![s].reg = 0, ![s].resp = x]
    BY <1>2, <1>4 DEF Register
  <2> QED
    BY <2>1, <1>5, <1>6 DEF Processes
<1>8. sub'[s] = p /\ \A z \in Subs \ {s} : sub'[z] = sub[z]
  BY <1>6, <1>7
<1>9. /\ p.reg = 0 /\ p.resp.reg = r /\ p.inc = sub[s].inc /\ p.source = sub[s].source
      /\ p.version = sub[s].version /\ p.processed = sub[s].processed
  BY <1>4, <1>5, <1>6 DEF Processes
<1>10. /\ regs'[r].sub = s /\ regs'[r].inc = sub[s].inc /\ regs'[r].last = 0
  BY <1>2, NewRegFacts
<1>11. ASSUME NEW i \in RegIds, i # r
       PROVE  /\ regs'[i].epoch = regs[i].epoch /\ regs'[i].sub = regs[i].sub /\ regs'[i].last = regs[i].last
              /\ regs'[i].inc = regs[i].inc /\ upd'[i] = upd[i]
  <2>1. i # 0
    BY Bounds DEF RegIds
  <2>2. CASE i = old
    BY <1>2, <1>11, <2>1, <2>2, Same DEF Registrations
  <2>3. CASE i # old
    BY <1>2, <1>11, <2>3, Same
  <2> QED
    BY <2>2, <2>3
<1>12. sub[s].inc \in Nat /\ sub[s].processed \in Nat /\ sub[s].version <= sub[s].processed
  BY <1>6, Bounds DEF Processes, LastInv
<1>13. ASSUME NEW i \in RegIds, regs'[i].sub \in Subs PROVE regs'[i].inc <= sub'[regs'[i].sub].inc
  <2>1. CASE i = r
    BY <1>8, <1>9, <1>10, <1>12, <2>1
  <2>2. CASE i # r
    BY <1>8, <1>9, <1>11, <1>13, <2>2 DEF LastInv
  <2> QED
    BY <2>1, <2>2
<1>14. CallTo'
  BY <1>1, <1>3, <1>11, CallFacts DEF CallTo, LastInv
<1>15. ASSUME NEW z \in Subs, z # s PROVE sub'[z].version <= sub'[z].processed /\ OwnLast(z)'
  <2>1. subscribers'[z] = subscribers[z]
    BY <1>2, <1>15, Same
  <2>2. \A q \in RegIds : q = subscribers[z] => q # r
    <3>1. r \in Nat /\ r # 0
      BY Bounds DEF RegIds
    <3> QED
      BY <1>2, <3>1, CurrentFacts
  <2> QED
    BY <1>8, <1>11, <1>15, <2>1, <2>2, OwnLastSame
<1>16. OwnLast(s)'
  <2> SUFFICES ASSUME Mine(s)' PROVE /\ p.reg \in {0, subscribers'[s]} /\ p.resp.reg \in {0, subscribers'[s]}
                                     /\ ChainLast(subscribers[s])'
    BY <1>8 DEF OwnLast
  <2>1. subscribers'[s] = r
    <3>1. subscribers'[s] \in {0, r}
      BY <1>2, Same
    <3> QED
      BY <3>1 DEF Mine
  <2>2. ProcessedOf(r)' \in Nat
    BY <1>8, <1>9, <1>10, <1>12 DEF ProcessedOf
  <2>3. regs'[r].last <= ProcessedOf(r)'
    BY <1>10, <2>2
  <2>4. ChainLast(r)'
    BY <1>3, <2>3 DEF ChainLast
  <2> QED
    BY <1>9, <2>1, <2>4 DEF ChainLast, ProcessedOf
<1>17. sub'[s].version <= sub'[s].processed
  BY <1>8, <1>9, <1>12
<1> QED
  BY <1>1, <1>13, <1>14, <1>15, <1>16, <1>17 DEF LastInv

LEMMA InitLast == Init => LastInv
<1> SUFFICES ASSUME Init PROVE LastInv
  OBVIOUS
<1>1. NewProcess(1).version = -1 /\ NewProcess(1).processed = 0
  BY NewProcessType, Bounds
<1>2. \A s \in Subs : sub[s] = NewProcess(1) /\ subscribers[s] = 0
  BY DEF Init
<1>3. \A s \in Subs : sub[s].version <= sub[s].processed /\ OwnLast(s)
  BY <1>1, <1>2 DEF OwnLast, Mine
<1>4. \A r \in RegIds : regs[r].sub \in Subs => regs[r].inc <= sub[regs[r].sub].inc
  <2>1. NewProcess(1).inc = 1
    BY NewProcessType, Bounds
  <2>2. \A r \in RegIds : regs[r].inc = 0
    BY DEF Init, NoReg
  <2> QED
    BY <1>2, <2>1, <2>2
<1> QED
  BY <1>3, <1>4 DEF Init, LastInv, CallTo

LEMMA NextLast ==
    ASSUME "late_register" \notin FaultKinds, IInv, CopyInv, LastInv, [Next]_vars PROVE LastInv'
<1>1. CASE vars' = vars
  <2>1. /\ upd' = upd /\ late' = {} /\ SubscribersLast /\ LiveCallsLast
        /\ RegsLast /\ \A i \in RegIds : regs'[i].last = regs[i].last
        /\ \A s \in Subs : SameLast(sub[s], sub'[s])
    BY <1>1, SameRegs, FewerLive DEF vars, LastInv
  <2> QED
    BY <2>1, QuietLastStep
<1>2. CASE Next
  <2>1. ASSUME NEW r \in RegIds,
               TakeUpdate(r) \/ SendTopicUpdate(r) \/ AckUpdate(r) \/ ApplyReturned(r)
                 \/ AddTransientEntries(r) \/ CleanUp(r) \/ FinishUpdate(r)
                 \/ DropHeartbeat(r) \/ HeartbeatOk(r) \/ HeartbeatFailed(r) \/ TimeoutUpdate(r)
        PROVE  LastInv'
    BY <2>1, TakeUpdateLast, SendTopicUpdateLast, AckUpdateLast, ApplyReturnedLast,
       AddTransientEntriesLast, CleanUpLast, FinishUpdateLast, HeartbeatLast, TimeoutUpdateLast
  <2>2. ASSUME NEW c \in calls,
               ReceiveUpdate(c) \/ SkipUpdate(c) \/ ProcessUpdate(c) \/ RepeatUpdate(c)
        PROVE  LastInv'
    BY <2>2, ReceiveUpdateLast, SkipUpdateLast, ProcessUpdateLast, RepeatUpdateLast
  <2>3. ASSUME NEW s \in Subs, EnterRecovery(s) \/ NeedlessRecovery(s)
        PROVE  LastInv'
    BY <2>3, RecoverLast DEF EnterRecovery, NeedlessRecovery
  <2>4. ASSUME NEW s \in Subs,
               Register(s) \/ FinishRegister(s) \/ Boot(s)
                 \/ LoseRegisterReply(s) \/ SetLocalBackend(s) \/ Crash(s)
        PROVE  LastInv'
    BY <2>4, RegisterLast, FinishRegisterLast, BootLast, LoseRegisterReplyLast,
       SetLocalBackendLast, CrashLast
  <2>5. ASSUME RestartStatestore PROVE LastInv'
    BY <2>5, RestartLast
  <2>6. \A s \in Subs : ~LateRegister(s) /\ ~AbandonRegister(s)
    BY DEF LateRegister, AbandonRegister, Fault, LastInv
  <2> QED
    BY <1>2, <2>1, <2>2, <2>3, <2>4, <2>5, <2>6, Zenon
       DEF Next, UpdateStep, HeartbeatStep, HandlerStep, ProcessStep, Environment
<1> QED
  BY <1>1, <1>2

\* LastIsProcessed, as long as no handler stalls between its registration check and its
\* lock and no registration is executed after its sender gave up on it: whatever updates
\* are lost, repeated or answered with an error, the version SYNC_DDL waits for is one the
\* subscriber has processed.
THEOREM LastIsProcessedHolds ==
    ASSUME ~MayStall, "late_register" \notin FaultKinds
    PROVE  Spec => []LastIsProcessed
<1>1. Init => IInv /\ CopyInv /\ LastInv
  BY InitLayer, InitCopy, InitLast
<1>2. IInv /\ CopyInv /\ LastInv /\ [Next]_vars => (IInv /\ CopyInv /\ LastInv)'
  BY NextLayer, NextCopy, NextLast
<1>3. LastInv => LastIsProcessed
  BY DEF LastInv, OwnLast, Mine, ChainLast, LastIsProcessed
<1> QED
  BY <1>1, <1>2, <1>3, PTL DEF Spec
=============================================================================

------------------------ MODULE TopicReplicationProofs ------------------------
(***************************************************************************)
(* TopicReplication for every set of keys, values and subscribers and for  *)
(* any number of changes and updates under way.  The inductive invariant   *)
(* is the conjunction of the checked invariants, bounds on the versions    *)
(* and two facts about what a copy cannot hold:                            *)
(*                                                                         *)
(*   - CopyAgrees survives ProcessUpdate because UpdatesStayTrue says what *)
(*     the update holds of every entry that was not changed since;         *)
(*   - UpdatesStayTrue survives a change of the topic because the change   *)
(*     takes a version above every update's, and it holds of a new update  *)
(*     because the log lists every entry under its version                 *)
(*     (LogMatchesEntries);                                                *)
(*   - CaughtUpIsExact needs in addition that a copy holds no key the      *)
(*     topic has no entry for (NoStrayKeys);                               *)
(*   - a delta that is taken at version -1 finds an empty copy             *)
(*     (NewIsEmpty), and what follows it starts above it (BasesBounded).   *)
(***************************************************************************)
EXTENDS TopicReplication, TLAPS

\* A subscriber's version never runs ahead of the topic.
VersionsBounded == \A s \in Subs : version[s] <= topic.last

\* Until ClearAllEntries() every key a copy holds has an entry.
NoStrayKeys ==
    ~cleared => \A s \in Subs, k \in Keys : ~HasEntry(topic, k) => copy[s][k] = None

\* A process that has processed nothing holds nothing.
NewIsEmpty == \A s \in Subs : version[s] = -1 => \A k \in Keys : copy[s][k] = None

\* An update of a topic that has entries goes forward, and so a copy does not fall behind
\* the version it was begun above.  (to_version of an empty log is 0.)
BasesBounded ==
    /\ \A c \in deltas : c.delta.from <= c.delta.to \/ c.delta.to = 0
    /\ \A s \in Subs : base[s] <= version[s] \/ version[s] <= 0

IndInv ==
    /\ TypeOK
    /\ LogMatchesEntries
    /\ UpdatesStayTrue
    /\ CopyAgrees
    /\ VersionsBounded
    /\ NoStrayKeys
    /\ NewIsEmpty
    /\ BasesBounded
-----------------------------------------------------------------------------
(***************************************************************************)
(* The largest logged version is last_version_: to_version of an update is *)
(* the version of the topic's latest change.                               *)
(***************************************************************************)
LEMMA LogVersionIsLast ==
    ASSUME TypeOK, LogMatchesEntries
    PROVE  LogVersion(topic) = IF topic.log = {} THEN 0 ELSE topic.last
<1>1. CASE topic.log = {}
  BY <1>1 DEF LogVersion, TOPIC_INITIAL_VERSION
<1>2. CASE topic.log # {}
  <2> DEFINE versions == {e[1] : e \in topic.log}
  <2>1. \A e \in topic.log : e[1] \in Nat /\ e[1] <= topic.last
    BY DEF TypeOK, Topics, Entry, LogMatchesEntries, HasEntry
  <2>2. topic.last \in versions
    <3>1. PICK k \in Keys : <<topic.last, k>> \in topic.log
      BY <1>2 DEF LogMatchesEntries
    <3>2. <<topic.last, k>>[1] = topic.last
      OBVIOUS
    <3> QED
      BY <3>1, <3>2
  <2>3. topic.last \in Nat
    BY DEF TypeOK, Topics
  <2>4. \A v \in versions : (\A e \in topic.log : e[1] <= v) => v = topic.last
    BY <2>1, <2>2, <2>3
  <2>5. \E v \in versions : \A e \in topic.log : e[1] <= v
    BY <2>1, <2>2
  <2> QED
    BY <1>2, <2>4, <2>5 DEF LogVersion
<1> QED
  BY <1>1, <1>2

(***************************************************************************)
(* Put() of a well-formed topic: the entry changes, nothing else does, the *)
(* log follows.                                                            *)
(***************************************************************************)
LEMMA PutEntryTopic ==
    ASSUME IndInv, NEW k \in Keys, NEW value \in Values \cup {None}, NEW deleted \in BOOLEAN,
           topic' = Put(topic, k, value, deleted)
    PROVE  /\ topic' \in Topics
           /\ topic'.last = topic.last + 1
           /\ topic'.entries[k] = [value |-> value, version |-> topic.last + 1,
                                   deleted |-> deleted]
           /\ \A j \in Keys \ {k} : topic'.entries[j] = topic.entries[j]
           /\ LogMatchesEntries'
<1> USE DEF IndInv
<1> DEFINE n == topic.last + 1
<1>1. topic \in Topics /\ topic.last \in Nat /\ n \in Nat
  BY DEF TypeOK, Topics
<1>2. topic'.last = n
  BY DEF Put
<1>3. /\ topic'.entries[k] = [value |-> value, version |-> n, deleted |-> deleted]
      /\ \A j \in Keys \ {k} : topic'.entries[j] = topic.entries[j]
      /\ topic'.entries \in [Keys -> Entry]
  BY <1>1 DEF Put, Topics, Entry
<1>4. topic'.log = (IF HasEntry(topic, k)
                      THEN {e \in topic.log : e[1] # topic.entries[k].version}
                      ELSE topic.log) \cup {<<n, k>>}
  BY DEF Put
<1>5. topic'.log \subseteq Nat \X Keys
  BY <1>1, <1>4 DEF Topics
<1>6. topic' = [entries |-> topic'.entries, log |-> topic'.log, last |-> topic'.last]
  BY DEF Put
<1>7. topic' \in Topics
  BY <1>1, <1>2, <1>3, <1>5, <1>6 DEF Topics
<1>8. \A j \in Keys : topic.entries[j].version \in Nat /\ topic.entries[j].version <= topic.last
  BY <1>1 DEF Topics, Entry, LogMatchesEntries
<1>9. \A v, j : <<v, j>> \in topic.log
                  <=> j \in Keys /\ v = topic.entries[j].version /\ v # 0
  BY DEF LogMatchesEntries, HasEntry
<1>10. \A j \in Keys \ {k} : HasEntry(topic', j) <=> HasEntry(topic, j)
  BY <1>3 DEF HasEntry
<1>11. HasEntry(topic', k) /\ topic'.entries[k].version = n
  BY <1>1, <1>3 DEF HasEntry
<1>12. topic'.log = {<<topic'.entries[j].version, j>> : j \in {i \in Keys : HasEntry(topic', i)}}
  <2>1. ASSUME NEW e \in topic'.log
        PROVE  \E j \in {i \in Keys : HasEntry(topic', i)} : e = <<topic'.entries[j].version, j>>
    <3>1. CASE e = <<n, k>>
      BY <3>1, <1>11
    <3>2. CASE e # <<n, k>>
      <4>1. e \in topic.log /\ (HasEntry(topic, k) => e[1] # topic.entries[k].version)
        BY <3>2, <1>4
      <4>2. PICK j \in Keys : HasEntry(topic, j) /\ e = <<topic.entries[j].version, j>>
        BY <4>1 DEF LogMatchesEntries
      <4>3. j # k
        BY <4>1, <4>2
      <4> QED
        BY <4>2, <4>3, <1>3, <1>10
    <3> QED
      BY <3>1, <3>2
  <2>2. ASSUME NEW j \in Keys, HasEntry(topic', j)
        PROVE  <<topic'.entries[j].version, j>> \in topic'.log
    <3>1. CASE j = k
      BY <3>1, <1>4, <1>11
    <3>2. CASE j # k
      <4>1. HasEntry(topic, j) /\ topic'.entries[j].version = topic.entries[j].version
        BY <2>2, <3>2, <1>3, <1>10
      <4>2. <<topic.entries[j].version, j>> \in topic.log
        BY <4>1 DEF LogMatchesEntries
      <4>3. HasEntry(topic, k) => topic.entries[j].version # topic.entries[k].version
        BY <3>2, <4>1 DEF LogMatchesEntries
      <4> QED
        BY <4>1, <4>2, <4>3, <1>4
    <3> QED
      BY <3>1, <3>2
  <2> QED
    BY <2>1, <2>2
<1>13. \A i, j \in Keys : HasEntry(topic', i) /\ topic'.entries[i].version
                             = topic'.entries[j].version => i = j
  BY <1>1, <1>3, <1>8, <1>10, <1>11 DEF LogMatchesEntries
<1>14. \A j \in Keys : topic'.entries[j].version <= topic'.last
  BY <1>1, <1>2, <1>3, <1>8
<1>15. <<topic'.last, k>> \in topic'.log
  BY <1>2, <1>4
<1> QED
  BY <1>2, <1>3, <1>7, <1>12, <1>13, <1>14, <1>15 DEF LogMatchesEntries

(***************************************************************************)
(* A change of one entry, under a version above all others, says nothing   *)
(* about what updates under way and copies hold.                           *)
(***************************************************************************)
LEMMA ChangeKeepsCopies ==
    ASSUME IndInv, NEW k \in Keys,
           topic'.last = topic.last + 1,
           topic'.entries[k].version = topic.last + 1,
           \A j \in Keys \ {k} : topic'.entries[j] = topic.entries[j],
           UNCHANGED <<copy, version, base, deltas, cleared>>
    PROVE  /\ UpdatesStayTrue' /\ CopyAgrees' /\ VersionsBounded' /\ NoStrayKeys'
           /\ NewIsEmpty' /\ BasesBounded'
<1> USE DEF IndInv
<1>1. topic.last \in Nat /\ version \in [Subs -> Nat \cup {-1}]
  BY DEF TypeOK, Topics
<1>2. HasEntry(topic', k)
  BY <1>1 DEF HasEntry
<1>3. \A j \in Keys \ {k} : HasEntry(topic', j) <=> HasEntry(topic, j)
  BY DEF HasEntry
<1>4. \A c \in deltas : c.delta.to \in Nat
  BY DEF TypeOK, Call, Delta
<1>5. UpdatesStayTrue'
  <2> SUFFICES ASSUME NEW c \in deltas, NEW j \in Keys
               PROVE  /\ c.delta.is_delta <=> c.delta.from > TOPIC_INITIAL_VERSION
                      /\ c.delta.to <= topic'.last
                      /\ IF HasEntry(topic', j)
                           THEN topic'.entries[j].version <= c.delta.to =>
                                  c.delta.items[j] =
                                    IF topic'.entries[j].version <= c.delta.from THEN NoItem
                                    ELSE IF ~topic'.entries[j].deleted
                                           THEN topic'.entries[j].value
                                    ELSE IF c.delta.is_delta THEN Deleted ELSE NoItem
                           ELSE ~cleared => c.delta.items[j] = NoItem
    BY DEF UpdatesStayTrue
  <2>1. CASE j = k
    BY <2>1, <1>1, <1>2, <1>4 DEF UpdatesStayTrue
  <2>2. CASE j # k
    BY <2>2, <1>1, <1>3, <1>4 DEF UpdatesStayTrue
  <2> QED
    BY <2>1, <2>2
<1>6. VersionsBounded'
  BY <1>1 DEF VersionsBounded
<1>7. CopyAgrees'
  <2> SUFFICES ASSUME NEW s \in Subs, NEW j \in Keys, HasEntry(topic', j),
                      topic'.entries[j].version <= version[s]
               PROVE  copy[s][j] = ViewAbove(topic', base[s])[j]
    BY DEF CopyAgrees, ViewAbove
  <2>1. j # k
    BY <1>1 DEF VersionsBounded
  <2>2. ViewAbove(topic', base[s])[j] = ViewAbove(topic, base[s])[j]
    BY <2>1, <1>3 DEF View, ViewAbove
  <2> QED
    BY <2>1, <2>2, <1>3 DEF CopyAgrees
<1>8. NoStrayKeys'
  BY <1>2, <1>3 DEF NoStrayKeys
<1>9. NewIsEmpty' /\ BasesBounded'
  BY DEF NewIsEmpty, BasesBounded
<1> QED
  BY <1>5, <1>6, <1>7, <1>8, <1>9

(***************************************************************************)
(* Both at once: an entry that changes keeps the inductive invariant.      *)
(***************************************************************************)
LEMMA ChangeKeepsInv ==
    ASSUME IndInv, NEW k \in Keys, NEW value \in Values \cup {None}, NEW deleted \in BOOLEAN,
           topic' = Put(topic, k, value, deleted),
           UNCHANGED <<copy, version, base, deltas, cleared>>
    PROVE  IndInv'
<1>1. /\ topic' \in Topics
      /\ topic'.last = topic.last + 1
      /\ topic'.entries[k] = [value |-> value, version |-> topic.last + 1, deleted |-> deleted]
      /\ \A j \in Keys \ {k} : topic'.entries[j] = topic.entries[j]
      /\ LogMatchesEntries'
  BY PutEntryTopic
<1>2. topic'.entries[k].version = topic.last + 1
  BY <1>1
<1>3. /\ UpdatesStayTrue' /\ CopyAgrees' /\ VersionsBounded' /\ NoStrayKeys'
      /\ NewIsEmpty' /\ BasesBounded'
  BY <1>1, <1>2, ChangeKeepsCopies
<1>4. TypeOK'
  BY <1>1 DEF IndInv, TypeOK
<1> QED
  BY <1>1, <1>3, <1>4 DEF IndInv

(***************************************************************************)
(* The initial state satisfies the inductive invariant.                    *)
(***************************************************************************)
LEMMA InitInv == Init => IndInv
<1> SUFFICES ASSUME Init PROVE IndInv
  OBVIOUS
<1>1. \A k \in Keys : topic.entries[k] = NoEntry
  BY DEF Init, EmptyTopic
<1>2. \A k \in Keys : ~HasEntry(topic, k) /\ topic.entries[k].version = 0
  BY <1>1 DEF HasEntry, NoEntry
<1>3. topic.log = {} /\ topic.last = 0
  BY DEF Init, EmptyTopic
<1>4. TypeOK
  BY DEF Init, EmptyTopic, TypeOK, Topics, Entry, NoEntry, Call, TOPIC_INITIAL_VERSION
<1>5. LogMatchesEntries
  BY <1>2, <1>3 DEF LogMatchesEntries
<1>6. UpdatesStayTrue /\ CopyAgrees /\ NoStrayKeys
  BY <1>2 DEF Init, UpdatesStayTrue, CopyAgrees, NoStrayKeys
<1>7. VersionsBounded /\ NewIsEmpty /\ BasesBounded
  BY <1>3 DEF Init, VersionsBounded, NewIsEmpty, BasesBounded
<1> QED
  BY <1>4, <1>5, <1>6, <1>7 DEF IndInv

(***************************************************************************)
(* What BuildDelta() sends is well-formed and true of the topic.           *)
(***************************************************************************)
LEMMA BuildDeltaIsTrue ==
    ASSUME TypeOK, LogMatchesEntries, NEW from \in 0..topic.last
    PROVE  LET d == BuildDelta(topic, from) IN
           /\ d \in Delta
           /\ d.is_delta <=> d.from > TOPIC_INITIAL_VERSION
           /\ d.to <= topic.last
           /\ d.from <= d.to \/ d.to = 0
           /\ \A k \in Keys :
                 IF HasEntry(topic, k)
                   THEN topic.entries[k].version <= d.to =>
                          d.items[k] = IF topic.entries[k].version <= d.from THEN NoItem
                                       ELSE IF ~topic.entries[k].deleted
                                              THEN topic.entries[k].value
                                       ELSE IF d.is_delta THEN Deleted ELSE NoItem
                   ELSE ~cleared => d.items[k] = NoItem
<1> DEFINE d == BuildDelta(topic, from)
           Item(k) == IF ~topic.entries[k].deleted THEN topic.entries[k].value
                      ELSE IF from > 0 THEN Deleted ELSE NoItem
<1>1. topic \in Topics /\ topic.last \in Nat /\ from \in Nat
  BY DEF TypeOK, Topics
<1>2. \A k \in Keys : /\ topic.entries[k].version \in Nat
                      /\ topic.entries[k].value \in Values \cup {None}
                      /\ topic.entries[k].deleted \in BOOLEAN
  BY <1>1 DEF Topics, Entry
<1>3. LogVersion(topic) \in Nat /\ LogVersion(topic) <= topic.last
  BY <1>1, LogVersionIsLast
<1>4. /\ d.is_delta \in BOOLEAN /\ (d.is_delta <=> from > 0)
      /\ d.from = from /\ d.to = LogVersion(topic)
      /\ d.items = [k \in Keys |-> IF \E e \in topic.log : e[1] > from /\ e[2] = k
                                     THEN Item(k) ELSE NoItem]
      /\ d = [is_delta |-> d.is_delta, from |-> d.from, to |-> d.to, items |-> d.items]
  <2>1. d = [is_delta |-> from > 0, from |-> from, to |-> LogVersion(topic),
             items |-> [k \in Keys |-> IF \E e \in topic.log : e[1] > from /\ e[2] = k
                                         THEN Item(k) ELSE NoItem]]
    BY DEF BuildDelta, TOPIC_INITIAL_VERSION
  <2> HIDE DEF d
  <2>2. d.is_delta = (from > 0)
    BY <2>1, Zenon
  <2>3. d.is_delta \in BOOLEAN /\ (d.is_delta <=> from > 0)
    <3>1. (from > 0) \in BOOLEAN
      OBVIOUS
    <3> QED
      BY <2>2, <3>1
  <2> HIDE DEF Item
  <2> QED
    BY <2>1, <2>3, Zenon
<1> HIDE DEF d
<1>5. \A k \in Keys : (\E e \in topic.log : e[1] > from /\ e[2] = k)
                        <=> HasEntry(topic, k) /\ topic.entries[k].version > from
  <2> TAKE k \in Keys
  <2>1. ASSUME NEW e \in topic.log, e[1] > from, e[2] = k
        PROVE  HasEntry(topic, k) /\ topic.entries[k].version > from
    BY <2>1 DEF LogMatchesEntries
  <2>2. ASSUME HasEntry(topic, k), topic.entries[k].version > from
        PROVE  \E e \in topic.log : e[1] > from /\ e[2] = k
    <3>1. <<topic.entries[k].version, k>> \in topic.log
      BY <2>2 DEF LogMatchesEntries
    <3> QED
      BY <2>2, <3>1
  <2> QED
    BY <2>1, <2>2
<1>6. d.items \in [Keys -> Values \cup {None, NoItem, Deleted}]
  BY <1>2, <1>4
<1>7. d \in Delta
  BY <1>1, <1>3, <1>4, <1>6 DEF Delta
<1>8. ASSUME NEW k \in Keys
      PROVE  IF HasEntry(topic, k)
               THEN d.items[k] = IF topic.entries[k].version <= d.from THEN NoItem
                                 ELSE IF ~topic.entries[k].deleted
                                        THEN topic.entries[k].value
                                 ELSE IF d.is_delta THEN Deleted ELSE NoItem
               ELSE d.items[k] = NoItem
  <2>1. d.items[k] = IF HasEntry(topic, k) /\ topic.entries[k].version > from
                       THEN Item(k) ELSE NoItem
    BY <1>4, <1>5
  <2>2. CASE HasEntry(topic, k) /\ topic.entries[k].version > from
    <3>1. ~(topic.entries[k].version <= d.from)
      BY <2>2, <1>1, <1>2, <1>4
    <3>2. d.items[k] = Item(k)
      BY <2>1, <2>2
    <3>3. Item(k) = IF ~topic.entries[k].deleted THEN topic.entries[k].value
                    ELSE IF d.is_delta THEN Deleted ELSE NoItem
      BY <1>4
    <3> QED
      BY <2>2, <3>1, <3>2, <3>3
  <2>3. CASE ~(HasEntry(topic, k) /\ topic.entries[k].version > from)
    BY <2>1, <2>3, <1>1, <1>2, <1>4
  <2> QED
    BY <2>2, <2>3
<1>9. /\ d.is_delta <=> d.from > TOPIC_INITIAL_VERSION
      /\ d.to <= topic.last
      /\ d.from <= d.to \/ d.to = 0
  BY <1>1, <1>3, <1>4, LogVersionIsLast DEF TOPIC_INITIAL_VERSION
<1> QED
  BY <1>7, <1>8, <1>9 DEF d

(***************************************************************************)
(* Processing an update that is true of the topic, on top of the version   *)
(* it starts from, of nothing, or as a full update, leaves a copy that     *)
(* agrees with the topic up to the update's to_version.                    *)
(***************************************************************************)
LEMMA ProcessKeepsCopies ==
    ASSUME IndInv, NEW c \in deltas, ProcessUpdate(c)
    PROVE  CopyAgrees' /\ NoStrayKeys' /\ NewIsEmpty' /\ BasesBounded'
<1> USE DEF IndInv
<1> DEFINE d == c.delta
           t == c.sub
<1>1. /\ t \in Subs /\ d \in Delta
      /\ d.is_delta \in BOOLEAN /\ d.from \in Nat /\ d.to \in Nat
      /\ d.items \in [Keys -> Values \cup {None, NoItem, Deleted}]
  BY DEF TypeOK, Call, Delta
<1>2. \A k \in Keys : topic.entries[k].version \in Nat
  BY DEF TypeOK, Topics, Entry
<1>3. /\ topic' = topic /\ cleared' = cleared
      /\ \A s \in Subs \ {t} : /\ copy'[s] = copy[s] /\ version'[s] = version[s]
                               /\ base'[s] = base[s]
      /\ version'[t] = d.to
      /\ base'[t] = IF ~d.is_delta THEN 0 ELSE IF version[t] = -1 THEN d.from ELSE base[t]
      /\ copy'[t] = ApplyDelta(copy[t], d)
      /\ d.is_delta => version[t] = -1 \/ d.from = version[t]
      /\ deltas' \subseteq deltas
  BY <1>1 DEF ProcessUpdate, BaseAfter, TypeOK, TOPIC_INITIAL_VERSION
<1>4. \A k \in Keys : ApplyDelta(copy[t], d)[k] =
                          IF d.items[k] = NoItem
                            THEN (IF d.is_delta THEN copy[t][k] ELSE None)
                          ELSE IF d.items[k] = Deleted THEN None
                          ELSE d.items[k]
  BY DEF ApplyDelta
<1>5. ASSUME NEW k \in Keys, HasEntry(topic, k), topic.entries[k].version <= d.to
      PROVE  copy'[t][k] = ViewAbove(topic, base'[t])[k]
  <2>1. d.items[k] = IF topic.entries[k].version <= d.from THEN NoItem
                     ELSE IF ~topic.entries[k].deleted THEN topic.entries[k].value
                     ELSE IF d.is_delta THEN Deleted ELSE NoItem
    BY <1>5 DEF UpdatesStayTrue
  <2>2. View(topic)[k] = IF ~topic.entries[k].deleted THEN topic.entries[k].value ELSE None
    BY <1>5 DEF View
  <2>3. topic.entries[k].value \in Values \cup {None}
    BY DEF TypeOK, Topics, Entry
  <2> DEFINE v == topic.entries[k].version
  <2>4. ViewAbove(topic, base'[t])[k] = IF v > base'[t] THEN View(topic)[k] ELSE None
    BY DEF ViewAbove
  <2>5. base[t] \in Nat /\ version[t] \in Nat \cup {-1} /\ v \in Nat /\ v > 0
    BY <1>1, <1>2, <1>5 DEF TypeOK, HasEntry
  <2>6. CASE v <= d.from
    <3>1. d.is_delta
      BY <2>5, <2>6, <1>1 DEF UpdatesStayTrue, TOPIC_INITIAL_VERSION
    <3>2. copy'[t][k] = copy[t][k]
      BY <2>1, <2>6, <3>1, <1>3, <1>4
    <3>3. CASE version[t] = -1
      <4>1. base'[t] = d.from /\ copy[t][k] = None
        BY <3>1, <3>3, <1>1, <1>3 DEF NewIsEmpty
      <4> QED
        BY <2>4, <2>5, <2>6, <3>2, <4>1, <1>1
    <3>4. CASE version[t] # -1
      <4>1. base'[t] = base[t] /\ v <= version[t]
        BY <2>6, <3>1, <3>4, <1>3
      <4>2. copy[t][k] = ViewAbove(topic, base[t])[k]
        BY <4>1, <1>1, <1>5 DEF CopyAgrees
      <4> QED
        BY <3>2, <4>1, <4>2
    <3> QED
      BY <3>3, <3>4
  <2>7. CASE ~(v <= d.from)
    <3>1. v > base'[t]
      <4>1. d.is_delta /\ version[t] # -1 => base[t] <= d.from
        <5>1. d.is_delta => d.from > 0
          BY <1>1 DEF UpdatesStayTrue, TOPIC_INITIAL_VERSION
        <5> QED
          BY <5>1, <2>5, <1>1, <1>3 DEF BasesBounded
      <4> QED
        BY <4>1, <2>5, <2>7, <1>1, <1>3
    <3>2. ViewAbove(topic, base'[t])[k] = View(topic)[k]
      BY <2>4, <3>1
    <3>3. CASE topic.entries[k].deleted
      BY <2>1, <2>2, <2>7, <3>2, <3>3, <1>3, <1>4, TopicConstants
    <3>4. CASE ~topic.entries[k].deleted
      BY <2>1, <2>2, <2>3, <2>7, <3>2, <3>4, <1>3, <1>4, TopicConstants
    <3> QED
      BY <3>3, <3>4
  <2> QED
    BY <2>6, <2>7
<1>6. CopyAgrees'
  <2> SUFFICES ASSUME NEW s \in Subs, NEW k \in Keys, HasEntry(topic, k),
                      topic.entries[k].version <= version'[s]
               PROVE  copy'[s][k] = ViewAbove(topic, base'[s])[k]
    BY <1>3 DEF CopyAgrees
  <2>1. CASE s = t
    BY <2>1, <1>3, <1>5
  <2>2. CASE s # t
    BY <2>2, <1>3 DEF CopyAgrees
  <2> QED
    BY <2>1, <2>2
<1>7. NoStrayKeys'
  <2> SUFFICES ASSUME ~cleared, NEW s \in Subs, NEW k \in Keys, ~HasEntry(topic, k)
               PROVE  copy'[s][k] = None
    BY <1>3 DEF NoStrayKeys
  <2>1. d.items[k] = NoItem
    BY DEF UpdatesStayTrue
  <2>2. copy[s][k] = None /\ copy[t][k] = None
    BY <1>1 DEF NoStrayKeys
  <2> QED
    BY <2>1, <2>2, <1>3, <1>4
<1>8. NewIsEmpty'
  BY <1>1, <1>3 DEF NewIsEmpty
<1>9. BasesBounded'
  <2>1. base[t] \in Nat /\ version[t] \in Nat \cup {-1}
    BY <1>1 DEF TypeOK
  <2>2. base'[t] <= d.to \/ d.to <= 0
    <3>1. d.is_delta => d.from > 0
      BY <1>1 DEF UpdatesStayTrue, TOPIC_INITIAL_VERSION
    <3>2. d.from <= d.to \/ d.to = 0
      BY DEF BasesBounded
    <3>3. base[t] <= version[t] \/ version[t] <= 0
      BY <1>1 DEF BasesBounded
    <3> QED
      BY <2>1, <3>1, <3>2, <3>3, <1>1, <1>3
  <2> QED
    BY <2>2, <1>1, <1>3 DEF BasesBounded
<1> QED
  BY <1>6, <1>7, <1>8, <1>9

(***************************************************************************)
(* Every step keeps the inductive invariant.                               *)
(***************************************************************************)
LEMMA NextInv == IndInv /\ [Next]_vars => IndInv'
<1> SUFFICES ASSUME IndInv, [Next]_vars PROVE IndInv'
  OBVIOUS
<1>1. ASSUME NEW k \in Keys, NEW value \in Values, NEW deleted \in BOOLEAN,
             PutEntry(k, value, deleted)
      PROVE  IndInv'
  BY <1>1, ChangeKeepsInv DEF PutEntry
<1>2. ASSUME NEW k \in Keys, NEW v \in 1..topic.last, DeleteEntry(k, v)
      PROVE  IndInv'
  <2>1. CASE HasEntry(topic, k) /\ topic.entries[k].version = v
    <3>1. topic' = Put(topic, k, topic.entries[k].value, TRUE)
      BY <1>2, <2>1 DEF DeleteEntry, DeleteIfVersionsMatch
    <3>2. topic.entries[k].value \in Values \cup {None}
      BY DEF IndInv, TypeOK, Topics, Entry
    <3>3. UNCHANGED <<copy, version, base, deltas, cleared>>
      BY <1>2 DEF DeleteEntry
    <3> QED
      BY <3>1, <3>2, <3>3, ChangeKeepsInv
  <2>2. CASE ~(HasEntry(topic, k) /\ topic.entries[k].version = v)
    <3>1. UNCHANGED vars
      BY <1>2, <2>2 DEF DeleteEntry, DeleteIfVersionsMatch, vars
    <3> QED
      BY <3>1 DEF vars, IndInv, TypeOK, LogMatchesEntries, UpdatesStayTrue, CopyAgrees,
                  VersionsBounded, NoStrayKeys, NewIsEmpty, BasesBounded
  <2> QED
    BY <2>1, <2>2
<1>3. ASSUME ClearEntries
      PROVE  IndInv'
  <2>1. /\ topic' = [topic EXCEPT !.entries = [k \in Keys |-> NoEntry], !.log = {}]
        /\ UNCHANGED <<copy, version, base, deltas>> /\ cleared' = TRUE
    BY <1>3 DEF ClearEntries, ClearAllEntries
  <2>2. topic \in Topics
    BY DEF IndInv, TypeOK
  <2>3. /\ topic' \in Topics /\ topic'.last = topic.last /\ topic'.log = {}
        /\ \A k \in Keys : topic'.entries[k] = NoEntry
    BY <2>1, <2>2 DEF Topics, Entry, NoEntry
  <2>4. \A k \in Keys : ~HasEntry(topic', k) /\ topic'.entries[k].version = 0
    BY <2>3 DEF HasEntry, NoEntry
  <2>5. TypeOK'
    BY <2>1, <2>3 DEF IndInv, TypeOK
  <2>6. LogMatchesEntries'
    BY <2>2, <2>3, <2>4 DEF LogMatchesEntries, Topics
  <2>7. UpdatesStayTrue'
    BY <2>1, <2>3, <2>4 DEF IndInv, UpdatesStayTrue
  <2>8. CopyAgrees' /\ NoStrayKeys' /\ VersionsBounded' /\ NewIsEmpty' /\ BasesBounded'
    BY <2>1, <2>3, <2>4 DEF IndInv, CopyAgrees, NoStrayKeys, VersionsBounded,
                            NewIsEmpty, BasesBounded
  <2> QED
    BY <2>5, <2>6, <2>7, <2>8 DEF IndInv
<1>4. ASSUME NEW s \in Subs, NEW from \in 0..topic.last, SendUpdate(s, from)
      PROVE  IndInv'
  <2> DEFINE d == BuildDelta(topic, from)
             c == [sub |-> s, delta |-> d]
  <2>1. /\ deltas' = deltas \cup {c}
        /\ UNCHANGED <<topic, copy, version, base, cleared>>
    BY <1>4 DEF SendUpdate
  <2>2. /\ d \in Delta
        /\ d.is_delta <=> d.from > TOPIC_INITIAL_VERSION
        /\ d.to <= topic.last
        /\ d.from <= d.to \/ d.to = 0
        /\ \A k \in Keys :
              IF HasEntry(topic, k)
                THEN topic.entries[k].version <= d.to =>
                       d.items[k] = IF topic.entries[k].version <= d.from THEN NoItem
                                    ELSE IF ~topic.entries[k].deleted
                                           THEN topic.entries[k].value
                                    ELSE IF d.is_delta THEN Deleted ELSE NoItem
                ELSE ~cleared => d.items[k] = NoItem
    BY BuildDeltaIsTrue DEF IndInv
  <2> HIDE DEF d
  <2>3. c \in Call /\ c.delta = d
    BY <2>2 DEF Call
  <2> HIDE DEF c
  <2>4. TypeOK'
    BY <2>1, <2>3 DEF IndInv, TypeOK
  <2>5. UpdatesStayTrue'
    BY <2>1, <2>2, <2>3 DEF IndInv, UpdatesStayTrue
  <2>6. BasesBounded'
    BY <2>1, <2>2, <2>3 DEF IndInv, BasesBounded
  <2> QED
    BY <2>1, <2>4, <2>5, <2>6
       DEF IndInv, LogMatchesEntries, CopyAgrees, VersionsBounded, NoStrayKeys, NewIsEmpty
<1>5. ASSUME NEW c \in deltas, ProcessUpdate(c)
      PROVE  IndInv'
  <2>1. CopyAgrees' /\ NoStrayKeys' /\ NewIsEmpty' /\ BasesBounded'
    BY <1>5, ProcessKeepsCopies
  <2>2. /\ topic' = topic /\ deltas' \subseteq deltas /\ cleared' = cleared
        /\ copy' = [copy EXCEPT ![c.sub] = ApplyDelta(copy[c.sub], c.delta)]
        /\ version' = [version EXCEPT ![c.sub] = c.delta.to]
        /\ base' = [base EXCEPT ![c.sub] = BaseAfter(c.sub, c.delta)]
    BY <1>5 DEF ProcessUpdate
  <2>3. c.sub \in Subs /\ c.delta \in Delta
    BY DEF IndInv, TypeOK, Call
  <2>4. ApplyDelta(copy[c.sub], c.delta) \in [Keys -> Values \cup {None}]
    BY <2>3 DEF IndInv, TypeOK, ApplyDelta, Delta
  <2>5. TypeOK'
    <3>1. BaseAfter(c.sub, c.delta) \in Nat
      BY <2>3 DEF BaseAfter, IndInv, TypeOK, Delta, TOPIC_INITIAL_VERSION
    <3> QED
      BY <2>2, <2>3, <2>4, <3>1 DEF IndInv, TypeOK, Delta
  <2>6. VersionsBounded'
    BY <2>2, <2>3 DEF IndInv, TypeOK, VersionsBounded, UpdatesStayTrue
  <2>7. LogMatchesEntries' /\ UpdatesStayTrue'
    BY <2>2 DEF IndInv, LogMatchesEntries, UpdatesStayTrue
  <2> QED
    BY <2>1, <2>5, <2>6, <2>7 DEF IndInv
<1>6. ASSUME NEW lost \in SUBSET deltas, DropUpdates(lost)
      PROVE  IndInv'
  BY <1>6 DEF DropUpdates, IndInv, TypeOK, LogMatchesEntries, UpdatesStayTrue, CopyAgrees,
              VersionsBounded, NoStrayKeys, NewIsEmpty, BasesBounded
<1>7. ASSUME NEW s \in Subs, RestartSubscriber(s)
      PROVE  IndInv'
  <2>1. /\ copy' = [copy EXCEPT ![s] = [k \in Keys |-> None]]
        /\ version' = [version EXCEPT ![s] = -1]
        /\ base' = [base EXCEPT ![s] = 0]
        /\ UNCHANGED <<topic, deltas, cleared>>
    BY <1>7 DEF RestartSubscriber, TOPIC_INITIAL_VERSION
  <2>2. TypeOK'
    BY <2>1 DEF IndInv, TypeOK
  <2>3. CopyAgrees'
    BY <2>1 DEF IndInv, TypeOK, Topics, Entry, CopyAgrees
  <2>4. VersionsBounded' /\ NoStrayKeys' /\ NewIsEmpty' /\ BasesBounded'
    BY <2>1 DEF IndInv, TypeOK, Topics, VersionsBounded, NoStrayKeys, NewIsEmpty, BasesBounded
  <2>5. LogMatchesEntries' /\ UpdatesStayTrue'
    BY <2>1 DEF IndInv, LogMatchesEntries, UpdatesStayTrue
  <2> QED
    BY <2>2, <2>3, <2>4, <2>5 DEF IndInv
<1>8. CASE UNCHANGED vars
  BY <1>8 DEF vars, IndInv, TypeOK, LogMatchesEntries, UpdatesStayTrue, CopyAgrees,
              VersionsBounded, NoStrayKeys, NewIsEmpty, BasesBounded
<1> QED
  BY <1>1, <1>2, <1>3, <1>4, <1>5, <1>6, <1>7, <1>8 DEF Next

(***************************************************************************)
(* The inductive invariant holds in every reachable state.                 *)
(***************************************************************************)
LEMMA Invariance == Spec => []IndInv
<1> QED
  BY InitInv, NextInv, PTL DEF Spec

(***************************************************************************)
(* Type correctness of the replication protocol.                           *)
(***************************************************************************)
THEOREM TypeCorrect == Spec => []TypeOK
<1>1. IndInv => TypeOK
  BY DEF IndInv
<1> QED
  BY <1>1, Invariance, PTL

(***************************************************************************)
(* Put() and DeleteIfVersionsMatch() keep the update log in step with the  *)
(* entries, for any sequence of changes.                                   *)
(***************************************************************************)
THEOREM LogCorrect == Spec => []LogMatchesEntries
<1>1. IndInv => LogMatchesEntries
  BY DEF IndInv
<1> QED
  BY <1>1, Invariance, PTL

(***************************************************************************)
(* An UpdateState() request that BuildDelta() made stays true of every     *)
(* entry not changed since, however long it is under way: late and         *)
(* repeated requests are harmless.                                         *)
(***************************************************************************)
THEOREM UpdatesCorrect == Spec => []UpdatesStayTrue
<1>1. IndInv => UpdatesStayTrue
  BY DEF IndInv
<1> QED
  BY <1>1, Invariance, PTL

(***************************************************************************)
(* A subscriber's copy agrees with the topic up to its version, for any    *)
(* number of subscribers, keys and changes, and whatever updates are lost, *)
(* late, refused or built from a base the statestored is wrong about, in   *)
(* processes that took a delta of their predecessor too: those lack what   *)
(* is not above that delta's from_version, and nothing else.               *)
(***************************************************************************)
THEOREM CopiesCorrect == Spec => []CopyAgrees
<1>1. IndInv => CopyAgrees
  BY DEF IndInv
<1> QED
  BY <1>1, Invariance, PTL

(***************************************************************************)
(* On a topic that is not cleared (cluster membership, request queue), a   *)
(* subscriber at the topic's latest version has the topic's contents: all  *)
(* of them if its copy was begun with a full update.                       *)
(***************************************************************************)
THEOREM CaughtUpCorrect == Spec => []CaughtUpIsExact
<1>1. IndInv => CaughtUpIsExact
  <2> SUFFICES ASSUME IndInv, ~cleared, NEW s \in Subs, version[s] = LogVersion(topic)
               PROVE  copy[s] = ViewAbove(topic, base[s])
    BY DEF CaughtUpIsExact
  <2>1. /\ copy[s] \in [Keys -> Values \cup {None}]
        /\ \A k \in Keys : topic.entries[k].version \in Nat /\ topic.entries[k].version <= topic.last
    BY DEF IndInv, TypeOK, Topics, Entry, LogMatchesEntries
  <2>2. ASSUME NEW k \in Keys PROVE copy[s][k] = ViewAbove(topic, base[s])[k]
    <3>1. CASE HasEntry(topic, k)
      <4>1. topic.log # {}
        BY <3>1 DEF IndInv, LogMatchesEntries
      <4>2. version[s] = topic.last
        BY <4>1, LogVersionIsLast DEF IndInv
      <4> QED
        BY <2>1, <3>1, <4>2 DEF IndInv, CopyAgrees
    <3>2. CASE ~HasEntry(topic, k)
      BY <3>2 DEF IndInv, NoStrayKeys, View, ViewAbove
    <3> QED
      BY <3>1, <3>2
  <2>3. ViewAbove(topic, base[s]) = [k \in Keys |-> ViewAbove(topic, base[s])[k]]
    BY DEF ViewAbove
  <2> QED
    BY <2>1, <2>2, <2>3
<1> QED
  BY <1>1, Invariance, PTL
=============================================================================

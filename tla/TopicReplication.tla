--------------------------- MODULE TopicReplication ---------------------------
(***************************************************************************)
(* What the statestore promises of one topic: every subscriber's copy is   *)
(* the topic as it was at the version the subscriber is at.  The protocol  *)
(* is reduced to what the promise rests on: the versioned topic, updates   *)
(* built from ANY base version and delivered in any order, late, or never, *)
(* and a subscriber that takes a delta only on top of the version it       *)
(* starts from, or on top of nothing: a process that has just started is   *)
(* at version -1 and takes any delta, one meant for its predecessor too.   *)
(* Registrations, worker threads, failure detection and the statestored's  *)
(* own idea of a subscriber's version are in the module Statestore, which  *)
(* implements this one.                                                    *)
(*                                                                         *)
(* A Put() of several entries is several Put steps here: between them the  *)
(* topic's lock is free in the model, which only adds behaviours.          *)
(***************************************************************************)
EXTENDS Topic

CONSTANTS Subs,        \* the subscribers of the topic
          MaxVersion,  \* bound: changes to the topic
          MaxDeltas    \* bound: updates under way at any time

ASSUME ReplicationConstants ==
    /\ MaxVersion \in Nat
    /\ MaxDeltas \in Nat

VARIABLES
    topic,    \* the statestored's topic
    copy,     \* the contents a subscriber's callbacks have built
    version,  \* TopicRegistration::current_topic_version of a subscriber
    base,     \* the version a copy was begun above: 0 after a full update (history)
    deltas,   \* the UpdateState() calls under way: [sub, delta]
    cleared   \* has a publisher ever cleared the topic?  (history)

vars == <<topic, copy, version, base, deltas, cleared>>

Delta == [is_delta : BOOLEAN, from : Nat, to : Nat,
          items : [Keys -> Values \cup {None, NoItem, Deleted}]]

Call == [sub : Subs, delta : Delta]

TypeOK ==
    /\ topic \in Topics
    /\ copy \in [Subs -> [Keys -> Values \cup {None}]]
    /\ version \in [Subs -> Nat \cup {-1}]
    /\ base \in [Subs -> Nat]
    /\ deltas \subseteq Call
    /\ cleared \in BOOLEAN

Init ==
    /\ topic = EmptyTopic
    /\ copy = [s \in Subs |-> [k \in Keys |-> None]]
    /\ version = [s \in Subs |-> -1]
    /\ base = [s \in Subs |-> TOPIC_INITIAL_VERSION]
    /\ deltas = {}
    /\ cleared = FALSE
-----------------------------------------------------------------------------
\* A publisher's entry reaches the topic.
PutEntry(k, value, deleted) ==
    /\ topic.last < MaxVersion
    /\ topic' = Put(topic, k, value, deleted)
    /\ UNCHANGED <<copy, version, base, deltas, cleared>>

\* A transient entry is removed with the registration that published it.
DeleteEntry(k, v) ==
    /\ topic.last < MaxVersion
    /\ topic' = DeleteIfVersionsMatch(topic, v, k)
    /\ UNCHANGED <<copy, version, base, deltas, cleared>>

\* A publisher starts over (clear_topic_entries).
ClearEntries ==
    /\ topic' = ClearAllEntries(topic)
    /\ cleared' = TRUE
    /\ UNCHANGED <<copy, version, base, deltas>>

\* The statestored sends an update on top of whichever version it believes in.
SendUpdate(s, from) ==
    /\ Cardinality(deltas) < MaxDeltas
    /\ deltas' = deltas \cup {[sub |-> s, delta |-> BuildDelta(topic, from)]}
    /\ UNCHANGED <<topic, copy, version, base, cleared>>

\* The version a copy is begun above when an update is processed.
BaseAfter(s, d) ==
    IF ~d.is_delta THEN TOPIC_INITIAL_VERSION
    ELSE IF version[s] = -1 THEN d.from ELSE base[s]

\* Mutant: a delta is applied on top of any version.
ProcessAnyUpdate(c) ==
    /\ copy' = [copy EXCEPT ![c.sub] = ApplyDelta(copy[c.sub], c.delta)]
    /\ version' = [version EXCEPT ![c.sub] = c.delta.to]
    /\ base' = [base EXCEPT ![c.sub] = BaseAfter(c.sub, c.delta)]
    /\ deltas' = deltas \ {c}
    /\ UNCHANGED <<topic, cleared>>

\* The subscriber processes an update, unless it is a delta for another version than the
\* one it is at; at -1 it has none.  A repeated request is still under way.
ProcessUpdate(c) ==
    /\ c.delta.is_delta => version[c.sub] \in {-1, c.delta.from}
    /\ copy' = [copy EXCEPT ![c.sub] = ApplyDelta(copy[c.sub], c.delta)]
    /\ version' = [version EXCEPT ![c.sub] = c.delta.to]
    /\ base' = [base EXCEPT ![c.sub] = BaseAfter(c.sub, c.delta)]
    /\ deltas' \in {deltas, deltas \ {c}}
    /\ UNCHANGED <<topic, cleared>>

\* Updates are skipped or refused, or lost, together when a process ends.
DropUpdates(lost) ==
    /\ deltas' = deltas \ lost
    /\ UNCHANGED <<topic, copy, version, base, cleared>>

\* The subscriber's process starts again, with nothing.  Updates that were under way to the
\* old process, or are sent before the statestored knows the new one, may reach it.
RestartSubscriber(s) ==
    /\ copy' = [copy EXCEPT ![s] = [k \in Keys |-> None]]
    /\ version' = [version EXCEPT ![s] = -1]
    /\ base' = [base EXCEPT ![s] = TOPIC_INITIAL_VERSION]
    /\ UNCHANGED <<topic, deltas, cleared>>

Next ==
    \/ \E k \in Keys, value \in Values, deleted \in BOOLEAN :
         PutEntry(k, value, deleted)
    \/ \E k \in Keys, v \in 1..topic.last : DeleteEntry(k, v)
    \/ ClearEntries
    \/ \E s \in Subs, from \in 0..topic.last : SendUpdate(s, from)
    \/ \E c \in deltas : ProcessUpdate(c)
    \/ \E lost \in SUBSET deltas : DropUpdates(lost)
    \/ \E s \in Subs : RestartSubscriber(s)

Spec == Init /\ [][Next]_vars
-----------------------------------------------------------------------------
(***************************************************************************)
(* The update log lists every entry exactly once, under its own version,   *)
(* and no two entries share a version: what BuildDelta()'s walk of the log *)
(* above a version relies on (DCHECK(itr != entries_.end()) included).     *)
(***************************************************************************)
LogMatchesEntries ==
    /\ topic.log = {<<topic.entries[k].version, k>> : k \in {j \in Keys : HasEntry(topic, j)}}
    /\ \A k, j \in Keys : HasEntry(topic, k) /\ topic.entries[k].version
                             = topic.entries[j].version => k = j
    /\ \A k \in Keys : topic.entries[k].version <= topic.last
    /\ topic.log # {} => \E k \in Keys : <<topic.last, k>> \in topic.log

(***************************************************************************)
(* An update under way stays true: of every entry not changed since the    *)
(* update was built it says what the topic says, and only on a topic that  *)
(* was cleared may it still mention a key that has no entry.  This is      *)
(* why a late or repeated UpdateState() cannot corrupt a copy.             *)
(***************************************************************************)
UpdatesStayTrue ==
    \A c \in deltas : LET d == c.delta IN
        /\ d.is_delta <=> d.from > TOPIC_INITIAL_VERSION
        /\ d.to <= topic.last
        /\ \A k \in Keys :
              IF HasEntry(topic, k)
                THEN topic.entries[k].version <= d.to =>
                       d.items[k] = IF topic.entries[k].version <= d.from THEN NoItem
                                    ELSE IF ~topic.entries[k].deleted
                                           THEN topic.entries[k].value
                                    ELSE IF d.is_delta THEN Deleted ELSE NoItem
                ELSE ~cleared => d.items[k] = NoItem

\* The topic as far as a copy that was begun above version v has heard of it.
ViewAbove(t, v) ==
    [k \in Keys |-> IF t.entries[k].version > v THEN View(t)[k] ELSE None]

(***************************************************************************)
(* A subscriber at version v agrees with the topic on every entry whose    *)
(* latest change is not above v, whatever was lost, refused, reordered or  *)
(* cleared on the way: current_topic_version never promises more than the  *)
(* callbacks have applied.  The one exception is a copy that was begun     *)
(* with a delta, which a process does that is at version -1: it lacks      *)
(* exactly the entries up to that delta's from_version, and the next full  *)
(* update brings them.                                                     *)
(***************************************************************************)
CopyAgrees ==
    \A s \in Subs, k \in Keys :
        HasEntry(topic, k) /\ topic.entries[k].version <= version[s]
            => copy[s][k] = ViewAbove(topic, base[s])[k]

(***************************************************************************)
(* On a topic nobody cleared, a subscriber that is at the topic's latest   *)
(* version has exactly the topic's contents, from the version on its copy  *)
(* was begun above (the whole topic, if with a full update): no stale      *)
(* entry survives, not even in a process that took a delta of its          *)
(* predecessor.                                                            *)
(***************************************************************************)
CaughtUpIsExact ==
    ~cleared => \A s \in Subs :
        version[s] = LogVersion(topic) => copy[s] = ViewAbove(topic, base[s])
=============================================================================

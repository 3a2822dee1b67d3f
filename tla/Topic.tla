------------------------------- MODULE Topic -------------------------------
(***************************************************************************)
(* The statestored's Topic object (statestore.h, class Topic): a versioned *)
(* map of entries, and a log that lists every entry once, under the        *)
(* version of its latest change.  Every operation below is one critical    *)
(* section of the topic's lock_, as a function from the old topic to the   *)
(* new one.                                                                *)
(*                                                                         *)
(* A topic is a record:                                                    *)
(*   entries  entries_: key -> the entry's value, version, deleted flag;   *)
(*            a key that is not in the map has version 0 (NoEntry)         *)
(*   log      topic_update_log_: the pairs <<version, key>>                *)
(*   last     last_version_                                                *)
(*                                                                         *)
(* A delta is TTopicDelta.  Its list of items is a function on the keys:   *)
(* what the list says of a key, or NoItem when it does not mention it.     *)
(***************************************************************************)
EXTENDS Integers, FiniteSets

CONSTANTS Keys,     \* the entry keys of the topic
          Values,   \* the values an entry can have
          None,     \* no value: the key is not in the map
          NoItem,   \* the key is not mentioned in a delta
          Deleted   \* the item's deleted flag is set

ASSUME TopicConstants ==
    /\ None \notin Values
    /\ NoItem \notin Values \cup {None, Deleted}
    /\ Deleted \notin Values \cup {None, NoItem}

\* Statestore::Subscriber::TOPIC_INITIAL_VERSION
TOPIC_INITIAL_VERSION == 0

NoEntry == [value |-> None, version |-> 0, deleted |-> FALSE]

Entry == [value : Values \cup {None}, version : Nat, deleted : BOOLEAN]

Topics == [entries : [Keys -> Entry], log : SUBSET (Nat \X Keys), last : Nat]

EmptyTopic == [entries |-> [k \in Keys |-> NoEntry], log |-> {}, last |-> 0]

HasEntry(t, k) == t.entries[k].version # 0

\* What a reader of the whole topic sees: the value of every live entry.
View(t) == [k \in Keys |-> IF HasEntry(t, k) /\ ~t.entries[k].deleted
                             THEN t.entries[k].value ELSE None]
-----------------------------------------------------------------------------
\* Mutant: the old version stays in the log.
PutKeepsOldVersion(t, k, value, deleted) ==
    [entries |-> [t.entries EXCEPT ![k] = [value |-> value, version |-> t.last + 1,
                                           deleted |-> deleted]],
     log |-> t.log \cup {<<t.last + 1, k>>},
     last |-> t.last + 1]

(***************************************************************************)
(* An entry changes: its old version leaves the log, the entry gets the    *)
(* next version of the topic and the log lists it there.  This is one      *)
(* iteration of the loop of Topic::Put().                                  *)
(***************************************************************************)
Put(t, k, value, deleted) ==
    LET version == t.last + 1
        unlogged == IF HasEntry(t, k)
                      THEN {e \in t.log : e[1] # t.entries[k].version}
                      ELSE t.log
    IN  [entries |-> [t.entries EXCEPT ![k] = [value |-> value, version |-> version,
                                               deleted |-> deleted]],
         log |-> unlogged \cup {<<version, k>>},
         last |-> version]

(***************************************************************************)
(* Topic::DeleteIfVersionsMatch(): unless somebody changed the entry since *)
(* `version', it changes to deleted, and keeps its value.                  *)
(***************************************************************************)
DeleteIfVersionsMatch(t, version, k) ==
    IF HasEntry(t, k) /\ t.entries[k].version = version
      THEN Put(t, k, t.entries[k].value, TRUE)
      ELSE t

(***************************************************************************)
(* Topic::ClearAllEntries(): entries and log go, last_version_ stays.      *)
(***************************************************************************)
ClearAllEntries(t) == [t EXCEPT !.entries = [k \in Keys |-> NoEntry], !.log = {}]

\* The largest version in the log, TOPIC_INITIAL_VERSION when it is empty.
LogVersion(t) ==
    IF t.log = {} THEN TOPIC_INITIAL_VERSION
    ELSE CHOOSE v \in {e[1] : e \in t.log} : \A e \in t.log : e[1] <= v

\* Mutants: lower_bound() for upper_bound(), and deletions that are never sent.
BuildDeltaFromOne(t, from) ==
    [is_delta |-> from > TOPIC_INITIAL_VERSION, from |-> from, to |-> LogVersion(t),
     items |-> [k \in Keys |-> IF \E e \in t.log : e[1] >= from /\ e[2] = k
                                 THEN t.entries[k].value ELSE NoItem]]

BuildDeltaNoDeletions(t, from) ==
    [is_delta |-> from > TOPIC_INITIAL_VERSION, from |-> from, to |-> LogVersion(t),
     items |-> [k \in Keys |-> IF \E e \in t.log : e[1] > from /\ e[2] = k
                                     /\ ~t.entries[k].deleted
                                 THEN t.entries[k].value ELSE NoItem]]

(***************************************************************************)
(* Topic::BuildDelta() for a subscriber that is believed to have processed *)
(* `from': the entries logged above it.  Deleted entries are only sent in  *)
(* a delta, not in a full update.  (No filter_prefix.)                     *)
(***************************************************************************)
BuildDelta(t, from) ==
    LET is_delta == from > TOPIC_INITIAL_VERSION
        Item(k) == IF ~t.entries[k].deleted THEN t.entries[k].value
                   ELSE IF is_delta THEN Deleted ELSE NoItem
    IN  [is_delta |-> is_delta, from |-> from, to |-> LogVersion(t),
         items |-> [k \in Keys |-> IF \E e \in t.log : e[1] > from /\ e[2] = k
                                     THEN Item(k) ELSE NoItem]]

\* Mutant: a full update is applied on top of the old copy.
ApplyOnTop(copy, d) ==
    [k \in Keys |-> IF d.items[k] = NoItem THEN copy[k]
                    ELSE IF d.items[k] = Deleted THEN None ELSE d.items[k]]

(***************************************************************************)
(* What a subscriber's callback makes of its copy when it processes a      *)
(* delta: a full update starts from an empty copy.                         *)
(***************************************************************************)
ApplyDelta(copy, d) ==
    LET base == IF d.is_delta THEN copy ELSE [k \in Keys |-> None]
    IN  [k \in Keys |-> IF d.items[k] = NoItem THEN base[k]
                        ELSE IF d.items[k] = Deleted THEN None
                        ELSE d.items[k]]
=============================================================================

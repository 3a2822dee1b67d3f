----------------------- MODULE ClusterMembershipProofs -----------------------
(***************************************************************************)
(* Proofs about the snapshots of one impalad's ClusterMembershipMgr, for   *)
(* any number of impalads, incarnations, queries and faults: GroupIsExact  *)
(* and CancelledHadFailed of ClusterMembership.                            *)
(***************************************************************************)
EXTENDS ClusterMembership, TLAPS

-----------------------------------------------------------------------------
(* The inductive invariant.                                                *)

\* This impalad runs once and does not crash.
LocalInv == up[LocalAddress].inc = 1 /\ up[LocalAddress].st # "down"

\* b has begun to shut down, or is gone.
Past(b) ==
    \/ b[2] < up[b[1]].inc
    \/ b[2] = up[b[1]].inc /\ up[b[1]].st \in {"quiescing", "down"}

\* The topic has one incarnation of an impalad at most, and knows none that
\* has not been started.
TopicInv ==
    /\ \A b \in Ids : topic[b] # "none" => b[2] <= up[b[1]].inc
    /\ \A b, c \in Ids : b[1] = c[1] /\ topic[b] # "none" /\ topic[c] # "none" => b = c
    /\ \A b \in Ids \ {Local} : topic[b] = "quiescing" => Past(b)

\* So has a snapshot; a backend in it that shuts down never runs again.
BackendsInv(s) ==
    /\ \A b, c \in Ids : b[1] = c[1] /\ s.backends[b] # "none" /\ s.backends[c] # "none" => b = c
    /\ \A b \in Ids \ {Local} : s.backends[b] = "quiescing" => topic[b] # "running" /\ Past(b)

\* Only backends that run are on the blacklist or on probation.
ListInv(s) == \A b \in Ids : s.blacklist[b] # "none" => b # Local /\ s.backends[b] = "running"

SnapshotInv(s) == BackendsInv(s) /\ (~mixed => IsExact(s) /\ ListInv(s))

\* When b is missing in the topic the statestore declared it failed or did
\* not have it when a grace period ended, but for the grace period of a
\* recovery.
Accounted(b) == b = Local \/ topic[b] # "none" \/ grace \/ b \in failed

\* The backends a query may be scheduled on are accounted for.
UsedInv(s) ==
    /\ \A a \in Addresses : s.group[a] # None => Accounted(s.group[a])
    /\ \A b \in Ids : s.blacklist[b] # "none" => Accounted(b)

QueryInv ==
    /\ \A q \in Queries :
          /\ query[q].st # "idle" => query[q].at \in Ids /\ Accounted(query[q].at)
          /\ query[q].at = Local => up[LocalAddress].st \in Present
    /\ \A q \in pool : query[q].st # "idle"

IInv ==
    /\ TypeOK /\ LocalInv /\ TopicInv /\ QueryInv
    /\ SnapshotInv(cur) /\ UsedInv(cur)
    /\ Recovering => SnapshotInv(rec) /\ UsedInv(rec)

-----------------------------------------------------------------------------
(* Identifiers and executor groups.                                        *)

LEMMA IdFacts ==
    /\ LocalAddress \in Addresses /\ Local \in Ids /\ Local[1] = LocalAddress /\ Local[2] = 1
    /\ MaxInc \in Nat /\ MaxFaults \in Nat /\ MaxInc >= 1
    /\ \A b \in Ids : /\ b[1] \in Addresses /\ b[2] \in 1..MaxInc /\ b = <<b[1], b[2]>>
                      /\ b # None
                      /\ b[1] = LocalAddress => b = Local
                      /\ b # Local => b[1] \in Remotes
    /\ \A b, c \in Ids : b[1] = c[1] /\ b[2] = c[2] => b = c
    /\ \A a \in Remotes, n \in 1..MaxInc : <<a, n>> \in Ids
<1>1. /\ LocalAddress \notin Remotes /\ MaxInc \in Nat /\ MaxFaults \in Nat /\ MaxInc >= 1
  BY ConstantsAssumption DEF ConstantsAssumption
<1>2. \A b \in Ids : /\ b[1] \in Addresses /\ b[2] \in 1..MaxInc /\ b = <<b[1], b[2]>>
                     /\ b[1] = LocalAddress => b = Local
                     /\ b # Local => b[1] \in Remotes
  BY <1>1 DEF Ids, Addresses, Local
<1>3. \A b \in Ids : b # None
  <2>1. \A x, y : <<x, y>> # <<>>
    OBVIOUS
  <2> QED
    BY <1>2, <2>1 DEF None
<1> QED
  BY <1>1, <1>2, <1>3 DEF Ids, Addresses, Local

LEMMA AddFacts ==
    ASSUME NEW group, NEW B, NEW a \in Addresses
    PROVE  \/ /\ AddExecutors(group, B)[a] = group[a]
              /\ group[a] # None \/ \A b \in B : b[1] # a
           \/ /\ group[a] = None
              /\ \E b \in B : b[1] = a /\ AddExecutors(group, B)[a] = b
<1> DEFINE c == CHOOSE b \in B : b[1] = a
<1>1. AddExecutors(group, B)[a] = IF group[a] = None /\ \E b \in B : b[1] = a THEN c ELSE group[a]
  BY DEF AddExecutors
<1>2. (\E b \in B : b[1] = a) => c \in B /\ c[1] = a
  OBVIOUS
<1> HIDE DEF c
<1> QED
  BY <1>1, <1>2

LEMMA RemoveFacts ==
    ASSUME NEW group, NEW B, NEW a \in Addresses
    PROVE  RemoveExecutors(group, B)[a] = IF \E b \in B : b[1] = a THEN None ELSE group[a]
BY DEF RemoveExecutors

LEMMA GroupTypes ==
    ASSUME NEW group \in [Addresses -> Ids \cup {None}], NEW B \in SUBSET Ids
    PROVE  /\ AddExecutors(group, B) \in [Addresses -> Ids \cup {None}]
           /\ RemoveExecutors(group, B) \in [Addresses -> Ids \cup {None}]
<1>1. \A a \in Addresses : AddExecutors(group, B)[a] \in Ids \cup {None}
  BY AddFacts
<1>2. AddExecutors(group, B) = [a \in Addresses |-> AddExecutors(group, B)[a]]
  BY DEF AddExecutors
<1>3. AddExecutors(group, B) \in [Addresses -> Ids \cup {None}]
  BY <1>1, <1>2
<1> QED
  BY <1>3 DEF RemoveExecutors

\* The fields of a snapshot.
LEMMA SnapshotFields ==
    ASSUME NEW s \in SnapshotType
    PROVE  /\ s.backends \in [Ids -> Present \cup {"none"}]
           /\ s.group \in [Addresses -> Ids \cup {None}]
           /\ s.blacklist \in [Ids -> OnBlacklist \cup OnProbation \cup {"none"}]
           /\ s.local \in BOOLEAN
BY DEF SnapshotType

LEMMA EmptyFacts ==
    /\ EmptySnapshot \in SnapshotType /\ ~EmptySnapshot.local
    /\ \A b \in Ids : EmptySnapshot.backends[b] = "none" /\ EmptySnapshot.blacklist[b] = "none"
    /\ \A a \in Addresses : EmptySnapshot.group[a] = None
BY DEF EmptySnapshot, SnapshotType

\* What an empty snapshot satisfies.
LEMMA EmptyInv == SnapshotInv(EmptySnapshot) /\ UsedInv(EmptySnapshot)
<1>1. BackendsInv(EmptySnapshot) /\ ListInv(EmptySnapshot) /\ UsedInv(EmptySnapshot)
  BY EmptyFacts DEF BackendsInv, ListInv, UsedInv
<1>2. IsExact(EmptySnapshot)
  BY EmptyFacts DEF IsExact, Available
<1> QED
  BY <1>1, <1>2 DEF SnapshotInv

-----------------------------------------------------------------------------
(* What UpdateMembership() makes of a snapshot.                            *)

Deleted(s) == {b \in Ids : s.backends[b] # "none" /\ topic[b] = "none"}
Quiesced(s) == {b \in Ids \ {Local} : s.backends[b] = "running" /\ topic[b] = "quiescing"}
Created(s) == {b \in Ids \ {Local} : s.backends[b] = "none" /\ topic[b] = "running"}
Leaving(s) == {b \in Deleted(s) \cup Quiesced(s) : s.backends[b] = "running" /\ b \notin Blacklisted(s)}

LEMMA UpdateFields ==
    ASSUME NEW s \in SnapshotType, topic \in [Ids -> Present \cup {"none"}]
    PROVE  LET p == ProcessUpdate(s) IN
           /\ p \in SnapshotType
           /\ p.local = s.local
           /\ \A b \in Ids : p.backends[b] =
                 IF b = Local /\ b \notin Deleted(s) THEN s.backends[b] ELSE topic[b]
           /\ p.group = AddExecutors(RemoveExecutors(s.group, Leaving(s)), Created(s))
           /\ \A b \in Ids : p.blacklist[b] =
                 IF b \in Deleted(s) \cup Quiesced(s) THEN "none" ELSE s.blacklist[b]
<1> DEFINE p == ProcessUpdate(s)
           bs == [b \in Ids |-> IF b = Local /\ b \notin Deleted(s) THEN s.backends[b] ELSE topic[b]]
           g == AddExecutors(RemoveExecutors(s.group, Leaving(s)), Created(s))
           bl == FindAndRemove(s.blacklist, Deleted(s) \cup Quiesced(s))
<1>0. /\ s.backends \in [Ids -> Present \cup {"none"}]
      /\ s.group \in [Addresses -> Ids \cup {None}]
      /\ s.blacklist \in [Ids -> OnBlacklist \cup OnProbation \cup {"none"}]
      /\ s.local \in BOOLEAN
  BY SnapshotFields
<1>1. p = [s EXCEPT !.backends = bs, !.group = g, !.blacklist = bl]
  BY DEF ProcessUpdate, Deleted, Quiesced, Created, Leaving, SnapshotType
<1>2. bs \in [Ids -> Present \cup {"none"}]
  BY <1>0
<1>3. g \in [Addresses -> Ids \cup {None}]
  BY <1>0, GroupTypes DEF Leaving, Created, Deleted, Quiesced
<1>4. bl \in [Ids -> OnBlacklist \cup OnProbation \cup {"none"}]
  BY <1>0 DEF FindAndRemove
<1> HIDE DEF bs, g, bl, p
<1>5. /\ p \in SnapshotType /\ p.local = s.local /\ p.backends = bs /\ p.group = g /\ p.blacklist = bl
  BY <1>0, <1>1, <1>2, <1>3, <1>4 DEF SnapshotType
<1> USE DEF bs, g, bl
<1> QED
  BY <1>5 DEF FindAndRemove, p

\* The backends of one address.
LEMMA OneAtAddress ==
    ASSUME NEW s, BackendsInv(s), NEW a \in Addresses, NEW b \in Available(s, a), NEW c \in Ids,
           c[1] = a, s.backends[c] # "none"
    PROVE  c = b
BY DEF BackendsInv, Available

LEMMA UpdateInv ==
    ASSUME NEW s \in SnapshotType, TypeOK, TopicInv, SnapshotInv(s)
    PROVE  SnapshotInv(ProcessUpdate(s))
<1>p. PICK p : p = ProcessUpdate(s)
  OBVIOUS
<1>t. topic \in [Ids -> Present \cup {"none"}]
  BY DEF TypeOK
<1>0. /\ p \in SnapshotType
      /\ \A b \in Ids : p.backends[b] =
            IF b = Local /\ b \notin Deleted(s) THEN s.backends[b] ELSE topic[b]
      /\ p.group = AddExecutors(RemoveExecutors(s.group, Leaving(s)), Created(s))
      /\ \A b \in Ids : p.blacklist[b] =
            IF b \in Deleted(s) \cup Quiesced(s) THEN "none" ELSE s.blacklist[b]
  BY <1>p, <1>t, UpdateFields
<1>s. \A b \in Ids : /\ s.backends[b] \in {"running", "quiescing", "none"}
                     /\ topic[b] \in {"running", "quiescing", "none"}
  BY <1>t, SnapshotFields DEF Present
<1>1. BackendsInv(p)
  <2>1. ASSUME NEW b \in Ids, NEW c \in Ids, b[1] = c[1], p.backends[b] # "none", p.backends[c] # "none"
        PROVE  b = c
    BY <1>0, <2>1, IdFacts DEF TopicInv
  <2>2. ASSUME NEW b \in Ids \ {Local}, p.backends[b] = "quiescing"
        PROVE  topic[b] # "running" /\ Past(b)
    BY <1>0, <2>2 DEF TopicInv
  <2> QED
    BY <2>1, <2>2 DEF BackendsInv
<1>2. ASSUME ~mixed PROVE ListInv(p)
  <2> SUFFICES ASSUME NEW b \in Ids, p.blacklist[b] # "none"
               PROVE  b # Local /\ p.backends[b] = "running"
    BY DEF ListInv
  <2>1. b \notin Deleted(s) \cup Quiesced(s) /\ b # Local /\ s.backends[b] = "running"
    BY <1>0, <1>2 DEF SnapshotInv, ListInv
  <2> QED
    BY <1>0, <1>s, <2>1 DEF Deleted, Quiesced
<1>3. ASSUME ~mixed, NEW a \in Addresses
      PROVE  IF Available(p, a) = {} THEN p.group[a] = None ELSE p.group[a] \in Available(p, a)
  <2> DEFINE g == RemoveExecutors(s.group, Leaving(s))[a]
  <2>0. BackendsInv(s) /\ IsExact(s) /\ ListInv(s)
    BY <1>3 DEF SnapshotInv
  <2>1. g = IF \E b \in Leaving(s) : b[1] = a THEN None ELSE s.group[a]
    BY RemoveFacts
  <2>2. \/ p.group[a] = g /\ (g # None \/ \A b \in Created(s) : b[1] # a)
        \/ g = None /\ \E b \in Created(s) : b[1] = a /\ p.group[a] = b
    BY <1>0, AddFacts
  <2>3. IF Available(s, a) = {} THEN s.group[a] = None ELSE s.group[a] \in Available(s, a)
    BY <2>0 DEF IsExact
  <2>a. \A b : b \in Available(s, a) <=> /\ b \in Ids /\ b[1] = a /\ s.backends[b] = "running"
                                         /\ s.blacklist[b] \notin OnBlacklist
    BY DEF Available, Blacklisted
  <2>b. \A b : b \in Available(p, a) <=> /\ b \in Ids /\ b[1] = a /\ p.backends[b] = "running"
                                         /\ p.blacklist[b] \notin OnBlacklist
    BY DEF Available, Blacklisted
  <2> HIDE DEF g
  <2>4. CASE a = LocalAddress
    <3>1. \A b \in Ids : b[1] = a => b = Local
      BY <2>4, IdFacts
    <3>2. s.blacklist[Local] = "none"
      BY <2>0, IdFacts DEF ListInv
    <3>3. p.group[a] = g
      BY <2>2, <3>1 DEF Created
    <3>4. CASE Local \in Deleted(s)
      <4>1. p.backends[Local] = "none"
        BY <1>0, <3>4, IdFacts DEF Deleted
      <4>2. Available(p, a) = {}
        BY <2>b, <3>1, <4>1
      <4>3. g = None
        <5>1. CASE s.backends[Local] = "running"
          <6>1. Local \in Leaving(s)
            BY <3>2, <3>4, <5>1, IdFacts DEF Leaving, Blacklisted, OnBlacklist
          <6> QED
            BY <2>1, <2>4, <6>1, IdFacts
        <5>2. CASE s.backends[Local] # "running"
          BY <2>1, <2>3, <2>a, <3>1, <5>2
        <5> QED
          BY <5>1, <5>2
      <4> QED
        BY <3>3, <4>2, <4>3
    <3>5. CASE Local \notin Deleted(s)
      <4>1. p.backends[Local] = s.backends[Local] /\ p.blacklist[Local] = s.blacklist[Local]
        BY <1>0, <3>5, IdFacts DEF Quiesced
      <4>2. Available(p, a) = Available(s, a)
        BY <2>a, <2>b, <3>1, <4>1
      <4>3. g = s.group[a]
        <5>1. \A b \in Leaving(s) : b \in Ids /\ b # Local
          BY <3>5 DEF Leaving, Deleted, Quiesced
        <5> QED
          BY <2>1, <3>1, <5>1
      <4> QED
        BY <2>3, <3>3, <4>2, <4>3
    <3> QED
      BY <3>4, <3>5
  <2>5. CASE a # LocalAddress
    <3>0. \A b \in Ids : b[1] = a => b # Local /\ p.backends[b] = topic[b]
      BY <1>0, <2>5, IdFacts
    <3>1. CASE g # None
      <4>1. s.group[a] \in Available(s, a) /\ g = s.group[a]
        BY <2>1, <2>3, <3>1
      <4>2. PICK c : c = g /\ c \in Available(s, a)
        BY <4>1
      <4>3. c \notin Leaving(s) /\ c \in Ids /\ c[1] = a
        BY <2>1, <2>a, <3>1, <4>2
      <4>4. c \notin Deleted(s) \cup Quiesced(s) /\ c # Local
        BY <2>a, <3>0, <4>2, <4>3 DEF Leaving, Blacklisted
      <4>5. topic[c] = "running"
        BY <1>s, <2>a, <4>2, <4>3, <4>4 DEF Deleted, Quiesced
      <4>6. c \in Available(p, a)
        BY <1>0, <2>a, <2>b, <3>0, <4>2, <4>3, <4>4, <4>5
      <4> QED
        BY <2>2, <3>1, <4>2, <4>6
    <3>2. ASSUME g = None, NEW b \in Created(s), b[1] = a, p.group[a] = b
          PROVE  b \in Available(p, a)
      <4>1. /\ b \in Ids /\ s.backends[b] = "none" /\ topic[b] = "running"
            /\ s.blacklist[b] = "none"
        BY <2>0, <3>2 DEF Created, ListInv
      <4>2. p.blacklist[b] = "none" /\ p.backends[b] = "running"
        BY <1>0, <3>0, <3>2, <4>1
      <4> QED
        BY <2>b, <3>2, <4>1, <4>2 DEF OnBlacklist
    <3>3. ASSUME g = None, \A b \in Created(s) : b[1] # a
          PROVE  Available(p, a) = {}
      <4> SUFFICES ASSUME NEW b \in Available(p, a) PROVE FALSE
        OBVIOUS
      <4>1. /\ b \in Ids /\ b[1] = a /\ topic[b] = "running" /\ b # Local
            /\ p.blacklist[b] \notin OnBlacklist
        BY <2>b, <3>0
      <4>2. s.backends[b] # "none"
        BY <3>3, <4>1 DEF Created
      <4>3. s.backends[b] = "running"
        BY <1>s, <2>0, <4>1, <4>2 DEF BackendsInv
      <4>4. b \notin Deleted(s) \cup Quiesced(s)
        BY <4>1 DEF Deleted, Quiesced
      <4>5. b \in Available(s, a)
        BY <1>0, <2>a, <4>1, <4>3, <4>4
      <4>6. s.group[a] = b
        <5>1. s.group[a] \in Available(s, a)
          BY <2>3, <4>5
        <5> QED
          BY <2>0, <2>a, <4>1, <4>2, <5>1, OneAtAddress
      <4>7. PICK c \in Leaving(s) : c[1] = a
        BY <2>1, <3>3, <4>1, <4>6, IdFacts
      <4>8. c = b
        BY <2>0, <4>1, <4>3, <4>7 DEF Leaving, Deleted, Quiesced, BackendsInv
      <4> QED
        BY <4>4, <4>7, <4>8 DEF Leaving
    <3> QED
      BY <2>2, <3>1, <3>2, <3>3
  <2> QED
    BY <2>4, <2>5
<1> QED
  BY <1>p, <1>1, <1>2, <1>3 DEF SnapshotInv, IsExact

LEMMA MaintenanceFields ==
    ASSUME NEW s \in SnapshotType
    PROVE  LET p == Maintenance(s) IN
           /\ p \in SnapshotType
           /\ p.local = s.local /\ p.backends = s.backends
           /\ p.group = AddExecutors(s.group, {b \in Ids : s.blacklist[b] = "expired"})
           /\ \A b \in Ids :
                 /\ s.blacklist[b] = "expired" => p.blacklist[b] = "probation"
                 /\ s.blacklist[b] = "lapsed" => p.blacklist[b] = "none"
                 /\ s.blacklist[b] \notin {"expired", "lapsed"} => p.blacklist[b] = s.blacklist[b]
<1> DEFINE p == Maintenance(s)
           g == AddExecutors(s.group, {b \in Ids : s.blacklist[b] = "expired"})
           bl == [b \in Ids |-> CASE s.blacklist[b] = "expired" -> "probation"
                                  [] s.blacklist[b] = "lapsed" -> "none"
                                  [] OTHER -> s.blacklist[b]]
<1>0. /\ s.backends \in [Ids -> Present \cup {"none"}]
      /\ s.group \in [Addresses -> Ids \cup {None}]
      /\ s.blacklist \in [Ids -> OnBlacklist \cup OnProbation \cup {"none"}]
      /\ s.local \in BOOLEAN
  BY SnapshotFields
<1>1. p = [s EXCEPT !.group = g, !.blacklist = bl]
  BY DEF Maintenance, SnapshotType
<1>2. g \in [Addresses -> Ids \cup {None}]
  BY <1>0, GroupTypes
<1>3. \A b \in Ids :
          /\ s.blacklist[b] = "expired" => bl[b] = "probation"
          /\ s.blacklist[b] = "lapsed" => bl[b] = "none"
          /\ s.blacklist[b] \notin {"expired", "lapsed"} => bl[b] = s.blacklist[b]
  OBVIOUS
<1>4. bl \in [Ids -> OnBlacklist \cup OnProbation \cup {"none"}]
  <2>1. \A b \in Ids : bl[b] \in OnBlacklist \cup OnProbation \cup {"none"}
    BY <1>0, <1>3 DEF OnProbation
  <2> QED
    BY <2>1
<1> HIDE DEF g, bl, p
<1>5. /\ p \in SnapshotType /\ p.local = s.local /\ p.backends = s.backends /\ p.group = g
      /\ p.blacklist = bl
  BY <1>0, <1>1, <1>2, <1>4 DEF SnapshotType
<1> QED
  BY <1>3, <1>5 DEF p, g

LEMMA MaintenanceInv ==
    ASSUME NEW s \in SnapshotType, SnapshotInv(s)
    PROVE  SnapshotInv(Maintenance(s))
<1>p. PICK p : p = Maintenance(s)
  OBVIOUS
<1>e. PICK E : E = {b \in Ids : s.blacklist[b] = "expired"}
  OBVIOUS
<1>0. /\ p \in SnapshotType /\ p.backends = s.backends
      /\ p.group = AddExecutors(s.group, E)
      /\ \A b \in Ids :
            /\ s.blacklist[b] = "expired" => p.blacklist[b] = "probation"
            /\ s.blacklist[b] = "lapsed" => p.blacklist[b] = "none"
            /\ s.blacklist[b] \notin {"expired", "lapsed"} => p.blacklist[b] = s.blacklist[b]
  BY <1>p, <1>e, MaintenanceFields
<1>1. BackendsInv(p)
  BY <1>0 DEF SnapshotInv, BackendsInv
<1>2. ASSUME ~mixed PROVE ListInv(p)
  BY <1>0, <1>2 DEF SnapshotInv, ListInv
<1>3. ASSUME ~mixed, NEW a \in Addresses
      PROVE  IF Available(p, a) = {} THEN p.group[a] = None ELSE p.group[a] \in Available(p, a)
  <2>1. IF Available(s, a) = {} THEN s.group[a] = None ELSE s.group[a] \in Available(s, a)
    BY <1>3 DEF SnapshotInv, IsExact
  <2>a. \A b : b \in Available(s, a) <=> /\ b \in Ids /\ b[1] = a /\ s.backends[b] = "running"
                                         /\ s.blacklist[b] \notin OnBlacklist
    BY DEF Available, Blacklisted
  <2>b. \A b : b \in Available(p, a) <=> /\ b \in Ids /\ b[1] = a /\ s.backends[b] = "running"
                                         /\ p.blacklist[b] \notin OnBlacklist
    BY <1>0 DEF Available, Blacklisted
  <2>2. \A b \in Available(s, a) : b \in Available(p, a)
    BY <1>0, <2>a, <2>b DEF OnBlacklist
  <2>3. \/ p.group[a] = s.group[a] /\ (s.group[a] # None \/ \A b \in E : b[1] # a)
        \/ s.group[a] = None /\ \E b \in E : b[1] = a /\ p.group[a] = b
    BY <1>0, AddFacts
  <2>4. ASSUME NEW b \in E, b[1] = a PROVE b \in Available(p, a)
    BY <1>0, <1>3, <1>e, <2>4, <2>b DEF SnapshotInv, ListInv, OnBlacklist
  <2>5. CASE s.group[a] # None
    BY <2>1, <2>2, <2>3, <2>5
  <2>6. CASE \E b \in E : b[1] = a /\ p.group[a] = b
    BY <2>4, <2>6
  <2>7. CASE s.group[a] = None /\ p.group[a] = None /\ \A b \in E : b[1] # a
    <3>1. None \notin Ids
      BY IdFacts
    <3>2. Available(s, a) = {}
      BY <2>1, <2>a, <2>7, <3>1
    <3>3. Available(p, a) = {}
      BY <1>0, <1>e, <2>7, <2>a, <2>b, <3>2 DEF OnBlacklist
    <3> QED
      BY <2>7, <3>3
  <2> QED
    BY <2>3, <2>5, <2>6, <2>7
<1> QED
  BY <1>p, <1>1, <1>2, <1>3 DEF SnapshotInv, IsExact

LEMMA LocalFields ==
    ASSUME NEW s \in SnapshotType, LocalState # "none"
    PROVE  LET p == AddLocalBackend(s) IN
           /\ p \in SnapshotType /\ LocalState \in Present
           /\ p.local = s.local /\ p.blacklist = s.blacklist
           /\ p.backends[Local] = LocalState
           /\ \A b \in Ids \ {Local} : p.backends[b] = s.backends[b]
           /\ p.group[LocalAddress] =
                 IF LocalState = "quiescing" THEN None
                 ELSE IF s.group[LocalAddress] = None THEN Local ELSE s.group[LocalAddress]
           /\ \A a \in Remotes : p.group[a] = s.group[a]
<1> DEFINE p == AddLocalBackend(s)
           g == IF LocalState = "quiescing" THEN RemoveExecutors(s.group, {Local})
                                            ELSE AddExecutors(s.group, {Local})
           bs == [s.backends EXCEPT ![Local] = LocalState]
<1>0. /\ s.backends \in [Ids -> Present \cup {"none"}]
      /\ s.group \in [Addresses -> Ids \cup {None}]
      /\ s.blacklist \in [Ids -> OnBlacklist \cup OnProbation \cup {"none"}]
      /\ s.local \in BOOLEAN
  BY SnapshotFields
<1>1. p = [s EXCEPT !.backends = bs, !.group = g]
  BY DEF AddLocalBackend, SnapshotType
<1>2. LocalState \in Present
  BY DEF LocalState
<1>3. bs \in [Ids -> Present \cup {"none"}]
  BY <1>0, <1>2
<1>4. g \in [Addresses -> Ids \cup {None}]
  BY <1>0, GroupTypes, IdFacts
<1>5. /\ bs[Local] = LocalState /\ \A b \in Ids \ {Local} : bs[b] = s.backends[b]
  BY <1>0, IdFacts
<1>6. \A a \in Addresses :
        g[a] = IF a # LocalAddress THEN s.group[a]
               ELSE IF LocalState = "quiescing" THEN None
               ELSE IF s.group[a] = None THEN Local ELSE s.group[a]
  <2> SUFFICES ASSUME NEW a \in Addresses
               PROVE  g[a] = IF a # LocalAddress THEN s.group[a]
                             ELSE IF LocalState = "quiescing" THEN None
                             ELSE IF s.group[a] = None THEN Local ELSE s.group[a]
    OBVIOUS
  <2>1. Local[1] = LocalAddress
    BY IdFacts
  <2>2. CASE LocalState = "quiescing"
    BY <2>1, <2>2, RemoveFacts
  <2>3. CASE LocalState # "quiescing"
    <3>1. \/ /\ AddExecutors(s.group, {Local})[a] = s.group[a]
             /\ s.group[a] # None \/ \A b \in {Local} : b[1] # a
          \/ /\ s.group[a] = None
             /\ \E b \in {Local} : b[1] = a /\ AddExecutors(s.group, {Local})[a] = b
      BY AddFacts
    <3> QED
      BY <2>1, <2>3, <3>1
  <2> QED
    BY <2>2, <2>3
<1> HIDE DEF p, g, bs
<1>7. /\ p \in SnapshotType /\ p.local = s.local /\ p.backends = bs /\ p.group = g
      /\ p.blacklist = s.blacklist
  BY <1>0, <1>1, <1>3, <1>4 DEF SnapshotType
<1>8. LocalAddress \in Addresses /\ \A a \in Remotes : a \in Addresses /\ a # LocalAddress
  BY ConstantsAssumption DEF ConstantsAssumption, Addresses
<1> QED
  BY <1>2, <1>5, <1>6, <1>7, <1>8 DEF p

LEMMA AddLocalInv ==
    ASSUME NEW s \in SnapshotType, SnapshotInv(s), LocalState # "none"
    PROVE  SnapshotInv(AddLocalBackend(s))
<1>p. PICK p : p = AddLocalBackend(s)
  OBVIOUS
<1>0. /\ p \in SnapshotType /\ LocalState \in Present
      /\ p.blacklist = s.blacklist /\ p.backends[Local] = LocalState
      /\ \A b \in Ids \ {Local} : p.backends[b] = s.backends[b]
      /\ p.group[LocalAddress] =
            IF LocalState = "quiescing" THEN None
            ELSE IF s.group[LocalAddress] = None THEN Local ELSE s.group[LocalAddress]
      /\ \A a \in Remotes : p.group[a] = s.group[a]
  BY <1>p, LocalFields
<1>1. BackendsInv(p)
  <2>1. ASSUME NEW b \in Ids, NEW c \in Ids, b[1] = c[1], p.backends[b] # "none", p.backends[c] # "none"
        PROVE  b = c
    BY <1>0, <2>1, IdFacts DEF SnapshotInv, BackendsInv
  <2>2. ASSUME NEW b \in Ids \ {Local}, p.backends[b] = "quiescing"
        PROVE  topic[b] # "running" /\ Past(b)
    BY <1>0, <2>2 DEF SnapshotInv, BackendsInv
  <2> QED
    BY <2>1, <2>2 DEF BackendsInv
<1>2. ASSUME ~mixed PROVE ListInv(p)
  BY <1>0, <1>2 DEF SnapshotInv, ListInv
<1>3. ASSUME ~mixed, NEW a \in Addresses
      PROVE  IF Available(p, a) = {} THEN p.group[a] = None ELSE p.group[a] \in Available(p, a)
  <2>1. /\ IF Available(s, a) = {} THEN s.group[a] = None ELSE s.group[a] \in Available(s, a)
        /\ ListInv(s)
    BY <1>3 DEF SnapshotInv, IsExact
  <2>a. \A b : b \in Available(s, a) <=> /\ b \in Ids /\ b[1] = a /\ s.backends[b] = "running"
                                         /\ s.blacklist[b] \notin OnBlacklist
    BY DEF Available, Blacklisted
  <2>b. \A b : b \in Available(p, a) <=> /\ b \in Ids /\ b[1] = a /\ p.backends[b] = "running"
                                         /\ s.blacklist[b] \notin OnBlacklist
    BY <1>0 DEF Available, Blacklisted
  <2>2. CASE a # LocalAddress
    <3>1. Available(p, a) = Available(s, a)
      <4>1. \A b \in Ids : b[1] = a => b \in Ids \ {Local}
        BY <2>2, IdFacts
      <4>2. \A b \in Ids : b[1] = a => p.backends[b] = s.backends[b]
        BY <1>0, <4>1
      <4>3. \A b : b \in Available(p, a) <=> b \in Available(s, a)
        BY <2>a, <2>b, <4>2
      <4> QED
        BY <4>3
    <3> QED
      BY <1>0, <2>1, <2>2, <3>1 DEF Addresses
  <2>3. CASE a = LocalAddress
    <3>1. \A b \in Ids : b[1] = a => b = Local
      BY <2>3, IdFacts
    <3>2. s.blacklist[Local] = "none"
      BY <2>1, IdFacts DEF ListInv
    <3>3. CASE LocalState = "quiescing"
      <4>1. Available(p, a) = {}
        BY <1>0, <2>b, <3>1, <3>3
      <4> QED
        BY <1>0, <2>3, <3>3, <4>1
    <3>4. CASE LocalState # "quiescing"
      <4>1. p.backends[Local] = "running"
        BY <1>0, <3>4 DEF Present
      <4>2. Local \in Available(p, a)
        BY <2>3, <2>b, <3>2, <4>1, IdFacts DEF OnBlacklist
      <4>3. s.group[a] \in {None, Local}
        BY <2>1, <2>a, <3>1
      <4> QED
        BY <1>0, <2>3, <3>4, <4>2, <4>3
    <3> QED
      BY <3>3, <3>4
  <2> QED
    BY <2>2, <2>3
<1> QED
  BY <1>p, <1>1, <1>2, <1>3 DEF SnapshotInv, IsExact

-----------------------------------------------------------------------------
(* The backends in use stay accounted for.                                 *)

LEMMA UpdateUsed ==
    ASSUME NEW s \in SnapshotType, TypeOK, UsedInv(s)
    PROVE  UsedInv(ProcessUpdate(s))
<1>p. PICK p : p = ProcessUpdate(s)
  OBVIOUS
<1>t. topic \in [Ids -> Present \cup {"none"}]
  BY DEF TypeOK
<1>0. /\ p.group = AddExecutors(RemoveExecutors(s.group, Leaving(s)), Created(s))
      /\ \A b \in Ids : p.blacklist[b] =
            IF b \in Deleted(s) \cup Quiesced(s) THEN "none" ELSE s.blacklist[b]
  BY <1>p, <1>t, UpdateFields
<1>1. ASSUME NEW a \in Addresses, p.group[a] # None PROVE Accounted(p.group[a])
  <2>1. p.group[a] = s.group[a] \/ p.group[a] \in Created(s)
    <3>1. \/ p.group[a] = RemoveExecutors(s.group, Leaving(s))[a]
          \/ p.group[a] \in Created(s)
      BY <1>0, AddFacts
    <3> QED
      BY <1>1, <3>1, RemoveFacts
  <2> QED
    BY <1>1, <2>1 DEF UsedInv, Accounted, Created
<1>2. ASSUME NEW b \in Ids, p.blacklist[b] # "none" PROVE Accounted(b)
  BY <1>0, <1>2 DEF UsedInv
<1> QED
  BY <1>p, <1>1, <1>2 DEF UsedInv

LEMMA MaintenanceUsed ==
    ASSUME NEW s \in SnapshotType, UsedInv(s)
    PROVE  UsedInv(Maintenance(s))
<1>p. PICK p : p = Maintenance(s)
  OBVIOUS
<1>e. PICK E : E = {b \in Ids : s.blacklist[b] = "expired"}
  OBVIOUS
<1>0. /\ p.group = AddExecutors(s.group, E)
      /\ \A b \in Ids : p.blacklist[b] # "none" => s.blacklist[b] # "none"
  BY <1>p, <1>e, MaintenanceFields
<1>1. ASSUME NEW a \in Addresses, p.group[a] # None PROVE Accounted(p.group[a])
  <2>1. p.group[a] = s.group[a] \/ p.group[a] \in E
    BY <1>0, AddFacts
  <2> QED
    BY <1>1, <1>e, <2>1 DEF UsedInv
<1> QED
  BY <1>p, <1>0, <1>1 DEF UsedInv

LEMMA AddLocalUsed ==
    ASSUME NEW s \in SnapshotType, UsedInv(s), LocalState # "none"
    PROVE  UsedInv(AddLocalBackend(s))
<1>p. PICK p : p = AddLocalBackend(s)
  OBVIOUS
<1>0. /\ p.blacklist = s.blacklist
      /\ p.group[LocalAddress] \in {None, Local, s.group[LocalAddress]}
      /\ \A a \in Remotes : p.group[a] = s.group[a]
  BY <1>p, LocalFields
<1>1. ASSUME NEW a \in Addresses, p.group[a] # None PROVE Accounted(p.group[a])
  BY <1>0, <1>1 DEF UsedInv, Accounted, Addresses
<1> QED
  BY <1>p, <1>0, <1>1 DEF UsedInv

-----------------------------------------------------------------------------
(* The cluster around this impalad.                                        *)

EnvType ==
    /\ up \in [Addresses -> [inc : 1 .. MaxInc, st : Present \cup {"down", "starting"}]]
    /\ topic \in [Ids -> Present \cup {"none"}]
    /\ failed \subseteq Ids

\* What no step takes back: a backend stays accounted for, one that is
\* shutting down does not run again, this impalad does not stop.
EnvMove ==
    /\ \A b \in Ids : Accounted(b) => Accounted(b)'
    /\ \A b \in Ids \ {Local} : Past(b) => Past(b)' /\ (topic[b] # "running" => topic'[b] # "running")
    /\ up[LocalAddress].st \in Present => up'[LocalAddress].st \in Present

EnvGoal == EnvMove /\ EnvType' /\ LocalInv' /\ TopicInv'

LEMMA UpFacts ==
    ASSUME TypeOK, NEW b \in Ids
    PROVE  /\ b[1] \in Addresses /\ up[b[1]].inc \in 1..MaxInc /\ b[2] \in Nat
           /\ up[b[1]].inc \in Nat /\ up[b[1]].inc >= 1
           /\ up[b[1]].st \in {"running", "quiescing", "down", "starting"}
BY IdFacts DEF TypeOK, Present

\* Steps that do not touch the impalads.
LEMMA SameUp ==
    ASSUME TypeOK, LocalInv, up' = up,
           EnvType', TopicInv',
           \A b \in Ids : Accounted(b) => Accounted(b)',
           \A b \in Ids \ {Local} : Past(b) /\ topic[b] # "running" => topic'[b] # "running"
    PROVE  EnvGoal
BY DEF EnvGoal, EnvMove, LocalInv, Past

\* Steps that do not touch the topic.
LEMMA SameTopic ==
    ASSUME TypeOK, TopicInv, NEW a \in Addresses, NEW u,
           up' = [up EXCEPT ![a] = u], u \in [inc : 1 .. MaxInc, st : Present \cup {"down", "starting"}],
           u.inc = up[a].inc \/ u.inc = up[a].inc + 1,
           u.inc = up[a].inc /\ up[a].st \in {"quiescing", "down"} => u.st \in {"quiescing", "down"},
           a = LocalAddress => /\ u.inc = 1 /\ u.st # "down"
                               /\ up[a].st \in Present => u.st \in Present,
           LocalInv, UNCHANGED <<topic, failed, grace>>
    PROVE  EnvGoal
<1>1. EnvType'
  BY DEF EnvType, TypeOK
<1>2. \A c \in Addresses : up'[c] = IF c = a THEN u ELSE up[c]
  BY DEF TypeOK
<1>3. LocalInv' /\ (up[LocalAddress].st \in Present => up'[LocalAddress].st \in Present)
  BY <1>2, IdFacts DEF LocalInv
<1>4. \A b \in Ids : Past(b) => Past(b)'
  <2> SUFFICES ASSUME NEW b \in Ids, Past(b) PROVE Past(b)'
    OBVIOUS
  <2>1. b[1] \in Addresses /\ b[2] \in Nat /\ up[b[1]].inc \in Nat
    BY UpFacts
  <2> QED
    BY <1>2, <2>1 DEF Past
<1>5. \A b \in Ids : b[2] <= up[b[1]].inc => b[2] <= up'[b[1]].inc
  <2> SUFFICES ASSUME NEW b \in Ids, b[2] <= up[b[1]].inc PROVE b[2] <= up'[b[1]].inc
    OBVIOUS
  <2>1. b[1] \in Addresses /\ b[2] \in Nat /\ up[b[1]].inc \in Nat
    BY UpFacts
  <2> QED
    BY <1>2, <2>1
<1>6. TopicInv'
  BY <1>4, <1>5 DEF TopicInv
<1>7. \A b \in Ids : Accounted(b) => Accounted(b)'
  BY DEF Accounted
<1> QED
  BY <1>1, <1>3, <1>4, <1>6, <1>7 DEF EnvGoal, EnvMove

LEMMA EnvStep ==
    ASSUME TypeOK, LocalInv, TopicInv, [Next]_vars
    PROVE  EnvGoal
<1>0. EnvType
  BY DEF TypeOK, EnvType
<1>1. ASSUME UNCHANGED <<up, topic, failed, grace>> PROVE EnvGoal
  <2>1. EnvType' /\ TopicInv' /\ \A b \in Ids : Accounted(b) => Accounted(b)'
    BY <1>0, <1>1 DEF EnvType, TopicInv, Past, Accounted
  <2> QED
    BY <1>1, <2>1, SameUp
<1>2. CASE UpdateMembership
  <2>1. /\ up' = up /\ failed' = failed /\ grace' = grace
        /\ topic' = topic \/ (LocalState # "none" /\ topic' = [topic EXCEPT ![Local] = LocalState])
    BY <1>2 DEF UpdateMembership, NeedsLocalBackendUpdate
  <2>2. CASE topic' = topic
    BY <1>1, <2>1, <2>2
  <2>3. CASE LocalState # "none" /\ topic' = [topic EXCEPT ![Local] = LocalState]
    <3>1. LocalState \in Present
      BY <2>3 DEF LocalState
    <3>2. EnvType'
      BY <1>0, <2>1, <2>3, <3>1 DEF EnvType
    <3>3. \A b \in Ids \ {Local} : topic'[b] = topic[b]
      BY <1>0, <2>3 DEF EnvType
    <3>4. TopicInv'
      <4>1. \A b \in Ids : topic'[b] # "none" => b[2] <= up[b[1]].inc
        BY <3>3, IdFacts DEF TopicInv, LocalInv
      <4>2. \A b, c \in Ids : b[1] = c[1] /\ topic'[b] # "none" /\ topic'[c] # "none" => b = c
        BY <3>3, IdFacts DEF TopicInv
      <4>3. \A b \in Ids \ {Local} : topic'[b] = "quiescing" => Past(b)'
        BY <2>1, <3>3 DEF TopicInv, Past
      <4> QED
        BY <2>1, <4>1, <4>2, <4>3 DEF TopicInv
    <3>5. \A b \in Ids : Accounted(b) => Accounted(b)'
      BY <2>1, <3>3 DEF Accounted
    <3> QED
      BY <2>1, <3>2, <3>3, <3>4, <3>5, SameUp
  <2> QED
    BY <2>1, <2>2, <2>3
<1>3. CASE ServicesReady
  <2>1. /\ up[LocalAddress].st = "starting" /\ UNCHANGED <<topic, failed, grace>>
        /\ up' = [up EXCEPT ![LocalAddress].st = "running"]
    BY <1>3 DEF ServicesReady, mgr
  <2>2. PICK u : u = [up[LocalAddress] EXCEPT !.st = "running"]
    OBVIOUS
  <2>3. /\ u \in [inc : 1 .. MaxInc, st : Present \cup {"down", "starting"}]
        /\ u.inc = up[LocalAddress].inc /\ u.st = "running"
    BY <2>2, IdFacts DEF TypeOK, Present
  <2>4. up' = [up EXCEPT ![LocalAddress] = u]
    BY <2>1, <2>2
  <2> QED
    <3>1. u.inc = 1 /\ u.st # "down" /\ u.st \in Present /\ up[LocalAddress].st \notin {"quiescing", "down"}
      BY <2>1, <2>3 DEF LocalInv, Present
    <3>2. LocalAddress \in Addresses
      BY IdFacts
    <3> QED
      BY <2>1, <2>3, <2>4, <3>1, <3>2, SameTopic
<1>4. CASE EndGracePeriod
  <2>1. /\ up' = up /\ topic' = topic
        /\ failed' = failed \cup {b \in Ids \ {Local} : topic[b] = "none"}
    BY <1>4 DEF EndGracePeriod
  <2>2. EnvType' /\ TopicInv'
    BY <1>0, <2>1 DEF EnvType, TopicInv, Past
  <2>3. \A b \in Ids : Accounted(b)'
    BY <2>1 DEF Accounted
  <2> QED
    BY <2>1, <2>2, <2>3, SameUp
<1>5. ASSUME NEW keepsTopic \in BOOLEAN, Reregister(keepsTopic) PROVE EnvGoal
  <2>1. /\ up' = up /\ failed' = failed /\ grace' = TRUE
        /\ topic' = topic \/ topic' = [b \in Ids |-> "none"]
    BY <1>5 DEF Reregister
  <2>2. EnvType'
    BY <1>0, <2>1 DEF EnvType
  <2>3. TopicInv'
    BY <2>1 DEF TopicInv, Past
  <2>4. \A b \in Ids : Accounted(b)'
    BY <2>1 DEF Accounted
  <2> QED
    BY <2>1, <2>2, <2>3, <2>4, SameUp
<1>6. ASSUME NEW b \in Ids, DeclareFailed(b) PROVE EnvGoal
  <2>1. /\ up' = up /\ failed' = failed \cup {b} /\ grace' = grace
        /\ topic' = [topic EXCEPT ![b] = "none"]
    BY <1>6 DEF DeclareFailed, mgr
  <2>2. \A c \in Ids : topic'[c] = IF c = b THEN "none" ELSE topic[c]
    BY <1>0, <2>1 DEF EnvType
  <2>3. EnvType'
    BY <1>0, <2>1 DEF EnvType
  <2>4. TopicInv'
    BY <2>1, <2>2 DEF TopicInv, Past
  <2>5. \A c \in Ids : Accounted(c) => Accounted(c)'
    BY <2>1, <2>2 DEF Accounted
  <2> QED
    BY <2>1, <2>2, <2>3, <2>4, <2>5, SameUp
<1>7. ASSUME NEW a \in Addresses, Publish(a) PROVE EnvGoal
  <2>1. /\ IsUp(IdOf(a)) /\ topic' = [topic EXCEPT ![IdOf(a)] = up[a].st]
        /\ \A n \in 1 .. (up[a].inc - 1) : topic[<<a, n>>] = "none"
        /\ up' = up /\ failed' = failed \ {IdOf(a)} /\ grace' = grace
    BY <1>7 DEF Publish, mgr
  <2>2. PICK d : d = <<a, up[a].inc>>
    OBVIOUS
  <2>3. d[1] = a /\ d[2] = up[a].inc /\ IdOf(a) = d /\ d \in Ids
    <3>1. a = LocalAddress \/ a \in Remotes
      BY DEF Addresses
    <3>2. up[a].inc \in 1..MaxInc
      BY DEF TypeOK
    <3> QED
      BY <2>2, <3>1, <3>2, IdFacts DEF IdOf, LocalInv, Local
  <2>4. up[a].st \in Present /\ up[a].inc \in Nat
    BY <2>1, <2>3, UpFacts DEF IsUp
  <2>5. \A c \in Ids : topic'[c] = IF c = d THEN up[a].st ELSE topic[c]
    BY <1>0, <2>1, <2>3 DEF EnvType
  <2>6. EnvType'
    BY <1>0, <2>1, <2>3, <2>4 DEF EnvType
  <2>7. ASSUME NEW c \in Ids, c[1] = a, topic[c] # "none" PROVE c = d
    <3>1. c[2] \in Nat /\ c[2] >= 1 /\ c[2] <= up[a].inc /\ c = <<a, c[2]>>
      BY <2>7, IdFacts DEF TopicInv
    <3>2. c[2] \notin 1 .. (up[a].inc - 1)
      BY <2>1, <2>7, <3>1
    <3>3. c[2] = up[a].inc
      BY <2>4, <3>1, <3>2
    <3> QED
      BY <2>2, <3>1, <3>3
  <2>8. TopicInv'
    <3>1. \A c \in Ids : topic'[c] # "none" => c[2] <= up[c[1]].inc
      BY <2>3, <2>4, <2>5 DEF TopicInv
    <3>2. ASSUME NEW b \in Ids, NEW c \in Ids, b[1] = c[1], topic'[b] # "none", topic'[c] # "none"
          PROVE  b = c
      BY <2>3, <2>5, <2>7, <3>2 DEF TopicInv
    <3>3. \A c \in Ids \ {Local} : topic'[c] = "quiescing" => Past(c)'
      BY <2>1, <2>3, <2>5 DEF TopicInv, Past
    <3> QED
      BY <2>1, <3>1, <3>2, <3>3 DEF TopicInv
  <2>9. \A c \in Ids : Accounted(c) => Accounted(c)'
    BY <2>1, <2>3, <2>4, <2>5 DEF Accounted, Present
  <2>10. ASSUME NEW c \in Ids \ {Local}, Past(c), topic[c] # "running" PROVE topic'[c] # "running"
    <3>1. CASE c = d
      <4>1. up[a].st = "quiescing"
        BY <2>3, <2>4, <2>10, <3>1 DEF Past, Present
      <4> QED
        BY <2>5, <3>1, <4>1
    <3> QED
      BY <2>5, <2>10, <3>1
  <2> QED
    BY <2>1, <2>6, <2>8, <2>9, <2>10, SameUp
<1>8. ASSUME NEW a \in Addresses, Quiesce(a) \/ Crash(a) \/ Restart(a) PROVE EnvGoal
  <2>0. /\ UNCHANGED <<topic, failed, grace>>
        /\ up[a] \in [inc : 1 .. MaxInc, st : Present \cup {"down", "starting"}]
    BY <1>8 DEF Quiesce, Crash, Restart, mgr, TypeOK
  <2>1. CASE Quiesce(a)
    <3>1. PICK u : u = [up[a] EXCEPT !.st = "quiescing"]
      OBVIOUS
    <3>2. up' = [up EXCEPT ![a] = u] /\ up[a].st = "running"
      BY <2>1, <3>1 DEF Quiesce
    <3>3. /\ u \in [inc : 1 .. MaxInc, st : Present \cup {"down", "starting"}]
          /\ u.inc = up[a].inc /\ u.st = "quiescing"
      BY <2>0, <3>1 DEF Present
    <3> QED
      BY <2>0, <3>2, <3>3, SameTopic DEF LocalInv, Present
  <2>2. CASE Crash(a)
    <3>1. PICK u : u = [up[a] EXCEPT !.st = "down"]
      OBVIOUS
    <3>2. up' = [up EXCEPT ![a] = u] /\ a # LocalAddress
      BY <2>2, <3>1 DEF Crash
    <3>3. /\ u \in [inc : 1 .. MaxInc, st : Present \cup {"down", "starting"}]
          /\ u.inc = up[a].inc /\ u.st = "down"
      BY <2>0, <3>1
    <3> QED
      BY <2>0, <3>2, <3>3, SameTopic
  <2>3. CASE Restart(a)
    <3>1. PICK u : u = [inc |-> up[a].inc + 1, st |-> "running"]
      OBVIOUS
    <3>2. up' = [up EXCEPT ![a] = u] /\ up[a].st = "down" /\ up[a].inc < MaxInc
      BY <2>3, <3>1 DEF Restart
    <3>3. up[a].inc + 1 \in 1..MaxInc /\ up[a].inc \in Nat
      BY <2>0, <3>2, IdFacts
    <3>4. /\ u \in [inc : 1 .. MaxInc, st : Present \cup {"down", "starting"}]
          /\ u.inc = up[a].inc + 1 /\ u.st = "running"
      BY <3>1, <3>3 DEF Present
    <3>5. a # LocalAddress
      BY <3>2 DEF LocalInv
    <3>6. u.inc # up[a].inc
      BY <3>3, <3>4
    <3> QED
      BY <2>0, <3>2, <3>4, <3>5, <3>6, SameTopic
  <2> QED
    BY <1>8, <2>1, <2>2, <2>3
<1>9. ASSUME \/ \E b \in Ids : PassTimeout(b)
             \/ \E q \in Queries :
                   \/ Schedule(q) \/ RegisterQueryLocations(q) \/ SetQueryInflight(q)
                   \/ Exec(q) \/ Complete(q) \/ CancelFromThreadPool(q) \/ BlacklistExecutor(q)
             \/ UNCHANGED vars
      PROVE  UNCHANGED <<up, topic, failed, grace>>
  BY <1>9 DEF PassTimeout, Schedule, RegisterQueryLocations, SetQueryInflight, Exec, Complete,
              CancelFromThreadPool, BlacklistExecutor, vars, env, mgr
<1> QED
  BY <1>1, <1>2, <1>3, <1>4, <1>5, <1>6, <1>7, <1>8, <1>9 DEF Next

-----------------------------------------------------------------------------
(* The snapshots and the queries.                                          *)

\* The snapshot that a call of UpdateMembership() makes.
Updated(n) ==
    /\ n \in SnapshotType /\ SnapshotInv(n) /\ UsedInv(n)
    /\ \A b \in Ids \ {Local} : n.backends[b] = topic[b]
    /\ LocalState # "none" => n.backends[Local] # "none"

LEMMA BaseFacts ==
    ASSUME IInv
    PROVE  Base \in SnapshotType /\ SnapshotInv(Base) /\ UsedInv(Base)
<1>1. CASE Recovering
  BY <1>1 DEF IInv, TypeOK, Base, Recovering
<1>2. CASE ~Recovering
  BY <1>2 DEF IInv, TypeOK, Base
<1> QED
  BY <1>1, <1>2

LEMMA UpdateMakes ==
    ASSUME IInv, UpdateMembership
    PROVE  \E n : Updated(n) /\ Install(n)
<1> USE DEF IInv
<1>t. topic \in [Ids -> Present \cup {"none"}]
  BY DEF TypeOK
<1>0. PICK s0 : s0 = IF full THEN EmptySnapshot ELSE Base
  OBVIOUS
<1>1. s0 \in SnapshotType /\ SnapshotInv(s0) /\ UsedInv(s0)
  BY <1>0, BaseFacts, EmptyFacts, EmptyInv
<1>2. PICK r : r = [s0 EXCEPT !.local = @ \/ LocalState # "none"]
  OBVIOUS
<1>3. /\ r \in SnapshotType /\ r.backends = s0.backends /\ r.group = s0.group
      /\ r.blacklist = s0.blacklist
  BY <1>1, <1>2 DEF SnapshotType
<1>4. SnapshotInv(r) /\ UsedInv(r)
  <2>1. UsedInv(r) /\ BackendsInv(r) /\ (ListInv(s0) => ListInv(r))
    BY <1>1, <1>3 DEF UsedInv, SnapshotInv, BackendsInv, ListInv
  <2>2. IsExact(s0) => IsExact(r)
    BY <1>3 DEF IsExact, Available, Blacklisted
  <2> QED
    BY <1>1, <2>1, <2>2 DEF SnapshotInv
<1>5. PICK s1 : s1 = ProcessUpdate(r)
  OBVIOUS
<1>6. /\ s1 \in SnapshotType /\ SnapshotInv(s1) /\ UsedInv(s1)
      /\ \A b \in Ids \ {Local} : s1.backends[b] = topic[b]
  <2>1. /\ s1 \in SnapshotType
        /\ \A b \in Ids : s1.backends[b] =
              IF b = Local /\ b \notin Deleted(r) THEN r.backends[b] ELSE topic[b]
    BY <1>t, <1>3, <1>5, UpdateFields
  <2> QED
    BY <1>3, <1>4, <1>5, <2>1, UpdateInv, UpdateUsed
<1>7. PICK s2 : s2 = IF NeedsMaintenance(Base) THEN Maintenance(s1) ELSE s1
  OBVIOUS
<1>8. /\ s2 \in SnapshotType /\ SnapshotInv(s2) /\ UsedInv(s2) /\ s2.backends = s1.backends
  BY <1>6, <1>7, MaintenanceFields, MaintenanceInv, MaintenanceUsed
<1>9. PICK n : n = IF NeedsLocalBackendUpdate(s2) THEN AddLocalBackend(s2) ELSE s2
  OBVIOUS
<1>10. Install(n)
  BY <1>0, <1>2, <1>5, <1>7, <1>9, Zenon DEF UpdateMembership
<1>11. CASE NeedsLocalBackendUpdate(s2)
  <2>1. LocalState # "none" /\ n = AddLocalBackend(s2)
    BY <1>9, <1>11 DEF NeedsLocalBackendUpdate
  <2>2. /\ n \in SnapshotType /\ n.backends[Local] = LocalState
        /\ \A b \in Ids \ {Local} : n.backends[b] = s2.backends[b]
    BY <1>8, <2>1, LocalFields
  <2>3. Updated(n)
    BY <1>6, <1>8, <2>1, <2>2, AddLocalInv, AddLocalUsed DEF Updated
  <2> QED
    BY <1>10, <2>3
<1>12. CASE ~NeedsLocalBackendUpdate(s2)
  <2>1. n = s2 /\ (LocalState # "none" => s2.backends[Local] = LocalState)
    BY <1>9, <1>12 DEF NeedsLocalBackendUpdate
  <2>2. Updated(n)
    BY <1>6, <1>8, <2>1 DEF Updated
  <2> QED
    BY <1>10, <2>2
<1> QED
  BY <1>11, <1>12

\* A snapshot that a step leaves alone keeps its invariants.
LEMMA SnapshotKept ==
    ASSUME TypeOK, LocalInv, TopicInv, [Next]_vars, mixed \in BOOLEAN, mixed => mixed', NEW s \in SnapshotType
    PROVE  /\ SnapshotInv(s) => SnapshotInv(s)'
           /\ UsedInv(s) => UsedInv(s)'
<1>1. EnvMove
  BY EnvStep DEF EnvGoal
<1>2. s.group \in [Addresses -> Ids \cup {None}]
  BY SnapshotFields
<1>3. BackendsInv(s) => BackendsInv(s)'
  BY <1>1 DEF BackendsInv, EnvMove
<1>4. UsedInv(s) => UsedInv(s)'
  BY <1>1, <1>2 DEF UsedInv, EnvMove
<1>5. (IsExact(s) => IsExact(s)') /\ (ListInv(s) => ListInv(s)')
  BY DEF IsExact, ListInv
<1> QED
  BY <1>3, <1>4, <1>5 DEF SnapshotInv

\* BlacklistExecutor() on a snapshot.
LEMMA BlacklistInv ==
    ASSUME NEW s \in SnapshotType, SnapshotInv(s), UsedInv(s), NEW b \in Ids, b # Local, Accounted(b),
           NEW n, n = [s EXCEPT !.group = RemoveExecutors(@, {b}), !.blacklist = Blacklist(@, b)]
    PROVE  /\ n \in SnapshotType /\ BackendsInv(n) /\ UsedInv(n)
           /\ ~mixed /\ s.group[b[1]] = b => IsExact(n) /\ ListInv(n)
<1>0. /\ s.backends \in [Ids -> Present \cup {"none"}]
      /\ s.group \in [Addresses -> Ids \cup {None}]
      /\ s.blacklist \in [Ids -> OnBlacklist \cup OnProbation \cup {"none"}]
      /\ s.local \in BOOLEAN
  BY SnapshotFields
<1>1. RemoveExecutors(s.group, {b}) \in [Addresses -> Ids \cup {None}]
  BY <1>0, GroupTypes
<1>2. /\ Blacklist(s.blacklist, b) \in [Ids -> OnBlacklist \cup OnProbation \cup {"none"}]
      /\ Blacklist(s.blacklist, b)[b] \in OnBlacklist
      /\ \A c \in Ids \ {b} : Blacklist(s.blacklist, b)[c] = s.blacklist[c]
  BY <1>0 DEF Blacklist, OnBlacklist
<1>3. /\ n \in SnapshotType /\ n.backends = s.backends
      /\ n.group = RemoveExecutors(s.group, {b}) /\ n.blacklist = Blacklist(s.blacklist, b)
  BY <1>0, <1>1, <1>2 DEF SnapshotType
<1>4. \A a \in Addresses : n.group[a] = IF b[1] = a THEN None ELSE s.group[a]
  <2>1. \A a \in Addresses : n.group[a] = IF \E c \in {b} : c[1] = a THEN None ELSE s.group[a]
    BY <1>3, RemoveFacts
  <2> QED
    BY <2>1
<1>5. BackendsInv(n)
  BY <1>3 DEF SnapshotInv, BackendsInv
<1>6. UsedInv(n)
  BY <1>2, <1>3, <1>4 DEF UsedInv
<1>7. ASSUME ~mixed, s.group[b[1]] = b
      PROVE  IsExact(n) /\ ListInv(n)
  <2>0. IsExact(s) /\ ListInv(s) /\ BackendsInv(s) /\ b[1] \in Addresses /\ b # None
    BY <1>7, IdFacts DEF SnapshotInv
  <2>1. b \in Available(s, b[1])
    BY <1>7, <2>0 DEF IsExact
  <2>2. s.backends[b] = "running"
    BY <2>1 DEF Available
  <2>3. ListInv(n)
    BY <1>2, <1>3, <2>0, <2>2 DEF ListInv
  <2>4. ASSUME NEW a \in Addresses
        PROVE  IF Available(n, a) = {} THEN n.group[a] = None ELSE n.group[a] \in Available(n, a)
    <3>a. \A c : c \in Available(s, a) <=> /\ c \in Ids /\ c[1] = a /\ s.backends[c] = "running"
                                           /\ s.blacklist[c] \notin OnBlacklist
      BY DEF Available, Blacklisted
    <3>b. \A c : c \in Available(n, a) <=> /\ c \in Ids /\ c[1] = a /\ s.backends[c] = "running"
                                           /\ n.blacklist[c] \notin OnBlacklist
      BY <1>3 DEF Available, Blacklisted
    <3>1. CASE a = b[1]
      <4>1. \A c \in Ids : c[1] = a /\ s.backends[c] # "none" => c = b
        BY <2>0, <2>1, <3>1, OneAtAddress
      <4>2. Available(n, a) = {}
        BY <1>2, <1>3, <3>b, <4>1
      <4> QED
        BY <1>4, <3>1, <4>2
    <3>2. CASE a # b[1]
      <4>1. \A c : c \in Available(n, a) <=> c \in Available(s, a)
        BY <1>2, <1>3, <3>a, <3>b, <3>2
      <4>2. Available(n, a) = Available(s, a)
        BY <4>1
      <4>3. n.group[a] = s.group[a]
        BY <1>4, <3>2
      <4> QED
        BY <2>0, <4>2, <4>3 DEF IsExact
    <3> QED
      BY <3>1, <3>2
  <2> QED
    BY <2>3, <2>4 DEF IsExact
<1> QED
  BY <1>3, <1>5, <1>6, <1>7

\* Time passes for an entry of the blacklist.
LEMMA TimeoutInv ==
    ASSUME NEW s \in SnapshotType, SnapshotInv(s), UsedInv(s), NEW b \in Ids,
           s.blacklist[b] \in {"listed", "probation"},
           NEW n, n = [s EXCEPT !.blacklist[b] = IF @ = "listed" THEN "expired" ELSE "lapsed"]
    PROVE  n \in SnapshotType /\ SnapshotInv(n) /\ UsedInv(n)
<1>0. /\ s.backends \in [Ids -> Present \cup {"none"}]
      /\ s.group \in [Addresses -> Ids \cup {None}]
      /\ s.blacklist \in [Ids -> OnBlacklist \cup OnProbation \cup {"none"}]
      /\ s.local \in BOOLEAN
  BY SnapshotFields
<1>1. PICK bl : bl = [s.blacklist EXCEPT ![b] = IF @ = "listed" THEN "expired" ELSE "lapsed"]
  OBVIOUS
<1>2. /\ bl \in [Ids -> OnBlacklist \cup OnProbation \cup {"none"}]
      /\ \A c \in Ids : /\ bl[c] = "none" <=> s.blacklist[c] = "none"
                        /\ bl[c] \in OnBlacklist <=> s.blacklist[c] \in OnBlacklist
  BY <1>0, <1>1 DEF OnBlacklist, OnProbation
<1>3. /\ n \in SnapshotType /\ n.backends = s.backends /\ n.group = s.group /\ n.blacklist = bl
  BY <1>0, <1>1, <1>2 DEF SnapshotType
<1>4. BackendsInv(n) /\ UsedInv(n) /\ (ListInv(s) => ListInv(n))
  BY <1>2, <1>3 DEF SnapshotInv, BackendsInv, UsedInv, ListInv
<1>5. Blacklisted(n) = Blacklisted(s)
  BY <1>2, <1>3 DEF Blacklisted
<1>6. IsExact(s) => IsExact(n)
  BY <1>3, <1>5 DEF IsExact, Available
<1> QED
  BY <1>3, <1>4, <1>6 DEF SnapshotInv

\* The snapshots after a step.
SnapshotsOK ==
    /\ cur \in SnapshotType /\ rec \in SnapshotType \cup {NoSnapshot}
    /\ SnapshotInv(cur) /\ UsedInv(cur)
    /\ Recovering => SnapshotInv(rec) /\ UsedInv(rec)

LEMMA NextSnapshots ==
    ASSUME NEW c \in SnapshotType, NEW r \in SnapshotType \cup {NoSnapshot}, cur' = c, rec' = r,
           SnapshotInv(c)', UsedInv(c)', r # NoSnapshot => SnapshotInv(r)' /\ UsedInv(r)'
    PROVE  SnapshotsOK'
<1>1. SnapshotInv(cur)' /\ UsedInv(cur)'
  BY DEF SnapshotInv, UsedInv, BackendsInv, ListInv, IsExact, Available, Blacklisted
<1>2. Recovering' => SnapshotInv(rec)' /\ UsedInv(rec)'
  <2> SUFFICES ASSUME r # NoSnapshot PROVE SnapshotInv(rec)' /\ UsedInv(rec)'
    BY DEF Recovering, NoSnapshot
  <2> QED
    BY DEF SnapshotInv, UsedInv, BackendsInv, ListInv, IsExact, Available, Blacklisted
<1> QED
  BY <1>1, <1>2 DEF SnapshotsOK, NoSnapshot

LEMMA SnapshotsStep ==
    ASSUME IInv, [Next]_vars
    PROVE  SnapshotsOK' /\ mixed' \in BOOLEAN /\ full' \in BOOLEAN /\ grace' \in BOOLEAN
<1> USE DEF IInv
<1>c. PICK c \in SnapshotType : c = cur
  BY DEF TypeOK
<1>r. PICK r \in SnapshotType \cup {NoSnapshot} : r = rec
  BY DEF TypeOK
<1>m. mixed \in BOOLEAN /\ full \in BOOLEAN /\ grace \in BOOLEAN
  BY DEF TypeOK
<1>0. /\ SnapshotInv(c) /\ UsedInv(c)
      /\ r # NoSnapshot => SnapshotInv(r) /\ UsedInv(r)
      /\ Recovering <=> r # NoSnapshot
      /\ Base = IF r # NoSnapshot THEN r ELSE c
  BY <1>c, <1>r DEF Recovering, Base
<1>k. ASSUME mixed => mixed'
      PROVE  /\ SnapshotInv(c)' /\ UsedInv(c)'
             /\ r # NoSnapshot => SnapshotInv(r)' /\ UsedInv(r)'
  BY <1>0, <1>k, <1>m, SnapshotKept
<1>1. ASSUME UNCHANGED <<cur, rec, mixed>>
      PROVE  SnapshotsOK'
  BY <1>1, <1>c, <1>r, <1>k, NextSnapshots
<1>2. CASE UpdateMembership
  <2>0. mixed' = mixed /\ full' = FALSE /\ grace' = grace
    BY <1>2 DEF UpdateMembership
  <2>1. PICK n : Updated(n) /\ Install(n)
    BY <1>2, UpdateMakes
  <2>2. n \in SnapshotType /\ SnapshotInv(n)' /\ UsedInv(n)'
    BY <1>m, <2>0, <2>1, SnapshotKept DEF Updated
  <2>3. CASE grace
    <3>1. rec' = n /\ cur' = c
      BY <1>c, <2>1, <2>3 DEF Install
    <3> QED
      BY <1>k, <1>m, <2>0, <2>2, <3>1, NextSnapshots
  <2>4. CASE ~grace
    <3>1. rec' = NoSnapshot /\ cur' = n
      BY <2>1, <2>4 DEF Install
    <3> QED
      BY <1>k, <1>m, <2>0, <2>2, <3>1, NextSnapshots
  <2> QED
    BY <2>3, <2>4
<1>3. ASSUME NEW q \in Queries, BlacklistExecutor(q)
      PROVE  SnapshotsOK' /\ mixed' \in BOOLEAN
  <2>b. PICK b : b = query[q].at
    OBVIOUS
  <2>s. PICK s : s = Base
    OBVIOUS
  <2>n. PICK n : n = [s EXCEPT !.group = RemoveExecutors(@, {b}), !.blacklist = Blacklist(@, b)]
    OBVIOUS
  <2>1. /\ query[q].st \in {"registered", "running"} /\ b # Local
        /\ IF Recovering THEN rec' = n /\ cur' = cur ELSE cur' = n /\ rec' = rec
        /\ mixed' = (mixed \/ s.group[b[1]] # b)
        /\ UNCHANGED <<up, topic, failed, grace>>
    BY <1>3, <2>b, <2>s, <2>n DEF BlacklistExecutor, env
  <2>2. b \in Ids /\ Accounted(b)
    BY <2>1, <2>b DEF QueryInv
  <2>3. s \in SnapshotType /\ SnapshotInv(s) /\ UsedInv(s)
    BY <2>s, BaseFacts
  <2>4. /\ n \in SnapshotType /\ BackendsInv(n) /\ UsedInv(n)
        /\ ~mixed' => IsExact(n) /\ ListInv(n)
    BY <2>1, <2>2, <2>3, <2>n, BlacklistInv
  <2>5. SnapshotInv(n)' /\ UsedInv(n)'
    <3>1. BackendsInv(n)' /\ UsedInv(n)'
      BY <2>1, <2>4 DEF BackendsInv, UsedInv, Past, Accounted
    <3>2. ~mixed' => IsExact(n)' /\ ListInv(n)'
      BY <2>4 DEF IsExact, ListInv
    <3> QED
      BY <3>1, <3>2 DEF SnapshotInv
  <2>6. CASE Recovering
    BY <1>c, <1>k, <2>1, <2>4, <2>5, <2>6, NextSnapshots
  <2>7. CASE ~Recovering
    BY <1>0, <1>r, <1>k, <2>1, <2>4, <2>5, <2>7, NextSnapshots
  <2> QED
    BY <1>m, <2>1, <2>6, <2>7
<1>4. ASSUME NEW b \in Ids, PassTimeout(b)
      PROVE  SnapshotsOK'
  <2>s. PICK s : s = Base
    OBVIOUS
  <2>n. PICK n : n = [s EXCEPT !.blacklist[b] = IF @ = "listed" THEN "expired" ELSE "lapsed"]
    OBVIOUS
  <2>1. /\ s.blacklist[b] \in {"listed", "probation"}
        /\ IF Recovering THEN rec' = n /\ cur' = cur ELSE cur' = n /\ rec' = rec
        /\ mixed' = mixed
    BY <1>4, <2>s, <2>n DEF PassTimeout
  <2>3. s \in SnapshotType /\ SnapshotInv(s) /\ UsedInv(s)
    BY <2>s, BaseFacts
  <2>4. /\ n \in SnapshotType /\ SnapshotInv(n) /\ UsedInv(n)
    BY <2>1, <2>3, <2>n, TimeoutInv
  <2>5. SnapshotInv(n)' /\ UsedInv(n)'
    BY <1>m, <2>1, <2>4, SnapshotKept
  <2>6. CASE Recovering
    BY <1>c, <1>k, <2>1, <2>4, <2>5, <2>6, NextSnapshots
  <2>7. CASE ~Recovering
    BY <1>0, <1>r, <1>k, <2>1, <2>4, <2>5, <2>7, NextSnapshots
  <2> QED
    BY <2>1, <2>6, <2>7
<1>5. ASSUME \/ ServicesReady \/ EndGracePeriod
             \/ \E keepsTopic \in BOOLEAN : Reregister(keepsTopic)
             \/ \E b \in Ids : DeclareFailed(b)
             \/ \E q \in Queries :
                   \/ Schedule(q) \/ RegisterQueryLocations(q) \/ SetQueryInflight(q)
                   \/ Exec(q) \/ Complete(q) \/ CancelFromThreadPool(q)
             \/ \E a \in Addresses : Publish(a) \/ Quiesce(a) \/ Crash(a) \/ Restart(a)
             \/ UNCHANGED vars
      PROVE  /\ UNCHANGED <<cur, rec, mixed>> /\ full' \in BOOLEAN /\ grace' \in BOOLEAN
  BY <1>5, <1>m DEF ServicesReady, EndGracePeriod, Reregister, DeclareFailed, Schedule,
     RegisterQueryLocations, SetQueryInflight, Exec, Complete, CancelFromThreadPool, Publish, Quiesce, Crash, Restart,
     vars, mgr
<1>6. ASSUME \/ \E q \in Queries : BlacklistExecutor(q)
             \/ \E b \in Ids : PassTimeout(b)
      PROVE  full' = full /\ grace' = grace
  BY <1>6 DEF BlacklistExecutor, PassTimeout
<1>7. ASSUME NEW b \in Ids, PassTimeout(b) PROVE mixed' = mixed
  BY <1>7 DEF PassTimeout
<1> QED
  BY <1>m, <1>1, <1>2, <1>3, <1>4, <1>5, <1>6, <1>7 DEF Next

-----------------------------------------------------------------------------
(* The queries of this impalad.                                            *)

ServerOK ==
    /\ query \in [Queries -> [st : {"idle", "scheduled", "registered", "running", "done"},
                              at : Ids \cup {None}]]
    /\ located \subseteq {q \in Queries : query[q].st \in {"registered", "running"}}
    /\ inflight \subseteq Queries
    /\ pool \subseteq Queries
    /\ QueryInv

\* Steps that leave the queries alone.
LEMMA ServerKept ==
    ASSUME IInv, [Next]_vars, UNCHANGED server
    PROVE  ServerOK'
<1>1. EnvMove
  BY EnvStep DEF EnvGoal, IInv
<1>2. QueryInv'
  BY <1>1 DEF IInv, server, QueryInv, EnvMove
<1> QED
  BY <1>2 DEF ServerOK, IInv, TypeOK, server

\* One query moves on; the cancellation pool gets no other query.
LEMMA QueryMoves ==
    ASSUME IInv, NEW q \in Queries, NEW u, UNCHANGED <<up, topic, grace, failed>>,
           u \in [st : {"idle", "scheduled", "registered", "running", "done"}, at : Ids \cup {None}],
           query' = [query EXCEPT ![q] = u],
           u.st # "idle", u.at \in Ids, Accounted(u.at),
           u.at = Local => up[LocalAddress].st \in Present,
           inflight' \subseteq inflight,
           located' \subseteq located \cup {q},
           q \in located' => u.st \in {"registered", "running"},
           pool' \subseteq pool
    PROVE  ServerOK'
<1>0. /\ query \in [Queries -> [st : {"idle", "scheduled", "registered", "running", "done"},
                                at : Ids \cup {None}]]
      /\ located \subseteq {x \in Queries : query[x].st \in {"registered", "running"}}
      /\ pool \subseteq Queries
  BY DEF IInv, TypeOK
<1>1. \A x \in Queries : query'[x] = IF x = q THEN u ELSE query[x]
  BY <1>0
<1>2. /\ query' \in [Queries -> [st : {"idle", "scheduled", "registered", "running", "done"},
                                 at : Ids \cup {None}]]
      /\ pool' \subseteq Queries
  BY <1>0
<1>3. located' \subseteq {x \in Queries : query'[x].st \in {"registered", "running"}}
  BY <1>0, <1>1
<1>4. QueryInv'
  <2>1. ASSUME NEW x \in Queries
        PROVE  /\ query'[x].st # "idle" => query'[x].at \in Ids /\ Accounted(query[x].at)'
               /\ query'[x].at = Local => up'[LocalAddress].st \in Present
    <3>1. CASE x = q
      BY <1>1, <3>1 DEF Accounted
    <3>2. CASE x # q
      BY <1>1, <3>2 DEF IInv, QueryInv, Accounted
    <3> QED
      BY <3>1, <3>2
  <2>2. \A x \in pool' : query'[x].st # "idle"
    BY <1>0, <1>1 DEF IInv, QueryInv
  <2> QED
    BY <2>1, <2>2 DEF QueryInv, Accounted
<1>5. inflight' \subseteq Queries
  BY DEF IInv, TypeOK
<1> QED
  BY <1>2, <1>3, <1>4, <1>5 DEF ServerOK

LEMMA ServerStep ==
    ASSUME IInv, [Next]_vars
    PROVE  ServerOK'
<1> USE DEF IInv
<1>0. /\ query \in [Queries -> [st : {"idle", "scheduled", "registered", "running", "done"},
                                at : Ids \cup {None}]]
      /\ located \subseteq {x \in Queries : query[x].st \in {"registered", "running"}}
      /\ pool \subseteq Queries
      /\ cur.group \in [Addresses -> Ids \cup {None}]
  BY SnapshotFields DEF TypeOK
<1>q. \A q \in Queries :
          /\ query[q].st # "idle" => query[q].at \in Ids /\ Accounted(query[q].at)
          /\ query[q].at = Local => up[LocalAddress].st \in Present
  BY DEF QueryInv
<1>1. CASE UpdateMembership
  <2>1. PICK n : Updated(n) /\ Install(n)
    BY <1>1, UpdateMakes
  <2>2. CASE grace
    BY <2>1, <2>2, ServerKept DEF Install
  <2>3. CASE ~grace
    <3> DEFINE T == {q \in located : n.backends[query[q].at] = "none"}
    <3>1. /\ located' = located \ T /\ query' = query /\ inflight' = inflight
          /\ pool' \subseteq pool \cup T
      BY <2>1, <2>3 DEF Install, CancelQueriesOnFailedBackends
    <3>2. \A q \in T : q \in Queries /\ query[q].st # "idle"
      BY <1>0
    <3> HIDE DEF T
    <3>3. EnvMove
      BY EnvStep DEF EnvGoal
    <3>4. QueryInv'
      BY <3>1, <3>2, <3>3 DEF QueryInv, EnvMove
    <3> QED
      BY <1>0, <3>1, <3>2, <3>4 DEF ServerOK, TypeOK
  <2> QED
    BY <2>2, <2>3
<1>2. ASSUME NEW q \in Queries, Schedule(q) PROVE ServerOK'
  <2>1. PICK a \in Addresses :
            /\ cur.group[a] # None
            /\ query' = [query EXCEPT ![q] = [st |-> "scheduled", at |-> cur.group[a]]]
    BY <1>2 DEF Schedule
  <2>2. PICK u : u = [st |-> "scheduled", at |-> cur.group[a]]
    OBVIOUS
  <2>3. /\ u \in [st : {"idle", "scheduled", "registered", "running", "done"}, at : Ids \cup {None}]
        /\ u.st = "scheduled" /\ u.at = cur.group[a] /\ u.at \in Ids
    BY <1>0, <2>1, <2>2
  <2>4. /\ UNCHANGED <<up, topic, grace, failed, located, inflight, pool>>
        /\ up[LocalAddress].st \in Present /\ query[q].st \in {"idle", "done"}
    BY <1>2 DEF Schedule, env, mgr, Present
  <2>5. Accounted(u.at)
    BY <2>1, <2>3 DEF UsedInv
  <2>6. q \notin located'
    BY <1>0, <2>4
  <2> QED
    BY <2>1, <2>2, <2>3, <2>4, <2>5, <2>6, QueryMoves
<1>s. ASSUME NEW q \in Queries, NEW st \in {"registered", "running", "done"},
             query[q].st \in {"scheduled", "registered", "running"},
             query' = [query EXCEPT ![q].st = st],
             located' = located \ {q} \/ (st # "done" /\ located' \subseteq located \cup {q}),
             inflight' \subseteq inflight, pool' \subseteq pool,
             UNCHANGED <<up, topic, grace, failed>>
      PROVE  ServerOK'
  <2>2. PICK u : u = [query[q] EXCEPT !.st = st]
    OBVIOUS
  <2>3. /\ u \in [st : {"idle", "scheduled", "registered", "running", "done"}, at : Ids \cup {None}]
        /\ u.st = st /\ u.at = query[q].at /\ query' = [query EXCEPT ![q] = u]
    BY <1>0, <1>s, <2>2
  <2>4. u.at \in Ids /\ Accounted(u.at) /\ (u.at = Local => up[LocalAddress].st \in Present)
    BY <1>q, <1>s, <2>3
  <2>5. /\ located' \subseteq located \cup {q} /\ query[q].st # "done" /\ u.st # "idle"
        /\ q \in located' => u.st \in {"registered", "running"}
    BY <1>s, <2>3
  <2> QED
    BY <1>s, <2>3, <2>4, <2>5, QueryMoves
<1>3. ASSUME NEW q \in Queries, RegisterQueryLocations(q) PROVE ServerOK'
  BY <1>3, <1>s DEF RegisterQueryLocations, env, mgr
<1>4. ASSUME NEW q \in Queries, Exec(q) \/ Complete(q) PROVE ServerOK'
  BY <1>4, <1>s DEF Exec, Complete, Finish, env, mgr
<1>5. ASSUME NEW q \in Queries, CancelFromThreadPool(q) PROVE ServerOK'
  <2>0. UNCHANGED <<up, topic, grace, failed>> /\ pool' = pool \ {q}
    BY <1>5 DEF CancelFromThreadPool, env, mgr
  <2>1. CASE query[q].st \in {"registered", "running"} /\ q \in inflight
    BY <1>5, <1>s, <2>0, <2>1 DEF CancelFromThreadPool, Finish
  <2>2. CASE query' = query /\ located' = located /\ inflight' = inflight
    BY <1>0, <2>0, <2>2 DEF ServerOK, TypeOK, QueryInv, Accounted
  <2> QED
    BY <1>5, <2>1, <2>2 DEF CancelFromThreadPool
<1>7. ASSUME NEW q \in Queries, SetQueryInflight(q) PROVE ServerOK'
  <2>1. /\ UNCHANGED <<up, topic, grace, failed, query, located, pool>>
        /\ inflight' = inflight \cup {q}
    BY <1>7 DEF SetQueryInflight, env, mgr
  <2> QED
    BY <1>0, <2>1 DEF ServerOK, TypeOK, QueryInv, Accounted
<1>6. ASSUME \/ ServicesReady \/ EndGracePeriod
             \/ \E keepsTopic \in BOOLEAN : Reregister(keepsTopic)
             \/ \E b \in Ids : PassTimeout(b) \/ DeclareFailed(b)
             \/ \E q \in Queries : BlacklistExecutor(q)
             \/ \E a \in Addresses : Publish(a) \/ Quiesce(a) \/ Crash(a) \/ Restart(a)
             \/ UNCHANGED vars
      PROVE  UNCHANGED server
  BY <1>6 DEF ServicesReady, EndGracePeriod, Reregister, PassTimeout, DeclareFailed, BlacklistExecutor,
              Publish, Quiesce, Crash, Restart, vars
<1> QED
  BY <1>1, <1>2, <1>3, <1>4, <1>5, <1>6, <1>7, ServerKept DEF Next

LEMMA FaultsStep ==
    ASSUME TypeOK, [Next]_vars
    PROVE  faults' \in 0..MaxFaults
<1>1. faults' = faults \/ (faults < MaxFaults /\ faults' = faults + 1)
  BY DEF Next, vars, UpdateMembership, ServicesReady, EndGracePeriod, Reregister, PassTimeout,
         DeclareFailed, Schedule, RegisterQueryLocations, SetQueryInflight, Exec, Complete, CancelFromThreadPool,
         BlacklistExecutor, Publish, Quiesce, Crash, Restart, Fault
<1> QED
  BY <1>1, IdFacts DEF TypeOK

-----------------------------------------------------------------------------
(* The theorems.                                                           *)

LEMMA InitIInv ==
    ASSUME Init
    PROVE  IInv
<1> USE DEF Init
<1>u. \A a \in Addresses : up[a].inc = 1 /\ up[a].st # "down"
  OBVIOUS
<1>q. \A q \in Queries : query[q].st = "idle" /\ query[q].at = None
  OBVIOUS
<1>1. TypeOK
  <2>1. up \in [Addresses -> [inc : 1 .. MaxInc, st : Present \cup {"down", "starting"}]]
    BY IdFacts DEF Present
  <2>2. topic \in [Ids -> Present \cup {"none"}]
    OBVIOUS
  <2>3. faults \in 0 .. MaxFaults
    BY IdFacts
  <2> QED
    BY <2>1, <2>2, <2>3, EmptyFacts DEF TypeOK
<1>2. LocalInv
  BY <1>u, IdFacts DEF LocalInv
<1>3. TopicInv
  BY DEF TopicInv
<1>4. QueryInv
  BY <1>q, IdFacts DEF QueryInv
<1>5. SnapshotInv(cur) /\ UsedInv(cur) /\ ~Recovering
  BY EmptyInv DEF Recovering
<1> QED
  BY <1>1, <1>2, <1>3, <1>4, <1>5 DEF IInv

LEMMA NextIInv ==
    ASSUME IInv, [Next]_vars
    PROVE  IInv'
<1>1. EnvGoal
  BY EnvStep DEF IInv
<1>2. SnapshotsOK' /\ mixed' \in BOOLEAN /\ full' \in BOOLEAN /\ grace' \in BOOLEAN
  BY SnapshotsStep
<1>3. ServerOK'
  BY ServerStep
<1>4. faults' \in 0..MaxFaults
  BY FaultsStep DEF IInv
<1> QED
  BY <1>1, <1>2, <1>3, <1>4 DEF IInv, TypeOK, EnvGoal, EnvType, SnapshotsOK, ServerOK

\* The inductive invariant: one incarnation of an address in the topic and in
\* a snapshot, exact executor groups, and every backend a query may be
\* scheduled on accounted for.
THEOREM Invariant == Spec => []IInv
<1>1. Init => IInv
  BY InitIInv
<1>2. IInv /\ [Next]_vars => IInv'
  BY NextIInv
<1> QED
  BY <1>1, <1>2, PTL DEF Spec

\* The executor group of the snapshot in use, and of the one being recovered,
\* has exactly the backends that run and are not blacklisted, until
\* BlacklistExecutor() meets two incarnations of an address.
THEOREM GroupIsExactHolds == Spec => []GroupIsExact
<1>1. IInv => GroupIsExact
  BY DEF IInv, GroupIsExact, SnapshotInv
<1> QED
  BY <1>1, Invariant, PTL

\* Only UpdateMembership adds to the cancellation pool, outside the grace
\* period, and what it adds ran on backends that the topic does not have.
LEMMA CancelStep ==
    ASSUME IInv, [Next]_vars, NEW q \in pool' \ pool
    PROVE  query[q].at \in failed
<1>1. \/ UpdateMembership
      \/ pool' \subseteq pool
  BY DEF Next, vars, server, ServicesReady, EndGracePeriod, Reregister, PassTimeout,
         DeclareFailed, Schedule, RegisterQueryLocations, SetQueryInflight, Exec, Complete,
         CancelFromThreadPool, BlacklistExecutor, Publish, Quiesce, Crash, Restart
<1>2. PICK n : Updated(n) /\ Install(n)
  BY <1>1, UpdateMakes
<1>3. ~grace /\ q \in located /\ n.backends[query[q].at] = "none"
  BY <1>2 DEF Install, server, CancelQueriesOnFailedBackends
<1>4. /\ query[q].at \in Ids /\ Accounted(query[q].at)
      /\ query[q].at = Local => up[LocalAddress].st \in Present
  BY <1>3 DEF IInv, TypeOK, QueryInv
<1>5. query[q].at # Local
  BY <1>2, <1>3, <1>4 DEF Updated, LocalState, Present
<1>6. topic[query[q].at] = "none"
  BY <1>2, <1>3, <1>4, <1>5 DEF Updated
<1> QED
  BY <1>3, <1>4, <1>5, <1>6 DEF Accounted

\* CancelQueriesOnFailedBackends() cancels only queries whose executor the
\* statestore declared failed, or did not have when a grace period ended, and
\* that is not back since: through any sequence of recoveries and restarts,
\* no query is cancelled because its executor is not known again yet while
\* the grace period lasts.
THEOREM CancelledHadFailedHolds == Spec => CancelledHadFailed
<1>1. IInv /\ [Next]_vars => [\A q \in pool' \ pool : query[q].at \in failed]_vars
  BY CancelStep
<1> QED
  BY <1>1, Invariant, PTL DEF Spec, CancelledHadFailed
=============================================================================

----------------------- MODULE AdmissionControlProofs -----------------------
(***************************************************************************)
(* Proofs about the books of the admission controller, for any number of   *)
(* coordinators, queries, users, hosts, lost and repeated RPCs and         *)
(* crashes: AggregatesMatchRunning, QueueIsPending and WithinLimits of     *)
(* AdmissionControl.                                                       *)
(***************************************************************************)
EXTENDS AdmissionControl, TLAPS, FiniteSetTheorems, SequenceTheorems

-----------------------------------------------------------------------------
(* The inductive invariant.                                                *)

\* The sets that the controller's aggregates count, of r = running.
TrivialIn(r) == {q \in DOMAIN r : r[q].trivial}
AdmittedIn(r) == {q \in DOMAIN r : ~r[q].trivial}
UsersIn(r, h) == {q \in DOMAIN r : h \in r[q].hosts}
PairsIn(r) == {p \in (DOMAIN r) \X Hosts : p[2] \in r[p[1]].hosts}
Entry == [hosts : SUBSET Hosts, trivial : BOOLEAN]
RunningType(r) ==
    /\ DOMAIN r \subseteq Queries
    /\ r \in [DOMAIN r -> Entry]

Accounts(r, s) ==
    /\ IsFiniteSet(DOMAIN r)
    /\ s.running = Cardinality(DOMAIN r)
    /\ s.trivial = Cardinality(TrivialIn(r))
    /\ \A h \in Hosts : s.host[h] = Cardinality(UsersIn(r, h))
    /\ s.mem = Cardinality(PairsIn(r))

Limits(r) ==
    /\ Cardinality(AdmittedIn(r)) <= MaxRequests
    /\ \A h \in Hosts : Cardinality(UsersIn(r, h) \cap AdmittedIn(r)) <= HostLimit

\* A request is in the queue once.
Elements(s) == {s[i] : i \in 1 .. Len(s)}
Injective(s) == \A i, j \in 1 .. Len(s) : s[i] = s[j] => i = j
QueueInv == Injective(queue) /\ stats.queued = Len(queue)

\* The load of a user counts at least what is queued or runs for it, so that
\* no release makes it negative.
LoadOf(W, u) == {q \in W : UserOf[q] = u}
LoadInv == \A u \in Users : stats.user[u] >= Cardinality(LoadOf(Queued \cup Running, u))

\* The books: the queue, the running queries and the statistics together.
StatsType == [running : Nat, queued : Nat, mem : Nat, trivial : 0 .. MaxTrivial,
              user : [Users -> Nat], host : [Hosts -> Nat]]
BookInv ==
    /\ queue \in Seq(Queries) /\ RunningType(running) /\ stats \in StatsType
    /\ Accounts(running, stats) /\ Limits(running) /\ QueueInv /\ LoadInv

\* Where a query can be, by its AdmissionState and its promise: it runs only
\* after the promise was set to "admitted", it is queued only before it is
\* set to anything but "cancelled", and no state is deleted, or made anew,
\* of a query that runs or is queued.
Done(q) == state[q].phase \in {"none", "done"}
FinalSent(q) == \E m \in net : m.query = q /\ m.host \notin Hosts
PhaseOf(q) ==
    /\ q \in Running =>
          /\ outcome[q] = "admitted"
          /\ state[q].phase = "queued" \/ (state[q].phase = "done" /\ state[q].status = "ok")
    /\ q \in Queued => state[q].phase = "queued" /\ outcome[q] \in {"unset", "cancelled"}
    /\ state[q].phase \in {"offered", "submitting"} => outcome[q] \in {"unset", "cancelled"}
    /\ q \in cleaning => q \in Running \/ (state[q].phase = "none" /\ client[q] = "done")
    /\ client[q] = "executing" => Done(q)
    /\ FinalSent(q) => client[q] = "done" /\ Done(q)
PhaseInv == \A q \in Queries : PhaseOf(q)

\* The types of all but the books.
StateType == [phase : {"none", "offered", "submitting", "queued", "done"},
              snapshot : {"", "member", "removed", "unknown"},
              status : {"", "ok", "error"}, unreleased : SUBSET Hosts]
Outcomes == {"unset", "admitted", "rejected", "cancelled", "timed_out"}
RestType ==
    /\ client \in [Queries -> {"idle", "admitting", "polling", "executing", "done"}]
    /\ cancelled \subseteq Queries
    /\ unreleased \in [Queries -> SUBSET Hosts]
    /\ up \subseteq Coordinators
    /\ heartbeats \in [Coordinators -> Seq(SUBSET Queries)]
    /\ net \subseteq [query : Queries, host : Hosts \cup {"none"}]
    /\ state \in [Queries -> StateType]
    /\ outcome \in [Queries -> Outcomes]
    /\ dequeue \in BOOLEAN /\ notify \in BOOLEAN
    /\ member \subseteq Coordinators /\ removed \subseteq Coordinators
    /\ cleaning \subseteq Queries /\ stale \subseteq Queries
    /\ faults \in 0 .. MaxFaults

IInv == RestType /\ BookInv /\ PhaseInv

-----------------------------------------------------------------------------
(* The queue.                                                              *)

LEMMA ElementsCount ==
    ASSUME NEW S, NEW s \in Seq(S), Injective(s)
    PROVE  /\ IsFiniteSet(Elements(s))
           /\ Cardinality(Elements(s)) = Len(s)
<1>1. Len(s) \in Nat
  BY LenProperties
<1>2. IsFiniteSet(1 .. Len(s)) /\ Cardinality(1 .. Len(s)) = Len(s)
  BY <1>1, FS_Interval
<1> DEFINE f == [i \in 1 .. Len(s) |-> s[i]]
<1>3. f \in Bijection(1 .. Len(s), Elements(s))
  BY DEF Bijection, Injection, Surjection, IsInjective, Elements, Injective
<1>4. ExistsBijection(1 .. Len(s), Elements(s))
  BY <1>3 DEF ExistsBijection
<1> QED
  BY <1>2, <1>4, FS_Bijection

LEMMA AppendElement ==
    ASSUME NEW S, NEW s \in Seq(S), NEW q \in S, q \notin Elements(s), Injective(s)
    PROVE  /\ Append(s, q) \in Seq(S)
           /\ Len(Append(s, q)) = Len(s) + 1
           /\ Injective(Append(s, q))
           /\ Elements(Append(s, q)) = Elements(s) \cup {q}
<1>0. Len(s) \in Nat
  BY LenProperties
<1> DEFINE t == Append(s, q)
<1>1. /\ t \in Seq(S) /\ Len(t) = Len(s) + 1
      /\ \A i \in 1 .. Len(s) : t[i] = s[i]
      /\ t[Len(s) + 1] = q
  BY AppendProperties
<1> HIDE DEF t
<1>2. \A i \in 1 .. Len(s) : s[i] # q
  BY DEF Elements
<1>3. Injective(t)
  <2> SUFFICES ASSUME NEW i \in 1 .. Len(t), NEW j \in 1 .. Len(t), t[i] = t[j]
               PROVE  i = j
    BY DEF Injective
  <2>1. (i \in 1 .. Len(s) \/ i = Len(s) + 1) /\ (j \in 1 .. Len(s) \/ j = Len(s) + 1)
    BY <1>0, <1>1
  <2> QED
    BY <2>1, <1>1, <1>2 DEF Injective
<1>4. \A x : x \in Elements(t) <=> x \in Elements(s) \cup {q}
  <2> TAKE x
  <2>1. ASSUME x \in Elements(t) PROVE x \in Elements(s) \cup {q}
    <3>1. PICK i \in 1 .. Len(t) : x = t[i]
      BY <2>1 DEF Elements
    <3>2. i \in 1 .. Len(s) \/ i = Len(s) + 1
      BY <1>0, <1>1
    <3> QED
      BY <3>1, <3>2, <1>1 DEF Elements
  <2>2. ASSUME x \in Elements(s) PROVE x \in Elements(t)
    <3>1. PICK i \in 1 .. Len(s) : x = s[i]
      BY <2>2 DEF Elements
    <3>2. i \in 1 .. Len(t)
      BY <1>0, <1>1
    <3> QED
      BY <3>1, <3>2, <1>1 DEF Elements
  <2>3. q \in Elements(t)
    <3>1. Len(s) + 1 \in 1 .. Len(t)
      BY <1>0, <1>1
    <3> QED
      BY <3>1, <1>1 DEF Elements
  <2> QED
    BY <2>1, <2>2, <2>3
<1> QED
  BY <1>1, <1>3, <1>4 DEF t

\* t is s without its element at i.
Without(s, i, t) ==
    /\ Len(t) = Len(s) - 1
    /\ \A j \in 1 .. Len(t) : t[j] = IF j < i THEN s[j] ELSE s[j + 1]

LEMMA RemoveElement ==
    ASSUME NEW S, NEW s \in Seq(S), NEW t \in Seq(S), NEW i \in 1 .. Len(s), Injective(s),
           Without(s, i, t)
    PROVE  /\ Injective(t)
           /\ Elements(t) = Elements(s) \ {s[i]}
<1>0. Len(s) \in Nat /\ Len(t) \in Nat /\ Len(s) = Len(t) + 1
  BY LenProperties DEF Without
<1> DEFINE p(j) == IF j < i THEN j ELSE j + 1
<1>1. \A j \in 1 .. Len(t) : p(j) \in 1 .. Len(s) /\ p(j) # i /\ t[j] = s[p(j)]
  BY <1>0 DEF Without
<1>2. \A j, k \in 1 .. Len(t) : p(j) = p(k) => j = k
  BY <1>0
<1>3. Injective(t)
  <2> SUFFICES ASSUME NEW j \in 1 .. Len(t), NEW k \in 1 .. Len(t), t[j] = t[k]
               PROVE  j = k
    BY DEF Injective
  <2>1. p(j) \in 1 .. Len(s) /\ p(k) \in 1 .. Len(s) /\ s[p(j)] = s[p(k)]
    BY <1>1
  <2>2. p(j) = p(k)
    <3> HIDE DEF p
    <3> QED
      BY <2>1 DEF Injective
  <2> QED
    BY <2>2, <1>2
<1>4. \A x : x \in Elements(t) <=> x \in Elements(s) \ {s[i]}
  <2> TAKE x
  <2>1. ASSUME x \in Elements(t) PROVE x \in Elements(s) \ {s[i]}
    <3>1. PICK j \in 1 .. Len(t) : x = t[j]
      BY <2>1 DEF Elements
    <3>2. x = s[p(j)] /\ p(j) \in 1 .. Len(s) /\ p(j) # i
      BY <3>1, <1>1
    <3> HIDE DEF p
    <3> QED
      BY <3>2 DEF Elements, Injective
  <2>2. ASSUME x \in Elements(s) \ {s[i]} PROVE x \in Elements(t)
    <3>1. PICK k \in 1 .. Len(s) : x = s[k]
      BY <2>2 DEF Elements
    <3>2. k # i
      BY <3>1, <2>2
    <3>3. PICK j \in 1 .. Len(t) : p(j) = k
      <4>1. CASE k < i
        <5>1. k \in 1 .. Len(t) /\ p(k) = k
          BY <4>1, <1>0
        <5> QED
          BY <5>1
      <4>2. CASE k > i
        <5>1. k - 1 \in 1 .. Len(t) /\ p(k - 1) = k
          BY <4>2, <1>0
        <5> QED
          BY <5>1
      <4> QED
        BY <3>2, <4>1, <4>2, <1>0
    <3>4. t[j] = s[k]
      BY <3>3, <1>1
    <3> QED
      BY <3>1, <3>4 DEF Elements
  <2> QED
    BY <2>1, <2>2
<1> QED
  BY <1>3, <1>4

LEMMA TakeHead ==
    ASSUME NEW S, NEW s \in Seq(S), s # <<>>
    PROVE  /\ Tail(s) \in Seq(S)
           /\ Without(s, 1, Tail(s))
           /\ 1 \in 1 .. Len(s)
           /\ Head(s) = s[1]
<1>1. Len(s) \in Nat \ {0}
  BY EmptySeq
<1>2. /\ Tail(s) \in Seq(S)
      /\ Len(Tail(s)) = Len(s) - 1
      /\ \A i \in 1 .. Len(Tail(s)) : Tail(s)[i] = s[i + 1]
  BY HeadTailProperties
<1>3. Head(s) = s[1]
  OBVIOUS
<1> QED
  BY <1>1, <1>2, <1>3 DEF Without

LEMMA TakeAt ==
    ASSUME NEW S, NEW s \in Seq(S), NEW i \in 1 .. Len(s)
    PROVE  LET t == SubSeq(s, 1, i - 1) \o SubSeq(s, i + 1, Len(s))
           IN  t \in Seq(S) /\ Without(s, i, t)
<1>0. Len(s) \in Nat /\ \A j \in 1 .. Len(s) : s[j] \in S
  BY LenProperties, ElementOfSeq
<1> DEFINE a == SubSeq(s, 1, i - 1)
           b == SubSeq(s, i + 1, Len(s))
<1>1. a \in Seq(S) /\ Len(a) = i - 1 /\ \A j \in 1 .. i - 1 : a[j] = s[j]
  <2>1. \A j \in 1 .. i - 1 : s[j] \in S
    BY <1>0
  <2>2. /\ a \in Seq(S) /\ Len(a) = (IF 1 <= i - 1 THEN i - 1 - 1 + 1 ELSE 0)
        /\ \A j \in 1 .. i - 1 - 1 + 1 : a[j] = s[1 + j - 1]
    BY <2>1, <1>0, SubSeqProperties
  <2> HIDE DEF a
  <2> QED
    BY <2>2, <1>0
<1>2. b \in Seq(S) /\ Len(b) = Len(s) - i /\ \A j \in 1 .. Len(s) - i : b[j] = s[i + j]
  <2>1. \A j \in i + 1 .. Len(s) : s[j] \in S
    BY <1>0
  <2>2. /\ b \in Seq(S) /\ Len(b) = (IF i + 1 <= Len(s) THEN Len(s) - (i + 1) + 1 ELSE 0)
        /\ \A j \in 1 .. Len(s) - (i + 1) + 1 : b[j] = s[i + 1 + j - 1]
    BY <2>1, <1>0, SubSeqProperties
  <2> HIDE DEF b
  <2>3. Len(b) = Len(s) - i
    BY <2>2, <1>0
  <2>4. ASSUME NEW j \in 1 .. Len(s) - i PROVE b[j] = s[i + j]
    <3>1. j \in 1 .. Len(s) - (i + 1) + 1 /\ i + 1 + j - 1 = i + j
      BY <1>0
    <3> QED
      BY <3>1, <2>2
  <2> QED
    BY <2>2, <2>3, <2>4
<1> HIDE DEF a, b
<1>3. /\ a \o b \in Seq(S) /\ Len(a \o b) = Len(a) + Len(b)
      /\ \A j \in 1 .. Len(a) + Len(b) : (a \o b)[j] = IF j <= Len(a) THEN a[j] ELSE b[j - Len(a)]
  BY <1>1, <1>2, ConcatProperties
<1>4. Len(a \o b) = Len(s) - 1
  BY <1>0, <1>1, <1>2, <1>3
<1>5. ASSUME NEW j \in 1 .. Len(s) - 1
      PROVE  (a \o b)[j] = IF j < i THEN s[j] ELSE s[j + 1]
  <2>1. j \in 1 .. Len(a) + Len(b)
    BY <1>0, <1>1, <1>2
  <2>2. CASE j < i
    <3>1. j <= Len(a) /\ j \in 1 .. i - 1
      BY <2>2, <1>0, <1>1
    <3> QED
      BY <2>1, <2>2, <3>1, <1>1, <1>3
  <2>3. CASE ~(j < i)
    <3>1. ~(j <= Len(a)) /\ j - Len(a) \in 1 .. Len(s) - i /\ i + (j - Len(a)) = j + 1
      BY <2>3, <1>0, <1>1
    <3>2. b[j - Len(a)] = s[i + (j - Len(a))]
      BY <3>1, <1>2
    <3> QED
      BY <2>1, <2>3, <3>1, <3>2, <1>3
  <2> QED
    BY <2>2, <2>3
<1>6. Without(s, i, a \o b)
  BY <1>4, <1>5 DEF Without
<1> QED
  BY <1>3, <1>6 DEF a, b

-----------------------------------------------------------------------------
(* What is counted.                                                        *)

\* r with a record for q.
With(r, q, e) == [x \in (DOMAIN r) \cup {q} |-> IF x = q THEN e ELSE r[x]]

LEMMA FiniteHosts == ASSUME NEW S, S \subseteq Hosts
                     PROVE  IsFiniteSet(S) /\ Cardinality(S) \in Nat
<1>1. IsFiniteSet(S)
  BY FS_Subset, ConstantsAssumption
<1> QED
  BY <1>1, FS_CardinalityType

LEMMA WithFacts ==
    ASSUME NEW r, RunningType(r), NEW q \in Queries \ DOMAIN r, NEW e \in Entry,
           NEW w, w = With(r, q, e)
    PROVE  /\ RunningType(w)
           /\ DOMAIN w = (DOMAIN r) \cup {q}
           /\ w[q] = e
           /\ \A x \in DOMAIN r : w[x] = r[x]
  BY DEF With, RunningType

LEMMA CountedSets ==
    ASSUME NEW r, RunningType(r), IsFiniteSet(DOMAIN r)
    PROVE  /\ Cardinality(DOMAIN r) \in Nat
           /\ IsFiniteSet(TrivialIn(r)) /\ Cardinality(TrivialIn(r)) \in Nat
           /\ IsFiniteSet(AdmittedIn(r)) /\ Cardinality(AdmittedIn(r)) \in Nat
           /\ \A h : IsFiniteSet(UsersIn(r, h)) /\ Cardinality(UsersIn(r, h)) \in Nat
           /\ IsFiniteSet(PairsIn(r)) /\ Cardinality(PairsIn(r)) \in Nat
<1>1. /\ TrivialIn(r) \in SUBSET DOMAIN r /\ AdmittedIn(r) \in SUBSET DOMAIN r
      /\ \A h : UsersIn(r, h) \in SUBSET DOMAIN r
      /\ PairsIn(r) \in SUBSET ((DOMAIN r) \X Hosts)
  BY DEF TrivialIn, AdmittedIn, UsersIn, PairsIn
<1>2. IsFiniteSet((DOMAIN r) \X Hosts)
  BY FS_Product, ConstantsAssumption
<1>3. /\ IsFiniteSet(TrivialIn(r)) /\ IsFiniteSet(AdmittedIn(r))
      /\ \A h : IsFiniteSet(UsersIn(r, h))
      /\ IsFiniteSet(PairsIn(r))
  BY <1>1, <1>2, FS_Subset
<1> QED
  BY <1>3, FS_CardinalityType

\* What a query with the record e adds to each count.
Grown(r, w, e) ==
    /\ Cardinality(DOMAIN w) = Cardinality(DOMAIN r) + 1
    /\ Cardinality(TrivialIn(w)) = Cardinality(TrivialIn(r)) + IF e.trivial THEN 1 ELSE 0
    /\ \A h \in Hosts : Cardinality(UsersIn(w, h)) =
                           Cardinality(UsersIn(r, h)) + IF h \in e.hosts THEN 1 ELSE 0
    /\ Cardinality(PairsIn(w)) = Cardinality(PairsIn(r)) + Cardinality(e.hosts)

LEMMA CountsAdd ==
    ASSUME NEW r, RunningType(r), IsFiniteSet(DOMAIN r), NEW q \in Queries \ DOMAIN r,
           NEW e \in Entry, NEW w, w = With(r, q, e)
    PROVE  IsFiniteSet(DOMAIN w) /\ Grown(r, w, e)
<1> DEFINE S == e.hosts
           t == e.trivial
<1>0. /\ RunningType(w) /\ DOMAIN w = (DOMAIN r) \cup {q} /\ w[q] = e
      /\ \A x \in DOMAIN r : w[x] = r[x]
  BY WithFacts
<1>s. S \in SUBSET Hosts /\ t \in BOOLEAN
  BY DEF Entry
<1>1. IsFiniteSet(DOMAIN w) /\ Cardinality(DOMAIN w) = Cardinality(DOMAIN r) + 1
  BY <1>0, FS_AddElement
<1>2. Cardinality(TrivialIn(w)) = Cardinality(TrivialIn(r)) + IF t THEN 1 ELSE 0
  <2>1. IsFiniteSet(TrivialIn(r)) /\ Cardinality(TrivialIn(r)) \in Nat /\ q \notin TrivialIn(r)
    BY CountedSets DEF TrivialIn
  <2>2. CASE t
    <3>1. TrivialIn(w) = TrivialIn(r) \cup {q}
      BY <1>0, <2>2 DEF TrivialIn
    <3> QED
      BY <3>1, <2>1, <2>2, FS_AddElement
  <2>3. CASE ~t
    <3>1. TrivialIn(w) = TrivialIn(r)
      BY <1>0, <2>3 DEF TrivialIn
    <3> QED
      BY <3>1, <2>1, <2>3
  <2> QED
    BY <2>2, <2>3
<1>3. ASSUME NEW h \in Hosts
      PROVE  Cardinality(UsersIn(w, h)) = Cardinality(UsersIn(r, h)) + IF h \in S THEN 1 ELSE 0
  <2>1. IsFiniteSet(UsersIn(r, h)) /\ Cardinality(UsersIn(r, h)) \in Nat /\ q \notin UsersIn(r, h)
    BY CountedSets DEF UsersIn
  <2>2. CASE h \in S
    <3>1. UsersIn(w, h) = UsersIn(r, h) \cup {q}
      BY <1>0, <2>2 DEF UsersIn
    <3> QED
      BY <3>1, <2>1, <2>2, FS_AddElement
  <2>3. CASE h \notin S
    <3>1. UsersIn(w, h) = UsersIn(r, h)
      BY <1>0, <2>3 DEF UsersIn
    <3> QED
      BY <3>1, <2>1, <2>3
  <2> QED
    BY <2>2, <2>3
<1>4. Cardinality(PairsIn(w)) = Cardinality(PairsIn(r)) + Cardinality(S)
  <2> DEFINE D == {q} \X S
             f == [h \in S |-> <<q, h>>]
  <2>1. f \in Bijection(S, D)
    <3>1. f \in [S -> D]
      OBVIOUS
    <3>2. \A a, b \in S : f[a] = f[b] => a = b
      OBVIOUS
    <3>3. \A d \in D : \E a \in S : f[a] = d
      OBVIOUS
    <3> QED
      BY <3>1, <3>2, <3>3 DEF Bijection, Injection, Surjection, IsInjective
  <2>2. IsFiniteSet(S) /\ Cardinality(S) \in Nat
    BY <1>s, FiniteHosts
  <2>3. IsFiniteSet(D) /\ Cardinality(D) = Cardinality(S)
    BY <2>1, <2>2, FS_Bijection DEF ExistsBijection
  <2>4. \A p : p \in PairsIn(w) <=> p \in PairsIn(r) \cup D
    <3> TAKE p
    <3>1. ASSUME p \in PairsIn(w) PROVE p \in PairsIn(r) \cup D
      <4>1. p \in ((DOMAIN r) \cup {q}) \X Hosts /\ p[2] \in w[p[1]].hosts
        BY <3>1, <1>0 DEF PairsIn
      <4>2. CASE p[1] = q
        BY <4>1, <4>2, <1>0
      <4>3. CASE p[1] # q
        BY <4>1, <4>3, <1>0 DEF PairsIn
      <4> QED
        BY <4>2, <4>3
    <3>2. ASSUME p \in PairsIn(r) PROVE p \in PairsIn(w)
      BY <3>2, <1>0 DEF PairsIn
    <3>3. ASSUME p \in D PROVE p \in PairsIn(w)
      BY <3>3, <1>0, <1>s DEF PairsIn
    <3> QED
      BY <3>1, <3>2, <3>3
  <2>5. PairsIn(w) = PairsIn(r) \cup D
    BY <2>4
  <2>6. PairsIn(r) \cap D = {}
    BY DEF PairsIn
  <2>7. IsFiniteSet(PairsIn(r)) /\ Cardinality(PairsIn(r)) \in Nat
    BY CountedSets
  <2> HIDE DEF D
  <2>8. Cardinality(PairsIn(r) \cup D) =
           Cardinality(PairsIn(r)) + Cardinality(D) - Cardinality(PairsIn(r) \cap D)
    BY <2>3, <2>7, FS_Union
  <2> QED
    <3>1. Cardinality(PairsIn(r) \cap D) = 0
      BY <2>6, FS_EmptySet
    <3>2. Cardinality(PairsIn(w)) = Cardinality(PairsIn(r) \cup D)
      BY <2>5
    <3> QED
      BY <3>1, <3>2, <2>2, <2>3, <2>7, <2>8
<1> QED
  BY <1>1, <1>2, <1>3, <1>4 DEF Grown

\* Removing q undoes adding it.
Less(r, q) == [x \in (DOMAIN r) \ {q} |-> r[x]]

LEMMA LessWith ==
    ASSUME NEW r, RunningType(r), NEW q \in DOMAIN r
    PROVE  /\ RunningType(Less(r, q))
           /\ DOMAIN Less(r, q) = (DOMAIN r) \ {q}
           /\ q \in Queries \ DOMAIN Less(r, q)
           /\ r[q] \in Entry
           /\ r = With(Less(r, q), q, r[q])
<1>1. r[q] \in Entry /\ q \in Queries
  BY DEF RunningType
<1>3. /\ RunningType(Less(r, q)) /\ DOMAIN Less(r, q) = (DOMAIN r) \ {q}
      /\ \A x \in (DOMAIN r) \ {q} : Less(r, q)[x] = r[x]
  BY DEF Less, RunningType
<1> DEFINE w == With(Less(r, q), q, r[q])
<1>4. /\ RunningType(w) /\ DOMAIN w = DOMAIN r /\ w[q] = r[q]
      /\ \A x \in DOMAIN r : w[x] = r[x]
  BY <1>1, <1>3, WithFacts
<1> HIDE DEF w
<1>5. w = r
  BY <1>4 DEF RunningType
<1> QED
  BY <1>1, <1>3, <1>5 DEF w

LEMMA CountsLess ==
    ASSUME NEW r, RunningType(r), IsFiniteSet(DOMAIN r), NEW q \in DOMAIN r,
           NEW w, w = Less(r, q)
    PROVE  IsFiniteSet(DOMAIN w) /\ Grown(w, r, r[q])
<1>1. /\ RunningType(w) /\ DOMAIN w = (DOMAIN r) \ {q} /\ q \in Queries \ DOMAIN w
      /\ r[q] \in Entry
      /\ r = With(w, q, r[q])
  BY LessWith
<1>2. IsFiniteSet(DOMAIN w)
  BY <1>1, FS_RemoveElement
<1> QED
  BY <1>1, <1>2, CountsAdd

\* q releases some of its hosts.
Reduced(r, q, hosts) == [r EXCEPT ![q].hosts = @ \ hosts]

LEMMA CountsKeep ==
    ASSUME NEW r, RunningType(r), IsFiniteSet(DOMAIN r), NEW q \in DOMAIN r, NEW hosts,
           NEW w, w = Reduced(r, q, hosts)
    PROVE  /\ RunningType(w) /\ DOMAIN w = DOMAIN r
           /\ w[q].trivial = r[q].trivial /\ w[q].hosts = r[q].hosts \ hosts
           /\ \A x \in (DOMAIN r) \ {q} : w[x] = r[x]
           /\ Cardinality(TrivialIn(w)) = Cardinality(TrivialIn(r))
           /\ \A h \in Hosts : Cardinality(UsersIn(r, h)) = Cardinality(UsersIn(w, h)) +
                                  IF h \in hosts \cap r[q].hosts THEN 1 ELSE 0
           /\ Cardinality(PairsIn(r)) = Cardinality(PairsIn(w)) +
                                          Cardinality(hosts \cap r[q].hosts)
<1> DEFINE H == r[q].hosts
           l == Less(r, q)
<1>1. /\ RunningType(l) /\ DOMAIN l = (DOMAIN r) \ {q} /\ q \in Queries \ DOMAIN l
      /\ r[q] \in Entry /\ H \in SUBSET Hosts
      /\ r = With(l, q, r[q])
  BY LessWith DEF Entry
<1>2. IsFiniteSet(DOMAIN l)
  BY <1>1, FS_RemoveElement
<1>3. /\ RunningType(w) /\ DOMAIN w = DOMAIN r
      /\ w[q].hosts = H \ hosts /\ w[q].trivial = r[q].trivial
      /\ \A x \in (DOMAIN r) \ {q} : w[x] = r[x]
  BY DEF RunningType, Entry, Reduced
<1>4. Less(w, q) = l
  BY <1>3 DEF Less
<1>5. w = With(l, q, w[q]) /\ w[q] \in Entry
  <2>1. q \in DOMAIN w /\ RunningType(w)
    BY <1>3
  <2>2. w = With(Less(w, q), q, w[q]) /\ w[q] \in Entry
    <3> HIDE DEF l, H
    <3>1. \A v, x : RunningType(v) /\ x \in DOMAIN v =>
                        v = With(Less(v, x), x, v[x]) /\ v[x] \in Entry
      BY LessWith
    <3> QED
      BY <3>1, <2>1, Zenon
  <2> QED
    BY <1>4, <2>2
<1> HIDE DEF l, H
<1>7. Grown(l, w, w[q])
  BY <1>1, <1>2, <1>5, CountsAdd
<1>8. Grown(l, r, r[q])
  BY <1>1, <1>2, CountsAdd
<1>9. Cardinality(H) = Cardinality(H \ hosts) + Cardinality(hosts \cap H)
  <2> DEFINE A == H \ hosts
             B == hosts \cap H
  <2>1. /\ IsFiniteSet(A) /\ IsFiniteSet(B)
        /\ Cardinality(A) \in Nat /\ Cardinality(B) \in Nat
    BY <1>1, FiniteHosts
  <2>2. A \cup B = H /\ A \cap B = {}
    OBVIOUS
  <2> HIDE DEF A, B
  <2>3. Cardinality(A \cup B) = Cardinality(A) + Cardinality(B) - Cardinality(A \cap B)
    BY <2>1, FS_Union
  <2>4. Cardinality(H) = Cardinality(A) + Cardinality(B)
    <3>1. Cardinality(A \cap B) = 0
      BY <2>2, FS_EmptySet
    <3>2. Cardinality(A \cup B) = Cardinality(H)
      BY <2>2
    <3> QED
      BY <3>1, <3>2, <2>1, <2>3
  <2> QED
    BY <2>4 DEF A, B
<1>10. /\ Cardinality(PairsIn(l)) \in Nat /\ \A h : Cardinality(UsersIn(l, h)) \in Nat
       /\ Cardinality(H \ hosts) \in Nat /\ Cardinality(hosts \cap H) \in Nat
  BY <1>1, <1>2, CountedSets, FiniteHosts
<1>11. Cardinality(PairsIn(r)) = Cardinality(PairsIn(w)) + Cardinality(hosts \cap H)
  <2>1. /\ Cardinality(PairsIn(w)) = Cardinality(PairsIn(l)) + Cardinality(H \ hosts)
        /\ Cardinality(PairsIn(r)) = Cardinality(PairsIn(l)) + Cardinality(H)
    BY <1>3, <1>7, <1>8 DEF Grown, H
  <2> QED
    BY <2>1, <1>9, <1>10
<1>12. ASSUME NEW h \in Hosts
       PROVE  Cardinality(UsersIn(r, h)) =
                 Cardinality(UsersIn(w, h)) + IF h \in hosts \cap H THEN 1 ELSE 0
  <2>1. /\ Cardinality(UsersIn(w, h)) =
             Cardinality(UsersIn(l, h)) + IF h \in H \ hosts THEN 1 ELSE 0
        /\ Cardinality(UsersIn(r, h)) = Cardinality(UsersIn(l, h)) + IF h \in H THEN 1 ELSE 0
        /\ Cardinality(UsersIn(l, h)) \in Nat
    BY <1>3, <1>7, <1>8, <1>10 DEF Grown, H
  <2>2. CASE h \in H /\ h \in hosts
    BY <2>1, <2>2
  <2>3. CASE h \in H /\ h \notin hosts
    BY <2>1, <2>3
  <2>4. CASE h \notin H
    BY <2>1, <2>4
  <2> QED
    BY <2>2, <2>3, <2>4
<1> QED
  BY <1>3, <1>7, <1>8, <1>11, <1>12 DEF H, Grown

-----------------------------------------------------------------------------
(* The limits.                                                             *)

LEMMA LimitsNumbers == MaxRequests \in Nat /\ HostLimit \in Nat /\ MaxTrivial \in Nat
  BY ConstantsAssumption

LEMMA LimitsShrink ==
    ASSUME NEW r, NEW w, RunningType(r), IsFiniteSet(DOMAIN r), RunningType(w),
           IsFiniteSet(DOMAIN w), Limits(r), AdmittedIn(w) \subseteq AdmittedIn(r),
           \A h \in Hosts : UsersIn(w, h) \cap AdmittedIn(w) \subseteq UsersIn(r, h)
    PROVE  Limits(w)
<1>1. /\ Cardinality(AdmittedIn(w)) \in Nat /\ Cardinality(AdmittedIn(r)) \in Nat
      /\ Cardinality(AdmittedIn(w)) <= Cardinality(AdmittedIn(r))
  BY CountedSets, FS_Subset
<1>2. ASSUME NEW h \in Hosts
      PROVE  Cardinality(UsersIn(w, h) \cap AdmittedIn(w)) <= HostLimit
  <2> DEFINE A == UsersIn(w, h) \cap AdmittedIn(w)
             B == UsersIn(r, h) \cap AdmittedIn(r)
  <2>1. A \subseteq B
    OBVIOUS
  <2>2. IsFiniteSet(B)
    <3>1. B \in SUBSET AdmittedIn(r)
      OBVIOUS
    <3> QED
      BY <3>1, CountedSets, FS_Subset
  <2>3. Cardinality(B) <= HostLimit
    BY DEF Limits
  <2> HIDE DEF A, B
  <2>4. IsFiniteSet(A) /\ Cardinality(A) <= Cardinality(B)
    BY <2>1, <2>2, FS_Subset
  <2>5. Cardinality(A) \in Nat /\ Cardinality(B) \in Nat
    BY <2>2, <2>4, FS_CardinalityType
  <2>6. Cardinality(A) <= HostLimit
    BY <2>3, <2>4, <2>5, LimitsNumbers
  <2> QED
    BY <2>6 DEF A
<1>3. Cardinality(AdmittedIn(w)) <= MaxRequests
  BY <1>1, LimitsNumbers DEF Limits
<1> QED
  BY <1>2, <1>3 DEF Limits

\* A query that is not trivial is admitted within the limits, a trivial one
\* does not count.
LEMMA LimitsGrow ==
    ASSUME NEW r, RunningType(r), IsFiniteSet(DOMAIN r), Limits(r),
           NEW q \in Queries \ DOMAIN r, NEW e \in Entry, NEW w, w = With(r, q, e),
           \/ e.trivial
           \/ /\ Cardinality(DOMAIN r) < MaxRequests
              /\ \A h \in e.hosts : Cardinality(UsersIn(r, h)) + 1 <= HostLimit
    PROVE  Limits(w)
<1>1. /\ RunningType(w) /\ DOMAIN w = (DOMAIN r) \cup {q} /\ w[q] = e
      /\ \A x \in DOMAIN r : w[x] = r[x]
  BY WithFacts
<1>2. IsFiniteSet(DOMAIN w) /\ Grown(r, w, e)
  BY CountsAdd
<1>3. CASE e.trivial
  <2>1. AdmittedIn(w) \subseteq AdmittedIn(r)
    BY <1>1, <1>3 DEF AdmittedIn
  <2>2. ASSUME NEW h \in Hosts
        PROVE  UsersIn(w, h) \cap AdmittedIn(w) \subseteq UsersIn(r, h)
    BY <1>1, <1>3 DEF AdmittedIn, UsersIn
  <2> QED
    BY <1>1, <1>2, <2>1, <2>2, LimitsShrink
<1>4. CASE /\ Cardinality(DOMAIN r) < MaxRequests
           /\ \A h \in e.hosts : Cardinality(UsersIn(r, h)) + 1 <= HostLimit
  <2>1. Cardinality(AdmittedIn(w)) <= MaxRequests
    <3>1. AdmittedIn(w) \in SUBSET DOMAIN w
      BY DEF AdmittedIn
    <3>2. Cardinality(AdmittedIn(w)) <= Cardinality(DOMAIN w) /\ Cardinality(AdmittedIn(w)) \in Nat
      BY <3>1, <1>1, <1>2, FS_Subset, CountedSets
    <3>3. Cardinality(DOMAIN r) \in Nat /\ Cardinality(DOMAIN w) = Cardinality(DOMAIN r) + 1
      BY <1>2, CountedSets DEF Grown
    <3> QED
      BY <3>2, <3>3, <1>4, LimitsNumbers
  <2>2. ASSUME NEW h \in Hosts
        PROVE  Cardinality(UsersIn(w, h) \cap AdmittedIn(w)) <= HostLimit
    <3> DEFINE A == UsersIn(w, h) \cap AdmittedIn(w)
    <3>1. IsFiniteSet(UsersIn(w, h)) /\ Cardinality(UsersIn(w, h)) \in Nat
      BY <1>1, <1>2, CountedSets
    <3>2. CASE h \in e.hosts
      <4>1. A \in SUBSET UsersIn(w, h)
        OBVIOUS
      <4> HIDE DEF A
      <4>2. /\ IsFiniteSet(A) /\ Cardinality(A) \in Nat
            /\ Cardinality(A) <= Cardinality(UsersIn(w, h))
        BY <4>1, <3>1, FS_Subset, FS_CardinalityType
      <4>3. Cardinality(UsersIn(w, h)) = Cardinality(UsersIn(r, h)) + 1
        BY <1>2, <3>2 DEF Grown
      <4>4. Cardinality(UsersIn(r, h)) + 1 <= HostLimit
        BY <1>4, <3>2
      <4>5. Cardinality(A) <= HostLimit
        BY <4>2, <4>3, <4>4, <3>1, LimitsNumbers
      <4> QED
        BY <4>5 DEF A
    <3>3. CASE h \notin e.hosts
      <4>1. A = UsersIn(r, h) \cap AdmittedIn(r)
        BY <1>1, <3>3 DEF AdmittedIn, UsersIn
      <4>2. Cardinality(UsersIn(r, h) \cap AdmittedIn(r)) <= HostLimit
        BY DEF Limits
      <4> QED
        BY <4>1, <4>2
    <3> QED
      BY <3>2, <3>3
  <2> QED
    BY <2>1, <2>2 DEF Limits
<1> QED
  BY <1>3, <1>4

-----------------------------------------------------------------------------
(* The statistics.                                                         *)

StatsInt == [running : Int, queued : Int, mem : Int, trivial : Int,
             user : [Users -> Int], host : [Hosts -> Int]]

LEMMA StatsFields ==
    ASSUME NEW s \in StatsType
    PROVE  /\ s \in StatsInt
           /\ s.running \in Nat /\ s.queued \in Nat /\ s.mem \in Nat
           /\ s.trivial \in Nat /\ s.trivial <= MaxTrivial
           /\ \A u \in Users : s.user[u] \in Nat
           /\ \A h \in Hosts : s.host[h] \in Nat
  BY LimitsNumbers DEF StatsType, StatsInt

LEMMA StatsTyped ==
    ASSUME NEW s \in StatsInt, s.running \in Nat, s.queued \in Nat, s.mem \in Nat,
           s.trivial \in Nat, s.trivial <= MaxTrivial,
           \A u \in Users : s.user[u] \in Nat, \A h \in Hosts : s.host[h] \in Nat
    PROVE  s \in StatsType
<1>1. s.user \in [Users -> Nat] /\ s.host \in [Hosts -> Nat] /\ s.trivial \in 0 .. MaxTrivial
  BY LimitsNumbers DEF StatsInt
<1>2. s = [running |-> s.running, queued |-> s.queued, mem |-> s.mem, trivial |-> s.trivial,
           user |-> s.user, host |-> s.host]
  BY DEF StatsInt
<1> QED
  BY <1>1, <1>2 DEF StatsType

LEMMA QueryFacts ==
    ASSUME NEW q \in Queries
    PROVE  /\ UserOf[q] \in Users
           /\ HostsOf[q] \in SUBSET Hosts
           /\ CoordinatorOf[q] \in Coordinators
           /\ IsFiniteSet(HostsOf[q]) /\ Cardinality(HostsOf[q]) \in Nat
<1>1. UserOf[q] \in Users /\ HostsOf[q] \in SUBSET Hosts /\ CoordinatorOf[q] \in Coordinators
  BY ConstantsAssumption
<1> QED
  BY <1>1, FiniteHosts

LEMMA QueueFields ==
    ASSUME NEW s \in StatsInt, NEW q \in Queries, NEW z, z = QueueStats(s, q)
    PROVE  /\ z \in StatsInt
           /\ z.running = s.running /\ z.mem = s.mem /\ z.trivial = s.trivial /\ z.host = s.host
           /\ z.queued = s.queued + 1
           /\ \A u \in Users : z.user[u] = s.user[u] + IF u = UserOf[q] THEN 1 ELSE 0
<1>0. /\ UserOf[q] \in Users
      /\ s.running \in Int /\ s.queued \in Int /\ s.mem \in Int /\ s.trivial \in Int
      /\ s.user \in [Users -> Int] /\ s.host \in [Hosts -> Int]
  BY QueryFacts DEF StatsInt
<1>1. /\ z.running = s.running /\ z.mem = s.mem /\ z.trivial = s.trivial /\ z.host = s.host
      /\ z.queued = s.queued + 1
      /\ z.user = [s.user EXCEPT ![UserOf[q]] = @ + 1]
  BY DEF QueueStats, StatsInt
<1>2. z.user \in [Users -> Int]
  BY <1>0, <1>1
<1>3. \A u \in Users : z.user[u] = s.user[u] + IF u = UserOf[q] THEN 1 ELSE 0
  BY <1>0, <1>1
<1>4. z \in StatsInt
  <2>1. z = [running |-> z.running, queued |-> z.queued, mem |-> z.mem,
             trivial |-> z.trivial, user |-> z.user, host |-> z.host]
    BY DEF QueueStats, StatsInt
  <2> QED
    BY <2>1, <1>0, <1>1, <1>2 DEF StatsInt
<1> QED
  BY <1>1, <1>3, <1>4

LEMMA DequeueFields ==
    ASSUME NEW s \in StatsInt, NEW q, NEW z, z = DequeueStats(s, q)
    PROVE  /\ z \in StatsInt
           /\ z.running = s.running /\ z.mem = s.mem /\ z.trivial = s.trivial /\ z.host = s.host
           /\ z.queued = s.queued - 1
           /\ z.user = s.user
  BY DEF DequeueStats, StatsInt

LEMMA AdmitFields ==
    ASSUME NEW s \in StatsInt, NEW q \in Queries, NEW wq \in BOOLEAN, NEW t \in BOOLEAN,
           NEW z, z = UpdateStatsOnAdmission(s, q, wq, t)
    PROVE  /\ z \in StatsInt
           /\ z.running = s.running + 1 /\ z.queued = s.queued
           /\ z.mem = s.mem + Cardinality(HostsOf[q])
           /\ z.trivial = s.trivial + IF t THEN 1 ELSE 0
           /\ \A u \in Users : z.user[u] = s.user[u] + IF u = UserOf[q] /\ ~wq THEN 1 ELSE 0
           /\ \A h \in Hosts : z.host[h] = s.host[h] + IF h \in HostsOf[q] THEN 1 ELSE 0
<1>0. /\ UserOf[q] \in Users /\ Cardinality(HostsOf[q]) \in Nat
      /\ s.running \in Int /\ s.queued \in Int /\ s.mem \in Int /\ s.trivial \in Int
      /\ s.user \in [Users -> Int] /\ s.host \in [Hosts -> Int]
  BY QueryFacts DEF StatsInt
<1>1. /\ z.running = s.running + 1 /\ z.queued = s.queued
      /\ z.mem = s.mem + Cardinality(HostsOf[q])
      /\ z.trivial = s.trivial + IF t THEN 1 ELSE 0
      /\ z.user = [s.user EXCEPT ![UserOf[q]] = @ + IF wq THEN 0 ELSE 1]
      /\ z.host = [h \in Hosts |-> s.host[h] + IF h \in HostsOf[q] THEN 1 ELSE 0]
  BY DEF UpdateStatsOnAdmission, StatsInt
<1>2. z.user \in [Users -> Int] /\ z.host \in [Hosts -> Int]
  BY <1>0, <1>1
<1>3. /\ \A u \in Users : z.user[u] = s.user[u] + IF u = UserOf[q] /\ ~wq THEN 1 ELSE 0
      /\ \A h \in Hosts : z.host[h] = s.host[h] + IF h \in HostsOf[q] THEN 1 ELSE 0
  BY <1>0, <1>1
<1>4. z \in StatsInt
  <2>1. z = [running |-> z.running, queued |-> z.queued, mem |-> z.mem,
             trivial |-> z.trivial, user |-> z.user, host |-> z.host]
    BY DEF UpdateStatsOnAdmission, StatsInt
  <2> QED
    BY <2>1, <1>0, <1>1, <1>2 DEF StatsInt
<1> QED
  BY <1>1, <1>3, <1>4

LEMMA ReleaseFields ==
    ASSUME NEW s \in StatsInt, NEW hosts, NEW z, z = ReleaseHosts(s, hosts),
           Cardinality(hosts) \in Nat
    PROVE  /\ z \in StatsInt
           /\ z.running = s.running /\ z.queued = s.queued /\ z.trivial = s.trivial
           /\ z.user = s.user
           /\ z.mem = s.mem - Cardinality(hosts)
           /\ \A h \in Hosts : z.host[h] = s.host[h] - IF h \in hosts THEN 1 ELSE 0
<1>0. /\ s.running \in Int /\ s.queued \in Int /\ s.mem \in Int /\ s.trivial \in Int
      /\ s.user \in [Users -> Int] /\ s.host \in [Hosts -> Int]
  BY DEF StatsInt
<1>1. /\ z.running = s.running /\ z.queued = s.queued /\ z.trivial = s.trivial
      /\ z.user = s.user
      /\ z.mem = s.mem - Cardinality(hosts)
      /\ z.host = [h \in Hosts |-> s.host[h] - IF h \in hosts THEN 1 ELSE 0]
  BY DEF ReleaseHosts, StatsInt
<1>2. z.host \in [Hosts -> Int]
  BY <1>0, <1>1
<1>3. \A h \in Hosts : z.host[h] = s.host[h] - IF h \in hosts THEN 1 ELSE 0
  BY <1>0, <1>1
<1>4. z \in StatsInt
  <2>1. z = [running |-> z.running, queued |-> z.queued, mem |-> z.mem,
             trivial |-> z.trivial, user |-> z.user, host |-> z.host]
    BY DEF ReleaseHosts, StatsInt
  <2> QED
    BY <2>1, <1>0, <1>1, <1>2 DEF StatsInt
<1> QED
  BY <1>1, <1>3, <1>4

-----------------------------------------------------------------------------
(* The books: the queue, the running queries and the statistics together.  *)

\* s and z differ by a query with the record e.
Booked(s, z, e) ==
    /\ z.running = s.running + 1
    /\ z.trivial = s.trivial + IF e.trivial THEN 1 ELSE 0
    /\ \A h \in Hosts : z.host[h] = s.host[h] + IF h \in e.hosts THEN 1 ELSE 0
    /\ z.mem = s.mem + Cardinality(e.hosts)

LEMMA AccountsGrow ==
    ASSUME NEW r, NEW w, NEW s, NEW z, NEW e, Accounts(r, s), IsFiniteSet(DOMAIN w),
           Booked(s, z, e), Grown(r, w, e)
    PROVE  Accounts(w, z)
  BY DEF Accounts, Booked, Grown

LEMMA AccountsShrink ==
    ASSUME NEW r, NEW w, NEW s, NEW z \in StatsInt, NEW e \in Entry, Accounts(r, s),
           RunningType(w), IsFiniteSet(DOMAIN w), Booked(z, s, e), Grown(w, r, e)
    PROVE  Accounts(w, z)
<1>1. /\ Cardinality(DOMAIN w) \in Nat /\ Cardinality(TrivialIn(w)) \in Nat
      /\ Cardinality(PairsIn(w)) \in Nat /\ \A h : Cardinality(UsersIn(w, h)) \in Nat
  BY CountedSets
<1>2. Cardinality(e.hosts) \in Nat
  BY FiniteHosts DEF Entry
<1>3. /\ z.running \in Int /\ z.mem \in Int /\ z.trivial \in Int
      /\ \A h \in Hosts : z.host[h] \in Int
  BY DEF StatsInt
<1>4. z.running = Cardinality(DOMAIN w)
  BY <1>1, <1>3 DEF Accounts, Booked, Grown
<1>5. z.trivial = Cardinality(TrivialIn(w))
  <2>1. z.trivial + (IF e.trivial THEN 1 ELSE 0) =
           Cardinality(TrivialIn(w)) + IF e.trivial THEN 1 ELSE 0
    BY DEF Accounts, Booked, Grown
  <2> QED
    BY <2>1, <1>1, <1>3
<1>6. ASSUME NEW h \in Hosts PROVE z.host[h] = Cardinality(UsersIn(w, h))
  <2>1. z.host[h] + (IF h \in e.hosts THEN 1 ELSE 0) =
           Cardinality(UsersIn(w, h)) + IF h \in e.hosts THEN 1 ELSE 0
    BY DEF Accounts, Booked, Grown
  <2> QED
    BY <2>1, <1>1, <1>3
<1>7. z.mem = Cardinality(PairsIn(w))
  <2>1. z.mem + Cardinality(e.hosts) = Cardinality(PairsIn(w)) + Cardinality(e.hosts)
    BY DEF Accounts, Booked, Grown
  <2> QED
    BY <2>1, <1>1, <1>2, <1>3
<1> QED
  BY <1>4, <1>5, <1>6, <1>7 DEF Accounts

LEMMA AccountsTyped ==
    ASSUME NEW r, NEW s \in StatsInt, RunningType(r), Accounts(r, s), s.queued \in Nat,
           s.trivial <= MaxTrivial, \A u \in Users : s.user[u] \in Nat
    PROVE  s \in StatsType
<1>1. /\ Cardinality(DOMAIN r) \in Nat /\ Cardinality(TrivialIn(r)) \in Nat
      /\ Cardinality(PairsIn(r)) \in Nat /\ \A h : Cardinality(UsersIn(r, h)) \in Nat
  BY CountedSets DEF Accounts
<1>2. /\ s.running \in Nat /\ s.mem \in Nat /\ s.trivial \in Nat
      /\ \A h \in Hosts : s.host[h] \in Nat
  BY <1>1 DEF Accounts
<1> QED
  BY <1>2, StatsTyped

LEMMA AccountsSame ==
    ASSUME NEW r, NEW s, NEW z, Accounts(r, s), z.running = s.running, z.mem = s.mem,
           z.trivial = s.trivial, z.host = s.host
    PROVE  Accounts(r, z)
  BY DEF Accounts

\* The load of a user is finite.
LEMMA LoadFinite ==
    ASSUME BookInv, NEW u
    PROVE  /\ IsFiniteSet(Queued \cup Running)
           /\ IsFiniteSet(LoadOf(Queued \cup Running, u))
           /\ Cardinality(LoadOf(Queued \cup Running, u)) \in Nat
<1>1. Queued = Elements(queue) /\ Running = DOMAIN running
  BY DEF Queued, Elements, Running
<1>2. IsFiniteSet(Queued)
  BY <1>1, ElementsCount DEF BookInv, QueueInv
<1>3. IsFiniteSet(Running)
  BY <1>1 DEF BookInv, Accounts
<1>4. IsFiniteSet(Queued \cup Running)
  BY <1>2, <1>3, FS_Union
<1> DEFINE W == Queued \cup Running
<1> HIDE DEF W
<1>5. LoadOf(W, u) \in SUBSET W
  BY DEF LoadOf
<1>6. IsFiniteSet(LoadOf(W, u))
  BY <1>4, <1>5, FS_Subset DEF W
<1>7. Cardinality(LoadOf(W, u)) \in Nat
  BY <1>6, FS_CardinalityType
<1> QED
  BY <1>4, <1>6, <1>7 DEF W

\* How a load changes when a query comes or goes.
LEMMA LoadGrows ==
    ASSUME NEW W, NEW q, NEW u, NEW V, V = W \cup {q}, IsFiniteSet(LoadOf(W, u)),
           Cardinality(LoadOf(W, u)) \in Nat
    PROVE  Cardinality(LoadOf(V, u)) <= Cardinality(LoadOf(W, u)) + IF u = UserOf[q] THEN 1 ELSE 0
<1>1. CASE u = UserOf[q]
  <2>1. LoadOf(V, u) = LoadOf(W, u) \cup {q}
    BY <1>1 DEF LoadOf
  <2>2. Cardinality(LoadOf(W, u) \cup {q}) =
           IF q \in LoadOf(W, u) THEN Cardinality(LoadOf(W, u)) ELSE Cardinality(LoadOf(W, u)) + 1
    BY FS_AddElement
  <2>3. Cardinality(LoadOf(V, u)) = Cardinality(LoadOf(W, u) \cup {q})
    BY <2>1
  <2>4. Cardinality(LoadOf(V, u)) <= Cardinality(LoadOf(W, u)) + 1
    BY <2>2, <2>3
  <2> QED
    BY <2>4, <1>1
<1>2. CASE u # UserOf[q]
  <2>1. LoadOf(V, u) = LoadOf(W, u)
    BY <1>2 DEF LoadOf
  <2> QED
    BY <2>1, <1>2
<1> QED
  BY <1>1, <1>2

LEMMA LoadShrinks ==
    ASSUME NEW W, NEW q \in W, NEW u, NEW V, V = W \ {q}, IsFiniteSet(LoadOf(W, u)),
           Cardinality(LoadOf(W, u)) \in Nat
    PROVE  /\ Cardinality(LoadOf(V, u)) = Cardinality(LoadOf(W, u)) - IF u = UserOf[q] THEN 1 ELSE 0
           /\ Cardinality(LoadOf(V, u)) \in Nat
<1>1. CASE u = UserOf[q]
  <2>1. LoadOf(V, u) = LoadOf(W, u) \ {q} /\ q \in LoadOf(W, u)
    BY <1>1 DEF LoadOf
  <2>2. IsFiniteSet(LoadOf(W, u) \ {q})
        /\ Cardinality(LoadOf(W, u) \ {q}) = Cardinality(LoadOf(W, u)) - 1
    BY <2>1, FS_RemoveElement
  <2>3. Cardinality(LoadOf(V, u)) \in Nat
    BY <2>1, <2>2, FS_CardinalityType
  <2> QED
    BY <2>1, <2>2, <2>3, <1>1
<1>2. CASE u # UserOf[q]
  <2>1. LoadOf(V, u) = LoadOf(W, u)
    BY <1>2 DEF LoadOf
  <2> QED
    BY <2>1, <1>2
<1> QED
  BY <1>1, <1>2

\* A request is queued.
LEMMA BookEnqueue ==
    ASSUME BookInv, NEW q \in Queries, q \notin Queued, queue' = Append(queue, q),
           stats' = QueueStats(stats, q), running' = running
    PROVE  BookInv'
<1>1. Queued = Elements(queue) /\ Queued' = Elements(queue')
  BY DEF Queued, Elements
<1>2. /\ queue' \in Seq(Queries) /\ Len(queue') = Len(queue) + 1 /\ Injective(queue')
      /\ Queued' = Queued \cup {q}
  BY <1>1, AppendElement DEF BookInv, QueueInv
<1>3. /\ stats \in StatsInt /\ stats.queued \in Nat /\ stats.trivial <= MaxTrivial
      /\ \A u \in Users : stats.user[u] \in Nat
  BY StatsFields DEF BookInv
<1>4. /\ stats' \in StatsInt
      /\ stats'.running = stats.running /\ stats'.mem = stats.mem
      /\ stats'.trivial = stats.trivial /\ stats'.host = stats.host
      /\ stats'.queued = stats.queued + 1
      /\ \A u \in Users : stats'.user[u] = stats.user[u] + IF u = UserOf[q] THEN 1 ELSE 0
  BY <1>3, QueueFields
<1>5. Accounts(running', stats')
  <2>1. Accounts(running, stats')
    BY <1>4, AccountsSame DEF BookInv
  <2> QED
    BY <2>1
<1>6. stats' \in StatsType
  <2>1. \A u \in Users : stats'.user[u] \in Nat
    BY <1>3, <1>4
  <2>2. stats'.queued \in Nat /\ stats'.trivial <= MaxTrivial
    BY <1>3, <1>4
  <2>3. RunningType(running')
    BY DEF BookInv
  <2> QED
    BY <2>1, <2>2, <2>3, <1>4, <1>5, AccountsTyped
<1>7. LoadInv'
  <2> SUFFICES ASSUME NEW u \in Users
               PROVE  stats'.user[u] >= Cardinality(LoadOf(Queued' \cup Running', u))
    BY DEF LoadInv
  <2> DEFINE W == Queued \cup Running
             V == Queued' \cup Running'
  <2>1. V = W \cup {q}
    BY <1>2 DEF Running
  <2>2. IsFiniteSet(LoadOf(W, u)) /\ Cardinality(LoadOf(W, u)) \in Nat
    BY LoadFinite
  <2>3. stats.user[u] >= Cardinality(LoadOf(W, u))
    BY DEF BookInv, LoadInv
  <2> HIDE DEF W, V
  <2>4. Cardinality(LoadOf(V, u)) <= Cardinality(LoadOf(W, u)) + IF u = UserOf[q] THEN 1 ELSE 0
    BY <2>1, <2>2, LoadGrows
  <2>4a. IsFiniteSet(LoadOf(V, u))
    <3>1. LoadOf(V, u) \in SUBSET (LoadOf(W, u) \cup {q})
      BY <2>1 DEF LoadOf
    <3> QED
      BY <3>1, <2>2, FS_AddElement, FS_Subset
  <2>5. Cardinality(LoadOf(V, u)) \in Nat
    BY <2>4a, FS_CardinalityType
  <2>6. stats'.user[u] = stats.user[u] + IF u = UserOf[q] THEN 1 ELSE 0
    BY <1>4
  <2>7. stats'.user[u] >= Cardinality(LoadOf(V, u))
    BY <2>2, <2>3, <2>4, <2>5, <2>6, <1>3
  <2> QED
    BY <2>7 DEF V
<1>8. QueueInv'
  BY <1>2, <1>4 DEF BookInv, QueueInv
<1> QED
  BY <1>2, <1>5, <1>6, <1>7, <1>8 DEF BookInv

\* A request leaves the queue.
LEMMA BookDequeue ==
    ASSUME BookInv, NEW i \in 1 .. Len(queue), queue' \in Seq(Queries),
           Without(queue, i, queue'), NEW q, stats' = DequeueStats(stats, q), running' = running
    PROVE  BookInv' /\ Queued' = Queued \ {queue[i]}
<1>1. Queued = Elements(queue) /\ Queued' = Elements(queue')
  BY DEF Queued, Elements
<1>2. /\ Len(queue') = Len(queue) - 1 /\ Len(queue') \in Nat /\ Injective(queue')
      /\ Queued' = Queued \ {queue[i]}
  <2>1. Injective(queue') /\ Elements(queue') = Elements(queue) \ {queue[i]}
    BY RemoveElement DEF BookInv, QueueInv
  <2>2. Len(queue') = Len(queue) - 1 /\ Len(queue') \in Nat
    BY LenProperties DEF Without
  <2> QED
    BY <2>1, <2>2, <1>1
<1>3. /\ stats \in StatsInt /\ stats.queued \in Nat /\ stats.trivial <= MaxTrivial
      /\ \A u \in Users : stats.user[u] \in Nat
  BY StatsFields DEF BookInv
<1>4. /\ stats' \in StatsInt
      /\ stats'.running = stats.running /\ stats'.mem = stats.mem
      /\ stats'.trivial = stats.trivial /\ stats'.host = stats.host
      /\ stats'.queued = stats.queued - 1
      /\ stats'.user = stats.user
  BY <1>3, DequeueFields
<1>5. Accounts(running', stats')
  <2>1. Accounts(running, stats')
    BY <1>4, AccountsSame DEF BookInv
  <2> QED
    BY <2>1
<1>6. QueueInv'
  BY <1>2, <1>4 DEF BookInv, QueueInv
<1>7. stats' \in StatsType
  <2>1. stats'.queued \in Nat /\ stats'.trivial <= MaxTrivial
    BY <1>2, <1>3, <1>4, <1>6 DEF QueueInv
  <2>2. RunningType(running')
    BY DEF BookInv
  <2> QED
    BY <2>1, <2>2, <1>3, <1>4, <1>5, AccountsTyped
<1>8. LoadInv'
  <2> SUFFICES ASSUME NEW u \in Users
               PROVE  stats'.user[u] >= Cardinality(LoadOf(Queued' \cup Running', u))
    BY DEF LoadInv
  <2> DEFINE W == Queued \cup Running
             V == Queued' \cup Running'
  <2>1. V \subseteq W
    BY <1>2 DEF Running
  <2>2. IsFiniteSet(LoadOf(W, u)) /\ Cardinality(LoadOf(W, u)) \in Nat
    BY LoadFinite
  <2>3. stats.user[u] >= Cardinality(LoadOf(W, u))
    BY DEF BookInv, LoadInv
  <2> HIDE DEF W, V
  <2>4. LoadOf(V, u) \in SUBSET LoadOf(W, u)
    BY <2>1 DEF LoadOf
  <2>5. /\ Cardinality(LoadOf(V, u)) <= Cardinality(LoadOf(W, u))
        /\ Cardinality(LoadOf(V, u)) \in Nat
    BY <2>2, <2>4, FS_Subset, FS_CardinalityType
  <2>6. stats'.user[u] = stats.user[u]
    BY <1>4
  <2>7. stats'.user[u] >= Cardinality(LoadOf(V, u))
    BY <2>2, <2>3, <2>5, <2>6, <1>3
  <2> QED
    BY <2>7 DEF V
<1> QED
  BY <1>2, <1>5, <1>6, <1>7, <1>8 DEF BookInv

\* What AdmitQuery() does to the running queries and their aggregates; s is
\* the statistics, without the request if it was queued.
LEMMA AdmitBooks ==
    ASSUME BookInv, NEW q \in Queries, q \notin Running, NEW s \in StatsInt,
           Accounts(running, s), NEW wq \in BOOLEAN, AdmitQuery(q, s, IsTrivial(q), wq),
           IsTrivial(q) \/ CanAdmitRequest(q, wq)
    PROVE  /\ RunningType(running') /\ Running' = Running \cup {q}
           /\ Accounts(running', stats') /\ Limits(running')
           /\ stats' \in StatsInt /\ stats'.queued = s.queued /\ stats'.trivial <= MaxTrivial
           /\ \A u \in Users : stats'.user[u] = s.user[u] + IF u = UserOf[q] /\ ~wq THEN 1 ELSE 0
<1> DEFINE e == [hosts |-> HostsOf[q], trivial |-> IsTrivial(q)]
<1>0. IsTrivial(q) \in BOOLEAN
  BY DEF IsTrivial
<1>1. e \in Entry /\ e.hosts = HostsOf[q] /\ e.trivial = IsTrivial(q)
  BY <1>0, QueryFacts DEF Entry
<1>2. running' = With(running, q, e)
  BY DEF AdmitQuery, With, Running
<1>3. /\ stats' \in StatsInt
      /\ stats'.running = s.running + 1 /\ stats'.queued = s.queued
      /\ stats'.mem = s.mem + Cardinality(HostsOf[q])
      /\ stats'.trivial = s.trivial + IF IsTrivial(q) THEN 1 ELSE 0
      /\ \A u \in Users : stats'.user[u] = s.user[u] + IF u = UserOf[q] /\ ~wq THEN 1 ELSE 0
      /\ \A h \in Hosts : stats'.host[h] = s.host[h] + IF h \in HostsOf[q] THEN 1 ELSE 0
  <2>1. stats' = UpdateStatsOnAdmission(s, q, wq, IsTrivial(q))
    BY DEF AdmitQuery
  <2> QED
    BY <2>1, <1>0, AdmitFields
<1> HIDE DEF e
<1>4. RunningType(running) /\ IsFiniteSet(DOMAIN running) /\ q \in Queries \ DOMAIN running
  BY DEF BookInv, Accounts, Running
<1>5. RunningType(running') /\ DOMAIN running' = (DOMAIN running) \cup {q}
  BY <1>1, <1>2, <1>4, WithFacts
<1>6. IsFiniteSet(DOMAIN running') /\ Grown(running, running', e)
  BY <1>1, <1>2, <1>4, CountsAdd
<1>7. Booked(s, stats', e)
  BY <1>1, <1>3 DEF Booked
<1>8. Accounts(running', stats')
  BY <1>6, <1>7, AccountsGrow
<1>9. Limits(running')
  <2>1. \/ e.trivial
        \/ /\ Cardinality(DOMAIN running) < MaxRequests
           /\ \A h \in e.hosts : Cardinality(UsersIn(running, h)) + 1 <= HostLimit
    <3>1. CASE IsTrivial(q)
      BY <3>1, <1>1
    <3>2. CASE CanAdmitRequest(q, wq)
      <4>1. Cardinality(DOMAIN running) < MaxRequests
        BY <3>2 DEF CanAdmitRequest, BookInv, Accounts
      <4>2. ASSUME NEW h \in HostsOf[q]
            PROVE  Cardinality(UsersIn(running, h)) + 1 <= HostLimit
        <5>1. stats.host[h] + 1 <= HostLimit
          BY <3>2 DEF CanAdmitRequest, HasAvailableSlots
        <5>2. h \in Hosts
          BY QueryFacts
        <5> QED
          BY <5>1, <5>2 DEF BookInv, Accounts
      <4> QED
        BY <4>1, <4>2, <1>1
    <3> QED
      BY <3>1, <3>2
  <2>2. Limits(running)
    BY DEF BookInv
  <2> QED
    BY <2>1, <2>2, <1>1, <1>2, <1>4, LimitsGrow
<1>10. stats'.trivial <= MaxTrivial
  <2>1. s.trivial = stats.trivial /\ stats.trivial \in Nat /\ stats.trivial <= MaxTrivial
    BY StatsFields DEF BookInv, Accounts
  <2> QED
    BY <2>1, <1>3, LimitsNumbers DEF IsTrivial
<1> QED
  BY <1>3, <1>5, <1>8, <1>9, <1>10 DEF Running

LEMMA BookAdmitNow ==
    ASSUME BookInv, NEW q \in Queries, q \notin Queued, q \notin Running, queue' = queue,
           AdmitQuery(q, stats, IsTrivial(q), FALSE),
           IsTrivial(q) \/ CanAdmitRequest(q, FALSE)
    PROVE  BookInv' /\ Running' = Running \cup {q}
<1>1. /\ stats \in StatsInt /\ stats.queued \in Nat
      /\ \A u \in Users : stats.user[u] \in Nat
      /\ Accounts(running, stats)
  BY StatsFields DEF BookInv
<1>2. /\ RunningType(running') /\ Running' = Running \cup {q}
      /\ Accounts(running', stats') /\ Limits(running')
      /\ stats' \in StatsInt /\ stats'.queued = stats.queued /\ stats'.trivial <= MaxTrivial
      /\ \A u \in Users : stats'.user[u] = stats.user[u] + IF u = UserOf[q] THEN 1 ELSE 0
  BY <1>1, AdmitBooks
<1>3. Queued' = Queued /\ QueueInv'
  BY <1>2 DEF Queued, BookInv, QueueInv
<1>4. stats' \in StatsType
  BY <1>1, <1>2, AccountsTyped
<1>5. LoadInv'
  <2> SUFFICES ASSUME NEW u \in Users
               PROVE  stats'.user[u] >= Cardinality(LoadOf(Queued' \cup Running', u))
    BY DEF LoadInv
  <2> DEFINE W == Queued \cup Running
             V == Queued' \cup Running'
  <2>1. V = W \cup {q}
    BY <1>2, <1>3
  <2>2. IsFiniteSet(LoadOf(W, u)) /\ Cardinality(LoadOf(W, u)) \in Nat
    BY LoadFinite
  <2>3. stats.user[u] >= Cardinality(LoadOf(W, u))
    BY DEF BookInv, LoadInv
  <2> HIDE DEF W, V
  <2>4. Cardinality(LoadOf(V, u)) <= Cardinality(LoadOf(W, u)) + IF u = UserOf[q] THEN 1 ELSE 0
    BY <2>1, <2>2, LoadGrows
  <2>4a. IsFiniteSet(LoadOf(V, u))
    <3>1. LoadOf(V, u) \in SUBSET (LoadOf(W, u) \cup {q})
      BY <2>1 DEF LoadOf
    <3> QED
      BY <3>1, <2>2, FS_AddElement, FS_Subset
  <2>5. Cardinality(LoadOf(V, u)) \in Nat
    BY <2>4a, FS_CardinalityType
  <2>6. stats'.user[u] = stats.user[u] + IF u = UserOf[q] THEN 1 ELSE 0
    BY <1>2
  <2>7. stats'.user[u] >= Cardinality(LoadOf(V, u))
    BY <2>2, <2>3, <2>4, <2>5, <2>6, <1>1
  <2> QED
    BY <2>7 DEF V
<1>6. queue' \in Seq(Queries)
  BY DEF BookInv
<1> QED
  BY <1>2, <1>3, <1>4, <1>5, <1>6 DEF BookInv

LEMMA BookAdmitQueued ==
    ASSUME BookInv, queue # <<>>, NEW q, q = Head(queue), q \notin Running, queue' = Tail(queue),
           AdmitQuery(q, DequeueStats(stats, q), IsTrivial(q), TRUE),
           IsTrivial(q) \/ CanAdmitRequest(q, TRUE)
    PROVE  BookInv' /\ Running' = Running \cup {q} /\ Queued' = Queued \ {q} /\ q \in Queued
<1>1. /\ stats \in StatsInt /\ stats.queued \in Nat
      /\ \A u \in Users : stats.user[u] \in Nat
      /\ Accounts(running, stats)
  BY StatsFields DEF BookInv
<1> DEFINE s == DequeueStats(stats, q)
<1>2. /\ s \in StatsInt
      /\ s.running = stats.running /\ s.mem = stats.mem
      /\ s.trivial = stats.trivial /\ s.host = stats.host
      /\ s.queued = stats.queued - 1
      /\ s.user = stats.user
  BY <1>1, DequeueFields
<1> HIDE DEF s
<1>3. Accounts(running, s)
  BY <1>1, <1>2, AccountsSame
<1>4. /\ queue' \in Seq(Queries) /\ Without(queue, 1, queue') /\ 1 \in 1 .. Len(queue)
      /\ q = queue[1]
  BY TakeHead DEF BookInv
<1>5. /\ Injective(queue') /\ Elements(queue') = Elements(queue) \ {q}
      /\ q \in Elements(queue) /\ q \in Queries
      /\ Len(queue') = Len(queue) - 1 /\ Len(queue') \in Nat
  <2>1. Injective(queue') /\ Elements(queue') = Elements(queue) \ {q}
    <3>1. Injective(queue') /\ Elements(queue') = Elements(queue) \ {queue[1]}
      <4> HIDE DEF s
      <4>1. queue \in Seq(Queries) /\ Injective(queue)
        BY DEF BookInv, QueueInv
      <4> QED
        BY <4>1, <1>4, RemoveElement
    <3> QED
      BY <3>1, <1>4
  <2>2. q \in Elements(queue) /\ q \in Queries
    BY <1>4, ElementOfSeq DEF Elements, BookInv
  <2>3. Len(queue') = Len(queue) - 1 /\ Len(queue') \in Nat
    BY <1>4, LenProperties DEF Without
  <2> QED
    BY <2>1, <2>2, <2>3
<1>6. Queued = Elements(queue) /\ Queued' = Elements(queue')
  BY DEF Queued, Elements
<1>7. AdmitQuery(q, s, IsTrivial(q), TRUE)
  BY DEF s
<1>8. /\ RunningType(running') /\ Running' = Running \cup {q}
      /\ Accounts(running', stats') /\ Limits(running')
      /\ stats' \in StatsInt /\ stats'.queued = s.queued /\ stats'.trivial <= MaxTrivial
      /\ \A u \in Users : stats'.user[u] = s.user[u] + IF u = UserOf[q] /\ ~TRUE THEN 1 ELSE 0
  BY <1>2, <1>3, <1>5, <1>7, AdmitBooks
<1>9. \A u \in Users : stats'.user[u] = stats.user[u]
  BY <1>1, <1>2, <1>8
<1>10. QueueInv'
  BY <1>2, <1>5, <1>8 DEF BookInv, QueueInv
<1>11. stats' \in StatsType
  <2>1. stats'.queued \in Nat /\ \A u \in Users : stats'.user[u] \in Nat
    BY <1>1, <1>5, <1>9, <1>10 DEF QueueInv
  <2> QED
    BY <2>1, <1>8, AccountsTyped
<1>12. Queued' \cup Running' = Queued \cup Running
  BY <1>5, <1>6, <1>8
<1>13. LoadInv'
  BY <1>9, <1>12 DEF BookInv, LoadInv
<1> QED
  BY <1>4, <1>5, <1>6, <1>8, <1>10, <1>11, <1>13 DEF BookInv

\* A query is released.
LEMMA BookRelease ==
    ASSUME BookInv, NEW q \in Queries, Queued \cap Running = {}, ReleaseQuery(q), queue' = queue
    PROVE  BookInv' /\ Running' = Running \ {q} /\ Queued' = Queued
<1>0. Queued' = Queued /\ queue' \in Seq(Queries)
  BY DEF Queued, BookInv
<1>1. CASE q \notin Running
  <2>1. UNCHANGED <<stats, running>>
    BY <1>1 DEF ReleaseQuery
  <2> QED
    BY <2>1, <1>0, <1>1 DEF BookInv, QueueInv, LoadInv, Running
<1>2. CASE q \in Running
  <2> DEFINE H == running[q].hosts
             m == ReleaseHosts(stats, H)
  <2>1. /\ RunningType(running) /\ IsFiniteSet(DOMAIN running) /\ q \in DOMAIN running
        /\ stats \in StatsType /\ Accounts(running, stats) /\ Limits(running)
    BY <1>2 DEF BookInv, Accounts, Running
  <2>2. /\ stats \in StatsInt /\ stats.queued \in Nat /\ stats.trivial <= MaxTrivial
        /\ stats.trivial \in Nat
        /\ \A u \in Users : stats.user[u] \in Nat
    BY <2>1, StatsFields
  <2>3. running' = Less(running, q)
    BY <1>2 DEF ReleaseQuery, Less, Running
  <2>4. /\ RunningType(running') /\ DOMAIN running' = (DOMAIN running) \ {q}
        /\ running[q] \in Entry
        /\ IsFiniteSet(DOMAIN running') /\ Grown(running', running, running[q])
    BY <2>1, <2>3, LessWith, CountsLess
  <2>5. Cardinality(H) \in Nat /\ H \in SUBSET Hosts
    BY <2>4, FiniteHosts DEF Entry
  <2>6. /\ m \in StatsInt
        /\ m.running = stats.running /\ m.queued = stats.queued /\ m.trivial = stats.trivial
        /\ m.user = stats.user
        /\ m.mem = stats.mem - Cardinality(H)
        /\ \A h \in Hosts : m.host[h] = stats.host[h] - IF h \in H THEN 1 ELSE 0
    BY <2>2, <2>5, ReleaseFields
  <2>7. stats' = [m EXCEPT !.running = @ - 1,
                           !.trivial = @ - IF running[q].trivial THEN 1 ELSE 0,
                           !.user[UserOf[q]] = @ - 1]
    BY <1>2 DEF ReleaseQuery
  <2> HIDE DEF m, H
  <2>8. UserOf[q] \in Users
    BY QueryFacts
  <2>9. /\ m.running \in Int /\ m.queued \in Int /\ m.mem \in Int /\ m.trivial \in Int
        /\ m.user \in [Users -> Int] /\ m.host \in [Hosts -> Int]
    BY <2>6 DEF StatsInt
  <2>10. /\ stats'.running = m.running - 1 /\ stats'.queued = m.queued /\ stats'.mem = m.mem
         /\ stats'.trivial = m.trivial - IF running[q].trivial THEN 1 ELSE 0
         /\ stats'.user = [m.user EXCEPT ![UserOf[q]] = @ - 1]
         /\ stats'.host = m.host
    BY <2>6, <2>7 DEF StatsInt
  <2>11. stats' \in StatsInt
    <3>1. stats' = [running |-> stats'.running, queued |-> stats'.queued, mem |-> stats'.mem,
                    trivial |-> stats'.trivial, user |-> stats'.user, host |-> stats'.host]
      BY <2>6, <2>7 DEF StatsInt
    <3>2. stats'.user \in [Users -> Int]
      BY <2>8, <2>9, <2>10
    <3> QED
      BY <3>1, <3>2, <2>9, <2>10 DEF StatsInt
  <2>12. Booked(stats', stats, running[q])
    <3>1. stats.running = stats'.running + 1
      BY <2>2, <2>6, <2>9, <2>10 DEF StatsInt
    <3>2. stats.trivial = stats'.trivial + IF running[q].trivial THEN 1 ELSE 0
      BY <2>2, <2>6, <2>10
    <3>3. ASSUME NEW h \in Hosts
          PROVE  stats.host[h] = stats'.host[h] + IF h \in H THEN 1 ELSE 0
      <4>1. stats.host[h] \in Int
        BY <2>2 DEF StatsInt
      <4> QED
        BY <4>1, <2>6, <2>10
    <3>4. stats.mem = stats'.mem + Cardinality(H)
      <4>1. stats.mem \in Int
        BY <2>2 DEF StatsInt
      <4> QED
        BY <4>1, <2>5, <2>6, <2>10
    <3> QED
      BY <3>1, <3>2, <3>3, <3>4 DEF Booked, H
  <2>13. Accounts(running', stats')
    BY <2>1, <2>4, <2>11, <2>12, AccountsShrink
  <2>14. Limits(running')
    <3>1. \A x \in DOMAIN running' : running'[x] = running[x]
      BY <2>3, <2>4 DEF Less
    <3>2. AdmittedIn(running') \subseteq AdmittedIn(running)
      BY <3>1, <2>4 DEF AdmittedIn
    <3>3. \A h \in Hosts : UsersIn(running', h) \cap AdmittedIn(running') \subseteq UsersIn(running, h)
      BY <3>1, <2>4 DEF UsersIn
    <3> QED
      BY <3>2, <3>3, <2>1, <2>4, LimitsShrink
  <2>15. Running' = Running \ {q}
    BY <2>4 DEF Running
  <2>16. \A u \in Users : stats'.user[u] = stats.user[u] - IF u = UserOf[q] THEN 1 ELSE 0
    BY <2>2, <2>6, <2>8, <2>9, <2>10
  <2>17. ASSUME NEW u \in Users
         PROVE  /\ stats'.user[u] >= Cardinality(LoadOf(Queued' \cup Running', u))
                /\ stats'.user[u] \in Nat
    <3> DEFINE W == Queued \cup Running
               V == Queued' \cup Running'
    <3>1. V = W \ {q} /\ q \in W
      BY <1>0, <1>2, <2>15
    <3>2. IsFiniteSet(LoadOf(W, u)) /\ Cardinality(LoadOf(W, u)) \in Nat
      BY LoadFinite
    <3>3. stats.user[u] >= Cardinality(LoadOf(W, u))
      BY DEF BookInv, LoadInv
    <3> HIDE DEF W, V
    <3>4. /\ Cardinality(LoadOf(V, u)) = Cardinality(LoadOf(W, u)) - IF u = UserOf[q] THEN 1 ELSE 0
          /\ Cardinality(LoadOf(V, u)) \in Nat
      BY <3>1, <3>2, LoadShrinks
    <3>5. /\ stats'.user[u] = stats.user[u] - IF u = UserOf[q] THEN 1 ELSE 0
          /\ stats.user[u] \in Nat
      BY <2>2, <2>16
    <3>6. stats'.user[u] >= Cardinality(LoadOf(V, u)) /\ stats'.user[u] \in Nat
      BY <3>2, <3>3, <3>4, <3>5
    <3> QED
      BY <3>6 DEF V
  <2>18. LoadInv'
    BY <2>17 DEF LoadInv
  <2>19. stats' \in StatsType
    <3>1. stats'.queued \in Nat /\ stats'.trivial <= MaxTrivial
      BY <2>2, <2>6, <2>10, LimitsNumbers
    <3> QED
      BY <3>1, <2>4, <2>11, <2>13, <2>17, AccountsTyped
  <2>20. QueueInv'
    BY <2>6, <2>10 DEF BookInv, QueueInv
  <2> QED
    BY <1>0, <2>4, <2>13, <2>14, <2>15, <2>18, <2>19, <2>20 DEF BookInv
<1> QED
  BY <1>1, <1>2

\* Some of its hosts are.
LEMMA BookReleaseBackends ==
    ASSUME BookInv, NEW q \in Queries, NEW hosts, ReleaseQueryBackends(q, hosts), queue' = queue
    PROVE  BookInv' /\ Running' = Running /\ Queued' = Queued
<1>0. Queued' = Queued /\ queue' \in Seq(Queries)
  BY DEF Queued, BookInv
<1>1. CASE q \notin Running
  <2>1. UNCHANGED <<stats, running>>
    BY <1>1 DEF ReleaseQueryBackends
  <2> QED
    BY <2>1, <1>0 DEF BookInv, QueueInv, LoadInv, Running
<1>2. CASE q \in Running
  <2> DEFINE H == hosts \cap running[q].hosts
  <2>1. /\ RunningType(running) /\ IsFiniteSet(DOMAIN running) /\ q \in DOMAIN running
        /\ stats \in StatsType /\ Accounts(running, stats) /\ Limits(running)
    BY <1>2 DEF BookInv, Accounts, Running
  <2>2. /\ stats \in StatsInt /\ stats.queued \in Nat /\ stats.trivial <= MaxTrivial
        /\ \A u \in Users : stats.user[u] \in Nat
        /\ stats.mem \in Int /\ \A h \in Hosts : stats.host[h] \in Int
    BY <2>1, StatsFields
  <2>3. running' = Reduced(running, q, hosts) /\ stats' = ReleaseHosts(stats, H)
    BY <1>2 DEF ReleaseQueryBackends, Reduced
  <2>4. /\ RunningType(running') /\ DOMAIN running' = DOMAIN running
        /\ running'[q].trivial = running[q].trivial
        /\ running'[q].hosts = running[q].hosts \ hosts
        /\ \A x \in (DOMAIN running) \ {q} : running'[x] = running[x]
        /\ Cardinality(TrivialIn(running')) = Cardinality(TrivialIn(running))
        /\ \A h \in Hosts : Cardinality(UsersIn(running, h)) =
                               Cardinality(UsersIn(running', h)) + IF h \in H THEN 1 ELSE 0
        /\ Cardinality(PairsIn(running)) = Cardinality(PairsIn(running')) + Cardinality(H)
    BY <2>1, <2>3, CountsKeep
  <2>5. Cardinality(H) \in Nat
    <3>1. running[q] \in Entry
      BY <2>1 DEF RunningType
    <3>2. H \subseteq Hosts
      BY <3>1 DEF Entry
    <3> QED
      BY <3>2, FiniteHosts
  <2> HIDE DEF H
  <2>6. /\ stats' \in StatsInt
        /\ stats'.running = stats.running /\ stats'.queued = stats.queued
        /\ stats'.trivial = stats.trivial /\ stats'.user = stats.user
        /\ stats'.mem = stats.mem - Cardinality(H)
        /\ \A h \in Hosts : stats'.host[h] = stats.host[h] - IF h \in H THEN 1 ELSE 0
    BY <2>2, <2>3, <2>5, ReleaseFields
  <2>7. Accounts(running', stats')
    <3>1. IsFiniteSet(DOMAIN running')
      BY <2>1, <2>4
    <3>2. Cardinality(PairsIn(running')) \in Nat /\ \A h : Cardinality(UsersIn(running', h)) \in Nat
      BY <3>1, <2>4, CountedSets
    <3>3. stats'.mem = Cardinality(PairsIn(running'))
      BY <3>2, <2>1, <2>4, <2>5, <2>6 DEF Accounts
    <3>4. ASSUME NEW h \in Hosts PROVE stats'.host[h] = Cardinality(UsersIn(running', h))
      <4>1. /\ stats.host[h] = Cardinality(UsersIn(running', h)) + IF h \in H THEN 1 ELSE 0
            /\ stats'.host[h] = stats.host[h] - IF h \in H THEN 1 ELSE 0
        BY <2>1, <2>4, <2>6 DEF Accounts
      <4> QED
        BY <4>1, <3>2
    <3>5. /\ stats'.running = Cardinality(DOMAIN running')
          /\ stats'.trivial = Cardinality(TrivialIn(running'))
      BY <2>1, <2>4, <2>6 DEF Accounts
    <3> QED
      BY <3>1, <3>3, <3>4, <3>5 DEF Accounts
  <2>8. Limits(running')
    <3>1. AdmittedIn(running') \subseteq AdmittedIn(running)
      BY <2>4 DEF AdmittedIn
    <3>2. \A h \in Hosts : UsersIn(running', h) \cap AdmittedIn(running') \subseteq UsersIn(running, h)
      BY <2>4 DEF UsersIn
    <3>3. IsFiniteSet(DOMAIN running')
      BY <2>1, <2>4
    <3> QED
      BY <3>1, <3>2, <3>3, <2>1, <2>4, LimitsShrink
  <2>9. Running' = Running
    BY <2>4 DEF Running
  <2>10. stats' \in StatsType
    BY <2>2, <2>4, <2>6, <2>7, AccountsTyped
  <2>11. LoadInv' /\ QueueInv'
    BY <1>0, <2>6, <2>9 DEF BookInv, LoadInv, QueueInv
  <2> QED
    BY <1>0, <2>4, <2>7, <2>8, <2>9, <2>10, <2>11 DEF BookInv
<1> QED
  BY <1>1, <1>2

\* Nothing happens to the books.
LEMMA BookKept ==
    ASSUME BookInv, UNCHANGED <<queue, running, stats>>
    PROVE  BookInv' /\ Running' = Running /\ Queued' = Queued
  BY DEF BookInv, QueueInv, LoadInv, Running, Queued

-----------------------------------------------------------------------------
(* The state of a query and its promise.                                   *)

\* The state of q is set, and of no other query.
Moved(q, phase, status) ==
    /\ state' \in [Queries -> StateType]
    /\ \A r \in Queries \ {q} : state'[r] = state[r]
    /\ state'[q].phase = phase /\ state'[q].status = status

LEMMA MovedDecided ==
    ASSUME RestType, NEW q \in Queries, NEW status \in {"ok", "error"}, Decided(q, status)
    PROVE  Moved(q, "done", status)
<1>1. HostsOf[q] \in SUBSET Hosts
  BY QueryFacts
<1>2. state \in [Queries -> StateType] /\ state[q] \in StateType
  BY DEF RestType
<1>3. /\ state'[q].phase = "done" /\ state'[q].status = status
      /\ state'[q].unreleased = IF status = "ok" THEN HostsOf[q] ELSE {}
      /\ state'[q].snapshot = state[q].snapshot
      /\ \A r \in Queries \ {q} : state'[r] = state[r]
  BY <1>2 DEF Decided, StateType
<1>4. state'[q] \in StateType
  BY <1>1, <1>2 DEF Decided, StateType
<1>5. state' \in [Queries -> StateType]
  BY <1>2, <1>3, <1>4 DEF Decided
<1> QED
  BY <1>3, <1>5 DEF Moved

LEMMA MovedSubmitting ==
    ASSUME RestType, NEW q \in Queries, NEW s \in {"member", "removed", "unknown"},
           state' = [state EXCEPT ![q].phase = "submitting", ![q].snapshot = s]
    PROVE  Moved(q, "submitting", state[q].status)
<1>1. state \in [Queries -> StateType] /\ state[q] \in StateType
  BY DEF RestType
<1>2. state'[q] \in StateType
  BY <1>1 DEF StateType
<1>3. /\ state'[q].phase = "submitting" /\ state'[q].status = state[q].status
      /\ \A r \in Queries \ {q} : state'[r] = state[r]
  BY <1>1 DEF StateType
<1>4. state' \in [Queries -> StateType]
  BY <1>1, <1>2
<1> QED
  BY <1>3, <1>4 DEF Moved

LEMMA MovedQueued ==
    ASSUME RestType, NEW q \in Queries, state' = [state EXCEPT ![q].phase = "queued"]
    PROVE  Moved(q, "queued", state[q].status)
<1>1. state \in [Queries -> StateType] /\ state[q] \in StateType
  BY DEF RestType
<1>2. state'[q] \in StateType
  BY <1>1 DEF StateType
<1>3. /\ state'[q].phase = "queued" /\ state'[q].status = state[q].status
      /\ \A r \in Queries \ {q} : state'[r] = state[r]
  BY <1>1 DEF StateType
<1>4. state' \in [Queries -> StateType]
  BY <1>1, <1>2
<1> QED
  BY <1>3, <1>4 DEF Moved

LEMMA MovedUnreleased ==
    ASSUME RestType, NEW q \in Queries, NEW h,
           state' = [state EXCEPT ![q].unreleased = @ \ {h}]
    PROVE  Moved(q, state[q].phase, state[q].status)
<1>1. state \in [Queries -> StateType] /\ state[q] \in StateType
  BY DEF RestType
<1>2. state'[q] \in StateType
  BY <1>1 DEF StateType
<1>3. /\ state'[q].phase = state[q].phase /\ state'[q].status = state[q].status
      /\ \A r \in Queries \ {q} : state'[r] = state[r]
  BY <1>1 DEF StateType
<1>4. state' \in [Queries -> StateType]
  BY <1>1, <1>2
<1> QED
  BY <1>3, <1>4 DEF Moved

LEMMA MovedNone ==
    ASSUME RestType, NEW q \in Queries, state' = [state EXCEPT ![q] = NoState]
    PROVE  Moved(q, "none", "")
  BY DEF RestType, StateType, NoState, Moved

LEMMA MovedOffered ==
    ASSUME RestType, NEW q \in Queries,
           state' = [state EXCEPT ![q] = [NoState EXCEPT !.phase = "offered"]]
    PROVE  Moved(q, "offered", "")
  BY DEF RestType, StateType, NoState, Moved

LEMMA OutcomeSet ==
    ASSUME RestType, NEW q \in Queries, NEW value \in Outcomes, SetOutcome(q, value)
    PROVE  /\ outcome' \in [Queries -> Outcomes]
           /\ \A r \in Queries \ {q} : outcome'[r] = outcome[r]
           /\ outcome[q] = "unset" => outcome'[q] = value
           /\ outcome[q] # "unset" => outcome'[q] = outcome[q]
  BY DEF RestType, SetOutcome

\* Nothing that PhaseOf(r) looks at changes.
Same(r) ==
    /\ (r \in Running') <=> (r \in Running)
    /\ (r \in Queued') <=> (r \in Queued)
    /\ (r \in cleaning') => (r \in cleaning)
    /\ client'[r] = client[r] /\ state'[r] = state[r] /\ outcome'[r] = outcome[r]
    /\ FinalSent(r)' => FinalSent(r)

LEMMA SameKept == ASSUME NEW r \in Queries, PhaseOf(r), Same(r) PROVE PhaseOf(r)'
<1>1. Done(r) => Done(r)'
  BY DEF Done, Same
<1> QED
  BY <1>1 DEF PhaseOf, Same

\* Only q changes.
LEMMA OthersKept ==
    ASSUME PhaseInv, NEW q \in Queries, \A r \in Queries \ {q} : Same(r), PhaseOf(q)'
    PROVE  PhaseInv'
<1>1. ASSUME NEW r \in Queries PROVE PhaseOf(r)'
  <2>1. CASE r = q
    BY <2>1
  <2>2. CASE r # q
    BY <2>2, SameKept DEF PhaseInv
  <2> QED
    BY <2>1, <2>2
<1> QED
  BY <1>1 DEF PhaseInv

LEMMA Apart == ASSUME IInv PROVE Queued \cap Running = {} /\ Queued \subseteq Queries
                                 /\ Running \subseteq Queries
<1>1. Queued \subseteq Queries
  BY ElementOfSeq DEF IInv, BookInv, Queued
<1>2. Running \subseteq Queries
  BY DEF IInv, BookInv, RunningType, Running
<1> QED
  BY <1>1, <1>2 DEF IInv, PhaseInv, PhaseOf

-----------------------------------------------------------------------------
(* The actions that leave the books alone.                                 *)

LEMMA MaxFaultsType == MaxFaults \in Nat
  BY ConstantsAssumption

LEMMA FaultType == ASSUME NEW k, Fault(k), faults \in 0 .. MaxFaults PROVE faults' \in 0 .. MaxFaults
  BY MaxFaultsType DEF Fault

LEMMA RegisterQueryKeeps == ASSUME IInv, NEW q \in Queries, RegisterQuery(q) PROVE IInv'
<1>1. RestType'
  BY DEF IInv, RestType, RegisterQuery, controller, membership
<1>2. BookInv' /\ Running' = Running /\ Queued' = Queued
  BY BookKept DEF IInv, RegisterQuery, controller
<1>3. /\ client[q] = "idle" /\ client'[q] = "admitting"
      /\ \A r \in Queries \ {q} : client'[r] = client[r]
      /\ UNCHANGED <<state, outcome, net, cleaning>>
  BY DEF IInv, RestType, RegisterQuery
<1>4. \A r \in Queries \ {q} : Same(r)
  BY <1>2, <1>3 DEF Same, FinalSent
<1>5. PhaseOf(q)'
  <2>1. PhaseOf(q)
    BY DEF IInv, PhaseInv
  <2> QED
    BY <1>2, <1>3, <2>1 DEF PhaseOf, Done, FinalSent
<1> QED
  BY <1>1, <1>2, <1>4, <1>5, OthersKept DEF IInv

LEMMA ReadSnapshotKeeps == ASSUME IInv, NEW q \in Queries, ReadSnapshot(q) PROVE IInv'
<1>0. SnapshotOf(CoordinatorOf[q]) \in {"member", "removed", "unknown"}
  BY DEF SnapshotOf
<1>1. Moved(q, "submitting", state[q].status)
  BY <1>0, MovedSubmitting DEF IInv, ReadSnapshot
<1>2. /\ UNCHANGED <<client, cancelled, unreleased, up, heartbeats, net, outcome, queue,
                     running, stats, dequeue, member, removed, notify, cleaning, stale, faults>>
      /\ state[q].phase = "offered"
  BY DEF ReadSnapshot, coordinator, controller, membership
<1>3. RestType'
  BY <1>1, <1>2 DEF IInv, RestType, Moved
<1>4. BookInv' /\ Running' = Running /\ Queued' = Queued
  BY <1>2, BookKept DEF IInv
<1>5. \A r \in Queries \ {q} : Same(r)
  BY <1>1, <1>2, <1>4 DEF Same, FinalSent, Moved
<1>6. PhaseOf(q)'
  <2>1. PhaseOf(q)
    BY DEF IInv, PhaseInv
  <2> QED
    BY <1>1, <1>2, <1>4, <2>1 DEF PhaseOf, Done, FinalSent, Moved
<1> QED
  BY <1>3, <1>4, <1>5, <1>6, OthersKept DEF IInv

LEMMA UpdatePoolStatsKeeps == ASSUME IInv, UpdatePoolStats PROVE IInv'
<1>1. RestType'
  BY DEF IInv, RestType, UpdatePoolStats, coordinator, membership
<1>2. BookInv' /\ Running' = Running /\ Queued' = Queued
  BY BookKept DEF IInv, UpdatePoolStats
<1>3. \A r \in Queries : Same(r)
  BY <1>2 DEF Same, FinalSent, UpdatePoolStats, coordinator
<1>4. PhaseInv'
  BY <1>3, SameKept DEF IInv, PhaseInv
<1> QED
  BY <1>1, <1>2, <1>4 DEF IInv

LEMMA CancelKeeps == ASSUME IInv, NEW q \in Queries, Cancel(q) PROVE IInv'
<1>1. /\ UNCHANGED <<client, unreleased, up, heartbeats, net, state, queue, running, stats,
                     dequeue, member, removed, notify, cleaning, stale>>
      /\ cancelled' = cancelled \cup {q}
      /\ Fault("cancel")
  BY DEF Cancel, controller, membership
<1>2. UNCHANGED outcome \/ SetOutcome(q, "cancelled")
  BY DEF Cancel
<1>3. /\ outcome' \in [Queries -> Outcomes]
      /\ \A r \in Queries \ {q} : outcome'[r] = outcome[r]
      /\ outcome'[q] = outcome[q] \/ (outcome[q] = "unset" /\ outcome'[q] = "cancelled")
  <2>1. CASE UNCHANGED outcome
    BY <2>1 DEF IInv, RestType
  <2>2. CASE SetOutcome(q, "cancelled")
    <3>1. "cancelled" \in Outcomes
      BY DEF Outcomes
    <3> QED
      BY <2>2, <3>1, OutcomeSet DEF IInv
  <2> QED
    BY <1>2, <2>1, <2>2
<1>4. RestType'
  <2>1. faults' \in 0 .. MaxFaults
    BY <1>1, FaultType DEF IInv, RestType
  <2> QED
    BY <1>1, <1>3, <2>1 DEF IInv, RestType
<1>5. BookInv' /\ Running' = Running /\ Queued' = Queued
  BY <1>1, BookKept DEF IInv
<1>6. \A r \in Queries \ {q} : Same(r)
  BY <1>1, <1>3, <1>5 DEF Same, FinalSent
<1>7. PhaseOf(q)'
  <2>1. PhaseOf(q)
    BY DEF IInv, PhaseInv
  <2> QED
    BY <1>1, <1>3, <1>5, <2>1 DEF PhaseOf, Done, FinalSent
<1> QED
  BY <1>4, <1>5, <1>6, <1>7, OthersKept DEF IInv

LEMMA TryAdmitQueryKeeps == ASSUME IInv, NEW q \in Queries, TryAdmitQuery(q) PROVE IInv'
<1>1. /\ UNCHANGED <<cancelled, unreleased, up, heartbeats, net, queue, running, stats,
                     dequeue, member, removed, notify, cleaning, stale>>
      /\ client[q] = "admitting"
  BY DEF TryAdmitQuery, controller, membership
<1>2. AdmitQueryRpc(q) \/ UNCHANGED <<state, outcome>>
  BY DEF TryAdmitQuery
<1>3. \E c \in {"admitting", "polling", "done"} : client' = [client EXCEPT ![q] = c]
  BY DEF TryAdmitQuery
<1>4. faults' \in 0 .. MaxFaults
  <2>1. UNCHANGED faults \/ Fault("admit")
    BY DEF TryAdmitQuery
  <2> QED
    BY <2>1, FaultType DEF IInv, RestType
<1>5. /\ client' \in [Queries -> {"idle", "admitting", "polling", "executing", "done"}]
      /\ \A r \in Queries \ {q} : client'[r] = client[r]
      /\ client'[q] # "executing"
  BY <1>3 DEF IInv, RestType
<1>6. BookInv' /\ Running' = Running /\ Queued' = Queued
  BY <1>1, BookKept DEF IInv
<1>7. state[q].phase = "none" => /\ q \notin Running /\ q \notin Queued
                                 /\ q \notin cleaning /\ ~FinalSent(q)
  <2>1. PhaseOf(q)
    BY DEF IInv, PhaseInv
  <2> QED
    BY <1>1, <2>1 DEF PhaseOf
<1>8. /\ state' \in [Queries -> StateType] /\ outcome' \in [Queries -> Outcomes]
      /\ \A r \in Queries \ {q} : state'[r] = state[r] /\ outcome'[r] = outcome[r]
      /\ \/ state'[q] = state[q] /\ outcome'[q] = outcome[q]
         \/ state[q].phase = "none" /\ state'[q].phase = "offered" /\ outcome'[q] = "unset"
  <2>1. CASE UNCHANGED <<state, outcome>>
    BY <2>1 DEF IInv, RestType
  <2>2. CASE AdmitQueryRpc(q) /\ state[q].phase # "none"
    BY <2>2 DEF AdmitQueryRpc, IInv, RestType
  <2>3. CASE AdmitQueryRpc(q) /\ state[q].phase = "none"
    <3>1. /\ state' = [state EXCEPT ![q] = [NoState EXCEPT !.phase = "offered"]]
          /\ outcome' = [outcome EXCEPT ![q] = "unset"]
      BY <2>3 DEF AdmitQueryRpc
    <3>2. Moved(q, "offered", "")
      BY <3>1, MovedOffered DEF IInv
    <3>3. /\ outcome' \in [Queries -> Outcomes] /\ outcome'[q] = "unset"
          /\ \A r \in Queries \ {q} : outcome'[r] = outcome[r]
      BY <3>1 DEF IInv, RestType, Outcomes
    <3> QED
      BY <2>3, <3>2, <3>3 DEF Moved
  <2> QED
    BY <1>2, <2>1, <2>2, <2>3
<1>9. RestType'
  BY <1>1, <1>4, <1>5, <1>8 DEF IInv, RestType
<1>10. \A r \in Queries \ {q} : Same(r)
  BY <1>1, <1>5, <1>6, <1>8 DEF Same, FinalSent
<1>11. PhaseOf(q)'
  <2>1. CASE state'[q] = state[q] /\ outcome'[q] = outcome[q]
    <3>1. PhaseOf(q)
      BY DEF IInv, PhaseInv
    <3>2. ~FinalSent(q)
      BY <3>1, <1>1 DEF PhaseOf
    <3>3. q \in cleaning => q \in Running
      BY <3>1, <1>1 DEF PhaseOf
    <3>4. ~FinalSent(q)' /\ ~(client'[q] = "executing")
      BY <3>2, <1>1, <1>5 DEF FinalSent
    <3> QED
      BY <1>1, <1>6, <2>1, <3>1, <3>3, <3>4 DEF PhaseOf
  <2>2. CASE /\ state[q].phase = "none" /\ state'[q].phase = "offered"
             /\ outcome'[q] = "unset"
    <3>1. ~FinalSent(q)'
      BY <1>1, <1>7, <2>2 DEF FinalSent
    <3>2. q \notin Running' /\ q \notin Queued' /\ q \notin cleaning'
      BY <1>1, <1>6, <1>7, <2>2
    <3> QED
      BY <2>2, <3>1, <3>2, <1>5 DEF PhaseOf
  <2> QED
    BY <1>8, <2>1, <2>2
<1> QED
  BY <1>6, <1>9, <1>10, <1>11, OthersKept DEF IInv

\* A step that touches neither the books nor any query, and may add queries
\* that run to the ones to be cleaned up.
LEMMA QuietKeeps ==
    ASSUME IInv, UNCHANGED <<queue, running, stats, client, state, outcome, net>>,
           \A r \in cleaning' : r \in cleaning \/ r \in Running
    PROVE  BookInv' /\ PhaseInv'
<1>1. BookInv' /\ Running' = Running /\ Queued' = Queued
  BY BookKept DEF IInv
<1>2. ASSUME NEW r \in Queries PROVE PhaseOf(r)'
  <2>1. PhaseOf(r)
    BY DEF IInv, PhaseInv
  <2> QED
    BY <1>1, <2>1 DEF PhaseOf, Done, FinalSent
<1> QED
  BY <1>1, <1>2 DEF PhaseInv

LEMMA SendHeartbeatKeeps == ASSUME IInv, NEW c \in Coordinators, SendHeartbeat(c) PROVE IInv'
<1>1. BookInv' /\ PhaseInv'
  BY QuietKeeps DEF SendHeartbeat, controller
<1>2. heartbeats' \in [Coordinators -> Seq(SUBSET Queries)]
  <2> DEFINE R == {q \in Registered : CoordinatorOf[q] = c}
  <2>1. R \in SUBSET Queries
    BY DEF Registered
  <2>2. heartbeats \in [Coordinators -> Seq(SUBSET Queries)]
        /\ heartbeats' = [heartbeats EXCEPT ![c] = Append(@, R)]
    BY DEF SendHeartbeat, IInv, RestType
  <2> HIDE DEF R
  <2>3. Append(heartbeats[c], R) \in Seq(SUBSET Queries)
    BY <2>1, <2>2, AppendProperties
  <2> QED
    BY <2>2, <2>3
<1>3. RestType'
  BY <1>2 DEF IInv, RestType, SendHeartbeat, controller, membership
<1> QED
  BY <1>1, <1>3 DEF IInv

LEMMA AdmissionHeartbeatKeeps ==
    ASSUME IInv, NEW c \in Coordinators, NEW i, AdmissionHeartbeat(c, i)
    PROVE  IInv'
<1>1. BookInv' /\ PhaseInv'
  BY QuietKeeps DEF AdmissionHeartbeat, controller
<1>2. heartbeats' \in [Coordinators -> Seq(SUBSET Queries)]
  <2>1. heartbeats \in [Coordinators -> Seq(SUBSET Queries)]
        /\ heartbeats' = [heartbeats EXCEPT ![c] = SubSeq(@, i + 1, Len(@))]
        /\ i \in 1 .. Len(heartbeats[c])
    BY DEF AdmissionHeartbeat, IInv, RestType
  <2>2. SubSeq(heartbeats[c], i + 1, Len(heartbeats[c])) \in Seq(SUBSET Queries)
    <3>1. heartbeats[c] \in Seq(SUBSET Queries) /\ Len(heartbeats[c]) \in Nat
      BY <2>1, LenProperties
    <3>2. \A j \in i + 1 .. Len(heartbeats[c]) : heartbeats[c][j] \in SUBSET Queries
      BY <2>1, <3>1, ElementOfSeq
    <3>3. i + 1 \in Int /\ Len(heartbeats[c]) \in Int
      BY <2>1, <3>1
    <3> QED
      BY <3>2, <3>3, SubSeqProperties
  <2> QED
    BY <2>1, <2>2
<1>3. cleaning' \subseteq Queries
  BY Apart DEF AdmissionHeartbeat, IInv, RestType
<1>4. RestType'
  BY <1>2, <1>3 DEF IInv, RestType, AdmissionHeartbeat, controller, membership
<1> QED
  BY <1>1, <1>4 DEF IInv

LEMMA CancelQueriesKeeps == ASSUME IInv, CancelQueriesOnFailedCoordinators PROVE IInv'
<1>1. BookInv' /\ PhaseInv'
  BY QuietKeeps DEF CancelQueriesOnFailedCoordinators, coordinator, controller
<1>2. cleaning' \subseteq Queries
  BY Apart DEF CancelQueriesOnFailedCoordinators, IInv, RestType
<1>3. RestType'
  BY <1>2 DEF IInv, RestType, CancelQueriesOnFailedCoordinators, coordinator, controller
<1> QED
  BY <1>1, <1>3 DEF IInv

LEMMA MembershipKeeps ==
    ASSUME IInv, NEW c \in Coordinators, Join(c) \/ Crash(c) \/ Leave(c)
    PROVE  IInv'
<1>1. BookInv' /\ PhaseInv'
  BY QuietKeeps DEF Join, Crash, Leave, coordinator, controller
<1>2. CASE Join(c)
  <2>1. RestType'
    BY <1>2 DEF IInv, RestType, Join, coordinator, controller
  <2> QED
    BY <1>1, <2>1 DEF IInv
<1>3. CASE Leave(c)
  <2>1. RestType'
    BY <1>3 DEF IInv, RestType, Leave, coordinator, controller
  <2> QED
    BY <1>1, <2>1 DEF IInv
<1>4. CASE Crash(c)
  <2>1. faults' \in 0 .. MaxFaults
    BY <1>4, FaultType DEF Crash, IInv, RestType
  <2>2. heartbeats' \in [Coordinators -> Seq(SUBSET Queries)]
    BY <1>4, EmptySeq DEF Crash, IInv, RestType
  <2>3. RestType'
    BY <1>4, <2>1, <2>2 DEF IInv, RestType, Crash, controller, membership
  <2> QED
    BY <1>1, <2>3 DEF IInv
<1> QED
  BY <1>2, <1>3, <1>4

-----------------------------------------------------------------------------
(* The decision.                                                           *)

LEMMA AdmitDecision ==
    ASSUME NEW q, NEW snapshot, NEW fromQueue,
           FindGroupToAdmitOrReject(q, snapshot, fromQueue) = "admit"
    PROVE  IsTrivial(q) \/ CanAdmitRequest(q, fromQueue)
<1>1. "reject" # "admit" /\ "wait" # "admit"
  OBVIOUS
<1> QED
  BY <1>1, Zenon DEF FindGroupToAdmitOrReject

LEMMA SubmitForAdmissionKeeps ==
    ASSUME IInv, NEW q \in Queries, SubmitForAdmission(q)
    PROVE  IInv'
<1> DEFINE decision == FindGroupToAdmitOrReject(q, state[q].snapshot, FALSE)
           Rejected == /\ decision = "reject"
                       /\ SetOutcome(q, "rejected") /\ Decided(q, "error")
                       /\ UNCHANGED controller
           Dropped == /\ decision = "admit" /\ outcome[q] = "cancelled"
                      /\ Decided(q, "error") /\ UNCHANGED <<outcome, controller>>
           Admitted == /\ decision = "admit" /\ outcome[q] # "cancelled"
                       /\ SetOutcome(q, "admitted") /\ AdmitQuery(q, stats, IsTrivial(q), FALSE)
                       /\ Decided(q, "ok") /\ UNCHANGED <<queue, dequeue>>
           Waits == /\ queue' = Append(queue, q) /\ stats' = QueueStats(stats, q)
                    /\ state' = [state EXCEPT ![q].phase = "queued"]
                    /\ UNCHANGED <<outcome, running, dequeue>>
<1>1. Rejected \/ Dropped \/ Admitted \/ Waits
  BY Zenon DEF SubmitForAdmission
<1>2. /\ UNCHANGED <<client, cancelled, unreleased, up, heartbeats, net, member, removed,
                     notify, cleaning, faults>>
      /\ stale' \subseteq stale \cup {q}
      /\ state[q].phase = "submitting"
  BY DEF SubmitForAdmission, coordinator, membership
<1>3. PhaseOf(q) /\ RestType /\ BookInv /\ PhaseInv
  BY DEF IInv, PhaseInv
<1>4. /\ q \notin Running /\ q \notin Queued /\ q \notin cleaning /\ ~FinalSent(q)
      /\ client[q] # "executing" /\ outcome[q] \in {"unset", "cancelled"}
  BY <1>2, <1>3 DEF PhaseOf, Done
<1>5. "rejected" \in Outcomes /\ "admitted" \in Outcomes
  BY DEF Outcomes
<1>6. SUFFICES /\ BookInv' /\ \A r \in Queries \ {q} : /\ (r \in Running') <=> (r \in Running)
                                                       /\ (r \in Queued') <=> (r \in Queued)
               /\ state' \in [Queries -> StateType] /\ outcome' \in [Queries -> Outcomes]
               /\ \A r \in Queries \ {q} : state'[r] = state[r] /\ outcome'[r] = outcome[r]
               /\ dequeue' = dequeue
               /\ q \in Running' => /\ outcome'[q] = "admitted"
                                    /\ state'[q].phase = "done" /\ state'[q].status = "ok"
               /\ q \in Queued' => state'[q].phase = "queued" /\ outcome'[q] \in {"unset", "cancelled"}
               /\ state'[q].phase \in {"queued", "done"}
  <2>1. RestType'
    BY <1>2, <1>3, <1>6 DEF RestType
  <2>2. \A r \in Queries \ {q} : Same(r)
    BY <1>2, <1>6 DEF Same, FinalSent
  <2>3. PhaseOf(q)'
    <3>1. ~FinalSent(q)' /\ q \notin cleaning' /\ client'[q] # "executing"
      BY <1>2, <1>4 DEF FinalSent
    <3> QED
      BY <3>1, <1>6 DEF PhaseOf
  <2> QED
    BY <1>3, <1>6, <2>1, <2>2, <2>3, OthersKept DEF IInv
<1> HIDE DEF decision
<1>7. CASE Rejected
  <2>1. Moved(q, "done", "error")
    BY <1>3, <1>7, MovedDecided
  <2>2. /\ outcome' \in [Queries -> Outcomes]
        /\ \A r \in Queries \ {q} : outcome'[r] = outcome[r]
    BY <1>3, <1>5, <1>7, OutcomeSet
  <2>3. BookInv' /\ Running' = Running /\ Queued' = Queued /\ dequeue' = dequeue
    BY <1>3, <1>7, BookKept DEF controller
  <2> QED
    BY <1>4, <2>1, <2>2, <2>3 DEF Moved
<1>8. CASE Dropped
  <2>1. Moved(q, "done", "error")
    BY <1>3, <1>8, MovedDecided
  <2>2. BookInv' /\ Running' = Running /\ Queued' = Queued /\ dequeue' = dequeue
    BY <1>3, <1>8, BookKept DEF controller
  <2>3. outcome' = outcome /\ outcome \in [Queries -> Outcomes]
    BY <1>3, <1>8 DEF RestType
  <2> QED
    BY <1>4, <2>1, <2>2, <2>3 DEF Moved
<1>9. CASE Admitted
  <2>1. Moved(q, "done", "ok")
    BY <1>3, <1>9, MovedDecided
  <2>2. /\ outcome' \in [Queries -> Outcomes]
        /\ \A r \in Queries \ {q} : outcome'[r] = outcome[r]
        /\ outcome'[q] = "admitted"
    BY <1>3, <1>4, <1>5, <1>9, OutcomeSet
  <2>3. IsTrivial(q) \/ CanAdmitRequest(q, FALSE)
    BY <1>9, AdmitDecision DEF decision
  <2>4. BookInv' /\ Running' = Running \cup {q}
    BY <1>3, <1>4, <1>9, <2>3, BookAdmitNow
  <2>5. Queued' = Queued /\ dequeue' = dequeue
    BY <1>9 DEF Queued
  <2> QED
    BY <1>4, <2>1, <2>2, <2>4, <2>5 DEF Moved
<1>10. CASE Waits
  <2>1. Moved(q, "queued", state[q].status)
    BY <1>3, <1>10, MovedQueued
  <2>2. BookInv'
    BY <1>3, <1>4, <1>10, BookEnqueue
  <2>3. Running' = Running /\ dequeue' = dequeue
    BY <1>10 DEF Running
  <2>4. Queued' = Queued \cup {q}
    <3>1. Queued = Elements(queue) /\ Queued' = Elements(queue')
      BY DEF Queued, Elements
    <3> QED
      BY <3>1, <1>3, <1>4, <1>10, AppendElement DEF BookInv, QueueInv
  <2>5. outcome' = outcome /\ outcome \in [Queries -> Outcomes]
    BY <1>3, <1>10 DEF RestType
  <2> QED
    BY <1>4, <2>1, <2>2, <2>3, <2>4, <2>5 DEF Moved
<1> QED
  BY <1>1, <1>7, <1>8, <1>9, <1>10

LEMMA TryDequeueKeeps == ASSUME IInv, TryDequeue PROVE IInv'
<1> DEFINE decision(q) == FindGroupToAdmitOrReject(q, SnapshotOf(CoordinatorOf[q]), TRUE)
           take == /\ queue' = Tail(queue)
                   /\ UNCHANGED <<coordinator, net, state, membership, cleaning, stale, faults>>
           stop == dequeue' = FALSE
           Stays == /\ stop
                    /\ UNCHANGED <<coordinator, net, state, outcome, queue, running,
                                   stats, membership, cleaning, stale, faults>>
           Dropped(q) == /\ take /\ stop
                         /\ stats' = DequeueStats(stats, q)
                         /\ UNCHANGED <<outcome, running>>
           Rejected(q) == /\ take /\ stop
                          /\ stats' = DequeueStats(stats, q)
                          /\ SetOutcome(q, "rejected")
                          /\ UNCHANGED running
           Admitted(q) == /\ take
                          /\ outcome[q] # "cancelled" /\ decision(q) = "admit"
                          /\ SetOutcome(q, "admitted")
                          /\ AdmitQuery(q, DequeueStats(stats, q), IsTrivial(q), TRUE)
                          /\ UNCHANGED dequeue
           Taken(q) == Dropped(q) \/ Rejected(q) \/ Admitted(q)
<1>1. Stays \/ (queue # <<>> /\ Taken(Head(queue)))
  BY Zenon DEF TryDequeue
<1>2. RestType /\ BookInv /\ PhaseInv
  BY DEF IInv
<1>3. CASE Stays
  <2>1. RestType'
    BY <1>2, <1>3 DEF RestType, coordinator, membership
  <2>2. BookInv' /\ PhaseInv'
    BY <1>3, QuietKeeps DEF coordinator
  <2> QED
    BY <2>1, <2>2 DEF IInv
<1>4. CASE queue # <<>> /\ Taken(Head(queue))
  <2> HIDE DEF Taken
  <2>a. PICK q : q = Head(queue)
    OBVIOUS
  <2>0. q = Head(queue) /\ Taken(q)
    BY <1>4, <2>a
  <2> USE DEF Taken
  <2>1. /\ queue' \in Seq(Queries) /\ Without(queue, 1, queue') /\ 1 \in 1 .. Len(queue)
        /\ q = queue[1] /\ q \in Queries /\ q \in Queued
    <3>1. queue \in Seq(Queries) /\ queue' = Tail(queue)
      BY <1>2, <2>0 DEF BookInv
    <3>2. /\ queue' \in Seq(Queries) /\ Without(queue, 1, queue') /\ 1 \in 1 .. Len(queue)
          /\ q = queue[1]
      BY <3>1, <1>4, <2>0, TakeHead
    <3> QED
      BY <3>1, <3>2, ElementOfSeq DEF Queued
  <2> HIDE DEF decision
  <2>2. PhaseOf(q)
    BY <1>2, <2>1 DEF PhaseInv
  <2>3. /\ q \notin Running /\ q \notin cleaning /\ ~FinalSent(q) /\ client[q] # "executing"
        /\ state[q].phase = "queued" /\ outcome[q] \in {"unset", "cancelled"}
    BY <2>1, <2>2 DEF PhaseOf, Done
  <2>4. UNCHANGED <<client, cancelled, unreleased, up, heartbeats, net, state, member, removed,
                    notify, cleaning, stale, faults>>
    BY <2>0 DEF coordinator, membership
  <2>5. "rejected" \in Outcomes /\ "admitted" \in Outcomes
    BY DEF Outcomes
  <2>6. SUFFICES /\ BookInv' /\ Queued' = Queued \ {q}
                 /\ \A r \in Queries \ {q} : (r \in Running') <=> (r \in Running)
                 /\ outcome' \in [Queries -> Outcomes]
                 /\ \A r \in Queries \ {q} : outcome'[r] = outcome[r]
                 /\ dequeue' \in BOOLEAN
                 /\ q \in Running' => outcome'[q] = "admitted"
    <3>1. RestType'
      BY <1>2, <2>4, <2>6 DEF RestType
    <3>2. \A r \in Queries \ {q} : Same(r)
      BY <2>4, <2>6 DEF Same, FinalSent
    <3>3. PhaseOf(q)'
      <4>1. ~FinalSent(q)' /\ q \notin cleaning' /\ client'[q] # "executing" /\ q \notin Queued'
            /\ state'[q].phase = "queued"
        BY <2>3, <2>4, <2>6 DEF FinalSent
      <4> QED
        BY <4>1, <2>6 DEF PhaseOf
    <3> QED
      BY <1>2, <2>1, <2>6, <3>1, <3>2, <3>3, OthersKept DEF IInv
  <2>7. CASE Dropped(q)
    <3>1. BookInv' /\ Queued' = Queued \ {queue[1]}
      BY <1>2, <2>1, <2>7, BookDequeue
    <3>2. Running' = Running
      BY <2>7 DEF Running
    <3>3. outcome' = outcome /\ outcome \in [Queries -> Outcomes]
      BY <1>2, <2>7 DEF RestType
    <3> QED
      BY <2>1, <2>3, <2>7, <3>1, <3>2, <3>3
  <2>8. CASE Rejected(q)
    <3>1. BookInv' /\ Queued' = Queued \ {queue[1]}
      BY <1>2, <2>1, <2>8, BookDequeue
    <3>2. Running' = Running
      BY <2>8 DEF Running
    <3>3. outcome' \in [Queries -> Outcomes] /\ \A r \in Queries \ {q} : outcome'[r] = outcome[r]
      BY <1>2, <2>1, <2>5, <2>8, OutcomeSet
    <3> QED
      BY <2>1, <2>3, <2>8, <3>1, <3>2, <3>3
  <2>9. CASE Admitted(q)
    <3>1. IsTrivial(q) \/ CanAdmitRequest(q, TRUE)
      BY <2>9, AdmitDecision DEF decision
    <3>2. queue' = Tail(queue) /\ q = Head(queue)
      BY <2>0, <2>9
    <3>3. BookInv' /\ Running' = Running \cup {q} /\ Queued' = Queued \ {q}
      BY <1>2, <1>4, <2>3, <2>9, <3>1, <3>2, BookAdmitQueued
    <3>4. /\ outcome' \in [Queries -> Outcomes]
          /\ \A r \in Queries \ {q} : outcome'[r] = outcome[r]
          /\ outcome'[q] = "admitted"
      BY <1>2, <2>1, <2>3, <2>5, <2>9, OutcomeSet
    <3>5. dequeue' \in BOOLEAN
      BY <1>2, <2>9 DEF RestType
    <3> QED
      BY <3>3, <3>4, <3>5
  <2> QED
    BY <2>0, <2>7, <2>8, <2>9
<1> QED
  BY <1>1, <1>3, <1>4

-----------------------------------------------------------------------------
(* Polling.                                                                *)

LEMMA StatusValues ==
    ASSUME IInv, NEW q \in Queries, NEW expired \in BOOLEAN, NEW status,
           status = StatusOf(q, expired), state[q].phase # "submitting"
    PROVE  /\ status \in {"ok", "error", "none", ""}
           /\ status = "ok" => \/ state[q].phase = "queued" /\ outcome[q] = "admitted"
                               \/ state[q].phase = "done" /\ state[q].status = "ok"
           /\ status = "error" => q \notin Running
<1>1. PhaseOf(q) /\ state[q] \in StateType
  BY DEF IInv, PhaseInv, RestType
<1>2. /\ state[q].phase \in {"none", "offered", "queued", "done"}
      /\ state[q].status \in {"", "ok", "error"}
  BY <1>1 DEF StateType
<1>3. CASE state[q].phase = "none"
  BY <1>1, <1>3 DEF StatusOf, PhaseOf
<1>4. CASE state[q].phase = "done"
  BY <1>1, <1>2, <1>4 DEF StatusOf, PhaseOf
<1>5. CASE state[q].phase = "offered"
  BY <1>5 DEF StatusOf
<1>6. CASE state[q].phase = "queued"
  BY <1>1, <1>6 DEF StatusOf, PhaseOf
<1> QED
  BY <1>2, <1>3, <1>4, <1>5, <1>6

\* What GetQueryStatus() does with the answer.
LEMMA StatusRpc ==
    ASSUME IInv, NEW q \in Queries, NEW status \in {"ok", "error", "none", ""},
           status = "ok" => \/ state[q].phase = "queued" /\ outcome[q] = "admitted"
                            \/ state[q].phase = "done" /\ state[q].status = "ok",
           status = "error" => q \notin Running,
           client[q] = "polling",
           GetQueryStatusRpc(q, status) \/ UNCHANGED <<state, outcome, controller>>
    PROVE  /\ BookInv' /\ Running' = Running
           /\ \A r \in Queries \ {q} : (r \in Queued') <=> (r \in Queued)
           /\ q \in Queued' => /\ q \in Queued /\ state'[q].phase = "queued"
                               /\ outcome'[q] = outcome[q]
           /\ state' \in [Queries -> StateType] /\ outcome' \in [Queries -> Outcomes]
           /\ \A r \in Queries \ {q} : state'[r] = state[r] /\ outcome'[r] = outcome[r]
           /\ dequeue' = dequeue
           /\ q \in Running => /\ outcome'[q] = outcome[q]
                               /\ \/ state'[q].phase = "queued"
                                  \/ state'[q].phase = "done" /\ state'[q].status = "ok"
           /\ state'[q].phase \in {"offered", "submitting"} =>
                 state'[q] = state[q] /\ outcome'[q] = outcome[q]
           /\ status = "ok" /\ GetQueryStatusRpc(q, status) => state'[q].phase = "done"
<1>1. PhaseOf(q) /\ RestType /\ BookInv
  BY DEF IInv, PhaseInv
<1>2. CASE UNCHANGED <<state, outcome, controller>> /\ ~(status = "ok" /\ GetQueryStatusRpc(q, status))
  <2>1. BookInv' /\ Running' = Running /\ Queued' = Queued
    BY <1>1, <1>2, BookKept DEF controller
  <2> QED
    BY <1>1, <1>2, <2>1 DEF controller, RestType, PhaseOf
<1>3. CASE GetQueryStatusRpc(q, status) /\ status = "ok"
  <2>1. UNCHANGED <<outcome, controller>>
    BY <1>3 DEF GetQueryStatusRpc
  <2>2. BookInv' /\ Running' = Running /\ Queued' = Queued
    BY <1>1, <2>1, BookKept DEF controller
  <2>3. q \notin Queued
    BY <1>1, <1>3 DEF PhaseOf
  <2>4. CASE state[q].phase = "queued"
    <3>1. Decided(q, "ok")
      BY <1>3, <2>4 DEF GetQueryStatusRpc
    <3>2. Moved(q, "done", "ok")
      BY <3>1, <1>1, MovedDecided
    <3> QED
      BY <1>1, <2>1, <2>2, <2>3, <3>2 DEF controller, RestType, Moved
  <2>5. CASE state[q].phase # "queued"
    <3>1. UNCHANGED state
      BY <1>3, <2>5 DEF GetQueryStatusRpc
    <3> QED
      BY <1>1, <1>3, <2>1, <2>2, <2>3, <2>5, <3>1 DEF controller, RestType
  <2> QED
    BY <2>4, <2>5
<1>4. CASE GetQueryStatusRpc(q, status) /\ status = "error"
  <2>1. /\ state' = [state EXCEPT ![q] = NoState]
        /\ SetOutcome(q, "timed_out")
        /\ RemoveFromQueue(q)
        /\ UNCHANGED <<running, dequeue>>
    BY <1>4 DEF GetQueryStatusRpc
  <2>2. Moved(q, "none", "")
    BY <1>1, <2>1, MovedNone
  <2>3. outcome' \in [Queries -> Outcomes] /\ \A r \in Queries \ {q} : outcome'[r] = outcome[r]
    <3>1. "timed_out" \in Outcomes
      BY DEF Outcomes
    <3> QED
      BY <1>1, <2>1, <3>1, OutcomeSet
  <2>4. BookInv' /\ Queued' = Queued \ {q}
    <3>1. CASE q \in Queued
      <4>1. PICK i \in 1 .. Len(queue) :
                    /\ queue[i] = q
                    /\ queue' = SubSeq(queue, 1, i - 1) \o SubSeq(queue, i + 1, Len(queue))
        BY <3>1, <2>1 DEF RemoveFromQueue
      <4>2. stats' = DequeueStats(stats, q)
        BY <3>1, <2>1 DEF RemoveFromQueue
      <4>3. queue \in Seq(Queries)
        BY <1>1 DEF BookInv
      <4>4. queue' \in Seq(Queries) /\ Without(queue, i, queue')
        BY <4>1, <4>3, TakeAt
      <4>5. BookInv' /\ Queued' = Queued \ {queue[i]}
        BY <1>1, <2>1, <4>2, <4>4, BookDequeue
      <4> QED
        BY <4>1, <4>5
    <3>2. CASE q \notin Queued
      <4>1. UNCHANGED <<queue, stats, running>>
        BY <3>2, <2>1 DEF RemoveFromQueue
      <4> QED
        BY <3>2, <4>1, <1>1, BookKept
    <3> QED
      BY <3>1, <3>2
  <2>5. Running' = Running
    BY <2>1 DEF Running
  <2> QED
    BY <1>4, <2>1, <2>2, <2>3, <2>4, <2>5 DEF Moved
<1>5. CASE GetQueryStatusRpc(q, status) /\ status \notin {"ok", "error"}
  <2>1. UNCHANGED <<state, outcome, controller>>
    BY <1>5 DEF GetQueryStatusRpc
  <2> QED
    BY <2>1, <1>2, <1>5
<1> QED
  BY <1>2, <1>3, <1>4, <1>5

LEMMA PollKeeps ==
    ASSUME IInv, NEW q \in Queries, NEW expired \in BOOLEAN, Poll(q, expired)
    PROVE  IInv'
<1>1. PICK status : status = StatusOf(q, expired)
  OBVIOUS
<1>2. /\ client[q] = "polling" /\ state[q].phase # "submitting"
      /\ UNCHANGED <<cancelled, up, heartbeats, net, member, removed, notify, cleaning, stale>>
  BY DEF Poll, membership
<1>3. \/ /\ status # "none"
         /\ GetQueryStatusRpc(q, status)
         /\ client' = [client EXCEPT ![q] = IF status = "ok" THEN "executing" ELSE "done"]
         /\ unreleased' = [unreleased EXCEPT ![q] = IF status = "ok" THEN HostsOf[q] ELSE {}]
         /\ UNCHANGED faults
      \/ /\ Fault("status")
         /\ GetQueryStatusRpc(q, status) \/ UNCHANGED <<state, outcome, controller>>
         /\ client' = [client EXCEPT ![q] = "done"]
         /\ UNCHANGED unreleased
  BY <1>1, Zenon DEF Poll
<1>4. /\ status \in {"ok", "error", "none", ""}
      /\ status = "ok" => \/ state[q].phase = "queued" /\ outcome[q] = "admitted"
                          \/ state[q].phase = "done" /\ state[q].status = "ok"
      /\ status = "error" => q \notin Running
  BY <1>1, <1>2, StatusValues
<1>5. GetQueryStatusRpc(q, status) \/ UNCHANGED <<state, outcome, controller>>
  BY <1>3
<1>6. /\ BookInv' /\ Running' = Running
      /\ \A r \in Queries \ {q} : (r \in Queued') <=> (r \in Queued)
      /\ q \in Queued' => /\ q \in Queued /\ state'[q].phase = "queued"
                          /\ outcome'[q] = outcome[q]
      /\ state' \in [Queries -> StateType] /\ outcome' \in [Queries -> Outcomes]
      /\ \A r \in Queries \ {q} : state'[r] = state[r] /\ outcome'[r] = outcome[r]
      /\ dequeue' = dequeue
      /\ q \in Running => /\ outcome'[q] = outcome[q]
                          /\ \/ state'[q].phase = "queued"
                             \/ state'[q].phase = "done" /\ state'[q].status = "ok"
      /\ state'[q].phase \in {"offered", "submitting"} =>
            state'[q] = state[q] /\ outcome'[q] = outcome[q]
      /\ status = "ok" /\ GetQueryStatusRpc(q, status) => state'[q].phase = "done"
  BY <1>2, <1>4, <1>5, StatusRpc
<1>7. PhaseOf(q) /\ RestType /\ PhaseInv
  BY DEF IInv, PhaseInv
<1>8. /\ client' \in [Queries -> {"idle", "admitting", "polling", "executing", "done"}]
      /\ \A r \in Queries \ {q} : client'[r] = client[r]
      /\ client'[q] = "executing" => state'[q].phase = "done"
  BY <1>3, <1>6, <1>7 DEF RestType
<1>9. unreleased' \in [Queries -> SUBSET Hosts]
  BY <1>3, <1>7, QueryFacts DEF RestType
<1>10. faults' \in 0 .. MaxFaults
  BY <1>3, <1>7, FaultType DEF RestType
<1>11. RestType'
  BY <1>2, <1>6, <1>7, <1>8, <1>9, <1>10 DEF RestType
<1>12. \A r \in Queries \ {q} : Same(r)
  BY <1>2, <1>6, <1>8 DEF Same, FinalSent
<1>13. PhaseOf(q)'
  <2>1. ~FinalSent(q)' /\ (q \in cleaning' => q \in Running')
    BY <1>2, <1>6, <1>7 DEF PhaseOf, FinalSent
  <2>2. client'[q] = "executing" => Done(q)'
    BY <1>8 DEF Done
  <2>3. q \in Running' => outcome'[q] = "admitted"
    BY <1>6, <1>7 DEF PhaseOf
  <2>4. q \in Queued' => outcome'[q] \in {"unset", "cancelled"}
    BY <1>6, <1>7 DEF PhaseOf
  <2>5. state'[q].phase \in {"offered", "submitting"} => outcome'[q] \in {"unset", "cancelled"}
    BY <1>6, <1>7 DEF PhaseOf
  <2> QED
    BY <1>6, <2>1, <2>2, <2>3, <2>4, <2>5 DEF PhaseOf
<1> QED
  BY <1>6, <1>7, <1>11, <1>12, <1>13, OthersKept DEF IInv

-----------------------------------------------------------------------------
(* Releasing.                                                              *)

Message == [query : Queries, host : Hosts \cup {"none"}]

\* A release leaves the query where it is, or deletes its state.
LEMMA RpcEffect ==
    ASSUME IInv, NEW m \in Message, NEW q, q = m.query,
           m.host \notin Hosts => Done(q), queue' = queue,
           Rpc(m) \/ UNCHANGED <<stats, running, dequeue, state>>
    PROVE  /\ BookInv' /\ Queued' = Queued /\ dequeue' \in BOOLEAN
           /\ \A r \in Queries \ {q} : ((r \in Running') <=> (r \in Running)) /\ state'[r] = state[r]
           /\ state' \in [Queries -> StateType]
           /\ \/ /\ (q \in Running') <=> (q \in Running)
                 /\ state'[q].phase = state[q].phase /\ state'[q].status = state[q].status
              \/ state'[q].phase = "none" /\ q \notin Running' /\ q \notin Queued /\ m.host \notin Hosts
<1>1. q \in Queries /\ m.query = q
  BY DEF Message
<1>2. RestType /\ BookInv /\ PhaseOf(q) /\ Queued \cap Running = {}
  BY <1>1, Apart DEF IInv, PhaseInv
<1>3. CASE UNCHANGED <<stats, running, dequeue, state>>
  <2>1. BookInv' /\ Running' = Running /\ Queued' = Queued
    BY <1>2, <1>3, BookKept
  <2> QED
    BY <1>2, <1>3, <2>1 DEF RestType
<1>4. CASE Rpc(m) /\ m.host \in Hosts /\ m.host \in state[q].unreleased
  <2>1. /\ ReleaseQueryBackends(q, {m.host})
        /\ state' = [state EXCEPT ![q].unreleased = @ \ {m.host}]
    BY <1>1, <1>4 DEF Rpc, ReleaseBackendsRpc
  <2>2. BookInv' /\ Running' = Running /\ Queued' = Queued
    BY <1>1, <1>2, <2>1, BookReleaseBackends
  <2>3. Moved(q, state[q].phase, state[q].status)
    BY <1>1, <1>2, <2>1, MovedUnreleased
  <2>4. dequeue' \in BOOLEAN
    BY <1>2, <2>1 DEF ReleaseQueryBackends, RestType
  <2> QED
    BY <2>2, <2>3, <2>4 DEF Moved
<1>5. CASE Rpc(m) /\ m.host \in Hosts /\ m.host \notin state[q].unreleased
  BY <1>1, <1>3, <1>5 DEF Rpc, ReleaseBackendsRpc
<1>6. CASE Rpc(m) /\ m.host \notin Hosts /\ state[q].phase = "none"
  BY <1>1, <1>3, <1>6 DEF Rpc, ReleaseQueryRpc
<1>7. CASE Rpc(m) /\ m.host \notin Hosts /\ state[q].phase # "none"
  <2>1. ReleaseQuery(q) /\ state' = [state EXCEPT ![q] = NoState]
    BY <1>1, <1>7 DEF Rpc, ReleaseQueryRpc
  <2>2. BookInv' /\ Running' = Running \ {q} /\ Queued' = Queued
    BY <1>1, <1>2, <2>1, BookRelease
  <2>3. Moved(q, "none", "")
    BY <1>1, <1>2, <2>1, MovedNone
  <2>4. dequeue' \in BOOLEAN
    BY <1>2, <2>1 DEF ReleaseQuery, RestType
  <2>5. q \notin Queued
    BY <1>2, <1>7 DEF Done, PhaseOf
  <2> QED
    BY <1>7, <2>2, <2>3, <2>4, <2>5 DEF Moved
<1> QED
  BY <1>3, <1>4, <1>5, <1>6, <1>7

\* The coordinator's side of it: the query stays as it is there, or is done.
LEMMA ReleaseStep ==
    ASSUME IInv, NEW m \in Message, NEW q, q = m.query, m.host \notin Hosts => Done(q),
           queue' = queue, Rpc(m) \/ UNCHANGED <<stats, running, dequeue, state>>,
           UNCHANGED <<outcome, cleaning>>,
           client' \in [Queries -> {"idle", "admitting", "polling", "executing", "done"}],
           \A r \in Queries \ {q} : client'[r] = client[r],
           client'[q] = "done" \/ (client'[q] = client[q] /\ m.host \in Hosts),
           \A n \in net' : n \in net \/ (n = m /\ (m.host \notin Hosts => client'[q] = "done")),
           net' \subseteq Message
    PROVE  /\ BookInv' /\ PhaseInv' /\ dequeue' \in BOOLEAN
           /\ state' \in [Queries -> StateType]
<1>0. q \in Queries
  BY DEF Message
<1>1. /\ BookInv' /\ Queued' = Queued /\ dequeue' \in BOOLEAN
      /\ \A r \in Queries \ {q} : ((r \in Running') <=> (r \in Running)) /\ state'[r] = state[r]
      /\ state' \in [Queries -> StateType]
      /\ \/ /\ (q \in Running') <=> (q \in Running)
            /\ state'[q].phase = state[q].phase /\ state'[q].status = state[q].status
         \/ state'[q].phase = "none" /\ q \notin Running' /\ q \notin Queued /\ m.host \notin Hosts
  BY RpcEffect
<1>2. \A r \in Queries \ {q} : FinalSent(r)' => FinalSent(r)
  BY DEF FinalSent
<1>3. \A r \in Queries \ {q} : Same(r)
  BY <1>1, <1>2 DEF Same
<1>4. PhaseOf(q) /\ PhaseInv
  BY <1>0 DEF IInv, PhaseInv
<1>5. FinalSent(q)' => client'[q] = "done" /\ Done(q)
  <2> SUFFICES ASSUME FinalSent(q)' PROVE client'[q] = "done" /\ Done(q)
    OBVIOUS
  <2>1. PICK n \in net' : n.query = q /\ n.host \notin Hosts
    BY DEF FinalSent
  <2>2. CASE n \in net
    <3>1. FinalSent(q)
      BY <2>1, <2>2 DEF FinalSent
    <3>2. client[q] = "done" /\ Done(q)
      BY <3>1, <1>4 DEF PhaseOf
    <3> QED
      BY <3>2
  <2>3. CASE n = m
    BY <2>1, <2>3
  <2> QED
    BY <2>2, <2>3
<1>6. Done(q) => Done(q)'
  BY <1>1 DEF Done
<1>7. client'[q] = "executing" => Done(q)'
  BY <1>4, <1>6 DEF PhaseOf
<1>8. PhaseOf(q)'
  <2>1. CASE /\ (q \in Running') <=> (q \in Running)
             /\ state'[q].phase = state[q].phase /\ state'[q].status = state[q].status
    BY <2>1, <1>1, <1>4, <1>5, <1>6, <1>7 DEF PhaseOf
  <2>2. CASE /\ state'[q].phase = "none" /\ q \notin Running' /\ q \notin Queued
             /\ m.host \notin Hosts
    BY <2>2, <1>1, <1>5, <1>6, <1>7 DEF PhaseOf
  <2> QED
    BY <1>1, <2>1, <2>2
<1> QED
  BY <1>0, <1>1, <1>3, <1>4, <1>8, OthersKept

LEMMA SendEffect ==
    ASSUME NEW m \in Message, RestType, Send(m)
    PROVE  /\ Rpc(m) \/ UNCHANGED <<stats, running, dequeue, state>>
           /\ \A n \in net' : n \in net \/ n = m
           /\ net' \subseteq Message
           /\ faults' \in 0 .. MaxFaults
<1>1. /\ Rpc(m) \/ UNCHANGED <<stats, running, dequeue, state>>
      /\ net' = net \/ net' = net \cup {m}
      /\ UNCHANGED faults \/ Fault("delay") \/ Fault("duplicate")
  BY Zenon DEF Send
<1>2. faults' \in 0 .. MaxFaults
  BY <1>1, FaultType DEF RestType
<1> QED
  BY <1>1, <1>2 DEF RestType, Message

LEMMA ReleaseBackendKeeps ==
    ASSUME IInv, NEW q \in Queries, NEW h \in Hosts, ReleaseBackend(q, h)
    PROVE  IInv'
<1>1. PICK m : m = [query |-> q, host |-> h]
  OBVIOUS
<1>2. m \in Message /\ m.query = q /\ m.host = h
  BY <1>1 DEF Message
<1>3. /\ UNCHANGED <<client, cancelled, up, heartbeats, outcome, queue, member, removed, notify,
                     cleaning, stale>>
      /\ unreleased' = [unreleased EXCEPT ![q] = @ \ {h}]
      /\ Send(m)
  BY <1>1 DEF ReleaseBackend, membership
<1>4. RestType
  BY DEF IInv
<1>5. /\ Rpc(m) \/ UNCHANGED <<stats, running, dequeue, state>>
      /\ \A n \in net' : n \in net \/ n = m
      /\ net' \subseteq Message
      /\ faults' \in 0 .. MaxFaults
  BY <1>2, <1>3, <1>4, SendEffect
<1>6. client' \in [Queries -> {"idle", "admitting", "polling", "executing", "done"}]
  BY <1>3, <1>4 DEF RestType
<1>7. BookInv' /\ PhaseInv' /\ dequeue' \in BOOLEAN /\ state' \in [Queries -> StateType]
  BY <1>2, <1>3, <1>5, <1>6, ReleaseStep
<1>8. unreleased' \in [Queries -> SUBSET Hosts]
  BY <1>3, <1>4 DEF RestType
<1>9. RestType'
  BY <1>3, <1>4, <1>5, <1>6, <1>7, <1>8 DEF RestType, Message
<1> QED
  BY <1>7, <1>9 DEF IInv

LEMMA FinishQueryKeeps == ASSUME IInv, NEW q \in Queries, FinishQuery(q) PROVE IInv'
<1>1. PICK m : m = [query |-> q, host |-> "none"]
  OBVIOUS
<1>2. m \in Message /\ m.query = q
  BY <1>1 DEF Message
<1>3. /\ UNCHANGED <<cancelled, unreleased, up, heartbeats, outcome, queue, member, removed,
                     notify, cleaning, stale>>
      /\ client[q] = "executing"
      /\ client' = [client EXCEPT ![q] = "done"]
      /\ Send(m)
  BY <1>1 DEF FinishQuery, membership
<1>4. RestType /\ PhaseOf(q)
  BY DEF IInv, PhaseInv
<1>5. /\ Rpc(m) \/ UNCHANGED <<stats, running, dequeue, state>>
      /\ \A n \in net' : n \in net \/ n = m
      /\ net' \subseteq Message
      /\ faults' \in 0 .. MaxFaults
  BY <1>2, <1>3, <1>4, SendEffect
<1>6. /\ client' \in [Queries -> {"idle", "admitting", "polling", "executing", "done"}]
      /\ \A r \in Queries \ {q} : client'[r] = client[r]
      /\ client'[q] = "done"
  BY <1>3, <1>4 DEF RestType
<1>7. Done(q)
  BY <1>3, <1>4 DEF PhaseOf
<1>8. BookInv' /\ PhaseInv' /\ dequeue' \in BOOLEAN /\ state' \in [Queries -> StateType]
  BY <1>2, <1>3, <1>5, <1>6, <1>7, ReleaseStep
<1>9. RestType'
  BY <1>3, <1>4, <1>5, <1>6, <1>8 DEF RestType, Message
<1> QED
  BY <1>8, <1>9 DEF IInv

LEMMA DeliverKeeps == ASSUME IInv, NEW m \in net, Deliver(m) PROVE IInv'
<1>1. RestType /\ PhaseInv
  BY DEF IInv
<1>2. m \in Message
  BY <1>1 DEF RestType, Message
<1>3. PICK q : q = m.query
  OBVIOUS
<1>4. q \in Queries
  BY <1>2, <1>3 DEF Message
<1>5. /\ UNCHANGED <<client, cancelled, unreleased, up, heartbeats, outcome, queue, member,
                     removed, notify, cleaning, stale, faults>>
      /\ net' = net \ {m} /\ Rpc(m)
  BY DEF Deliver, coordinator, membership
<1>6. m.host \notin Hosts => client[q] = "done" /\ Done(q)
  <2> SUFFICES ASSUME m.host \notin Hosts PROVE client[q] = "done" /\ Done(q)
    OBVIOUS
  <2>1. FinalSent(q)
    BY <1>3 DEF FinalSent
  <2>2. PhaseOf(q)
    BY <1>1, <1>4 DEF PhaseInv
  <2> QED
    BY <2>1, <2>2 DEF PhaseOf
<1>7. net' \subseteq Message /\ \A n \in net' : n \in net
  BY <1>1, <1>5 DEF RestType, Message
<1>8. client' \in [Queries -> {"idle", "admitting", "polling", "executing", "done"}]
  BY <1>1, <1>5 DEF RestType
<1>9. BookInv' /\ PhaseInv' /\ dequeue' \in BOOLEAN /\ state' \in [Queries -> StateType]
  BY <1>2, <1>3, <1>5, <1>6, <1>7, <1>8, ReleaseStep
<1>10. RestType'
  BY <1>1, <1>5, <1>7, <1>9 DEF RestType, Message
<1> QED
  BY <1>9, <1>10 DEF IInv

LEMMA CleanUpKeeps == ASSUME IInv, NEW q \in Queries, CleanUp(q) PROVE IInv'
<1>1. RestType /\ BookInv /\ PhaseInv /\ PhaseOf(q) /\ Queued \cap Running = {}
  BY Apart DEF IInv, PhaseInv
<1>2. /\ UNCHANGED <<client, cancelled, unreleased, up, heartbeats, net, outcome, queue, member,
                     removed, notify, stale, faults>>
      /\ q \in cleaning /\ cleaning' = cleaning \ {q}
      /\ ReleaseQuery(q)
      /\ state' = [state EXCEPT ![q] = NoState]
  BY DEF CleanUp, coordinator, membership
<1>3. BookInv' /\ Running' = Running \ {q} /\ Queued' = Queued
  BY <1>1, <1>2, BookRelease
<1>4. Moved(q, "none", "")
  BY <1>1, <1>2, MovedNone
<1>5. dequeue' \in BOOLEAN
  BY <1>1, <1>2 DEF ReleaseQuery, RestType
<1>6. RestType'
  BY <1>1, <1>2, <1>4, <1>5 DEF RestType, Moved
<1>7. \A r \in Queries \ {q} : Same(r)
  BY <1>2, <1>3, <1>4 DEF Same, FinalSent, Moved
<1>8. PhaseOf(q)'
  <2>1. q \notin Queued
    BY <1>1, <1>2 DEF PhaseOf
  <2>2. FinalSent(q)' => client'[q] = "done"
    BY <1>1, <1>2 DEF PhaseOf, FinalSent
  <2>3. Done(q)' /\ state'[q].phase = "none"
    BY <1>4 DEF Moved, Done
  <2> QED
    BY <1>2, <1>3, <2>1, <2>2, <2>3 DEF PhaseOf
<1> QED
  BY <1>1, <1>3, <1>6, <1>7, <1>8, OthersKept DEF IInv

-----------------------------------------------------------------------------
(* The theorems.                                                           *)

LEMMA InitHolds == Init => IInv
<1> SUFFICES ASSUME Init PROVE IInv
  OBVIOUS
<1>1. RestType
  <2>1. heartbeats \in [Coordinators -> Seq(SUBSET Queries)]
    BY EmptySeq DEF Init
  <2>2. member \subseteq Coordinators
    BY ConstantsAssumption DEF Init
  <2>3. state \in [Queries -> StateType]
    BY DEF Init, NoState, StateType
  <2>4. faults \in 0 .. MaxFaults
    BY MaxFaultsType DEF Init
  <2> QED
    BY <2>1, <2>2, <2>3, <2>4 DEF Init, RestType, Outcomes
<1>2. queue = <<>> /\ queue \in Seq(Queries) /\ Len(queue) = 0
  BY EmptySeq DEF Init
<1>3. DOMAIN running = {} /\ RunningType(running)
  BY DEF Init, RunningType
<1>4. /\ TrivialIn(running) = {} /\ AdmittedIn(running) = {} /\ PairsIn(running) = {}
      /\ \A h : UsersIn(running, h) = {}
  BY <1>3 DEF TrivialIn, AdmittedIn, PairsIn, UsersIn
<1>5. stats \in StatsType
  BY LimitsNumbers DEF Init, StatsType
<1>6. Accounts(running, stats)
  <2>1. IsFiniteSet({}) /\ Cardinality({}) = 0
    BY FS_EmptySet
  <2>2. /\ stats.running = 0 /\ stats.trivial = 0 /\ stats.mem = 0
        /\ \A h \in Hosts : stats.host[h] = 0
    BY DEF Init
  <2>3. /\ Cardinality(DOMAIN running) = 0 /\ IsFiniteSet(DOMAIN running)
        /\ Cardinality(TrivialIn(running)) = 0 /\ Cardinality(PairsIn(running)) = 0
        /\ \A h : Cardinality(UsersIn(running, h)) = 0
    BY <1>3, <1>4, <2>1
  <2> QED
    BY <2>2, <2>3 DEF Accounts
<1>7. Limits(running)
  <2>1. Cardinality({}) = 0
    BY FS_EmptySet
  <2>2. /\ Cardinality(AdmittedIn(running)) = 0
        /\ \A h : Cardinality(UsersIn(running, h) \cap AdmittedIn(running)) = 0
    <3>1. \A h : UsersIn(running, h) \cap AdmittedIn(running) = {}
      BY <1>4
    <3> QED
      BY <3>1, <1>4, <2>1
  <2> QED
    BY <2>2, LimitsNumbers DEF Limits
<1>8. QueueInv
  <2>1. stats.queued = 0
    BY DEF Init
  <2> QED
    BY <1>2, <2>1 DEF QueueInv, Injective
<1>9. Queued = {} /\ Running = {}
  BY <1>2, <1>3 DEF Queued, Running
<1>10. LoadInv
  <2> SUFFICES ASSUME NEW u \in Users
               PROVE  stats.user[u] >= Cardinality(LoadOf(Queued \cup Running, u))
    BY DEF LoadInv
  <2>1. LoadOf(Queued \cup Running, u) = {}
    BY <1>9 DEF LoadOf
  <2>2. Cardinality({}) = 0 /\ stats.user[u] = 0
    BY FS_EmptySet DEF Init
  <2>3. Cardinality(LoadOf(Queued \cup Running, u)) = 0
    BY <2>1, <2>2
  <2> QED
    BY <2>2, <2>3
<1>11. ASSUME NEW q \in Queries PROVE PhaseOf(q)
  <2>1. /\ state[q].phase = "none" /\ client[q] = "idle" /\ cleaning = {} /\ net = {}
    BY DEF Init, NoState
  <2> QED
    BY <1>9, <2>1 DEF PhaseOf, FinalSent
<1> QED
  BY <1>1, <1>2, <1>3, <1>5, <1>6, <1>7, <1>8, <1>10, <1>11 DEF IInv, BookInv, PhaseInv

LEMMA NextKeeps == IInv /\ [Next]_vars => IInv'
<1> SUFFICES ASSUME IInv, [Next]_vars PROVE IInv'
  OBVIOUS
<1>1. CASE UNCHANGED vars
  <2>1. RestType'
    BY <1>1 DEF IInv, RestType, vars, coordinator, controller, membership
  <2>2. BookInv' /\ PhaseInv'
    BY <1>1, QuietKeeps DEF vars, coordinator, controller
  <2> QED
    BY <2>1, <2>2 DEF IInv
<1>2. CASE TryDequeue
  BY <1>2, TryDequeueKeeps
<1>3. CASE UpdatePoolStats
  BY <1>3, UpdatePoolStatsKeeps
<1>4. CASE CancelQueriesOnFailedCoordinators
  BY <1>4, CancelQueriesKeeps
<1>5. ASSUME NEW q \in Queries,
             \/ RegisterQuery(q) \/ TryAdmitQuery(q) \/ ReadSnapshot(q)
             \/ SubmitForAdmission(q) \/ Cancel(q) \/ FinishQuery(q) \/ CleanUp(q)
             \/ \E expired \in BOOLEAN : Poll(q, expired)
             \/ \E h \in Hosts : ReleaseBackend(q, h)
      PROVE  IInv'
  BY <1>5, RegisterQueryKeeps, TryAdmitQueryKeeps, ReadSnapshotKeeps, SubmitForAdmissionKeeps,
     CancelKeeps, FinishQueryKeeps, CleanUpKeeps, PollKeeps, ReleaseBackendKeeps
<1>6. ASSUME NEW m \in net, Deliver(m) PROVE IInv'
  BY <1>6, DeliverKeeps
<1>7. ASSUME NEW c \in Coordinators,
             \/ SendHeartbeat(c) \/ Join(c) \/ Crash(c) \/ Leave(c)
             \/ \E i \in 1 .. MaxHeartbeats : AdmissionHeartbeat(c, i)
      PROVE  IInv'
  BY <1>7, SendHeartbeatKeeps, MembershipKeeps, AdmissionHeartbeatKeeps
<1> QED
  BY <1>1, <1>2, <1>3, <1>4, <1>5, <1>6, <1>7 DEF Next

\* The books of the admission controller are always in order: IInv is an
\* inductive invariant of the actions of clients, service and controller.
THEOREM Invariant == Spec => []IInv
<1>1. Init => IInv
  BY InitHolds
<1>2. IInv /\ [Next]_vars => IInv'
  BY NextKeeps
<1> QED
  BY <1>1, <1>2, PTL DEF Spec

LEMMA IInvTypes == IInv => TypeOK
  BY DEF IInv, RestType, BookInv, RunningType, Entry, StatsType, StateType, Outcomes, TypeOK, Running

\* The statistics that ReleaseQuery(), ReleaseQueryBackends() and AdmitQuery()
\* keep equal what running_queries_ says, whatever is released twice, late
\* or by a clean-up, and are never negative.
THEOREM AggregatesMatchRunningHolds == Spec => []AggregatesMatchRunning
<1>1. IInv => AggregatesMatchRunning
  <2> SUFFICES ASSUME IInv PROVE AggregatesMatchRunning
    OBVIOUS
  <2>1. TypeOK
    BY IInvTypes
  <2>2. Accounts(running, stats)
    BY DEF IInv, BookInv
  <2> QED
    BY <2>1, <2>2 DEF AggregatesMatchRunning, Accounts, Running, TrivialIn, UsersIn, UsersOn, PairsIn
<1> QED
  BY <1>1, Invariant, PTL

\* What is in the queue is there once, is counted, and waits for a decision.
THEOREM QueueIsPendingHolds == Spec => []QueueIsPending
<1>1. IInv => QueueIsPending
  <2> SUFFICES ASSUME IInv PROVE QueueIsPending
    OBVIOUS
  <2>1. Queued = Elements(queue)
    BY DEF Queued, Elements
  <2>2. Cardinality(Queued) = Len(queue) /\ stats.queued = Len(queue)
    BY <2>1, ElementsCount DEF IInv, BookInv, QueueInv
  <2>3. \A q \in Queued : q \notin Running /\ outcome[q] \in {"unset", "cancelled"}
    BY Apart DEF IInv, PhaseInv, PhaseOf
  <2> QED
    BY <2>2, <2>3 DEF QueueIsPending
<1> QED
  BY <1>1, Invariant, PTL

\* CanAdmitRequest() admits nothing beyond the requests of the pool and the
\* slots of a host, but for trivial queries.
THEOREM WithinLimitsHolds == Spec => []WithinLimits
<1>1. IInv => WithinLimits
  <2> SUFFICES ASSUME IInv PROVE WithinLimits
    OBVIOUS
  <2>1. Limits(running)
    BY DEF IInv, BookInv
  <2> QED
    BY <2>1 DEF WithinLimits, Limits, Running, AdmittedIn, UsersIn, UsersOn
<1> QED
  BY <1>1, Invariant, PTL
=============================================================================

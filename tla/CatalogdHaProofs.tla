--------------------------- MODULE CatalogdHaProofs ---------------------------
(***************************************************************************)
(* CatalogdHa for any number of coordinators and of faults of every kind.  *)
(*                                                                         *)
(* Roles: RolesConsistent is inductive together with NeverDesignated, by   *)
(* which a catalogd that registers alone and waits is not called active    *)
(* from an earlier life.                                                   *)
(*                                                                         *)
(* Versions: whatever carries a version carries the catalogd that was      *)
(* designated with it.  Answers and rounds do because they are made of the *)
(* present manager (ElectedIsActive); requests nobody waits for do if they *)
(* can still be accepted (LateMatches), which after a restart of the       *)
(* statestored rests on the registration ids.                              *)
(***************************************************************************)
EXTENDS CatalogdHa, TLAPS

\* As long as the first waiting period runs and nobody is assigned, nobody ever was.
NeverDesignated == ~mgr.assigned /\ mgr.wait # "expired" => mgr.active = None

RolesInv == TypeOK /\ RolesConsistent /\ NeverDesignated

\* The catalogd of a version of the present statestored.
Named(version, c) == version \in 1..Len(elected) /\ c = elected[version]

\* The history is that of the manager.
ElectedIsActive ==
    /\ Len(elected) = mgr.version
    /\ mgr.version # 0 => mgr.active = elected[mgr.version]
    /\ mgr.assigned => mgr.version # 0

\* Registration ids of receivers were given out.
GivenOut(reg) == reg # 0 /\ reg < nextReg

ReceiversGivenOut ==
    /\ \A p \in Procs : subs[p] < nextReg
    /\ \A r \in notifier.receivers \cup notifier.todo : GivenOut(r[2])
    /\ \A c \in late : GivenOut(c.to[2])

RoundMatches ==
    /\ notifier.version # 0 => Named(notifier.version, notifier.active)
    /\ notifier.todo # {} \/ notifier.reading => notifier.version # 0

ReplyMatches ==
    \A p \in Procs : proc[p].reply.reg # 0 =>
        proc[p].reply.version = -1 \/ Named(proc[p].reply.version, proc[p].reply.active)

\* A request that can be accepted, now or when the answer to a registration arrives.
LateMatches ==
    /\ \A c \in late : \A p \in Procs :
         \/ proc[p].epoch = epoch /\ proc[p].reg = c.to[2]
         \/ proc[p].reply.reg = c.to[2]
         => Named(c.version, c.active)
    /\ "slow_update" \notin FaultKinds => \A c \in late : ~c.checked
    /\ "restart" \notin FaultKinds => \A c \in late : Named(c.version, c.active)

ProcMatches ==
    \A p \in Procs :
        /\ proc[p].epoch <= epoch
        /\ proc[p].epoch = epoch /\ proc[p].last # 0 => Named(proc[p].last, proc[p].view)

VersionInv ==
    /\ ElectedIsActive
    /\ ReceiversGivenOut
    /\ RoundMatches
    /\ ReplyMatches
    /\ LateMatches
    /\ ProcMatches
-----------------------------------------------------------------------------
LEMMA CatalogdsAre ==
    /\ Cat1 \in Catalogds /\ Cat1 # Cat2 /\ None \notin Procs
    /\ Catalogds \subseteq {Cat1, Cat2} /\ Catalogds \subseteq Procs
    /\ EnableHa => Cat2 \in Catalogds
    /\ ~EnableHa => Cat2 \notin Catalogds
  BY CatalogdHaConstants DEF CatalogdHaConstants, Catalogds, Procs

\* What every step does to the manager, as far as the versions are concerned.
MgrStep ==
    /\ mgr' \in Manager
    /\ \/ mgr'.version = mgr.version /\ mgr'.active = mgr.active
          /\ (mgr'.assigned => mgr.assigned)
       \/ mgr'.version = mgr.version + 1 /\ mgr'.active \in Catalogds /\ mgr'.assigned

\* RolesConsistent of a manager and the catalogds in subscribers_.
RolesOf(m, registered) ==
    /\ m.num = (IF Cat1 \in registered THEN 1 ELSE 0) + (IF Cat2 \in registered THEN 1 ELSE 0)
    /\ m.assigned <=> m.active \in registered
    /\ m.num = 2 => m.assigned /\ m.standby \in registered /\ m.standby # m.active
    /\ m.num # 0 /\ ~m.assigned => m.first \in registered /\ m.wait # "unset"

Subscribed == {c \in Catalogds : subs[c] # 0}

LEMMA RolesAre == RolesConsistent <=> RolesOf(mgr, Subscribed)
  BY CatalogdsAre DEF RolesConsistent, RolesOf, Registered, Subscribed

LEMMA RolesAreNext == RolesConsistent' <=> RolesOf(mgr', Subscribed')
  BY CatalogdsAre DEF RolesConsistent, RolesOf, Registered, Subscribed

\* A manager by its fields.
Mgr(assigned, num, wait, first, active, standby, version) ==
    [assigned |-> assigned, num |-> num, wait |-> wait, first |-> first,
     active |-> active, standby |-> standby, version |-> version]

LEMMA MgrTypes ==
    ASSUME NEW m \in Manager
    PROVE  /\ m.assigned \in BOOLEAN /\ m.num \in 0..2
           /\ m.wait \in {"unset", "waiting", "expired"}
           /\ m.first \in Catalogds \cup {None} /\ m.active \in Catalogds \cup {None}
           /\ m.standby \in Catalogds \cup {None} /\ m.version \in Nat
  BY DEF Manager

(***************************************************************************)
(* RegisterCatalogd() of a catalogd that is, or is not, in subscribers_.   *)
(***************************************************************************)
LEMMA RegisterRoles ==
    ASSUME RolesInv, NEW c \in Catalogds, NEW reg \in Nat \ {0},
           RegisterCatalogd(c, subs[c] # 0), subs' = [subs EXCEPT ![c] = reg]
    PROVE  MgrStep /\ RolesConsistent' /\ NeverDesignated'
<1> DEFINE S == Subscribed
<1>1. mgr \in Manager /\ RolesOf(mgr, S) /\ NeverDesignated
  BY RolesAre DEF RolesInv, TypeOK
<1>2. Subscribed' = S \cup {c} /\ (c \in S <=> subs[c] # 0) /\ S \subseteq Catalogds
  BY CatalogdsAre DEF RolesInv, TypeOK, Subscribed
<1> SUFFICES MgrStep /\ RolesOf(mgr', S \cup {c}) /\ NeverDesignated'
  BY <1>2, RolesAreNext
<1> HIDE DEF S
<1>3. /\ mgr.assigned \in BOOLEAN /\ mgr.num \in 0..2
      /\ mgr.wait \in {"unset", "waiting", "expired"}
      /\ mgr.first \in Catalogds \cup {None} /\ mgr.active \in Catalogds \cup {None}
      /\ mgr.standby \in Catalogds \cup {None} /\ mgr.version \in Nat
      /\ mgr.version + 1 \in Nat
  BY <1>1, MgrTypes
<1>4. CASE RegisterOnly(c, subs[c] # 0)
  <2> DEFINE n == IF c \in S THEN mgr.num ELSE mgr.num + 1
  <2>1. c = Cat1 /\ Cat2 \notin S /\ n = 1
    BY CatalogdsAre, <1>1, <1>2, <1>3, <1>4 DEF RegisterOnly, RolesOf
  <2>2. mgr' = Mgr(TRUE, 1, mgr.wait, mgr.first, c, mgr.standby, mgr.version + 1)
    BY <1>1, <1>2, <1>4, <2>1 DEF RegisterOnly, Designate, Manager, Mgr
  <2>3. /\ mgr' \in Manager
        /\ mgr'.assigned = TRUE /\ mgr'.num = 1 /\ mgr'.wait = mgr.wait /\ mgr'.first = mgr.first
        /\ mgr'.active = c /\ mgr'.standby = mgr.standby /\ mgr'.version = mgr.version + 1
    BY <1>3, <2>2 DEF Mgr, Manager
  <2> QED
    BY CatalogdsAre, <1>2, <1>3, <2>1, <2>3 DEF RolesOf, MgrStep, NeverDesignated
<1>5. CASE subs[c] # 0 /\ Reregister(c)
  <2>1. CASE Takeover(c) /\ mgr' = [Designate(mgr, c) EXCEPT !.standby = mgr.active]
    <3>1. mgr' = Mgr(TRUE, 2, mgr.wait, mgr.first, c, mgr.active, mgr.version + 1)
      BY <1>1, <2>1 DEF Takeover, Designate, Manager, Mgr
    <3>2. /\ mgr' \in Manager
          /\ mgr'.assigned = TRUE /\ mgr'.num = 2 /\ mgr'.wait = mgr.wait /\ mgr'.first = mgr.first
          /\ mgr'.active = c /\ mgr'.standby = mgr.active /\ mgr'.version = mgr.version + 1
      BY <1>3, <3>1 DEF Mgr, Manager
    <3> QED
      BY CatalogdsAre, <1>1, <1>2, <1>3, <1>5, <2>1, <3>2
      DEF Takeover, RolesOf, MgrStep, NeverDesignated
  <2>2. CASE WaitedAlone /\ mgr' = Designate(mgr, c)
    <3>1. mgr' = Mgr(TRUE, mgr.num, mgr.wait, mgr.first, c, mgr.standby, mgr.version + 1)
      BY <1>1, <2>2 DEF Designate, Manager, Mgr
    <3>2. /\ mgr' \in Manager
          /\ mgr'.assigned = TRUE /\ mgr'.num = mgr.num /\ mgr'.wait = mgr.wait /\ mgr'.first = mgr.first
          /\ mgr'.active = c /\ mgr'.standby = mgr.standby /\ mgr'.version = mgr.version + 1
      BY <1>3, <3>1 DEF Mgr, Manager
    <3> QED
      BY CatalogdsAre, <1>1, <1>2, <1>3, <1>5, <2>2, <3>2
      DEF WaitedAlone, RolesOf, MgrStep, NeverDesignated
  <2>3. CASE mgr' = mgr
    BY <1>1, <1>2, <1>5, <2>3 DEF RolesOf, MgrStep, NeverDesignated
  <2> QED
    BY <1>5, <2>1, <2>2, <2>3 DEF Reregister
<1>6. CASE subs[c] = 0 /\ RegisterFirst(c)
  <2>1. PICK wait \in IF mgr.wait = "unset" THEN {"waiting", "expired"} ELSE {mgr.wait} :
          LET m == [mgr EXCEPT !.num = 1, !.first = c, !.wait = wait]
          IN  mgr' = IF c \in Forced \/ wait = "expired" THEN Designate(m, c) ELSE m
    BY <1>6 DEF RegisterFirst
  <2>2. mgr.num = 0 /\ S = {}
    BY CatalogdsAre, <1>1, <1>2, <1>6 DEF RegisterFirst, RolesOf
  <2>3. mgr.assigned = FALSE /\ wait \in {"waiting", "expired"}
    BY <1>1, <1>3, <2>1, <2>2 DEF RolesOf
  <2>4. CASE c \in Forced \/ wait = "expired"
    <3>1. mgr' = Mgr(TRUE, 1, wait, c, c, mgr.standby, mgr.version + 1)
      BY <1>1, <2>1, <2>4 DEF Designate, Manager, Mgr
    <3>2. /\ mgr' \in Manager
          /\ mgr'.assigned = TRUE /\ mgr'.num = 1 /\ mgr'.wait = wait /\ mgr'.first = c
          /\ mgr'.active = c /\ mgr'.standby = mgr.standby /\ mgr'.version = mgr.version + 1
      BY <1>3, <2>3, <3>1 DEF Mgr, Manager
    <3> QED
      BY CatalogdsAre, <1>2, <1>3, <2>2, <2>3, <3>2
      DEF RolesOf, MgrStep, NeverDesignated
  <2>5. CASE ~(c \in Forced \/ wait = "expired")
    <3>1. mgr' = Mgr(FALSE, 1, wait, c, mgr.active, mgr.standby, mgr.version)
      BY <1>1, <2>1, <2>3, <2>5 DEF Manager, Mgr
    <3>2. mgr.active = None
      BY <1>1, <2>1, <2>3, <2>5 DEF NeverDesignated
    <3>3. /\ mgr' \in Manager
          /\ mgr'.assigned = FALSE /\ mgr'.num = 1 /\ mgr'.wait = wait /\ mgr'.first = c
          /\ mgr'.active = mgr.active /\ mgr'.standby = mgr.standby /\ mgr'.version = mgr.version
      BY <1>3, <2>3, <3>1 DEF Mgr, Manager
    <3> QED
      BY CatalogdsAre, <1>2, <1>3, <2>2, <2>3, <2>5, <3>2, <3>3
      DEF RolesOf, MgrStep, NeverDesignated
  <2> QED
    BY <2>4, <2>5
<1>7. CASE subs[c] = 0 /\ RegisterSecond(c)
  <2> DEFINE m == [mgr EXCEPT !.num = mgr.num + 1]
             other == IF mgr.assigned THEN mgr.active ELSE mgr.first
  <2>1. mgr.num = 1 /\ S = {other} /\ other # c /\ other \in Catalogds
    BY CatalogdsAre, <1>1, <1>2, <1>3, <1>7 DEF RegisterSecond, RolesOf
  <2>5. mgr.num + 1 = 2
    BY <2>1
  <2>2. CASE mgr' = [Designate(m, c) EXCEPT !.standby = other]
    <3> HIDE DEF other
    <3>1. mgr' = Mgr(TRUE, 2, mgr.wait, mgr.first, c, other, mgr.version + 1)
      BY <1>1, <2>2, <2>5 DEF Designate, Manager, Mgr
    <3>2. /\ mgr' \in Manager
          /\ mgr'.assigned = TRUE /\ mgr'.num = 2 /\ mgr'.wait = mgr.wait /\ mgr'.first = mgr.first
          /\ mgr'.active = c /\ mgr'.standby = other /\ mgr'.version = mgr.version + 1
      BY <1>3, <2>1, <3>1 DEF Mgr, Manager
    <3> QED
      BY CatalogdsAre, <1>2, <1>3, <2>1, <3>2 DEF RolesOf, MgrStep, NeverDesignated
  <2>3. CASE mgr.assigned /\ mgr' = [m EXCEPT !.standby = c]
    <3>1. mgr' = Mgr(mgr.assigned, 2, mgr.wait, mgr.first, mgr.active, c, mgr.version)
      BY <1>1, <2>3, <2>5 DEF Manager, Mgr
    <3>2. /\ mgr' \in Manager
          /\ mgr'.assigned = mgr.assigned /\ mgr'.num = 2 /\ mgr'.wait = mgr.wait /\ mgr'.first = mgr.first
          /\ mgr'.active = mgr.active /\ mgr'.standby = c /\ mgr'.version = mgr.version
      BY <1>3, <3>1 DEF Mgr, Manager
    <3> QED
      BY CatalogdsAre, <1>2, <1>3, <2>1, <2>3, <3>2 DEF RolesOf, MgrStep, NeverDesignated
  <2>4. CASE ~mgr.assigned /\ mgr' = [Designate(m, mgr.first) EXCEPT !.standby = c]
    <3>1. mgr' = Mgr(TRUE, 2, mgr.wait, mgr.first, mgr.first, c, mgr.version + 1)
      BY <1>1, <2>4, <2>5 DEF Designate, Manager, Mgr
    <3>2. /\ mgr' \in Manager
          /\ mgr'.assigned = TRUE /\ mgr'.num = 2 /\ mgr'.wait = mgr.wait /\ mgr'.first = mgr.first
          /\ mgr'.active = mgr.first /\ mgr'.standby = c /\ mgr'.version = mgr.version + 1
      BY <1>3, <3>1 DEF Mgr, Manager
    <3> QED
      BY CatalogdsAre, <1>2, <1>3, <2>1, <2>4, <3>2 DEF RolesOf, MgrStep, NeverDesignated
  <2> QED
    BY <1>7, <2>2, <2>3, <2>4 DEF RegisterSecond
<1> QED
  BY <1>4, <1>5, <1>6, <1>7 DEF RegisterCatalogd

(***************************************************************************)
(* UnregisterCatalogd() of a catalogd that was in subscribers_.            *)
(***************************************************************************)
LEMMA UnregisterRoles ==
    ASSUME RolesInv, NEW c \in Catalogds, subs[c] # 0,
           UnregisterCatalogd(c), subs' = [subs EXCEPT ![c] = 0]
    PROVE  MgrStep /\ RolesConsistent' /\ NeverDesignated'
<1> DEFINE S == Subscribed
<1>1. mgr \in Manager /\ RolesOf(mgr, S) /\ NeverDesignated
  BY RolesAre DEF RolesInv, TypeOK
<1>2. Subscribed' = S \ {c} /\ c \in S /\ S \subseteq Catalogds
  BY CatalogdsAre DEF RolesInv, TypeOK, Subscribed
<1> SUFFICES MgrStep /\ RolesOf(mgr', S \ {c}) /\ NeverDesignated'
  BY <1>2, RolesAreNext
<1> HIDE DEF S
<1>3. /\ mgr.assigned \in BOOLEAN /\ mgr.num \in 0..2
      /\ mgr.wait \in {"unset", "waiting", "expired"}
      /\ mgr.first \in Catalogds \cup {None} /\ mgr.active \in Catalogds \cup {None}
      /\ mgr.standby \in Catalogds \cup {None} /\ mgr.version \in Nat
      /\ mgr.version + 1 \in Nat
  BY <1>1, MgrTypes
<1>4. CASE mgr.num = 2
  <2>1. mgr.num - 1 = 1 /\ mgr.num - 1 > 0 /\ mgr.standby \in S
    BY <1>1, <1>4 DEF RolesOf
  <2>2. CASE c = mgr.active
    <3>1. mgr' = Mgr(TRUE, 1, mgr.wait, mgr.first, mgr.standby, None, mgr.version + 1)
      BY <1>1, <2>1, <2>2 DEF UnregisterCatalogd, Designate, Manager, Mgr
    <3>2. /\ mgr' \in Manager
          /\ mgr'.assigned = TRUE /\ mgr'.num = 1 /\ mgr'.wait = mgr.wait /\ mgr'.first = mgr.first
          /\ mgr'.active = mgr.standby /\ mgr'.standby = None /\ mgr'.version = mgr.version + 1
      BY <1>3, <2>1, <3>1 DEF Mgr, Manager
    <3> QED
      BY CatalogdsAre, <1>1, <1>2, <1>3, <2>1, <2>2, <3>2 DEF RolesOf, MgrStep, NeverDesignated
  <2>3. CASE c # mgr.active
    <3>1. mgr' = Mgr(mgr.assigned, 1, mgr.wait, mgr.first, mgr.active, None, mgr.version)
      BY <1>1, <2>1, <2>3 DEF UnregisterCatalogd, Designate, Manager, Mgr
    <3>2. /\ mgr' \in Manager
          /\ mgr'.assigned = mgr.assigned /\ mgr'.num = 1 /\ mgr'.wait = mgr.wait /\ mgr'.first = mgr.first
          /\ mgr'.active = mgr.active /\ mgr'.standby = None /\ mgr'.version = mgr.version
      BY <1>3, <2>1, <3>1 DEF Mgr, Manager
    <3> QED
      BY CatalogdsAre, <1>1, <1>2, <1>3, <2>1, <2>3, <3>2 DEF RolesOf, MgrStep, NeverDesignated
  <2> QED
    BY <2>2, <2>3
<1>5. CASE mgr.num # 2
  <2>1. mgr.num - 1 = 0 /\ ~(mgr.num - 1 > 0) /\ S = {c}
    BY CatalogdsAre, <1>1, <1>2, <1>3, <1>5 DEF RolesOf
  <2>2. CASE c = mgr.active
    <3>1. mgr' = Mgr(FALSE, 0, "expired", mgr.first, mgr.active, mgr.standby, mgr.version)
      BY <1>1, <2>1, <2>2 DEF UnregisterCatalogd, Designate, Manager, Mgr
    <3>2. /\ mgr' \in Manager
          /\ mgr'.assigned = FALSE /\ mgr'.num = 0 /\ mgr'.wait = "expired" /\ mgr'.first = mgr.first
          /\ mgr'.active = mgr.active /\ mgr'.standby = mgr.standby /\ mgr'.version = mgr.version
      BY <1>3, <2>1, <3>1 DEF Mgr, Manager
    <3> QED
      BY CatalogdsAre, <1>1, <1>2, <1>3, <2>1, <2>2, <3>2 DEF RolesOf, MgrStep, NeverDesignated
  <2>3. CASE c # mgr.active
    <3>1. mgr' = Mgr(mgr.assigned, 0, mgr.wait, mgr.first, mgr.active, mgr.standby, mgr.version)
      BY <1>1, <2>1, <2>3 DEF UnregisterCatalogd, Designate, Manager, Mgr
    <3>2. /\ mgr' \in Manager
          /\ mgr'.assigned = mgr.assigned /\ mgr'.num = 0 /\ mgr'.wait = mgr.wait /\ mgr'.first = mgr.first
          /\ mgr'.active = mgr.active /\ mgr'.standby = mgr.standby /\ mgr'.version = mgr.version
      BY <1>3, <2>1, <3>1 DEF Mgr, Manager
    <3> QED
      BY CatalogdsAre, <1>1, <1>2, <1>3, <2>1, <2>3, <3>2 DEF RolesOf, MgrStep, NeverDesignated
  <2> QED
    BY <2>2, <2>3
<1> QED
  BY <1>4, <1>5

(***************************************************************************)
(* CheckActiveCatalog() designates the first one, which is registered.     *)
(***************************************************************************)
LEMMA CheckRoles ==
    ASSUME RolesInv, CheckActiveCatalog
    PROVE  MgrStep /\ RolesConsistent' /\ NeverDesignated'
<1> DEFINE S == Subscribed
<1>1. mgr \in Manager /\ RolesOf(mgr, S) /\ NeverDesignated
  BY RolesAre DEF RolesInv, TypeOK
<1>2. Subscribed' = S /\ S \subseteq Catalogds
  BY DEF CheckActiveCatalog, Subscribed
<1> SUFFICES MgrStep /\ RolesOf(mgr', S) /\ NeverDesignated'
  BY <1>2, RolesAreNext
<1> HIDE DEF S
<1>3. /\ mgr.assigned \in BOOLEAN /\ mgr.num \in 0..2
      /\ mgr.wait \in {"unset", "waiting", "expired"}
      /\ mgr.first \in Catalogds \cup {None} /\ mgr.active \in Catalogds \cup {None}
      /\ mgr.standby \in Catalogds \cup {None} /\ mgr.version \in Nat
      /\ mgr.version + 1 \in Nat
  BY <1>1, MgrTypes
<1>4. CASE mgr' = mgr
  BY <1>1, <1>4 DEF RolesOf, MgrStep, NeverDesignated
<1>5. CASE ~mgr.assigned /\ mgr.num # 0 /\ mgr' = Designate(mgr, mgr.first)
  <2>1. mgr' = Mgr(TRUE, mgr.num, mgr.wait, mgr.first, mgr.first, mgr.standby, mgr.version + 1)
    BY <1>1, <1>5 DEF Designate, Manager, Mgr
  <2>2. /\ mgr' \in Manager
        /\ mgr'.assigned = TRUE /\ mgr'.num = mgr.num /\ mgr'.wait = mgr.wait /\ mgr'.first = mgr.first
        /\ mgr'.active = mgr.first /\ mgr'.standby = mgr.standby /\ mgr'.version = mgr.version + 1
    BY <1>3, <2>1 DEF Mgr, Manager
  <2> QED
    BY <1>1, <1>2, <1>3, <1>5, <2>2 DEF RolesOf, MgrStep, NeverDesignated
<1> QED
  BY <1>4, <1>5 DEF CheckActiveCatalog

-----------------------------------------------------------------------------
\* A step that leaves the manager and subscribers_ alone.
LEMMA RolesUnchanged ==
    ASSUME RolesInv, mgr' = mgr, subs' = subs
    PROVE  mgr' \in Manager /\ RolesConsistent' /\ NeverDesignated'
  BY DEF RolesInv, TypeOK, RolesConsistent, NeverDesignated, Registered

\* Record keeps the history a sequence of catalogds.
LEMMA RecordType ==
    ASSUME TypeOK, MgrStep, Record
    PROVE  elected' \in Seq(Catalogds)
<1>1. mgr.version \in Nat /\ elected \in Seq(Catalogds)
  BY MgrTypes DEF TypeOK
<1> QED
  BY <1>1 DEF MgrStep, Record

\* A registration of a coordinator changes no role.
LEMMA CoordinatorRoles ==
    ASSUME RolesInv, NEW p \in Procs, p \notin Catalogds, NEW reg \in Nat,
           mgr' = mgr, subs' = [subs EXCEPT ![p] = reg]
    PROVE  MgrStep /\ RolesConsistent' /\ NeverDesignated'
<1>1. Subscribed' = Subscribed
  BY CatalogdsAre DEF RolesInv, TypeOK, Subscribed
<1> QED
  BY <1>1, RolesAre, RolesAreNext DEF RolesInv, TypeOK, MgrStep, NeverDesignated

LEMMA RolesInit == Init => RolesInv
<1> SUFFICES ASSUME Init PROVE RolesInv
  OBVIOUS
<1>1. mgr = Mgr(FALSE, 0, "unset", None, None, None, 0) /\ mgr \in Manager
  BY DEF Init, NewMgr, Mgr, Manager
<1>2. TypeOK
  <2>1. notifier \in Notifier
    BY DEF Init, NewNotifier, Notifier
  <2>2. NewProcess \in Process
    BY DEF NewProcess, NoReply, Process
  <2>3. elected \in Seq(Catalogds)
    BY DEF Init
  <2>4. proc \in [Procs -> Process]
    BY <2>2 DEF Init
  <2>5. epoch \in Nat \ {0} /\ nextReg \in Nat \ {0} /\ faults \in Nat
    BY DEF Init
  <2>6. subs \in [Procs -> Nat] /\ late \subseteq Call
    BY DEF Init
  <2> QED
    BY <1>1, <2>1, <2>3, <2>4, <2>5, <2>6 DEF TypeOK
<1>3. RolesConsistent /\ NeverDesignated
  BY CatalogdsAre DEF Init, NewMgr, RolesConsistent, NeverDesignated, Registered
<1> QED
  BY <1>2, <1>3 DEF RolesInv

LEMMA RegisterStep ==
    ASSUME RolesInv, NEW p \in Procs, Register(p)
    PROVE  MgrStep /\ RolesInv'
<1>1. nextReg \in Nat \ {0} /\ subs' = [subs EXCEPT ![p] = nextReg]
  BY DEF RolesInv, TypeOK, Register
<1>2. MgrStep /\ RolesConsistent' /\ NeverDesignated'
  <2>1. CASE p \in Catalogds
    BY <1>1, <2>1, RegisterRoles DEF Register
  <2>2. CASE p \notin Catalogds
    BY <1>1, <2>2, CoordinatorRoles DEF Register
  <2> QED
    BY <2>1, <2>2
<1>3. elected' \in Seq(Catalogds)
  BY <1>2, RecordType DEF RolesInv, Register
<1>4. mgr'.version \in Nat /\ mgr'.active \in Catalogds \cup {None}
  BY <1>2 DEF MgrStep, Manager
<1>5. proc' \in [Procs -> Process]
  <2> DEFINE reply == [reg |-> nextReg, version |-> IF mgr'.assigned THEN mgr'.version ELSE -1,
                       active |-> mgr'.active]
  <2>1. reply \in [reg : Nat, version : Nat \cup {-1}, active : Catalogds \cup {None}]
    BY <1>1, <1>4
  <2>2. proc' = [proc EXCEPT ![p].reply = reply]
    BY DEF Register
  <2>3. proc \in [Procs -> Process] /\ [proc[p] EXCEPT !.reply = reply] \in Process
    BY <2>1 DEF RolesInv, TypeOK, Process
  <2> HIDE DEF reply
  <2> QED
    BY <2>2, <2>3
<1> QED
  BY <1>1, <1>2, <1>3, <1>5 DEF RolesInv, TypeOK, MgrStep, Register

LEMMA HeartbeatsFailStep ==
    ASSUME RolesInv, NEW p \in Procs, HeartbeatsFail(p)
    PROVE  MgrStep /\ RolesInv'
<1>1. subs[p] # 0 /\ subs' = [subs EXCEPT ![p] = 0]
  BY DEF HeartbeatsFail
<1>2. MgrStep /\ RolesConsistent' /\ NeverDesignated'
  <2>1. CASE p \in Catalogds
    BY <1>1, <2>1, UnregisterRoles DEF HeartbeatsFail
  <2>2. CASE p \notin Catalogds
    BY <1>1, <2>2, CoordinatorRoles DEF HeartbeatsFail
  <2> QED
    BY <2>1, <2>2
<1>3. elected' \in Seq(Catalogds)
  BY <1>2, RecordType DEF RolesInv, HeartbeatsFail
<1>4. faults' \in Nat
  BY DEF RolesInv, TypeOK, HeartbeatsFail, Fault
<1> QED
  BY <1>1, <1>2, <1>3, <1>4 DEF RolesInv, TypeOK, MgrStep, HeartbeatsFail

LEMMA CheckStep ==
    ASSUME RolesInv, CheckActiveCatalog
    PROVE  MgrStep /\ RolesInv'
<1>1. MgrStep /\ RolesConsistent' /\ NeverDesignated'
  BY CheckRoles
<1>2. elected' \in Seq(Catalogds)
  BY <1>1, RecordType DEF RolesInv, CheckActiveCatalog
<1>3. notifier' \in Notifier
  BY DEF RolesInv, TypeOK, CheckActiveCatalog, Notifier
<1> QED
  BY <1>1, <1>2, <1>3 DEF RolesInv, TypeOK, MgrStep, CheckActiveCatalog

\* The other actions, none of which touches the manager's roles.
LEMMA OtherStep ==
    ASSUME RolesInv, mgr' = mgr, subs' = subs, elected' = elected,
           epoch' \in Nat \ {0}, nextReg' \in Nat \ {0}, notifier' \in Notifier,
           late' \subseteq Call, proc' \in [Procs -> Process], faults' \in Nat
    PROVE  RolesInv'
  BY RolesUnchanged DEF RolesInv, TypeOK

\* UpdateActiveCatalogd() keeps a process a process.
LEMMA UpdateCatalogdType ==
    ASSUME TypeOK, NEW p \in Procs, NEW v \in Nat, NEW c \in Catalogds \cup {None},
           UpdateCatalogd(p, v, c)
    PROVE  proc' \in [Procs -> Process]
<1>1. CASE proc' = proc
  BY <1>1 DEF TypeOK
<1>2. CASE proc' = [proc EXCEPT ![p].last = v, ![p].view = c]
  <2>1. proc \in [Procs -> Process] /\ [proc[p] EXCEPT !.last = v] \in Process
    BY DEF TypeOK, Process
  <2>2. PICK q \in Process : q = [proc[p] EXCEPT !.last = v]
    BY <2>1
  <2>3. [q EXCEPT !.view = c] \in Process
    BY DEF Process
  <2>4. proc' = [proc EXCEPT ![p] = [q EXCEPT !.view = c]]
    BY <1>2, <2>1, <2>2
  <2> QED
    BY <2>1, <2>3, <2>4
<1> QED
  BY <1>1, <1>2 DEF UpdateCatalogd

LEMMA RolesNext == ASSUME RolesInv, [Next]_vars PROVE RolesInv'
<1>0. /\ TypeOK /\ epoch \in Nat \ {0} /\ nextReg \in Nat \ {0} /\ notifier \in Notifier
      /\ late \subseteq Call /\ proc \in [Procs -> Process] /\ faults \in Nat
  BY DEF RolesInv, TypeOK
<1>1. CASE WaitingPeriodExpires
  <2>1. mgr' \in Manager
    BY <1>1 DEF RolesInv, TypeOK, WaitingPeriodExpires, Manager
  <2>2. Subscribed' = Subscribed
    BY <1>1 DEF WaitingPeriodExpires, Subscribed
  <2>3. RolesOf(mgr', Subscribed) /\ NeverDesignated'
    BY <1>1, RolesAre
    DEF RolesInv, TypeOK, WaitingPeriodExpires, Manager, RolesOf, NeverDesignated
  <2> QED
    BY <1>1, <2>1, <2>2, <2>3, RolesAreNext DEF RolesInv, TypeOK, WaitingPeriodExpires
<1>2. CASE CheckActiveCatalog
  BY <1>2, CheckStep
<1>3. CASE NotifyRead \/ NotifyRound
  <2>1. CASE NotifyRead
    <3>1. mgr.version \in Nat /\ mgr.active \in Catalogds \cup {None}
      BY MgrTypes DEF RolesInv, TypeOK
    <3>2. notifier' = [started |-> notifier.started, reading |-> TRUE,
                       last |-> notifier.last, receivers |-> notifier.receivers,
                       todo |-> notifier.todo, version |-> mgr.version,
                       active |-> mgr.active]
      BY <1>0, <2>1 DEF NotifyRead, Notifier
    <3>3. notifier' \in Notifier
      BY <1>0, <3>1, <3>2 DEF Notifier
    <3> QED
      BY <1>0, <2>1, <3>3, OtherStep DEF NotifyRead
  <2>2. CASE NotifyRound
    <3>1. Receivers \subseteq Procs \X Nat
      BY DEF RolesInv, TypeOK, Notifier, Receivers, AllReceivers
    <3>2. notifier' = [started |-> notifier.started, reading |-> FALSE,
                       last |-> notifier.version, receivers |-> Receivers,
                       todo |-> Receivers, version |-> notifier.version,
                       active |-> notifier.active]
      BY <1>0, <2>2 DEF NotifyRound, Notifier
    <3>3. notifier' \in Notifier
      BY <1>0, <3>1, <3>2 DEF Notifier
    <3> QED
      BY <1>0, <2>2, <3>3, OtherStep DEF NotifyRound
  <2> QED
    BY <1>3, <2>1, <2>2
<1>4. ASSUME NEW r \in notifier.todo, NotifyOne(r) PROVE RolesInv'
  <2>1. r[1] \in Procs /\ notifier.version \in Nat /\ notifier.active \in Catalogds \cup {None}
    BY <1>0 DEF Notifier
  <2>2. proc' \in [Procs -> Process]
    BY <1>0, <1>4, <2>1, UpdateCatalogdType DEF NotifyOne
  <2>3. notifier' \in Notifier
    <3>1. [notifier EXCEPT !.todo = notifier.todo \ {r}] \in Notifier
      BY <1>0 DEF Notifier
    <3>2. PICK n \in Notifier : n = [notifier EXCEPT !.todo = notifier.todo \ {r}]
      BY <3>1
    <3>3. [n EXCEPT !.receivers = notifier.receivers \ {r}] \in Notifier
      BY <1>0 DEF Notifier
    <3>4. \/ notifier' = n
          \/ notifier' = [n EXCEPT !.receivers = notifier.receivers \ {r}]
      BY <1>0, <1>4, <3>2 DEF NotifyOne
    <3> QED
      BY <3>3, <3>4
  <2> QED
    BY <1>0, <1>4, <2>2, <2>3, OtherStep DEF NotifyOne
<1>5. ASSUME NEW r \in notifier.todo, NotifyLate(r) PROVE RolesInv'
  <2>1. notifier' \in Notifier
    BY <1>0, <1>5 DEF NotifyLate, Notifier
  <2>2. late' \subseteq Call
    <3>1. [to |-> r, version |-> notifier.version, active |-> notifier.active,
           checked |-> FALSE] \in Call
      BY <1>0 DEF Notifier, Call
    <3> QED
      BY <1>0, <1>5, <3>1 DEF NotifyLate
  <2> QED
    BY <1>0, <1>5, <2>1, <2>2, OtherStep DEF NotifyLate, Fault
<1>6. ASSUME NEW c \in late, LateUpdate(c) \/ FinishSlowUpdate(c) PROVE RolesInv'
  <2>1. c.to[1] \in Procs /\ c.version \in Nat /\ c.active \in Catalogds \cup {None}
    BY <1>0 DEF Call
  <2>2. proc' \in [Procs -> Process]
    BY <1>0, <1>6, <2>1, UpdateCatalogdType DEF LateUpdate, FinishSlowUpdate
  <2> QED
    BY <1>0, <1>6, <2>2, OtherStep DEF LateUpdate, FinishSlowUpdate
<1>7. ASSUME NEW c \in late, SlowUpdate(c) PROVE RolesInv'
  <2>1. [c EXCEPT !.checked = TRUE] \in Call
    BY <1>0 DEF Call
  <2> QED
    <3>1. late' \subseteq Call
      BY <1>0, <1>7, <2>1 DEF SlowUpdate
    <3> QED
      BY <1>0, <1>7, <3>1, OtherStep DEF SlowUpdate, Fault
<1>8. ASSUME NEW p \in Procs, Register(p) PROVE RolesInv'
  BY <1>8, RegisterStep
<1>9. ASSUME NEW p \in Procs, FinishRegister(p) PROVE RolesInv'
  <2> DEFINE r == proc[p].reply
  <2>1. /\ r.reg \in Nat /\ r.version \in Nat \cup {-1} /\ r.active \in Catalogds \cup {None}
        /\ proc[p] \in Process /\ proc[p].up \in BOOLEAN /\ proc[p].view \in Catalogds \cup {None}
    BY <1>0 DEF Process
  <2>2. PICK q : q = [proc[p] EXCEPT !.mode = "running", !.reg = r.reg, !.epoch = epoch,
                                     !.reply = NoReply,
                                     !.last = IF r.version < 0 THEN 0 ELSE r.version,
                                     !.view = IF r.version < 0 THEN proc[p].view ELSE r.active]
    OBVIOUS
  <2>3. q = [up |-> proc[p].up, mode |-> "running", reg |-> r.reg, epoch |-> epoch,
             reply |-> NoReply, last |-> IF r.version < 0 THEN 0 ELSE r.version,
             view |-> IF r.version < 0 THEN proc[p].view ELSE r.active]
    BY <2>1, <2>2 DEF Process
  <2>4. q \in Process
    BY <1>0, <2>1, <2>3 DEF Process, NoReply
  <2>5. proc' = [proc EXCEPT ![p] = q]
    BY <1>9, <2>2 DEF FinishRegister
  <2> QED
    BY <1>0, <1>9, <2>4, <2>5, OtherStep DEF FinishRegister
<1>10. ASSUME NEW p \in Procs, EnterRecovery(p) PROVE RolesInv'
  <2>1. [proc[p] EXCEPT !.mode = "registering"] \in Process
    BY <1>0 DEF Process
  <2>2. PICK q \in Process : q = [proc[p] EXCEPT !.mode = "registering"]
    BY <2>1
  <2>3. [q EXCEPT !.reg = 0] \in Process
    BY DEF Process
  <2>4. proc' = [proc EXCEPT ![p] = [q EXCEPT !.reg = 0]]
    BY <1>0, <1>10, <2>2 DEF EnterRecovery
  <2> QED
    BY <1>0, <1>10, <2>3, <2>4, OtherStep DEF EnterRecovery
<1>11. ASSUME NEW p \in Procs, HeartbeatsFail(p) PROVE RolesInv'
  BY <1>11, HeartbeatsFailStep
<1>12. NewProcess \in Process
    /\ \A p \in Procs : [proc[p] EXCEPT !.reply = NoReply] \in Process
  BY <1>0 DEF NewProcess, NoReply, Process
<1>13. ASSUME NEW p \in Procs, LoseReply(p) PROVE RolesInv'
  BY <1>0, <1>12, <1>13, OtherStep DEF LoseReply, Fault
<1>14. ASSUME NEW p \in Procs, Crash(p) PROVE RolesInv'
  <2>1. [proc[p] EXCEPT !.up = FALSE] \in Process
    BY <1>0 DEF Process
  <2>2. late' \subseteq Call
    BY <1>0, <1>14 DEF Crash
  <2> QED
    BY <1>0, <1>14, <2>1, <2>2, OtherStep DEF Crash, Fault
<1>15. ASSUME NEW p \in Procs, Boot(p) PROVE RolesInv'
  BY <1>0, <1>12, <1>15, OtherStep DEF Boot
<1>16. CASE RestartStatestore
  <2>1. mgr' \in Manager /\ notifier' \in Notifier
    BY <1>16 DEF RestartStatestore, NewMgr, Manager, NewNotifier, Notifier
  <2>2. proc' \in [Procs -> Process]
    BY <1>12, <1>16 DEF RestartStatestore
  <2>3. elected' \in Seq(Catalogds)
    BY <1>16 DEF RestartStatestore
  <2>4. subs' \in [Procs -> Nat] /\ epoch' \in Nat \ {0} /\ faults' \in Nat
        /\ nextReg' = nextReg /\ late' = late
    BY <1>0, <1>16 DEF RestartStatestore, Fault
  <2>5. RolesConsistent' /\ NeverDesignated'
    BY <1>16, CatalogdsAre
    DEF RestartStatestore, NewMgr, RolesConsistent, NeverDesignated, Registered
  <2> QED
    BY <1>0, <2>1, <2>2, <2>3, <2>4, <2>5 DEF RolesInv, TypeOK
<1>17. CASE UNCHANGED vars
  BY <1>0, <1>17, OtherStep DEF vars
<1> QED
  BY <1>1, <1>2, <1>3, <1>4, <1>5, <1>6, <1>7, <1>8, <1>9, <1>10, <1>11, <1>13, <1>14,
     <1>15, <1>16, <1>17 DEF Next, ProcessStep, NotifierStep

(***************************************************************************)
(* The type invariant.                                                     *)
(***************************************************************************)
THEOREM TypeCorrect == Spec => []TypeOK
<1>1. RolesInv => TypeOK
  BY DEF RolesInv
<1> QED
  BY <1>1, RolesInit, RolesNext, PTL DEF Spec

(***************************************************************************)
(* The roles StatestoreCatalogdMgr gives out agree with subscribers_ in    *)
(* whatever order catalogds register, re-register, fail and are restarted. *)
(***************************************************************************)
THEOREM RolesCorrect == Spec => []RolesConsistent
<1>1. RolesInv => RolesConsistent
  BY DEF RolesInv
<1> QED
  BY <1>1, RolesInit, RolesNext, PTL DEF Spec
-----------------------------------------------------------------------------
(***************************************************************************)
(* Versions.                                                               *)
(***************************************************************************)
\* What is named stays named: the history only grows.
Grows == \A v, c : Named(v, c) => Named(v, c)'

LEMMA RecordVersions ==
    ASSUME RolesInv, ElectedIsActive, MgrStep, Record
    PROVE  ElectedIsActive' /\ Grows
<1>1. elected \in Seq(Catalogds) /\ mgr.version \in Nat /\ Len(elected) = mgr.version
  BY MgrTypes DEF RolesInv, TypeOK, ElectedIsActive
<1>2. CASE mgr'.version = mgr.version
  <2>1. elected' = elected
    BY <1>1, <1>2 DEF Record
  <2> QED
    BY <1>1, <1>2, <2>1 DEF ElectedIsActive, MgrStep, Grows, Named
<1>3. CASE mgr'.version = mgr.version + 1 /\ mgr'.active \in Catalogds
  <2>1. elected' = Append(elected, mgr'.active)
    BY <1>1, <1>3 DEF Record
  <2>2. /\ Len(elected') = mgr.version + 1
        /\ elected'[mgr.version + 1] = mgr'.active
        /\ \A v \in 1..Len(elected) : elected'[v] = elected[v]
    BY <1>1, <1>3, <2>1
  <2>3. ElectedIsActive'
    BY <1>1, <1>3, <2>2 DEF ElectedIsActive
  <2>4. Grows
    BY <1>1, <2>2 DEF Grows, Named
  <2> QED
    BY <2>3, <2>4
<1> QED
  BY <1>1, <1>2, <1>3 DEF MgrStep

LEMMA SameVersions ==
    ASSUME ElectedIsActive, elected' = elected, mgr'.version = mgr.version,
           mgr'.active = mgr.active, mgr'.assigned = mgr.assigned
    PROVE  ElectedIsActive' /\ Grows
  BY DEF ElectedIsActive, Grows, Named

\* A step of the manager while the processes stand still.
LEMMA ManagerVersions ==
    ASSUME VersionInv, ElectedIsActive', Grows, ReceiversGivenOut', RoundMatches',
           UNCHANGED <<late, proc, epoch>>
    PROVE  VersionInv'
<1>1. ReplyMatches' /\ ProcMatches'
  BY DEF VersionInv, ReplyMatches, ProcMatches, Grows
<1>2. LateMatches'
  BY DEF VersionInv, LateMatches, Grows
<1> QED
  BY <1>1, <1>2 DEF VersionInv

LEMMA RegisterVersions ==
    ASSUME RolesInv, VersionInv, NEW p \in Procs, Register(p)
    PROVE  VersionInv'
<1>1. ElectedIsActive' /\ Grows /\ MgrStep
  BY RegisterStep, RecordVersions DEF VersionInv, Register
<1>2. /\ nextReg \in Nat \ {0} /\ nextReg' = nextReg + 1
      /\ subs \in [Procs -> Nat] /\ subs' = [subs EXCEPT ![p] = nextReg]
      /\ notifier' = notifier /\ late' = late /\ epoch' = epoch
      /\ notifier \in Notifier /\ late \subseteq Call /\ proc \in [Procs -> Process]
  BY DEF RolesInv, TypeOK, Register
<1>3. ReceiversGivenOut'
  <2>1. \A r \in notifier.receivers \cup notifier.todo : r[2] \in Nat
    BY <1>2 DEF Notifier
  <2>2. \A c \in late : c.to[2] \in Nat
    BY <1>2 DEF Call
  <2> QED
    BY <1>2, <2>1, <2>2 DEF VersionInv, ReceiversGivenOut, GivenOut
<1>4. RoundMatches'
  BY <1>1, <1>2 DEF VersionInv, RoundMatches, Grows
<1> DEFINE reply == [reg |-> nextReg, version |-> IF mgr'.assigned THEN mgr'.version ELSE -1,
                     active |-> mgr'.active]
<1>5. /\ proc'[p].reply = reply
      /\ \A q \in Procs : /\ proc'[q].epoch = proc[q].epoch /\ proc'[q].reg = proc[q].reg
                          /\ proc'[q].last = proc[q].last /\ proc'[q].view = proc[q].view
      /\ \A q \in Procs \ {p} : proc'[q].reply = proc[q].reply
  BY <1>2 DEF Register, Process
<1>6. /\ reply.reg = nextReg
      /\ \/ reply.version = -1
         \/ reply.version \in 1..Len(elected') /\ reply.active = elected'[reply.version]
  <2>1. CASE ~mgr'.assigned
    BY <2>1
  <2>2. CASE mgr'.assigned
    <3>1. /\ mgr'.version \in Nat \ {0} /\ Len(elected') = mgr'.version
          /\ mgr'.active = elected'[mgr'.version]
      BY <1>1, <2>2 DEF ElectedIsActive, MgrStep, Manager
    <3>2. reply.version = mgr'.version /\ reply.active = mgr'.active
      BY <2>2
    <3>3. reply.reg = nextReg
      OBVIOUS
    <3> HIDE DEF reply
    <3> QED
      BY <1>2, <3>1, <3>2, <3>3
  <2> QED
    BY <2>1, <2>2
<1> HIDE DEF reply
<1>7. ReplyMatches'
  BY <1>1, <1>5, <1>6 DEF VersionInv, ReplyMatches, Grows, Named
<1>8. ProcMatches'
  BY <1>1, <1>2, <1>5 DEF VersionInv, ProcMatches, Grows
<1>9. LateMatches'
  <2>1. \A c \in late : c.to[2] \in Nat /\ c.to[2] # nextReg
    BY <1>2 DEF VersionInv, ReceiversGivenOut, GivenOut, Call
  <2> QED
    BY <1>1, <1>2, <1>5, <1>6, <2>1 DEF VersionInv, LateMatches, Grows
<1> QED
  BY <1>1, <1>3, <1>4, <1>7, <1>8, <1>9 DEF VersionInv

LEMMA ManagerStepVersions ==
    ASSUME RolesInv, VersionInv,
           \/ WaitingPeriodExpires \/ CheckActiveCatalog
           \/ \E p \in Procs : HeartbeatsFail(p)
    PROVE  VersionInv'
<1>1. CASE WaitingPeriodExpires
  <2>1. /\ mgr'.version = mgr.version /\ mgr'.active = mgr.active
        /\ mgr'.assigned = mgr.assigned
    BY <1>1 DEF RolesInv, TypeOK, WaitingPeriodExpires, Manager
  <2>2. ElectedIsActive' /\ Grows
    BY <1>1, <2>1, SameVersions DEF VersionInv, WaitingPeriodExpires
  <2>3. ReceiversGivenOut' /\ RoundMatches'
    BY <1>1, <2>2
    DEF VersionInv, WaitingPeriodExpires, ReceiversGivenOut, GivenOut, RoundMatches, Grows
  <2> QED
    BY <1>1, <2>2, <2>3, ManagerVersions DEF WaitingPeriodExpires
<1>2. CASE CheckActiveCatalog
  <2>1. ElectedIsActive' /\ Grows
    BY <1>2, CheckStep, RecordVersions DEF VersionInv, CheckActiveCatalog
  <2>2. /\ notifier'.receivers = notifier.receivers /\ notifier'.todo = notifier.todo
        /\ notifier'.version = notifier.version /\ notifier'.active = notifier.active
        /\ notifier'.reading = notifier.reading
    BY <1>2 DEF RolesInv, TypeOK, CheckActiveCatalog, Notifier
  <2>3. ReceiversGivenOut' /\ RoundMatches'
    BY <1>2, <2>1, <2>2
    DEF VersionInv, CheckActiveCatalog, ReceiversGivenOut, GivenOut, RoundMatches, Grows
  <2> QED
    BY <1>2, <2>1, <2>3, ManagerVersions DEF CheckActiveCatalog
<1>3. ASSUME NEW p \in Procs, HeartbeatsFail(p) PROVE VersionInv'
  <2>1. ElectedIsActive' /\ Grows
    BY <1>3, HeartbeatsFailStep, RecordVersions DEF VersionInv, HeartbeatsFail
  <2>2. \A q \in Procs : subs'[q] < nextReg
    BY <1>3 DEF RolesInv, TypeOK, VersionInv, ReceiversGivenOut, HeartbeatsFail
  <2>3. ReceiversGivenOut' /\ RoundMatches'
    BY <1>3, <2>1, <2>2
    DEF VersionInv, HeartbeatsFail, ReceiversGivenOut, GivenOut, RoundMatches, Grows
  <2> QED
    BY <1>3, <2>1, <2>3, ManagerVersions DEF HeartbeatsFail
<1> QED
  BY <1>1, <1>2, <1>3

\* UpdateActiveCatalogd() with a named version.
LEMMA UpdateVersions ==
    ASSUME RolesInv, VersionInv, NEW p \in Procs, NEW v \in Nat, NEW c, Named(v, c),
           UpdateCatalogd(p, v, c), UNCHANGED <<epoch, elected>>
    PROVE  /\ ReplyMatches' /\ ProcMatches'
           /\ \A q \in Procs : /\ proc'[q].epoch = proc[q].epoch /\ proc'[q].reg = proc[q].reg
                               /\ proc'[q].reply = proc[q].reply
<1>1. proc \in [Procs -> Process]
  BY DEF RolesInv, TypeOK
<1>2. /\ \A q \in Procs : /\ proc'[q].epoch = proc[q].epoch /\ proc'[q].reg = proc[q].reg
                          /\ proc'[q].reply = proc[q].reply
      /\ \A q \in Procs : \/ proc'[q].last = proc[q].last /\ proc'[q].view = proc[q].view
                          \/ proc'[q].last = v /\ proc'[q].view = c
  BY <1>1 DEF UpdateCatalogd, Process
<1>3. ProcMatches'
  BY <1>2 DEF VersionInv, ProcMatches, Named
<1>4. ReplyMatches'
  BY <1>2 DEF VersionInv, ReplyMatches, Named
<1> QED
  BY <1>2, <1>3, <1>4

LEMMA NotifyVersions ==
    ASSUME RolesInv, VersionInv,
           NotifyRead \/ NotifyRound \/ \E r \in notifier.todo : NotifyOne(r) \/ NotifyLate(r)
    PROVE  VersionInv'
<1>0. /\ notifier \in Notifier /\ subs \in [Procs -> Nat] /\ nextReg \in Nat
      /\ mgr.version \in Nat /\ Procs # {}
  BY MgrTypes, CatalogdsAre DEF RolesInv, TypeOK
<1>1. CASE NotifyRead
  <2>1. /\ notifier'.receivers = notifier.receivers /\ notifier'.todo = notifier.todo
        /\ notifier'.version = mgr.version /\ notifier'.active = mgr.active
    BY <1>0, <1>1 DEF NotifyRead, Notifier
  <2>2. mgr.assigned /\ UNCHANGED <<epoch, mgr, subs, nextReg, late, proc, elected>>
    BY <1>1 DEF NotifyRead
  <2>3. ElectedIsActive' /\ Grows
    BY <2>2, SameVersions DEF VersionInv
  <2>4. RoundMatches'
    BY <1>0, <2>1, <2>2 DEF VersionInv, ElectedIsActive, RoundMatches, Named
  <2>5. ReceiversGivenOut'
    BY <2>1, <2>2 DEF VersionInv, ReceiversGivenOut, GivenOut
  <2> QED
    BY <2>2, <2>3, <2>4, <2>5, ManagerVersions
<1>3. CASE NotifyRound
  <2>1. \A r \in Receivers : GivenOut(r[2])
    <3>1. \A r \in AllReceivers : GivenOut(r[2])
      BY <1>0 DEF VersionInv, ReceiversGivenOut, GivenOut, AllReceivers
    <3> QED
      BY <3>1 DEF VersionInv, ReceiversGivenOut, Receivers
  <2>2. /\ notifier.reading
        /\ notifier'.receivers = Receivers /\ notifier'.todo = Receivers
        /\ notifier'.version = notifier.version /\ notifier'.active = notifier.active
    BY <1>0, <1>3 DEF NotifyRound, Notifier
  <2>3. UNCHANGED <<epoch, mgr, subs, nextReg, late, proc, elected>>
    BY <1>3 DEF NotifyRound
  <2>4. ElectedIsActive' /\ Grows
    BY <2>3, SameVersions DEF VersionInv
  <2>5. RoundMatches'
    BY <2>2, <2>3 DEF VersionInv, RoundMatches, Named
  <2>6. ReceiversGivenOut'
    BY <2>1, <2>2, <2>3 DEF VersionInv, ReceiversGivenOut, GivenOut
  <2> QED
    BY <2>3, <2>4, <2>5, <2>6, ManagerVersions
<1>2. ASSUME NEW r \in notifier.todo, NotifyOne(r) \/ NotifyLate(r) PROVE VersionInv'
  <2>1. /\ notifier.version \in Nat /\ Named(notifier.version, notifier.active)
        /\ r[1] \in Procs
    BY <1>0 DEF VersionInv, RoundMatches, Notifier
  <2>2. /\ notifier'.receivers \subseteq notifier.receivers
        /\ notifier'.todo \subseteq notifier.todo /\ notifier'.reading = notifier.reading
        /\ notifier'.version = notifier.version /\ notifier'.active = notifier.active
    <3>1. CASE notifier' = [notifier EXCEPT !.todo = notifier.todo \ {r}]
      BY <1>0, <3>1 DEF Notifier
    <3>2. CASE notifier' = [notifier EXCEPT !.todo = notifier.todo \ {r},
                                            !.receivers = notifier.receivers \ {r}]
      BY <1>0, <3>2 DEF Notifier
    <3> QED
      BY <1>2, <3>1, <3>2 DEF NotifyOne, NotifyLate
  <2>3. UNCHANGED <<epoch, mgr, subs, nextReg, elected>>
    BY <1>2 DEF NotifyOne, NotifyLate
  <2>4. ElectedIsActive' /\ Grows
    BY <2>3, SameVersions DEF VersionInv
  <2>5. RoundMatches'
    BY <2>1, <2>2, <2>3 DEF VersionInv, RoundMatches, Named
  <2>6. CASE late' = late
    <3>1. ReceiversGivenOut'
      BY <2>2, <2>3, <2>6 DEF VersionInv, ReceiversGivenOut, GivenOut
    <3>2. CASE proc' = proc
      BY <2>3, <2>4, <2>5, <2>6, <3>1, <3>2, ManagerVersions
    <3>3. CASE UpdateCatalogd(r[1], notifier.version, notifier.active)
      <4>1. /\ ReplyMatches' /\ ProcMatches'
            /\ \A q \in Procs : /\ proc'[q].epoch = proc[q].epoch /\ proc'[q].reg = proc[q].reg
                                /\ proc'[q].reply = proc[q].reply
        BY <2>1, <2>3, <3>3, UpdateVersions
      <4>2. LateMatches'
        BY <2>3, <2>6, <4>1 DEF VersionInv, LateMatches, Named
      <4> QED
        BY <2>4, <2>5, <3>1, <4>1, <4>2 DEF VersionInv
    <3>4. NotifyOne(r) => proc' = proc \/ UpdateCatalogd(r[1], notifier.version, notifier.active)
      BY DEF NotifyOne
    <3>5. NotifyLate(r) => proc' = proc
      BY DEF NotifyLate
    <3> QED
      BY <1>2, <3>2, <3>3, <3>4, <3>5
  <2>7. CASE NotifyLate(r)
    <3> DEFINE c == [to |-> r, version |-> notifier.version, active |-> notifier.active,
                     checked |-> FALSE]
    <3>1. /\ late' = late \cup {c} /\ proc' = proc
          /\ c.to = r /\ c.version = notifier.version /\ c.active = notifier.active
          /\ c.checked = FALSE
      BY <2>7 DEF NotifyLate
    <3> HIDE DEF c
    <3>2. ReceiversGivenOut'
      BY <1>2, <2>2, <2>3, <3>1 DEF VersionInv, ReceiversGivenOut, GivenOut
    <3>3. LateMatches'
      BY <2>1, <2>3, <3>1 DEF VersionInv, LateMatches, Named
    <3>4. ReplyMatches' /\ ProcMatches'
      BY <2>3, <3>1 DEF VersionInv, ReplyMatches, ProcMatches, Named
    <3> QED
      BY <2>4, <2>5, <3>2, <3>3, <3>4 DEF VersionInv
  <2> QED
    BY <1>2, <2>6, <2>7 DEF NotifyOne
<1> QED
  BY <1>1, <1>2, <1>3

\* A step of the processes: no registration id becomes acceptable that was not the one
\* of an answer before.
LEMMA ProcessVersions ==
    ASSUME VersionInv, UNCHANGED <<epoch, mgr, subs, nextReg, notifier, elected>>,
           late' \subseteq late, ReplyMatches', ProcMatches',
           \A q \in Procs : /\ proc'[q].reply.reg \in {0, proc[q].reply.reg}
                            /\ \/ proc'[q].reg \in {0, proc[q].reply.reg}
                               \/ /\ proc'[q].reg = proc[q].reg
                                  /\ proc'[q].epoch = proc[q].epoch
    PROVE  VersionInv'
<1>1. ElectedIsActive' /\ Grows
  BY SameVersions DEF VersionInv
<1>2. ReceiversGivenOut' /\ RoundMatches'
  BY DEF VersionInv, ReceiversGivenOut, GivenOut, RoundMatches, Named
<1>3. \A c \in late' : c \in late /\ c.to[2] # 0
  BY DEF VersionInv, ReceiversGivenOut, GivenOut
<1>4. \A c \in late' : \A p \in Procs :
         \/ proc'[p].epoch = epoch' /\ proc'[p].reg = c.to[2]
         \/ proc'[p].reply.reg = c.to[2]
         => Named(c.version, c.active)
  BY <1>3 DEF VersionInv, LateMatches
<1>5. LateMatches'
  BY <1>3, <1>4 DEF VersionInv, LateMatches, Named
<1> QED
  BY <1>1, <1>2, <1>5 DEF VersionInv

\* UpdateActiveCatalogd() with a version of an earlier statestored, in a process that is
\* still registered with that one.
LEMMA UpdateEarlier ==
    ASSUME RolesInv, VersionInv, NEW p \in Procs, NEW v \in Nat, NEW c,
           proc[p].epoch # epoch,
           UpdateCatalogd(p, v, c), UNCHANGED <<epoch, elected>>
    PROVE  /\ ReplyMatches' /\ ProcMatches'
           /\ \A q \in Procs : /\ proc'[q].epoch = proc[q].epoch /\ proc'[q].reg = proc[q].reg
                               /\ proc'[q].reply = proc[q].reply
<1>1. proc \in [Procs -> Process]
  BY DEF RolesInv, TypeOK
<1>2. /\ \A q \in Procs : /\ proc'[q].epoch = proc[q].epoch /\ proc'[q].reg = proc[q].reg
                          /\ proc'[q].reply = proc[q].reply
      /\ \A q \in Procs : q # p => proc'[q].last = proc[q].last /\ proc'[q].view = proc[q].view
  BY <1>1 DEF UpdateCatalogd, Process
<1>3. ProcMatches'
  BY <1>2 DEF VersionInv, ProcMatches, Named
<1>4. ReplyMatches'
  BY <1>2 DEF VersionInv, ReplyMatches, Named
<1> QED
  BY <1>2, <1>3, <1>4

\* Requests nobody waits for.  A handler that is slow to take lock_ is harmless only as
\* long as there is one statestored.
LEMMA LateVersions ==
    ASSUME RolesInv, VersionInv,
           "slow_update" \notin FaultKinds \/ "restart" \notin FaultKinds,
           NEW c \in late, LateUpdate(c) \/ SlowUpdate(c) \/ FinishSlowUpdate(c)
    PROVE  VersionInv'
<1>0. /\ c.to[1] \in Procs /\ c.version \in Nat
      /\ c \in Call
  BY DEF RolesInv, TypeOK, Call
<1>1. UNCHANGED <<epoch, mgr, subs, nextReg, notifier, elected>>
  BY DEF LateUpdate, SlowUpdate, FinishSlowUpdate
<1>2. CASE SlowUpdate(c)
  <2> DEFINE d == [c EXCEPT !.checked = TRUE]
  <2>1. /\ "slow_update" \in FaultKinds /\ "restart" \notin FaultKinds
        /\ late' = (late \ {c}) \cup {d} /\ proc' = proc
        /\ d.to = c.to /\ d.version = c.version /\ d.active = c.active
    BY <1>0, <1>2 DEF SlowUpdate, Fault, Call
  <2> HIDE DEF d
  <2>2. ElectedIsActive' /\ Grows
    BY <1>1, SameVersions DEF VersionInv
  <2>3. ReceiversGivenOut' /\ RoundMatches'
    BY <1>1, <2>1 DEF VersionInv, ReceiversGivenOut, GivenOut, RoundMatches, Named
  <2>4. ReplyMatches' /\ ProcMatches'
    BY <1>1, <2>1 DEF VersionInv, ReplyMatches, ProcMatches, Named
  <2>5. \A e \in late' : Named(e.version, e.active)
    BY <2>1 DEF VersionInv, LateMatches
  <2>6. LateMatches'
    BY <1>1, <2>1, <2>5 DEF LateMatches, Named
  <2> QED
    BY <2>2, <2>3, <2>4, <2>6 DEF VersionInv
<1>3. CASE proc' = proc /\ late' = late \ {c}
  <2>1. ReplyMatches' /\ ProcMatches'
    BY <1>1, <1>3 DEF VersionInv, ReplyMatches, ProcMatches, Named
  <2> QED
    BY <1>1, <1>3, <2>1, ProcessVersions
<1>4. CASE UpdateCatalogd(c.to[1], c.version, c.active) /\ late' = late \ {c}
           /\ (Named(c.version, c.active) \/ proc[c.to[1]].epoch # epoch)
  <2>1. /\ ReplyMatches' /\ ProcMatches'
        /\ \A q \in Procs : /\ proc'[q].epoch = proc[q].epoch /\ proc'[q].reg = proc[q].reg
                            /\ proc'[q].reply = proc[q].reply
    BY <1>0, <1>1, <1>4, UpdateVersions, UpdateEarlier
  <2> QED
    BY <1>1, <1>4, <2>1, ProcessVersions
<1>5. CASE LateUpdate(c)
  <2>1. proc[c.to[1]].reg = c.to[2] => Named(c.version, c.active) \/ proc[c.to[1]].epoch # epoch
    BY <1>0 DEF VersionInv, LateMatches
  <2> QED
    BY <1>3, <1>4, <1>5, <2>1 DEF LateUpdate, Skips
<1>6. CASE FinishSlowUpdate(c)
  <2>1. Named(c.version, c.active)
    BY <1>6 DEF VersionInv, LateMatches, FinishSlowUpdate
  <2> QED
    BY <1>3, <1>4, <1>6, <2>1 DEF FinishSlowUpdate
<1> QED
  BY <1>2, <1>5, <1>6

LEMMA FinishRegisterVersions ==
    ASSUME RolesInv, VersionInv, NEW p \in Procs, FinishRegister(p)
    PROVE  VersionInv'
<1> DEFINE r == proc[p].reply
           last == IF r.version < 0 THEN 0 ELSE r.version
           view == IF r.version < 0 THEN proc[p].view ELSE r.active
<1>1. /\ proc \in [Procs -> Process] /\ epoch \in Nat
      /\ UNCHANGED <<epoch, mgr, subs, nextReg, notifier, late, elected>>
      /\ r.version \in Nat \cup {-1} /\ r.reg # 0
  BY DEF RolesInv, TypeOK, FinishRegister, Process
<1>2. last # 0 => Named(last, view)
  BY <1>1 DEF VersionInv, ReplyMatches, Named
<1> HIDE DEF last, view
<1>3. PICK q \in Process : q = proc[p]
  BY <1>1
<1> DEFINE s == [q EXCEPT !.mode = "running", !.reg = r.reg, !.epoch = epoch,
                          !.reply = NoReply, !.last = last, !.view = view]
<1>4. proc' = [proc EXCEPT ![p] = s]
  BY <1>1, <1>3 DEF FinishRegister, last, view
<1>5. s.reg = r.reg /\ s.epoch = epoch /\ s.reply = NoReply /\ s.last = last /\ s.view = view
  BY DEF Process
<1> HIDE DEF s
<1>6. proc'[p] = s /\ \A o \in Procs : o # p => proc'[o] = proc[o]
  BY <1>1, <1>4
<1>7. NoReply.reg = 0
  BY DEF NoReply
<1>8. ReplyMatches'
  BY <1>1, <1>5, <1>6, <1>7 DEF VersionInv, ReplyMatches, Named
<1>9. ProcMatches'
  BY <1>1, <1>2, <1>5, <1>6 DEF VersionInv, ProcMatches, Named
<1> QED
  BY <1>1, <1>5, <1>6, <1>7, <1>8, <1>9, ProcessVersions

LEMMA ProcessStepVersions ==
    ASSUME RolesInv, VersionInv, NEW p \in Procs,
           LoseReply(p) \/ EnterRecovery(p) \/ Crash(p) \/ Boot(p)
    PROVE  VersionInv'
<1>1. /\ proc \in [Procs -> Process] /\ epoch \in Nat \ {0}
      /\ UNCHANGED <<epoch, mgr, subs, nextReg, notifier, elected>>
      /\ late' \subseteq late
  BY DEF RolesInv, TypeOK, LoseReply, EnterRecovery, Crash, Boot
<1>2. \A o \in Procs : o # p => proc'[o] = proc[o]
  BY <1>1 DEF LoseReply, EnterRecovery, Crash, Boot
<1>3. \/ /\ proc'[p].reply \in {NoReply, proc[p].reply}
         /\ proc'[p].reg \in {0, proc[p].reg} /\ proc'[p].epoch = proc[p].epoch
         /\ proc'[p].last = proc[p].last /\ proc'[p].view = proc[p].view
      \/ proc'[p] = NewProcess
  <2>1. PICK q \in Process : q = proc[p]
    BY <1>1
  <2>2. CASE LoseReply(p)
    <3>1. proc'[p] = [q EXCEPT !.reply = NoReply]
      BY <1>1, <2>1, <2>2 DEF LoseReply
    <3> QED
      BY <2>1, <3>1 DEF Process
  <2>3. CASE EnterRecovery(p)
    <3>1. proc'[p] = [q EXCEPT !.mode = "registering", !.reg = 0]
      BY <1>1, <2>1, <2>3 DEF EnterRecovery
    <3> QED
      BY <2>1, <3>1 DEF Process
  <2>4. CASE Crash(p)
    <3>1. proc'[p] = [q EXCEPT !.up = FALSE]
      BY <1>1, <2>1, <2>4 DEF Crash
    <3> QED
      BY <2>1, <3>1 DEF Process
  <2>5. CASE Boot(p)
    BY <1>1, <2>5 DEF Boot
  <2> QED
    BY <2>2, <2>3, <2>4, <2>5
<1>4. /\ NoReply.reg = 0 /\ NewProcess.reply.reg = 0 /\ NewProcess.reg = 0
      /\ NewProcess.epoch = 0 /\ NewProcess.last = 0
  BY DEF NoReply, NewProcess
<1>5. ReplyMatches'
  BY <1>1, <1>2, <1>3, <1>4 DEF VersionInv, ReplyMatches, Named
<1>6. ProcMatches'
  BY <1>1, <1>2, <1>3, <1>4 DEF VersionInv, ProcMatches, Named
<1>7. \A q \in Procs : /\ proc'[q].reply.reg \in {0, proc[q].reply.reg}
                       /\ \/ proc'[q].reg \in {0, proc[q].reply.reg}
                          \/ proc'[q].reg = proc[q].reg /\ proc'[q].epoch = proc[q].epoch
  BY <1>2, <1>3, <1>4
<1> QED
  BY <1>1, <1>5, <1>6, <1>7, ProcessVersions

\* A new statestored has given no version out and nobody is registered with it.
LEMMA RestartVersions ==
    ASSUME RolesInv, VersionInv, RestartStatestore
    PROVE  VersionInv'
<1>1. /\ proc \in [Procs -> Process] /\ epoch \in Nat /\ nextReg \in Nat \ {0}
      /\ epoch' = epoch + 1 /\ mgr' = NewMgr /\ notifier' = NewNotifier /\ elected' = <<>>
      /\ subs' = [q \in Procs |-> 0] /\ late' = late /\ nextReg' = nextReg
      /\ "restart" \in FaultKinds
  BY DEF RolesInv, TypeOK, RestartStatestore, Fault
<1>2. ASSUME NEW q \in Procs
      PROVE  proc'[q].epoch = proc[q].epoch /\ proc'[q].reply = NoReply
  <2>1. proc'[q] = [proc[q] EXCEPT !.reply = NoReply]
    BY DEF RestartStatestore
  <2>2. proc[q] \in Process
    BY <1>1
  <2>3. /\ [proc[q] EXCEPT !.reply = NoReply].epoch = proc[q].epoch
        /\ [proc[q] EXCEPT !.reply = NoReply].reply = NoReply
    BY <2>2 DEF Process
  <2> QED
    BY <2>1, <2>3
<1>3. \A q \in Procs : proc'[q].epoch < epoch'
  BY <1>1, <1>2 DEF VersionInv, ProcMatches, Process
<1>4. ElectedIsActive'
  BY <1>1 DEF ElectedIsActive, NewMgr
<1>5. ReceiversGivenOut' /\ RoundMatches'
  BY <1>1 DEF VersionInv, ReceiversGivenOut, GivenOut, RoundMatches, NewNotifier
<1>6. ReplyMatches' /\ ProcMatches'
  <2>1. epoch' \in Nat /\ \A q \in Procs : proc'[q].epoch \in Nat
    BY <1>1, <1>2 DEF Process
  <2> QED
    BY <1>2, <1>3, <2>1 DEF ReplyMatches, ProcMatches, NoReply
<1>7. LateMatches'
  <2>1. \A c \in late : c.to[2] # 0
    BY DEF VersionInv, ReceiversGivenOut, GivenOut
  <2>2. \A q \in Procs : proc'[q].epoch # epoch' /\ proc'[q].reply.reg = 0
    BY <1>1, <1>2, <1>3 DEF NoReply, Process
  <2> QED
    BY <1>1, <2>1, <2>2 DEF VersionInv, LateMatches
<1> QED
  BY <1>4, <1>5, <1>6, <1>7 DEF VersionInv

LEMMA VersionsInit == Init => VersionInv
<1> SUFFICES ASSUME Init PROVE VersionInv
  OBVIOUS
<1>1. ElectedIsActive /\ ReceiversGivenOut /\ RoundMatches
  BY DEF Init, ElectedIsActive, ReceiversGivenOut, GivenOut, RoundMatches, NewMgr, NewNotifier
<1>2. \A p \in Procs : /\ proc[p].reply.reg = 0 /\ proc[p].epoch = 0 /\ proc[p].last = 0
  BY DEF Init, NewProcess, NoReply
<1>3. ReplyMatches /\ ProcMatches /\ LateMatches
  BY <1>2 DEF Init, ReplyMatches, ProcMatches, LateMatches
<1> QED
  BY <1>1, <1>3 DEF VersionInv

LEMMA VersionsNext ==
    ASSUME RolesInv, VersionInv, [Next]_vars,
           "slow_update" \notin FaultKinds \/ "restart" \notin FaultKinds
    PROVE  VersionInv'
<1>1. CASE UNCHANGED vars
  BY <1>1 DEF vars, VersionInv, ElectedIsActive, ReceiversGivenOut, GivenOut, RoundMatches,
              ReplyMatches, LateMatches, ProcMatches, Named
<1>2. CASE Next
  BY <1>2, RegisterVersions, ManagerStepVersions, NotifyVersions, LateVersions,
     FinishRegisterVersions, ProcessStepVersions, RestartVersions
  DEF Next, ProcessStep, NotifierStep
<1> QED
  BY <1>1, <1>2

(***************************************************************************)
(* Whoever has taken a version of the present statestored, from the answer *)
(* to a registration or from an UpdateCatalogd() request, believes in the  *)
(* catalogd StatestoreCatalogdMgr designated with it, provided that        *)
(* handlers take lock_ at once or that the statestored is never replaced:  *)
(* a handler that checked its registration id before a registration with   *)
(* another statestored and takes the lock after it breaks the property.    *)
(***************************************************************************)
THEOREM VersionsCorrect ==
    ASSUME "slow_update" \notin FaultKinds \/ "restart" \notin FaultKinds
    PROVE  Spec => []VersionNamesActive
<1>1. Init => RolesInv /\ VersionInv
  BY RolesInit, VersionsInit
<1>2. RolesInv /\ VersionInv /\ [Next]_vars => (RolesInv /\ VersionInv)'
  BY RolesNext, VersionsNext
<1>3. RolesInv /\ VersionInv => VersionNamesActive
  <2> SUFFICES ASSUME RolesInv, VersionInv, NEW p \in Procs,
                      proc[p].epoch = epoch, proc[p].last # 0
               PROVE  proc[p].last <= Len(elected) /\ proc[p].view = elected[proc[p].last]
    BY DEF VersionNamesActive
  <2> QED
    BY DEF VersionInv, ProcMatches, Named
<1> QED
  BY <1>1, <1>2, <1>3, PTL DEF Spec
=============================================================================

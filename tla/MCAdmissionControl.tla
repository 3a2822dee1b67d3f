------------------------- MODULE MCAdmissionControl -------------------------
(* AdmissionControl for model checking: two coordinators whose queries  *)
(* compete for one host and one place in the pool.                         *)
EXTENDS AdmissionControl, TLC

MCCoordinatorOf == [q \in Queries |-> IF q = "q2" THEN "c2" ELSE "c1"]
MCUserOf == [q \in Queries |-> "u"]
MCHostsOf == [q \in Queries |-> IF q = "q1" THEN {"h1"} ELSE Hosts]
=============================================================================

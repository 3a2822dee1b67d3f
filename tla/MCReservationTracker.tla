------------------------ MODULE MCReservationTracker ------------------------
(***************************************************************************)
(* The process's tracker, a query q with initial reservations and two      *)
(* clients, one of which has a sub-reservation, and another query r, taken *)
(* as one with its only client.                                            *)
(***************************************************************************)
EXTENDS ReservationTracker

MCPath == [process |-> <<"process">>,
           q       |-> <<"q", "process">>,
           initial |-> <<"initial", "q", "process">>,
           a       |-> <<"a", "q", "process">>,
           b       |-> <<"b", "q", "process">>,
           sub     |-> <<"sub", "a", "q", "process">>,
           r       |-> <<"r", "process">>]
MCTrackers == DOMAIN MCPath
MCLimit == [x \in MCTrackers |-> CASE x = "process" -> 3 [] x = "b" -> 2 [] OTHER -> 4]
MCAddress == [a |-> 1, b |-> 2, initial |-> 3, sub |-> 4, q |-> 5, r |-> 6, process |-> 7]
MCOwner == [x \in {"a", "b", "sub", "r"} |->
                CASE x \in {"a", "sub"} -> "ta" [] x = "b" -> "tb" [] x = "r" -> "tr"]
===============================================================================

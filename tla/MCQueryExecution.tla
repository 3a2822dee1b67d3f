-------------------------- MODULE MCQueryExecution --------------------------
(* QueryExecution for model checking: the coordinator's own backend and    *)
(* one more.  A query has an instance on each; an insert has two on the    *)
(* other backend and none on the coordinator's.                            *)
EXTENDS QueryExecution, TLC

MCMaxSeq == [k \in Kinds |-> IF k = "DML" THEN 1 ELSE 0]

\* Reports are lost or late only where they count most, in an insert.
MCFaultKinds == [k \in Kinds |->
                   {"exec", "cancel", "instance", "stall", "crash"}
                      \cup IF k = "DML" THEN {"report"} ELSE {}]

MCLayout == [k \in Kinds |->
               IF k = "QUERY" THEN "c" :> {"i1"} @@ "w" :> {"i2"}
                              ELSE "c" :> {} @@ "w" :> {"i1", "i2"}]
=============================================================================

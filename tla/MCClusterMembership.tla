------------------------ MODULE MCClusterMembership ------------------------
(* ClusterMembership for model checking: one other impalad that restarts   *)
(* once, or two that do not, as the configuration says.                    *)
EXTENDS ClusterMembership
=============================================================================

------------------------- MODULE MCTopicReplication -------------------------
(* TopicReplication on small instances. *)
EXTENDS TopicReplication
=============================================================================

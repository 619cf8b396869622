------------------------- MODULE MCReplicationDriver -------------------------
(* Small trees of filesystems for the replication driver. *)
EXTENDS ReplicationDriver

CONSTANTS a, b

\* a and a/b
Pair == [f \in Fss |-> IF f = b THEN {a} ELSE {}]
=============================================================================

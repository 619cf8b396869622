---------------------------- MODULE MCReplication ----------------------------
(* Settings of replication.protection for TLC. *)
EXTENDS Replication

Setting(i, c) == [initial |-> i, incremental |-> c]

ResumabilityOnly == {Setting("resumability", "resumability")}
IncrementalOnly == {Setting("incremental", "incremental")}
Guaranteed ==
    {Setting(i, c) : i \in {"incremental", "resumability"}, c \in {"incremental", "resumability"}}
=============================================================================

------------------------------ MODULE MCPruner ------------------------------
(***************************************************************************)
(* Instances of Pruner for TLC: three filesystems of which the third is    *)
(* not on the sender, and rules that may condemn two snapshots at once.    *)
(***************************************************************************)
EXTENDS Pruner

Sizes == <<3, 1, 0>>
NotReplicatedOrLast ==
    <<[kind |-> "not_replicated"], [kind |-> "last_n", n |-> 1, names |-> 1..3]>>
=============================================================================

---------------------------- MODULE MCRetention ----------------------------
(***************************************************************************)
(* Instances of Retention for TLC.                                         *)
(***************************************************************************)
EXTENDS Retention

Interval(length, keep) == [length |-> length, keep |-> keep]

\* Intervals of growing length, the first with keep=all, as in
\* docs/configuration/prune.rst: 1x2t(keep=all) | 1x2t | 2x3t | 1x5t.
Sieve ==
    <<Interval(2, KeepAll), Interval(2, 1), Interval(3, 1), Interval(3, 1), Interval(5, 1)>>
=============================================================================

----------------------------- MODULE Retention -----------------------------
(***************************************************************************)
(* The retention grid over time: snapshots are taken, grow older, and are  *)
(* pruned again and again by one grid rule.  Time advances in ticks; a     *)
(* snapshot is its age.                                                    *)
(***************************************************************************)
EXTENDS KeepRules

CONSTANTS Grid,     \* the intervals of the rule, as configured
          MaxGap    \* bound: ticks between two snapshots

ASSUME RetentionAssumption ==
    /\ Grid # <<>> /\ MaxGap \in Nat \ {0}
    /\ \A i \in DOMAIN Grid : Grid[i].length \in Nat \ {0} /\ Grid[i].keep \in {KeepAll} \cup (Nat \ {0})

VARIABLES ages,     \* the snapshots
          elapsed   \* the age of the first snapshot ever taken, -1: none yet

vars == <<ages, elapsed>>

\* The older edge of bucket i, seen from the youngest snapshot.
Reach(i) == -Edges(0, Grid)[i]
Span == Reach(Len(Grid))

\* bound: snapshots that are older than every bucket need no exact age.
Old == Span + MaxGap
Age(a) == IF a < Old THEN a + 1 ELSE Old

Entry(a) == [txg |-> Old - a, name |-> Old - a, date |-> Old - a, replicated |-> TRUE]
Entries(A) == {Entry(a) : a \in A}
Pruned(A) ==
    LET rule == [kind |-> "grid", grid |-> Grid, names |-> 0..Old]
        remove == PruneSnapshots(Entries(A), <<rule>>)
    IN  {a \in A : Entry(a) \notin remove}

Init == ages = {} /\ elapsed = -1

TakeSnapshot ==
    /\ ages' = ages \cup {0}
    /\ elapsed' = IF elapsed = -1 THEN 0 ELSE elapsed

\* Snapshots are taken at least every MaxGap ticks.
Tick ==
    /\ elapsed # -1 => \E a \in ages : a < MaxGap
    /\ ages' = {Age(a) : a \in ages}
    /\ elapsed' = IF elapsed = -1 THEN -1 ELSE Age(elapsed)

Prune == ages' = Pruned(ages) /\ UNCHANGED elapsed

Next == TakeSnapshot \/ Tick \/ Prune
Spec == Init /\ [][Next]_vars

-----------------------------------------------------------------------------
Young == CHOOSE a \in ages : \A b \in ages : a <= b
\* How much older than the youngest.
InDocBucket(a, i) == a - Young >= Reach(i - 1) /\ a - Young < Reach(i)

\* A prune keeps what docs/configuration/prune.rst says the grid keeps: of
\* each bucket, seen from the youngest snapshot, the `keep` oldest; a
\* snapshot on the edge of a bucket falls into the right one (FitEntries,
\* Contains, RemoveYoungerSnapsExceedingKeepCount).
AsDocumented ==
    LET keep == Pruned(ages)
    IN  \A a \in ages :
            a \in keep <=>
                \E i \in DOMAIN Grid :
                    /\ InDocBucket(a, i)
                    /\ \/ Grid[i].keep = KeepAll
                       \/ Cardinality({b \in ages : InDocBucket(b, i) /\ b > a}) < Grid[i].keep

\* When the first interval keeps all, a second prune without new snapshots
\* destroys nothing: the buckets hang on the youngest snapshot, which the
\* first prune kept (FitEntries takes `now` from the entries).
Stable == Grid[1].keep = KeepAll => Pruned(Pruned(ages)) = Pruned(ages)

\* The sieve never loses history: once it is old enough, no three adjacent
\* buckets after the first are empty at once, whenever prunes happen.  (Two
\* may be: a bucket keeps its oldest snapshot only, so it is empty from the
\* moment that one grows out of it until the previous bucket lets one go.)
Covered ==
    \A i \in 2..(Len(Grid) - 2) :
        elapsed >= Reach(i + 2) + MaxGap =>
            \E a \in ages : Reach(i - 1) <= a /\ a < Reach(i + 2) + MaxGap
=============================================================================

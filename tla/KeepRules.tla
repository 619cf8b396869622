------------------------------ MODULE KeepRules ------------------------------
(***************************************************************************)
(* The keep rules of package pruning and the retention grid: which of a    *)
(* set of snapshots each rule would destroy.  A snapshot is a record with  *)
(* its createtxg, name, date and whether it is replicated; a regular       *)
(* expression is the set of names it matches, names are numbered in        *)
(* lexicographical order.                                                  *)
(***************************************************************************)
EXTENDS Integers, Sequences, FiniteSets

KeepAll == -1   \* RetentionGridKeepCountAll

\* The first n elements of S sorted by the strict order Before.
First(S, n, Before(_, _)) == {s \in S : Cardinality({t \in S : Before(t, s)}) < n}

-----------------------------------------------------------------------------
KeepNotReplicated(snaps) == {s \in snaps : s.replicated}

KeepRegex(snaps, names, negate) == {s \in snaps : (s.name \in names) = negate}

\* Youngest first, then names in descending order.
Later(s, t) == s.date > t.date \/ (s.date = t.date /\ s.name > t.name)

KeepLastN(snaps, n, names) ==
    LET matching == {s \in snaps : s.name \in names}
    IN  (snaps \ matching) \cup (matching \ First(matching, n, Later))

-----------------------------------------------------------------------------
(* The retention grid: a sequence of intervals [length, keep]. *)

\* The edges of the buckets: bucket i is (edge[i], edge[i-1]].
Edges(now, grid) ==
    LET edge[i \in 0..Len(grid)] == IF i = 0 THEN now ELSE edge[i - 1] - grid[i].length
    IN  edge

\* Mutant: the older edge belongs to the bucket.
BucketContainsBoth(edge, i, e) == edge[i] <= e.date /\ e.date <= edge[i - 1]

BucketContains(edge, i, e) == edge[i] < e.date /\ e.date <= edge[i - 1]

\* The order of a stable sort, youngest first, of entries listed by createtxg.
YoungestFirst(s, t) == s.date > t.date \/ (s.date = t.date /\ s.txg < t.txg)

\* Mutant: keep=all is not treated specially.
RemoveDespiteKeepAll(bucket, keep) ==
    First(bucket, Cardinality(bucket) - (IF keep = KeepAll THEN 1 ELSE keep), YoungestFirst)

\* Mutant: the oldest are removed.
RemoveOlder(bucket, keep) ==
    IF keep = KeepAll THEN {}
    ELSE bucket \ First(bucket, keep, YoungestFirst)

RemoveYoungerSnapsExceedingKeepCount(bucket, keep) ==
    IF keep = KeepAll THEN {}
    ELSE First(bucket, Cardinality(bucket) - keep, YoungestFirst)

\* FitEntries: what is removed.  `now` is the date of the youngest entry.
FitEntries(entries, grid) ==
    LET now == CHOOSE d \in {e.date : e \in entries} : \A e \in entries : e.date <= d
        edge == Edges(now, grid)
        bucket == [i \in 1..Len(grid) |-> {e \in entries : BucketContains(edge, i, e)}]
    IN  {e \in entries : \A i \in 1..Len(grid) : e \notin bucket[i]}
          \cup UNION {RemoveYoungerSnapsExceedingKeepCount(bucket[i], grid[i].keep) :
                        i \in 1..Len(grid)}

KeepGrid(snaps, grid, names) ==
    LET matching == {s \in snaps : s.name \in names}
    IN  (snaps \ matching) \cup (IF matching = {} THEN {} ELSE FitEntries(matching, grid))

-----------------------------------------------------------------------------
\* KeepRule: what rule r destroys.
Destroys(r, snaps) ==
    CASE r.kind = "not_replicated" -> KeepNotReplicated(snaps)
      [] r.kind = "regex"          -> KeepRegex(snaps, r.names, r.negate)
      [] r.kind = "last_n"         -> KeepLastN(snaps, r.n, r.names)
      [] r.kind = "grid"           -> KeepGrid(snaps, r.grid, r.names)

\* A snapshot is removed when every rule lists it.
PruneSnapshots(snaps, rules) ==
    LET ruleRems == [i \in DOMAIN rules |-> Destroys(rules[i], snaps)]
    IN  IF rules = <<>> THEN {}
        ELSE {s \in snaps : Cardinality({i \in DOMAIN rules : s \in ruleRems[i]}) = Len(rules)}
=============================================================================

CONSTANTS
    a = a
    b = b
    Fss = {a, b}
    Ancestors <- Pair
    Concurrency = 1
    MaxAttempts = 2
    MaxSnap = 2
SPECIFICATION FairSpec
INVARIANTS TypeOK AncestorsFirst DoneMeansExecuted
PROPERTY RunEnds

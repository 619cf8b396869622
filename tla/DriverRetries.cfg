CONSTANTS
    a = a
    b = b
    Fss = {a}
    Ancestors <- Pair
    Concurrency = 1
    MaxAttempts = 3
    MaxSnap = 4
SPECIFICATION Spec
INVARIANT RetryWithinPlan

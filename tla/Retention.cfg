SPECIFICATION Spec
CONSTANTS
    Grid <- Sieve
    MaxGap = 1
INVARIANTS AsDocumented Stable Covered

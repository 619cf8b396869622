CONSTANTS
    MaxSnap = 3
    Confs <- IncrementalOnly
    InitialRepl = "most_recent"
    StartFS = "absent"
    HoldWindow = TRUE
SPECIFICATION Spec
INVARIANT IncrementalPossible

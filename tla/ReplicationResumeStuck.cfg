CONSTANTS
    MaxSnap = 2
    Confs <- IncrementalOnly
    InitialRepl = "most_recent"
    StartFS = "absent"
    HoldWindow = FALSE
SPECIFICATION FairSpec
PROPERTY CatchesUp

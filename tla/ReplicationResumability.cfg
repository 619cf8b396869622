CONSTANTS
    MaxSnap = 3
    Confs <- ResumabilityOnly
    InitialRepl = "most_recent"
    StartFS = "absent"
    HoldWindow = FALSE
SPECIFICATION FairSpec
INVARIANTS IncrementalPossible Resumable
PROPERTY CatchesUp

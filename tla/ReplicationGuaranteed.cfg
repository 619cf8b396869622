CONSTANTS
    MaxSnap = 3
    Confs <- Guaranteed
    InitialRepl = "all"
    StartFS = "placeholder"
    HoldWindow = FALSE
SPECIFICATION Spec
INVARIANTS TypeOK NoPanic IncrementalPossible CursorIsReplicated
PROPERTY NoRegression

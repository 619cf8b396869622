SPECIFICATION FairSpec
CONSTANTS
    Fss = {1, 2, 3}
    Placeholders = {}
    SenderFss = {1, 2}
    Rules <- NotReplicatedOrLast
    ConsiderSnapAtCursorReplicated = TRUE
    MaxSnap <- Sizes
    MaxAttempts = 1
INVARIANTS TypeOK DoneMeansGone
PROPERTIES DestroysOnlyReplicated PruneEnds
CHECK_DEADLOCK FALSE

SPECIFICATION FairSpec
CONSTANTS
    Work <- Batches
    MaxConcurrent = 2
    Contents = {1, 2}
    Reverts = FALSE
    MaxLevel = 1
    MaxScans = 2
    MayCancel = TRUE
    MayFail = {"limit", "other", "crash"}
CHECK_DEADLOCK FALSE
INVARIANTS CheckpointSound PublishedSound
PROPERTIES ScanEnds

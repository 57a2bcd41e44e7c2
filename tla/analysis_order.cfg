SPECIFICATION Spec
CONSTANTS
    Work <- Mixed
    MaxConcurrent = 2
    Contents = {1}
    Reverts = FALSE
    MaxLevel = 1
    MaxScans = 1
    MayCancel = TRUE
    MayFail = {"limit", "reject", "store"}
CHECK_DEADLOCK FALSE
INVARIANTS NoUnitLost StageOrder PublishedSound FailuresMatch

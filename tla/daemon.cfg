SPECIFICATION Spec
CONSTANTS
    Paths = {1, 2, 3}
    Ignored = {}
    ConfigPath = 3
    Edited = {1, 2}
    Edits = {"modify", "rename", "overflow", "touch"}
    Backends = {"any"}
    MaxEdits = 2
    MaxFailures = 1
    MayStop = TRUE
    MayLoseWatcher = TRUE
INVARIANTS StaleIsPending
PROPERTIES StopsEventually CatchesUp

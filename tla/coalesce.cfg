SPECIFICATION BurstSpec
CONSTANTS
    Paths = {1, 2, 3, 4}
    Ignored = {3}
    ConfigPath = 4
    Edited = {1, 2, 3, 4}
    Edits = {"create", "modify", "delete", "rename", "overwrite", "overflow"}
    Backends = {"split", "any", "tracked", "inotify"}
    MaxEdits = 3
INVARIANTS CoveredUnlessReused
CHECK_DEADLOCK FALSE

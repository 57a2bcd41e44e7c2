SPECIFICATION Spec
CONSTANTS
    Phases = {"load", "walk"}
    MaxPhases = 1
    MaxItems = 2
    StderrLines = 3
    Budget = 2
CHECK_DEADLOCK FALSE
INVARIANTS CauseKept OkIsWhole
PROPERTIES Settles

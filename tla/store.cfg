SPECIFICATION Spec
CONSTANTS
    Scans = {s1, s2}
    Contents = {c1, c2}
    Builds = {b1}
    SafeBases = {TRUE, FALSE}
    Sessions = {r1}
    Ops = {o1, o2}
    Direct = TRUE
    Cached = TRUE
    MaxCrashes = 2
    NoOne = NoOne
SYMMETRY Symmetry
INVARIANTS StoreTypeOK OwnershipConsistent DecidedStageKept EvidenceRetained CurrentOfScan
PROPERTY NewerKept
CHECK_DEADLOCK FALSE

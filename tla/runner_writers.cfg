SPECIFICATION Spec
CONSTANTS
    o1 = o1  o2 = o2  k1 = k1  k2 = k2  i1 = i1  r1 = r1  r2 = r2
    Ops = {o1, o2}
    Keys = {k1, k2}
    Inputs = {i1}
    Tokens = {r1, r2}
    NoToken = NoToken
    NoOp = NoOp
    NoRunner = NoRunner
    SubmitKinds = {"scan_submit"}
    Grants <- StoreGrants
    Lifetimes = {}
    TerminalRetention = 1
    TombstoneRetention = 1
    MaxTtl = 3
    UnboundedDeadline = 50
    UnboundedScans = TRUE
    LeaseDuration = 1
    RenewalMargin = 1
    Totals = {1}
    PurgeBatch = 1
    FreeLaunch = FALSE
    DaemonStarts = TRUE
    MaxCrashes = 1
    MaxTime = 2
SYMMETRY Symmetry
INVARIANTS SingleLiveWriter
CHECK_DEADLOCK FALSE

SPECIFICATION FairSpec
CONSTANTS
    o1 = o1  o2 = o2  k1 = k1  k2 = k2  i1 = i1  r1 = r1  r2 = r2
    Ops = {o1}
    Keys = {k1}
    Inputs = {i1}
    Tokens = {r1, r2}
    NoToken = NoToken
    NoOp = NoOp
    NoRunner = NoRunner
    SubmitKinds = {"scan_submit", "resolve_build_submit"}
    Grants <- ControlGrants
    Lifetimes = {2}
    TerminalRetention = 1
    TombstoneRetention = 1
    MaxTtl = 3
    UnboundedDeadline = 50
    UnboundedScans = FALSE
    LeaseDuration = 1
    RenewalMargin = 1
    Totals = {1}
    PurgeBatch = 1
    FreeLaunch = TRUE
    DaemonStarts = TRUE
    MaxCrashes = 1
    MaxTime = 2
INVARIANTS AtMostOnceExec
PROPERTIES EventuallySettled ImplementsLifecycle
CHECK_DEADLOCK FALSE

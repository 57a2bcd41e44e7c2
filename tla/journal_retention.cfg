SPECIFICATION JournalSpec
CONSTANTS
    o1 = o1  o2 = o2  k1 = k1  k2 = k2  i1 = i1  t1 = t1  t2 = t2
    Ops = {o1, o2}
    Keys = {k1}
    Inputs = {i1}
    Tokens = {t1}
    NoToken = NoToken
    SubmitKinds = {"scan_submit", "resolve_build_submit"}
    Grants <- MixedGrants
    Lifetimes = {0, 1}
    TerminalRetention = 1
    TombstoneRetention = 1
    MaxTtl = 3
    UnboundedDeadline = 50
    UnboundedScans = TRUE
    LeaseDuration = 1
    Totals = {2}
    PurgeBatch = 1
    MaxTime = 3
SYMMETRY Symmetry
INVARIANTS TypeOK RowsDecodable OneRecordPerScope
PROPERTIES IdempotencyWindow TerminalRecordsFrozen LegalHistory
CHECK_DEADLOCK FALSE

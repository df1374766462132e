SPECIFICATION FairSpec
CONSTANTS
    srv = srv  dbg = dbg  cmd = cmd
    r1 = r1  r2 = r2
    a1 = a1  e1 = e1
    Gateway = {srv}
    Command = {}
    Call = {r1, r2}
    AuthFailure = {a1}
    KeyEvent = {}
    RawRetention = 1
    SumRetention = 2
    MaxLate = 1
    MaxDay = 3
    MaxFaults = 1
    MaxCrashes = 1
INVARIANTS TypeOK RetentionHolds
PROPERTIES LoggerHeals
CHECK_DEADLOCK FALSE

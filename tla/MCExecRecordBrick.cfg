SPECIFICATION FairSpec
CONSTANTS
    srv = srv  dbg = dbg  cmd = cmd
    r1 = r1  r2 = r2
    a1 = a1  e1 = e1
    Gateway = {srv}
    Command = {cmd}
    Call = {r1}
    AuthFailure = {}
    KeyEvent = {e1}
    RawRetention = 1
    SumRetention = 3
    MaxLate = 0
    MaxDay = 2
    MaxFaults = 0
    MaxCrashes = 0
PROPERTIES LoggerHeals
CHECK_DEADLOCK FALSE

SPECIFICATION Spec
CONSTANTS
    srv = srv  dbg = dbg  cmd = cmd
    r1 = r1  r2 = r2
    a1 = a1  e1 = e1
    Gateway = {srv, dbg}
    Command = {}
    Call = {r1, r2}
    AuthFailure = {a1}
    KeyEvent = {}
    RawRetention = 3
    SumRetention = 5
    MaxLate = 1
    MaxDay = 4
    MaxFaults = 0
    MaxCrashes = 0
INVARIANTS RecordsSurvive SummaryKeyIsSound
CHECK_DEADLOCK FALSE
SYMMETRY Symmetry

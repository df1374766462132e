SPECIFICATION MCSpec
CONSTANTS
    k1 = k1  k2 = k2  k3 = k3
    u1 = u1  u2 = u2
    t1 = t1  t2 = t2
    c1 = c1  c2 = c2
    Key <- OneKey
    User <- OneUser
    Table <- TwoTables
    Grant <- BothGrants
    Owner <- OneOwner
    Call = {c1}
    PerKey = 1
    Total = 1
    MaxVersion = 2
    MaxFaults = 1
    MaxCrashes = 1
    Sqls <- Inputs
    MaxDepth = 3
    Resolve <- Meanings
    Allowed <- Granted
INVARIANTS QueryWasGranted WalkTypeOK VerdictIsRight
PROPERTIES CallsEnd
CHECK_DEADLOCK FALSE

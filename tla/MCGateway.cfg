SPECIFICATION Spec
CONSTANTS
    k1 = k1  k2 = k2  k3 = k3
    u1 = u1  u2 = u2
    t1 = t1  t2 = t2
    c1 = c1  c2 = c2
    Key <- Keys
    User <- Users
    Table <- Tables
    Grant <- Grants
    Owner <- OwnerOf
    Call <- Calls
    PerKey = 1
    Total = 1
    MaxVersion = 1
    MaxFaults = 1
    MaxCrashes = 1
SYMMETRY Symmetry
CONSTRAINT OneKeyWrites
INVARIANTS TypeOK SlotsAccounted RecordsAreTrue RevokedKeyRefused
CHECK_DEADLOCK FALSE

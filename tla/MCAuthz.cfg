\* Two grants, one wildcard, one grants-apply process beside grant-add and
\* grant-remove, two permission writes, two failed reads and one crash, in any
\* order with the polling loop.
CONSTANTS
    g1 = g1
    g2 = g2
    w1 = w1
    a1 = a1
    Grant <- Grants
    Pattern <- Patterns
    Apply <- OneApply
    MaxRevision = 2
    MaxFaults = 2
    MaxCrashes = 1
SPECIFICATION FairSpec
INVARIANTS TypeOK NoStuckSnapshot ReportsAreTrue
PROPERTIES ImplementsView CatchesUp

SPECIFICATION MCSpec
CONSTANTS
    Statement <- AllStatements
    Empty = ""
    Truncated <- Cut
    PgLike <- Pgs
    MaxStatements = 6
    MaxUnseen = 1
INVARIANTS TypeOK DraftIsReplayed DriftIsReported
CHECK_DEADLOCK FALSE

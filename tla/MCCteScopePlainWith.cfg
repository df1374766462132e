SPECIFICATION WalkSpec
CONSTANTS
    Sqls <- Inputs
    MaxDepth = 3
    Resolve <- Meanings
    Allowed <- Granted
CHECK_DEADLOCK FALSE
INVARIANT AcceptedReadsAreGranted

\* Two overlapping commands, three directories that compile and five that do not.
CONSTANTS
    p1 = p1
    p2 = p2
    Process <- Processes
    Directory <- Directories
SPECIFICATION Spec
INVARIANTS TypeOK IndexIsActive ClosedWhenSettled RerunFindsOnlyDoubles
PROPERTY AloneMeansTarget
SYMMETRY Symmetry

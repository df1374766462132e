SPECIFICATION MCSpec
CONSTANTS
    a = a  b = b  Stranger = Stranger
    Service = {a, b}
    Element = {"col", "edge", "twice"}
    Edge = {"edge"}
    Model <- Models
    Structure <- Structures
    Uncompilable = {"twice"}
    Words = {"said"}
    NoWords = ""
    Broken = Broken
    NoType = ""
    MaxEdits = 5
    MaxScans = 4
    MaxFaults = 2
INVARIANTS TypeOK WordsKept TimeIsConfirmed
PROPERTIES UntouchedStays CleanExitMeansCurrent
SYMMETRY Symmetry
CHECK_DEADLOCK FALSE

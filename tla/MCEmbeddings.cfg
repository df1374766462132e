\* Two entities of two texts, two models, errors and crashes anywhere.
CONSTANTS
    f1 = f1
    f2 = f2
    t1 = t1
    t2 = t2
    small = small
    large = large
    Fqn = {f1, f2}
    Text = {t1, t2}
    Model = {small, large}
    Dim <- Dims
    DefaultDim = 1
SPECIFICATION Spec
INVARIANTS TypeOK IndexIsTrue IndexIsWhole
SYMMETRY Symmetry

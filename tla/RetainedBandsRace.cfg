SPECIFICATION Spec
CONSTANTS
    Bands = {lower, top}
    Pictures = {p, q}
    Black = black
    Unknown = unknown
    Period = 3
    MaxGrabs = 4
    MaxMishaps = 0
SYMMETRY PictureSymmetry
INVARIANT CompanionBasis
CHECK_DEADLOCK FALSE

SPECIFICATION Spec
CONSTANTS
    Bands = {lower, top}
    Pictures = {p, q}
    Black = black
    Unknown = unknown
    Period = 2
    MaxGrabs = 3
    MaxMishaps = 1
INVARIANTS BasisInStep CompanionBasisUnlessRaced SettledShowsFramebuffer
SYMMETRY PictureSymmetry
CHECK_DEADLOCK FALSE

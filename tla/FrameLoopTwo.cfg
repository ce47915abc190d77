SPECIFICATION Spec
CONSTANTS
    Streams = {s1, s2}
    Pictures = {p, q}
    Black = black
    Unknown = unknown
    NoBuffer = nobuffer
    IndexMod = 4
    MaxChanges = 0
    MaxToggles = 1
    MaxFaults = 1
INVARIANTS IndexesInOrder NothingForgotten
SYMMETRY Symmetry

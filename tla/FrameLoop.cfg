SPECIFICATION FairSpec
CONSTANTS
    Streams = {s1}
    Pictures = {p, q}
    Black = black
    Unknown = unknown
    NoBuffer = nobuffer
    IndexMod = 4
    MaxChanges = 1
    MaxToggles = 2
    MaxFaults = 1
PROPERTIES
    PanelsConverge

SPECIFICATION MCSpec
CONSTANTS
    Asked = {0, 70, 75, 120}
    Streams = {1, 2}
    TargetFps = 10
    TargetWire = 100
    Second = 100
    MaxPressure = 5
    Measures <- MCMeasures
    IndexMod = 10
    Window = 1
    LowSeq = 5
    HighSeq = 7
    MaxCarried = 2
    MaxLost = 2
INVARIANTS GateRemembers
PROPERTIES GateIsSound NoFalseAlarm QualityMovesForAReason QualityFindsItsEnds

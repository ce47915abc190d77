SPECIFICATION FairSpec
CONSTANTS
    Script <- MCScript
    Tries = 2
    MaxFaults = 4
INVARIANTS ResourcesInOrder StreamsInWholeSession ModesAcceptedUnlessMisread
PROPERTIES SessionsRecover SignalEndsProgram

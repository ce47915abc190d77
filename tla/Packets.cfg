SPECIFICATION MCSpec
CONSTANTS
    Items = {x, y}
    Cap = 3
    JpegCap = 1000
    Sizes = {0, 1, 464, 511, 512, 513, 1000, 1024, 22000}
    Places = {0, 47, 48, 511, 512, 559, 560, 561, 1071, 1072, 21039, 21040, 21551, 21552, 21553, 21600}
    Lengths = 5
    Symbols = 8
    Streams <- Two
    Main = 2
    QueueCap = 2
    MaxChanges = 5
    MaxRecoveries = 1
    MaxFaults = 1
INVARIANTS PacketIsItsOwn LengthsFit DecodesEveryCode
PROPERTIES IsFifo PowerFollows
CHECK_DEADLOCK FALSE

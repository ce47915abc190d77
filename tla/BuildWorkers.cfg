SPECIFICATION FairSpec
CONSTANTS
    Streams <- MCStreams
    MaxBuilds = 3
    MaxFaults = 2
INVARIANTS QueuedPacketIntact NothingFreedInUse
PROPERTIES ShutdownCompletes
CHECK_DEADLOCK FALSE

SPECIFICATION Spec
CONSTANTS
    arrow = arrow
    beam = beam
    Streams <- MCStreams
    Image <- MCImage
    CacheMax = 1
    Rewind = 1
    QueueCap = 2
    Budgets <- MCBudgets
INVARIANTS CacheMirrorsDevice SettledShowsAsked RecordsInStep
PROPERTIES PacketsLeftAlone UploadsAndStopEnd

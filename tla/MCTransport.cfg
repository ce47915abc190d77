\* Two slots per ring: full rings, refused and dropped items all occur.
CONSTANTS
    command = command
    tile = tile
    image = image
    heartbeat = heartbeat
    power = power
    NoCaller = NoCaller
    SyncCallers = {command}
    AsyncCallers = {tile, image}
    PostCallers = {heartbeat, power}
    Unfenced = {power}
    PrioCount = 4
    PrioOf <- MCPrioOf
    Cap = 2
SPECIFICATION FairSpec
INVARIANTS ResultAccounting
PROPERTIES IsTxService TransfersReturn StopReturns

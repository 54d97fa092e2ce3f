CONSTANTS
    Keys = {BTC, ETH}
    BTC = BTC
    ETH = ETH
    Choices = {"none", "open", "close", "roll", "quote"}
    Indexes = {1, 2}
    Plans <- MCPlans
    Modes = {"paper", "live"}
    SwitchModes = TRUE
    NoVenue = {ETH}
    Bittensor = {BTC}
    PerpWired = FALSE
    MaxConcurrentPositions = 1
    StoreFaults = TRUE
    MaxTicks = 2
    MaxStops = 1
SPECIFICATION Spec
INVARIANTS TypeOK
PROPERTIES CapRespected BookKept
CHECK_DEADLOCK FALSE

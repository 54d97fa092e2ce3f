CONSTANTS
    Keys = {BTC}
    BTC = BTC
    ETH = ETH
    Choices = {"none", "open", "close"}
    Indexes = {1, 2}
    Plans <- MCPlans
    Modes = {"live"}
    SwitchModes = FALSE
    NoVenue = {}
    Bittensor = {}
    PerpWired = TRUE
    MaxConcurrentPositions = 1
    StoreFaults = FALSE
    MaxTicks = 1
    MaxStops = 0
SPECIFICATION Spec
PROPERTIES SpotFirst
CHECK_DEADLOCK FALSE

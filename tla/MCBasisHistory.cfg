CONSTANTS
    Keys = {BTC}
    BTC = BTC
    ETH = ETH
    Choices = {"close", "split"}
    Indexes = {1, 2}
    Plans <- MCPlans
    Modes = {"paper", "live"}
    SwitchModes = FALSE
    NoVenue = {}
    Bittensor = {}
    PerpWired = TRUE
    MaxConcurrentPositions = 1
    StoreFaults = TRUE
    MaxTicks = 3
    MaxStops = 2
SPECIFICATION Spec
INVARIANTS DriftIsConfined EveryPositionIsBacked
PROPERTIES PaperSendsNothing
CHECK_DEADLOCK FALSE

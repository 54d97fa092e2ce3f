CONSTANTS
    basis1 = basis1
    taobot = taobot
    dca = dca
    Agents = {basis1, taobot}
    Live = {basis1}
    Broken <- MCBroken
    Unwired <- MCUnwired
    Foreground = {basis1}
    LiquidateSpot = TRUE
    Faults = {"read", "write", "trip", "process"}
    MaxCommands = 3
    MaxBoots = 2
SPECIFICATION Spec
INVARIANTS TypeOK HaltHoldsOutsideLoad CalmTripCleansUp
CHECK_DEADLOCK FALSE

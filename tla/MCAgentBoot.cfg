CONSTANTS
    basis1 = basis1
    taobot = taobot
    dca = dca
    Agents = {basis1, taobot, dca}
    Live = {}
    Broken <- MCBroken
    Unwired <- MCUnwired
    Foreground = {basis1}
    LiquidateSpot = TRUE
    Faults = {"write", "trip", "process"}
    MaxCommands = 2
    MaxBoots = 2
SPECIFICATION Spec
PROPERTIES BadAgentsDoNotStopTheRest CancelledLoopsEnd
CHECK_DEADLOCK FALSE

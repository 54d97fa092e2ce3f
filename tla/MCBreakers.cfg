SPECIFICATION MCSpec
CONSTANTS
    c1 = c1
    c2 = c2
    a1 = a1
    a2 = a2
    Commands = {}
    Amounts = {}
    Values = {}
    Funded = {}
    Weights = {}
    MaxTime = 0
    MaxEntries = 0
    Agents = {A1}
    Underlyings = {W, X}
    Sizes = {400}
    Prices = {4}
    Premiums = {0, 1}
    Discounts = {0}
    Losses = {1}
    Unit = 10
    Limit <- MCDailyLimit
    MaxOpens = 1
    MaxTicks = 3
    MaxEvents = 1
PROPERTIES BreakersHalt
CHECK_DEADLOCK FALSE

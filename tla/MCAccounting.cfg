SPECIFICATION MCSpec
CONSTANTS
    c1 = c1
    c2 = c2
    a1 = a1
    a2 = a2
    Commands <- TwoCommands
    Amounts = {0, 3}
    Values <- SomeValues
    Funded <- TwoAgents
    Weights = {0, 1, 3}
    MaxTime = 3
    MaxEntries = 1
    Agents = {A1, A2}
    Underlyings = {W, X}
    Sizes = {400}
    Prices = {4, 5}
    Premiums = {0, 1}
    Discounts = {0}
    Losses = {1, 400, 401}
    Unit = 10
    Limit <- MCLimit
    MaxOpens = 2
    MaxTicks = 2
    MaxEvents = 2
SYMMETRY Symmetry
INVARIANTS SerialHistory MarkIsPeak AllocationConserves
           ExposureOvershootIsBounded SnapshotIsPriceNeutral CleanMeansHedged BookedLegsAreClean
CHECK_DEADLOCK FALSE

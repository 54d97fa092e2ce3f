SPECIFICATION Spec
CONSTANTS
    n1 = n1
    n2 = n2
    Absent = Absent
    Bad = Bad
    Kinds <- AllKinds
    RawConfigs <- Configs
    Subnets <- TwoSubnets
    Asset = n1
    Prices = {2, 3}
    Scale = 6
    SpreadBps = 25
    ExitBps = 200
    MaxTicks = 4
    MaxRestarts = 1
    MaxFailures = 1
INVARIANTS BeliefDriftIsConfined HoldingsAreBounded CadenceBoundsTrading
CHECK_DEADLOCK FALSE

CONSTANTS
    taobot = taobot
    noise = noise
    boot1 = boot1
    Agents = {taobot}
    Enabled = {taobot}
    Noise = {noise}
    Bootstraps = {boot1}
    Count = 1
    Amounts <- MCAmounts
    NoiseAmounts = {1}
    Netuids = {1}
    MaxU64 = 2
    MaxPolls = 2
    MaxCalls <- MCCalls
    MaxSubnets = 4
SPECIFICATION MCSpec
INVARIANTS NothingWaitsBehindAGap ReportsMatchThePool NeverMoreThanAsked UndisturbedStartsItsOwn
PROPERTIES CallsReturn
CHECK_DEADLOCK FALSE

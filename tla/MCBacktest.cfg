SPECIFICATION ReplaySpec
CONSTANTS
    Symbols = {"A", "B"}
    Files <- MCFiles
    Notionals = {0, 4, 8}
    Step = 2
    StartingNAV = 20
    DefaultNAV = 100
    FeeBps = 1
    Gas = 1
    PerFee = 4
    MaxCloses = 1
    MaxOpens = 2
INVARIANTS NAVIsExplained EachTickCountsOnce DrawdownIsLargestDecline
CHECK_DEADLOCK FALSE

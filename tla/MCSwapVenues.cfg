SPECIFICATION FairSpec
CONSTANTS
    e1 = e1
    e2 = e2
    s1 = s1
    owner = owner
    USDC = USDC
    EvmCallers <- TwoEvm
    SolanaCallers <- OneSol
    Owner = owner
    Tokens <- OneToken
    Preapproved <- None
    MaxCalls = 2
    MaxRevokes = 1
INVARIANTS
    TypeOK
    SwapsFollowApproval
    OwnNoncesDistinct
PROPERTIES
    PromiseKept
    CallsReturn

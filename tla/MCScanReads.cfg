SPECIFICATION Spec
CONSTANTS
    me = me
    other = other
    eth = eth
    ethPadded = ethPadded
    poly = poly
    one = one
    blank = blank
    None = None
    Ids = {1, 2, 3, 4}
    Owner <- MCOwner
    Me = me
    Times = {1, 2}
    Lists = {"wallets", "chain", "tls", "policies"}
    AskedLimits = {0, 1, 5}
    DefaultLimit = 2
    MaxLimit = 3
    StopByTotal = FALSE
    NetSets <- MCNetSets
    ChainOf <- MCChainOf
    NumberOf <- MCNumberOf
    Trimmed <- MCTrimmed
    Chain = 1
    MaxWrites = 4
INVARIANTS TypeOK WalkComplete UsageCovers ObservedChainsListed
PROPERTIES LatestForward

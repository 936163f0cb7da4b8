SPECIFICATION GatewayFairSpec
CONSTANTS
    Batches = {b1}
    Instructions = {i1}
    Deposits <- ThreeTransfers
    AmountOf <- TwoTwoThree
    WalletOf <- AllFromTreasury
    Notes = {5}
    Typed = {2}
    Wallets <- TreasuryOnly
    Trusted <- TreasuryOnly
    Totals <- Three
    Workers = {w1}
    MayFail = FALSE
    Nobody = Nobody
    Window = 2
    Blanks <- Fourth
    MaxFaults = 2
INVARIANTS
    GatewayTypeOK
    AtRestConsistent
PROPERTIES
    DepositsReconciled
    RecordedInTime
    RescanCatchesUp

SPECIFICATION FairSpec
CONSTANTS
    Batches = {b1}
    Instructions = {i1}
    Deposits <- TwoTransfers
    AmountOf <- TwoPayTwo
    WalletOf <- TwoFromTreasury
    Notes = {}
    Typed = {2}
    Wallets <- TreasuryOnly
    Trusted <- TreasuryOnly
    Totals <- Three
    Workers = {w1, w2}
    MayFail = FALSE
    Nobody = Nobody
PROPERTY CreditedReconciled

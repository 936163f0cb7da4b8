SPECIFICATION Spec
CONSTANTS
    Batches = {b1}
    Instructions = {i1}
    Deposits <- TwoTransfers
    AmountOf <- TwoPayTwo
    WalletOf <- SecondFromOther
    Notes = {}
    Typed = {1}
    Wallets <- TwoWallets
    Trusted <- TreasuryOnly
    Totals <- Three
    Workers = {w1, w2}
    MayFail = TRUE
    Nobody = Nobody
INVARIANTS
    TypeOK
    DecisionIsBacked
    ReconciledIsBacked
    CreditedOnce
    LedgerNotOverstated
PROPERTY KeepsPromise
SYMMETRY Alike

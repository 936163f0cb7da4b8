SPECIFICATION PlatformSpec
CONSTANTS
    Batches <- OneBatch
    Payouts <- OnePayout
    Beneficiaries <- Ana
    BatchOf <- InB1
    BeneficiaryOf <- ToAna
    CountryOf <- AnaMexican
    Amounts <- OkOrReview
    Approvals = {"approved"}
    Refused = {}
    Seeded <- Ana
    Events = {e1}
    MaxDispatches = 1
    Instructions = {i1}
    Deposits <- OneTransfer
    AmountOf <- Short
    WalletOf <- FromTreasury
    Notes = {2}
    Typed <- TheRest
    Wallets <- TreasuryOnly
    Trusted <- TreasuryOnly
    Totals <- AnyTotal
    Workers = {w1}
    MayFail = TRUE
    Nobody = Nobody
INVARIANT PaidFromFunding
PROPERTY PaymentsSurvive

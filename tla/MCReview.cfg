SPECIFICATION Spec
CONSTANTS
    Batches <- OneBatch
    Payouts <- TwoPayouts
    Beneficiaries <- AnaAndLuis
    BatchOf <- BothInB1
    BeneficiaryOf <- AnaThenLuis
    CountryOf <- BothMexican
    Amounts <- OkOrReview
    Approvals = {"pending", "approved"}
    Refused <- Luis
    Seeded <- Luis
    Events = {e1}
    MaxDispatches = 1
INVARIANTS
    TypeOK
    BatchStatusSound
    InReviewHasOpenCase
    QuoteMatchesApproved
    PaidHasReason

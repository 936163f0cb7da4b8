SPECIFICATION Spec
CONSTANTS
    Batches <- OneBatch
    Payouts <- TwoPayouts
    Beneficiaries <- AnaAndLuis
    BatchOf <- BothInB1
    BeneficiaryOf <- AnaThenLuis
    CountryOf <- BothMexican
    Amounts <- OkOrLow
    Approvals = {"pending", "approved"}
    Refused <- Luis
    Seeded <- Luis
    Events = {}
    MaxDispatches = 2
PROPERTY PaidIsFinal

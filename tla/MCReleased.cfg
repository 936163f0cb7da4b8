SPECIFICATION DeskSpec
CONSTANTS
    Batches <- OneBatch
    Payouts <- TwoPayouts
    Beneficiaries <- AnaAndLuis
    BatchOf <- BothInB1
    BeneficiaryOf <- AnaThenLuis
    CountryOf <- AnaColombian
    Amounts <- Pesos
    Approvals = {"pending", "approved", "excluded"}
    Refused = {}
    Seeded <- AnaAndLuis
    Events = {}
    MaxDispatches = 1
    Project = "b1"
    Drafts <- LuisHighOrLow
    Typed = {}
    MaxHalves = 2
INVARIANTS
    ContinuesAfterReview
CHECK_DEADLOCK FALSE

SPECIFICATION DeskSpec
CONSTANTS
    Batches <- OneBatch
    Payouts <- TwoPayouts
    Beneficiaries <- AnaAndLuis
    BatchOf <- BothInB1
    BeneficiaryOf <- AnaThenLuis
    CountryOf <- AnaColombian
    Amounts <- Pesos
    Approvals = {"pending", "approved", "excluded"}
    Refused = {}
    Seeded <- AnaAndLuis
    Events = {e1}
    MaxDispatches = 2
    Project = "b1"
    Drafts <- TogetherOrApart
    Typed = {}
    MaxHalves = 4
INVARIANTS
    DeskTypeOK
    AdviceIsTrue
    ExecutionFollowsFunding
PROPERTIES
    PaidAgainOnlyIfDecided
CHECK_DEADLOCK FALSE

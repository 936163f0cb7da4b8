SPECIFICATION Spec
CONSTANT
    Foreign <- AnotherProject
INVARIANTS
    TypeOK
    NeverRefused
    FinishedIsComplete
    OthersUntouched
    NoOrphans

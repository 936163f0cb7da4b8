SPECIFICATION Spec
CONSTANTS
    Seeded <- OneColombian
    Markets = {"CO", "MX", "AR"}
    Blankable = {"bankName"}
    Patches <- NoBank
    TypedAmounts = {"within"}
    Imports <- Files
    InitialImport <- File
    MaxPeople = 2
    MaxProjects = 2
    MaxLines = 1
    MaxEdits = 1
INVARIANTS
    TypeOK
    ReadyForProjects
    NoForeignDetails
    DisabledWhileSubmitting
PROPERTIES
    TwiceOnlyIfInterrupted

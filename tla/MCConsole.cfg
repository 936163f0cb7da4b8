SPECIFICATION FairSpec
CONSTANTS
    Projects = {b1, b2}
    First = b1
    Calls = {c1, c2}
    MaxRev = 1
    MaxFailures = 1
    None = None
INVARIANTS
    TypeOK
    ShowsOwnWrites
    ReadyWhenQuiet
PROPERTY AddressIsShown

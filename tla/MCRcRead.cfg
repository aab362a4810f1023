CONSTANTS
    NRanks = 3
    Comms <- SomeComms
    Parts <- SomeParts
    Layouts <- SomeLayouts
    MaxOps = 6
    NEnts <- ThreeEnts
    Owners <- ThreeOwners
    Matches <- ThreeMatches
    TagValues = {1, 2}
SPECIFICATION Spec
INVARIANTS RcFieldsComeBack
CHECK_DEADLOCK FALSE

SPECIFICATION ViewSpec
CONSTANTS
    Rows = 3
    Cols = 4
    Maps <- FourMaps
    Modes <- AllModes
    InitialViewSize = 1
    MovesPerIncrease = 3
CHECK_DEADLOCK FALSE
INVARIANTS
    CellsShowActors
    GhostsApart
    ContactEndsGame
    PelletsConserved
    ViewIsTheBoard
    GrowthIsBounded
PROPERTIES
    TurnsBackInDeadEnds
    ExploredStaysShown

SPECIFICATION Spec
CONSTANTS
    FlightLists <- FlightChoice
    PayloadLists <- PayloadChoice
    Trackings <- SavedChoice
    MaxMoves = 2
CHECK_DEADLOCK FALSE
INVARIANTS
    TypeOK
    PointersAlive
    OneSelection
    SavedIsSelected
    CrashedOnlyLeaving
PROPERTIES
    SelectionKept
    CleanupEnds

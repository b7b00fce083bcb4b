SPECIFICATION Spec
CONSTANTS
    FlightLists <- FlightChoice
    PayloadLists <- PayloadChoice
    Trackings <- SavedChoice
    MaxMoves = 2
CHECK_DEADLOCK FALSE
INVARIANTS
    ExtractedAlive

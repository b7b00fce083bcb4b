SPECIFICATION Spec
CONSTANTS
    Modes = {"psk", "thor"}
    Rate <- RateOf
    ResetRate = 8000
    MaxModems = 2
    MaxOrders = 2
CHECK_DEADLOCK FALSE
INVARIANTS
    TypeOK
    CardsOpen
    KeyedInTransmission
    TableAlive
    ActiveAlive
    ClosedCleanly
PROPERTIES
    OrderIsTaken

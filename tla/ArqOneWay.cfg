SPECIFICATION Spec
CONSTANTS
    MaxCount = 6
    MaxHeaders = 3
    Retries = 2
    MaxText = 8
    Timely = TRUE
    SendsIn <- AWhenUp
    Budget <- OneConnect
    Unlimited = {"lose", "retry"}
    MaxAir = 6
CHECK_DEADLOCK FALSE
INVARIANTS
    TypeOK
    NoStalePending
    LossIsRepeated
PROPERTIES
    ImplementsTransfer

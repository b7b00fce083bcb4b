SPECIFICATION Spec
CONSTANTS
    MaxCount = 5
    MaxHeaders = 2
    Retries = 2
    MaxText = 3
    Timely = TRUE
    SendsIn <- AWhenUp
    Budget <- OneConnect
    Unlimited = {"lose", "retry"}
    MaxAir = 5
CHECK_DEADLOCK FALSE
INVARIANTS
    ZeroIsRepeated

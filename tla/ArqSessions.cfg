SPECIFICATION Spec
CONSTANTS
    MaxCount = 6
    MaxHeaders = 2
    Retries = 2
    MaxText = 2
    Timely = TRUE
    SendsIn <- AWhenUp
    Budget <- Sessions
    Unlimited = {"lose", "retry"}
    MaxAir = 5
CHECK_DEADLOCK FALSE
INVARIANTS
    NumbersFollow
PROPERTIES
    DownStartsNoBurst

SPECIFICATION Spec
CONSTANTS
    MaxCount = 6
    MaxHeaders = 2
    Retries = 2
    MaxText = 4
    Timely = TRUE
    SendsIn <- BothWhenUp
    Budget <- FewLosses
    Unlimited = {"retry"}
    MaxAir = 5
CHECK_DEADLOCK FALSE
INVARIANTS
    BurstFits
    EachTextOnce
    AsksForNext

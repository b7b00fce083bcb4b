SPECIFICATION FairSpec
CONSTANTS
    MaxCount = 6
    MaxHeaders = 1
    Retries = 2
    MaxText = 1
    Timely = FALSE
    SendsIn <- AWhenUp
    Budget <- TearDowns
    Unlimited = {"retry"}
    MaxAir = 3
CHECK_DEADLOCK FALSE
PROPERTIES
    NoEndlessWait

SPECIFICATION LoopSpec
CONSTANTS
    MaxCount = 6
    MaxHeaders = 3
    MaxPending = 5
    Reports <- SomeReports
    Queues <- SomeQueues
CHECK_DEADLOCK FALSE
INVARIANTS
    ReceivingAsLooped
    SendingAsLooped
PROPERTIES
    TurnsFall

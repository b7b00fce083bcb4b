SPECIFICATION Spec
CONSTANTS
    Threads = {"xmlrpc", "kiss", "trx"}
    Functor <- FunctorOf
    Capacity = 2
    Calls <- CallsOf
    Spurious = {"xmlrpc"}
CHECK_DEADLOCK FALSE
INVARIANTS
    TypeOK
    BytesMatchEntries
    SyncWaitsAlone
    SignalsSuffice
PROPERTIES
    SyncReturns
    CallsRun
    ImplementsCallQueue

SPECIFICATION FairSpec
CONSTANTS
    c1 = c1
    c2 = c2
    Client <- TwoClients
    Requests <- Pairs
    Results = {"HANDLED", "UNKNOWN"}
    TrackingDelay = 1
    MaxBreaks = 1
CHECK_DEADLOCK FALSE
INVARIANTS ResultIsTrue UnknownIsTrue HandledOnce
PROPERTIES ClientsEnd UnderstoodIsHandled

SPECIFICATION FairSpec
CONSTANTS
    c1 = c1
    c2 = c2
    c3 = c3
    d1 = d1
    d2 = d2
    t = t
    Nobody = Nobody
    Client <- TwoClients
    Daemon <- TwoDaemons
    Timer <- OneTimer
    Agenda <- TwoAgenda
    MaxTries = 2
    EmptyWait = 2
    MaxCrashes = 1
CHECK_DEADLOCK FALSE
INVARIANTS FiresOnce CommandTellsPassed
PROPERTIES CancelIsFinalAlone ClientsReturn StartedTimersEnd

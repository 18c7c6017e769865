SPECIFICATION Spec
CONSTANTS
    c1 = c1
    c2 = c2
    c3 = c3
    d1 = d1
    d2 = d2
    t = t
    Nobody = Nobody
    Client <- ThreeClients
    Daemon <- TwoDaemons
    Timer <- OneTimer
    Agenda <- ThreeAgenda
    MaxTries = 3
    EmptyWait = 2
    MaxCrashes = 0
CHECK_DEADLOCK FALSE
PROPERTIES CancelIsFinal

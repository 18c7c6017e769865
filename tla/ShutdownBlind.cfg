SPECIFICATION Spec
CONSTANTS
    p = p  s1 = s1  s2 = s2
    Host = {p, s1}
    Primary = p
    U = U
    HostSync = 1
    DeadTime = 1
    FinalDelay <- MCShortDelay
    Lingers = {}
    Faults = {"stale"}
    MaxFaults = 1
CHECK_DEADLOCK TRUE
PROPERTIES WaitsForSecondaries

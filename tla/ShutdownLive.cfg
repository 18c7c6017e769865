SPECIFICATION FairSpec
CONSTANTS
    p = p  s1 = s1  s2 = s2
    Host = {p, s1}
    Primary = p
    U = U
    HostSync = 1
    DeadTime = 1
    FinalDelay <- MCShortDelay
    Lingers = {s1}
    Faults = {"link", "primary_link", "login", "stale", "restart"}
    MaxFaults = 2
CHECK_DEADLOCK TRUE
PROPERTIES WaitsWhileItCanAsk NobodyHeldUp FsdBringsAllDown LowBatteryBringsAllDown

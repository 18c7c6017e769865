SPECIFICATION Spec
CONSTANTS
    p = p  s1 = s1  s2 = s2
    Host = {p, s1, s2}
    Primary = p
    U = U
    HostSync = 2
    DeadTime = 1
    FinalDelay <- MCFinalDelay
    Lingers = {s2}
    Faults = {"link", "login"}
    MaxFaults = 1
CHECK_DEADLOCK TRUE
INVARIANTS OrderlyShutdown

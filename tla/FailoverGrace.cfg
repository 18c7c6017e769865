SPECIFICATION Spec
CONSTANTS
    u1 = u1
    u2 = u2
    None = None
    ups_list <- TwoDrivers
    Says <- MCSays
    Orders <- MCOrders
    Confs <- GraceConfs
    arg_init_timeout = 1
    arg_dead_timeout = 1
    arg_noprimary_timeout = 1
    arg_maxconnfails = 0
    arg_coolofftimeout = 0
    AlarmPropagTime = 1
CHECK_DEADLOCK TRUE
INVARIANTS GraceIsGiven

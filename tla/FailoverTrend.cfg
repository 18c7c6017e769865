SPECIFICATION Spec
CONSTANTS
    u1 = u1
    u2 = u2
    None = None
    ups_list <- TwoDrivers
    Says <- MCSays
    Orders <- MCOrders
    Confs <- KeepingConfs
    arg_init_timeout = 1
    arg_dead_timeout = 1
    arg_noprimary_timeout = 0
    arg_maxconnfails = 0
    arg_coolofftimeout = 1
    AlarmPropagTime = 0
INVARIANTS StatusIsThePrimarys

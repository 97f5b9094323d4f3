\* Two clients that may be asked for anything, three services, one of which may be
\* killed, the files of a killed one, a deleted socket.
SPECIFICATION Spec
CONSTANTS
    d1 = d1
    d2 = d2
    d3 = d3
    c1 = c1
    c2 = c2
    None = None
    Daemons <- ThreeDaemons
    Clients <- TwoClients
    Ops = {"ensure", "start", "restart", "restart_hard", "reinstall", "shutdown", "shutdown_hard", "stop"}
    Stale = TRUE
    Crashes = 1
    Deletes = 1
    Ageing = TRUE
    Late = TRUE
SYMMETRY ProcessSymmetry
CHECK_DEADLOCK FALSE
INVARIANTS ServingIsReachable PidNamesHolder

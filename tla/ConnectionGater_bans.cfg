SPECIFICATION Spec
CONSTANTS
    Peers = {"p", "q"}
    AddrOf <- MCAddrOf
    Threads = {t1}
    Penalties <- MCPenalties
    MaxBanscore = 2
    BanDuration = 2
    Lifetime = 2
    MaxTime = 4
    MaxCalls = 2
PROPERTY BanLasts
CHECK_DEADLOCK FALSE

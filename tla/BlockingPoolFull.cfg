SPECIFICATION BusySpec
CONSTANTS
    RelayWorkers = {r1}
    BcryptWorkers = {}
    Callers = {c1, c2, c3}
    Producer = p
    Threads = 3
    RelayCap = 1
    BcryptCap = 1
    PoolCap = 1
PROPERTY GetReturns

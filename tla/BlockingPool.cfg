SPECIFICATION FairSpec
CONSTANTS
    RelayWorkers = {r1}
    BcryptWorkers = {b1}
    Callers = {c1, c2}
    Producer = p
    Threads = 5
    RelayCap = 1
    BcryptCap = 1
    PoolCap = 1
INVARIANT TypeOK
PROPERTIES GetReturns QueuesDrain

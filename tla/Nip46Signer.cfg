SPECIFICATION Spec
CONSTANTS
    Bunkers = {b1}
    Clients = {c1, c2}
    Requests = {r1, r2}
    ChannelSize = 1
    None = None
SYMMETRY Symmetry
INVARIANTS TypeOK NoLateUse NoUseAfterDeletion NoForeignUse RemovedStaysRemoved

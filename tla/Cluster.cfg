SPECIFICATION FairSpec
CONSTANTS
    Nodes = {1, 2}
    Keys = {0, 1}
    Ops = {}
    MaxFaults = 1
PROPERTY SyncedRingsAgree

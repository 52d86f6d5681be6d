SPECIFICATION FairSpec
CONSTANTS
    Nodes = {1, 2}
    Keys = {0, 1}
    Ops = {}
    MaxFaults = 0
PROPERTY EventuallyOneOwner

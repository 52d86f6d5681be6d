SPECIFICATION Spec
CONSTANTS
    Nodes = {1, 2}
    Keys = {0, 1}
    Ops = {"shutdown", "force_deregister", "refresh"}
    MaxFaults = 1
INVARIANT ShutdownIsFinal

CONSTANTS
    Nodes = {n1, n2}
    Ids = {i1}
    Legs <- MC_Legs
    Addrs <- MC_Addrs
    NoNode = NoNode
    NoAddr = NoAddr
    TIMEOUT = 0
    MaxTime = 2
    MaxDeliveries = 1
    MaxAdvances = 4

SPECIFICATION Spec
PROPERTY BindingStableAfterHold
CHECK_DEADLOCK FALSE

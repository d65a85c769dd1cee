CONSTANTS
    Nodes = {n1, n2}
    Ids = {i1}
    Legs <- MC_Legs
    Addrs <- MC_Addrs
    NoNode = NoNode
    NoAddr = NoAddr
    TIMEOUT = 0
    MaxTime = 2
    MaxDeliveries = 2
    MaxAdvances = 4

SPECIFICATION Spec
INVARIANTS TypeOK
CHECK_DEADLOCK FALSE

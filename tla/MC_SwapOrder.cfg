CONSTANTS
    Nodes = {n1, n2}
    Ids = {i1, i2}
    Legs <- MC_Legs
    Addrs <- MC_Addrs
    NoNode = NoNode
    NoAddr = NoAddr
    TIMEOUT = 0
    MaxTime = 3
    MaxDeliveries = 2
    MaxAdvances = 0

SPECIFICATION Spec
INVARIANT MatchOrderAgreed
\* Bounded clocks and deliveries: a behaviour may end once they are spent.
CHECK_DEADLOCK FALSE

CONSTANTS
    Nodes = {n1, n2}
    TIMEOUT = 1
    NoPacket = NoPacket

SPECIFICATION Spec
PROPERTY StalledSwapExpires

CONSTANTS
    Keys = {k1, k2}
    Labels <- MC_Labels
    BadSecret = BadSecret
    BadAddr = BadAddr
    ScriptAddr = ScriptAddr

SPECIFICATION Spec
PROPERTY ImportAllOrNothing

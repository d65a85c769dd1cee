CONSTANTS
    Hashes = {0, 1}
    NMax = 1
    Values <- MC_Values
    Scripts <- MC_Scripts
    EmptyScript = ""
    Versions = {1}
    LockTimes = {0}
    Times = {0, 1}
    MaxIns = 1
    MaxOuts = 2

SPECIFICATION Spec
INVARIANTS TypeOK OutPointStrictOrder SerializeRoundTrip

CONSTANTS
    INPUT_LEN = 2
    OUTPUT_LEN = 32
    MaxLen = 3

SPECIFICATION Spec
INVARIANT StackAccessInBounds
\* Each wrapper returns: a behaviour ends in pc = "done".
CHECK_DEADLOCK FALSE

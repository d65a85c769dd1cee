CONSTANTS
    Threads = {t1, t2}
    Penalty = 10

SPECIFICATION Spec
INVARIANT DoSCountsEveryCall
\* Every call of DoS returns: a behaviour ends when both threads are done.
CHECK_DEADLOCK FALSE

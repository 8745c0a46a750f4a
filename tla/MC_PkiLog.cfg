\* Two threads, two levels, one path.  Each thread makes calls forever, so
\* a state without successors is a deadlock.
CONSTANTS
    t1 = t1
    t2 = t2
    p1 = p1
    Null = Null
    Threads = {t1, t2}
    Levels = {1, 2}
    Paths = {p1}
    CallArgs <- MCConsistentArgs
SPECIFICATION Spec
SYMMETRY Symmetry
INVARIANT NoWaitCycle
INVARIANT SinkExclusive
PROPERTY ProtectedWrites

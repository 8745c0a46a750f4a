\* Two threads; PKI_log_init may be passed a token without the signature
\* flag or the flag without a token.
CONSTANTS
    t1 = t1
    t2 = t2
    p1 = p1
    Null = Null
    Threads = {t1, t2}
    Levels = {1, 2}
    Paths = {p1}
    CallArgs <- InitArgs
SPECIFICATION Spec
SYMMETRY Symmetry
INVARIANT NoSelfWait

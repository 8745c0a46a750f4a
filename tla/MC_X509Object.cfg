CONSTANTS
    kp = kp
    crt = crt
    hd = hd
    h1 = h1
    x1 = x1
    x2 = x2
    v1 = v1
    v2 = v2
    v3 = v3
    r1 = r1
    r2 = r2
    l1 = l1
    l2 = l2
    Null = Null
    NoCb = NoCb
    Types = {kp, crt}
    Keypair = kp
    HSMs = {hd, h1}
    DefaultHsm = hd
    Handles = {x1, x2}
    Payloads = {v1, v2, v3}
    Refs = {r1, r2}
    Locs = {l1, l2}
    FileLocs = {l1}
    Registry <- MCRegistry
    HsmHasCallbacks <- MCHsmHasCallbacks

SPECIFICATION Spec
SYMMETRY Symmetry
INVARIANT TypeOK
INVARIANT ValueOwnership
INVARIANT RefOwnership
PROPERTY ImplementsLifecycle

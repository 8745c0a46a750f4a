CONSTANTS
    kp = kp
    crt = crt
    hd = hd
    h1 = h1
    x1 = x1
    x2 = x2
    v1 = v1
    v2 = v2
    r1 = r1
    l1 = l1
    Null = Null
    NoCb = NoCb
    Types = {kp, crt}
    Keypair = kp
    HSMs = {hd, h1}
    DefaultHsm = hd
    Handles = {x1, x2}
    Payloads = {v1, v2}
    Refs = {r1}
    Locs = {l1}
    FileLocs = {l1}
    Registry <- MCRegistry
    HsmHasCallbacks <- MCHsmHasCallbacks
    HsmDriver <- MCHsmDriver
    HsmCred <- MCHsmCred

INIT EngineInit
NEXT EngineNext
SYMMETRY Symmetry
INVARIANT ValueOwnership

CONSTANTS
    Conns = {c1, c2, c3}
SPECIFICATION Spec
INVARIANTS TypeOK LiveIsWhole ResidueIsKnown
PROPERTY LayersKeepPromise
CHECK_DEADLOCK FALSE

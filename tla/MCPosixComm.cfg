CONSTANTS
    Conns = {c1, c2, c3}
    MaxFds = 2
SPECIFICATION Spec
INVARIANTS
    TypeOK
    LiveIsWhole
    ResidueIsKnown
PROPERTIES
    CloseFreesAll
    LayerSpec

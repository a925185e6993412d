CONSTANTS
    Conns = {c1, c2}
SPECIFICATION Spec
PROPERTY CloseFreesAll
CHECK_DEADLOCK FALSE

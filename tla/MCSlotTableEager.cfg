SPECIFICATION Spec
CONSTANTS
    c1 = c1  c2 = c2  c3 = c3
    n1 = n1  n2 = n2
    Conn <- MCConn
    Eager <- OneEager
    Alias <- MCAlias
    NoAlias = NoAlias
    NoConn = NoConn
SYMMETRY Symmetry
INVARIANTS
    SameLength
PROPERTIES
    StraysOnlyDuringAccept
CHECK_DEADLOCK FALSE

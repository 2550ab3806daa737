SPECIFICATION Spec
CONSTANTS
    c1 = c1  c2 = c2  c3 = c3
    n1 = n1  n2 = n2
    Conn <- MCConn
    Eager <- NoEager
    Alias <- OneAlias
    NoAlias = NoAlias
    NoConn = NoConn
INVARIANTS
    TypeOK
    Aligned
    ErasesOwnRow
    NeverStrays
PROPERTIES
    TableSpec
    Served
CHECK_DEADLOCK FALSE

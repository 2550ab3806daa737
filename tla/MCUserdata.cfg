SPECIFICATION Spec
CONSTANTS
    n1 = n1  n2 = n2  n3 = n3
    p1 = p1  p2 = p2  nul = nul
    Name <- MCName
    Password <- MCPassword
    Shorter <- MCShorter
    NullText = nul
    NoFile = NoFile
    Absent = Absent
    NoPassword = NoPassword
    Nobody = Nobody
SYMMETRY Symmetry
INVARIANTS
    TypeOK
    Kept
    OneEntryEach
    NoStalePassword
PROPERTIES
    StoreSpec
CHECK_DEADLOCK FALSE

SPECIFICATION Spec
CONSTANTS
    c1 = c1  c2 = c2  weak = weak
    s1 = s1  s2 = s2
    n1 = n1  n2 = n2  bad = bad
    p1 = p1  p2 = p2
    Client <- MCClient
    WeakKey <- MCWeakKey
    Sock <- MCSock
    Name <- MCName
    BadName <- MCBadName
    Password <- MCPassword
    Remainder <- MCRemainder
    Blank = Blank
    NoName = NoName
    NoSock = NoSock
    NoKey = NoKey
    Absent = Absent
    NoPassword = NoPassword
SYMMETRY Symmetry
INVARIANTS
    OwnKeyUsed
CHECK_DEADLOCK FALSE

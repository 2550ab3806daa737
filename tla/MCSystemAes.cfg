SPECIFICATION SSpec
CONSTANTS
    cpp = cpp  rust = rust
    s1 = s1  s2 = s2
    n1 = n1  n2 = n2
    p1 = p1
    Client <- MCClient
    Rust <- MCRust
    WeakKey <- None
    Sock <- MCSock
    Name <- MCName
    BadName <- None
    Password <- MCPassword
    Remainder <- MCRemainder
    Text <- Talk
    MaxTexts = 2
    NoList = NoList
    Blank = Blank
    NoName = NoName
    NoSock = NoSock
    NoKey = NoKey
    Absent = Absent
    NoPassword = NoPassword
INVARIANTS
    AesKeyDecrypted
CHECK_DEADLOCK FALSE

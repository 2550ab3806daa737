SPECIFICATION Spec
CONSTANTS
    c1 = c1
    c2 = c2
    c3 = c3
    Client <- Clients
    SpamInterval = 1
    Nap = 5
    Long = 5
SYMMETRY Symmetry
INVARIANTS
    Rested
    NeverSpam

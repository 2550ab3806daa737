------------------------------ MODULE MCServer ------------------------------
(* Server on a small instance.                                             *)
EXTENDS Server, TLC

CONSTANTS c1, c2, weak, s1, s2, n1, n2, p1, p2, bad

MCClient   == {c1, c2, weak}
MCWeakKey  == {weak}
MCSock     == {s1, s2}
MCName     == {n1, n2}
MCBadName  == {bad}
MCPassword == {p1, p2}
\* p1 is a beginning of p2.
MCRemainder == [p \in MCPassword |-> IF p = p2 THEN {p1} ELSE {}]

\* What the user of the client with the weak key types may be accepted.
SmallInit == Init /\ cred[weak] \in [uname : Name, passwd : {p2}]
SmallSpec == SmallInit /\ [][Next]_vars

\* Clients with a usable key, addresses and aliases are each interchangeable.
Symmetry ==
    Permutations({c1, c2}) \cup Permutations(MCSock) \cup Permutations(MCName)
=============================================================================

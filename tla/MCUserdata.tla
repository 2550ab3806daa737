----------------------------- MODULE MCUserdata -----------------------------
(* Userdata on a small instance: p1 is a beginning of p2.                  *)
EXTENDS Userdata, TLC

CONSTANTS n1, n2, n3, p1, p2, nul

MCName     == {n1, n2, n3}
MCPassword == {p1, p2, nul}
MCShorter  == [p \in MCPassword |-> IF p = p2 THEN {p1} ELSE {}]

Symmetry == Permutations(MCName)
=============================================================================

---------------------------- MODULE MCSlotTable ----------------------------
(* SlotTable on a small instance: with peers that wait for the public key  *)
(* (NoEager) and with one that does not (OneEager).                        *)
EXTENDS SlotTable, TLC

CONSTANTS c1, c2, c3, n1, n2

MCConn   == {c1, c2, c3}
MCAlias  == {n1, n2}
OneAlias == {n1}
NoEager  == {}
OneEager == {c2}

\* Connections that are not in OneEager are interchangeable, and aliases.
Symmetry == Permutations({c1, c3}) \cup Permutations(MCAlias)
=============================================================================

------------------------------ MODULE MCSystem ------------------------------
(* System on a small instance: one client of each program.                 *)
EXTENDS System, TLC

CONSTANTS cpp, rust, s1, s2, n1, n2, p1

MCClient   == {cpp, rust}
MCRust     == {rust}
MCSock     == {s1, s2}
MCName     == {n1, n2}
MCPassword == {p1}
MCRemainder == [p \in MCPassword |-> {}]
None       == {}

Simple(t)  == [type |-> t]
To(n)      == [type |-> "direct", to |-> n]
\* A long text may be taken for a chat and for a command, so that those two
\* need not be sent as well.
MCText     == {Simple("blank"), Simple("console"), Simple("long")} \cup
              {To(n) : n \in MCName}
Talk       == {Simple("chat"), To(n1)}

\* The first start of a server: nobody is registered; the two users ask for
\* the same alias or for different ones.
FirstInit ==
    /\ SInit
    /\ users = [n \in Name |-> Absent]
    /\ cred \in [Client -> [uname : Name, passwd : Password]]
    /\ cred[rust].uname = n1

FirstSpec == FirstInit /\ [][SNext]_sysvars /\ Fairness
=============================================================================

----------------------------- MODULE UserStore -----------------------------
(***************************************************************************)
(* What userdata.yml promises: an alias belongs to whoever registered it   *)
(* first, under the password given then; while the server is up nothing is *)
(* forgotten or changed.  A server killed while it registers somebody may  *)
(* spoil one entry and forget those after it: the spoiled one is left with *)
(* what a cut makes of its password, or with nothing that admits.          *)
(***************************************************************************)
CONSTANTS
    Alias, Password,
    Remainder,   \* what a password may be read as after it was cut
    None,        \* the alias is not registered
    Spoiled      \* it is, but nobody can be admitted under it

VARIABLES up, accounts

vars == <<up, accounts>>

Account == Password \cup {None, Spoiled}

Init == up \in BOOLEAN /\ accounts \in [Alias -> Account]

Register(n, p) ==
    /\ up
    /\ accounts[n] = None
    /\ accounts' = [accounts EXCEPT ![n] = p]
    /\ UNCHANGED up

\* What may be left of an account in the entry where a text ends too early.
LeftOf(a) ==
    IF a = None THEN {None}
    ELSE {a, None, Spoiled} \cup (IF a \in Password THEN Remainder[a] ELSE {})

\* The text ends in the entry of m, the new and therefore the last one.
CutInNew(m, p) == {[accounts EXCEPT ![m] = a] : a \in LeftOf(p)}

\* It ends in the entry of n: the others are before it, and kept, or lost.
CutInOld(n) ==
    {f \in [Alias -> Account] :
        /\ f[n] \in LeftOf(accounts[n])
        /\ \A m \in Alias \ {n} : f[m] \in {accounts[m], None}}

\* Stopped, between registrations or while p is registered for m.
Stop ==
    /\ up
    /\ up' = FALSE
    /\ \/ UNCHANGED accounts
       \/ \E m \in Alias, p \in Password :
             /\ accounts[m] = None
             /\ \/ accounts' \in CutInNew(m, p)
                \/ \E n \in Alias : accounts' \in CutInOld(n)

Start == ~up /\ up' = TRUE /\ UNCHANGED accounts

Next ==
    \/ \E n \in Alias, p \in Password : Register(n, p)
    \/ Stop
    \/ Start

Spec == Init /\ [][Next]_vars

=============================================================================

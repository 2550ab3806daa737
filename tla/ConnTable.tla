----------------------------- MODULE ConnTable -----------------------------
(***************************************************************************)
(* What the server's table of connections promises, without saying how it  *)
(* is kept: each connection has a stage of the handshake and, once its     *)
(* credentials have been accepted, an alias nobody else has.  Server and   *)
(* SlotTable both implement it.                                            *)
(***************************************************************************)
CONSTANTS
    Conn,      \* connections
    Alias,     \* aliases a client can have
    NoAlias    \* "\x96"

VARIABLES
    stage,     \* "none", or the AuthStatus of a connection
    alias      \* clientid_array

vars == <<stage, alias>>

Init ==
    /\ stage = [c \in Conn |-> "none"]
    /\ alias = [c \in Conn |-> NoAlias]

Free(n) == \A c \in Conn : alias[c] # n

\* A connection is accepted.
Accepted(c) ==
    /\ stage[c] = "none"
    /\ stage' = [stage EXCEPT ![c] = "Undone"]
    /\ UNCHANGED alias

\* Its credentials are accepted, under an alias nobody holds.
Admitted(c, n) ==
    /\ stage[c] = "Undone"
    /\ Free(n)
    /\ stage' = [stage EXCEPT ![c] = "KeyReceived"]
    /\ alias' = [alias EXCEPT ![c] = n]

\* Its public key is accepted.
Completed(c) ==
    /\ stage[c] = "KeyReceived"
    /\ stage' = [stage EXCEPT ![c] = "Done"]
    /\ UNCHANGED alias

\* It takes another alias.
Renamed(c, n) ==
    /\ stage[c] = "Done"
    /\ Free(n)
    /\ alias' = [alias EXCEPT ![c] = n]
    /\ UNCHANGED stage

\* It leaves or is kicked, and its alias is free again.
Dropped(c) ==
    /\ stage[c] # "none"
    /\ stage' = [stage EXCEPT ![c] = "none"]
    /\ alias' = [alias EXCEPT ![c] = NoAlias]

\* The process ends.
Stopped ==
    /\ stage' = [c \in Conn |-> "none"]
    /\ alias' = [c \in Conn |-> NoAlias]

Next ==
    \/ \E c \in Conn : Accepted(c) \/ Completed(c) \/ Dropped(c)
    \/ \E c \in Conn, n \in Alias : Admitted(c, n) \/ Renamed(c, n)
    \/ Stopped

Spec == Init /\ [][Next]_vars

=============================================================================

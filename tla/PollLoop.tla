------------------------------ MODULE PollLoop ------------------------------
(***************************************************************************)
(* The manage thread in time: it visits the rows of the table by their     *)
(* position, receives at most one chunk at each, and sleeps.  Handlers and *)
(* the scheduler take any time.  receive kicks a client as a spammer when  *)
(* its clock says that its last chunk came within SpamInterval.            *)
(*                                                                         *)
(* connectClients appends rows at any time (module SlotTable has its       *)
(* steps); disconnectClient erases the row the loop is at.                 *)
(***************************************************************************)
EXTENDS Integers, Sequences, SequencesExt

CONSTANTS
    Client,
    SpamInterval,   \* 20 ms
    Nap,            \* 100 ms
    Long            \* bound: no clock counts further

ASSUME PollLoopAssumption ==
    /\ SpamInterval \in Nat /\ Nap \in Nat /\ Long \in Nat
    /\ SpamInterval < Nap /\ Nap <= Long

VARIABLES
    table,      \* client_array, client_authenticated_array, client_message_interval
    iterator,   \* where manage is in the table; 0 while it sleeps
    kicked      \* the reasons of the disconnections so far

vars == <<table, iterator, kicked>>

Reason == {"DisconnectLeave", "DisconnectKick", "DisconnectSpam"}
Rows == 1..Len(table)
Connected == {table[i].client : i \in Rows}

\* The clocks after another d milliseconds.
Later(t, d) == IF t + d > Long THEN Long ELSE t + d
Pass(d) == [i \in Rows |-> [table[i] EXCEPT !.since = Later(@, d)]]

-----------------------------------------------------------------------------
NewRow(c) == [client |-> c, auth |-> "Undone", since |-> 0]

Accept(c) ==
    /\ c \notin Connected
    /\ table' = Append(table, NewRow(c))
    /\ UNCHANGED <<iterator, kicked>>

SameRow(i) == i
NextRow(i) == i + 1
Visits(i) == iterator = i /\ i \in Rows

Disconnect(i, reason) ==
    /\ table' = RemoveAt(table, i)
    /\ kicked' = kicked \cup {reason}

\* Nothing has arrived.
ReceiveNothing(i) ==
    /\ Visits(i)
    /\ iterator' = NextRow(i)
    /\ UNCHANGED <<table, kicked>>

\* The connection is closed, or what has arrived gets the client kicked.
ReceiveLast(i) ==
    /\ Visits(i)
    /\ \E reason \in {"DisconnectLeave", "DisconnectKick"} : Disconnect(i, reason)
    /\ iterator' = NextRow(i)

\* A step of the handshake.  It leaves the clock alone.
FurtherOn(auth) == IF auth = "Undone" THEN "KeyReceived" ELSE "Done"
ReceiveHandshake(i) ==
    /\ Visits(i) /\ table[i].auth # "Done"
    /\ table' = [table EXCEPT ![i].auth = FurtherOn(@)]
    /\ iterator' = NextRow(i)
    /\ UNCHANGED kicked

\* A chunk of a client whose handshake is over: the clock is read and set
\* back, and so it is again after a chat message.
ReceiveText(i) ==
    /\ Visits(i) /\ table[i].auth = "Done"
    /\ \/ /\ table[i].since <= SpamInterval
          /\ Disconnect(i, "DisconnectSpam")
       \/ /\ table[i].since > SpamInterval
          /\ table' = [table EXCEPT ![i].since = 0]
          /\ UNCHANGED kicked
    /\ iterator' = NextRow(i)

\* Time passes, also within a pass.
Take ==
    /\ iterator # 0
    /\ table' = Pass(1)
    /\ UNCHANGED <<iterator, kicked>>

EndPass ==
    /\ iterator > Len(table)
    /\ iterator' = 0
    /\ UNCHANGED <<table, kicked>>

NoSleep(d) == d \in 0..Long
Sleep(d) == d \in Nap..Long
StartPass ==
    /\ iterator = 0
    /\ \E d \in 0..Long : Sleep(d) /\ table' = Pass(d)
    /\ iterator' = 1
    /\ UNCHANGED kicked

-----------------------------------------------------------------------------
Init == table = <<>> /\ iterator = 1 /\ kicked = {}

Next ==
    \/ \E c \in Client : Accept(c)
    \/ \E i \in Rows :
          \/ ReceiveNothing(i) \/ ReceiveLast(i)
          \/ ReceiveHandshake(i) \/ ReceiveText(i)
    \/ Take \/ EndPass \/ StartPass

Spec == Init /\ [][Next]_vars

-----------------------------------------------------------------------------
(* Correctness.                                                            *)

Row == [client : Client, auth : {"Undone", "KeyReceived", "Done"}, since : 0..Long]

\* The table holds rows, each with a clock that is running.
TypeOK == table \in Seq(Row) /\ iterator \in Nat /\ kicked \subseteq Reason

\* While a pass is on, whoever it has still to visit has been left alone for
\* more than SpamInterval: every row that has moved up since has been visited
\* or is passed over, and whoever has come since is not Done.
Rested ==
    iterator # 0 =>
        \A i \in Rows :
            i >= iterator /\ table[i].auth = "Done" => table[i].since > SpamInterval

\* Nobody is kicked as a spammer, however fast he sends: the loop never gets
\* two chunks of a client within SpamInterval, whatever rows come and go.
NeverSpam == "DisconnectSpam" \notin kicked

=============================================================================

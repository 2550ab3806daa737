----------------------------- MODULE SlotTable -----------------------------
(***************************************************************************)
(* How ServerNetwork keeps its connections: five vectors, a connection     *)
(* being a position in each of them, and two threads without a lock.  The  *)
(* connection thread (connectClients) appends to one vector after the      *)
(* other; the manage thread (manage, receive, disconnectClient) walks over *)
(* client_array, hands the position it has reached to everything it calls, *)
(* and erases a position from one vector after the other.                  *)
(*                                                                         *)
(* An element of a vector is tagged with the connection it was appended    *)
(* for, which the code does not do: the tags say whose row is hit.         *)
(*                                                                         *)
(* A step is one call on one vector.  The calls are not atomic in the code *)
(* (two threads inside one vector is a data race whatever they do); what   *)
(* is studied here is the order of whole calls.  A broadcast is one step:  *)
(* it reads, and what could be appended while it runs is not yet           *)
(* authenticated.  Positions count from 1.                                 *)
(*                                                                         *)
(* What is used where there is no element is undefined: a step may see any *)
(* value there, and the process may crash, from then on (strayed), or at   *)
(* that point if a status was only read (overread).                        *)
(***************************************************************************)
EXTENDS Integers, Sequences, SequencesExt

CONSTANTS
    Conn,      \* connections; one is used again when nothing is left of it
    Eager,     \* peers that do not wait for the server's public key before
               \* they send something or leave
    Alias,     \* aliases
    NoAlias,   \* "\x96"
    NoConn     \* the socket of a thread that has none in hand

ASSUME ConnAssumption == NoConn \notin Conn
ASSUME EagerAssumption == Eager \subseteq Conn
ASSUME AliasAssumption == NoAlias \notin Alias

Status == {"Undone", "KeyReceived", "Done"}

VARIABLES
    sockets,    \* client_array
    ids,        \* clientid_array
    ops,        \* client_op_array
    auths,      \* client_authenticated_array
    intervals,  \* client_message_interval
    pcA, newc,  \* the connection thread and its new_client
    pcM, it,    \* the manage thread, its position in client_array ...
    client,     \* ... and the socket found there
    peer,       \* the other end of each connection
    inbox,      \* bytes from the peer that have not been received
    greeted,    \* connections that were sent the server's public key
    told,       \* to whom the last step of the manage thread sent
    strayed,    \* a position was used where an array had no row for it, or a
                \* socket object after it had been freed
    overread,   \* the last step of the manage thread was a broadcast, which
                \* read a status that was not there
    owed,       \* vectors erased from when empty: size() is one less than none,
                \* and the next element appended only makes up for it
    up          \* the process is running

vectors == <<sockets, ids, ops, auths, intervals, owed>>
threadA == <<pcA, newc>>
threadM == <<pcM, it, client>>
peers   == <<peer, inbox>>
vars    == <<vectors, threadA, threadM, peers, greeted, told, strayed, overread, up>>

\* The row of a vector that belongs to c, whatever its value.
Row(c, v) == [of |-> c, val |-> v]
Owners(s) == {s[i].of : i \in 1..Len(s)}
Occupied == ToSet(sockets) \cup Owners(ids) \cup ToSet(ops) \cup Owners(auths)
                \cup ToSet(intervals)

Init ==
    /\ sockets = <<>> /\ ids = <<>> /\ ops = <<>>
    /\ auths = <<>> /\ intervals = <<>>
    /\ pcA = "accept" /\ newc = NoConn
    /\ pcM = "walk" /\ it = 1 /\ client = NoConn
    /\ peer = [c \in Conn |-> "away"]
    /\ inbox = [c \in Conn |-> FALSE]
    /\ greeted = {}
    /\ told = {}
    /\ strayed = FALSE /\ overread = FALSE
    /\ owed = {}
    /\ up = TRUE

-----------------------------------------------------------------------------
(* Peers.                                                                  *)

MaySpeak(c) == peer[c] = "open" /\ c \in greeted \cup Eager

Send(c) ==
    /\ MaySpeak(c)
    /\ inbox' = [inbox EXCEPT ![c] = TRUE]
    /\ told' = {}
    /\ UNCHANGED <<vectors, threadA, threadM, peer, greeted, strayed, overread, up>>

Leave(c) ==
    /\ MaySpeak(c)
    /\ peer' = [peer EXCEPT ![c] = "left"]
    /\ told' = {}
    /\ UNCHANGED <<vectors, threadA, threadM, inbox, greeted, strayed, overread, up>>

-----------------------------------------------------------------------------
(* The connection thread.                                                  *)

Accepting(pc, next) ==
    /\ up /\ pcA = pc /\ pcA' = next
    /\ told' = {}
    /\ UNCHANGED <<threadM, inbox, overread, up>>

NewConn(c) ==
    /\ Accepting("accept", "push_socket")
    /\ peer[c] = "away" /\ c \notin Occupied
    /\ peer' = [peer EXCEPT ![c] = "open"]
    /\ newc' = c
    /\ UNCHANGED <<vectors, strayed>>

AcceptAndGreet(c) == NewConn(c) /\ greeted' = greeted \cup {c}
AcceptConn(c) == NewConn(c) /\ UNCHANGED greeted

AcceptFails ==
    /\ Accepting("accept", "ended")
    /\ UNCHANGED <<vectors, newc, peer, greeted, strayed>>

Pushing(pc, next) ==
    Accepting(pc, next) /\ UNCHANGED <<newc, peer, greeted, strayed>>

\* push_back on the vector called v.
Pushed(v, s, row) == IF v \in owed THEN s ELSE Append(s, row)
MadeUp(v) == owed' = owed \ {v}

PushSocketFirst(s, c) == <<c>> \o s
PushSocketLast(s, c) == Append(s, c)

\* client_array is never erased from when empty: the manage thread has found
\* a socket in it.
PushSocket ==
    /\ Pushing("push_socket", "push_id")
    /\ sockets' = PushSocketLast(sockets, newc)
    /\ UNCHANGED <<ids, ops, auths, intervals, owed>>

PushId ==
    /\ Pushing("push_id", "push_op")
    /\ ids' = Pushed("ids", ids, Row(newc, NoAlias)) /\ MadeUp("ids")
    /\ UNCHANGED <<sockets, ops, auths, intervals>>

PushOp ==
    /\ Pushing("push_op", "push_auth")
    /\ ops' = Pushed("ops", ops, newc) /\ MadeUp("ops")
    /\ UNCHANGED <<sockets, ids, auths, intervals>>

AuthNotPushed == Pushing("push_auth", "push_interval") /\ UNCHANGED vectors
PushAuth ==
    /\ Pushing("push_auth", "push_interval")
    /\ auths' = Pushed("auths", auths, Row(newc, "Undone")) /\ MadeUp("auths")
    /\ UNCHANGED <<sockets, ids, ops, intervals>>

PushInterval ==
    /\ Pushing("push_interval", "greet")
    /\ intervals' = Pushed("intervals", intervals, newc) /\ MadeUp("intervals")
    /\ UNCHANGED <<sockets, ids, ops, auths>>

\* The log line and the public key go through new_client, which the manage
\* thread may have freed in the meantime.
Greet ==
    /\ Accepting("greet", "accept")
    /\ IF peer[newc] = "away"
       THEN strayed' = TRUE /\ UNCHANGED greeted
       ELSE greeted' = greeted \cup {newc} /\ UNCHANGED strayed
    /\ newc' = NoConn
    /\ UNCHANGED <<vectors, peer>>

-----------------------------------------------------------------------------
(* The manage thread: one pass after the other over client_array.          *)

Managing(pc) == up /\ pcM = pc /\ UNCHANGED <<threadA, up>>
Quiet == told' = {} /\ overread' = FALSE

LastRowMissed == Len(sockets) - 1
LastRow == Len(sockets)

NextRow ==
    /\ Managing("walk")
    /\ it <= LastRow
    /\ client' = sockets[it] /\ pcM' = "receive"
    /\ Quiet
    /\ UNCHANGED <<vectors, it, peers, greeted, strayed>>

\* The pass is over; after 100 ms the next one begins.
EndOfPass ==
    /\ Managing("walk")
    /\ it > LastRow
    /\ it' = 1
    /\ Quiet
    /\ UNCHANGED <<vectors, pcM, client, peers, greeted, strayed>>

RowUndone == pcM' = "walk" /\ it' = it - 1 /\ client' = NoConn
RowDone == pcM' = "walk" /\ it' = it + 1 /\ client' = NoConn
Goto(pc) == pcM' = pc /\ UNCHANGED <<it, client>>

\* An access to position "it" of a vector.
Access(s) == strayed' = (strayed \/ it > Len(s))

NothingReceived ==
    /\ Managing("receive")
    /\ ~inbox[client] /\ peer[client] # "left"
    /\ RowDone
    /\ Quiet
    /\ UNCHANGED <<vectors, peers, greeted, strayed>>

\* Something was received: what is done with it depends on the status, which
\* can be any when it is read beyond the end.  Of a client that is Done the
\* time of the last message is read too (intervals is never longer than
\* auths when the last row is being appended).
StatusAt(i) == IF i \in 1..Len(auths) THEN {auths[i].val} ELSE Status

DataReceived ==
    /\ Managing("receive")
    /\ inbox[client]
    /\ inbox' = [inbox EXCEPT ![client] = FALSE]
    /\ \E s \in StatusAt(it) :
          Goto(s) /\ Access(IF s = "Done" THEN intervals ELSE auths)
    /\ Quiet
    /\ UNCHANGED <<vectors, peer, greeted>>

-----------------------------------------------------------------------------
(* What is received changes a row, or is passed on.                        *)

Handling(pc) ==
    Managing(pc) /\ UNCHANGED <<sockets, ops, intervals, owed, peers, greeted>>
Replies == told' = {client} /\ overread' = FALSE

\* broadcast(): everybody but "except" whose status is Done, and perhaps
\* whoever has a position in client_array but no status yet.
Authenticated == {i \in 1..Len(sockets) : i <= Len(auths) /\ auths[i].val = "Done"}
WithoutStatus == {i \in 1..Len(sockets) : i > Len(auths)}
Audiences(except) ==
    LET At(S) == {sockets[i] : i \in S} \ {except}
    IN  {At(Authenticated) \cup B : B \in SUBSET At(WithoutStatus)}

Broadcast ==
    /\ told' \in Audiences(client)
    /\ overread' = (WithoutStatus # {})

\* The value at position "it" changes; beyond the end nothing useful does.
Assign(s, v) == IF it <= Len(s) THEN [s EXCEPT ![it].val = v] ELSE s

AliasFreeButFirst(n) == \A i \in 2..Len(ids) : ids[i].val # n
AliasFree(n) == \A i \in 1..Len(ids) : ids[i].val # n

SetAlias(n) ==
    /\ AliasFree(n)
    /\ ids' = Assign(ids, n)
    /\ Access(ids)
    /\ Broadcast
    /\ UNCHANGED auths

SetStatus(s) ==
    /\ auths' = Assign(auths, s)
    /\ Access(auths)
    /\ Replies
    /\ UNCHANGED ids

\* nick() at login: the alias is written and the others are told (of a new
\* user they are told twice); then the status is.
TakeAlias(n) == Handling("Undone") /\ SetAlias(n) /\ Goto("admit")
Admit == Handling("admit") /\ SetStatus("KeyReceived") /\ RowDone

\* The AES key is sent and the handshake is over.
Complete == Handling("KeyReceived") /\ SetStatus("Done") /\ RowDone

\* "3"
Rename(n) == Handling("Done") /\ SetAlias(n) /\ RowDone

\* "0" and "4": the time of the last message is set and the others are told.
Talk ==
    /\ Handling("Done")
    /\ Broadcast
    /\ Access(intervals)
    /\ RowDone
    /\ UNCHANGED <<ids, auths>>

\* One line of text comes back.
Answer ==
    /\ Handling("Done")
    /\ Replies
    /\ RowDone
    /\ UNCHANGED <<ids, auths, strayed>>

\* "5" msg: to the socket at the position where the alias was found.
DirectMessage(n) ==
    /\ Handling("Done")
    /\ Access(ids)
    /\ told' = {sockets[i] : i \in {j \in 1..Len(ids) :
                    j <= Len(sockets) /\ ids[j].val = n}}
    /\ overread' = FALSE
    /\ RowDone
    /\ UNCHANGED <<ids, auths>>

-----------------------------------------------------------------------------
(* disconnectClient: from one vector after the other.                      *)

\* The peer has left, or is kicked for what it sent.
Reject ==
    /\ \/ Managing("receive") /\ ~inbox[client] /\ peer[client] = "left"
       \/ \E s \in Status : Managing(s)
    /\ Access(ids)
    /\ Goto("erase_id")
    /\ Quiet
    /\ UNCHANGED <<vectors, peers, greeted>>

\* vector::erase: the end moves by one element, from which nothing is left to
\* take when the vector called v is empty; at or beyond the end it is the last
\* element that goes.
EraseAt(s, i) == IF i <= Len(s) THEN RemoveAt(s, i) ELSE Front(s)

Erasing(pc, v, s) ==
    /\ Managing(pc)
    /\ Access(s)
    /\ owed' = IF s = <<>> THEN owed \cup {v} ELSE owed
    /\ Quiet
    /\ UNCHANGED <<peers, greeted>>

EraseId ==
    /\ Erasing("erase_id", "ids", ids)
    /\ ids' = EraseAt(ids, it)
    /\ Goto("tell")
    /\ UNCHANGED <<sockets, ops, auths, intervals>>

TellLeave ==
    /\ Managing("tell")
    /\ Broadcast
    /\ Goto("free")
    /\ UNCHANGED <<vectors, peers, greeted, strayed>>

\* The socket is closed and its object freed.
FreeSocket ==
    /\ Managing("free")
    /\ peer' = [peer EXCEPT ![client] = "away"]
    /\ inbox' = [inbox EXCEPT ![client] = FALSE]
    /\ greeted' = greeted \ {client}
    /\ Access(auths)
    /\ Goto("erase_socket")
    /\ Quiet
    /\ UNCHANGED vectors

EraseSocket ==
    /\ Erasing("erase_socket", "sockets", sockets)
    /\ sockets' = EraseAt(sockets, it)
    /\ Goto("erase_op")
    /\ UNCHANGED <<ids, ops, auths, intervals>>

EraseOp ==
    /\ Erasing("erase_op", "ops", ops)
    /\ ops' = EraseAt(ops, it)
    /\ Goto("erase_auth")
    /\ UNCHANGED <<sockets, ids, auths, intervals>>

AuthKept ==
    Erasing("erase_auth", "auths", auths) /\ Goto("erase_interval") /\ UNCHANGED vectors
EraseAuth ==
    /\ Erasing("erase_auth", "auths", auths)
    /\ auths' = EraseAt(auths, it)
    /\ Goto("erase_interval")
    /\ UNCHANGED <<sockets, ids, ops, intervals>>

EraseInterval ==
    /\ Erasing("erase_interval", "intervals", intervals)
    /\ intervals' = EraseAt(intervals, it)
    /\ RowDone
    /\ UNCHANGED <<sockets, ids, ops, auths>>

\* Undefined behaviour may stop the process, at once or later.
Crash ==
    /\ up /\ (strayed \/ overread)
    /\ up' = FALSE
    /\ Quiet
    /\ UNCHANGED <<vectors, threadA, threadM, peers, greeted, strayed>>

-----------------------------------------------------------------------------
ConnectionThread ==
    \/ \E c \in Conn : AcceptConn(c)
    \/ AcceptFails
    \/ PushSocket
    \/ PushId
    \/ PushOp
    \/ PushAuth
    \/ PushInterval
    \/ Greet

ManageThread ==
    \/ NextRow
    \/ EndOfPass
    \/ NothingReceived
    \/ DataReceived
    \/ \E n \in Alias : TakeAlias(n)
    \/ Admit
    \/ Complete
    \/ Talk
    \/ Answer
    \/ \E n \in Alias : DirectMessage(n)
    \/ \E n \in Alias : Rename(n)
    \/ Reject
    \/ EraseId
    \/ TellLeave
    \/ FreeSocket
    \/ EraseSocket
    \/ EraseOp
    \/ EraseAuth
    \/ EraseInterval

Next ==
    \/ ConnectionThread
    \/ ManageThread
    \/ \E c \in Conn : Send(c) \/ Leave(c)
    \/ Crash

\* The manage thread is always scheduled again; what the connection thread
\* and the peers do is up to them.
Spec == Init /\ [][Next]_vars /\ WF_vars(ManageThread)

-----------------------------------------------------------------------------
(* Correctness.                                                            *)

Rows(v) == Seq([of : Conn, val : v])

\* Every variable holds a value of its type.
TypeOK ==
    /\ sockets \in Seq(Conn) /\ ops \in Seq(Conn) /\ intervals \in Seq(Conn)
    /\ ids \in Rows(Alias \cup {NoAlias})
    /\ auths \in Rows(Status)
    /\ pcA \in {"accept", "push_socket", "push_id", "push_op", "push_auth",
                "push_interval", "greet", "ended"}
    /\ pcM \in {"walk", "receive", "admit", "erase_id", "tell", "free",
                "erase_socket", "erase_op", "erase_auth", "erase_interval"}
                   \cup Status
    /\ newc \in Conn \cup {NoConn} /\ client \in Conn \cup {NoConn}
    /\ it \in Nat \ {0}
    /\ peer \in [Conn -> {"away", "open", "left"}]
    /\ inbox \in [Conn -> BOOLEAN]
    /\ greeted \subseteq Conn /\ told \subseteq Conn
    /\ strayed \in BOOLEAN /\ overread \in BOOLEAN /\ up \in BOOLEAN
    /\ owed \subseteq {"sockets", "ids", "ops", "auths", "intervals"}

OwnersOf(s) == [i \in DOMAIN s |-> s[i].of]
Disconnecting == pcM \in {"tell", "free", "erase_socket", "erase_op",
                          "erase_auth", "erase_interval"}

\* While no row is being erased, a position means the same connection in all
\* five vectors, as far as each of them reaches, at whatever point of
\* connectClients the other thread is.
Aligned ==
    ~strayed /\ ~Disconnecting =>
        \A v \in {OwnersOf(ids), ops, OwnersOf(auths), intervals} :
            IsPrefix(v, sockets)

OwnRowIn(v) == it <= Len(v) /\ v[it] = client

\* disconnectClient takes the row of the client it was called for, and no
\* other, out of each vector.
ErasesOwnRow ==
    ~strayed =>
        /\ pcM = "erase_id" => OwnRowIn(OwnersOf(ids))
        /\ pcM \in {"tell", "free", "erase_socket"} => OwnRowIn(sockets)
        /\ pcM = "erase_op" => OwnRowIn(ops)
        /\ pcM \in {"tell", "free", "erase_socket", "erase_op", "erase_auth"}
              => OwnRowIn(OwnersOf(auths))
        /\ pcM = "erase_interval" => OwnRowIn(intervals)

\* As long as peers wait for the server's public key, what the manage thread
\* does with the row in hand is done with a row that is there, and the
\* connection thread uses no socket that is gone.  A broadcast is not about
\* the row in hand: of the statuses it reads one may be missing even so.
NeverStrays == ~strayed

\* What could be used too early or too late is used so only while a row is
\* being appended, and a broadcast reads a status that is not there only
\* between the append to client_array and that to client_authenticated_array.
StraysOnlyDuringAccept ==
    [][/\ ~strayed /\ strayed' => pcA \notin {"accept", "ended"}
       /\ ~overread /\ overread' => pcA \in {"push_id", "push_op", "push_auth"}]_vars

\* Whatever has gone wrong, between two connections and between two erased
\* rows all vectors have the same size() again.
Size(v, s) == IF v \in owed THEN Len(s) - 1 ELSE Len(s)
SameLength ==
    pcA \in {"accept", "ended"} /\ ~Disconnecting =>
        /\ Size("ids", ids) = Len(sockets) /\ Size("ops", ops) = Len(sockets)
        /\ Size("auths", auths) = Len(sockets)
        /\ Size("intervals", intervals) = Len(sockets)

\* What a peer sends is received and its leaving is noticed, although the
\* row behind an erased one is passed over in that pass and others keep
\* coming and going, unless the process crashes.
Unserved(c) == inbox[c] \/ peer[c] = "left"
Served == \A c \in Conn : []<>(~Unserved(c) \/ ~up)

\* The vectors implement the table: c is in it from the moment its status is
\* appended to the moment its alias is erased.
StageOf(c) ==
    LET mine == {i \in 1..Len(auths) : auths[i].of = c}
    IN  IF mine = {} \/ c \notin Owners(ids)
        THEN "none"
        ELSE auths[CHOOSE i \in mine : TRUE].val
AliasOf(c) ==
    IF StageOf(c) \in {"none", "Undone"}
    THEN NoAlias
    ELSE ids[CHOOSE i \in 1..Len(ids) : ids[i].of = c].val

Table == INSTANCE ConnTable WITH
            stage <- [c \in Conn |-> StageOf(c)],
            alias <- [c \in Conn |-> AliasOf(c)]
TableSpec == Table!Spec

\* specs/handshake.md: once a client has joined, the first thing that
\* happens is "Server sends public key to client".
PublicKeyFirst == [][told' \subseteq greeted']_vars

=============================================================================

------------------------ MODULE SlotTableImplements ------------------------
(***************************************************************************)
(* With peers that wait for the server's public key, as the protocol has   *)
(* them do: no position strays, disconnectClient erases the row of its own *)
(* client, and the five vectors implement the table of connections.        *)
(*                                                                         *)
(* The reason is that such a peer can neither send nor leave while its row *)
(* is being appended, so that the manage thread never does more with that  *)
(* row than look whether something was received.                           *)
(***************************************************************************)
EXTENDS SlotTableProofs

Appending == pcA \notin {"accept", "ended"}

\* The peer of the row that is being appended has said nothing yet, and has
\* no other row.
Fresh(rows) ==
    Appending =>
        /\ newc \notin greeted /\ ~inbox[newc] /\ peer[newc] = "open"
        /\ \A i \in 1..Len(rows) : rows[i] # newc

\* Whatever is done with a row is done with a finished one.
Finished(rows) == pcM \notin {"walk", "receive"} => it <= Len(rows)
Distinct(rows) == \A i, j \in 1..Len(rows) : rows[i] = rows[j] => i = j
Orderly(rows)  == Laid(rows, FALSE) /\ Fresh(rows) /\ Finished(rows) /\ Distinct(rows)

\* Nothing is left of a connection that is gone.
Forgotten == \A c \in Conn : peer[c] = "away" => ~inbox[c] /\ c \notin greeted

Ordered == ~strayed /\ Forgotten /\ \E rows \in Seq(Conn) : Orderly(rows)

-----------------------------------------------------------------------------
(* Positions.                                                              *)

LEMMA Reach ==
    ASSUME TypeOK, Held, NEW rows \in Seq(Conn), Laid(rows, FALSE),
           pcM # "walk", it <= Len(rows)
    PROVE  /\ ~IdOut => it <= Len(ids)
           /\ ~SocketOut => it <= Len(sockets)
           /\ ~OpOut => it <= Len(ops)
           /\ ~AuthOut => it <= Len(auths)
           /\ it <= Len(intervals)
           /\ it \in 1..Len(rows) /\ rows[it] = client
  <1>1. it \in 1..Len(rows)
    BY DEF TypeOK
  <1>2. ASSUME NEW v, NEW in \in BOOLEAN, v = Full(rows, newc, in), in => newc \in Conn
        PROVE  it <= Len(v) /\ v[it] = rows[it]
    <2>1. CASE in
      BY <1>1, <1>2, <2>1 DEF Full
    <2>2. CASE ~in
      BY <1>1, <1>2, <2>2 DEF Full
    <2> QED
      BY <1>2, <2>1, <2>2
  <1>3. SocketIn \/ IdIn \/ OpIn \/ AuthIn \/ IntervalIn => newc \in Conn
    BY DEF Held, SocketIn, IdIn, OpIn, AuthIn, IntervalIn
  <1>4. Len(OwnersOf(ids)) = Len(ids) /\ Len(OwnersOf(auths)) = Len(auths)
    BY OwnersProperties DEF TypeOK
  <1>5. SocketIn \in BOOLEAN /\ IdIn \in BOOLEAN /\ OpIn \in BOOLEAN
        /\ AuthIn \in BOOLEAN /\ IntervalIn \in BOOLEAN
    BY DEF SocketIn, IdIn, OpIn, AuthIn, IntervalIn
  <1>6. /\ ~SocketOut => it <= Len(sockets)
        /\ ~OpOut => it <= Len(ops)
        /\ it <= Len(intervals)
    BY <1>2, <1>3, <1>5 DEF Laid, Columns, Column
  <1>7. ~IdOut => it <= Len(OwnersOf(ids))
    BY <1>2, <1>3, <1>5 DEF Laid, Columns, Column
  <1>8. ~AuthOut => it <= Len(OwnersOf(auths))
    BY <1>2, <1>3, <1>5 DEF Laid, Columns, Column
  <1>9. rows[it] = client
    BY <1>2, <1>3, <1>5 DEF Laid, InHand
  <1> QED
    BY <1>1, <1>4, <1>6, <1>7, <1>8, <1>9

\* A row in which something is received, or whose peer has left, is finished.
LEMMA HeardIsFinished ==
    ASSUME TypeOK, Held, NEW rows \in Seq(Conn), Laid(rows, FALSE), Fresh(rows),
           pcM = "receive", inbox[client] \/ peer[client] = "left"
    PROVE  it <= Len(rows)
  <1>1. CASE ~SocketIn
    BY <1>1 DEF Laid, InHand, Full
  <1>2. CASE SocketIn
    <2>1. newc \in Conn /\ Appending /\ client # newc
      BY <1>2 DEF SocketIn, Held, Appending, Fresh
    <2>2. it <= Len(Append(rows, newc)) /\ Append(rows, newc)[it] = client
      BY <1>2 DEF Laid, InHand, Full
    <2>3. it \in Nat /\ Len(rows) \in Nat /\ Len(Append(rows, newc)) = Len(rows) + 1
          /\ Append(rows, newc)[Len(rows) + 1] = newc
      BY <2>1 DEF TypeOK
    <2> QED
      BY <2>1, <2>2, <2>3
  <1> QED
    BY <1>1, <1>2

\* No step uses a position where there is no row, nor a socket that is gone.
LEMMA NoStray ==
    ASSUME TypeOK, TypeOK', Held, Ordered, [Next]_vars
    PROVE  ~strayed'
  <1>0. PICK rows \in Seq(Conn) : Orderly(rows)
    BY DEF Ordered
  <1>1. /\ it \in Nat
        /\ Len(ids) \in Nat /\ Len(sockets) \in Nat /\ Len(ops) \in Nat
        /\ Len(auths) \in Nat /\ Len(intervals) \in Nat
    BY LengthTypes DEF TypeOK
  <1>2. ASSUME pcM # "walk", it <= Len(rows)
        PROVE  /\ ~IdOut => it <= Len(ids)
               /\ ~SocketOut => it <= Len(sockets)
               /\ ~OpOut => it <= Len(ops)
               /\ ~AuthOut => it <= Len(auths)
               /\ it <= Len(intervals)
    BY <1>0, <1>2, Reach DEF Orderly
  <1>3. pcM \notin {"walk", "receive"} => it <= Len(rows)
    BY <1>0 DEF Orderly, Finished
  <1>4. ASSUME NEW v, Access(v), it <= Len(v), Len(v) \in Nat
        PROVE  ~strayed'
    <2>1. ~(it > Len(v))
      BY <1>1, <1>4
    <2> QED
      BY <1>4, <2>1 DEF Access, Ordered
  <1> USE DEF IdOut, SocketOut, OpOut, AuthOut, Disconnecting, Managing, Status
  <1>5. CASE DataReceived
    <2>1. PICK s \in StatusAt(it) : Access(IF s = "Done" THEN intervals ELSE auths)
      BY <1>5 DEF DataReceived
    <2>2. pcM = "receive" /\ it <= Len(rows)
      BY <1>0, <1>5, HeardIsFinished DEF DataReceived, Orderly
    <2> QED
      BY <1>1, <1>2, <1>4, <2>1, <2>2
  <1>6. CASE \/ \E n \in Alias : TakeAlias(n) \/ Rename(n) \/ DirectMessage(n)
             \/ Admit \/ Complete \/ Talk
    <2>1. Access(ids) \/ Access(auths) \/ Access(intervals)
      BY <1>6 DEF TakeAlias, Rename, DirectMessage, Admit, Complete, Talk, SetAlias,
          SetStatus
    <2>2. pcM \in Status \cup {"admit"}
      BY <1>6 DEF TakeAlias, Rename, DirectMessage, Admit, Complete, Talk, Handling
    <2> QED
      BY <1>1, <1>2, <1>3, <1>4, <2>1, <2>2
  <1>7. CASE Reject \/ FreeSocket
    <2>1. \/ Access(ids) /\ pcM \in Status
          \/ Access(ids) /\ pcM = "receive" /\ peer[client] = "left"
          \/ Access(auths) /\ pcM = "free"
      BY <1>7 DEF Reject, FreeSocket
    <2>2. pcM = "receive" /\ peer[client] = "left" => it <= Len(rows)
      BY <1>0, HeardIsFinished DEF Orderly
    <2> QED
      BY <1>1, <1>2, <1>3, <1>4, <2>1, <2>2
  <1>8. CASE EraseId \/ EraseSocket \/ EraseOp \/ EraseAuth \/ EraseInterval
    <2>1. \/ Access(ids) /\ pcM = "erase_id"
          \/ Access(sockets) /\ pcM = "erase_socket"
          \/ Access(ops) /\ pcM = "erase_op"
          \/ Access(auths) /\ pcM = "erase_auth"
          \/ Access(intervals) /\ pcM = "erase_interval"
      BY <1>8 DEF EraseId, EraseSocket, EraseOp, EraseAuth, EraseInterval, Erasing
    <2> QED
      BY <1>1, <1>2, <1>3, <1>4, <2>1
  <1>9. CASE NextRow \/ EndOfPass \/ NothingReceived \/ Answer \/ TellLeave
    BY <1>9 DEF NextRow, EndOfPass, NothingReceived, Answer, TellLeave, Ordered
  <1>10. CASE \/ UNCHANGED vars \/ Crash \/ \E c \in Conn : Send(c) \/ Leave(c)
              \/ AcceptFails \/ \E c \in Conn : AcceptConn(c)
              \/ PushSocket \/ PushId \/ PushOp \/ PushAuth \/ PushInterval
    BY <1>10 DEF vars, Crash, Send, Leave, AcceptFails, AcceptConn, NewConn, PushSocket,
          PushId, PushOp, PushAuth, PushInterval, Pushing, Ordered
  <1>11. CASE Greet
    <2>1. Fresh(rows) /\ Appending
      BY <1>0, <1>11 DEF Greet, Accepting, Appending, Orderly
    <2> QED
      BY <1>11, <2>1 DEF Greet, Ordered, Fresh
  <1> QED
    BY <1>5, <1>6, <1>7, <1>8, <1>9, <1>10, <1>11 DEF Next, ConnectionThread, ManageThread

-----------------------------------------------------------------------------
(* Order is kept.                                                          *)

\* A step of the manage thread that erases nothing.
LEMMA OrderQuiet ==
    ASSUME NEW rows \in Seq(Conn), TypeOK, Held, Forgotten, Orderly(rows),
           \/ NextRow \/ EndOfPass \/ NothingReceived \/ DataReceived
           \/ \E n \in Alias : TakeAlias(n) \/ Rename(n) \/ DirectMessage(n)
           \/ Admit \/ Complete \/ Talk \/ Answer
           \/ TellLeave \/ FreeSocket \/ Reject
    PROVE  Orderly(rows)' /\ Forgotten'
  <1>1. Laid(rows, FALSE)'
    BY ColumnsQuiet DEF Orderly
  <1>2. UNCHANGED threadA
    BY DEF NextRow, EndOfPass, NothingReceived, DataReceived, TakeAlias, Rename,
           DirectMessage, Admit, Complete, Talk, Answer, TellLeave, FreeSocket, Reject,
           Handling, Managing
  <1>3. Finished(rows)'
    <2>1. CASE DataReceived \/ Reject
      <3>1. it <= Len(rows)
        BY <2>1, HeardIsFinished DEF DataReceived, Reject, Managing, Status, Orderly,
              Finished
      <3> QED
        BY <2>1, <3>1 DEF DataReceived, Reject, Goto, Finished
    <2>2. CASE ~(DataReceived \/ Reject)
      BY <2>2 DEF NextRow, EndOfPass, NothingReceived, TakeAlias, Rename,
            DirectMessage, Admit, Complete, Talk, Answer, TellLeave, FreeSocket,
            Handling, Managing, RowDone, Goto, Orderly, Finished, Status
    <2> QED
      BY <2>1, <2>2
  <1>4. Fresh(rows)' /\ Forgotten'
    <2>1. CASE FreeSocket
      <3>1. pcM = "free" /\ it <= Len(rows)
        BY <2>1 DEF FreeSocket, Managing, Orderly, Finished
      <3>2. it \in 1..Len(rows) /\ rows[it] = client
        BY <3>1, Reach DEF Orderly
      <3>3. client \in Conn
        BY <3>2
      <3>4. Appending => client # newc
        BY <3>2 DEF Orderly, Fresh
      <3>5. /\ peer' = [peer EXCEPT ![client] = "away"]
            /\ inbox' = [inbox EXCEPT ![client] = FALSE]
            /\ greeted' = greeted \ {client}
        BY <2>1 DEF FreeSocket
      <3>6. Appending => newc \in Conn
        BY DEF Held, Appending
      <3>7. Fresh(rows)'
        BY <1>2, <3>4, <3>5, <3>6 DEF Fresh, Orderly, Appending, threadA, TypeOK
      <3>8. Forgotten'
        BY <3>3, <3>5 DEF Forgotten, TypeOK
      <3> QED
        BY <3>7, <3>8
    <2>2. CASE DataReceived
      <3>1. /\ inbox' = [inbox EXCEPT ![client] = FALSE]
            /\ UNCHANGED <<peer, greeted>>
        BY <2>2 DEF DataReceived
      <3> QED
        BY <1>2, <3>1 DEF Fresh, Forgotten, Orderly, Appending, threadA, TypeOK, Held
    <2>3. CASE ~(FreeSocket \/ DataReceived)
      <3>1. UNCHANGED <<peers, greeted>>
        BY <2>3 DEF NextRow, EndOfPass, NothingReceived, TakeAlias, Rename,
              DirectMessage, Admit, Complete, Talk, Answer, TellLeave, Reject, Handling
      <3> QED
        BY <1>2, <3>1 DEF Fresh, Forgotten, Orderly, Appending, threadA, peers
    <2> QED
      BY <2>1, <2>2, <2>3
  <1> QED
    BY <1>1, <1>3, <1>4 DEF Orderly, Distinct

LEMMA OrderConnection ==
    ASSUME NEW rows \in Seq(Conn), TypeOK, TypeOK', Held, Holding, Forgotten,
           Orderly(rows), ConnectionThread
    PROVE  (\E more \in Seq(Conn) : Orderly(more)') /\ Forgotten'
  <1>1. ASSUME NEW c \in Conn, AcceptConn(c)
        PROVE  Orderly(rows)' /\ Forgotten'
    <2>1. /\ pcA = "accept" /\ pcA' = "push_socket" /\ newc' = c
          /\ UNCHANGED <<inbox, greeted, threadM>> /\ c \notin Occupied
          /\ peer[c] = "away" /\ peer' = [peer EXCEPT ![c] = "open"]
      BY <1>1 DEF AcceptConn, NewConn, Accepting
    <2>2. Laid(rows, FALSE)'
      BY <1>1, ColumnsIdle DEF Orderly
    <2>3. intervals = rows
      BY <2>1 DEF Orderly, Laid, Columns, Column, Full, IntervalIn
    <2>4. \A i \in 1..Len(rows) : rows[i] # c
      BY <2>1, <2>3 DEF Occupied, ToSet
    <2>5. Fresh(rows)'
      BY <2>1, <2>4 DEF Fresh, Forgotten, TypeOK
    <2>6. Forgotten'
      BY <2>1 DEF Forgotten, TypeOK
    <2> QED
      BY <2>1, <2>2, <2>5, <2>6 DEF Orderly, Finished, Distinct, threadM
  <1>2. CASE AcceptFails
    <2>1. /\ ~Appending' /\ UNCHANGED <<peer, inbox, greeted, threadM>>
      BY <1>2 DEF AcceptFails, Accepting, Appending
    <2>2. Laid(rows, FALSE)'
      BY <1>2, ColumnsIdle DEF Orderly
    <2> QED
      BY <2>1, <2>2 DEF Orderly, Finished, Distinct, Fresh, Forgotten, threadM
  <1>3. CASE PushSocket \/ PushId \/ PushOp \/ PushAuth \/ PushInterval
    <2>1. /\ Appending /\ UNCHANGED <<newc, peer, inbox, greeted, threadM>>
      BY <1>3 DEF PushSocket, PushId, PushOp, PushAuth, PushInterval, Pushing, Accepting,
            Appending
    <2>2. Laid(rows, FALSE)'
      BY <1>3, ColumnsPush DEF Orderly
    <2> QED
      BY <2>1, <2>2 DEF Orderly, Finished, Distinct, Fresh, Forgotten, threadM
  <1>4. CASE Greet
    <2>1. /\ Appending /\ ~Appending' /\ newc \in Conn
          /\ greeted' \subseteq greeted \cup {newc}
          /\ UNCHANGED <<peer, inbox, threadM>>
      BY <1>4 DEF Greet, Accepting, Appending, Held
    <2>2. PICK full \in Seq(Conn) : full = Append(rows, newc) /\ Laid(full, FALSE)'
      BY <1>4, ColumnsGreet DEF Orderly, Full
    <2>3. /\ Len(rows) \in Nat /\ Len(full) = Len(rows) + 1 /\ full[Len(rows) + 1] = newc
          /\ \A i \in 1..Len(rows) : full[i] = rows[i]
      BY <2>1, <2>2
    <2>4. Distinct(full)
      BY <2>1, <2>3 DEF Orderly, Distinct, Fresh
    <2>5. Finished(full)'
      BY <2>1, <2>3 DEF Orderly, Finished, threadM, TypeOK
    <2>6. Fresh(full)' /\ Forgotten'
      BY <2>1 DEF Orderly, Fresh, Forgotten
    <2>7. Orderly(full)'
      BY <2>2, <2>4, <2>5, <2>6 DEF Orderly, Distinct
    <2> QED
      BY <2>6, <2>7
  <1> QED
    BY <1>1, <1>2, <1>3, <1>4 DEF ConnectionThread

LEMMA OrderErase ==
    ASSUME NEW rows \in Seq(Conn), TypeOK, TypeOK', Held, Forgotten, ~strayed',
           Orderly(rows), EraseId \/ EraseSocket \/ EraseOp \/ EraseAuth
    PROVE  Orderly(rows)' /\ Forgotten'
  <1>1. /\ UNCHANGED <<threadA, peers, greeted, it>>
        /\ pcM \notin {"walk", "receive"}
    BY DEF EraseId, EraseSocket, EraseOp, EraseAuth, Erasing, Managing, Goto
  <1>2. Laid(rows, FALSE)'
    BY ColumnsErase DEF Orderly
  <1> QED
    BY <1>1, <1>2 DEF Orderly, Fresh, Finished, Distinct, Forgotten, Appending, threadA,
          peers

LEMMA OrderEraseInterval ==
    ASSUME NEW rows \in Seq(Conn), TypeOK, TypeOK', Held, Forgotten, ~strayed',
           Orderly(rows), EraseInterval
    PROVE  (\E less \in Seq(Conn) : Orderly(less)') /\ Forgotten'
  <1>1. /\ UNCHANGED <<threadA, peers, greeted>>
        /\ pcM = "erase_interval" /\ pcM' = "walk"
    BY DEF EraseInterval, Erasing, Managing, RowDone
  <1>2. it \in 1..Len(rows)
    BY <1>1, Reach DEF Orderly, Finished
  <1>3. PICK less \in Seq(Conn) : less = RemoveAt(rows, it) /\ Laid(less, FALSE)'
    <2>1. IF it <= Len(rows)
          THEN \E less \in Seq(Conn) : less = RemoveAt(rows, it) /\ Laid(less, FALSE)'
          ELSE Laid(rows, TRUE)' /\ ~FALSE
      BY ColumnsEraseInterval DEF Orderly
    <2>2. it <= Len(rows)
      BY <1>2
    <2> QED
      BY <2>1, <2>2
  <1>4. /\ Len(less) = Len(rows) - 1 /\ Len(rows) \in Nat
        /\ \A j \in 1..Len(rows) - 1 : less[j] = IF j < it THEN rows[j] ELSE rows[j + 1]
    <2>1. PICK k \in 1..Len(rows) : k = it
      BY <1>2
    <2> DEFINE r == RemoveAt(rows, k)
    <2>2. /\ Len(r) = Len(rows) - 1
          /\ \A j \in 1..Len(rows) - 1 : r[j] = IF j < k THEN rows[j] ELSE rows[j + 1]
      BY RemoveAtProperties
    <2>3. less = r
      BY <1>3, <2>1
    <2> HIDE DEF r
    <2>4. Len(rows) \in Nat
      OBVIOUS
    <2> QED
      BY <2>1, <2>2, <2>3, <2>4
  <1>5. \A j \in 1..Len(less) : j \in 1..Len(rows) /\ j + 1 \in 1..Len(rows)
    BY <1>4
  <1>6. Distinct(less)
    <2> SUFFICES ASSUME NEW i \in 1..Len(less), NEW j \in 1..Len(less),
                        less[i] = less[j]
                 PROVE  i = j
      BY DEF Distinct
    <2>1. /\ less[i] = (IF i < it THEN rows[i] ELSE rows[i + 1])
          /\ less[j] = (IF j < it THEN rows[j] ELSE rows[j + 1])
      BY <1>4
    <2>2. /\ i \in 1..Len(rows) /\ i + 1 \in 1..Len(rows)
          /\ j \in 1..Len(rows) /\ j + 1 \in 1..Len(rows)
      BY <1>5
    <2>3. \A k, l \in 1..Len(rows) : rows[k] = rows[l] => k = l
      BY DEF Orderly, Distinct
    <2>4. (IF i < it THEN i ELSE i + 1) = (IF j < it THEN j ELSE j + 1)
      BY <2>1, <2>2, <2>3
    <2> QED
      BY <1>2, <2>4
  <1>7. \A j \in 1..Len(less) : \E i \in 1..Len(rows) : less[j] = rows[i]
    BY <1>4, <1>5
  <1>8. Fresh(less)' /\ Finished(less)' /\ Forgotten'
    BY <1>1, <1>7 DEF Orderly, Fresh, Finished, Forgotten, Appending, threadA, peers
  <1>9. Orderly(less)'
    BY <1>3, <1>6, <1>8 DEF Orderly, Distinct
  <1> QED
    BY <1>8, <1>9

LEMMA OrderPeer ==
    ASSUME NEW rows \in Seq(Conn), Eager = {}, TypeOK, Held, Forgotten, Orderly(rows),
           UNCHANGED vars \/ Crash \/ \E c \in Conn : Send(c) \/ Leave(c)
    PROVE  Orderly(rows)' /\ Forgotten'
  <1>1. Laid(rows, FALSE)' /\ UNCHANGED <<threadA, threadM, greeted>>
    BY ColumnsPeer DEF Orderly, vars, Crash, Send, Leave
  <1>2. Fresh(rows)' /\ Forgotten'
    <2>1. CASE UNCHANGED vars \/ Crash
      BY <2>1 DEF vars, Crash, peers, threadA, Orderly, Fresh, Forgotten, Appending
    <2>2. ASSUME NEW c \in Conn, Send(c) \/ Leave(c)
          PROVE  Fresh(rows)' /\ Forgotten'
      <3>1. /\ c \in greeted /\ peer[c] = "open" /\ UNCHANGED <<threadA, greeted>>
            /\ \/ inbox' = [inbox EXCEPT ![c] = TRUE] /\ peer' = peer
               \/ peer' = [peer EXCEPT ![c] = "left"] /\ inbox' = inbox
        BY <2>2 DEF Send, Leave, MaySpeak
      <3>2. Appending => newc \in Conn /\ newc # c
        BY <3>1 DEF Held, Appending, Orderly, Fresh
      <3>3. Fresh(rows)'
        BY <3>1, <3>2 DEF Orderly, Fresh, Appending, threadA, TypeOK
      <3>4. Forgotten'
        BY <3>1 DEF Forgotten, TypeOK
      <3> QED
        BY <3>3, <3>4
    <2> QED
      BY <2>1, <2>2
  <1> QED
    BY <1>1, <1>2 DEF Orderly, Finished, Distinct, threadM

LEMMA OrderStep ==
    ASSUME Eager = {}, TypeOK, TypeOK', Held, Holding, Ordered, [Next]_vars
    PROVE  Ordered'
  <1>1. PICK rows \in Seq(Conn) : Orderly(rows)
    BY DEF Ordered
  <1>2. ~strayed' /\ Forgotten
    BY NoStray DEF Ordered
  <1>3. CASE UNCHANGED vars \/ Crash \/ \E c \in Conn : Send(c) \/ Leave(c)
    BY <1>1, <1>2, <1>3, OrderPeer DEF Ordered
  <1>4. CASE ConnectionThread
    BY <1>1, <1>2, <1>4, OrderConnection DEF Ordered
  <1>5. CASE EraseId \/ EraseSocket \/ EraseOp \/ EraseAuth
    BY <1>1, <1>2, <1>5, OrderErase DEF Ordered
  <1>6. CASE EraseInterval
    BY <1>1, <1>2, <1>6, OrderEraseInterval DEF Ordered
  <1>7. CASE \/ NextRow \/ EndOfPass \/ NothingReceived \/ DataReceived
             \/ \E n \in Alias : TakeAlias(n) \/ Rename(n) \/ DirectMessage(n)
             \/ Admit \/ Complete \/ Talk \/ Answer
             \/ TellLeave \/ FreeSocket \/ Reject
    BY <1>1, <1>2, <1>7, OrderQuiet DEF Ordered
  <1> QED
    BY <1>3, <1>4, <1>5, <1>6, <1>7 DEF Next, ManageThread

LEMMA OrderInit == Init => Ordered
  <1> SUFFICES ASSUME Init
               PROVE  Ordered
    OBVIOUS
  <1>1. <<>> \in Seq(Conn) /\ \A i \in 1..Len(<<>>) : FALSE
    BY EmptySeq
  <1>2. OwnersOf(<<>>) = <<>>
    BY DEF OwnersOf
  <1>3. Laid(<<>>, FALSE)
    BY <1>2 DEF Init, Laid, Columns, InHand, Column, Full, SocketIn, IdIn, OpIn, AuthIn,
            IntervalIn, IdOut, SocketOut, OpOut, AuthOut, Disconnecting
  <1>4. Orderly(<<>>)
    BY <1>1, <1>3 DEF Init, Orderly, Fresh, Finished, Distinct, Appending
  <1> QED
    BY <1>1, <1>4 DEF Init, Ordered, Forgotten

LEMMA OrderKept ==
    ASSUME Eager = {}
    PROVE  Spec => [](TypeOK /\ Held /\ Holding /\ Ordered)
  <1>1. /\ TypeOK /\ Held /\ Holding /\ Ordered /\ TypeOK' /\ [Next]_vars => Ordered'
    BY OrderStep
  <1> QED
    BY <1>1, OrderInit, Types, PTL DEF Spec

\* If nobody sends anything or leaves before the server's public key, what the
\* manage thread does with the row in hand is done with a row that is there in
\* the vector at hand, and the connection thread uses no socket that is gone.
\* It says nothing of the statuses a broadcast reads, of which the last may be
\* missing all the same: when, is what NoStrayBetweenAccepts says.
THEOREM WaitingNeverStrays ==
    ASSUME Eager = {}
    PROVE  Spec => []NeverStrays
  <1>1. Ordered => NeverStrays
    BY DEF Ordered, NeverStrays
  <1> QED
    BY <1>1, OrderKept, PTL

LEMMA OwnRows ==
    ASSUME TypeOK, Held, NEW rows \in Seq(Conn), Orderly(rows),
           pcM \notin {"walk", "receive"}
    PROVE  /\ it \in 1..Len(rows) /\ rows[it] = client
           /\ ~IdOut => OwnRowIn(OwnersOf(ids))
           /\ ~SocketOut => OwnRowIn(sockets)
           /\ ~OpOut => OwnRowIn(ops)
           /\ ~AuthOut => OwnRowIn(OwnersOf(auths))
           /\ OwnRowIn(intervals)
  <1>1. it \in 1..Len(rows) /\ rows[it] = client /\ it <= Len(rows) /\ pcM # "walk"
    BY Reach DEF Orderly, Finished
  <1>2. SocketIn \/ IdIn \/ OpIn \/ AuthIn \/ IntervalIn => newc \in Conn
    BY DEF Held, SocketIn, IdIn, OpIn, AuthIn, IntervalIn
  <1>3. newc \in Conn => /\ it <= Len(Append(rows, newc))
                         /\ Append(rows, newc)[it] = rows[it]
    BY <1>1
  <1> QED
    BY <1>1, <1>2, <1>3 DEF Orderly, Laid, Columns, Column, Full, OwnRowIn

\* disconnectClient takes the row of the client it was called for, and no
\* other, out of each vector.
THEOREM WaitingErasesOwnRow ==
    ASSUME Eager = {}
    PROVE  Spec => []ErasesOwnRow
  <1>1. ASSUME TypeOK, Held, Ordered
        PROVE  ErasesOwnRow
    <2>1. PICK rows \in Seq(Conn) : Orderly(rows)
      BY <1>1 DEF Ordered
    <2>2. CASE pcM = "erase_id" \/ Disconnecting
      <3>1. /\ ~IdOut => OwnRowIn(OwnersOf(ids))
            /\ ~SocketOut => OwnRowIn(sockets)
            /\ ~OpOut => OwnRowIn(ops)
            /\ ~AuthOut => OwnRowIn(OwnersOf(auths))
            /\ OwnRowIn(intervals)
        BY <1>1, <2>1, <2>2, OwnRows DEF Disconnecting
      <3> QED
        BY <3>1 DEF ErasesOwnRow, IdOut, SocketOut, OpOut, AuthOut, Disconnecting
    <2> QED
      BY <2>2 DEF ErasesOwnRow, Disconnecting
  <1> QED
    BY <1>1, OrderKept, PTL

-----------------------------------------------------------------------------
(* Who has which row.                                                      *)

HasRow(s, c, v) == \E i \in 1..Len(s) : s[i].of = c /\ s[i].val = v

LEMMA ContainsFull ==
    ASSUME NEW rows \in Seq(Conn), Distinct(rows), NEW c \in Conn, ~Contains(rows, c)
    PROVE  /\ Distinct(Append(rows, c))
           /\ \A d : Contains(Append(rows, c), d) <=> Contains(rows, d) \/ d = c
  <1> DEFINE full == Append(rows, c)
  <1>1. /\ Len(rows) \in Nat /\ Len(full) = Len(rows) + 1 /\ full[Len(rows) + 1] = c
        /\ \A i \in 1..Len(rows) : full[i] = rows[i]
    OBVIOUS
  <1> HIDE DEF full
  <1>2. Distinct(full)
    BY <1>1 DEF Distinct, Contains
  <1>3. ASSUME NEW d
        PROVE  Contains(full, d) <=> Contains(rows, d) \/ d = c
    <2>1. Len(rows) + 1 \in 1..Len(full) /\ \A i \in 1..Len(rows) : i \in 1..Len(full)
      BY <1>1
    <2>2. \A i \in 1..Len(full) : i \in 1..Len(rows) \/ i = Len(rows) + 1
      BY <1>1
    <2> QED
      BY <1>1, <2>1, <2>2 DEF Contains
  <1> QED
    BY <1>2, <1>3 DEF full

LEMMA ContainsRemoved ==
    ASSUME NEW v \in Seq(Conn), Distinct(v), NEW i \in 1..Len(v)
    PROVE  /\ Distinct(RemoveAt(v, i))
           /\ \A d : Contains(RemoveAt(v, i), d) <=> Contains(v, d) /\ d # v[i]
  <1> DEFINE less == RemoveAt(v, i)
  <1>1. /\ Len(less) = Len(v) - 1 /\ Len(v) \in Nat
        /\ \A j \in 1..Len(v) - 1 : less[j] = IF j < i THEN v[j] ELSE v[j + 1]
    BY RemoveAtProperties
  <1> HIDE DEF less
  <1> DEFINE at(j) == IF j < i THEN j ELSE j + 1
  <1>2. \A j \in 1..Len(less) : at(j) \in 1..Len(v) /\ at(j) # i /\ less[j] = v[at(j)]
    BY <1>1
  <1>3. \A j \in 1..Len(less), k \in 1..Len(less) : at(j) = at(k) => j = k
    BY <1>1
  <1>4. \A k \in 1..Len(v) : k # i => \E j \in 1..Len(less) : at(j) = k
    <2> SUFFICES ASSUME NEW k \in 1..Len(v), k # i
                 PROVE  \E j \in 1..Len(less) : at(j) = k
      OBVIOUS
    <2>1. CASE k < i
      <3>1. k \in 1..Len(less) /\ at(k) = k
        BY <1>1, <2>1
      <3> QED
        BY <3>1
    <2>2. CASE k > i
      <3>1. k - 1 \in 1..Len(less) /\ at(k - 1) = k
        BY <1>1, <2>2
      <3> QED
        BY <3>1
    <2> QED
      BY <2>1, <2>2
  <1> HIDE DEF at
  <1>5. Distinct(less)
    BY <1>2, <1>3 DEF Distinct
  <1>6. \A d : Contains(less, d) <=> Contains(v, d) /\ d # v[i]
    <2>1. ASSUME NEW d, Contains(less, d)
          PROVE  Contains(v, d) /\ d # v[i]
      <3>1. PICK j \in 1..Len(less) : less[j] = d
        BY <2>1 DEF Contains
      <3>2. v[at(j)] = d /\ at(j) \in 1..Len(v) /\ at(j) # i
        BY <1>2, <3>1
      <3> QED
        BY <3>2 DEF Contains, Distinct
    <2>2. ASSUME NEW d, Contains(v, d), d # v[i]
          PROVE  Contains(less, d)
      <3>1. PICK k \in 1..Len(v) : v[k] = d
        BY <2>2 DEF Contains
      <3>2. PICK j \in 1..Len(less) : at(j) = k
        BY <1>4, <2>2, <3>1
      <3> QED
        BY <1>2, <3>1, <3>2 DEF Contains
    <2> QED
      BY <2>1, <2>2
  <1> QED
    BY <1>5, <1>6 DEF less

\* Owners and values of the rows of a vector.
LEMMA RowsHeld ==
    ASSUME NEW V, NEW s \in Rows(V), Distinct(OwnersOf(s))
    PROVE  /\ \A c : Contains(OwnersOf(s), c) <=> \E v \in V : HasRow(s, c, v)
           /\ \A c : c \in Owners(s) <=> Contains(OwnersOf(s), c)
           /\ \A c, v, w : HasRow(s, c, v) /\ HasRow(s, c, w) => v = w
           /\ \A c, v : HasRow(s, c, v) => c \in Conn /\ v \in V
           /\ \A i \in 1..Len(s) : HasRow(s, s[i].of, s[i].val)
  BY OwnersProperties DEF Contains, HasRow, Owners, Distinct

LEMMA RowsAppended ==
    ASSUME NEW V, NEW s \in Rows(V), NEW d \in Conn, NEW w \in V
    PROVE  \A c, v : HasRow(Append(s, Row(d, w)), c, v) <=>
                        HasRow(s, c, v) \/ (c = d /\ v = w)
  <1> DEFINE t == Append(s, Row(d, w))
  <1>1. Row(d, w) \in [of : Conn, val : V] /\ Row(d, w).of = d /\ Row(d, w).val = w
    BY DEF Row
  <1>2. /\ Len(s) \in Nat /\ Len(t) = Len(s) + 1
        /\ t[Len(s) + 1].of = d /\ t[Len(s) + 1].val = w
        /\ \A i \in 1..Len(s) : t[i] = s[i]
    BY <1>1 DEF Rows
  <1> HIDE DEF t
  <1>3. /\ Len(s) + 1 \in 1..Len(t) /\ \A i \in 1..Len(s) : i \in 1..Len(t)
        /\ \A i \in 1..Len(t) : i \in 1..Len(s) \/ i = Len(s) + 1
    BY <1>2
  <1>4. ASSUME NEW c, NEW v
        PROVE  HasRow(t, c, v) <=> HasRow(s, c, v) \/ (c = d /\ v = w)
    <2>1. ASSUME HasRow(t, c, v)
          PROVE  HasRow(s, c, v) \/ (c = d /\ v = w)
      <3>1. PICK i \in 1..Len(t) : t[i].of = c /\ t[i].val = v
        BY <2>1 DEF HasRow
      <3>2. CASE i \in 1..Len(s)
        <4>1. s[i].of = c /\ s[i].val = v
          BY <1>2, <3>1, <3>2
        <4> QED
          BY <3>2, <4>1 DEF HasRow
      <3>3. CASE i = Len(s) + 1
        BY <1>2, <3>1, <3>3
      <3> QED
        BY <1>3, <3>2, <3>3
    <2>2. HasRow(s, c, v) => HasRow(t, c, v)
      BY <1>2, <1>3 DEF HasRow
    <2>3. c = d /\ v = w => HasRow(t, c, v)
      BY <1>2, <1>3 DEF HasRow
    <2> QED
      BY <2>1, <2>2, <2>3
  <1> QED
    BY <1>4 DEF t

LEMMA RowsRemoved ==
    ASSUME NEW V, NEW s \in Rows(V), Distinct(OwnersOf(s)), NEW i \in 1..Len(s)
    PROVE  \A c, v : HasRow(RemoveAt(s, i), c, v) <=> HasRow(s, c, v) /\ c # s[i].of
  <1> DEFINE t == RemoveAt(s, i)
             at(j) == IF j < i THEN j ELSE j + 1
  <1>1. /\ t \in Rows(V) /\ Len(t) = Len(s) - 1 /\ Len(s) \in Nat
        /\ \A j \in 1..Len(s) - 1 : t[j] = IF j < i THEN s[j] ELSE s[j + 1]
    BY RemoveAtProperties DEF Rows
  <1> HIDE DEF t
  <1>2. \A j \in 1..Len(t) : at(j) \in 1..Len(s) /\ at(j) # i /\ t[j] = s[at(j)]
    BY <1>1
  <1>3. \A k \in 1..Len(s) : k # i => \E j \in 1..Len(t) : at(j) = k
    <2> SUFFICES ASSUME NEW k \in 1..Len(s), k # i
                 PROVE  \E j \in 1..Len(t) : at(j) = k
      OBVIOUS
    <2>1. CASE k < i
      <3>1. k \in 1..Len(t) /\ at(k) = k
        BY <1>1, <2>1
      <3> QED
        BY <3>1
    <2>2. CASE k > i
      <3>1. k - 1 \in 1..Len(t) /\ at(k - 1) = k
        BY <1>1, <2>2
      <3> QED
        BY <3>1
    <2> QED
      BY <2>1, <2>2
  <1> HIDE DEF at
  <1>4. \A j, k \in 1..Len(s) : s[j].of = s[k].of => j = k
    BY OwnersProperties DEF Distinct
  <1>5. ASSUME NEW c, NEW v
        PROVE  HasRow(t, c, v) <=> HasRow(s, c, v) /\ c # s[i].of
    <2>1. ASSUME HasRow(t, c, v)
          PROVE  HasRow(s, c, v) /\ c # s[i].of
      <3>1. PICK j \in 1..Len(t) : t[j].of = c /\ t[j].val = v
        BY <2>1 DEF HasRow
      <3>2. t[j] = s[at(j)] /\ at(j) \in 1..Len(s) /\ at(j) # i
        BY <1>2, <3>1
      <3> QED
        BY <1>4, <3>1, <3>2 DEF HasRow
    <2>2. ASSUME HasRow(s, c, v), c # s[i].of
          PROVE  HasRow(t, c, v)
      <3>1. PICK k \in 1..Len(s) : s[k].of = c /\ s[k].val = v
        BY <2>2 DEF HasRow
      <3>2. PICK j \in 1..Len(t) : at(j) = k
        BY <1>3, <2>2, <3>1
      <3> QED
        BY <1>2, <3>1, <3>2 DEF HasRow
    <2> QED
      BY <2>1, <2>2
  <1> QED
    BY <1>5 DEF t

LEMMA RowsAssigned ==
    ASSUME NEW V, NEW s \in Rows(V), Distinct(OwnersOf(s)), NEW w \in V,
           it \in 1..Len(s)
    PROVE  \A c, v : HasRow(Assign(s, w), c, v) <=>
                        IF c = s[it].of THEN v = w ELSE HasRow(s, c, v)
  <1> DEFINE t == Assign(s, w)
  <1>1. /\ Len(t) = Len(s)
        /\ \A i \in 1..Len(s) : /\ t[i].of = s[i].of
                                /\ t[i].val = IF i = it THEN w ELSE s[i].val
    <2>1. it \in Nat \ {0}
      BY DEF Rows
    <2> QED
      BY <2>1, AssignProperties
  <1> HIDE DEF t
  <1>2. \A j, k \in 1..Len(s) : s[j].of = s[k].of => j = k
    BY OwnersProperties DEF Distinct
  <1>3. ASSUME NEW c, NEW v
        PROVE  HasRow(t, c, v) <=> IF c = s[it].of THEN v = w ELSE HasRow(s, c, v)
    BY <1>1, <1>2 DEF HasRow
  <1> QED
    BY <1>3 DEF t

\* Whose rows a column holds.
LEMMA ColumnPlaced ==
    ASSUME NEW rows \in Seq(Conn), Distinct(rows), NEW c, NEW pos \in Nat \ {0}, NEW v,
           NEW in \in BOOLEAN, NEW out \in BOOLEAN, Column(v, rows, c, pos, in, out),
           in => c \in Conn /\ ~Contains(rows, c)
    PROVE  /\ Distinct(v)
           /\ \A d : Contains(v, d) <=> /\ Contains(rows, d) \/ (in /\ d = c)
                                        /\ ~(out /\ d = Full(rows, c, in)[pos])
  <1> DEFINE full == Full(rows, c, in)
  <1>1. /\ full \in Seq(Conn) /\ Distinct(full)
        /\ \A d : Contains(full, d) <=> Contains(rows, d) \/ (in /\ d = c)
    <2>1. CASE in
      BY <2>1, ContainsFull DEF Full
    <2>2. CASE ~in
      BY <2>2 DEF Full
    <2> QED
      BY <2>1, <2>2
  <1>2. /\ out => pos <= Len(full) /\ v = RemoveAt(full, pos)
        /\ ~out => v = full
    BY DEF Column
  <1> HIDE DEF full
  <1>3. /\ Distinct(v)
        /\ \A d : Contains(v, d) <=> Contains(full, d) /\ ~(out /\ d = full[pos])
    <2>1. CASE out
      <3>1. pos \in 1..Len(full)
        BY <1>1, <1>2, <2>1
      <3> QED
        BY <1>1, <1>2, <2>1, <3>1, ContainsRemoved
    <2>2. CASE ~out
      BY <1>1, <1>2, <2>2
    <2> QED
      BY <2>1, <2>2
  <1> QED
    BY <1>1, <1>3 DEF full

\* The rows of the client in hand and of the one that is being appended; every
\* append adds a row.
Known ==
    /\ owed = {}
    /\ Distinct(OwnersOf(ids)) /\ Distinct(OwnersOf(auths))
    /\ Appending =>
          /\ newc \in Owners(ids) <=> IdIn
          /\ newc \in Owners(auths) <=> AuthIn
    /\ pcM \notin {"walk", "receive"} =>
          /\ ~IdOut => it \in 1..Len(ids) /\ ids[it].of = client
          /\ ~AuthOut => it \in 1..Len(auths) /\ auths[it].of = client
          /\ IdOut => client \notin Owners(ids)
          /\ Appending => client # newc

LEMMA RowsKnown ==
    ASSUME TypeOK, Held, Ordered
    PROVE  Known
  <1>1. PICK rows \in Seq(Conn) : Orderly(rows)
    BY DEF Ordered
  <1>2. /\ Distinct(rows) /\ it \in Nat \ {0}
        /\ Appending => newc \in Conn /\ ~Contains(rows, newc)
        /\ IdIn => newc \in Conn /\ ~Contains(rows, newc)
        /\ AuthIn => newc \in Conn /\ ~Contains(rows, newc)
    BY <1>1 DEF Orderly, Fresh, Held, Appending, Contains, IdIn, AuthIn, TypeOK
  <1>3. IdIn \in BOOLEAN /\ AuthIn \in BOOLEAN /\ IdOut \in BOOLEAN /\ AuthOut \in BOOLEAN
    BY DEF IdIn, AuthIn, IdOut, AuthOut, Disconnecting
  <1>4. /\ Column(OwnersOf(ids), rows, newc, it, IdIn, IdOut)
        /\ Column(OwnersOf(auths), rows, newc, it, AuthIn, AuthOut)
    BY <1>1, <1>3 DEF Orderly, Laid, Columns
  <1>5. /\ Distinct(OwnersOf(ids))
        /\ \A d : Contains(OwnersOf(ids), d) <=>
                     /\ Contains(rows, d) \/ (IdIn /\ d = newc)
                     /\ ~(IdOut /\ d = Full(rows, newc, IdIn)[it])
    BY <1>2, <1>3, <1>4, ColumnPlaced
  <1>6. /\ Distinct(OwnersOf(auths))
        /\ \A d : Contains(OwnersOf(auths), d) <=>
                     /\ Contains(rows, d) \/ (AuthIn /\ d = newc)
                     /\ ~(AuthOut /\ d = Full(rows, newc, AuthIn)[it])
    BY <1>2, <1>3, <1>4, ColumnPlaced
  <1>7. /\ \A d : d \in Owners(ids) <=> Contains(OwnersOf(ids), d)
        /\ \A d : d \in Owners(auths) <=> Contains(OwnersOf(auths), d)
    BY <1>5, <1>6, RowsHeld DEF TypeOK
  <1>8. ASSUME pcM \notin {"walk", "receive"}
        PROVE  /\ ~IdOut => it \in 1..Len(ids) /\ ids[it].of = client
               /\ ~AuthOut => it \in 1..Len(auths) /\ auths[it].of = client
               /\ Contains(rows, client)
               /\ Full(rows, newc, IdIn)[it] = client
               /\ Full(rows, newc, AuthIn)[it] = client
    <2>1. it \in 1..Len(rows) /\ rows[it] = client
      BY <1>1, <1>8, OwnRows
    <2>2. /\ ~IdOut => OwnRowIn(OwnersOf(ids))
          /\ ~AuthOut => OwnRowIn(OwnersOf(auths))
      BY <1>1, <1>8, OwnRows
    <2>3. /\ ~IdOut => it \in 1..Len(ids) /\ ids[it].of = client
          /\ ~AuthOut => it \in 1..Len(auths) /\ auths[it].of = client
      BY <1>2, <2>2, OwnersProperties DEF OwnRowIn, TypeOK
    <2>4. newc \in Conn => Append(rows, newc)[it] = client
      BY <2>1
    <2> QED
      BY <1>2, <2>1, <2>3, <2>4 DEF Contains, Full
  <1>9. IdOut \/ AuthOut => pcM \notin {"walk", "receive"}
    BY DEF IdOut, AuthOut, Disconnecting
  <1>10. Appending /\ pcM \notin {"walk", "receive"} => client # newc
    BY <1>2, <1>8
  <1>11. Appending => /\ newc \in Owners(ids) <=> IdIn
                      /\ newc \in Owners(auths) <=> AuthIn
    BY <1>2, <1>5, <1>6, <1>7, <1>8, <1>9, <1>10
  <1>12. owed = {}
    BY <1>1 DEF Orderly, Laid
  <1> QED
    BY <1>5, <1>6, <1>7, <1>8, <1>9, <1>10, <1>11, <1>12 DEF Known

-----------------------------------------------------------------------------
(* What the rows say.                                                      *)

\* An alias is taken with the credentials, just before the status says so.
Agree ==
    \A c, a, s : HasRow(ids, c, a) /\ HasRow(auths, c, s) =>
        IF pcM = "admit" /\ c = client
        THEN a # NoAlias /\ s = "Undone"
        ELSE a = NoAlias <=> s = "Undone"
Unique == \A c, d, a : HasRow(ids, c, a) /\ HasRow(ids, d, a) /\ a # NoAlias => c = d
Blank == Appending /\ ~AuthIn => \A a : HasRow(ids, newc, a) => a = NoAlias
\* What is done with a message fits the status its sender has.
Seen == pcM \in Status => \A s : HasRow(auths, client, s) => s = pcM
Values == Agree /\ Unique /\ Blank /\ Seen

\* What a step makes of the rows.
LEMMA ValuesSame ==
    ASSUME Values, UNCHANGED <<ids, auths>>, pcM' = "admit" <=> pcM = "admit",
           client' = client \/ pcM' # "admit", Blank', Seen'
    PROVE  Values'
  BY DEF Values, Agree, Unique

LEMMA ValuesConnection ==
    ASSUME TypeOK, TypeOK', Held, Known, Known', Values, ConnectionThread
    PROVE  Values'
  <1>1. UNCHANGED <<pcM, client>>
    BY DEF ConnectionThread, AcceptConn, NewConn, AcceptFails, PushSocket, PushId, PushOp,
           PushAuth, PushInterval, Greet, Pushing, Accepting, threadM
  <1>2. CASE \/ \E c \in Conn : AcceptConn(c)
             \/ AcceptFails \/ PushSocket \/ PushOp \/ PushInterval \/ Greet
    <2>1. UNCHANGED <<ids, auths>>
      BY <1>2 DEF AcceptConn, NewConn, AcceptFails, PushSocket, PushOp, PushInterval, Greet,
            vectors
    <2>2. Blank'
      <3>1. CASE \E c \in Conn : AcceptConn(c)
        <4>1. Appending' /\ ~IdIn'
          BY <3>1 DEF AcceptConn, NewConn, Accepting, Appending, IdIn
        <4>2. newc' \notin Owners(ids')
          BY <4>1 DEF Known
        <4> QED
          BY <4>2 DEF Blank, HasRow, Owners
      <3>2. CASE AcceptFails \/ PushInterval \/ Greet
        BY <3>2 DEF AcceptFails, PushInterval, Greet, Pushing, Accepting, Appending, AuthIn,
              Blank
      <3>3. CASE PushSocket \/ PushOp
        BY <2>1, <3>3 DEF PushSocket, PushOp, Pushing, Accepting, Appending, AuthIn, Blank,
              Values
      <3> QED
        BY <1>2, <3>1, <3>2, <3>3
    <2>3. Seen'
      BY <1>1, <2>1 DEF Values, Seen
    <2> QED
      BY <1>1, <2>1, <2>2, <2>3, ValuesSame
  <1>3. CASE PushId
    <2>1. /\ ids' = Append(ids, Row(newc, NoAlias)) /\ UNCHANGED <<auths, newc>>
          /\ Appending /\ ~IdIn /\ ~AuthIn /\ newc \in Conn /\ ~AuthIn'
      BY <1>3 DEF PushId, Pushed, Known, Pushing, Accepting, Appending, IdIn, AuthIn, Held
    <2>2. \A c, a : HasRow(ids', c, a) <=> HasRow(ids, c, a) \/ (c = newc /\ a = NoAlias)
      <3>1. ids \in Rows(Alias \cup {NoAlias}) /\ NoAlias \in Alias \cup {NoAlias}
        BY DEF TypeOK
      <3> QED
        BY <2>1, <3>1, RowsAppended
    <2>3. \A v : ~HasRow(ids, newc, v) /\ ~HasRow(auths, newc, v)
      BY <2>1 DEF Known, HasRow, Owners
    <2>4. Agree'
      BY <1>1, <2>1, <2>2, <2>3 DEF Values, Agree
    <2>5. Unique'
      BY <2>2 DEF Values, Unique
    <2>6. Blank'
      BY <2>1, <2>2, <2>3 DEF Blank
    <2>7. Seen'
      BY <1>1, <2>1 DEF Values, Seen
    <2> QED
      BY <2>4, <2>5, <2>6, <2>7 DEF Values
  <1>4. CASE PushAuth
    <2>1. /\ auths' = Append(auths, Row(newc, "Undone")) /\ UNCHANGED <<ids, newc>>
          /\ Appending /\ ~AuthIn /\ newc \in Conn /\ AuthIn' /\ "Undone" \in Status
      BY <1>4 DEF PushAuth, Pushed, Known, Pushing, Accepting, Appending, AuthIn, Held, Status
    <2>2. \A c, s : HasRow(auths', c, s) <=> HasRow(auths, c, s) \/ (c = newc /\ s = "Undone")
      BY <2>1, RowsAppended DEF TypeOK
    <2>3. \A v : ~HasRow(auths, newc, v)
      BY <2>1 DEF Known, HasRow, Owners
    <2>4. \A a : HasRow(ids, newc, a) => a = NoAlias
      BY <2>1 DEF Values, Blank
    <2>5. pcM \in Status \cup {"admit"} => client # newc
      BY <2>1 DEF Known, Status
    <2>6. Agree'
      BY <1>1, <2>1, <2>2, <2>3, <2>4, <2>5 DEF Values, Agree
    <2>7. Unique'
      BY <2>1 DEF Values, Unique
    <2>8. Blank'
      BY <2>1 DEF Blank
    <2>9. Seen'
      BY <1>1, <2>2, <2>5 DEF Values, Seen
    <2> QED
      BY <2>6, <2>7, <2>8, <2>9 DEF Values
  <1> QED
    BY <1>2, <1>3, <1>4 DEF ConnectionThread

LEMMA ValuesHandle ==
    ASSUME TypeOK, TypeOK', Known, Values,
           \/ \E n \in Alias : TakeAlias(n) \/ Rename(n)
           \/ Admit \/ Complete
    PROVE  Values'
  <1>1. /\ pcM \in Status \cup {"admit"} /\ UNCHANGED threadA
        /\ pcM' \notin Status
    BY DEF TakeAlias, Rename, Admit, Complete, Handling, Managing, Goto, RowDone, Status
  <1>2. /\ it \in 1..Len(ids) /\ ids[it].of = client
        /\ it \in 1..Len(auths) /\ auths[it].of = client
        /\ Appending => client # newc
        /\ Distinct(OwnersOf(ids)) /\ Distinct(OwnersOf(auths))
    BY <1>1 DEF Known, Status, IdOut, AuthOut, Disconnecting
  <1>3. (Appending' <=> Appending) /\ (AuthIn' <=> AuthIn) /\ newc' = newc
    BY <1>1 DEF threadA, Appending, AuthIn
  <1>4. \A s : HasRow(auths, client, s) /\ pcM \in Status => s = pcM
    BY DEF Values, Seen
  <1>5. Seen'
    BY <1>1 DEF Seen
  <1>6. ASSUME NEW n \in Alias, TakeAlias(n) \/ Rename(n)
        PROVE  Values'
    <2>1. /\ UNCHANGED auths /\ ids' = Assign(ids, n)
          /\ \A i \in 1..Len(ids) : ids[i].val # n
          /\ \/ pcM = "Undone" /\ pcM' = "admit" /\ client' = client
             \/ pcM = "Done" /\ pcM' = "walk"
      BY <1>6 DEF TakeAlias, Rename, SetAlias, AliasFree, Handling, Managing, Goto, RowDone
    <2>2. \A c, a : HasRow(ids', c, a) <=> IF c = client THEN a = n ELSE HasRow(ids, c, a)
      <3>1. ids \in Rows(Alias \cup {NoAlias}) /\ Distinct(OwnersOf(ids))
        BY <1>2 DEF TypeOK
      <3>2. \A c, a : HasRow(Assign(ids, n), c, a) <=>
                            IF c = ids[it].of THEN a = n ELSE HasRow(ids, c, a)
        BY <1>2, <3>1, RowsAssigned
      <3> QED
        BY <1>2, <2>1, <3>2
    <2>3. n # NoAlias /\ \A c : ~HasRow(ids, c, n)
      BY <2>1, AliasAssumption DEF HasRow
    <2>4. Agree'
      BY <1>4, <2>1, <2>2, <2>3 DEF Values, Agree, Status
    <2>5. Unique'
      BY <2>2, <2>3 DEF Values, Unique
    <2>6. Blank'
      BY <1>2, <1>3, <2>2 DEF Values, Blank
    <2> QED
      BY <1>5, <2>4, <2>5, <2>6 DEF Values
  <1>7. CASE Admit \/ Complete
    <2>1. PICK st \in {"KeyReceived", "Done"} :
             /\ UNCHANGED ids /\ auths' = Assign(auths, st) /\ pcM' = "walk"
             /\ pcM \in {"admit", "KeyReceived"}
      BY <1>7 DEF Admit, Complete, SetStatus, Handling, Managing, RowDone
    <2>2. \A c, s : HasRow(auths', c, s) <=>
                       IF c = client THEN s = st ELSE HasRow(auths, c, s)
      <3>1. auths \in Rows(Status) /\ st \in Status
        BY DEF TypeOK, Status
      <3> QED
        BY <1>2, <2>1, <3>1, RowsAssigned
    <2>3. HasRow(auths, client, auths[it].val)
      BY <1>2 DEF HasRow
    <2>4. \A a : HasRow(ids, client, a) => a # NoAlias
      BY <1>4, <2>1, <2>3 DEF Values, Agree, Status
    <2>5. Agree'
      BY <2>1, <2>2, <2>4 DEF Values, Agree
    <2>6. Unique' /\ Blank'
      BY <1>3, <2>1 DEF Values, Unique, Blank
    <2> QED
      BY <1>5, <2>5, <2>6 DEF Values
  <1> QED
    BY <1>6, <1>7

LEMMA ValuesErase ==
    ASSUME TypeOK, TypeOK', ~strayed', Known, Values, EraseId \/ EraseAuth
    PROVE  Values'
  <1>1. /\ UNCHANGED threadA /\ it \in Nat
        /\ pcM \in {"erase_id", "erase_auth"} /\ pcM' \notin Status \cup {"admit"}
    BY DEF EraseId, EraseAuth, Erasing, Managing, Goto, Status, TypeOK
  <1>2. (Appending' <=> Appending) /\ (AuthIn' <=> AuthIn) /\ newc' = newc
    BY <1>1 DEF threadA, Appending, AuthIn
  <1>3. /\ \A c, a : HasRow(ids', c, a) => HasRow(ids, c, a)
        /\ \A c, s : HasRow(auths', c, s) => HasRow(auths, c, s)
    <2>1. CASE EraseId
      <3>1. /\ UNCHANGED auths /\ ids' = EraseAt(ids, it)
            /\ it \in 1..Len(ids) /\ Distinct(OwnersOf(ids))
        BY <2>1 DEF EraseId, Managing, Erasing, Known, IdOut, Disconnecting
      <3>2. ids' = RemoveAt(ids, it)
        BY <3>1 DEF EraseAt
      <3> QED
        BY <3>1, <3>2, RowsRemoved DEF TypeOK
    <2>2. CASE EraseAuth
      <3>1. /\ UNCHANGED ids /\ auths' = EraseAt(auths, it)
            /\ it \in 1..Len(auths) /\ Distinct(OwnersOf(auths))
        BY <2>2 DEF EraseAuth, Managing, Erasing, Known, AuthOut
      <3>2. auths' = RemoveAt(auths, it)
        BY <3>1 DEF EraseAt
      <3>3. auths \in Rows(Status)
        BY DEF TypeOK
      <3> QED
        BY <3>1, <3>2, <3>3, RowsRemoved
    <2> QED
      BY <2>1, <2>2
  <1>4. Agree'
    BY <1>1, <1>3 DEF Values, Agree
  <1>5. Unique'
    BY <1>3 DEF Values, Unique
  <1>6. Blank'
    BY <1>2, <1>3 DEF Values, Blank
  <1>7. Seen'
    BY <1>1 DEF Seen
  <1> QED
    BY <1>4, <1>5, <1>6, <1>7 DEF Values

LEMMA ValuesStep ==
    ASSUME TypeOK, TypeOK', Held, ~strayed', Known, Known', Values, [Next]_vars
    PROVE  Values'
  <1>1. CASE UNCHANGED vars \/ Crash \/ \E c \in Conn : Send(c) \/ Leave(c)
    <2>1. UNCHANGED <<ids, auths, pcA, newc, pcM, client>>
      BY <1>1 DEF vars, vectors, threadA, threadM, Crash, Send, Leave
    <2> QED
      BY <2>1 DEF Values, Agree, Unique, Blank, Seen, Appending, AuthIn
  <1>2. CASE \/ NextRow \/ EndOfPass \/ NothingReceived
             \/ \E n \in Alias : DirectMessage(n)
             \/ Talk \/ Answer \/ TellLeave \/ FreeSocket \/ Reject
             \/ EraseSocket \/ EraseOp \/ EraseInterval
    <2>1. /\ UNCHANGED <<ids, auths, threadA>>
          /\ pcM # "admit" /\ pcM' # "admit" /\ pcM' \notin Status
      BY <1>2 DEF NextRow, EndOfPass, NothingReceived, DirectMessage, Talk, Answer, TellLeave,
            FreeSocket, Reject, EraseSocket, EraseOp, EraseInterval, Erasing, Handling,
            Managing, Goto, RowDone, Status, vectors
    <2>2. Blank' /\ Seen'
      BY <2>1 DEF Values, Blank, Seen, Appending, AuthIn, threadA
    <2> QED
      BY <2>1, <2>2, ValuesSame
  <1>3. CASE DataReceived
    <2>1. PICK s \in StatusAt(it) : pcM' = s /\ UNCHANGED <<it, client>>
      BY <1>3 DEF DataReceived, Goto
    <2>2. UNCHANGED <<ids, auths, threadA>> /\ pcM = "receive" /\ s \in Status
      BY <1>3, <2>1, StatusRead DEF DataReceived, Managing, vectors
    <2>3. it \in 1..Len(auths) /\ auths[it].of = client
      BY <2>1, <2>2 DEF Known, Status, AuthOut
    <2>4. s = auths[it].val
      BY <2>1, <2>3 DEF StatusAt
    <2>5. HasRow(auths, client, s)
      BY <2>3, <2>4 DEF HasRow
    <2>6. \A v, w : HasRow(auths, client, v) /\ HasRow(auths, client, w) => v = w
      BY RowsHeld DEF TypeOK, Known
    <2>7. Seen'
      BY <2>1, <2>2, <2>5, <2>6 DEF Seen
    <2>8. Blank'
      BY <2>2 DEF Values, Blank, Appending, AuthIn, threadA
    <2> QED
      BY <2>1, <2>2, <2>7, <2>8, ValuesSame DEF Status
  <1>4. CASE \/ \E n \in Alias : TakeAlias(n) \/ Rename(n)
             \/ Admit \/ Complete
    BY <1>4, ValuesHandle
  <1>5. CASE EraseId \/ EraseAuth
    BY <1>5, ValuesErase
  <1>6. CASE ConnectionThread
    BY <1>6, ValuesConnection
  <1> QED
    BY <1>1, <1>2, <1>3, <1>4, <1>5, <1>6 DEF Next, ManageThread

LEMMA ValuesKept ==
    ASSUME Eager = {}
    PROVE  Spec => [](TypeOK /\ Held /\ Ordered /\ Known /\ Values)
  <1>1. Init => Values
    BY DEF Init, Values, Agree, Unique, Blank, Seen, HasRow, Appending, Status
  <1>2. TypeOK /\ Held /\ Ordered => Known
    BY RowsKnown
  <1>3. Ordered => ~strayed
    BY DEF Ordered
  <1>4. /\ TypeOK /\ TypeOK' /\ Held /\ ~strayed' /\ Known /\ Known' /\ Values
        /\ [Next]_vars
        => Values'
    BY ValuesStep
  <1> QED
    BY <1>1, <1>2, <1>3, <1>4, OrderKept, PTL DEF Spec

-----------------------------------------------------------------------------
(* The table of connections.                                               *)

\* What the table shows of a connection.
Reads ==
    /\ \A c, a, s : HasRow(ids, c, a) /\ HasRow(auths, c, s) =>
          /\ StageOf(c) = s
          /\ AliasOf(c) = IF s = "Undone" THEN NoAlias ELSE a
    /\ \A c : c \notin Owners(ids) \/ c \notin Owners(auths) =>
          StageOf(c) = "none" /\ AliasOf(c) = NoAlias

LEMMA RowsRead ==
    ASSUME TypeOK, Known
    PROVE  Reads
  <1>1. auths \in Rows(Status) /\ ids \in Rows(Alias \cup {NoAlias})
    BY DEF TypeOK
  <1>2. ASSUME NEW c, NEW a, NEW s, HasRow(ids, c, a), HasRow(auths, c, s)
        PROVE  /\ StageOf(c) = s
               /\ AliasOf(c) = IF s = "Undone" THEN NoAlias ELSE a
    <2> DEFINE mine == {i \in 1..Len(auths) : auths[i].of = c}
               place == CHOOSE i \in mine : TRUE
               spot == CHOOSE i \in 1..Len(ids) : ids[i].of = c
    <2>1. \A v, w : HasRow(auths, c, v) /\ HasRow(auths, c, w) => v = w
      BY <1>1, RowsHeld DEF Known
    <2>2. \A v, w : HasRow(ids, c, v) /\ HasRow(ids, c, w) => v = w
      BY <1>1, RowsHeld DEF Known
    <2>3. mine # {} /\ c \in Owners(ids)
      BY <1>2 DEF HasRow, Owners
    <2>4. place \in 1..Len(auths) /\ auths[place].of = c
      BY <2>3
    <2>5. spot \in 1..Len(ids) /\ ids[spot].of = c
      BY <1>2 DEF HasRow
    <2>6. auths[place].val = s
      BY <1>2, <2>1, <2>4 DEF HasRow
    <2>7. ids[spot].val = a
      BY <1>2, <2>2, <2>5 DEF HasRow
    <2>8. StageOf(c) = s
      BY <2>3, <2>6 DEF StageOf
    <2>9. s \in Status
      BY <1>1, <1>2, RowsHeld DEF Known
    <2>10. AliasOf(c) = IF s = "Undone" THEN NoAlias ELSE a
      BY <2>7, <2>8, <2>9 DEF AliasOf, Status
    <2> QED
      BY <2>8, <2>10
  <1>3. ASSUME NEW c, c \notin Owners(ids) \/ c \notin Owners(auths)
        PROVE  StageOf(c) = "none" /\ AliasOf(c) = NoAlias
    <2>1. StageOf(c) = "none"
      BY <1>3 DEF StageOf, Owners
    <2> QED
      BY <2>1 DEF AliasOf
  <1> QED
    BY <1>2, <1>3 DEF Reads

LEMMA SameReading ==
    ASSUME Reads, Reads', NEW c,
           \/ /\ \A a : HasRow(ids', c, a) <=> HasRow(ids, c, a)
              /\ \A s : HasRow(auths', c, s) <=> HasRow(auths, c, s)
           \/ /\ c \notin Owners(ids) \/ c \notin Owners(auths)
              /\ c \notin Owners(ids') \/ c \notin Owners(auths')
    PROVE  StageOf(c)' = StageOf(c) /\ AliasOf(c)' = AliasOf(c)
  <1>1. /\ \A d : d \in Owners(ids) <=> \E a : HasRow(ids, d, a)
        /\ \A d : d \in Owners(auths) <=> \E a : HasRow(auths, d, a)
        /\ \A d : d \in Owners(ids') <=> \E a : HasRow(ids', d, a)
        /\ \A d : d \in Owners(auths') <=> \E a : HasRow(auths', d, a)
    BY DEF Owners, HasRow
  <1>2. CASE c \in Owners(ids) /\ c \in Owners(auths)
    <2>1. PICK a, s : HasRow(ids, c, a) /\ HasRow(auths, c, s)
      BY <1>1, <1>2
    <2>2. HasRow(ids', c, a) /\ HasRow(auths', c, s)
      BY <1>2, <2>1
    <2> QED
      BY <2>1, <2>2 DEF Reads
  <1>3. CASE ~(c \in Owners(ids) /\ c \in Owners(auths))
    <2>1. ~(c \in Owners(ids') /\ c \in Owners(auths'))
      BY <1>1, <1>3
    <2> QED
      BY <1>3, <2>1 DEF Reads
  <1> QED
    BY <1>2, <1>3

\* Steps that the table does not show.
LEMMA TableStutters ==
    ASSUME TypeOK, TypeOK', Held, ~strayed', Known, Known', Values, Reads, Reads',
           \/ UNCHANGED <<ids, auths>>
           \/ PushId \/ EraseAuth \/ \E n \in Alias : TakeAlias(n)
    PROVE  UNCHANGED Table!vars
  <1> SUFFICES ASSUME NEW c \in Conn
               PROVE  StageOf(c)' = StageOf(c) /\ AliasOf(c)' = AliasOf(c)
    BY DEF Table!vars
  <1>1. CASE UNCHANGED <<ids, auths>>
    BY <1>1, SameReading
  <1>2. CASE PushId
    <2>1. /\ ids' = Append(ids, Row(newc, NoAlias)) /\ UNCHANGED <<auths, newc>>
          /\ Appending /\ ~AuthIn /\ newc \in Conn
      BY <1>2 DEF PushId, Pushed, Known, Pushing, Accepting, Appending, AuthIn, Held
    <2>2. \A d, a : HasRow(ids', d, a) <=> HasRow(ids, d, a) \/ (d = newc /\ a = NoAlias)
      <3>1. ids \in Rows(Alias \cup {NoAlias}) /\ NoAlias \in Alias \cup {NoAlias}
        BY DEF TypeOK
      <3> QED
        BY <2>1, <3>1, RowsAppended
    <2>3. newc \notin Owners(auths)
      BY <2>1 DEF Known
    <2> QED
      BY <2>1, <2>2, <2>3, SameReading
  <1>3. CASE EraseAuth
    <2>1. /\ UNCHANGED ids /\ auths' = EraseAt(auths, it)
          /\ it \in 1..Len(auths) /\ auths[it].of = client
          /\ client \notin Owners(ids) /\ Distinct(OwnersOf(auths))
      BY <1>3 DEF EraseAuth, Managing, Erasing, Known, AuthOut, IdOut, Disconnecting
    <2>2. auths' = RemoveAt(auths, it)
      BY <2>1 DEF EraseAt
    <2>3. auths \in Rows(Status)
      BY DEF TypeOK
    <2>4. \A d, s : HasRow(auths', d, s) <=> HasRow(auths, d, s) /\ d # client
      BY <2>1, <2>2, <2>3, RowsRemoved
    <2> QED
      BY <2>1, <2>4, SameReading
  <1>4. ASSUME NEW n \in Alias, TakeAlias(n)
        PROVE  StageOf(c)' = StageOf(c) /\ AliasOf(c)' = AliasOf(c)
    <2>1. /\ UNCHANGED auths /\ ids' = Assign(ids, n) /\ pcM = "Undone"
          /\ it \in 1..Len(ids) /\ ids[it].of = client /\ Distinct(OwnersOf(ids))
          /\ it \in 1..Len(auths) /\ auths[it].of = client
      BY <1>4 DEF TakeAlias, SetAlias, Handling, Managing, Known, AuthOut, IdOut,
            Disconnecting
    <2>2. \A d, a : HasRow(ids', d, a) <=> IF d = client THEN a = n ELSE HasRow(ids, d, a)
      <3>1. ids \in Rows(Alias \cup {NoAlias}) /\ n \in Alias \cup {NoAlias}
        BY DEF TypeOK
      <3> QED
        BY <2>1, <3>1, RowsAssigned
    <2>3. CASE c = client
      <3>1. HasRow(auths, c, auths[it].val)
        BY <2>1, <2>3 DEF HasRow
      <3>2. HasRow(auths, c, "Undone") /\ HasRow(auths', c, "Undone")
        BY <2>1, <2>3, <3>1 DEF Values, Seen, Status
      <3>3. HasRow(ids, c, ids[it].val)
        BY <2>1, <2>3 DEF HasRow
      <3>4. HasRow(ids', c, n)
        BY <2>2, <2>3
      <3> QED
        BY <3>2, <3>3, <3>4 DEF Reads
    <2>4. CASE c # client
      BY <2>1, <2>2, <2>4, SameReading
    <2> QED
      BY <2>3, <2>4
  <1> QED
    BY <1>1, <1>2, <1>3, <1>4

LEMMA FreeInTable ==
    ASSUME TypeOK, Known, Reads, NEW n \in Alias,
           \A c \in Conn : HasRow(ids, c, n) => AliasOf(c) # n
    PROVE  Table!Free(n)
  <1> SUFFICES ASSUME NEW c \in Conn, AliasOf(c) = n
               PROVE  FALSE
    BY DEF Table!Free
  <1>1. n # NoAlias
    BY AliasAssumption
  <1>2. c \in Owners(ids) /\ c \in Owners(auths)
    BY <1>1 DEF Reads
  <1>3. PICK a, s : HasRow(ids, c, a) /\ HasRow(auths, c, s)
    BY <1>2 DEF Owners, HasRow
  <1> QED
    BY <1>1, <1>3 DEF Reads

LEMMA AcceptedMapped ==
    ASSUME TypeOK, TypeOK', Held, Known, Known', Values, Reads, Reads', PushAuth
    PROVE  \E c \in Conn : Table!Accepted(c)
  <1>1. /\ auths' = Append(auths, Row(newc, "Undone")) /\ UNCHANGED <<ids, newc>>
        /\ Appending /\ IdIn /\ ~AuthIn /\ newc \in Conn
    BY DEF PushAuth, Pushed, Known, Pushing, Accepting, Appending, IdIn, AuthIn, Held
  <1>2. \A c, s : HasRow(auths', c, s) <=> HasRow(auths, c, s) \/ (c = newc /\ s = "Undone")
    <2>1. auths \in Rows(Status) /\ "Undone" \in Status
      BY DEF TypeOK, Status
    <2> QED
      BY <1>1, <2>1, RowsAppended
  <1>3. newc \in Owners(ids) /\ newc \notin Owners(auths)
    BY <1>1 DEF Known
  <1>4. PICK a : HasRow(ids', newc, a)
    BY <1>1, <1>3 DEF HasRow, Owners
  <1>5. HasRow(auths', newc, "Undone")
    BY <1>2
  <1>6. StageOf(newc)' = "Undone" /\ AliasOf(newc)' = NoAlias
    BY <1>1, <1>4, <1>5 DEF Reads
  <1>7. StageOf(newc) = "none" /\ AliasOf(newc) = NoAlias
    BY <1>3 DEF Reads
  <1>8. \A c \in Conn \ {newc} : StageOf(c)' = StageOf(c) /\ AliasOf(c)' = AliasOf(c)
    BY <1>1, <1>2, SameReading
  <1>9. Table!Accepted(newc)
    BY <1>1, <1>6, <1>7, <1>8 DEF Table!Accepted
  <1> QED
    BY <1>1, <1>9

\* The client in hand: its rows, and what the table shows of it.
LEMMA ClientReads ==
    ASSUME TypeOK, Known, Values, Reads, pcM \in Status \cup {"admit", "erase_id"}
    PROVE  /\ it \in 1..Len(ids) /\ it \in 1..Len(auths) /\ client \in Conn
           /\ ids[it].of = client /\ auths[it].of = client
           /\ HasRow(ids, client, ids[it].val) /\ HasRow(auths, client, auths[it].val)
           /\ StageOf(client) = auths[it].val
           /\ pcM \in Status => auths[it].val = pcM
           /\ pcM = "admit" => auths[it].val = "Undone" /\ ids[it].val \in Alias
           /\ auths[it].val \in Status
  <1>1. /\ it \in 1..Len(ids) /\ it \in 1..Len(auths)
        /\ ids[it].of = client /\ auths[it].of = client
    BY DEF Known, Status, IdOut, AuthOut, Disconnecting
  <1>2. HasRow(ids, client, ids[it].val) /\ HasRow(auths, client, auths[it].val)
    BY <1>1 DEF HasRow
  <1>3. ids[it].val \in Alias \cup {NoAlias} /\ auths[it].val \in Status /\ client \in Conn
    BY <1>1, OwnersProperties DEF TypeOK
  <1>4. StageOf(client) = auths[it].val
    BY <1>2 DEF Reads
  <1>5. pcM \in Status => auths[it].val = pcM
    BY <1>2 DEF Values, Seen
  <1>6. pcM = "admit" => auths[it].val = "Undone" /\ ids[it].val \in Alias
    BY <1>2, <1>3 DEF Values, Agree
  <1> QED
    BY <1>1, <1>2, <1>3, <1>4, <1>5, <1>6

LEMMA StatusMapped ==
    ASSUME TypeOK, TypeOK', Known, Known', Values, Reads, Reads', Admit \/ Complete
    PROVE  \/ \E c \in Conn, n \in Alias : Table!Admitted(c, n)
           \/ \E c \in Conn : Table!Completed(c)
  <1>1. PICK st \in {"KeyReceived", "Done"} :
           /\ UNCHANGED ids /\ auths' = Assign(auths, st) /\ UNCHANGED pcA
           /\ IF st = "Done" THEN pcM = "KeyReceived" ELSE pcM = "admit"
    BY DEF Admit, Complete, SetStatus, Handling, Managing, threadA
  <1>2. /\ it \in 1..Len(auths) /\ ids[it].of = client /\ auths[it].of = client
        /\ HasRow(ids, client, ids[it].val) /\ HasRow(auths, client, auths[it].val)
        /\ StageOf(client) = auths[it].val /\ client \in Conn
        /\ pcM = "KeyReceived" => auths[it].val = pcM
        /\ pcM = "admit" => auths[it].val = "Undone" /\ ids[it].val \in Alias
    BY <1>1, ClientReads DEF Status
  <1>3. \A c, s : HasRow(auths', c, s) <=> IF c = client THEN s = st ELSE HasRow(auths, c, s)
    <2>1. auths \in Rows(Status) /\ st \in Status /\ Distinct(OwnersOf(auths))
      BY DEF TypeOK, Status, Known
    <2> QED
      BY <1>1, <1>2, <2>1, RowsAssigned
  <1>4. PICK d \in Conn : d = client
    BY <1>2
  <1>5. HasRow(auths', d, st) /\ HasRow(ids', d, ids[it].val)
    BY <1>1, <1>2, <1>3, <1>4
  <1>6. StageOf(d)' = st /\ AliasOf(d)' = IF st = "Undone" THEN NoAlias ELSE ids[it].val
    BY <1>5 DEF Reads
  <1>7. \A c \in Conn \ {client} : StageOf(c)' = StageOf(c) /\ AliasOf(c)' = AliasOf(c)
    BY <1>1, <1>3, SameReading
  <1>8. CASE st = "Done"
    <2>1. StageOf(client) = "KeyReceived" /\ AliasOf(client) = ids[it].val
      BY <1>1, <1>2, <1>8 DEF Reads
    <2>2. Table!Completed(client)
      BY <1>4, <1>6, <1>7, <1>8, <2>1 DEF Table!Completed
    <2> QED
      BY <1>2, <2>2
  <1>9. CASE st = "KeyReceived"
    <2>1. /\ StageOf(client) = "Undone" /\ AliasOf(client) = NoAlias
          /\ ids[it].val \in Alias
      BY <1>1, <1>2, <1>9 DEF Reads
    <2>2. \A c \in Conn : HasRow(ids, c, ids[it].val) => AliasOf(c) # ids[it].val
      BY <1>2, <2>1, AliasAssumption DEF Values, Unique
    <2>3. Table!Free(ids[it].val)
      BY <2>1, <2>2, FreeInTable
    <2>4. Table!Admitted(client, ids[it].val)
      BY <1>4, <1>6, <1>7, <1>9, <2>1, <2>3 DEF Table!Admitted
    <2> QED
      BY <1>2, <2>1, <2>4
  <1> QED
    BY <1>8, <1>9

LEMMA RenamedMapped ==
    ASSUME TypeOK, TypeOK', Known, Known', Values, Reads, Reads',
           NEW n \in Alias, Rename(n)
    PROVE  \E c \in Conn : Table!Renamed(c, n)
  <1>1. /\ UNCHANGED auths /\ ids' = Assign(ids, n) /\ pcM = "Done"
        /\ \A i \in 1..Len(ids) : ids[i].val # n
    BY DEF Rename, SetAlias, AliasFree, Handling, Managing
  <1>2. /\ it \in 1..Len(ids) /\ ids[it].of = client /\ auths[it].of = client
        /\ HasRow(auths, client, "Done") /\ StageOf(client) = "Done" /\ client \in Conn
    BY <1>1, ClientReads DEF Status
  <1>3. \A c, a : HasRow(ids', c, a) <=> IF c = client THEN a = n ELSE HasRow(ids, c, a)
    <2>1. ids \in Rows(Alias \cup {NoAlias}) /\ n \in Alias \cup {NoAlias}
          /\ Distinct(OwnersOf(ids))
      BY DEF TypeOK, Known
    <2> QED
      BY <1>1, <1>2, <2>1, RowsAssigned
  <1>4. PICK d \in Conn : d = client
    BY <1>2
  <1>5. HasRow(auths', d, "Done") /\ HasRow(ids', d, n)
    BY <1>1, <1>2, <1>3, <1>4
  <1>6. StageOf(d)' = "Done" /\ AliasOf(d)' = n
    BY <1>5 DEF Reads
  <1>7. \A c \in Conn \ {client} : StageOf(c)' = StageOf(c) /\ AliasOf(c)' = AliasOf(c)
    BY <1>1, <1>3, SameReading
  <1>8. Table!Free(n)
    BY <1>1, FreeInTable DEF HasRow
  <1>9. Table!Renamed(client, n)
    BY <1>2, <1>4, <1>6, <1>7, <1>8 DEF Table!Renamed
  <1> QED
    BY <1>2, <1>9

LEMMA DroppedMapped ==
    ASSUME TypeOK, TypeOK', Known, Known', Values, Reads, Reads', EraseId
    PROVE  \E c \in Conn : Table!Dropped(c)
  <1>1. UNCHANGED <<auths, client>> /\ ids' = EraseAt(ids, it) /\ pcM = "erase_id"
    BY DEF EraseId, Erasing, Managing, Goto
  <1>2. /\ it \in 1..Len(ids) /\ ids[it].of = client /\ StageOf(client) \in Status
        /\ client \in Conn
    BY <1>1, ClientReads
  <1>3. ids' = RemoveAt(ids, it)
    BY <1>1, <1>2 DEF EraseAt
  <1>4. \A c, a : HasRow(ids', c, a) <=> HasRow(ids, c, a) /\ c # client
    <2>1. ids \in Rows(Alias \cup {NoAlias}) /\ Distinct(OwnersOf(ids))
      BY DEF TypeOK, Known
    <2> QED
      BY <1>2, <1>3, <2>1, RowsRemoved
  <1>5. client \notin Owners(ids')
    <2> SUFFICES ASSUME NEW i \in 1..Len(ids'), ids'[i].of = client
                 PROVE  FALSE
      BY DEF Owners
    <2>1. HasRow(ids', client, ids'[i].val)
      BY DEF HasRow
    <2> QED
      BY <1>4, <2>1
  <1>6. StageOf(client)' = "none" /\ AliasOf(client)' = NoAlias
    BY <1>1, <1>5 DEF Reads
  <1>7. \A c \in Conn \ {client} : StageOf(c)' = StageOf(c) /\ AliasOf(c)' = AliasOf(c)
    BY <1>1, <1>4, SameReading
  <1>8. Table!Dropped(client)
    BY <1>1, <1>2, <1>6, <1>7 DEF Table!Dropped, Status
  <1> QED
    BY <1>2, <1>8

LEMMA TableStep ==
    ASSUME TypeOK, TypeOK', Held, ~strayed', Known, Known', Values, Reads, Reads',
           [Next]_vars
    PROVE  [Table!Next]_(Table!vars)
  <1>1. CASE PushAuth
    BY <1>1, AcceptedMapped DEF Table!Next
  <1>2. CASE Admit \/ Complete
    BY <1>2, StatusMapped DEF Table!Next
  <1>3. CASE \E n \in Alias : Rename(n)
    BY <1>3, RenamedMapped DEF Table!Next
  <1>4. CASE EraseId
    BY <1>4, DroppedMapped DEF Table!Next
  <1>5. CASE PushId \/ EraseAuth \/ \E n \in Alias : TakeAlias(n)
    BY <1>5, TableStutters
  <1>6. CASE \/ UNCHANGED vars \/ Crash \/ \E c \in Conn : Send(c) \/ Leave(c)
             \/ \E c \in Conn : AcceptConn(c)
             \/ AcceptFails \/ PushSocket \/ PushOp \/ PushInterval \/ Greet
             \/ NextRow \/ EndOfPass \/ NothingReceived \/ DataReceived \/ Talk \/ Answer
             \/ \E n \in Alias : DirectMessage(n)
             \/ Reject \/ TellLeave \/ FreeSocket \/ EraseSocket \/ EraseOp \/ EraseInterval
    <2>1. UNCHANGED <<ids, auths>>
      BY <1>6 DEF vars, vectors, Crash, Send, Leave, AcceptConn, NewConn, AcceptFails,
            PushSocket, PushOp, PushInterval, Greet, NextRow, EndOfPass, NothingReceived,
            DataReceived, Talk, Answer, DirectMessage, Reject, TellLeave, FreeSocket,
            EraseSocket, EraseOp, EraseInterval
    <2> QED
      BY <2>1, TableStutters
  <1> QED
    BY <1>1, <1>2, <1>3, <1>4, <1>5, <1>6 DEF Next, ConnectionThread, ManageThread

LEMMA TableInit == Init => Table!Init
  BY DEF Init, Table!Init, StageOf, AliasOf, Owners

\* With peers that wait for the public key, the five vectors implement the
\* table of connections: a connection is in it from the moment its status is
\* appended to the moment its alias is erased, and no two have one alias.
THEOREM SlotTableImplementsTable ==
    ASSUME Eager = {}
    PROVE  Spec => TableSpec
  <1>1. TypeOK /\ Known => Reads
    BY RowsRead
  <1>2. Ordered => ~strayed
    BY DEF Ordered
  <1>3. /\ TypeOK /\ TypeOK' /\ Held /\ ~strayed' /\ Known /\ Known' /\ Values
        /\ Reads /\ Reads' /\ [Next]_vars
        => [Table!Next]_(Table!vars)
    BY TableStep
  <1> QED
    BY <1>1, <1>2, <1>3, TableInit, ValuesKept, PTL DEF Spec, TableSpec, Table!Spec
=============================================================================

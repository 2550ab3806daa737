-------------------------- MODULE SlotTableProofs --------------------------
(***************************************************************************)
(* What two threads without a lock make of five vectors, for any number of *)
(* connections and aliases.                                                *)
(*                                                                         *)
(* The vectors are columns of one table.  Each has a row more from the     *)
(* moment the connection thread has appended to it, and a row less from    *)
(* the moment the manage thread has erased from it: what a column holds    *)
(* follows from the rows of the table and the two program counters.        *)
(***************************************************************************)
EXTENDS SlotTable, SequenceTheorems, TLAPS

\* To which vectors new_client has been appended.
SocketIn   == pcA \in {"push_id", "push_op", "push_auth", "push_interval", "greet"}
IdIn       == pcA \in {"push_op", "push_auth", "push_interval", "greet"}
OpIn       == pcA \in {"push_auth", "push_interval", "greet"}
AuthIn     == pcA \in {"push_interval", "greet"}
IntervalIn == pcA = "greet"

\* From which vectors disconnectClient has erased.
IdOut     == Disconnecting
SocketOut == pcM \in {"erase_op", "erase_auth", "erase_interval"}
OpOut     == pcM \in {"erase_auth", "erase_interval"}
AuthOut   == pcM = "erase_interval"

-----------------------------------------------------------------------------
(* Vectors.                                                                *)

LEMMA Beginning ==
    ASSUME NEW T, NEW s \in Seq(T), NEW i \in 1..Len(s)
    PROVE  /\ SubSeq(s, 1, i - 1) \in Seq(T)
           /\ Len(SubSeq(s, 1, i - 1)) = i - 1
           /\ \A j \in 1..i - 1 : SubSeq(s, 1, i - 1)[j] = s[j]
  OBVIOUS

LEMMA RemoveAtProperties ==
    ASSUME NEW T, NEW s \in Seq(T), NEW i \in 1..Len(s)
    PROVE  /\ RemoveAt(s, i) \in Seq(T)
           /\ Len(RemoveAt(s, i)) = Len(s) - 1
           /\ \A j \in 1..Len(s) - 1 :
                 RemoveAt(s, i)[j] = IF j < i THEN s[j] ELSE s[j + 1]
  <1> DEFINE a == SubSeq(s, 1, i - 1)
             b == SubSeq(s, i + 1, Len(s))
  <1>1. /\ a \in Seq(T) /\ Len(a) = i - 1
        /\ \A j \in 1..i - 1 : a[j] = s[j]
    BY Beginning
  <1>2. /\ b \in Seq(T) /\ Len(b) = Len(s) - i
        /\ \A j \in 1..Len(s) - i : b[j] = s[j + i]
    OBVIOUS
  <1>3. RemoveAt(s, i) = a \o b
    BY DEF RemoveAt
  <1> HIDE DEF a, b
  <1>4. Len(s) \in Nat /\ i \in Nat /\ 1 <= i /\ i <= Len(s)
    OBVIOUS
  <1>5. /\ a \o b \in Seq(T) /\ Len(a \o b) = Len(a) + Len(b)
        /\ \A j \in 1..Len(a) + Len(b) :
              (a \o b)[j] = IF j <= Len(a) THEN a[j] ELSE b[j - Len(a)]
    BY <1>1, <1>2, ConcatProperties
  <1>6. ASSUME NEW j \in 1..Len(s) - 1
        PROVE  (a \o b)[j] = IF j < i THEN s[j] ELSE s[j + 1]
    <2>1. CASE j < i
      BY <1>1, <1>2, <1>4, <1>5, <2>1
    <2>2. CASE ~(j < i)
      <3>1. j - Len(a) \in 1..Len(s) - i
        BY <1>1, <1>4, <2>2
      <3>2. (a \o b)[j] = b[j - Len(a)]
        BY <1>1, <1>2, <1>4, <1>5, <2>2
      <3>3. b[j - Len(a)] = s[j - Len(a) + i]
        BY <1>2, <3>1
      <3> QED
        BY <1>1, <1>4, <3>2, <3>3
    <2> QED
      BY <2>1, <2>2
  <1> QED
    BY <1>1, <1>2, <1>3, <1>4, <1>5, <1>6

LEMMA SameSequence ==
    ASSUME NEW T, NEW s \in Seq(T), NEW t \in Seq(T), Len(s) = Len(t),
           \A i \in 1..Len(s) : s[i] = t[i]
    PROVE  s = t
  OBVIOUS

\* It makes no difference whether a row is erased before or after another one
\* is appended, as long as the one is not the other.
LEMMA RemoveFromAppended ==
    ASSUME NEW T, NEW s \in Seq(T), NEW c \in T
    PROVE  /\ \A i \in 1..Len(s) :
                 RemoveAt(Append(s, c), i) = Append(RemoveAt(s, i), c)
           /\ RemoveAt(Append(s, c), Len(s) + 1) = s
  <1> DEFINE t == Append(s, c)
  <1>1. /\ t \in Seq(T) /\ Len(t) = Len(s) + 1 /\ t[Len(s) + 1] = c
        /\ \A j \in 1..Len(s) : t[j] = s[j]
    OBVIOUS
  <1> HIDE DEF t
  <1>2. ASSUME NEW i \in 1..Len(s)
        PROVE  RemoveAt(t, i) = Append(RemoveAt(s, i), c)
    <2> DEFINE a == RemoveAt(t, i)
               b == RemoveAt(s, i)
    <2>1. /\ a \in Seq(T) /\ Len(a) = Len(s)
          /\ \A j \in 1..Len(s) : a[j] = IF j < i THEN t[j] ELSE t[j + 1]
      <3>1. i \in 1..Len(t) /\ Len(t) - 1 = Len(s)
        BY <1>1
      <3> QED
        BY <1>1, <3>1, RemoveAtProperties
    <2>2. /\ b \in Seq(T) /\ Len(b) = Len(s) - 1
          /\ \A j \in 1..Len(s) - 1 : b[j] = IF j < i THEN s[j] ELSE s[j + 1]
      BY RemoveAtProperties
    <2> HIDE DEF a, b
    <2>3. /\ Append(b, c) \in Seq(T) /\ Len(Append(b, c)) = Len(s)
          /\ Append(b, c)[Len(s)] = c
          /\ \A j \in 1..Len(s) - 1 : Append(b, c)[j] = b[j]
      BY <2>2
    <2>4. ASSUME NEW j \in 1..Len(s)
          PROVE  a[j] = Append(b, c)[j]
      <3>1. Len(s) \in Nat /\ i <= Len(s)
        OBVIOUS
      <3>2. CASE j = Len(s)
        BY <1>1, <2>1, <2>3, <3>1, <3>2
      <3>3. CASE j # Len(s)
        <4>1. j \in 1..Len(s) - 1 /\ j + 1 \in 1..Len(s)
          BY <3>1, <3>3
        <4> QED
          BY <1>1, <2>1, <2>2, <2>3, <4>1
      <3> QED
        BY <3>2, <3>3
    <2>5. a = Append(b, c)
      BY <2>1, <2>3, <2>4, SameSequence
    <2> QED
      BY <2>5 DEF a, b
  <1>3. RemoveAt(t, Len(s) + 1) = s
    <2> DEFINE a == RemoveAt(t, Len(s) + 1)
    <2>1. /\ a \in Seq(T) /\ Len(a) = Len(s)
          /\ \A j \in 1..Len(s) : a[j] = t[j]
      <3>1. Len(s) + 1 \in 1..Len(t) /\ Len(t) - 1 = Len(s)
        BY <1>1
      <3>2. \A j \in 1..Len(s) : j < Len(s) + 1
        OBVIOUS
      <3> QED
        BY <1>1, <3>1, <3>2, RemoveAtProperties
    <2> HIDE DEF a
    <2>2. a = s
      BY <1>1, <2>1, SameSequence
    <2> QED
      BY <2>2 DEF a
  <1> QED
    BY <1>2, <1>3 DEF t

\* The call takes one element away, whatever the position, if there is any.
LEMMA EraseAtProperties ==
    ASSUME NEW T, NEW s \in Seq(T), NEW i \in Nat \ {0}
    PROVE  /\ EraseAt(s, i) \in Seq(T)
           /\ Len(EraseAt(s, i)) = IF s = <<>> THEN 0 ELSE Len(s) - 1
  <1>1. CASE i <= Len(s)
    <2>1. i \in 1..Len(s) /\ s # <<>>
      BY <1>1, EmptySeq
    <2> QED
      BY <1>1, <2>1, RemoveAtProperties DEF EraseAt
  <1>2. CASE s = <<>>
    <2>1. EraseAt(s, i) = SubSeq(s, 1, Len(s) - 1) /\ Len(s) = 0
      BY <1>2 DEF EraseAt, Front
    <2>2. SubSeq(s, 1, Len(s) - 1) = <<>>
      BY <1>2
    <2> QED
      BY <1>2, <2>1, <2>2
  <1>3. CASE ~(i <= Len(s)) /\ s # <<>>
    <2>1. Len(s) \in Nat \ {0}
      BY <1>3, EmptySeq
    <2>2. /\ SubSeq(s, 1, Len(s) - 1) \in Seq(T)
          /\ Len(SubSeq(s, 1, Len(s) - 1)) = Len(s) - 1
      <3>1. Len(s) \in 1..Len(s)
        BY <2>1
      <3> QED
        BY <2>1, <3>1, Beginning
    <2> QED
      BY <1>3, <2>2 DEF EraseAt, Front
  <1> QED
    BY <1>1, <1>3, <1>2

\* Owners of the rows of a vector of values.
LEMMA OwnersProperties ==
    ASSUME NEW V, NEW s \in Rows(V)
    PROVE  /\ OwnersOf(s) \in Seq(Conn) /\ Len(OwnersOf(s)) = Len(s)
           /\ \A i \in 1..Len(s) : OwnersOf(s)[i] = s[i].of /\ s[i].of \in Conn
                                    /\ s[i].val \in V
  <1>1. /\ Len(s) \in Nat /\ DOMAIN s = 1..Len(s)
        /\ \A i \in 1..Len(s) : s[i].of \in Conn /\ s[i].val \in V
    <2>1. s \in Seq([of : Conn, val : V])
      BY DEF Rows
    <2>2. Len(s) \in Nat /\ DOMAIN s = 1..Len(s)
      BY <2>1, LenProperties
    <2>3. \A i \in 1..Len(s) : s[i] \in [of : Conn, val : V]
      BY <2>1, ElementOfSeq
    <2> QED
      BY <2>2, <2>3
  <1>2. OwnersOf(s) = [i \in 1..Len(s) |-> s[i].of]
    BY <1>1 DEF OwnersOf
  <1>3. OwnersOf(s) \in [1..Len(s) -> Conn]
    BY <1>1, <1>2
  <1>4. OwnersOf(s) \in Seq(Conn) /\ Len(OwnersOf(s)) = Len(s)
    BY <1>1, <1>3, SeqDef, LenProperties
  <1> QED
    BY <1>1, <1>2, <1>4

LEMMA OwnersOfAppended ==
    ASSUME NEW V, NEW s \in Rows(V), NEW c \in Conn, NEW v \in V
    PROVE  /\ Append(s, Row(c, v)) \in Rows(V)
           /\ OwnersOf(Append(s, Row(c, v))) = Append(OwnersOf(s), c)
  <1> DEFINE t == Append(s, Row(c, v))
  <1>1. Row(c, v) \in [of : Conn, val : V] /\ Row(c, v).of = c
    BY DEF Row
  <1>2. /\ t \in Rows(V) /\ Len(t) = Len(s) + 1
        /\ t[Len(t)].of = c /\ \A i \in 1..Len(s) : t[i] = s[i]
    BY <1>1 DEF Rows
  <1> HIDE DEF t
  <1>3. OwnersOf(t) \in Seq(Conn) /\ OwnersOf(s) \in Seq(Conn)
    BY <1>2, OwnersProperties
  <1>4. Append(OwnersOf(s), c) \in Seq(Conn)
    BY <1>3
  <1>5. /\ Len(OwnersOf(t)) = Len(s) + 1 /\ Len(Append(OwnersOf(s), c)) = Len(s) + 1
        /\ \A i \in 1..Len(s) + 1 : OwnersOf(t)[i] = Append(OwnersOf(s), c)[i]
    BY <1>2, <1>3, OwnersProperties
  <1>6. OwnersOf(t) = Append(OwnersOf(s), c)
    BY <1>3, <1>4, <1>5, SameSequence
  <1> QED
    BY <1>2, <1>6 DEF t

LEMMA OwnersOfRemoved ==
    ASSUME NEW V, NEW s \in Rows(V), NEW i \in 1..Len(s)
    PROVE  OwnersOf(RemoveAt(s, i)) = RemoveAt(OwnersOf(s), i)
  <1> DEFINE t == RemoveAt(s, i)
             u == RemoveAt(OwnersOf(s), i)
  <1>1. /\ t \in Rows(V) /\ Len(t) = Len(s) - 1
        /\ \A j \in 1..Len(s) - 1 : t[j] = IF j < i THEN s[j] ELSE s[j + 1]
    BY RemoveAtProperties DEF Rows
  <1>2. /\ u \in Seq(Conn) /\ Len(u) = Len(s) - 1
        /\ \A j \in 1..Len(s) - 1 :
              u[j] = IF j < i THEN OwnersOf(s)[j] ELSE OwnersOf(s)[j + 1]
    BY OwnersProperties, RemoveAtProperties
  <1> HIDE DEF t, u
  <1>3. /\ OwnersOf(t) \in Seq(Conn) /\ Len(OwnersOf(t)) = Len(s) - 1
        /\ \A j \in 1..Len(s) - 1 : OwnersOf(t)[j] = t[j].of
    BY <1>1, OwnersProperties
  <1>4. Len(s) \in Nat
    BY DEF Rows
  <1>5. ASSUME NEW j \in 1..Len(s) - 1
        PROVE  OwnersOf(t)[j] = u[j]
    <2>1. j \in 1..Len(s) /\ j + 1 \in 1..Len(s)
      BY <1>4
    <2> QED
      BY <1>1, <1>2, <1>3, <2>1, OwnersProperties
  <1>6. OwnersOf(t) = u
    BY <1>2, <1>3, <1>5, SameSequence
  <1> QED
    BY <1>6 DEF t, u

LEMMA AssignProperties ==
    ASSUME NEW V, NEW s \in Rows(V), NEW v \in V, it \in Nat \ {0}
    PROVE  /\ Assign(s, v) \in Rows(V) /\ Len(Assign(s, v)) = Len(s)
           /\ OwnersOf(Assign(s, v)) = OwnersOf(s)
           /\ \A i \in 1..Len(s) : /\ Assign(s, v)[i].of = s[i].of
                                   /\ Assign(s, v)[i].val =
                                        IF i = it THEN v ELSE s[i].val
  <1> USE DEF Rows
  <1>1. CASE ~(it <= Len(s))
    BY <1>1 DEF Assign
  <1>2. CASE it <= Len(s)
    <2> DEFINE r == [s[it] EXCEPT !.val = v]
               t == [s EXCEPT ![it] = r]
    <2>1. r \in [of : Conn, val : V] /\ r.of = s[it].of /\ r.val = v
      <3>1. Len(s) \in Nat
        OBVIOUS
      <3>2. it \in 1..Len(s)
        BY <1>2, <3>1
      <3>3. s[it] \in [of : Conn, val : V]
        BY <3>2, ElementOfSeq
      <3> QED
        BY <3>3
    <2> HIDE DEF r
    <2>2. /\ t \in Seq([of : Conn, val : V]) /\ Len(t) = Len(s)
          /\ \A i \in 1..Len(s) : t[i] = IF i = it THEN r ELSE s[i]
      BY <1>2, <2>1
    <2> HIDE DEF t
    <2>3. Assign(s, v) = t
      BY <1>2 DEF Assign, t, r
    <2>4. \A i \in 1..Len(s) : OwnersOf(t)[i] = OwnersOf(s)[i]
      BY <2>1, <2>2, OwnersProperties
    <2>5. OwnersOf(t) = OwnersOf(s)
      BY <2>2, <2>4, OwnersProperties, SameSequence
    <2> QED
      BY <2>1, <2>2, <2>3, <2>5
  <1> QED
    BY <1>1, <1>2

-----------------------------------------------------------------------------
(* Types.                                                                  *)

LEMMA InitType == Init => TypeOK
  <1> SUFFICES ASSUME Init
               PROVE  TypeOK
    OBVIOUS
  <1>1. /\ sockets \in Seq(Conn) /\ ops \in Seq(Conn) /\ intervals \in Seq(Conn)
        /\ ids \in Rows(Alias \cup {NoAlias}) /\ auths \in Rows(Status)
    BY DEF Init, Rows
  <1>2. /\ peer \in [Conn -> {"away", "open", "left"}]
        /\ inbox \in [Conn -> BOOLEAN]
        /\ greeted \subseteq Conn /\ told \subseteq Conn
        /\ strayed \in BOOLEAN /\ overread \in BOOLEAN /\ up \in BOOLEAN
        /\ owed \subseteq {"sockets", "ids", "ops", "auths", "intervals"}
    BY DEF Init
  <1>3. /\ pcA = "accept" /\ pcM = "walk" /\ it \in Nat \ {0}
        /\ newc = NoConn /\ client = NoConn
    BY DEF Init
  <1> QED
    BY <1>1, <1>2, <1>3 DEF TypeOK

\* What is appended to a vector is of the connection in hand.
Held == pcA \notin {"accept", "ended"} => newc \in Conn
Holding == pcM # "walk" => client \in Conn

LEMMA PushType ==
    ASSUME TypeOK, Held, PushSocket \/ PushId \/ PushOp \/ PushAuth \/ PushInterval
    PROVE  TypeOK'
  <1> USE DEF TypeOK, Held, threadM, vectors, peers, MadeUp
  <1>1. CASE PushSocket
    BY <1>1 DEF PushSocket, PushSocketLast, Pushing, Accepting
  <1>2. CASE PushId
    <2>1. newc \in Conn
      BY <1>2 DEF PushId, Pushing, Accepting
    <2>2. ids' \in Rows(Alias \cup {NoAlias})
      BY <1>2, <2>1, OwnersOfAppended DEF PushId, Pushed
    <2> QED
      BY <1>2, <2>2 DEF PushId, Pushing, Accepting
  <1>3. CASE PushOp
    BY <1>3 DEF PushOp, Pushing, Accepting, Pushed
  <1>4. CASE PushAuth
    <2>1. newc \in Conn /\ "Undone" \in Status
      BY <1>4 DEF PushAuth, Pushing, Accepting, Status
    <2>2. auths' \in Rows(Status)
      BY <1>4, <2>1, OwnersOfAppended DEF PushAuth, Pushed
    <2> QED
      BY <1>4, <2>2 DEF PushAuth, Pushing, Accepting
  <1>5. CASE PushInterval
    BY <1>5 DEF PushInterval, Pushing, Accepting, Pushed
  <1> QED
    BY <1>1, <1>2, <1>3, <1>4, <1>5

LEMMA ConnectionType ==
    ASSUME TypeOK, Held, Holding, ConnectionThread
    PROVE  TypeOK' /\ Held' /\ Holding'
  <1>1. CASE \E c \in Conn : AcceptConn(c)
    BY <1>1 DEF AcceptConn, NewConn, Accepting, TypeOK, Held, Holding, vectors,
                threadM
  <1>2. CASE AcceptFails
    BY <1>2 DEF AcceptFails, Accepting, TypeOK, Held, Holding, vectors, threadM
  <1>3. CASE PushSocket \/ PushId \/ PushOp \/ PushAuth \/ PushInterval
    BY <1>3, PushType DEF PushSocket, PushId, PushOp, PushAuth, PushInterval,
          Pushing, Accepting, Held, Holding, threadM
  <1>4. CASE Greet
    <2>1. newc \in Conn /\ greeted \subseteq Conn
      BY <1>4 DEF Greet, Accepting, TypeOK, Held
    <2>2. greeted' \subseteq Conn
      BY <1>4, <2>1 DEF Greet
    <2>3. strayed' \in BOOLEAN
      BY <1>4 DEF Greet, TypeOK
    <2> QED
      BY <1>4, <2>2, <2>3 DEF Greet, Accepting, TypeOK, Held, Holding, vectors, threadM
  <1> QED
    BY <1>1, <1>2, <1>3, <1>4 DEF ConnectionThread

\* Whom a broadcast reaches, and whether it reads too far.
LEMMA BroadcastType ==
    ASSUME TypeOK, Broadcast
    PROVE  told' \subseteq Conn /\ overread' \in BOOLEAN
  <1>1. sockets \in Seq(Conn)
    BY DEF TypeOK
  <1>2. \A i \in 1..Len(sockets) : sockets[i] \in Conn
    BY <1>1
  <1>3. told' \subseteq Conn
    BY <1>2 DEF Broadcast, Audiences, Authenticated, WithoutStatus
  <1>4. overread' \in BOOLEAN
    BY DEF Broadcast
  <1> QED
    BY <1>3, <1>4

LEMMA HandleType ==
    ASSUME TypeOK, Held, Holding,
           \/ \E n \in Alias : TakeAlias(n) \/ Rename(n) \/ DirectMessage(n)
           \/ Admit \/ Complete \/ Talk \/ Answer
    PROVE  TypeOK' /\ Held' /\ Holding'
  <1> USE DEF TypeOK, Held, Holding, threadA, peers, Replies
  <1>1. ASSUME NEW n \in Alias, TakeAlias(n) \/ Rename(n)
        PROVE  TypeOK' /\ Held' /\ Holding'
    <2>1. ids' \in Rows(Alias \cup {NoAlias})
      BY <1>1, AssignProperties DEF TakeAlias, Rename, SetAlias
    <2>2. told' \subseteq Conn /\ overread' \in BOOLEAN
      BY <1>1, BroadcastType DEF TakeAlias, Rename, SetAlias
    <2>3. strayed' \in BOOLEAN
      BY <1>1 DEF TakeAlias, Rename, SetAlias, Access
    <2>4. /\ UNCHANGED <<sockets, ops, auths, intervals, owed, greeted, up>>
          /\ UNCHANGED <<pcA, newc, peer, inbox>>
          /\ pcM' \in {"admit", "walk"} /\ it' \in Nat \ {0}
          /\ client' \in {client, NoConn}
          /\ pcM' = "admit" => pcM = "Undone" /\ client' = client
      BY <1>1 DEF TakeAlias, Rename, SetAlias, Handling, Managing, Goto, RowDone
    <2> QED
      BY <2>1, <2>2, <2>3, <2>4
  <1>2. CASE Admit \/ Complete
    <2>1. auths' \in Rows(Status)
      BY <1>2, AssignProperties DEF Admit, Complete, SetStatus, Status
    <2>2. strayed' \in BOOLEAN
      BY <1>2 DEF Admit, Complete, SetStatus, Access
    <2>3. told' \subseteq Conn
      BY <1>2 DEF Admit, Complete, SetStatus, Handling, Managing
    <2>4. /\ UNCHANGED <<sockets, ids, ops, intervals, owed, greeted, up>>
          /\ UNCHANGED <<pcA, newc, peer, inbox>> /\ overread' = FALSE
          /\ pcM' = "walk" /\ it' \in Nat \ {0} /\ client' = NoConn
      BY <1>2 DEF Admit, Complete, SetStatus, Handling, Managing, RowDone
    <2> QED
      BY <2>1, <2>2, <2>3, <2>4
  <1>3. CASE Talk
    <2>1. told' \subseteq Conn /\ strayed' \in BOOLEAN /\ overread' \in BOOLEAN
      BY <1>3, BroadcastType DEF Talk, Access
    <2>2. /\ UNCHANGED <<sockets, ids, ops, auths, intervals, owed, greeted, up>>
          /\ UNCHANGED <<pcA, newc, peer, inbox>>
          /\ pcM' = "walk" /\ it' \in Nat \ {0} /\ client' = NoConn
      BY <1>3 DEF Talk, Handling, Managing, RowDone
    <2> QED
      BY <2>1, <2>2
  <1>4. CASE Answer
    <2>1. told' \subseteq Conn
      BY <1>4 DEF Answer, Handling, Managing
    <2>2. /\ UNCHANGED <<sockets, ids, ops, auths, intervals, owed, greeted, up>>
          /\ UNCHANGED <<pcA, newc, peer, inbox, strayed>> /\ overread' = FALSE
          /\ pcM' = "walk" /\ it' \in Nat \ {0} /\ client' = NoConn
      BY <1>4 DEF Answer, Handling, Managing, RowDone
    <2> QED
      BY <2>1, <2>2
  <1>5. ASSUME NEW n \in Alias, DirectMessage(n)
        PROVE  TypeOK' /\ Held' /\ Holding'
    <2>1. told' \subseteq Conn /\ strayed' \in BOOLEAN
      BY <1>5 DEF DirectMessage, Access
    <2>2. /\ UNCHANGED <<sockets, ids, ops, auths, intervals, owed, greeted, up>>
          /\ UNCHANGED <<pcA, newc, peer, inbox>> /\ overread' = FALSE
          /\ pcM' = "walk" /\ it' \in Nat \ {0} /\ client' = NoConn
      BY <1>5 DEF DirectMessage, Handling, Managing, RowDone
    <2> QED
      BY <2>1, <2>2
  <1> QED
    BY <1>1, <1>2, <1>3, <1>4, <1>5

LEMMA EraseType ==
    ASSUME TypeOK, Held, Holding,
           \/ EraseId \/ EraseSocket \/ EraseOp \/ EraseAuth \/ EraseInterval
           \/ Reject \/ TellLeave \/ FreeSocket
    PROVE  TypeOK' /\ Held' /\ Holding'
  <1> USE DEF TypeOK, Held, Holding, threadA, peers, vectors, Quiet
  <1>1. CASE Reject
    BY <1>1 DEF Reject, Managing, Access, Goto, Status
  <1>2. CASE TellLeave
    <2>1. told' \subseteq Conn /\ overread' \in BOOLEAN
      BY <1>2, BroadcastType DEF TellLeave
    <2> QED
      BY <1>2, <2>1 DEF TellLeave, Managing, Goto
  <1>3. CASE FreeSocket
    BY <1>3 DEF FreeSocket, Managing, Access, Goto
  <1>4. ASSUME NEW pc, NEW v \in {"sockets", "ids", "ops", "auths", "intervals"}, NEW s,
               Erasing(pc, v, s)
        PROVE  /\ strayed' \in BOOLEAN
               /\ owed' \subseteq {"sockets", "ids", "ops", "auths", "intervals"}
    BY <1>4 DEF Erasing, Access
  <1>5. CASE EraseId
    <2>1. ids' \in Rows(Alias \cup {NoAlias})
      BY <1>5, EraseAtProperties DEF EraseId, Erasing, Rows
    <2> QED
      BY <1>4, <1>5, <2>1 DEF EraseId, Erasing, Managing, Goto
  <1>6. CASE EraseSocket
    <2>1. sockets' \in Seq(Conn)
      BY <1>6, EraseAtProperties DEF EraseSocket, Erasing
    <2> QED
      BY <1>4, <1>6, <2>1 DEF EraseSocket, Erasing, Managing, Goto
  <1>7. CASE EraseOp
    <2>1. ops' \in Seq(Conn)
      BY <1>7, EraseAtProperties DEF EraseOp, Erasing
    <2> QED
      BY <1>4, <1>7, <2>1 DEF EraseOp, Erasing, Managing, Goto
  <1>8. CASE EraseAuth
    <2>1. auths' \in Rows(Status)
      BY <1>8, EraseAtProperties DEF EraseAuth, Erasing, Rows
    <2> QED
      BY <1>4, <1>8, <2>1 DEF EraseAuth, Erasing, Managing, Goto
  <1>9. CASE EraseInterval
    <2>1. intervals' \in Seq(Conn)
      BY <1>9, EraseAtProperties DEF EraseInterval, Erasing
    <2>2. /\ UNCHANGED <<sockets, ids, ops, auths, greeted, up>>
          /\ UNCHANGED <<pcA, newc, peer, inbox>> /\ overread' = FALSE
          /\ pcM' = "walk" /\ it' \in Nat \ {0} /\ client' = NoConn /\ told' = {}
      BY <1>9 DEF EraseInterval, Erasing, Managing, RowDone
    <2>3. /\ strayed' \in BOOLEAN
          /\ owed' \subseteq {"sockets", "ids", "ops", "auths", "intervals"}
      BY <1>4, <1>9 DEF EraseInterval
    <2> QED
      BY <2>1, <2>2, <2>3
  <1> QED
    BY <1>1, <1>2, <1>3, <1>5, <1>6, <1>7, <1>8, <1>9

LEMMA StatusRead ==
    ASSUME TypeOK, NEW i
    PROVE  StatusAt(i) \subseteq Status
  BY OwnersProperties DEF TypeOK, StatusAt

LEMMA WalkType ==
    ASSUME TypeOK, Held, Holding,
           NextRow \/ EndOfPass \/ NothingReceived \/ DataReceived
    PROVE  TypeOK' /\ Held' /\ Holding'
  <1> USE DEF TypeOK, Held, Holding, threadA, peers, vectors, Quiet
  <1>1. CASE NextRow
    <2>1. /\ UNCHANGED <<sockets, ids, ops, auths, intervals, owed, greeted, up>>
          /\ UNCHANGED <<pcA, newc, peer, inbox, strayed, it>> /\ overread' = FALSE
          /\ pcM' = "receive" /\ told' = {}
          /\ client' = sockets[it] /\ it <= Len(sockets)
      BY <1>1 DEF NextRow, Managing, LastRow
    <2>2. sockets[it] \in Conn
      BY <2>1
    <2> QED
      BY <2>1, <2>2
  <1>2. CASE EndOfPass \/ NothingReceived
    <2>1. /\ UNCHANGED <<sockets, ids, ops, auths, intervals, owed, greeted, up>>
          /\ UNCHANGED <<pcA, newc, peer, inbox, strayed>> /\ overread' = FALSE
          /\ pcM' = "walk" /\ it' \in Nat \ {0} /\ told' = {}
          /\ client' \in {client, NoConn}
      BY <1>2 DEF EndOfPass, NothingReceived, Managing, RowDone
    <2> QED
      BY <2>1
  <1>4. CASE DataReceived
    <2>1. PICK s \in StatusAt(it) :
              Goto(s) /\ Access(IF s = "Done" THEN intervals ELSE auths)
      BY <1>4 DEF DataReceived
    <2>2. s \in Status
      BY <2>1, StatusRead
    <2>3. strayed' \in BOOLEAN
      BY <2>1 DEF Access
    <2> QED
      BY <1>4, <2>1, <2>2, <2>3 DEF DataReceived, Managing, Goto, Status
  <1> QED
    BY <1>1, <1>2, <1>4

LEMMA PeerType ==
    ASSUME TypeOK, Held, Holding, (\E c \in Conn : Send(c) \/ Leave(c)) \/ Crash
    PROVE  TypeOK' /\ Held' /\ Holding'
  <1>1. UNCHANGED <<sockets, ids, ops, auths, intervals, owed, greeted, strayed>>
    BY DEF Send, Leave, Crash, vectors, threadA, threadM, peers
  <1>2. /\ UNCHANGED <<pcA, newc, pcM, it, client>> /\ told' = {}
        /\ overread' \in BOOLEAN
    BY DEF TypeOK, Send, Leave, Crash, Quiet, vectors, threadA, threadM, peers
  <1>3. up' \in BOOLEAN /\ peer' \in [Conn -> {"away", "open", "left"}]
    BY DEF TypeOK, Send, Leave, Crash, peers
  <1>4. inbox' \in [Conn -> BOOLEAN]
    BY DEF TypeOK, Send, Leave, Crash, peers
  <1>5. TypeOK'
    BY <1>1, <1>2, <1>3, <1>4 DEF TypeOK
  <1> QED
    BY <1>2, <1>5 DEF Held, Holding

LEMMA TypeStep ==
    ASSUME TypeOK, Held, Holding, [Next]_vars
    PROVE  TypeOK' /\ Held' /\ Holding'
  <1>1. CASE UNCHANGED vars
    BY <1>1 DEF TypeOK, Held, Holding, vars, vectors, threadA, threadM, peers
  <1> QED
    BY <1>1, ConnectionType, HandleType, EraseType, WalkType, PeerType
    DEF Next, ManageThread

LEMMA Types == Spec => [](TypeOK /\ Held /\ Holding)
  <1>1. Init => TypeOK /\ Held /\ Holding
    BY InitType DEF Init, Held, Holding
  <1>2. TypeOK /\ Held /\ Holding /\ [Next]_vars => (TypeOK /\ Held /\ Holding)'
    BY TypeStep
  <1> QED
    BY <1>1, <1>2, PTL DEF Spec

\* Every variable holds a value of its type, also after a position has been
\* used where there was no row.
THEOREM SlotTypes == Spec => []TypeOK
  BY Types, PTL

-----------------------------------------------------------------------------
(* The inductive invariants.                                               *)

IdSize       == Size("ids", ids)
OpSize       == Size("ops", ops)
AuthSize     == Size("auths", auths)
IntervalSize == Size("intervals", intervals)
sizes        == <<IdSize, OpSize, AuthSize, IntervalSize>>

\* The table has h rows, counted in one vector of the given size(): with what
\* has still to be appended, and with what has been erased.
Height(size, in, out, h) ==
    /\ in /\ ~out => size = h
    /\ in /\ out => size + 1 = h
    /\ ~in /\ ~out => size + 1 = h
    /\ ~in /\ out => size + 2 = h
Heights(h) ==
    /\ Height(Len(sockets), SocketIn, SocketOut, h)
    /\ Height(IdSize, IdIn, IdOut, h)
    /\ Height(OpSize, OpIn, OpOut, h)
    /\ Height(AuthSize, AuthIn, AuthOut, h)
    /\ Height(IntervalSize, IntervalIn, FALSE, h)

\* It has as many in all vectors, and the manage thread's position is within
\* them, also when the rows are not those they should be.
SameHeight == \E h \in Nat : Heights(h)
InReach ==
    pcM # "walk" => IF SocketOut THEN it <= Len(sockets) + 1 ELSE it <= Len(sockets)

\* What a vector holds when the finished rows of the table belong to "rows",
\* "new" is being appended and position "pos" erased.
Full(rows, new, in) == IF in THEN Append(rows, new) ELSE rows
Column(v, rows, new, pos, in, out) ==
    /\ v = IF out THEN RemoveAt(Full(rows, new, in), pos) ELSE Full(rows, new, in)
    /\ out => pos <= Len(Full(rows, new, in))

\* "gone": the row that is being appended has been erased meanwhile.
Columns(rows, gone) ==
    /\ Column(sockets, rows, newc, it, SocketIn /\ ~gone, SocketOut)
    /\ Column(OwnersOf(ids), rows, newc, it, IdIn /\ ~gone, IdOut)
    /\ Column(ops, rows, newc, it, OpIn /\ ~gone, OpOut)
    /\ Column(OwnersOf(auths), rows, newc, it, AuthIn /\ ~gone, AuthOut)
    /\ Column(intervals, rows, newc, it, IntervalIn /\ ~gone, FALSE)
    /\ gone => pcA = "greet"

\* The manage thread has a row of the table in hand.
InHand(rows, gone) ==
    pcM # "walk" =>
        LET full == Full(rows, newc, SocketIn /\ ~gone)
        IN  it <= Len(full) /\ full[it] = client

\* No vector is erased from while it is empty.
Laid(rows, gone) == Columns(rows, gone) /\ InHand(rows, gone) /\ owed = {}

-----------------------------------------------------------------------------
(* Rows are counted alike in all vectors.                                  *)

LEMMA LengthTypes ==
    ASSUME TypeOK
    PROVE  /\ Len(sockets) \in Nat /\ Len(ids) \in Nat /\ Len(ops) \in Nat
           /\ Len(auths) \in Nat /\ Len(intervals) \in Nat
  BY DEF TypeOK, Rows

LEMMA SizeTypes ==
    ASSUME TypeOK
    PROVE  /\ IdSize \in Int /\ IdSize <= Len(ids)
           /\ OpSize \in Int /\ OpSize <= Len(ops)
           /\ AuthSize \in Int /\ AuthSize <= Len(auths)
           /\ IntervalSize \in Int /\ IntervalSize <= Len(intervals)
  BY LengthTypes DEF Size, IdSize, OpSize, AuthSize, IntervalSize

LEMMA SizesSame ==
    ASSUME UNCHANGED vectors
    PROVE  UNCHANGED sizes /\ Len(sockets') = Len(sockets)
  BY DEF vectors, sizes, Size, IdSize, OpSize, AuthSize, IntervalSize

\* An element erased takes one away.
LEMMA ErasedSize ==
    ASSUME NEW T, NEW s \in Seq(T), NEW t, NEW pc, NEW v, Erasing(pc, v, s),
           t = EraseAt(s, it), it \in Nat \ {0}, Size(v, s) >= 0
    PROVE  /\ (IF v \in owed' THEN Len(t) - 1 ELSE Len(t)) = Size(v, s) - 1
           /\ \A w : w # v => (w \in owed' <=> w \in owed)
  <1>1. Len(t) = IF s = <<>> THEN 0 ELSE Len(s) - 1
    BY EraseAtProperties
  <1>2. s = <<>> => Len(s) = 0 /\ v \notin owed
    BY DEF Size
  <1>3. owed' = IF s = <<>> THEN owed \cup {v} ELSE owed
    BY DEF Erasing
  <1>4. Len(s) \in Nat
    OBVIOUS
  <1> QED
    BY <1>1, <1>2, <1>3, <1>4 DEF Size

LEMMA PushSizes ==
    ASSUME TypeOK, Held
    PROVE  /\ PushSocket => UNCHANGED sizes
           /\ PushId => IdSize' = IdSize + 1 /\ UNCHANGED <<OpSize, AuthSize, IntervalSize>>
           /\ PushOp => OpSize' = OpSize + 1 /\ UNCHANGED <<IdSize, AuthSize, IntervalSize>>
           /\ PushAuth => AuthSize' = AuthSize + 1 /\ UNCHANGED <<IdSize, OpSize, IntervalSize>>
           /\ PushInterval => /\ IntervalSize' = IntervalSize + 1
                              /\ UNCHANGED <<IdSize, OpSize, AuthSize>>
  <1> USE DEF IdSize, OpSize, AuthSize, IntervalSize, Size
  <1>1. CASE PushSocket
    BY <1>1 DEF PushSocket, PushId, PushOp, PushAuth, PushInterval, Pushing, Accepting,
                sizes
  <1>2. CASE PushId
    <2>1. /\ newc \in Conn /\ pcA = "push_id"
          /\ ids \in Seq([of : Conn, val : Alias \cup {NoAlias}])
          /\ Row(newc, NoAlias) \in [of : Conn, val : Alias \cup {NoAlias}]
      BY <1>2 DEF PushId, Pushing, Accepting, Held, TypeOK, Rows, Row
    <2>2. /\ ids' = Pushed("ids", ids, Row(newc, NoAlias)) /\ MadeUp("ids")
          /\ UNCHANGED <<ops, auths, intervals>>
      BY <1>2 DEF PushId
    <2>3. Len(ids') = IF "ids" \in owed THEN Len(ids) ELSE Len(ids) + 1
      BY <2>1, <2>2 DEF Pushed
    <2>4. owed' = owed \ {"ids"} /\ Len(ids) \in Nat
      BY <2>2, LengthTypes DEF MadeUp
    <2> QED
      BY <2>1, <2>2, <2>3, <2>4 DEF PushSocket, PushOp, PushAuth, PushInterval, Pushing, Accepting
  <1>3. CASE PushOp
    <2>1. newc \in Conn /\ pcA = "push_op" /\ ops \in Seq(Conn)
      BY <1>3 DEF PushOp, Pushing, Accepting, Held, TypeOK
    <2>2. /\ ops' = Pushed("ops", ops, newc) /\ MadeUp("ops")
          /\ UNCHANGED <<ids, auths, intervals>>
      BY <1>3 DEF PushOp
    <2>3. Len(ops') = IF "ops" \in owed THEN Len(ops) ELSE Len(ops) + 1
      BY <2>1, <2>2 DEF Pushed
    <2>4. owed' = owed \ {"ops"} /\ Len(ops) \in Nat
      BY <2>2, LengthTypes DEF MadeUp
    <2> QED
      BY <2>1, <2>2, <2>3, <2>4 DEF PushSocket, PushId, PushAuth, PushInterval, Pushing, Accepting
  <1>4. CASE PushAuth
    <2>1. /\ newc \in Conn /\ pcA = "push_auth"
          /\ auths \in Seq([of : Conn, val : Status])
          /\ Row(newc, "Undone") \in [of : Conn, val : Status]
      BY <1>4 DEF PushAuth, Pushing, Accepting, Held, TypeOK, Rows, Row, Status
    <2>2. /\ auths' = Pushed("auths", auths, Row(newc, "Undone")) /\ MadeUp("auths")
          /\ UNCHANGED <<ids, ops, intervals>>
      BY <1>4 DEF PushAuth
    <2>3. Len(auths') = IF "auths" \in owed THEN Len(auths) ELSE Len(auths) + 1
      BY <2>1, <2>2 DEF Pushed
    <2>4. owed' = owed \ {"auths"} /\ Len(auths) \in Nat
      BY <2>2, LengthTypes DEF MadeUp
    <2> QED
      BY <2>1, <2>2, <2>3, <2>4 DEF PushSocket, PushId, PushOp, PushInterval, Pushing, Accepting
  <1>5. CASE PushInterval
    <2>1. newc \in Conn /\ pcA = "push_interval" /\ intervals \in Seq(Conn)
      BY <1>5 DEF PushInterval, Pushing, Accepting, Held, TypeOK
    <2>2. /\ intervals' = Pushed("intervals", intervals, newc) /\ MadeUp("intervals")
          /\ UNCHANGED <<ids, ops, auths>>
      BY <1>5 DEF PushInterval
    <2>3. Len(intervals') = IF "intervals" \in owed THEN Len(intervals) ELSE Len(intervals) + 1
      BY <2>1, <2>2 DEF Pushed
    <2>4. owed' = owed \ {"intervals"} /\ Len(intervals) \in Nat
      BY <2>2, LengthTypes DEF MadeUp
    <2> QED
      BY <2>1, <2>2, <2>3, <2>4 DEF PushSocket, PushId, PushOp, PushAuth, Pushing, Accepting
  <1> QED
    BY <1>1, <1>2, <1>3, <1>4, <1>5

LEMMA HeightsConnection ==
    ASSUME TypeOK, Held, SameHeight, InReach, ConnectionThread
    PROVE  SameHeight' /\ InReach'
  <1>1. PICK h \in Nat : Heights(h)
    BY DEF SameHeight
  <1>2. /\ Len(sockets) \in Nat /\ IdSize \in Int /\ OpSize \in Int
        /\ AuthSize \in Int /\ IntervalSize \in Int
    BY LengthTypes, SizeTypes
  <1> USE <1>1, <1>2 DEF Heights, Height
  <1>3. /\ UNCHANGED <<it, pcM>>
        /\ (IdOut' <=> IdOut) /\ (SocketOut' <=> SocketOut)
        /\ (OpOut' <=> OpOut) /\ (AuthOut' <=> AuthOut)
    BY DEF ConnectionThread, AcceptConn, NewConn, AcceptFails, PushSocket, PushId,
           PushOp, PushAuth, PushInterval, Greet, Pushing, Accepting, threadM,
           IdOut, SocketOut, OpOut, AuthOut, Disconnecting
  <1>4. CASE AcceptFails \/ \E c \in Conn : AcceptConn(c)
    <2>1. UNCHANGED <<sockets, sizes>>
      BY <1>4, SizesSame DEF AcceptFails, AcceptConn, NewConn, vectors
    <2>2. /\ ~SocketIn /\ ~IdIn /\ ~OpIn /\ ~AuthIn /\ ~IntervalIn
          /\ ~SocketIn' /\ ~IdIn' /\ ~OpIn' /\ ~AuthIn' /\ ~IntervalIn'
      BY <1>4 DEF AcceptFails, AcceptConn, NewConn, Accepting, SocketIn, IdIn, OpIn,
                  AuthIn, IntervalIn
    <2>3. Heights(h)'
      BY <1>3, <2>1, <2>2 DEF sizes
    <2> QED
      BY <1>3, <2>1, <2>3 DEF SameHeight, InReach
  <1>5. CASE Greet
    <2>1. UNCHANGED <<sockets, sizes>>
      BY <1>5, SizesSame DEF Greet, vectors
    <2>2. /\ SocketIn /\ IdIn /\ OpIn /\ AuthIn /\ IntervalIn
          /\ ~SocketIn' /\ ~IdIn' /\ ~OpIn' /\ ~AuthIn' /\ ~IntervalIn'
      BY <1>5 DEF Greet, Accepting, SocketIn, IdIn, OpIn, AuthIn, IntervalIn
    <2>3. Heights(h + 1)'
      BY <1>3, <2>1, <2>2 DEF sizes
    <2>4. SameHeight'
      BY <2>3 DEF SameHeight
    <2>5. InReach'
      BY <1>3, <2>1 DEF InReach
    <2> QED
      BY <2>4, <2>5
  <1>6. CASE PushSocket
    <2>1. Len(sockets') = Len(sockets) + 1
      BY <1>6 DEF PushSocket, PushSocketLast, Pushing, Accepting, TypeOK, Held
    <2>2. /\ ~SocketIn /\ SocketIn'
          /\ UNCHANGED <<IdSize, OpSize, AuthSize, IntervalSize>>
          /\ (IdIn' <=> IdIn) /\ (OpIn' <=> OpIn)
          /\ (AuthIn' <=> AuthIn) /\ (IntervalIn' <=> IntervalIn)
      BY <1>6, PushSizes DEF PushSocket, Pushing, Accepting, SocketIn, IdIn, OpIn, AuthIn,
                  IntervalIn, sizes
    <2>3. Heights(h)'
      BY <1>3, <2>1, <2>2
    <2>4. InReach'
      BY <1>3, <2>1 DEF InReach, TypeOK
    <2> QED
      BY <2>3, <2>4 DEF SameHeight
  <1>7. CASE PushId
    <2>1. IdSize' = IdSize + 1
      BY <1>7, PushSizes
    <2>2. /\ ~IdIn /\ IdIn'
          /\ UNCHANGED <<sockets, OpSize, AuthSize, IntervalSize>>
          /\ (SocketIn' <=> SocketIn) /\ (OpIn' <=> OpIn)
          /\ (AuthIn' <=> AuthIn) /\ (IntervalIn' <=> IntervalIn)
      BY <1>7, PushSizes DEF PushId, Pushing, Accepting, SocketIn, IdIn, OpIn, AuthIn, IntervalIn
    <2>3. Heights(h)'
      BY <1>3, <2>1, <2>2
    <2> QED
      BY <1>3, <2>1, <2>2, <2>3 DEF SameHeight, InReach
  <1>8. CASE PushOp
    <2>1. OpSize' = OpSize + 1
      BY <1>8, PushSizes
    <2>2. /\ ~OpIn /\ OpIn'
          /\ UNCHANGED <<sockets, IdSize, AuthSize, IntervalSize>>
          /\ (SocketIn' <=> SocketIn) /\ (IdIn' <=> IdIn)
          /\ (AuthIn' <=> AuthIn) /\ (IntervalIn' <=> IntervalIn)
      BY <1>8, PushSizes DEF PushOp, Pushing, Accepting, SocketIn, IdIn, OpIn, AuthIn, IntervalIn
    <2>3. Heights(h)'
      BY <1>3, <2>1, <2>2
    <2> QED
      BY <1>3, <2>1, <2>2, <2>3 DEF SameHeight, InReach
  <1>9. CASE PushAuth
    <2>1. AuthSize' = AuthSize + 1
      BY <1>9, PushSizes
    <2>2. /\ ~AuthIn /\ AuthIn'
          /\ UNCHANGED <<sockets, IdSize, OpSize, IntervalSize>>
          /\ (SocketIn' <=> SocketIn) /\ (IdIn' <=> IdIn)
          /\ (OpIn' <=> OpIn) /\ (IntervalIn' <=> IntervalIn)
      BY <1>9, PushSizes DEF PushAuth, Pushing, Accepting, SocketIn, IdIn, OpIn, AuthIn, IntervalIn
    <2>3. Heights(h)'
      BY <1>3, <2>1, <2>2
    <2> QED
      BY <1>3, <2>1, <2>2, <2>3 DEF SameHeight, InReach
  <1>10. CASE PushInterval
    <2>1. IntervalSize' = IntervalSize + 1
      BY <1>10, PushSizes
    <2>2. /\ ~IntervalIn /\ IntervalIn'
          /\ UNCHANGED <<sockets, IdSize, OpSize, AuthSize>>
          /\ (SocketIn' <=> SocketIn) /\ (IdIn' <=> IdIn)
          /\ (OpIn' <=> OpIn) /\ (AuthIn' <=> AuthIn)
      BY <1>10, PushSizes DEF PushInterval, Pushing, Accepting, SocketIn, IdIn, OpIn, AuthIn,
                  IntervalIn
    <2>3. Heights(h)'
      BY <1>3, <2>1, <2>2
    <2> QED
      BY <1>3, <2>1, <2>2, <2>3 DEF SameHeight, InReach
  <1> QED
    BY <1>4, <1>5, <1>6, <1>7, <1>8, <1>9, <1>10 DEF ConnectionThread

\* A step of the manage thread that erases nothing.
LEMMA HeightsQuiet ==
    ASSUME TypeOK, SameHeight, InReach, UNCHANGED threadA,
           UNCHANGED <<Len(sockets), sizes>>,
           (IdOut' <=> IdOut) /\ (SocketOut' <=> SocketOut),
           (OpOut' <=> OpOut) /\ (AuthOut' <=> AuthOut),
           \/ pcM' = "walk"
           \/ pcM # "walk" /\ it' = it
           \/ it' <= Len(sockets) /\ ~SocketOut
    PROVE  SameHeight' /\ InReach'
  <1>0. PICK h \in Nat : Heights(h)
    BY DEF SameHeight
  <1>1. /\ (SocketIn' <=> SocketIn) /\ (IdIn' <=> IdIn) /\ (OpIn' <=> OpIn)
        /\ (AuthIn' <=> AuthIn) /\ (IntervalIn' <=> IntervalIn)
    BY DEF threadA, SocketIn, IdIn, OpIn, AuthIn, IntervalIn
  <1>2. Heights(h)'
    BY <1>0, <1>1 DEF Heights, Height, sizes
  <1>3. InReach'
    BY DEF InReach
  <1> QED
    BY <1>2, <1>3 DEF SameHeight

\* There is something to erase, if not in this vector then in what another
\* thread will append to it.
LEMMA EraseSizes ==
    ASSUME TypeOK, SameHeight, InReach
    PROVE  /\ EraseId => IdSize' = IdSize - 1 /\ UNCHANGED <<sockets, OpSize, AuthSize, IntervalSize>>
           /\ EraseSocket => Len(sockets') = Len(sockets) - 1 /\ UNCHANGED sizes
           /\ EraseOp => OpSize' = OpSize - 1 /\ UNCHANGED <<sockets, IdSize, AuthSize, IntervalSize>>
           /\ EraseAuth => AuthSize' = AuthSize - 1 /\ UNCHANGED <<sockets, IdSize, OpSize, IntervalSize>>
           /\ EraseInterval => /\ IntervalSize' = IntervalSize - 1
                               /\ UNCHANGED <<sockets, IdSize, OpSize, AuthSize>>
  <1>1. PICK h \in Nat : Heights(h)
    BY DEF SameHeight
  <1>2. it \in Nat \ {0}
    BY DEF TypeOK
  <1>3. /\ pcM = "erase_id" => IdSize >= 0
        /\ pcM = "erase_socket" => Len(sockets) >= 1
        /\ pcM = "erase_op" => OpSize >= 0
        /\ pcM = "erase_auth" => AuthSize >= 0
        /\ pcM = "erase_interval" => IntervalSize >= 0
    <2>1. /\ Len(sockets) \in Nat /\ IdSize \in Int /\ OpSize \in Int
          /\ AuthSize \in Int /\ IntervalSize \in Int
      BY LengthTypes, SizeTypes
    <2>2. SocketIn \/ (~SocketIn /\ ~IdIn /\ ~OpIn /\ ~AuthIn /\ ~IntervalIn)
      BY DEF SocketIn, IdIn, OpIn, AuthIn, IntervalIn
    <2>3. pcM # "walk" => h >= 1 /\ (~SocketIn => h >= 2)
      BY <1>1, <1>2, <2>1 DEF Heights, Height, InReach
    <2>4. pcM = "erase_id" => ~IdOut
      BY DEF IdOut, Disconnecting
    <2>5. pcM = "erase_socket" => ~SocketOut
      BY DEF SocketOut
    <2>6. pcM = "erase_op" => ~OpOut
      BY DEF OpOut
    <2>7. pcM = "erase_auth" => ~AuthOut
      BY DEF AuthOut
    <2>8. pcM = "erase_socket" => Len(sockets) >= 1
      BY <1>2, <2>1, <2>5 DEF InReach
    <2>9. /\ IdSize = (IF IdIn THEN h ELSE h - 1) - (IF IdOut THEN 1 ELSE 0)
          /\ OpSize = (IF OpIn THEN h ELSE h - 1) - (IF OpOut THEN 1 ELSE 0)
          /\ AuthSize = (IF AuthIn THEN h ELSE h - 1) - (IF AuthOut THEN 1 ELSE 0)
          /\ IntervalSize = IF IntervalIn THEN h ELSE h - 1
      BY <1>1, <2>1 DEF Heights, Height
    <2> QED
      BY <2>2, <2>3, <2>4, <2>6, <2>7, <2>8, <2>9
  <1>4. ASSUME EraseId
        PROVE  /\ IdSize' = IdSize - 1
               /\ UNCHANGED <<sockets, OpSize, AuthSize, IntervalSize>>
    <2>1. /\ Erasing("erase_id", "ids", ids) /\ ids' = EraseAt(ids, it)
          /\ UNCHANGED <<sockets, ops, auths, intervals>> /\ pcM = "erase_id"
      BY <1>4 DEF EraseId, Erasing, Managing
    <2>2. ids \in Seq([of : Conn, val : Alias \cup {NoAlias}])
      BY DEF TypeOK, Rows
    <2>3. Size("ids", ids) >= 0
      BY <1>3, <2>1 DEF IdSize
    <2>4. /\ (IF "ids" \in owed' THEN Len(ids') - 1 ELSE Len(ids')) = Size("ids", ids) - 1
          /\ \A w : w # "ids" => (w \in owed' <=> w \in owed)
      BY <1>2, <2>1, <2>2, <2>3, ErasedSize
    <2> QED
      BY <2>1, <2>4 DEF IdSize, OpSize, AuthSize, IntervalSize, Size
  <1>5. ASSUME EraseSocket
        PROVE  Len(sockets') = Len(sockets) - 1 /\ UNCHANGED sizes
    <2>1. /\ Erasing("erase_socket", "sockets", sockets) /\ sockets' = EraseAt(sockets, it)
          /\ UNCHANGED <<ids, ops, auths, intervals>> /\ pcM = "erase_socket"
      BY <1>5 DEF EraseSocket, Erasing, Managing
    <2>2. sockets \in Seq(Conn) /\ sockets # <<>>
      BY <1>3, <2>1, EmptySeq DEF TypeOK
    <2>3. Len(sockets') = Len(sockets) - 1 /\ owed' = owed
      BY <1>2, <2>1, <2>2, EraseAtProperties DEF Erasing
    <2> QED
      BY <2>1, <2>3 DEF sizes, IdSize, OpSize, AuthSize, IntervalSize, Size
  <1>6. ASSUME EraseOp
        PROVE  /\ OpSize' = OpSize - 1
               /\ UNCHANGED <<sockets, IdSize, AuthSize, IntervalSize>>
    <2>1. /\ Erasing("erase_op", "ops", ops) /\ ops' = EraseAt(ops, it)
          /\ UNCHANGED <<sockets, ids, auths, intervals>> /\ pcM = "erase_op"
      BY <1>6 DEF EraseOp, Erasing, Managing
    <2>2. ops \in Seq(Conn)
      BY DEF TypeOK
    <2>3. Size("ops", ops) >= 0
      BY <1>3, <2>1 DEF OpSize
    <2>4. /\ (IF "ops" \in owed' THEN Len(ops') - 1 ELSE Len(ops')) = Size("ops", ops) - 1
          /\ \A w : w # "ops" => (w \in owed' <=> w \in owed)
      BY <1>2, <2>1, <2>2, <2>3, ErasedSize
    <2> QED
      BY <2>1, <2>4 DEF IdSize, OpSize, AuthSize, IntervalSize, Size
  <1>7. ASSUME EraseAuth
        PROVE  /\ AuthSize' = AuthSize - 1
               /\ UNCHANGED <<sockets, IdSize, OpSize, IntervalSize>>
    <2>1. /\ Erasing("erase_auth", "auths", auths) /\ auths' = EraseAt(auths, it)
          /\ UNCHANGED <<sockets, ids, ops, intervals>> /\ pcM = "erase_auth"
      BY <1>7 DEF EraseAuth, Erasing, Managing
    <2>2. auths \in Seq([of : Conn, val : Status])
      BY DEF TypeOK, Rows
    <2>3. Size("auths", auths) >= 0
      BY <1>3, <2>1 DEF AuthSize
    <2>4. /\ (IF "auths" \in owed' THEN Len(auths') - 1 ELSE Len(auths')) = Size("auths", auths) - 1
          /\ \A w : w # "auths" => (w \in owed' <=> w \in owed)
      BY <1>2, <2>1, <2>2, <2>3, ErasedSize
    <2> QED
      BY <2>1, <2>4 DEF IdSize, OpSize, AuthSize, IntervalSize, Size
  <1>8. ASSUME EraseInterval
        PROVE  /\ IntervalSize' = IntervalSize - 1
               /\ UNCHANGED <<sockets, IdSize, OpSize, AuthSize>>
    <2>1. /\ Erasing("erase_interval", "intervals", intervals) /\ intervals' = EraseAt(intervals, it)
          /\ UNCHANGED <<sockets, ids, ops, auths>> /\ pcM = "erase_interval"
      BY <1>8 DEF EraseInterval, Erasing, Managing
    <2>2. intervals \in Seq(Conn)
      BY DEF TypeOK
    <2>3. Size("intervals", intervals) >= 0
      BY <1>3, <2>1 DEF IntervalSize
    <2>4. /\ (IF "intervals" \in owed' THEN Len(intervals') - 1 ELSE Len(intervals')) = Size("intervals", intervals) - 1
          /\ \A w : w # "intervals" => (w \in owed' <=> w \in owed)
      BY <1>2, <2>1, <2>2, <2>3, ErasedSize
    <2> QED
      BY <2>1, <2>4 DEF IdSize, OpSize, AuthSize, IntervalSize, Size
  <1> QED
    BY <1>4, <1>5, <1>6, <1>7, <1>8

LEMMA HeightsManage ==
    ASSUME TypeOK, SameHeight, InReach, ManageThread
    PROVE  SameHeight' /\ InReach'
  <1> USE DEF IdOut, SocketOut, OpOut, AuthOut, Disconnecting
  <1>1. CASE NextRow \/ EndOfPass \/ NothingReceived
    <2>1. /\ UNCHANGED <<threadA, vectors>>
          /\ pcM \in {"walk", "receive"} /\ pcM' \in {"walk", "receive"}
          /\ pcM' = "walk" \/ (it' <= Len(sockets))
      BY <1>1 DEF NextRow, EndOfPass, NothingReceived, Managing, LastRow, RowDone
    <2> QED
      BY <2>1, SizesSame, HeightsQuiet
  <1>2. CASE DataReceived
    <2>1. /\ UNCHANGED <<threadA, vectors, it>> /\ pcM = "receive"
          /\ pcM' \in Status
      BY <1>2, StatusRead DEF DataReceived, Managing, Goto, vectors
    <2> QED
      BY <2>1, SizesSame, HeightsQuiet DEF Status
  <1>3. CASE \/ \E n \in Alias : TakeAlias(n) \/ Rename(n) \/ DirectMessage(n)
             \/ Admit \/ Complete \/ Talk \/ Answer
    <2>1. UNCHANGED <<threadA, sockets, ops, intervals, owed>>
      BY <1>3 DEF TakeAlias, Rename, DirectMessage, Admit, Complete, Talk, Answer,
                  Handling, Managing
    <2>2. Len(ids') = Len(ids) /\ Len(auths') = Len(auths)
      <3>1. CASE UNCHANGED <<ids, auths>>
        BY <3>1
      <3>2. ASSUME NEW n \in Alias, SetAlias(n)
            PROVE  Len(ids') = Len(ids) /\ Len(auths') = Len(auths)
        BY <3>2, AssignProperties DEF SetAlias, TypeOK
      <3>3. ASSUME NEW s \in Status, SetStatus(s)
            PROVE  Len(ids') = Len(ids) /\ Len(auths') = Len(auths)
        BY <3>3, AssignProperties DEF SetStatus, TypeOK
      <3> QED
        BY <1>3, <3>1, <3>2, <3>3 DEF TakeAlias, Rename, DirectMessage, Admit,
              Complete, Talk, Answer, Status
    <2>3. /\ pcM \in Status \cup {"admit"} /\ pcM' \in {"walk", "admit"}
          /\ pcM' = "walk" \/ it' = it
      BY <1>3 DEF TakeAlias, Rename, DirectMessage, Admit, Complete, Talk, Answer,
                  Handling, Managing, RowDone, Goto, Status
    <2>4. UNCHANGED sizes
      BY <2>1, <2>2 DEF sizes, Size, IdSize, OpSize, AuthSize, IntervalSize
    <2> QED
      BY <2>1, <2>3, <2>4, HeightsQuiet DEF Status
  <1>4. CASE Reject \/ TellLeave \/ FreeSocket
    <2>1. /\ UNCHANGED <<threadA, vectors, it>>
          /\ \/ pcM \in Status \cup {"receive"} /\ pcM' = "erase_id"
             \/ pcM = "tell" /\ pcM' = "free"
             \/ pcM = "free" /\ pcM' = "erase_socket"
      BY <1>4 DEF Reject, TellLeave, FreeSocket, Managing, Goto
    <2> QED
      BY <2>1, SizesSame, HeightsQuiet DEF Status
  <1>5. CASE EraseId \/ EraseSocket \/ EraseOp \/ EraseAuth \/ EraseInterval
    <2>1. PICK h \in Nat : Heights(h)
      BY DEF SameHeight
    <2>2. /\ (SocketIn' <=> SocketIn) /\ (IdIn' <=> IdIn) /\ (OpIn' <=> OpIn)
          /\ (AuthIn' <=> AuthIn) /\ (IntervalIn' <=> IntervalIn)
      BY <1>5 DEF EraseId, EraseSocket, EraseOp, EraseAuth, EraseInterval, Erasing,
            Managing, threadA, SocketIn, IdIn, OpIn, AuthIn, IntervalIn
    <2>3. /\ Len(sockets) \in Nat /\ IdSize \in Int /\ OpSize \in Int
          /\ AuthSize \in Int /\ IntervalSize \in Int
      BY LengthTypes, SizeTypes
    <2> USE <2>1, <2>2, <2>3 DEF Heights, Height
    <2>4. CASE EraseId
      <3>1. IdSize' = IdSize - 1 /\ UNCHANGED <<sockets, OpSize, AuthSize, IntervalSize>>
        BY <2>4, EraseSizes
      <3>2. /\ pcM = "erase_id" /\ pcM' = "tell" /\ it' = it
        BY <2>4 DEF EraseId, Erasing, Managing, Goto
      <3>3. Heights(h)'
        BY <3>1, <3>2
      <3> QED
        BY <3>2, <3>3 DEF SameHeight, InReach
    <2>5. CASE EraseSocket
      <3>1. Len(sockets') = Len(sockets) - 1 /\ UNCHANGED sizes
        BY <2>5, EraseSizes
      <3>2. /\ pcM = "erase_socket" /\ pcM' = "erase_op" /\ it' = it
        BY <2>5 DEF EraseSocket, Erasing, Managing, Goto
      <3>3. Heights(h)'
        BY <3>1, <3>2 DEF sizes
      <3>4. SameHeight'
        BY <3>3 DEF SameHeight
      <3>5. InReach'
        BY <3>1, <3>2 DEF InReach
      <3> QED
        BY <3>4, <3>5
    <2>6. CASE EraseOp
      <3>1. OpSize' = OpSize - 1 /\ UNCHANGED <<sockets, IdSize, AuthSize, IntervalSize>>
        BY <2>6, EraseSizes
      <3>2. /\ pcM = "erase_op" /\ pcM' = "erase_auth" /\ it' = it
        BY <2>6 DEF EraseOp, Erasing, Managing, Goto
      <3>3. Heights(h)'
        BY <3>1, <3>2
      <3> QED
        BY <3>2, <3>3 DEF SameHeight, InReach
    <2>7. CASE EraseAuth
      <3>1. AuthSize' = AuthSize - 1 /\ UNCHANGED <<sockets, IdSize, OpSize, IntervalSize>>
        BY <2>7, EraseSizes
      <3>2. /\ pcM = "erase_auth" /\ pcM' = "erase_interval" /\ it' = it
        BY <2>7 DEF EraseAuth, Erasing, Managing, Goto
      <3>3. Heights(h)'
        BY <3>1, <3>2
      <3> QED
        BY <3>2, <3>3 DEF SameHeight, InReach
    <2>8. CASE EraseInterval
      <3>1. IntervalSize' = IntervalSize - 1 /\ UNCHANGED <<sockets, IdSize, OpSize, AuthSize>>
        BY <2>8, EraseSizes
      <3>2. /\ pcM = "erase_interval" /\ pcM' = "walk"
        BY <2>8 DEF EraseInterval, Erasing, Managing, RowDone
      <3>3. h - 1 \in Nat /\ Heights(h - 1)'
        BY <3>1, <3>2
      <3> QED
        BY <3>2, <3>3 DEF SameHeight, InReach
    <2> QED
      BY <1>5, <2>4, <2>5, <2>6, <2>7, <2>8
  <1> QED
    BY <1>1, <1>2, <1>3, <1>4, <1>5 DEF ManageThread

LEMMA HeightsStep ==
    ASSUME TypeOK, Held, SameHeight, InReach, [Next]_vars
    PROVE  SameHeight' /\ InReach'
  <1>1. CASE UNCHANGED vars \/ Crash \/ \E c \in Conn : Send(c) \/ Leave(c)
    <2>1. UNCHANGED <<vectors, threadA, threadM>>
      BY <1>1 DEF vars, Crash, Send, Leave
    <2>2. UNCHANGED <<sockets, sizes>>
      BY <2>1, SizesSame DEF vectors
    <2> QED
      BY <2>1, <2>2 DEF SameHeight, InReach, Heights, Height, SocketIn, IdIn, OpIn, AuthIn,
            IntervalIn, IdOut, SocketOut, OpOut, AuthOut, Disconnecting, sizes,
            threadA, threadM
  <1> QED
    BY <1>1, HeightsConnection, HeightsManage DEF Next

LEMMA HeightsInit == Init => SameHeight /\ InReach
  <1> SUFFICES ASSUME Init
               PROVE  SameHeight /\ InReach
    OBVIOUS
  <1>1. Heights(1)
    BY DEF Init, Size, IdSize, OpSize, AuthSize, IntervalSize, Heights, Height, SocketIn, IdIn, OpIn, AuthIn, IntervalIn, IdOut,
           SocketOut, OpOut, AuthOut, Disconnecting
  <1> QED
    BY <1>1 DEF Init, SameHeight, InReach

LEMMA HeightsKept == Spec => [](TypeOK /\ Held /\ Holding /\ SameHeight /\ InReach)
  <1>1. /\ TypeOK /\ Held /\ Holding /\ SameHeight /\ InReach /\ [Next]_vars
        => (SameHeight /\ InReach)'
    BY HeightsStep
  <1> QED
    BY <1>1, HeightsInit, Types, PTL DEF Spec

\* Whatever has gone wrong, between two connections and between two erased
\* rows the five vectors have the same size() again, also when one has been
\* erased from while it was empty.
THEOREM LengthsAgree == Spec => []SameLength
  <1>1. TypeOK /\ SameHeight => SameLength
    <2> SUFFICES ASSUME TypeOK, SameHeight, pcA \in {"accept", "ended"}, ~Disconnecting
                 PROVE  /\ IdSize = Len(sockets) /\ OpSize = Len(sockets)
                        /\ AuthSize = Len(sockets) /\ IntervalSize = Len(sockets)
      BY DEF SameLength, IdSize, OpSize, AuthSize, IntervalSize
    <2>1. PICK h \in Nat : Heights(h)
      BY DEF SameHeight
    <2>2. ~SocketIn /\ ~IdIn /\ ~OpIn /\ ~AuthIn /\ ~IntervalIn
      BY DEF SocketIn, IdIn, OpIn, AuthIn, IntervalIn
    <2>3. ~SocketOut /\ ~IdOut /\ ~OpOut /\ ~AuthOut
      BY DEF IdOut, SocketOut, OpOut, AuthOut, Disconnecting
    <2>4. /\ Len(sockets) \in Nat /\ IdSize \in Int /\ OpSize \in Int
          /\ AuthSize \in Int /\ IntervalSize \in Int
      BY LengthTypes, SizeTypes
    <2> QED
      BY <2>1, <2>2, <2>3, <2>4 DEF Heights, Height
  <1> QED
    BY <1>1, HeightsKept, PTL

\* A position within the vectors is within each of them, unless a row is being
\* appended.
LEMMA WithinAll ==
    ASSUME TypeOK, SameHeight, InReach, pcA \in {"accept", "ended"}, pcM # "walk"
    PROVE  /\ ~IdOut => it <= Len(ids)
           /\ ~SocketOut => it <= Len(sockets)
           /\ ~OpOut => it <= Len(ops)
           /\ ~AuthOut => it <= Len(auths)
           /\ it <= Len(intervals)
  <1>1. PICK h \in Nat : Heights(h)
    BY DEF SameHeight
  <1>2. ~SocketIn /\ ~IdIn /\ ~OpIn /\ ~AuthIn /\ ~IntervalIn
    BY DEF SocketIn, IdIn, OpIn, AuthIn, IntervalIn
  <1>3. it + 1 <= h
    BY <1>1, <1>2, LengthTypes DEF Heights, Height, InReach, TypeOK
  <1>4. /\ it \in Nat /\ IdSize \in Int /\ OpSize \in Int /\ AuthSize \in Int
        /\ IntervalSize \in Int /\ Len(sockets) \in Nat
    BY SizeTypes, LengthTypes DEF TypeOK
  <1>5. /\ ~IdOut => it <= IdSize
        /\ ~SocketOut => it <= Len(sockets)
        /\ ~OpOut => it <= OpSize
        /\ ~AuthOut => it <= AuthSize
        /\ it <= IntervalSize
    BY <1>1, <1>2, <1>3, <1>4 DEF Heights, Height
  <1> QED
    BY <1>4, <1>5, LengthTypes, SizeTypes

\* A broadcast reads a status that is not there only while one is still to be
\* appended for the last socket.
LEMMA OverreadsBefore ==
    ASSUME TypeOK, SameHeight, [Next]_vars, ~overread, overread'
    PROVE  pcA \in {"push_id", "push_op", "push_auth"}
  <1>1. ~UNCHANGED vars /\ ~Crash /\ ~ConnectionThread /\ ~\E c \in Conn : Send(c) \/ Leave(c)
    BY DEF vars, Crash, Quiet, ConnectionThread, AcceptConn, NewConn, AcceptFails,
          PushSocket, PushId, PushOp, PushAuth, PushInterval, Greet, Pushing, Accepting,
          Send, Leave
  <1>2. /\ ~NextRow /\ ~EndOfPass /\ ~NothingReceived /\ ~DataReceived
        /\ ~Admit /\ ~Complete /\ ~Answer /\ ~\E n \in Alias : DirectMessage(n)
        /\ ~Reject /\ ~FreeSocket
        /\ ~EraseId /\ ~EraseSocket /\ ~EraseOp /\ ~EraseAuth /\ ~EraseInterval
    BY DEF NextRow, EndOfPass, NothingReceived, DataReceived, Admit, Complete, SetStatus,
          Answer, DirectMessage, Replies, Reject, FreeSocket, EraseId, EraseSocket, EraseOp,
          EraseAuth, EraseInterval, Erasing, Quiet
  <1>3. (\E n \in Alias : TakeAlias(n) \/ Rename(n)) \/ Talk \/ TellLeave
    BY <1>1, <1>2 DEF Next, ManageThread
  <1>4. Broadcast /\ ~SocketOut /\ ~AuthOut
    BY <1>3 DEF TakeAlias, Rename, SetAlias, Talk, TellLeave, Handling, Managing, SocketOut,
                AuthOut
  <1>5. PICK i \in 1..Len(sockets) : i > Len(auths)
    BY <1>4 DEF Broadcast, WithoutStatus
  <1>6. PICK h \in Nat : Heights(h)
    BY DEF SameHeight
  <1>7. /\ Len(sockets) \in Nat /\ Len(auths) \in Nat
        /\ AuthSize \in Int /\ AuthSize <= Len(auths)
    BY LengthTypes, SizeTypes
  <1>8. AuthSize < Len(sockets)
    BY <1>5, <1>7
  <1>9. SocketIn /\ ~AuthIn
    BY <1>4, <1>6, <1>7, <1>8 DEF Heights, Height, SocketIn, AuthIn
  <1> QED
    BY <1>9 DEF SocketIn, AuthIn

\* The row in hand is used too early, or a socket too late, only while a row is
\* being appended, and a broadcast reads a status that is not there only
\* between the append to client_array and that to client_authenticated_array.
THEOREM NoStrayBetweenAccepts == Spec => StraysOnlyDuringAccept
  <1>1. ASSUME TypeOK, Held, Holding, SameHeight, InReach, [Next]_vars, ~strayed, strayed'
        PROVE  pcA \notin {"accept", "ended"}
    <2> SUFFICES ASSUME pcA \in {"accept", "ended"}
                 PROVE  FALSE
      OBVIOUS
    <2>1. ManageThread
      BY <1>1 DEF Next, vars, ConnectionThread, AcceptConn, NewConn, AcceptFails,
            PushSocket, PushId, PushOp, PushAuth, PushInterval, Greet, Pushing,
            Accepting, Send, Leave, Crash
    <2>2. /\ it \in Nat
          /\ Len(ids) \in Nat /\ Len(sockets) \in Nat /\ Len(ops) \in Nat
          /\ Len(auths) \in Nat /\ Len(intervals) \in Nat
      BY <1>1, LengthTypes, TypeStep DEF TypeOK
    <2>3. pcM # "walk" => /\ ~IdOut => it <= Len(ids)
                          /\ ~SocketOut => it <= Len(sockets)
                          /\ ~OpOut => it <= Len(ops)
                          /\ ~AuthOut => it <= Len(auths)
                          /\ it <= Len(intervals)
      BY <1>1, WithinAll
    <2>4. ASSUME NEW v, Access(v)
          PROVE  it > Len(v)
      BY <1>1, <2>4 DEF Access
    <2> USE DEF IdOut, SocketOut, OpOut, AuthOut, Disconnecting, Managing,
              Status
    <2>5. CASE DataReceived
      <3>1. PICK s \in StatusAt(it) : Access(IF s = "Done" THEN intervals ELSE auths)
        BY <2>5 DEF DataReceived
      <3>2. pcM = "receive"
        BY <2>5 DEF DataReceived
      <3> QED
        BY <2>2, <2>3, <2>4, <3>1, <3>2
    <2>6. CASE \/ \E n \in Alias : TakeAlias(n) \/ Rename(n) \/ DirectMessage(n)
               \/ Admit \/ Complete \/ Talk
      <3>1. Access(ids) \/ Access(auths) \/ Access(intervals)
        BY <2>6 DEF TakeAlias, Rename, DirectMessage, Admit, Complete, Talk, SetAlias,
            SetStatus
      <3>2. pcM \in Status \cup {"admit"}
        BY <2>6 DEF TakeAlias, Rename, DirectMessage, Admit, Complete, Talk, Handling
      <3> QED
        BY <2>2, <2>3, <2>4, <3>1, <3>2
    <2>7. CASE Reject \/ FreeSocket
      <3>1. \/ Access(ids) /\ pcM \in Status \cup {"receive"}
            \/ Access(auths) /\ pcM = "free"
        BY <2>7 DEF Reject, FreeSocket
      <3> QED
        BY <2>2, <2>3, <2>4, <3>1
    <2>8. CASE EraseId \/ EraseSocket \/ EraseOp \/ EraseAuth \/ EraseInterval
      <3>1. \/ Access(ids) /\ pcM = "erase_id"
            \/ Access(sockets) /\ pcM = "erase_socket"
            \/ Access(ops) /\ pcM = "erase_op"
            \/ Access(auths) /\ pcM = "erase_auth"
            \/ Access(intervals) /\ pcM = "erase_interval"
        BY <2>8 DEF EraseId, EraseSocket, EraseOp, EraseAuth, EraseInterval, Erasing
      <3> QED
        BY <2>2, <2>3, <2>4, <3>1
    <2>9. CASE NextRow \/ EndOfPass \/ NothingReceived \/ Answer \/ TellLeave
      BY <1>1, <2>9 DEF NextRow, EndOfPass, NothingReceived, Answer, TellLeave
    <2> QED
      BY <2>1, <2>5, <2>6, <2>7, <2>8, <2>9 DEF ManageThread
  <1>2. /\ TypeOK /\ SameHeight /\ [Next]_vars /\ ~overread /\ overread'
        => pcA \in {"push_id", "push_op", "push_auth"}
    BY OverreadsBefore
  <1>3. TypeOK /\ Held /\ Holding /\ SameHeight /\ InReach /\ [Next]_vars
        => [/\ ~strayed /\ strayed' => pcA \notin {"accept", "ended"}
            /\ ~overread /\ overread' => pcA \in {"push_id", "push_op", "push_auth"}]_vars
    BY <1>1, <1>2
  <1> QED
    BY <1>3, HeightsKept, PTL DEF Spec, StraysOnlyDuringAccept

-----------------------------------------------------------------------------
(* The vectors are the columns of one table, until a position strays.      *)

\* The connection thread before and after it appends.
LEMMA ColumnsIdle ==
    ASSUME NEW rows \in Seq(Conn), NEW gone \in BOOLEAN, Laid(rows, gone),
           AcceptFails \/ \E c \in Conn : AcceptConn(c)
    PROVE  Laid(rows, gone)'
  <1>1. /\ ~SocketIn /\ ~IdIn /\ ~OpIn /\ ~AuthIn /\ ~IntervalIn
        /\ ~SocketIn' /\ ~IdIn' /\ ~OpIn' /\ ~AuthIn' /\ ~IntervalIn'
    BY DEF AcceptFails, AcceptConn, NewConn, Accepting, SocketIn, IdIn, OpIn,
           AuthIn, IntervalIn
  <1>2. UNCHANGED <<vectors, threadM>>
    BY DEF AcceptFails, AcceptConn, NewConn, Accepting
  <1>3. /\ (SocketOut' <=> SocketOut) /\ (IdOut' <=> IdOut) /\ (OpOut' <=> OpOut)
        /\ (AuthOut' <=> AuthOut) /\ UNCHANGED <<OwnersOf(ids), OwnersOf(auths)>>
    BY <1>2 DEF threadM, vectors, IdOut, SocketOut, OpOut, AuthOut, Disconnecting
  <1>4. ~gone
    BY DEF Laid, Columns, AcceptFails, AcceptConn, NewConn, Accepting
  <1>5. Columns(rows, gone)'
    BY <1>1, <1>2, <1>3, <1>4 DEF Laid, Columns, Column, Full, vectors, threadM
  <1>6. InHand(rows, gone)'
    BY <1>1, <1>2, <1>4 DEF Laid, InHand, Full, threadM
  <1> QED
    BY <1>2, <1>5, <1>6 DEF Laid, vectors

\* A step that leaves every column as it is.
LEMMA ColumnsStill ==
    ASSUME NEW rows, NEW gone, Laid(rows, gone),
           UNCHANGED <<sockets, OwnersOf(ids), ops, OwnersOf(auths), intervals>>,
           UNCHANGED <<threadA, owed>>,
           (IdOut' <=> IdOut) /\ (SocketOut' <=> SocketOut),
           (OpOut' <=> OpOut) /\ (AuthOut' <=> AuthOut),
           IdOut => it' = it, InHand(rows, gone)'
    PROVE  Laid(rows, gone)'
  <1>1. /\ (SocketIn' <=> SocketIn) /\ (IdIn' <=> IdIn) /\ (OpIn' <=> OpIn)
        /\ (AuthIn' <=> AuthIn) /\ (IntervalIn' <=> IntervalIn)
    BY DEF threadA, SocketIn, IdIn, OpIn, AuthIn, IntervalIn
  <1>2. (SocketOut => IdOut) /\ (OpOut => IdOut) /\ (AuthOut => IdOut)
    BY DEF IdOut, SocketOut, OpOut, AuthOut, Disconnecting
  <1>3. Columns(rows, gone)'
    BY <1>1, <1>2 DEF Laid, Columns, Column, Full, threadA
  <1> QED
    BY <1>3 DEF Laid

LEMMA ColumnsPeer ==
    ASSUME NEW rows, NEW gone, Laid(rows, gone),
           UNCHANGED vars \/ Crash \/ \E c \in Conn : Send(c) \/ Leave(c)
    PROVE  Laid(rows, gone)'
  <1>1. UNCHANGED <<vectors, threadA, threadM>>
    BY DEF vars, Crash, Send, Leave
  <1>2. /\ UNCHANGED <<sockets, OwnersOf(ids), ops, OwnersOf(auths), intervals>>
        /\ UNCHANGED <<threadA, owed>> /\ it' = it
        /\ (IdOut' <=> IdOut) /\ (SocketOut' <=> SocketOut)
        /\ (OpOut' <=> OpOut) /\ (AuthOut' <=> AuthOut)
    BY <1>1 DEF vectors, threadM, IdOut, SocketOut, OpOut, AuthOut, Disconnecting
  <1>3. InHand(rows, gone)'
    BY <1>1 DEF Laid, InHand, Full, SocketIn, threadA, threadM
  <1> QED
    BY <1>2, <1>3, ColumnsStill

\* A step of the manage thread that erases nothing.
LEMMA ColumnsQuiet ==
    ASSUME NEW rows \in Seq(Conn), NEW gone \in BOOLEAN, Laid(rows, gone), TypeOK,
           \/ NextRow \/ EndOfPass \/ NothingReceived \/ DataReceived
           \/ \E n \in Alias : TakeAlias(n) \/ Rename(n) \/ DirectMessage(n)
           \/ Admit \/ Complete \/ Talk \/ Answer
           \/ TellLeave \/ FreeSocket \/ Reject
    PROVE  Laid(rows, gone)'
  <1> USE DEF IdOut, SocketOut, OpOut, AuthOut, Disconnecting, Status
  <1>1. UNCHANGED <<threadA, sockets, ops, intervals, owed>>
    BY DEF NextRow, EndOfPass, NothingReceived, DataReceived, TakeAlias, Rename,
           DirectMessage, Admit, Complete, Talk, Answer, TellLeave, FreeSocket, Reject,
           Handling, Managing, vectors
  <1>2. UNCHANGED <<OwnersOf(ids), OwnersOf(auths)>>
    <2>1. CASE UNCHANGED <<ids, auths>>
      BY <2>1
    <2>2. ASSUME NEW n \in Alias, SetAlias(n)
          PROVE  UNCHANGED <<OwnersOf(ids), OwnersOf(auths)>>
      BY <2>2, AssignProperties DEF SetAlias, TypeOK
    <2>3. ASSUME NEW s \in Status, SetStatus(s)
          PROVE  UNCHANGED <<OwnersOf(ids), OwnersOf(auths)>>
      BY <2>3, AssignProperties DEF SetStatus, TypeOK
    <2> QED
      BY <2>1, <2>2, <2>3 DEF NextRow, EndOfPass, NothingReceived, DataReceived,
            TakeAlias, Rename, DirectMessage, Admit, Complete, Talk, Answer, TellLeave,
            FreeSocket, Reject, vectors
  <1>3. CASE NextRow
    <2>1. /\ pcM = "walk" /\ pcM' = "receive" /\ it' = it
          /\ it <= Len(sockets) /\ client' = sockets[it]
      BY <1>3 DEF NextRow, Managing, LastRow
    <2>2. sockets = Full(rows, newc, SocketIn /\ ~gone)
      BY <2>1 DEF Laid, Columns, Column
    <2>3. InHand(rows, gone)'
      BY <1>1, <2>1, <2>2 DEF InHand, Full, SocketIn, threadA
    <2> QED
      BY <1>1, <1>2, <2>1, <2>3, ColumnsStill
  <1>4. CASE EndOfPass \/ NothingReceived
    <2>1. pcM \in {"walk", "receive"} /\ pcM' = "walk"
      BY <1>4 DEF EndOfPass, NothingReceived, Managing, RowDone
    <2>2. InHand(rows, gone)'
      BY <2>1 DEF InHand
    <2> QED
      BY <1>1, <1>2, <2>1, <2>2, ColumnsStill
  <1>5. CASE \/ \E n \in Alias : Rename(n) \/ DirectMessage(n)
             \/ Admit \/ Complete \/ Talk \/ Answer
    <2>1. pcM \in {"admit", "KeyReceived", "Done"} /\ pcM' = "walk"
      BY <1>5 DEF Rename, DirectMessage, Admit, Complete, Talk, Answer, Handling,
            Managing, RowDone
    <2>2. InHand(rows, gone)'
      BY <2>1 DEF InHand
    <2> QED
      BY <1>1, <1>2, <2>1, <2>2, ColumnsStill
  <1>6. CASE \/ \E n \in Alias : TakeAlias(n)
             \/ DataReceived \/ TellLeave \/ FreeSocket \/ Reject
    <2>1. /\ UNCHANGED <<it, client>> /\ pcM # "walk"
          /\ (IdOut' <=> IdOut) /\ (SocketOut' <=> SocketOut)
          /\ (OpOut' <=> OpOut) /\ (AuthOut' <=> AuthOut)
      <3>1. CASE DataReceived
        <4>1. pcM = "receive" /\ pcM' \in Status /\ UNCHANGED <<it, client>>
          BY <3>1, StatusRead DEF DataReceived, Managing, Goto
        <4> QED
          BY <4>1
      <3>2. CASE ~DataReceived
        BY <1>6, <3>2 DEF TakeAlias, TellLeave, FreeSocket, Reject, Handling, Managing,
              Goto
      <3> QED
        BY <3>1, <3>2
    <2>2. InHand(rows, gone)'
      BY <1>1, <2>1 DEF Laid, InHand, Full, SocketIn, threadA
    <2> QED
      BY <1>1, <1>2, <2>1, <2>2, ColumnsStill
  <1> QED
    BY <1>3, <1>4, <1>5, <1>6

\* What is being appended is in all vectors: the row is one of the table's.
LEMMA ColumnsGreet ==
    ASSUME NEW rows \in Seq(Conn), NEW gone \in BOOLEAN, Laid(rows, gone), Held, Greet
    PROVE  \E full \in Seq(Conn) :
              full = Full(rows, newc, ~gone) /\ Laid(full, FALSE)'
  <1>1. /\ SocketIn /\ IdIn /\ OpIn /\ AuthIn /\ IntervalIn
        /\ ~SocketIn' /\ ~IdIn' /\ ~OpIn' /\ ~AuthIn' /\ ~IntervalIn'
    BY DEF Greet, Accepting, SocketIn, IdIn, OpIn, AuthIn, IntervalIn
  <1>2. UNCHANGED <<vectors, threadM>>
    BY DEF Greet, Accepting
  <1>3. /\ (SocketOut' <=> SocketOut) /\ (IdOut' <=> IdOut) /\ (OpOut' <=> OpOut)
        /\ (AuthOut' <=> AuthOut) /\ UNCHANGED <<OwnersOf(ids), OwnersOf(auths)>>
    BY <1>2 DEF threadM, vectors, IdOut, SocketOut, OpOut, AuthOut, Disconnecting
  <1>4. PICK full \in Seq(Conn) : full = Full(rows, newc, ~gone)
    <2>1. newc \in Conn
      BY DEF Held, Greet, Accepting
    <2>2. Full(rows, newc, ~gone) \in Seq(Conn)
      BY <2>1 DEF Full
    <2> QED
      BY <2>2
  <1>5. /\ full = Full(rows, newc, SocketIn /\ ~gone)
        /\ full = Full(rows, newc, IdIn /\ ~gone)
        /\ full = Full(rows, newc, OpIn /\ ~gone)
        /\ full = Full(rows, newc, AuthIn /\ ~gone)
        /\ full = Full(rows, newc, IntervalIn /\ ~gone)
    BY <1>1, <1>4 DEF Full
  <1>6. /\ sockets' = IF SocketOut THEN RemoveAt(full, it) ELSE full
        /\ OwnersOf(ids)' = IF IdOut THEN RemoveAt(full, it) ELSE full
        /\ ops' = IF OpOut THEN RemoveAt(full, it) ELSE full
        /\ OwnersOf(auths)' = IF AuthOut THEN RemoveAt(full, it) ELSE full
        /\ intervals' = full
        /\ SocketOut \/ IdOut \/ OpOut \/ AuthOut => it <= Len(full)
    BY <1>2, <1>3, <1>5 DEF Laid, Columns, Column, vectors
  <1>7. pcM # "walk" => it <= Len(full) /\ full[it] = client
    BY <1>5 DEF Laid, InHand
  <1>8. owed' = {}
    BY <1>2 DEF Laid, vectors
  <1>9. Laid(full, FALSE)'
    BY <1>1, <1>2, <1>3, <1>6, <1>7, <1>8 DEF Laid, Columns, InHand, Column, Full, threadM
  <1> QED
    BY <1>9, <1>4

\* The row is appended to one vector.
LEMMA ColumnsPush ==
    ASSUME NEW rows \in Seq(Conn), NEW gone \in BOOLEAN, Laid(rows, gone),
           TypeOK, TypeOK', Held, Holding,
           PushSocket \/ PushId \/ PushOp \/ PushAuth \/ PushInterval
    PROVE  Laid(rows, gone)'
  <1>1. newc \in Conn /\ UNCHANGED <<newc, threadM>> /\ ~gone /\ it \in Nat \ {0}
    BY DEF Held, PushSocket, PushId, PushOp, PushAuth, PushInterval, Pushing, Accepting,
           Laid, Columns, TypeOK
  <1>2. owed = {} /\ owed' = {}
    BY DEF Laid, PushSocket, PushId, PushOp, PushAuth, PushInterval, MadeUp
  <1>3. /\ UNCHANGED <<it, pcM, client>>
        /\ (SocketOut' <=> SocketOut) /\ (IdOut' <=> IdOut) /\ (OpOut' <=> OpOut)
        /\ (AuthOut' <=> AuthOut)
    BY <1>1 DEF threadM, IdOut, SocketOut, OpOut, AuthOut, Disconnecting
  <1>4. it <= Len(rows) =>
           /\ Append(RemoveAt(rows, it), newc) = RemoveAt(Append(rows, newc), it)
           /\ it <= Len(Append(rows, newc))
    BY <1>1, RemoveFromAppended
  <1>5. CASE PushSocket
    <2>1. /\ sockets' = Append(sockets, newc) /\ UNCHANGED <<ids, ops, auths, intervals>>
          /\ ~SocketIn /\ SocketIn' /\ (IdIn' <=> IdIn) /\ (OpIn' <=> OpIn)
          /\ (AuthIn' <=> AuthIn) /\ (IntervalIn' <=> IntervalIn) /\ ~gone
      BY <1>1, <1>5 DEF PushSocket, PushSocketLast, Pushing, Accepting, SocketIn, IdIn,
            OpIn, AuthIn, IntervalIn
    <2>2. Column(sockets, rows, newc, it, SocketIn /\ ~gone, SocketOut)'
      BY <1>3, <1>4, <2>1, <1>1 DEF Laid, Columns, Column, Full
    <2>3. Columns(rows, gone)'
      BY <1>1, <1>3, <2>1, <2>2 DEF Laid, Columns, Column, Full
    <2>4. InHand(rows, gone)'
      BY <1>1, <1>3, <2>1 DEF Laid, InHand, Full
    <2> QED
      BY <1>2, <2>3, <2>4 DEF Laid
  <1>6. CASE PushId
    <2>1. /\ ids' = Append(ids, Row(newc, NoAlias))
          /\ UNCHANGED <<sockets, ops, auths, intervals>>
          /\ ~IdIn /\ IdIn' /\ (SocketIn' <=> SocketIn) /\ (OpIn' <=> OpIn)
          /\ (AuthIn' <=> AuthIn) /\ (IntervalIn' <=> IntervalIn)
      BY <1>6, <1>2 DEF PushId, Pushed, Pushing, Accepting, SocketIn, IdIn, OpIn, AuthIn, IntervalIn
    <2>2. OwnersOf(ids)' = Append(OwnersOf(ids), newc)
      <3>1. ids \in Rows(Alias \cup {NoAlias}) /\ newc \in Conn
        BY <1>1 DEF TypeOK
      <3>2. OwnersOf(Append(ids, Row(newc, NoAlias))) = Append(OwnersOf(ids), newc)
        BY <3>1, OwnersOfAppended
      <3> QED
        BY <2>1, <3>2
    <2>3. Column(OwnersOf(ids), rows, newc, it, IdIn /\ ~gone, IdOut)'
      BY <1>3, <1>4, <2>1, <2>2, <1>1 DEF Laid, Columns, Column, Full
    <2>4. Columns(rows, gone)'
      BY <1>1, <1>3, <2>1, <2>3 DEF Laid, Columns, Column, Full
    <2>5. InHand(rows, gone)'
      BY <1>1, <1>3, <2>1 DEF Laid, InHand, Full
    <2> QED
      BY <1>2, <2>4, <2>5 DEF Laid
  <1>7. CASE PushOp
    <2>1. /\ ops' = Append(ops, newc) /\ UNCHANGED <<sockets, ids, auths, intervals>>
          /\ ~OpIn /\ OpIn' /\ (SocketIn' <=> SocketIn) /\ (IdIn' <=> IdIn)
          /\ (AuthIn' <=> AuthIn) /\ (IntervalIn' <=> IntervalIn)
      BY <1>7, <1>2 DEF PushOp, Pushed, Pushing, Accepting, SocketIn, IdIn, OpIn, AuthIn, IntervalIn
    <2>2. Column(ops, rows, newc, it, OpIn /\ ~gone, OpOut)'
      BY <1>3, <1>4, <2>1, <1>1 DEF Laid, Columns, Column, Full
    <2>3. Columns(rows, gone)'
      BY <1>1, <1>3, <2>1, <2>2 DEF Laid, Columns, Column, Full
    <2>4. InHand(rows, gone)'
      BY <1>1, <1>3, <2>1 DEF Laid, InHand, Full
    <2> QED
      BY <1>2, <2>3, <2>4 DEF Laid
  <1>8. CASE PushAuth
    <2>1. /\ auths' = Append(auths, Row(newc, "Undone"))
          /\ UNCHANGED <<sockets, ids, ops, intervals>>
          /\ ~AuthIn /\ AuthIn' /\ (SocketIn' <=> SocketIn) /\ (IdIn' <=> IdIn)
          /\ (OpIn' <=> OpIn) /\ (IntervalIn' <=> IntervalIn)
      BY <1>8, <1>2 DEF PushAuth, Pushed, Pushing, Accepting, SocketIn, IdIn, OpIn, AuthIn, IntervalIn
    <2>2. OwnersOf(auths)' = Append(OwnersOf(auths), newc)
      <3>1. auths \in Rows(Status) /\ newc \in Conn /\ "Undone" \in Status
        BY <1>1 DEF TypeOK, Status
      <3>2. OwnersOf(Append(auths, Row(newc, "Undone"))) = Append(OwnersOf(auths), newc)
        BY <3>1, OwnersOfAppended
      <3> QED
        BY <2>1, <3>2
    <2>3. Column(OwnersOf(auths), rows, newc, it, AuthIn /\ ~gone, AuthOut)'
      BY <1>3, <1>4, <2>1, <2>2, <1>1 DEF Laid, Columns, Column, Full
    <2>4. Columns(rows, gone)'
      BY <1>1, <1>3, <2>1, <2>3 DEF Laid, Columns, Column, Full
    <2>5. InHand(rows, gone)'
      BY <1>1, <1>3, <2>1 DEF Laid, InHand, Full
    <2> QED
      BY <1>2, <2>4, <2>5 DEF Laid
  <1>9. CASE PushInterval
    <2>1. /\ intervals' = Append(intervals, newc) /\ UNCHANGED <<sockets, ids, ops, auths>>
          /\ ~IntervalIn /\ IntervalIn' /\ (SocketIn' <=> SocketIn) /\ (IdIn' <=> IdIn)
          /\ (OpIn' <=> OpIn) /\ (AuthIn' <=> AuthIn)
      BY <1>9, <1>2 DEF PushInterval, Pushed, Pushing, Accepting, SocketIn, IdIn, OpIn, AuthIn,
            IntervalIn
    <2>2. Column(intervals, rows, newc, it, IntervalIn /\ ~gone, FALSE)'
      BY <1>3, <1>4, <2>1, <1>1 DEF Laid, Columns, Column, Full
    <2>3. Columns(rows, gone)'
      BY <1>1, <1>3, <2>1, <2>2 DEF Laid, Columns, Column, Full
    <2>4. InHand(rows, gone)'
      BY <1>1, <1>3, <2>1 DEF Laid, InHand, Full
    <2> QED
      BY <1>2, <2>3, <2>4 DEF Laid
  <1> QED
    BY <1>5, <1>6, <1>7, <1>8, <1>9

LEMMA Reached ==
    ASSUME NEW v, Access(v), ~strayed', it \in Nat, Len(v) \in Nat
    PROVE  it <= Len(v)
  <1>1. ~(it > Len(v))
    BY DEF Access
  <1> QED
    BY <1>1

LEMMA NoneOwed ==
    ASSUME NEW pc, NEW v, NEW s, Erasing(pc, v, s), ~strayed', TypeOK, owed = {},
           Len(s) \in Nat
    PROVE  owed' = {}
  <1>1. Access(s) /\ owed' = IF s = <<>> THEN owed \cup {v} ELSE owed
    BY DEF Erasing
  <1>2. it <= Len(s) /\ it \in Nat \ {0}
    BY <1>1, Reached DEF TypeOK
  <1>3. s # <<>>
    BY <1>2
  <1> QED
    BY <1>1, <1>3

\* The row in hand is erased from one vector, and from the last.
LEMMA ColumnsErase ==
    ASSUME NEW rows \in Seq(Conn), NEW gone \in BOOLEAN, Laid(rows, gone),
           TypeOK, TypeOK', ~strayed', EraseId \/ EraseSocket \/ EraseOp \/ EraseAuth
    PROVE  Laid(rows, gone)'
  <1>1. /\ UNCHANGED <<threadA, it, client>> /\ it \in Nat \ {0}
        /\ pcM \in {"erase_id", "erase_socket", "erase_op", "erase_auth"}
        /\ pcM' # "walk"
    BY DEF EraseId, EraseSocket, EraseOp, EraseAuth, Erasing, Managing, Goto, TypeOK
  <1>2. /\ (SocketIn' <=> SocketIn) /\ (IdIn' <=> IdIn) /\ (OpIn' <=> OpIn)
        /\ (AuthIn' <=> AuthIn) /\ (IntervalIn' <=> IntervalIn)
    BY <1>1 DEF threadA, SocketIn, IdIn, OpIn, AuthIn, IntervalIn
  <1>3. ASSUME NEW v, Access(v), Len(v) \in Nat
        PROVE  it <= Len(v)
    BY <1>1, <1>3, Reached
  <1>4. owed' = {}
    BY NoneOwed, LengthTypes DEF Laid, EraseId, EraseSocket, EraseOp, EraseAuth
  <1>5. InHand(rows, gone)'
    BY <1>1, <1>2 DEF Laid, InHand, Full, threadA
  <1> USE DEF IdOut, SocketOut, OpOut, AuthOut, Disconnecting
  <1>6. CASE EraseId
    <2>1. /\ UNCHANGED <<sockets, ops, auths, intervals>>
          /\ pcM = "erase_id" /\ pcM' = "tell"
          /\ Access(ids) /\ ids' = EraseAt(ids, it)
      BY <1>6 DEF EraseId, Erasing, Managing, Goto
    <2>2. it \in 1..Len(ids) /\ ids' = RemoveAt(ids, it)
      BY <1>1, <1>3, <2>1, LengthTypes DEF EraseAt
    <2>3. OwnersOf(ids)' = RemoveAt(OwnersOf(ids), it) /\ it <= Len(OwnersOf(ids))
      <3>1. ids \in Rows(Alias \cup {NoAlias})
        BY DEF TypeOK
      <3> QED
        BY <2>2, <3>1, OwnersOfRemoved, OwnersProperties
    <2>4. Columns(rows, gone)'
      BY <1>1, <1>2, <2>1, <2>3 DEF Laid, Columns, Column, Full, threadA
    <2> QED
      BY <1>5, <1>4, <2>4 DEF Laid
  <1>7. CASE EraseSocket
    <2>1. /\ UNCHANGED <<ids, ops, auths, intervals>>
          /\ pcM = "erase_socket" /\ pcM' = "erase_op"
          /\ Access(sockets) /\ sockets' = EraseAt(sockets, it)
      BY <1>7 DEF EraseSocket, Erasing, Managing, Goto
    <2>2. it <= Len(sockets) /\ sockets' = RemoveAt(sockets, it)
      BY <1>1, <1>3, <2>1, LengthTypes DEF EraseAt
    <2>3. Columns(rows, gone)'
      BY <1>1, <1>2, <2>1, <2>2 DEF Laid, Columns, Column, Full, threadA
    <2> QED
      BY <1>5, <1>4, <2>3 DEF Laid
  <1>8. CASE EraseOp
    <2>1. /\ UNCHANGED <<ids, sockets, auths, intervals>>
          /\ pcM = "erase_op" /\ pcM' = "erase_auth"
          /\ Access(ops) /\ ops' = EraseAt(ops, it)
      BY <1>8 DEF EraseOp, Erasing, Managing, Goto
    <2>2. it <= Len(ops) /\ ops' = RemoveAt(ops, it)
      BY <1>1, <1>3, <2>1, LengthTypes DEF EraseAt
    <2>3. Columns(rows, gone)'
      BY <1>1, <1>2, <2>1, <2>2 DEF Laid, Columns, Column, Full, threadA
    <2> QED
      BY <1>5, <1>4, <2>3 DEF Laid
  <1>9. CASE EraseAuth
    <2>1. /\ UNCHANGED <<ids, sockets, ops, intervals>>
          /\ pcM = "erase_auth" /\ pcM' = "erase_interval"
          /\ Access(auths) /\ auths' = EraseAt(auths, it)
      BY <1>9 DEF EraseAuth, Erasing, Managing, Goto
    <2>2. it \in 1..Len(auths) /\ auths' = RemoveAt(auths, it)
      BY <1>1, <1>3, <2>1, LengthTypes DEF EraseAt
    <2>3. OwnersOf(auths)' = RemoveAt(OwnersOf(auths), it) /\ it <= Len(OwnersOf(auths))
      <3>1. auths \in Rows(Status)
        BY DEF TypeOK
      <3> QED
        BY <2>2, <3>1, OwnersOfRemoved, OwnersProperties
    <2>4. Columns(rows, gone)'
      BY <1>1, <1>2, <2>1, <2>3 DEF Laid, Columns, Column, Full, threadA
    <2> QED
      BY <1>5, <1>4, <2>4 DEF Laid
  <1> QED
    BY <1>6, <1>7, <1>8, <1>9

\* Either a row of the table is gone then, or the one that was being appended.
LEMMA ColumnsEraseInterval ==
    ASSUME NEW rows \in Seq(Conn), NEW gone \in BOOLEAN, Laid(rows, gone),
           TypeOK, Held, ~strayed', EraseInterval
    PROVE  IF it <= Len(rows)
           THEN \E less \in Seq(Conn) : less = RemoveAt(rows, it) /\ Laid(less, gone)'
           ELSE Laid(rows, TRUE)' /\ ~gone
  <1>1. /\ UNCHANGED threadA /\ it \in Nat \ {0}
        /\ pcM = "erase_interval" /\ pcM' = "walk"
        /\ UNCHANGED <<sockets, ids, ops, auths>> /\ Access(intervals)
        /\ intervals' = EraseAt(intervals, it)
    BY DEF EraseInterval, Erasing, Managing, RowDone, TypeOK
  <1>2. /\ (SocketIn' <=> SocketIn) /\ (IdIn' <=> IdIn) /\ (OpIn' <=> OpIn)
        /\ (AuthIn' <=> AuthIn) /\ (IntervalIn' <=> IntervalIn)
    BY <1>1 DEF threadA, SocketIn, IdIn, OpIn, AuthIn, IntervalIn
  <1>3. it <= Len(intervals) /\ intervals' = RemoveAt(intervals, it)
    <2>1. it <= Len(intervals)
      BY <1>1, LengthTypes, Reached
    <2> QED
      BY <1>1, <2>1 DEF EraseAt
  <1>4. /\ IdOut /\ SocketOut /\ OpOut /\ AuthOut
        /\ ~IdOut' /\ ~SocketOut' /\ ~OpOut' /\ ~AuthOut'
    BY <1>1 DEF IdOut, SocketOut, OpOut, AuthOut, Disconnecting
  <1>5. UNCHANGED <<OwnersOf(ids), OwnersOf(auths), newc>>
    BY <1>1 DEF threadA
  <1>6. owed' = {}
    BY NoneOwed, LengthTypes DEF Laid, EraseInterval
  <1>7. InHand(rows, TRUE)' /\ \A less : InHand(less, gone)'
    BY <1>1 DEF InHand
  <1>8. CASE it <= Len(rows)
    <2>1. PICK less \in Seq(Conn) : less = RemoveAt(rows, it)
      <3>1. it \in 1..Len(rows)
        BY <1>1, <1>8
      <3> QED
        BY <3>1, RemoveAtProperties
    <2>2. newc \in Conn => RemoveAt(Append(rows, newc), it) = Append(less, newc)
      BY <1>1, <1>8, <2>1, RemoveFromAppended
    <2>3. SocketIn \/ IdIn \/ OpIn \/ AuthIn \/ IntervalIn => newc \in Conn
      BY DEF Held, SocketIn, IdIn, OpIn, AuthIn, IntervalIn
    <2>4. Columns(less, gone)'
      BY <1>1, <1>2, <1>3, <1>4, <1>5, <2>1, <2>2, <2>3
      DEF Laid, Columns, Column, Full, threadA
    <2> QED
      BY <1>7, <1>8, <1>6, <2>1, <2>4 DEF Laid
  <1>9. CASE ~(it <= Len(rows))
    <2>1. /\ ~gone /\ pcA = "greet"
          /\ SocketIn /\ IdIn /\ OpIn /\ AuthIn /\ IntervalIn
          /\ it <= Len(Append(rows, newc))
      BY <1>3, <1>4, <1>9 DEF Laid, Columns, Column, Full, IntervalIn, SocketIn, IdIn,
            OpIn, AuthIn
    <2>2. newc \in Conn /\ it = Len(rows) + 1
      BY <1>1, <1>9, <2>1 DEF Held
    <2>3. RemoveAt(Append(rows, newc), it) = rows
      BY <2>2, RemoveFromAppended
    <2>4. Columns(rows, TRUE)'
      BY <1>1, <1>2, <1>3, <1>4, <1>5, <2>1, <2>3 DEF Laid, Columns, Column, Full, threadA
    <2> QED
      BY <1>7, <1>9, <1>6, <2>1, <2>4 DEF Laid
  <1> QED
    BY <1>8, <1>9

\* What has strayed stays so.
LEMMA StrayedBefore ==
    ASSUME [Next]_vars, ~strayed'
    PROVE  ~strayed
  <1>1. CASE UNCHANGED vars \/ ConnectionThread \/ Crash \/ \E c \in Conn : Send(c) \/ Leave(c)
    BY <1>1 DEF vars, ConnectionThread, AcceptConn, NewConn, AcceptFails, PushSocket,
          PushId, PushOp, PushAuth, PushInterval, Greet, Pushing, Crash, Send, Leave
  <1>2. ASSUME NEW v, Access(v)
        PROVE  ~strayed
    BY <1>2 DEF Access
  <1>3. CASE ManageThread
    <2>1. CASE DataReceived
      BY <1>2, <2>1 DEF DataReceived
    <2>2. CASE ~DataReceived
      BY <1>2, <1>3, <2>2
      DEF ManageThread, NextRow, EndOfPass, NothingReceived, TakeAlias, Rename,
          DirectMessage, Admit, Complete, Talk, Answer, SetAlias, SetStatus, Reject,
          TellLeave, FreeSocket, EraseId, EraseSocket, EraseOp, EraseAuth,
          EraseInterval, Erasing
    <2> QED
      BY <2>1, <2>2
  <1> QED
    BY <1>1, <1>3 DEF Next

Columned == ~strayed => \E rows \in Seq(Conn), gone \in BOOLEAN : Laid(rows, gone)

LEMMA ColumnsInit == Init => Columned
  <1> SUFFICES ASSUME Init
               PROVE  Columned
    OBVIOUS
  <1>1. Laid(<<>>, FALSE)
    <2>1. OwnersOf(<<>>) = <<>>
      BY DEF OwnersOf
    <2> QED
      BY <2>1 DEF Init, Laid, Columns, InHand, Column, Full, SocketIn, IdIn, OpIn, AuthIn,
            IntervalIn, IdOut, SocketOut, OpOut, AuthOut, Disconnecting
  <1>2. <<>> \in Seq(Conn) /\ FALSE \in BOOLEAN
    BY EmptySeq
  <1> QED
    BY <1>1, <1>2 DEF Columned

LEMMA ColumnsStep ==
    ASSUME TypeOK, TypeOK', Held, Holding, Columned, [Next]_vars
    PROVE  Columned'
  <1> SUFFICES ASSUME ~strayed'
               PROVE  \E rows \in Seq(Conn), gone \in BOOLEAN : Laid(rows, gone)'
    BY DEF Columned
  <1>1. PICK rows \in Seq(Conn), gone \in BOOLEAN : Laid(rows, gone)
    BY StrayedBefore DEF Columned
  <1>2. CASE UNCHANGED vars \/ Crash \/ \E c \in Conn : Send(c) \/ Leave(c)
    BY <1>1, <1>2, ColumnsPeer
  <1>3. CASE AcceptFails \/ \E c \in Conn : AcceptConn(c)
    BY <1>1, <1>3, ColumnsIdle
  <1>4. CASE PushSocket \/ PushId \/ PushOp \/ PushAuth \/ PushInterval
    BY <1>1, <1>4, ColumnsPush
  <1>5. CASE Greet
    BY <1>1, <1>5, ColumnsGreet
  <1>6. CASE EraseId \/ EraseSocket \/ EraseOp \/ EraseAuth
    BY <1>1, <1>6, ColumnsErase
  <1>7. CASE EraseInterval
    BY <1>1, <1>7, ColumnsEraseInterval
  <1>8. CASE \/ NextRow \/ EndOfPass \/ NothingReceived \/ DataReceived
             \/ \E n \in Alias : TakeAlias(n) \/ Rename(n) \/ DirectMessage(n)
             \/ Admit \/ Complete \/ Talk \/ Answer
             \/ TellLeave \/ FreeSocket \/ Reject
    BY <1>1, <1>8, ColumnsQuiet
  <1> QED
    BY <1>2, <1>3, <1>4, <1>5, <1>6, <1>7, <1>8 DEF Next, ConnectionThread, ManageThread

LEMMA ColumnsKept == Spec => [](TypeOK /\ Held /\ Holding /\ Columned)
  <1>1. /\ TypeOK /\ Held /\ Holding /\ Columned /\ TypeOK' /\ [Next]_vars => Columned'
    BY ColumnsStep
  <1> QED
    BY <1>1, ColumnsInit, Types, PTL DEF Spec

LEMMA PrefixProperties ==
    ASSUME NEW s \in Seq(Conn), NEW c \in Conn
    PROVE  IsPrefix(s, s) /\ IsPrefix(s, Append(s, c))
  <1> DEFINE t == Append(s, c)
             b == SubSeq(s, 1, Len(s))
             d == SubSeq(t, 1, Len(s))
  <1>1. /\ Len(s) \in Nat /\ t \in Seq(Conn) /\ Len(t) = Len(s) + 1
        /\ \A i \in 1..Len(s) : t[i] = s[i]
    OBVIOUS
  <1>2. b \in Seq(Conn) /\ Len(b) = Len(s) /\ \A i \in 1..Len(s) : b[i] = s[i]
    OBVIOUS
  <1> HIDE DEF t
  <1>3. d \in Seq(Conn) /\ Len(d) = Len(s) /\ \A i \in 1..Len(s) : d[i] = t[i]
    BY <1>1
  <1> HIDE DEF b, d
  <1>4. b = d
    BY <1>1, <1>2, <1>3, SameSequence
  <1> QED
    BY <1>1, <1>4 DEF IsPrefix, b, d, t

\* While no row is being erased, a position means the same connection in all
\* five vectors, as far as each of them reaches, until a position strays;
\* for peers of both kinds.
THEOREM VectorsAligned == Spec => []Aligned
  <1>1. ASSUME TypeOK, Held, Columned
        PROVE  Aligned
    <2> SUFFICES ASSUME ~strayed, ~Disconnecting,
                        NEW v \in {OwnersOf(ids), ops, OwnersOf(auths), intervals}
                 PROVE  IsPrefix(v, sockets)
      BY DEF Aligned
    <2>1. PICK rows \in Seq(Conn), gone \in BOOLEAN : Laid(rows, gone)
      BY <1>1 DEF Columned
    <2>2. ~SocketOut /\ ~IdOut /\ ~OpOut /\ ~AuthOut
      BY DEF IdOut, SocketOut, OpOut, AuthOut, Disconnecting
    <2>3. /\ IdIn => SocketIn
          /\ OpIn => SocketIn
          /\ AuthIn => SocketIn
          /\ IntervalIn => SocketIn
          /\ SocketIn => newc \in Conn
      BY <1>1 DEF Held, SocketIn, IdIn, OpIn, AuthIn, IntervalIn
    <2>4. \/ v = rows /\ sockets = rows
          \/ /\ newc \in Conn /\ sockets = Append(rows, newc)
             /\ v \in {rows, Append(rows, newc)}
      BY <2>1, <2>2, <2>3 DEF Laid, Columns, Column, Full
    <2>5. /\ IsPrefix(rows, rows)
          /\ newc \in Conn => /\ IsPrefix(rows, Append(rows, newc))
                              /\ IsPrefix(Append(rows, newc), Append(rows, newc))
      <3>1. IsPrefix(rows, rows)
        BY DEF IsPrefix
      <3>2. ASSUME newc \in Conn
            PROVE  /\ IsPrefix(rows, Append(rows, newc))
                   /\ IsPrefix(Append(rows, newc), Append(rows, newc))
        <4>1. Append(rows, newc) \in Seq(Conn)
          BY <3>2
        <4> QED
          BY <3>2, <4>1, PrefixProperties
      <3> QED
        BY <3>1, <3>2
    <2> QED
      BY <2>4, <2>5
  <1> QED
    BY <1>1, ColumnsKept, PTL
=============================================================================

---------------------------- MODULE ServerProofs ----------------------------
(***************************************************************************)
(* Proofs about Server, for every set of clients, addresses, aliases and   *)
(* passwords.                                                              *)
(***************************************************************************)
EXTENDS Server, TLAPS

\* A connection that is not open has no socket object and no status; two
\* open ones have different socket objects.
RowsOfOpen ==
    /\ \A c \in Client \ Open : addr[c] = NoSock /\ auth[c] = "Undone"
    /\ \A c \in Open : addr[c] \in Sock
    /\ \A c, d \in Open : addr[c] = addr[d] => c = d

-----------------------------------------------------------------------------
(* Type correctness.                                                       *)

LEMMA PacketTypes ==
    /\ PubKeyPacket \in Packet /\ SpbPacket \in Packet
    /\ Notice \in Packet /\ EmptyPacket \in Packet
    /\ \A k \in Client : AesPacket(k) \in Packet
    /\ \A n \in Name : Chat(n) \in Packet /\ Direct(n) \in Packet
    /\ \A n \in Name \cup {NoName}, list \in SUBSET Name :
          Join(n, list) \in Packet /\ Leave(n, list) \in Packet
  BY DEF Packet, PubKeyPacket, SpbPacket, Notice, EmptyPacket, AesPacket,
         Chat, Direct, Join, Leave

LEMMA NamesType ==
    ASSUME TypeOK
    PROVE  \A S \in SUBSET Client : Names(S) \in SUBSET Name
  BY DEF TypeOK, Names

LEMMA SentTypes ==
    /\ Nothing \in [Client -> Seq(Packet)]
    /\ \A c \in Client, p \in Packet : ToOnly(c, p) \in [Client -> Seq(Packet)]
    /\ \A c \in Client, s, t \in Seq(Packet) :
          /\ ToAudience(c, s) \in [Client -> Seq(Packet)]
          /\ [ToAudience(c, s) EXCEPT ![c] = t] \in [Client -> Seq(Packet)]
  <1>1. <<>> \in Seq(Packet) /\ \A p \in Packet : <<p>> \in Seq(Packet)
    OBVIOUS
  <1>2. Nothing \in [Client -> Seq(Packet)]
    BY <1>1 DEF Nothing
  <1>3. ASSUME NEW c \in Client, NEW p \in Packet
        PROVE  ToOnly(c, p) \in [Client -> Seq(Packet)]
    BY <1>1 DEF ToOnly
  <1>4. ASSUME NEW c \in Client, NEW s \in Seq(Packet), NEW t \in Seq(Packet)
        PROVE  /\ ToAudience(c, s) \in [Client -> Seq(Packet)]
               /\ [ToAudience(c, s) EXCEPT ![c] = t] \in [Client -> Seq(Packet)]
    <2>1. ToAudience(c, s) \in [Client -> Seq(Packet)]
      BY <1>1 DEF ToAudience
    <2> QED
      BY <2>1
  <1> QED
    BY <1>2, <1>3, <1>4

\* What the erasure of a row does to the types.
LEMMA DropRowType ==
    ASSUME TypeOK, NEW c \in Client, NEW last \in Seq(Packet), DropRow(c, last),
           keys' \in [Sock -> Client \cup {NoKey}]
    PROVE  TypeOK'
  <1>1. Open \ {c} \in SUBSET Client
    BY DEF Open
  <1>2. NamesBesides(c) \in SUBSET Name
    BY <1>1, NamesType DEF NamesBesides
  <1>3. name[c] \in Name \cup {NoName}
    BY DEF TypeOK
  <1>4. Leave(name[c], NamesBesides(c)) \in Packet
    BY <1>2, <1>3, PacketTypes
  <1>5. <<Leave(name[c], NamesBesides(c))>> \in Seq(Packet)
    BY <1>4
  <1>6. sent' \in [Client -> Seq(Packet)]
    BY <1>5, SentTypes DEF DropRow
  <1> QED
    BY <1>6 DEF TypeOK, DropRow, NameErased

LEMMA KeyRemovedType ==
    ASSUME TypeOK, NEW c \in Client
    PROVE  KeyRemoved(c) \in [Sock -> Client \cup {NoKey}]
  BY DEF TypeOK, KeyRemoved

LEMMA DisconnectType ==
    ASSUME TypeOK, NEW c \in Client, NEW last \in Seq(Packet),
           Disconnect(c, last)
    PROVE  TypeOK'
  BY DropRowType, KeyRemovedType DEF Disconnect

\* Every way in which the process ends: with userdata.yml as it was, or cut
\* short while somebody was registered.
Stops ==
    /\ Halt
    /\ sent' \in [Client -> Seq(Packet)]
    /\ \A d \in Client \ Done : sent'[d] = <<>>
    /\ \/ UNCHANGED users
       \/ \E u \in Name, p \in Password :
             users[u] = Absent /\ users' \in UsersLeft(u, p)

LEMMA EndsStop ==
    ASSUME TypeOK
    PROVE  /\ Killed => Stops
           /\ \A c \in Client : KeyIsNoNumber(c) \/ OverlongMessage(c)
                    \/ LoginThrows(c) \/ KilledSaving(c) => Stops
  <1>1. ASSUME NEW c \in Client, KilledSaving(c)
        PROVE  Stops
    <2> DEFINE u == cred[c].uname
               list == NamesBesides(c) \cup {u}
    <2>1. u \in Name /\ cred[c].passwd \in Password /\ users[u] = Absent
      BY <1>1 DEF KilledSaving, LoginRefused, NickRefused, Registered, TypeOK, Credentials
    <2>2. Open \ {c} \in SUBSET Client
      BY DEF Open
    <2>3. list \in SUBSET Name
      BY <2>1, <2>2, NamesType DEF NamesBesides
    <2>4. Join(u, list) \in Packet
      BY <2>1, <2>3, PacketTypes
    <2>5. <<Join(u, list)>> \in Seq(Packet)
      BY <2>4
    <2>6. sent' \in [Client -> Seq(Packet)]
      BY <1>1, <2>5, SentTypes DEF KilledSaving
    <2>7. \A d \in Client \ Done : sent'[d] = <<>>
      BY <1>1 DEF KilledSaving, ToAudience, Audience
    <2> QED
      BY <1>1, <2>1, <2>6, <2>7 DEF Stops, KilledSaving
  <1> QED
    BY <1>1, SentTypes DEF Stops, Die, Killed, KeyIsNoNumber, OverlongMessage,
                LoginThrows, Nothing

LEMMA UsersLeftType ==
    ASSUME TypeOK, NEW u \in Name, NEW p \in Password
    PROVE  UsersLeft(u, p) \subseteq [Name -> Password \cup {Absent, NoPassword}]
  <1>1. EntryLeft(p) \subseteq Password \cup {Absent, NoPassword}
    BY ConstantsAssumption DEF EntryLeft
  <1> QED
    BY <1>1 DEF UsersLeft, TypeOK

LEMMA StopsType == TypeOK /\ Stops => TypeOK'
  <1> SUFFICES ASSUME TypeOK, Stops
               PROVE  TypeOK'
    OBVIOUS
  <1> USE DEF Stops, Halt
  <1>1. sent' \in [Client -> Seq(Packet)]
    OBVIOUS
  <1>2. conn' \in [Client -> {"new", "open", "closed"}]
    BY DEF TypeOK
  <1>3. /\ running' \in BOOLEAN /\ accepting' \in BOOLEAN /\ cred' = cred
        /\ users' \in [Name -> Password \cup {Absent, NoPassword}]
    BY UsersLeftType DEF TypeOK
  <1>4. /\ addr' \in [Client -> Sock \cup {NoSock}]
        /\ name' \in [Client -> Name \cup {NoName}]
        /\ auth' \in [Client -> {"Undone", "KeyReceived", "Done"}]
        /\ keys' \in [Sock -> Client \cup {NoKey}]
    OBVIOUS
  <1> QED
    BY <1>1, <1>2, <1>3, <1>4 DEF TypeOK, Credentials

LEMMA EncryptionKeyType ==
    ASSUME TypeOK, NEW c \in Client, addr[c] \in Sock
    PROVE  EncryptionKey(c) \in Client
  BY DEF TypeOK, EncryptionKey

\* Every step keeps the types; RowsOfOpen says that the address under which a
\* client's key is looked up is one, NamedWhenAdmitted that a /msg has a
\* sender.
LEMMA TypeStep ==
    TypeOK /\ RowsOfOpen /\ NamedWhenAdmitted /\ [Next]_vars => TypeOK'
  <1> SUFFICES ASSUME TypeOK, RowsOfOpen, NamedWhenAdmitted, [Next]_vars
               PROVE  TypeOK'
    OBVIOUS
  <1> USE DEF Credentials
  <1>1. <<>> \in Seq(Packet) /\ \A p \in Packet : <<p>> \in Seq(Packet)
    OBVIOUS
  <1>2. ASSUME NEW c \in Client, Accept(c)
        PROVE  TypeOK'
    <2>1. sent' \in [Client -> Seq(Packet)]
      BY <1>2, PacketTypes, SentTypes DEF Accept
    <2>2. /\ addr' \in [Client -> Sock \cup {NoSock}]
          /\ conn' \in [Client -> {"new", "open", "closed"}]
      BY <1>2 DEF TypeOK, Accept
    <2>3. UNCHANGED <<running, accepting, users, cred, name, auth, keys>>
      BY <1>2 DEF Accept
    <2> QED
      BY <2>1, <2>2, <2>3 DEF TypeOK
  <1>3. ASSUME NEW c \in Client,
               PeerGone(c) \/ UnreadableLogin(c) \/ RefuseLogin(c)
                  \/ RefuseMessage(c) \/ BlankMessage(c)
                  \/ \E n \in Name \cup BadName : RefuseRename(c, n)
        PROVE  TypeOK'
    <2>1. Disconnect(c, <<>>) \/ Disconnect(c, <<Notice>>)
      BY <1>3 DEF PeerGone, UnreadableLogin, RefuseLogin, RefuseMessage,
                  BlankMessage, RefuseRename
    <2> QED
      BY <1>1, <2>1, PacketTypes, DisconnectType
  <1>4. ASSUME NEW c \in Client, Login(c)
        PROVE  TypeOK'
    <2> DEFINE u == cred[c].uname
               p == cred[c].passwd
               list == NamesBesides(c) \cup {u}
    <2>1. u \in Name /\ p \in Password
      BY <1>4 DEF Login, LoginRefused, NickRefused, TypeOK
    <2>2. Open \ {c} \in SUBSET Client
      BY DEF Open
    <2>3. list \in SUBSET Name
      BY <2>1, <2>2, NamesType DEF NamesBesides
    <2>4. Join(u, list) \in Packet /\ Notice \in Packet /\ SpbPacket \in Packet
      BY <2>1, <2>3, PacketTypes
    <2>5. JoinPackets(u, list) \in Seq(Packet) /\ KeyRequest \in Seq(Packet)
      BY <2>4 DEF JoinPackets, KeyRequest
    <2>6. sent' \in [Client -> Seq(Packet)]
      BY <1>4, <2>5, SentTypes DEF Login
    <2> QED
      BY <1>4, <2>1, <2>6 DEF TypeOK, Login
  <1>5. ASSUME NEW c \in Client, SendAesKey(c)
        PROVE  TypeOK'
    <2>1. EncryptionKey(c) \in Client
      BY <1>5, EncryptionKeyType DEF SendAesKey, Serving, RowsOfOpen
    <2>2. sent' \in [Client -> Seq(Packet)]
      BY <1>5, <2>1, PacketTypes, SentTypes DEF SendAesKey
    <2> QED
      BY <1>5, <2>1, <2>2 DEF TypeOK, SendAesKey
  <1>6. ASSUME NEW c \in Client, RefuseKey(c)
        PROVE  TypeOK'
    <2>1. EncryptionKey(c) \in Client
      BY <1>6, EncryptionKeyType DEF RefuseKey, Serving, RowsOfOpen
    <2>2. keys' \in [Sock -> Client \cup {NoKey}]
      BY <1>6, <2>1 DEF TypeOK, RefuseKey
    <2> QED
      BY <1>1, <1>6, <2>2, DropRowType DEF RefuseKey
  <1>7. ASSUME NEW c \in Client, KeyIsNoNumber(c) \/ OverlongMessage(c)
                   \/ LoginThrows(c) \/ KilledSaving(c)
        PROVE  TypeOK'
    BY <1>7, EndsStop, StopsType
  <1>8. ASSUME NEW c \in Client, Undecryptable(c) \/ Command(c)
        PROVE  TypeOK'
    <2>1. sent' \in [Client -> Seq(Packet)]
      BY <1>8, PacketTypes, SentTypes DEF Undecryptable, Command
    <2> QED
      BY <1>8, <2>1 DEF TypeOK, Undecryptable, Command
  <1>9. ASSUME NEW c \in Client, Message(c) \/ RequestConsole(c)
        PROVE  TypeOK'
    <2>1. PICK p \in Packet : sent' = ToAudience(c, <<p>>)
      <3>1. CASE Message(c)
        <4>1. name[c] \in Name
          BY <3>1 DEF Message, TypeOK
        <4>2. Chat(name[c]) \in Packet
          BY <4>1, PacketTypes
        <4> QED
          BY <3>1, <4>2 DEF Message
      <3>2. CASE RequestConsole(c)
        BY <3>2, PacketTypes DEF RequestConsole
      <3> QED
        BY <1>9, <3>1, <3>2
    <2>2. <<p>> \in Seq(Packet)
      BY <1>1
    <2>3. sent' \in [Client -> Seq(Packet)]
      BY <2>1, <2>2, SentTypes
    <2> QED
      BY <1>9, <2>3 DEF TypeOK, Message, RequestConsole
  <1>10. ASSUME NEW c \in Client, NEW n \in Name \cup BadName, Rename(c, n)
         PROVE  TypeOK'
    <2> DEFINE list == NamesBesides(c) \cup {n}
    <2>1. n \in Name
      BY <1>10 DEF Rename, NickRefused
    <2>2. Open \ {c} \in SUBSET Client
      BY DEF Open
    <2>3. list \in SUBSET Name
      BY <2>1, <2>2, NamesType DEF NamesBesides
    <2>4. <<Join(n, list)>> \in Seq(Packet)
      BY <1>1, <2>1, <2>3, PacketTypes
    <2>5. sent' \in [Client -> Seq(Packet)]
      BY <1>10, <2>4, SentTypes DEF Rename
    <2> QED
      BY <1>10, <2>1, <2>5 DEF TypeOK, Rename
  <1>11. ASSUME NEW c \in Client, NEW n \in Name, Msg(c, n)
         PROVE  TypeOK'
    <2>1. CASE n = name[c]
      BY <1>11, <2>1, PacketTypes, SentTypes DEF Msg, TypeOK
    <2>2. CASE n # name[c]
      <3>1. name[c] \in Name
        BY <1>11 DEF Msg, Serving, NamedWhenAdmitted, TypeOK
      <3>2. <<Direct(name[c])>> \in Seq(Packet)
        BY <1>1, <3>1, PacketTypes
      <3>3. sent' \in [Client -> Seq(Packet)]
        BY <1>1, <1>11, <2>2, <3>2 DEF Msg
      <3> QED
        BY <1>11, <3>3 DEF Msg, TypeOK
    <2> QED
      BY <2>1, <2>2
  <1>12. CASE AcceptFails \/ Start
    BY <1>12, SentTypes DEF TypeOK, AcceptFails, Start
  <1>13. CASE UNCHANGED vars
    BY <1>13 DEF TypeOK, vars
  <1>14. CASE Killed
    BY <1>14, EndsStop, StopsType
  <1> QED
    BY <1>2, <1>3, <1>4, <1>5, <1>6, <1>7, <1>8, <1>9, <1>10, <1>11, <1>12,
       <1>13, <1>14 DEF Next, Receive

-----------------------------------------------------------------------------
(* The inductive invariant.  KeysOwned alone is not inductive: that no key  *)
(* of another client is found at the address of a socket object takes the  *)
(* fact that open connections have different ones.                         *)

Rows == /\ RowsOfOpen
        /\ NamesUnique
        /\ NamedWhenAdmitted
        /\ AdmittedByPassword
        /\ KeysOwned

IInv == TypeOK /\ Rows

LEMMA IInit == Init => IInv
  <1> SUFFICES ASSUME Init
               PROVE  IInv
    OBVIOUS
  <1>1. TypeOK
    BY SentTypes DEF Init, TypeOK, Credentials
  <1>2. Open = {} /\ Done = {}
    BY DEF Init, Open, Done
  <1>3. RowsOfOpen /\ NamesUnique /\ AdmittedByPassword
    BY <1>2 DEF RowsOfOpen, NamesUnique, AdmittedByPassword, Init
  <1>4. NamedWhenAdmitted /\ KeysOwned
    BY DEF NamedWhenAdmitted, KeysOwned, Init
  <1> QED
    BY <1>1, <1>3, <1>4 DEF IInv, Rows

\* Under the invariant a key that can hold the AES key is sent to its owner.
LEMMA OwnKey ==
    ASSUME IInv, NEW c \in Client, Serving(c, "KeyReceived"),
           EncryptionKey(c) \notin WeakKey
    PROVE  EncryptionKey(c) = c
  <1>1. addr[c] \in Sock /\ c \in Open /\ auth[c] = "KeyReceived"
    BY DEF IInv, Rows, RowsOfOpen, Serving
  <1>2. CASE keys[addr[c]] = NoKey
    BY <1>2 DEF EncryptionKey
  <1>3. CASE keys[addr[c]] # NoKey
    <2> DEFINE d == keys[addr[c]]
    <2>1. d \notin {NoKey} \cup WeakKey
      BY <1>3 DEF EncryptionKey
    <2>2. d \in Done /\ addr[d] = addr[c]
      BY <1>1, <2>1 DEF IInv, Rows, KeysOwned
    <2>3. d = c
      BY <1>1, <2>2 DEF IInv, Rows, RowsOfOpen, Done
    <2> QED
      BY <1>1, <2>2, <2>3 DEF Done
  <1> QED
    BY <1>2, <1>3

\* The erasure of a row keeps everything but, possibly, KeysOwned.
LEMMA DropRowRows ==
    ASSUME IInv, NEW c \in Open, NEW last, DropRow(c, last)
    PROVE  /\ Open' = Open \ {c} /\ Done' = Done \ {c}
           /\ (RowsOfOpen /\ NamesUnique /\ NamedWhenAdmitted
                  /\ AdmittedByPassword)'
  <1> USE DEF IInv, Rows
  <1>1. c \in Client
    BY DEF Open
  <1>2. Open' = Open \ {c}
    BY <1>1 DEF Open, DropRow, TypeOK
  <1>3. \A d \in Client \ {c} : /\ addr'[d] = addr[d] /\ auth'[d] = auth[d]
                                /\ name'[d] = name[d]
    BY DEF DropRow, NameErased, TypeOK
  <1>4. addr'[c] = NoSock /\ auth'[c] = "Undone" /\ name'[c] = NoName
    BY <1>1 DEF DropRow, NameErased, TypeOK
  <1>5. Open \subseteq Client
    BY DEF Open
  <1>6. Done' = Done \ {c}
    BY <1>2, <1>3, <1>5 DEF Done
  <1>7. RowsOfOpen'
    BY <1>2, <1>3, <1>4, <1>5 DEF RowsOfOpen
  <1>8. NamesUnique'
    BY <1>2, <1>3, <1>5 DEF NamesUnique
  <1>9. NamedWhenAdmitted'
    BY <1>3, <1>4 DEF NamedWhenAdmitted
  <1>10. AdmittedByPassword'
    BY <1>2, <1>3, <1>5 DEF AdmittedByPassword, DropRow
  <1> QED
    BY <1>2, <1>6, <1>7, <1>8, <1>9, <1>10

LEMMA DisconnectRows ==
    ASSUME IInv, NEW c \in Open, NEW last, Disconnect(c, last)
    PROVE  Rows'
  <1>1. DropRow(c, last) /\ keys' = KeyRemoved(c) /\ c \in Client
    BY DEF Disconnect, Open
  <1>2. Done' = Done \ {c}
    BY <1>1, DropRowRows
  <1>3. ASSUME NEW a \in Sock, keys'[a] \notin {NoKey} \cup WeakKey
        PROVE  keys'[a] \in Done' /\ addr'[keys'[a]] = a
    <2> DEFINE d == keys[a]
    <2>1. keys'[a] = d
      BY <1>1, <1>3 DEF KeyRemoved, IInv, TypeOK
    <2>2. d \in Done /\ addr[d] = a
      BY <1>3, <2>1 DEF IInv, Rows, KeysOwned
    <2>3. d # c
      <3> SUFFICES ASSUME d = c
                   PROVE  FALSE
        OBVIOUS
      <3>1. auth[c] = "Done" /\ addr[c] = a
        BY <2>2 DEF Done
      <3>2. keys' = [keys EXCEPT ![a] = NoKey]
        BY <1>1, <3>1 DEF KeyRemoved
      <3> QED
        BY <1>3, <3>2 DEF IInv, TypeOK
    <2>4. addr'[d] = addr[d]
      BY <1>1, <2>2, <2>3 DEF DropRow, IInv, TypeOK, Done, Open
    <2> QED
      BY <1>2, <2>1, <2>2, <2>3, <2>4
  <1>4. KeysOwned'
    BY <1>3 DEF KeysOwned
  <1> QED
    BY <1>1, <1>4, DropRowRows DEF Rows

LEMMA StopsRows == IInv /\ Stops => Rows'
  <1> SUFFICES ASSUME IInv, Stops
               PROVE  Rows'
    OBVIOUS
  <1> USE DEF Stops, Halt
  <1>1. Open' = {} /\ Done' = {}
    BY DEF Open, Done
  <1>2. RowsOfOpen' /\ NamesUnique' /\ AdmittedByPassword'
    BY <1>1 DEF RowsOfOpen, NamesUnique, AdmittedByPassword
  <1>3. NamedWhenAdmitted' /\ KeysOwned'
    BY DEF NamedWhenAdmitted, KeysOwned
  <1> QED
    BY <1>2, <1>3 DEF Rows

\* Nothing but the running flags and what is sent changes.
LEMMA QuietRows ==
    ASSUME IInv, UNCHANGED <<users, cred, conn, addr, name, auth, keys>>
    PROVE  Rows'
  <1>1. Open' = Open /\ Done' = Done
    BY DEF Open, Done
  <1> QED
    BY <1>1 DEF IInv, Rows, RowsOfOpen, NamesUnique, NamedWhenAdmitted,
            AdmittedByPassword, KeysOwned


LEMMA AcceptRows ==
    ASSUME IInv, NEW c \in Client, Accept(c)
    PROVE  Rows'
  <1> USE DEF IInv, Rows
  <1>1. PICK a \in Sock \ {addr[d] : d \in Open} :
            addr' = [addr EXCEPT ![c] = a]
    BY DEF Accept
  <1>2. c \notin Open /\ Open' = Open \cup {c}
    BY DEF Accept, Open, TypeOK
  <1>3. addr'[c] = a /\ \A d \in Client \ {c} : addr'[d] = addr[d]
    BY <1>1 DEF TypeOK
  <1>4. auth[c] = "Undone" /\ name[c] = NoName
    BY <1>2 DEF RowsOfOpen, NamedWhenAdmitted
  <1>5. Open \subseteq Client
    BY DEF Open
  <1>6. UNCHANGED <<users, cred, name, auth, keys>>
    BY DEF Accept
  <1>7. Done' = Done
    BY <1>2, <1>4, <1>6 DEF Done
  <1>8. RowsOfOpen'
    <2>1. \A d \in Client \ Open' : addr'[d] = NoSock /\ auth'[d] = "Undone"
      BY <1>2, <1>3, <1>6 DEF RowsOfOpen
    <2>2. \A d \in Open' : addr'[d] \in Sock
      BY <1>1, <1>2, <1>3, <1>5 DEF RowsOfOpen
    <2>3. \A d, e \in Open' : addr'[d] = addr'[e] => d = e
      BY <1>1, <1>2, <1>3, <1>5 DEF RowsOfOpen
    <2> QED
      BY <2>1, <2>2, <2>3 DEF RowsOfOpen
  <1>9. NamesUnique'
    BY <1>2, <1>4, <1>6 DEF NamesUnique
  <1>10. NamedWhenAdmitted'
    BY <1>6 DEF NamedWhenAdmitted
  <1>11. AdmittedByPassword'
    BY <1>2, <1>4, <1>6 DEF AdmittedByPassword
  <1>12. KeysOwned'
    BY <1>2, <1>3, <1>5, <1>6, <1>7 DEF KeysOwned, Done
  <1> QED
    BY <1>8, <1>9, <1>10, <1>11, <1>12

LEMMA LoginRows ==
    ASSUME IInv, NEW c \in Client, Login(c)
    PROVE  Rows'
  <1> USE DEF IInv, Rows
  <1> DEFINE u == cred[c].uname
             p == cred[c].passwd
  <1>1. c \in Open /\ auth[c] = "Undone"
    BY DEF Login, Serving
  <1>2. /\ u \in Name /\ u \notin Names(Open)
        /\ Registered(u) => users[u] = p
        /\ p \notin {Absent, NoPassword}
    BY ConstantsAssumption DEF Login, LoginRefused, NickRefused, TypeOK,
                               Credentials
  <1>3. name' = [name EXCEPT ![c] = u]
    BY DEF Login
  <1>4. auth' = [auth EXCEPT ![c] = "KeyReceived"]
    BY DEF Login
  <1>5. Open' = Open /\ UNCHANGED <<cred, addr, keys>>
    BY DEF Login, Open
  <1>6. Done' = Done
    BY <1>1, <1>4, <1>5 DEF Done, TypeOK, Open
  <1>7. users'[u] = p
    BY <1>2 DEF Login, TypeOK
  <1>8. \A n \in Name : users[n] # Absent => users'[n] = users[n]
    BY <1>2 DEF Login, Registered, TypeOK
  <1>9. RowsOfOpen'
    BY <1>1, <1>4, <1>5 DEF RowsOfOpen, TypeOK
  <1>10. NamesUnique'
    <2>1. \A d \in Open \ {c} : name'[d] = name[d] /\ name[d] # u
      BY <1>2, <1>3, ConstantsAssumption DEF Names, TypeOK, Open
    <2>2. name'[c] = u
      BY <1>3 DEF TypeOK
    <2> QED
      BY <1>5, <2>1, <2>2 DEF NamesUnique
  <1>11. NamedWhenAdmitted'
    BY <1>2, <1>3, <1>4, ConstantsAssumption DEF NamedWhenAdmitted, TypeOK
  <1>12. AdmittedByPassword'
    <2> SUFFICES ASSUME NEW d \in Open, auth'[d] # "Undone"
                 PROVE  cred[d].uname \in Name
                        /\ users'[cred[d].uname] = cred[d].passwd
      BY <1>5 DEF AdmittedByPassword
    <2>1. CASE d = c
      BY <1>2, <1>7, <2>1
    <2>2. CASE d # c
      <3>1. auth[d] # "Undone" /\ d \in Client
        BY <1>4, <2>2 DEF TypeOK, Open
      <3>2. /\ cred[d].uname \in Name
            /\ users[cred[d].uname] = cred[d].passwd
        BY <3>1 DEF AdmittedByPassword
      <3>3. cred[d].passwd # Absent
        BY <3>1, ConstantsAssumption DEF TypeOK, Credentials
      <3> QED
        BY <1>8, <3>2, <3>3
    <2> QED
      BY <2>1, <2>2
  <1>13. KeysOwned'
    BY <1>5, <1>6 DEF KeysOwned
  <1> QED
    BY <1>9, <1>10, <1>11, <1>12, <1>13

LEMMA SendAesKeyRows ==
    ASSUME IInv, NEW c \in Client, SendAesKey(c)
    PROVE  Rows'
  <1> USE DEF IInv, Rows
  <1>1. c \in Open /\ auth[c] = "KeyReceived" /\ addr[c] \in Sock
    BY DEF SendAesKey, Serving, RowsOfOpen
  <1>2. EncryptionKey(c) = c
    BY OwnKey DEF SendAesKey
  <1>3. keys' = [keys EXCEPT ![addr[c]] = c]
    BY <1>2 DEF SendAesKey
  <1>4. auth' = [auth EXCEPT ![c] = "Done"]
    BY DEF SendAesKey
  <1>5. Open' = Open /\ UNCHANGED <<users, cred, conn, addr, name>>
    BY DEF SendAesKey, Open
  <1>6. Done' = Done \cup {c}
    BY <1>1, <1>4, <1>5 DEF Done, TypeOK, Open
  <1>7. RowsOfOpen'
    BY <1>1, <1>4, <1>5 DEF RowsOfOpen, TypeOK
  <1>8. NamesUnique' /\ AdmittedByPassword'
    BY <1>1, <1>4, <1>5 DEF NamesUnique, AdmittedByPassword, TypeOK, Open
  <1>9. NamedWhenAdmitted'
    BY <1>1, <1>4, <1>5 DEF NamedWhenAdmitted, TypeOK
  <1>10. KeysOwned'
    BY <1>1, <1>3, <1>5, <1>6 DEF KeysOwned, TypeOK
  <1> QED
    BY <1>7, <1>8, <1>9, <1>10

\* The key that stays behind is one that encrypts nothing.
LEMMA RefuseKeyRows ==
    ASSUME IInv, NEW c \in Client, RefuseKey(c)
    PROVE  Rows'
  <1> USE DEF IInv, Rows
  <1>1. c \in Open /\ auth[c] = "KeyReceived" /\ addr[c] \in Sock
    BY DEF RefuseKey, Serving, RowsOfOpen
  <1>2. /\ keys' = [keys EXCEPT ![addr[c]] = EncryptionKey(c)]
        /\ EncryptionKey(c) \in WeakKey
        /\ DropRow(c, <<>>)
    BY DEF RefuseKey
  <1>3. Done' = Done \ {c} /\ c \notin Done
    BY <1>1, <1>2, DropRowRows DEF Done
  <1>4. KeysOwned'
    <2> SUFFICES ASSUME NEW a \in Sock, keys'[a] \notin {NoKey} \cup WeakKey
                 PROVE  keys'[a] \in Done' /\ addr'[keys'[a]] = a
      BY DEF KeysOwned
    <2>1. keys'[a] = keys[a]
      BY <1>2 DEF TypeOK
    <2>2. keys[a] \in Done /\ addr[keys[a]] = a
      BY <2>1 DEF KeysOwned
    <2>3. addr'[keys[a]] = addr[keys[a]]
      BY <1>2, <1>3, <2>2 DEF DropRow, TypeOK, Done, Open
    <2> QED
      BY <1>3, <2>1, <2>2, <2>3
  <1> QED
    BY <1>1, <1>2, <1>4, DropRowRows

LEMMA RenameRows ==
    ASSUME IInv, NEW c \in Client, NEW n, Rename(c, n)
    PROVE  Rows'
  <1> USE DEF IInv, Rows
  <1>1. c \in Open /\ auth[c] = "Done" /\ n \in Name /\ n \notin Names(Open)
    BY DEF Rename, Serving, NickRefused
  <1>2. name' = [name EXCEPT ![c] = n]
    BY DEF Rename
  <1>3. /\ Open' = Open /\ Done' = Done
        /\ UNCHANGED <<users, cred, addr, auth, keys>>
    BY DEF Rename, Open, Done
  <1>4. RowsOfOpen' /\ AdmittedByPassword' /\ KeysOwned'
    BY <1>3 DEF RowsOfOpen, AdmittedByPassword, KeysOwned
  <1>5. NamesUnique'
    <2>1. \A d \in Open \ {c} : name'[d] = name[d] /\ name[d] # n
      BY <1>1, <1>2, ConstantsAssumption DEF Names, TypeOK, Open
    <2>2. name'[c] = n
      BY <1>2 DEF TypeOK
    <2> QED
      BY <1>3, <2>1, <2>2 DEF NamesUnique
  <1>6. NamedWhenAdmitted'
    BY <1>1, <1>2, <1>3, ConstantsAssumption DEF NamedWhenAdmitted, TypeOK
  <1> QED
    BY <1>4, <1>5, <1>6

LEMMA INext == IInv /\ [Next]_vars => IInv'
  <1> SUFFICES ASSUME IInv, [Next]_vars
               PROVE  IInv'
    OBVIOUS
  <1>1. TypeOK'
    BY TypeStep DEF IInv, Rows
  <1>2. ASSUME NEW c \in Client,
               PeerGone(c) \/ UnreadableLogin(c) \/ RefuseLogin(c)
                  \/ RefuseMessage(c) \/ BlankMessage(c)
                  \/ \E n \in Name \cup BadName : RefuseRename(c, n)
        PROVE  Rows'
    <2>1. c \in Open /\ \E last : Disconnect(c, last)
      BY <1>2 DEF PeerGone, UnreadableLogin, RefuseLogin, RefuseMessage,
                  BlankMessage, RefuseRename, Serving
    <2> QED
      BY <2>1, DisconnectRows
  <1>3. ASSUME NEW c \in Client, KeyIsNoNumber(c) \/ OverlongMessage(c)
                   \/ LoginThrows(c) \/ KilledSaving(c)
        PROVE  Rows'
    BY <1>3, EndsStop, StopsRows DEF IInv
  <1>4. ASSUME NEW c \in Client,
               Undecryptable(c) \/ Message(c) \/ RequestConsole(c)
                  \/ Command(c) \/ \E n \in Name : Msg(c, n)
        PROVE  Rows'
    BY <1>4, QuietRows DEF Undecryptable, Message, RequestConsole, Command,
                           Msg
  <1>5. ASSUME AcceptFails \/ Start \/ UNCHANGED vars
        PROVE  Rows'
    <2>1. UNCHANGED <<users, cred, conn, addr, name, auth, keys>>
      BY <1>5 DEF AcceptFails, Start, vars
    <2> QED
      BY <2>1, QuietRows
  <1>6. ASSUME NEW c \in Client, Accept(c) \/ Receive(c)
        PROVE  Rows'
    <2>1. CASE \E n \in Name \cup BadName : Rename(c, n)
      BY <2>1, RenameRows
    <2>2. CASE Accept(c) \/ Login(c) \/ SendAesKey(c) \/ RefuseKey(c)
      BY <2>2, AcceptRows, LoginRows, SendAesKeyRows, RefuseKeyRows
    <2> QED
      BY <1>2, <1>3, <1>4, <1>6, <2>1, <2>2 DEF Receive
  <1>7. ASSUME Killed
        PROVE  Rows'
    BY <1>7, EndsStop, StopsRows DEF IInv
  <1>8. Rows'
    BY <1>5, <1>6, <1>7 DEF Next
  <1> QED
    BY <1>1, <1>8 DEF IInv

LEMMA Invariance == Spec => []IInv
  <1> QED
    BY IInit, INext, PTL DEF Spec

-----------------------------------------------------------------------------
(* The invariants the model checker checks.                                *)

\* Every variable always holds a value of its type.
THEOREM TypeCorrect == Spec => []TypeOK
  BY Invariance, PTL DEF IInv

\* No two open connections ever hold the same alias.
THEOREM AliasesUnique == Spec => []NamesUnique
  BY Invariance, PTL DEF IInv, Rows

\* A connection has an alias exactly when its credentials were accepted.
THEOREM AliasesNamed == Spec => []NamedWhenAdmitted
  BY Invariance, PTL DEF IInv, Rows

\* Whoever is past the Undone status typed the password now on file.
THEOREM Admission == Spec => []AdmittedByPassword
  BY Invariance, PTL DEF IInv, Rows

\* A client key on file belongs to the connection at that address, or can
\* encrypt nothing.
THEOREM KeyOwnership == Spec => []KeysOwned
  BY Invariance, PTL DEF IInv, Rows


-----------------------------------------------------------------------------
(* What a step sends.                                                      *)

HandshakeTypes == {"pubkey", "spb", "aes"}

\* m may go to d in this step.
Proper(d, m) ==
    /\ m.type = "aes" => m.key = d
    /\ m.type \notin HandshakeTypes => d \in Open /\ auth[d] # "Undone"
    /\ running' /\ m.type \in {"join", "leave"} => m.list = Names(Open)'

AllProper == \A d \in Client : \A i \in 1..Len(sent'[d]) : Proper(d, sent'[d][i])

LEMMA ProperSequences ==
    /\ \A d : \A i \in 1..Len(<<>>) : Proper(d, <<>>[i])
    /\ \A d, m : Proper(d, m) =>
          \A i \in 1..Len(<<m>>) : Proper(d, <<m>>[i])
    /\ \A d, m, n : Proper(d, m) /\ Proper(d, n) =>
          \A i \in 1..Len(<<m, n>>) : Proper(d, <<m, n>>[i])
  <1>1. \A d : \A i \in 1..Len(<<>>) : Proper(d, <<>>[i])
    OBVIOUS
  <1>2. ASSUME NEW d, NEW m, Proper(d, m), NEW i \in 1..Len(<<m>>)
        PROVE  Proper(d, <<m>>[i])
    <2>1. i = 1 /\ <<m>>[i] = m
      OBVIOUS
    <2> QED
      BY <1>2, <2>1
  <1>3. ASSUME NEW d, NEW m, NEW n, Proper(d, m), Proper(d, n),
               NEW i \in 1..Len(<<m, n>>)
        PROVE  Proper(d, <<m, n>>[i])
    <2>1. <<m, n>>[i] = m \/ <<m, n>>[i] = n
      OBVIOUS
    <2> QED
      BY <1>3, <2>1
  <1> QED
    BY <1>1, <1>2, <1>3

\* One packet to c, nothing to the others.
LEMMA OnlyProper ==
    ASSUME NEW c \in Client, NEW m, Proper(c, m), sent' = ToOnly(c, m)
    PROVE  AllProper
  <1> SUFFICES ASSUME NEW d \in Client
               PROVE  \A i \in 1..Len(sent'[d]) : Proper(d, sent'[d][i])
    BY DEF AllProper
  <1>1. sent'[d] = IF d = c THEN <<m>> ELSE <<>>
    BY DEF ToOnly
  <1> QED
    BY <1>1, ProperSequences

\* A packet to everybody else who is authenticated, and "last" to c.
LEMMA AudienceProper ==
    ASSUME NEW c \in Client, NEW seq, NEW last,
           \A d \in Done : \A i \in 1..Len(seq) : Proper(d, seq[i]),
           \A i \in 1..Len(last) : Proper(c, last[i]),
           \/ sent' = [ToAudience(c, seq) EXCEPT ![c] = last]
           \/ sent' = ToAudience(c, seq)
    PROVE  AllProper
  <1> SUFFICES ASSUME NEW d \in Client
               PROVE  \A i \in 1..Len(sent'[d]) : Proper(d, sent'[d][i])
    BY DEF AllProper
  <1>1. CASE d \in Audience(c) /\ sent'[d] = seq
    BY <1>1 DEF Audience
  <1>2. CASE sent'[d] = <<>>
    BY <1>2, ProperSequences
  <1>3. CASE d = c /\ sent'[d] = last
    BY <1>3
  <1> QED
    BY <1>1, <1>2, <1>3 DEF ToAudience, Audience

\* The list that goes out when a row is erased.
LEMMA DropRowProper ==
    ASSUME IInv, NEW c \in Open, NEW last, DropRow(c, last),
           \A i \in 1..Len(last) : Proper(c, last[i])
    PROVE  AllProper
  <1>1. c \in Client /\ Open \subseteq Client
    BY DEF Open
  <1>2. Open' = Open \ {c}
    BY DropRowRows
  <1>3. \A d \in Open \ {c} : name'[d] = name[d]
    BY <1>1 DEF DropRow, NameErased, IInv, TypeOK
  <1>4. Names(Open)' = NamesBesides(c)
    BY <1>2, <1>3 DEF NamesBesides, Names
  <1>5. \A d \in Done : Proper(d, Leave(name[c], NamesBesides(c)))
    BY <1>4 DEF Proper, Leave, Done
  <1>6. sent' = [ToAudience(c, <<Leave(name[c], NamesBesides(c))>>)
                    EXCEPT ![c] = last]
    BY DEF DropRow
  <1>7. \A d \in Done : \A i \in 1..Len(<<Leave(name[c], NamesBesides(c))>>) :
            Proper(d, <<Leave(name[c], NamesBesides(c))>>[i])
    BY <1>5, ProperSequences
  <1> QED
    BY <1>1, <1>6, <1>7, AudienceProper

\* The list that goes out when an alias is taken.
LEMMA AliasTaken ==
    ASSUME IInv, NEW c \in Open, NEW n \in Name, conn' = conn,
           name' = [name EXCEPT ![c] = n]
    PROVE  \A d \in Done : Proper(d, Join(n, NamesBesides(c) \cup {n}))
  <1>1. Open' = Open /\ Open \subseteq Client
    BY DEF Open
  <1>2. name'[c] = n /\ \A d \in Open \ {c} : name'[d] = name[d]
    BY <1>1 DEF IInv, TypeOK
  <1>3. Names(Open)' = Names(Open \ {c}) \cup {n}
    BY <1>1, <1>2, ConstantsAssumption DEF Names
  <1> QED
    BY <1>3 DEF Proper, Join, Done, NamesBesides

LEMMA NextProper == IInv /\ Next => AllProper
  <1> SUFFICES ASSUME IInv, Next
               PROVE  AllProper
    OBVIOUS
  <1> USE DEF HandshakeTypes
  <1>1. ASSUME NEW c \in Client, Accept(c)
        PROVE  AllProper
    <2>1. Proper(c, PubKeyPacket)
      BY DEF Proper, PubKeyPacket
    <2> QED
      BY <1>1, <2>1, OnlyProper DEF Accept
  <1>2. ASSUME NEW c \in Open,
               \/ Disconnect(c, <<>>)
               \/ DropRow(c, <<>>)
               \/ auth[c] = "Done" /\ Disconnect(c, <<Notice>>)
        PROVE  AllProper
    <2>1. auth[c] = "Done" => Proper(c, Notice)
      BY DEF Proper, Notice
    <2> QED
      BY <1>2, <2>1, ProperSequences, DropRowProper DEF Disconnect
  <1>3. ASSUME NEW c \in Client, Login(c)
        PROVE  AllProper
    <2> DEFINE u == cred[c].uname
               list == NamesBesides(c) \cup {u}
    <2>1. u \in Name /\ c \in Open
      BY <1>3 DEF Login, LoginRefused, NickRefused, Serving
    <2>2. \A d \in Done : Proper(d, Join(u, list))
      BY <1>3, <2>1, AliasTaken DEF Login
    <2>3. \A d \in Done : Proper(d, Notice)
      BY DEF Proper, Notice, Done
    <2>4. \A d \in Done : \A i \in 1..Len(JoinPackets(u, list)) :
              Proper(d, JoinPackets(u, list)[i])
      BY <2>2, <2>3, ProperSequences DEF JoinPackets
    <2>5. Proper(c, SpbPacket)
      BY DEF Proper, SpbPacket
    <2>6. \A i \in 1..Len(<<SpbPacket>>) : Proper(c, <<SpbPacket>>[i])
      BY <2>5, ProperSequences
    <2>7. sent' = [ToAudience(c, JoinPackets(u, list)) EXCEPT ![c] = <<SpbPacket>>]
      BY <1>3 DEF Login, KeyRequest
    <2> QED
      BY <2>4, <2>6, <2>7, AudienceProper
  <1>4. ASSUME NEW c \in Client, SendAesKey(c)
        PROVE  AllProper
    <2>1. EncryptionKey(c) = c
      BY <1>4, OwnKey DEF SendAesKey
    <2>2. Proper(c, AesPacket(c))
      BY DEF Proper, AesPacket
    <2> QED
      BY <1>4, <2>1, <2>2, OnlyProper DEF SendAesKey
  <1>5. ASSUME NEW c \in Client, Undecryptable(c) \/ Command(c)
        PROVE  AllProper
    <2>1. Proper(c, Notice)
      BY <1>5 DEF Proper, Notice, Undecryptable, Command, Serving
    <2> QED
      BY <1>5, <2>1, OnlyProper DEF Undecryptable, Command
  <1>6. ASSUME NEW c \in Client, Message(c) \/ RequestConsole(c)
        PROVE  AllProper
    <2>1. PICK m : /\ sent' = ToAudience(c, <<m>>)
                   /\ m \in {Chat(name[c]), EmptyPacket}
      BY <1>6 DEF Message, RequestConsole
    <2>2. \A d \in Done : Proper(d, m)
      BY <2>1 DEF Proper, Chat, EmptyPacket, Done
    <2>3. \A d \in Done : \A i \in 1..Len(<<m>>) : Proper(d, <<m>>[i])
      BY <2>2, ProperSequences
    <2> DEFINE last == <<>>
    <2>4. \A i \in 1..Len(last) : Proper(c, last[i])
      BY ProperSequences
    <2> QED
      BY <2>1, <2>3, <2>4, AudienceProper
  <1>7. ASSUME NEW c \in Client, NEW n, Rename(c, n)
        PROVE  AllProper
    <2> DEFINE m == Join(n, NamesBesides(c) \cup {n})
    <2>1. n \in Name /\ c \in Open
      BY <1>7 DEF Rename, NickRefused, Serving
    <2>2. \A d \in Done : Proper(d, m)
      BY <1>7, <2>1, AliasTaken DEF Rename
    <2>3. \A d \in Done : \A i \in 1..Len(<<m>>) : Proper(d, <<m>>[i])
      BY <2>2, ProperSequences
    <2> DEFINE last == <<>>
    <2>4. \A i \in 1..Len(last) : Proper(c, last[i])
      BY ProperSequences
    <2>5. sent' = ToAudience(c, <<m>>)
      BY <1>7 DEF Rename
    <2> QED
      BY <2>3, <2>4, <2>5, AudienceProper
  <1>8. ASSUME NEW c \in Client, NEW n \in Name, Msg(c, n)
        PROVE  AllProper
    <2>1. CASE n = name[c]
      <3>1. Proper(c, Notice)
        BY <1>8 DEF Proper, Notice, Msg, Serving
      <3> QED
        BY <1>8, <2>1, <3>1, OnlyProper DEF Msg
    <2>2. CASE n # name[c]
      <3> SUFFICES ASSUME NEW d \in Client
                   PROVE  \A i \in 1..Len(sent'[d]) : Proper(d, sent'[d][i])
        BY DEF AllProper
      <3>1. CASE d \in Open /\ name[d] = n
        <4>1. auth[d] # "Undone"
          BY <3>1, ConstantsAssumption DEF IInv, Rows, NamedWhenAdmitted
        <4>2. Proper(d, Direct(name[c]))
          BY <3>1, <4>1 DEF Proper, Direct
        <4>3. sent'[d] = <<Direct(name[c])>>
          BY <1>8, <2>2, <3>1 DEF Msg
        <4> QED
          BY <4>2, <4>3, ProperSequences
      <3>2. CASE ~(d \in Open /\ name[d] = n)
        <4>1. sent'[d] = <<>>
          BY <1>8, <2>2, <3>2 DEF Msg
        <4> QED
          BY <4>1, ProperSequences
      <3> QED
        BY <3>1, <3>2
    <2> QED
      BY <2>1, <2>2
  <1>9. ASSUME sent' = Nothing
        PROVE  AllProper
    <2>1. \A d \in Client : sent'[d] = <<>>
      BY <1>9 DEF Nothing
    <2> QED
      BY <2>1, ProperSequences DEF AllProper
  <1>10. ASSUME NEW c \in Client, Receive(c)
         PROVE  AllProper
    <2>1. CASE \/ PeerGone(c) \/ UnreadableLogin(c) \/ RefuseLogin(c)
               \/ RefuseMessage(c) \/ BlankMessage(c) \/ RefuseKey(c)
               \/ \E n \in Name \cup BadName : RefuseRename(c, n)
      BY <1>2, <2>1 DEF PeerGone, UnreadableLogin, RefuseLogin, RefuseMessage,
                        BlankMessage, RefuseKey, RefuseRename, Serving
    <2>2. CASE KeyIsNoNumber(c) \/ OverlongMessage(c) \/ LoginThrows(c)
      BY <1>9, <2>2 DEF KeyIsNoNumber, OverlongMessage, LoginThrows, Die
    <2>5. CASE KilledSaving(c)
      <3> DEFINE m == Join(cred[c].uname, NamesBesides(c) \cup {cred[c].uname})
                 last == <<>>
      <3>1. \A d \in Done : Proper(d, m)
        BY <2>5 DEF KilledSaving, Halt, Proper, Join, Done
      <3>2. \A d \in Done : \A i \in 1..Len(<<m>>) : Proper(d, <<m>>[i])
        BY <3>1, ProperSequences
      <3>3. \A i \in 1..Len(last) : Proper(c, last[i])
        BY ProperSequences
      <3>4. sent' = ToAudience(c, <<m>>)
        BY <2>5 DEF KilledSaving
      <3> QED
        BY <3>2, <3>3, <3>4, AudienceProper
    <2>3. CASE \E n \in Name \cup BadName : Rename(c, n)
      BY <1>7, <2>3
    <2>4. CASE \E n \in Name : Msg(c, n)
      BY <1>8, <2>4
    <2> QED
      BY <1>3, <1>4, <1>5, <1>6, <1>10, <2>1, <2>2, <2>3, <2>4, <2>5 DEF Receive
  <1>11. CASE Killed
    BY <1>9, <1>11 DEF Killed, Die
  <1> QED
    BY <1>1, <1>9, <1>10, <1>11 DEF Next, AcceptFails, Start

\* userdata.yml changes only in a login, or when the process ends.
LEMMA UsersChange ==
    ASSUME TypeOK, Next
    PROVE  users' = users \/ Stops \/ \E c \in Client : Login(c)
  BY EndsStop DEF Next, Receive, Accept, AcceptFails, Start, PeerGone,
         UnreadableLogin, RefuseLogin, SendAesKey, RefuseKey,
         Undecryptable, RefuseMessage, BlankMessage, Message,
         RequestConsole, Command, Rename, RefuseRename,
         Msg, Disconnect, DropRow

-----------------------------------------------------------------------------
(* The action properties the model checker checks.                         *)

\* The AES key leaves the server only under the public key of the client it
\* is sent to.
THEOREM AesProtected == Spec => AesUnderOwnKey
  <1>1. IInv /\ [Next]_vars =>
            [\A c \in Client : \A i \in 1..Len(sent'[c]) :
                sent'[c][i].type = "aes" => sent'[c][i].key = c]_vars
    BY NextProper DEF AllProper, Proper
  <1> QED
    BY <1>1, Invariance, PTL DEF Spec, AesUnderOwnKey

\* Every list of users that is sent is the one after the step, if the server
\* survives the step.
THEOREM ListsUpToDate == Spec => ListsCurrent
  <1>1. IInv /\ [Next]_vars =>
            [\A c \in Client : \A i \in 1..Len(sent'[c]) :
                running' /\ sent'[c][i].type \in {"join", "leave"} =>
                    sent'[c][i].list = Names(Open)']_vars
    BY NextProper DEF AllProper, Proper
  <1> QED
    BY <1>1, Invariance, PTL DEF Spec, ListsCurrent

\* What users say and who they are reaches only clients that have shown the
\* password on file, whether or not the server survives the step.
THEOREM ContentProtected == Spec => ContentToAuthenticated
  <1>1. IInv /\ [Next]_vars =>
            [\A c \in Client : \A i \in 1..Len(sent'[c]) :
                sent'[c][i].type \notin {"pubkey", "spb", "aes"} =>
                    users[cred[c].uname] = cred[c].passwd]_vars
    <2> SUFFICES ASSUME IInv, Next, NEW c \in Client,
                        NEW i \in 1..Len(sent'[c]),
                        sent'[c][i].type \notin {"pubkey", "spb", "aes"}
                 PROVE  users[cred[c].uname] = cred[c].passwd
      OBVIOUS
    <2>1. c \in Open /\ auth[c] # "Undone"
      BY NextProper DEF AllProper, Proper, HandshakeTypes
    <2> QED
      BY <2>1 DEF IInv, Rows, AdmittedByPassword
  <1> QED
    BY <1>1, Invariance, PTL DEF Spec, ContentToAuthenticated


-----------------------------------------------------------------------------
(* The server implements the table of connections.                         *)

LEMMA DropMapped ==
    ASSUME IInv, NEW c \in Open, NEW last, DropRow(c, last)
    PROVE  Table!Dropped(c)
  <1>1. c \in Client /\ auth[c] \in {"Undone", "KeyReceived", "Done"}
    BY DEF Open, IInv, TypeOK
  <1>2. Open' = Open \ {c} /\ \A d \in Client \ {c} : auth'[d] = auth[d]
    BY DropRowRows DEF DropRow, IInv, TypeOK
  <1>3. Stage' = [Stage EXCEPT ![c] = "none"]
    BY <1>1, <1>2 DEF Stage
  <1>4. name' = [name EXCEPT ![c] = NoName]
    BY DEF DropRow, NameErased
  <1> QED
    BY <1>1, <1>3, <1>4 DEF Table!Dropped, Stage

LEMMA StopsMapped == Stops => Table!Stopped
  <1> SUFFICES ASSUME Stops
               PROVE  Table!Stopped
    OBVIOUS
  <1>1. Open' = {}
    BY DEF Stops, Halt, Open
  <1> QED
    BY <1>1 DEF Stops, Halt, Table!Stopped, Stage

LEMMA AliasFree ==
    ASSUME IInv, NEW n \in Name, n \notin Names(Open)
    PROVE  Table!Free(n)
  BY ConstantsAssumption DEF Table!Free, Names, IInv, Rows, RowsOfOpen,
                             NamedWhenAdmitted, TypeOK

LEMMA StepMapped == IInv /\ [Next]_vars => [Table!Next]_(Table!vars)
  <1> SUFFICES ASSUME IInv, [Next]_vars
               PROVE  [Table!Next]_(Table!vars)
    OBVIOUS
  <1>1. ASSUME NEW c \in Client, Accept(c)
        PROVE  Table!Accepted(c)
    <2>1. c \notin Open /\ Open' = Open \cup {c}
      BY <1>1 DEF Accept, Open, IInv, TypeOK
    <2>2. auth' = auth /\ name' = name /\ auth[c] = "Undone"
      BY <1>1, <2>1 DEF Accept, IInv, Rows, RowsOfOpen
    <2> QED
      BY <2>1, <2>2 DEF Table!Accepted, Stage
  <1>2. ASSUME NEW c \in Open, NEW last,
               Disconnect(c, last) \/ DropRow(c, last)
        PROVE  Table!Dropped(c)
    BY <1>2, DropMapped DEF Disconnect
  <1>3. ASSUME NEW c \in Client, Login(c)
        PROVE  \E n \in Name : Table!Admitted(c, n)
    <2> DEFINE u == cred[c].uname
    <2>1. u \in Name /\ u \notin Names(Open)
      BY <1>3 DEF Login, LoginRefused, NickRefused
    <2>2. Table!Free(u)
      BY <2>1, AliasFree
    <2>3. Open' = Open /\ c \in Open /\ auth[c] = "Undone"
      BY <1>3 DEF Login, Serving, Open
    <2>4. auth' = [auth EXCEPT ![c] = "KeyReceived"]
      BY <1>3 DEF Login
    <2>5. Stage[c] = "Undone" /\ Stage' = [Stage EXCEPT ![c] = "KeyReceived"]
      BY <2>3, <2>4 DEF Stage, IInv, TypeOK
    <2>6. name' = [name EXCEPT ![c] = u]
      BY <1>3 DEF Login
    <2> QED
      BY <2>1, <2>2, <2>5, <2>6 DEF Table!Admitted
  <1>4. ASSUME NEW c \in Client, SendAesKey(c)
        PROVE  Table!Completed(c)
    <2>1. Open' = Open /\ c \in Open /\ auth[c] = "KeyReceived"
      BY <1>4 DEF SendAesKey, Serving, Open
    <2>2. auth' = [auth EXCEPT ![c] = "Done"] /\ name' = name
      BY <1>4 DEF SendAesKey
    <2>3. Stage[c] = "KeyReceived" /\ Stage' = [Stage EXCEPT ![c] = "Done"]
      BY <2>1, <2>2 DEF Stage, IInv, TypeOK
    <2> QED
      BY <2>2, <2>3 DEF Table!Completed
  <1>5. ASSUME NEW c \in Client, NEW n \in Name \cup BadName, Rename(c, n)
        PROVE  n \in Name /\ Table!Renamed(c, n)
    <2>1. n \in Name /\ n \notin Names(Open)
      BY <1>5 DEF Rename, NickRefused
    <2>2. Table!Free(n)
      BY <2>1, AliasFree
    <2>3. Stage[c] = "Done" /\ Stage' = Stage
      BY <1>5 DEF Rename, Serving, Stage, Open
    <2> QED
      BY <1>5, <2>1, <2>2, <2>3 DEF Table!Renamed, Rename
  <1>6. ASSUME UNCHANGED <<conn, auth, name>>
        PROVE  UNCHANGED Table!vars
    <2>1. Open' = Open
      BY <1>6 DEF Open
    <2> QED
      BY <1>6, <2>1 DEF Table!vars, Stage
  <1>7. ASSUME NEW c \in Client, Receive(c)
        PROVE  [Table!Next]_(Table!vars)
    <2>1. CASE \/ PeerGone(c) \/ UnreadableLogin(c) \/ RefuseLogin(c)
               \/ RefuseMessage(c) \/ BlankMessage(c) \/ RefuseKey(c)
               \/ \E n \in Name \cup BadName : RefuseRename(c, n)
      <3>1. c \in Open /\ \E last : Disconnect(c, last) \/ DropRow(c, last)
        BY <2>1 DEF PeerGone, UnreadableLogin, RefuseLogin, RefuseMessage,
                    BlankMessage, RefuseKey, RefuseRename, Serving
      <3>2. Table!Dropped(c)
        BY <3>1, <1>2
      <3> QED
        BY <3>2 DEF Table!Next
    <2>2. CASE KeyIsNoNumber(c) \/ OverlongMessage(c) \/ LoginThrows(c)
                  \/ KilledSaving(c)
      BY <2>2, EndsStop, StopsMapped DEF Table!Next, IInv
    <2>3. CASE Login(c)
      BY <2>3, <1>3 DEF Table!Next
    <2>4. CASE SendAesKey(c)
      BY <2>4, <1>4 DEF Table!Next
    <2>5. CASE \E n \in Name \cup BadName : Rename(c, n)
      BY <2>5, <1>5 DEF Table!Next
    <2>6. CASE Undecryptable(c) \/ Message(c) \/ RequestConsole(c)
                  \/ Command(c) \/ \E n \in Name : Msg(c, n)
      <3>1. UNCHANGED <<conn, auth, name>>
        BY <2>6 DEF Undecryptable, Message, RequestConsole, Command, Msg
      <3> QED
        BY <3>1, <1>6
    <2> QED
      BY <1>7, <2>1, <2>2, <2>3, <2>4, <2>5, <2>6 DEF Receive
  <1>8. CASE AcceptFails \/ Start \/ UNCHANGED vars
    <2>1. UNCHANGED <<conn, auth, name>>
      BY <1>8 DEF AcceptFails, Start, vars
    <2> QED
      BY <2>1, <1>6
  <1>9. CASE Killed
    BY <1>9, EndsStop, StopsMapped DEF Table!Next, IInv
  <1> QED
    BY <1>1, <1>7, <1>8, <1>9 DEF Next, Table!Next

\* Every step of the server is a step of the table of connections, or
\* changes nothing in it.
THEOREM ImplementsTable == Spec => TableSpec
  <1>1. Init => Table!Init
    BY DEF Init, Table!Init, Stage, Open
  <1> QED
    BY <1>1, StepMapped, Invariance, PTL DEF Spec, TableSpec, Table!Spec

-----------------------------------------------------------------------------
(* The server implements the store of accounts.                            *)

LEMMA StopsStores == TypeOK /\ running /\ Stops => Accounts!Stop
  <1> SUFFICES ASSUME TypeOK, running, Stops
               PROVE  Accounts!Stop
    OBVIOUS
  <1>1. ~running'
    BY DEF Stops, Halt
  <1>2. CASE UNCHANGED users
    BY <1>1, <1>2 DEF Accounts!Stop, Stops, Halt
  <1>3. ASSUME NEW u \in Name, NEW p \in Password,
               users[u] = Absent, users' \in UsersLeft(u, p)
        PROVE  Accounts!Stop
    <2>1. \A a : EntryLeft(a) = Accounts!LeftOf(a)
      BY DEF EntryLeft, Accounts!LeftOf
    <2>2. \/ users' \in Accounts!CutInNew(u, p)
          \/ \E n \in Name : users' \in Accounts!CutInOld(n)
      BY <1>3, <2>1 DEF UsersLeft, Accounts!CutInNew, Accounts!CutInOld, Accounts!Account
    <2> QED
      BY <1>1, <1>3, <2>2 DEF Accounts!Stop, Stops, Halt
  <1> QED
    BY <1>2, <1>3 DEF Stops

LEMMA RunningStops == TypeOK /\ Next /\ Stops => running
  BY DEF Next, Receive, Accept, AcceptFails, Killed, Start, PeerGone,
         UnreadableLogin, RefuseLogin, Login, KilledSaving, LoginThrows,
         SendAesKey, RefuseKey, KeyIsNoNumber, Undecryptable, RefuseMessage,
         BlankMessage, Message, OverlongMessage, RequestConsole, Command,
         Rename, RefuseRename, Msg, Serving, Stops, Halt

LEMMA StepStores == IInv /\ [Next]_vars => [Accounts!Next]_(Accounts!vars)
  <1> SUFFICES ASSUME IInv, [Next]_vars
               PROVE  [Accounts!Next]_(Accounts!vars)
    OBVIOUS
  <1>1. CASE Next /\ Stops
    BY <1>1, RunningStops, StopsStores DEF IInv, Accounts!Next
  <1>2. ASSUME NEW c \in Client, Login(c)
        PROVE  [Accounts!Next]_(Accounts!vars)
    <2> DEFINE u == cred[c].uname
               p == cred[c].passwd
    <2>1. running /\ UNCHANGED running /\ u \in Name /\ p \in Password
      BY <1>2 DEF Login, Serving, LoginRefused, NickRefused, IInv, TypeOK,
                  Credentials
    <2>2. CASE Registered(u)
      BY <1>2, <2>1, <2>2 DEF Login, Accounts!vars
    <2>3. CASE ~Registered(u)
      <3>1. users[u] = Absent /\ users' = [users EXCEPT ![u] = p]
        BY <1>2, <2>1, <2>3 DEF Login, Registered
      <3> QED
        BY <2>1, <3>1 DEF Accounts!Register, Accounts!Next
    <2> QED
      BY <2>2, <2>3
  <1>3. CASE Start
    BY <1>3 DEF Start, Accounts!Start, Accounts!Next
  <1>4. ASSUME Next, ~Stops, ~Start, users' = users
        PROVE  UNCHANGED Accounts!vars
    <2>1. UNCHANGED running
      <3>1. CASE AcceptFails \/ \E c \in Client : Accept(c)
        BY <3>1 DEF AcceptFails, Accept
      <3>2. ~Killed /\ \A c \in Client : ~(KeyIsNoNumber(c) \/ OverlongMessage(c)
                                             \/ LoginThrows(c) \/ KilledSaving(c))
        BY <1>4, EndsStop DEF IInv
      <3>3. ASSUME NEW c \in Client, Receive(c)
            PROVE  UNCHANGED running
        <4>1. CASE PeerGone(c) \/ UnreadableLogin(c) \/ RefuseLogin(c) \/ Login(c)
          BY <4>1 DEF PeerGone, UnreadableLogin, RefuseLogin, Login, Disconnect, DropRow
        <4>2. CASE SendAesKey(c) \/ RefuseKey(c) \/ Undecryptable(c) \/ RefuseMessage(c)
                      \/ BlankMessage(c) \/ Message(c)
          BY <4>2 DEF SendAesKey, RefuseKey, Undecryptable, RefuseMessage,
                      BlankMessage, Message, Disconnect, DropRow
        <4>3. CASE RequestConsole(c) \/ Command(c)
                      \/ (\E n \in Name \cup BadName : Rename(c, n) \/ RefuseRename(c, n))
                      \/ (\E n \in Name \cup BadName : Msg(c, n))
          BY <4>3 DEF RequestConsole, Command, Rename, RefuseRename, Msg, Disconnect,
                      DropRow
        <4> QED
          BY <3>2, <3>3, <4>1, <4>2, <4>3 DEF Receive
      <3> QED
        BY <1>4, <3>1, <3>2, <3>3 DEF Next
    <2> QED
      BY <1>4, <2>1 DEF Accounts!vars
  <1>5. CASE UNCHANGED vars
    BY <1>5 DEF vars, Accounts!vars
  <1> QED
    BY <1>1, <1>2, <1>3, <1>4, <1>5, UsersChange DEF IInv

\* Whatever clients send, an alias keeps the password it was registered with
\* as long as the process runs; a process killed while it registers somebody
\* leaves at most one other password changed, into what a cut makes of it.
THEOREM ImplementsStore == Spec => AccountsSpec
  <1>1. Init => Accounts!Init
    BY DEF Init, Accounts!Init, Accounts!Account
  <1> QED
    BY <1>1, StepStores, Invariance, PTL
    DEF Spec, AccountsSpec, Accounts!Spec

=============================================================================

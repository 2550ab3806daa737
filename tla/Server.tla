------------------------------- MODULE Server -------------------------------
(***************************************************************************)
(* The openSIMP server, class ServerNetwork, at the granularity of one     *)
(* iteration of connectClients (a connection is accepted) or one call of   *)
(* receive (one chunk read from one client is handled to its end).         *)
(*                                                                         *)
(* The code keeps its table in five parallel vectors indexed by position.  *)
(* Here a row is indexed by the connection it belongs to; module SlotTable *)
(* models the vectors, their positions and the two threads that share      *)
(* them, and shows when the two views agree.                               *)
(*                                                                         *)
(* A member of Client is one run of a client program: it connects at most  *)
(* once, its user has typed one pair of credentials, and it has an RSA     *)
(* keypair of its own, so the client also stands for its public key.  What *)
(* a client sends is otherwise arbitrary.  Sock is the set of heap         *)
(* addresses of sf::TcpSocket objects, reused once freed, because the map  *)
(* of client keys is indexed by address.                                   *)
(***************************************************************************)
EXTENDS Naturals, Sequences, FiniteSets

CONSTANTS
    Client,       \* runs of client programs
    WeakKey,      \* the clients whose RSA modulus cannot hold the AES key
    Sock,         \* heap addresses of socket objects
    Name,         \* aliases nick() accepts: 3 to 16 of [a-zA-Z0-9_]
    BadName,      \* aliases it refuses
    Password,
    Remainder,    \* what each may be read as when its entry was cut short
    Blank,        \* the empty string, as a user name or a password
    NoName,       \* "\x96", the alias of a connection that has none
    NoSock,       \* no socket object
    NoKey,        \* no entry in Cryptography::keys
    Absent,       \* no entry in userdata.yml
    NoPassword    \* an entry of userdata.yml that admits nobody

ASSUME ConstantsAssumption ==
    /\ WeakKey \subseteq Client
    /\ NoName \notin Name
    /\ BadName \cap Name = {}
    /\ Blank \notin Name \cup Password
    /\ NoSock \notin Sock
    /\ NoKey \notin Client
    /\ Remainder \in [Password -> SUBSET Password]
    /\ {Absent, NoPassword} \cap (Password \cup {Blank}) = {}
    /\ Absent # NoPassword

VARIABLES
    running,      \* the server process is up
    accepting,    \* the connection thread has not given up
    users,        \* userdata.yml: the password of each registered alias
    cred,         \* what the user of each client typed
    conn,         \* has the client connected, and is the socket still open
    addr,         \* client_array: the socket object of an open connection
    name,         \* clientid_array
    auth,         \* client_authenticated_array
    keys,         \* Cryptography::keys, by socket address
    sent          \* what the last step sent on each connection

vars == <<running, accepting, users, cred, conn, addr, name, auth, keys, sent>>

-----------------------------------------------------------------------------
(* What the server sends.                                                  *)

PubKeyPacket   == [type |-> "pubkey"]          \* the server's RSA modulus
SpbPacket      == [type |-> "spb"]             \* "send public key"
AesPacket(k)   == [type |-> "aes", key |-> k]  \* SERVER_KEY encrypted under k
Notice         == [type |-> "notice"]          \* "6": a text of the server's
Direct(n)      == [type |-> "direct", from |-> n]    \* "6": /msg from n
Chat(n)        == [type |-> "chat", from |-> n]      \* "0"
Join(n, list)  == [type |-> "join", who |-> n, list |-> list]    \* "1"
Leave(n, list) == [type |-> "leave", who |-> n, list |-> list]   \* "2"
EmptyPacket    == [type |-> "empty"]           \* the empty string

Packet ==
    [type : {"pubkey", "spb", "notice", "empty"}]
        \cup [type : {"aes"}, key : Client]
        \cup [type : {"chat", "direct"}, from : Name]
        \cup [type : {"join", "leave"}, who : Name \cup {NoName},
              list : SUBSET Name]

-----------------------------------------------------------------------------
(* The table of connections.                                               *)

Open == {c \in Client : conn[c] = "open"}
Done == {c \in Open : auth[c] = "Done"}
Names(S) == {name[d] : d \in S} \ {NoName}

\* The sockets broadcast() sends to when a packet of c is passed on.
AudienceUnchecked(c) == Open \ {c}
Audience(c) == Done \ {c}

ToAudience(c, packets) ==
    [d \in Client |-> IF d \in Audience(c) THEN packets ELSE <<>>]
ToOnly(c, packet) == [d \in Client |-> IF d = c THEN <<packet>> ELSE <<>>]
Nothing == [d \in Client |-> <<>>]

\* The aliases listed once c's own has been erased or is about to change.
NamesBeforeErase(c) == Names(Open)
NamesBesides(c) == Names(Open \ {c})

\* disconnectClient: c's row is erased from every array, the rest of the
\* authenticated clients are told, the socket object is freed.  "last" is
\* what was sent to c itself just before.
NameKept(c) == name
NameErased(c) == [name EXCEPT ![c] = NoName]

DropRow(c, last) ==
    /\ conn' = [conn EXCEPT ![c] = "closed"]
    /\ addr' = [addr EXCEPT ![c] = NoSock]
    /\ name' = NameErased(c)
    /\ auth' = [auth EXCEPT ![c] = "Undone"]
    /\ sent' = [ToAudience(c, <<Leave(name[c], NamesBesides(c))>>)
                    EXCEPT ![c] = last]
    /\ UNCHANGED <<running, accepting, users, cred>>

\* ... and its key is removed, when the handshake had been completed.
KeyLeftBehind(c) == keys
KeyRemoved(c) ==
    IF auth[c] = "Done" THEN [keys EXCEPT ![addr[c]] = NoKey] ELSE keys

Disconnect(c, last) == DropRow(c, last) /\ keys' = KeyRemoved(c)

-----------------------------------------------------------------------------
(* The connection thread.                                                  *)

\* A connection is accepted: a row at the end of every array, and the
\* server's public key to the new client.
Accept(c) ==
    /\ running /\ accepting
    /\ conn[c] = "new"
    /\ \E a \in Sock \ {addr[d] : d \in Open} :
          addr' = [addr EXCEPT ![c] = a]
    /\ conn' = [conn EXCEPT ![c] = "open"]
    /\ sent' = ToOnly(c, PubKeyPacket)
    /\ UNCHANGED <<running, accepting, users, cred, name, auth, keys>>

\* listener.accept fails: the thread leaves its loop for good.
AcceptFails ==
    /\ running /\ accepting
    /\ accepting' = FALSE
    /\ sent' = Nothing
    /\ UNCHANGED <<running, users, cred, conn, addr, name, auth, keys>>

-----------------------------------------------------------------------------
(* receive(): nobody's data, then the data of a client that has not yet    *)
(* been authenticated.                                                     *)

Serving(c, status) == running /\ c \in Open /\ auth[c] = status

\* The peer closed the connection, whatever had been reached.
PeerGone(c) ==
    /\ running /\ c \in Open
    /\ Disconnect(c, <<>>)

\* nick() refuses an alias that is in use or is malformed.
NickTakenOnlyByDone(n) == n \in Names(Done) \/ n \notin Name
NickRefused(n) == n \in Names(Open) \/ n \notin Name

RegisteredUsable(n) == n \in Name /\ users[n] \notin {Absent, NoPassword}
Registered(n) == n \in Name /\ users[n] # Absent

\* The conditions under which a client with readable credentials is kicked.
LoginRefusedUnlessPassword(u, p) ==
    \/ u = Blank \/ p = Blank
    \/ Registered(u) /\ users[u] \notin {p, NoPassword}
    \/ NickRefused(u)
LoginRefused(u, p) ==
    \/ u = Blank \/ p = Blank
    \/ Registered(u) /\ users[u] # p
    \/ NickRefused(u)

\* RSA_decrypt throws.
UnreadableLogin(c) ==
    /\ Serving(c, "Undone")
    /\ Disconnect(c, <<>>)

\* (The log line that follows reads the socket object just freed: what it
\* prints is arbitrary, and nothing else comes of it.)
RefuseLogin(c) ==
    /\ Serving(c, "Undone")
    /\ LoginRefused(cred[c].uname, cred[c].passwd)
    /\ Disconnect(c, <<>>)

\* The client takes its alias, an alias seen for the first time is
\* registered, the others are told, and the client's public key is asked for.
KeyRequestForgotten == <<>>
KeyRequest == <<SpbPacket>>
JoinPackets(u, list) ==
    IF Registered(u) THEN <<Join(u, list)>> ELSE <<Join(u, list), Notice>>

Login(c) ==
    LET u == cred[c].uname
        p == cred[c].passwd
    IN  /\ Serving(c, "Undone")
        /\ ~LoginRefused(u, p)
        /\ name' = [name EXCEPT ![c] = u]
        /\ auth' = [auth EXCEPT ![c] = "KeyReceived"]
        /\ users' = IF Registered(u) THEN users ELSE [users EXCEPT ![u] = p]
        /\ sent' = [ToAudience(c, JoinPackets(u, NamesBesides(c) \cup {u}))
                        EXCEPT ![c] = KeyRequest]
        /\ UNCHANGED <<running, accepting, cred, conn, addr, keys>>

-----------------------------------------------------------------------------
(* The process ends: by an exception, undefined behaviour, or a signal.    *)

\* With it goes everything it held in memory.
Halt ==
    /\ running' = FALSE
    /\ accepting' = FALSE
    /\ conn' = [c \in Client |-> IF c \in Open THEN "closed" ELSE conn[c]]
    /\ addr' = [c \in Client |-> NoSock]
    /\ name' = [c \in Client |-> NoName]
    /\ auth' = [c \in Client |-> "Undone"]
    /\ keys' = [a \in Sock |-> NoKey]
    /\ UNCHANGED cred

Die == Halt /\ sent' = Nothing /\ UNCHANGED users

\* The server has no command to stop it: it is killed.
Killed == running /\ Die

\* What registerUser leaves of an entry in which its text ends too early.
EntryLeft(p) ==
    IF p = Absent THEN {Absent}
    ELSE {p, Absent, NoPassword} \cup (IF p \in Password THEN Remainder[p] ELSE {})

\* ... and of all entries, of which u's is the last one: the text ends in it,
\* or in an older one, n (module Userdata shows how).
UsersLeft(u, p) ==
    {[users EXCEPT ![u] = q] : q \in EntryLeft(p)} \cup
    {f \in [Name -> Password \cup {Absent, NoPassword}] :
        \E n \in Name :
            /\ f[n] \in EntryLeft(users[n])
            /\ \A m \in Name \ {n} : f[m] \in {users[m], Absent}}

\* Killed while registerUser rewrites userdata.yml: nick() has already told
\* the others.
KilledSaving(c) ==
    LET u == cred[c].uname
        p == cred[c].passwd
    IN  /\ Serving(c, "Undone")
        /\ ~LoginRefused(u, p)
        /\ ~Registered(u)
        /\ users' \in UsersLeft(u, p)
        /\ sent' = ToAudience(c, <<Join(u, NamesBesides(c) \cup {u})>>)
        /\ Halt

\* LoadFile throws as userdata.yml cannot be opened or parsed, or operator[]
\* does as an entry, or the whole file, was cut and is no map.
LoginThrows(c) == Serving(c, "Undone") /\ Die

-----------------------------------------------------------------------------
(* receive(): the client's public key.                                     *)

\* The key used for socket object addr[c]: pushNewClientKey inserts c's key,
\* which does nothing when the map already has an entry for that address.
KeyBeforeInsert(c) == keys[addr[c]]
EncryptionKey(c) == IF keys[addr[c]] = NoKey THEN c ELSE keys[addr[c]]

SendAesKey(c) ==
    /\ Serving(c, "KeyReceived")
    /\ EncryptionKey(c) \notin WeakKey
    /\ keys' = [keys EXCEPT ![addr[c]] = EncryptionKey(c)]
    /\ auth' = [auth EXCEPT ![c] = "Done"]
    /\ sent' = ToOnly(c, AesPacket(EncryptionKey(c)))
    /\ UNCHANGED <<running, accepting, users, cred, conn, addr, name>>

\* RSA_encrypt throws: the client is kicked.  Its status is still
\* KeyReceived, so disconnectClient leaves the entry in the map.
RefuseKey(c) ==
    /\ Serving(c, "KeyReceived")
    /\ EncryptionKey(c) \in WeakKey
    /\ keys' = [keys EXCEPT ![addr[c]] = EncryptionKey(c)]
    /\ DropRow(c, <<>>)

\* What arrived is not a number: BigInt throws outside the try block.
KeyIsNoNumber(c) == Serving(c, "KeyReceived") /\ Die

-----------------------------------------------------------------------------
(* receive(): packets of an authenticated client.                          *)

\* The chunk cannot be decrypted: the message is dropped with a notice.
Undecryptable(c) ==
    /\ Serving(c, "Done")
    /\ sent' = ToOnly(c, Notice)
    /\ UNCHANGED <<running, accepting, users, cred, conn, addr, name, auth,
                   keys>>

\* An illegal character, an unknown packet type, a sender without an alias.
RefuseMessage(c) ==
    /\ Serving(c, "Done")
    /\ Disconnect(c, <<>>)

\* "0" with nothing but white space.
BlankMessage(c) ==
    /\ Serving(c, "Done")
    /\ Disconnect(c, <<Notice>>)

\* "0": passed on to everybody else.
Message(c) ==
    /\ Serving(c, "Done")
    /\ name[c] # NoName
    /\ sent' = ToAudience(c, <<Chat(name[c])>>)
    /\ UNCHANGED <<running, accepting, users, cred, conn, addr, name, auth,
                   keys>>

\* "0" with a text that overruns char_array[256], or "5" with more words than
\* Executor::iterate has room for: undefined behaviour.  It is handled as any
\* other (Message, Command), or the process is stopped.
OverlongMessage(c) == Serving(c, "Done") /\ Die

\* "3": another alias is taken, or the client is kicked for asking.
Rename(c, n) ==
    /\ Serving(c, "Done")
    /\ ~NickRefused(n)
    /\ name' = [name EXCEPT ![c] = n]
    /\ sent' = ToAudience(c, <<Join(n, NamesBesides(c) \cup {n})>>)
    /\ UNCHANGED <<running, accepting, users, cred, conn, addr, auth, keys>>

RefuseRename(c, n) ==
    /\ Serving(c, "Done")
    /\ NickRefused(n)
    /\ Disconnect(c, <<>>)

\* "4", a request for the console, is denied; the still empty string is
\* broadcast all the same.
RequestConsole(c) ==
    /\ Serving(c, "Done")
    /\ sent' = ToAudience(c, <<EmptyPacket>>)
    /\ UNCHANGED <<running, accepting, users, cred, conn, addr, name, auth,
                   keys>>

\* "5" help, plugins or an unknown command: one line of text comes back.
Command(c) ==
    /\ Serving(c, "Done")
    /\ sent' = ToOnly(c, Notice)
    /\ UNCHANGED <<running, accepting, users, cred, conn, addr, name, auth,
                   keys>>

\* "5" msg: to the holder of the alias, at whatever stage of the handshake;
\* nothing at all when nobody holds it.
Msg(c, n) ==
    /\ Serving(c, "Done")
    /\ sent' = IF n = name[c] THEN ToOnly(c, Notice)
               ELSE [d \in Client |-> IF d \in Open /\ name[d] = n
                                      THEN <<Direct(name[c])>> ELSE <<>>]
    /\ UNCHANGED <<running, accepting, users, cred, conn, addr, name, auth,
                   keys>>

-----------------------------------------------------------------------------
\* The server is started again by hand.  Only userdata.yml has survived.
Start ==
    /\ ~running
    /\ running' = TRUE
    /\ accepting' = TRUE
    /\ sent' = Nothing
    /\ UNCHANGED <<users, cred, conn, addr, name, auth, keys>>

Credentials == [uname : Name \cup BadName \cup {Blank},
                passwd : Password \cup {Blank}]

Init ==
    /\ running = TRUE
    /\ accepting = TRUE
    /\ users \in [Name -> Password \cup {Absent, NoPassword}]
    /\ cred \in [Client -> Credentials]
    /\ conn = [c \in Client |-> "new"]
    /\ addr = [c \in Client |-> NoSock]
    /\ name = [c \in Client |-> NoName]
    /\ auth = [c \in Client |-> "Undone"]
    /\ keys = [a \in Sock |-> NoKey]
    /\ sent = Nothing

Receive(c) ==
    \/ PeerGone(c)
    \/ UnreadableLogin(c)
    \/ RefuseLogin(c)
    \/ Login(c)
    \/ KilledSaving(c)
    \/ LoginThrows(c)
    \/ SendAesKey(c)
    \/ RefuseKey(c)
    \/ KeyIsNoNumber(c)
    \/ Undecryptable(c)
    \/ RefuseMessage(c)
    \/ BlankMessage(c)
    \/ Message(c)
    \/ OverlongMessage(c)
    \/ RequestConsole(c)
    \/ Command(c)
    \/ \E n \in Name \cup BadName : Rename(c, n)
    \/ \E n \in Name \cup BadName : RefuseRename(c, n)
    \/ \E n \in Name : Msg(c, n)

Next ==
    \/ \E c \in Client : Accept(c) \/ Receive(c)
    \/ AcceptFails
    \/ Killed
    \/ Start

Spec == Init /\ [][Next]_vars

-----------------------------------------------------------------------------
(* Correctness.                                                            *)

\* Every variable holds a value of its type.
TypeOK ==
    /\ running \in BOOLEAN
    /\ accepting \in BOOLEAN
    /\ users \in [Name -> Password \cup {Absent, NoPassword}]
    /\ cred \in [Client -> Credentials]
    /\ conn \in [Client -> {"new", "open", "closed"}]
    /\ addr \in [Client -> Sock \cup {NoSock}]
    /\ name \in [Client -> Name \cup {NoName}]
    /\ auth \in [Client -> {"Undone", "KeyReceived", "Done"}]
    /\ keys \in [Sock -> Client \cup {NoKey}]
    /\ sent \in [Client -> Seq(Packet)]

\* No two open connections hold the same alias, whatever stage of the
\* handshake each has reached and however often aliases are changed: the
\* recipient of a /msg is found by its alias alone.
NamesUnique ==
    \A c, d \in Open : c # d /\ name[c] = name[d] => name[c] = NoName

\* A connection has an alias exactly when its credentials were accepted, and
\* a closed one has left none behind.  So the kick of an unnamed sender in
\* handleSend is never reached.
NamedWhenAdmitted ==
    \A c \in Client : name[c] = NoName <=> auth[c] = "Undone"

\* Whoever is past the Undone status typed the password now on file for the
\* user name it typed: later registrations and renames, and a server that
\* died and was started again, never change that.
AdmittedByPassword ==
    \A c \in Open : auth[c] # "Undone" =>
        /\ cred[c].uname \in Name
        /\ users[cred[c].uname] = cred[c].passwd

\* A client key on file is that of the client which completed the handshake
\* on that socket object, or one that can encrypt nothing.  This is what
\* keeps a reused address from yielding the key of an earlier client.
KeysOwned ==
    \A a \in Sock : keys[a] \notin {NoKey} \cup WeakKey =>
        /\ keys[a] \in Done
        /\ addr[keys[a]] = a

\* The AES key leaves the server under the public key of the client it is
\* sent to, and of no other, also when socket addresses are reused.
AesUnderOwnKey ==
    [][\A c \in Client : \A i \in 1..Len(sent'[c]) :
            sent'[c][i].type = "aes" => sent'[c][i].key = c]_vars

\* Every list of users that goes out, with a join or with a leave, is the
\* list of the aliases in use once the step is done, if the server survives
\* the step.
ListsCurrent ==
    [][\A c \in Client : \A i \in 1..Len(sent'[c]) :
            running' /\ sent'[c][i].type \in {"join", "leave"} =>
                sent'[c][i].list = Names(Open)']_vars

\* What users say, who they are, and the server's own texts reach only
\* connections whose client has shown the password on file, also when the
\* server is killed right after.
ContentToAuthenticated ==
    [][\A c \in Client : \A i \in 1..Len(sent'[c]) :
            sent'[c][i].type \notin {"pubkey", "spb", "aes"} =>
                users[cred[c].uname] = cred[c].passwd]_vars

\* The server implements the table of connections: a client moves from one
\* stage of the handshake to the next and takes an alias nobody else has.
Stage == [c \in Client |-> IF c \in Open THEN auth[c] ELSE "none"]
Table == INSTANCE ConnTable WITH
            Conn <- Client, Alias <- Name, NoAlias <- NoName,
            stage <- Stage, alias <- name
TableSpec == Table!Spec

\* The server implements the store of accounts: nothing is forgotten, and no
\* password replaced, while the process runs; a process killed while it
\* registers somebody shortens one entry at most, and forgets others.
Accounts == INSTANCE UserStore WITH
            Alias <- Name, None <- Absent, Spoiled <- NoPassword,
            up <- running, accounts <- users
AccountsSpec == Accounts!Spec

-----------------------------------------------------------------------------
(* What the documentation says and the code does not do.                   *)

\* specs/handshake.md: once authentication has succeeded the client's public
\* key comes in and "Server encrypts the AES key with the public key of the
\* client".  The key used on a connection is the one received on it.
OwnKeyUsed ==
    \A c \in Open : auth[c] = "KeyReceived" => EncryptionKey(c) = c

=============================================================================

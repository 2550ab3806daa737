--------------------------- MODULE ClientProgram ---------------------------
(***************************************************************************)
(* The two client programs, clients/cpp and clients/rust-gui, as far as a  *)
(* connection goes: the handshake, the thread that receives, and what a    *)
(* user can send.  A program takes a step per chunk it reads from the      *)
(* connection.  TCP keeps no packet boundaries: a read returns one or more *)
(* of the packets that have arrived, as one chunk.                         *)
(*                                                                         *)
(* The rust program reads on its GUI thread until the handshake is over,   *)
(* on a thread of its own afterwards; a panic of the latter leaves a       *)
(* program that shows nothing any more.  In the C++ program an exception   *)
(* on either thread ends the process.                                      *)
(***************************************************************************)
EXTENDS Naturals, Sequences, FiniteSets

CONSTANTS
    Client,     \* runs of client programs
    Rust,       \* those of the rust program; the others are C++
    Text,       \* what a user may send once the handshake is over
    NoList,     \* no list of users has been shown yet
    NoName,     \* "\x96"
    MaxTexts    \* bound: texts all users send

VARIABLES
    app,      \* what each program is doing
    up,       \* bytes on their way to the server, by packet
    down,     \* bytes on their way from the server, by packet
    view,     \* the list of users last shown to the user
    typed     \* number of texts sent, by all users

vars == <<app, up, down, view, typed>>

\* HandshakeStatus, then what has become of the program:
\*   chatting   the handshake is over
\*   deaf       rust: the receiving thread has panicked, the GUI lives on
\*   poisoned   the same, and it held the lock of the AES key
\*   idle       rust: the user ignored that the connection was lost
\*   gone       the process has ended, by itself or by an exception
Handshaking == {"HasntBegun", "SentCredentials", "SentPubKey"}
State == Handshaking \cup {"off", "chatting", "deaf", "poisoned", "idle",
                           "gone"}

Fin == [type |-> "fin"]       \* the connection has been closed
CredentialsSent == [type |-> "credentials"]
KeySent == [type |-> "key"]

Init ==
    /\ app = [c \in Client |-> "off"]
    /\ up = [c \in Client |-> <<>>]
    /\ down = [c \in Client |-> <<>>]
    /\ view = [c \in Client |-> NoList]
    /\ typed = 0

-----------------------------------------------------------------------------
(* Reading a chunk.                                                        *)

Packets(c) == {i \in 1..Len(down[c]) : \A j \in 1..i : down[c][j] # Fin}
Reads(c, k) ==
    /\ k \in Packets(c)
    /\ down' = [down EXCEPT ![c] = SubSeq(@, k + 1, Len(@))]
Closed(c) == down[c] # <<>> /\ Head(down[c]) = Fin

Sends(c, packet) == up' = [up EXCEPT ![c] = Append(@, packet)]
Becomes(c, state) == app' = [app EXCEPT ![c] = state]

\* The process ends, and its end of the connection is closed, if the server's
\* is not.
Ends(c) ==
    /\ Becomes(c, "gone")
    /\ IF Closed(c) THEN UNCHANGED up ELSE Sends(c, Fin)
    /\ down' = [down EXCEPT ![c] = <<>>]
    /\ UNCHANGED <<view, typed>>

Connect(c) ==
    /\ app[c] = "off"
    /\ Becomes(c, "HasntBegun")
    /\ UNCHANGED <<up, down, view, typed>>

\* Nobody listens: the rust program exits, the C++ program goes on and finds
\* the connection closed.
ConnectRefused(c) ==
    /\ app[c] = "off"
    /\ IF c \in Rust
       THEN Becomes(c, "gone") /\ UNCHANGED down
       ELSE Becomes(c, "HasntBegun") /\ down' = [down EXCEPT ![c] = <<Fin>>]
    /\ UNCHANGED <<up, view, typed>>

\* The server's public key: the credentials are encrypted with it.
SendCredentials(c) ==
    /\ app[c] = "HasntBegun"
    /\ \E k \in Packets(c) : Reads(c, k)
    /\ Sends(c, CredentialsSent)
    /\ Becomes(c, "SentCredentials")
    /\ UNCHANGED <<view, typed>>

\* "spb", or whatever else the chunk holds: it is not looked at.
SendPubKey(c) ==
    /\ app[c] = "SentCredentials"
    /\ \E k \in Packets(c) : Reads(c, k)
    /\ Sends(c, KeySent)
    /\ Becomes(c, "SentPubKey")
    /\ UNCHANGED <<view, typed>>

\* RSA decryption succeeds for a chunk that is the AES key encrypted for this
\* client, and for no other.
IsAesKey(c, k) ==
    k = 1 /\ down[c][1].type = "aes" /\ down[c][1].key = c

ReceiveAesKey(c) ==
    /\ app[c] = "SentPubKey"
    /\ 1 \in Packets(c) /\ IsAesKey(c, 1)
    /\ Reads(c, 1)
    /\ Becomes(c, "chatting")
    /\ UNCHANGED <<up, view, typed>>

\* Otherwise an exception nobody catches, or expect(), ends the program.
FailToDecrypt(c) ==
    /\ app[c] = "SentPubKey"
    /\ \E k \in Packets(c) : ~IsAesKey(c, k)
    /\ Ends(c)

\* The server has closed the connection before the handshake was over.  Only
\* the rust program looks at it: run() of the C++ program calls handshake()
\* again, which does nothing unless something was received, for ever.
KickedInHandshake(c) ==
    /\ c \in Rust
    /\ app[c] \in Handshaking
    /\ Closed(c)
    /\ \/ /\ app[c] = "HasntBegun"     \* "Ignore"
          /\ Becomes(c, "idle")
          /\ UNCHANGED <<up, down, view, typed>>
       \/ Ends(c)                      \* "Close", or a panic

-----------------------------------------------------------------------------
(* After the handshake.                                                    *)

\* One chunk must be one packet, or it cannot be decrypted.  parse_packet of
\* the rust program also needs valid UTF-8 and at least one separator.
Parsed(c, packet) ==
    \/ c \notin Rust
    \/ /\ packet.type # "empty"
       /\ packet.type = "leave" => packet.who # NoName
Readable(c, k) == k = 1 /\ Parsed(c, down[c][1])

Shown(c, packet) ==
    IF packet.type \in {"join", "leave"} THEN packet.list ELSE view[c]

Show(c) ==
    /\ app[c] = "chatting"
    /\ 1 \in Packets(c) /\ Readable(c, 1)
    /\ view' = [view EXCEPT ![c] = Shown(c, down[c][1])]
    /\ Reads(c, 1)
    /\ UNCHANGED <<app, up, typed>>

\* Cryptography::decrypt throws, aes_decrypt panics while the AES key is
\* locked, or parse_packet panics after it has been unlocked.
FailToShow(c) ==
    /\ app[c] = "chatting"
    /\ \E k \in Packets(c) :
          /\ ~Readable(c, k)
          /\ \/ c \notin Rust /\ Ends(c)
             \/ /\ c \in Rust
                /\ Reads(c, k)
                /\ Becomes(c, IF k = 1 THEN "deaf" ELSE "poisoned")
                /\ UNCHANGED <<up, view, typed>>

\* The C++ program exits; the rust program asks its user, again and again
\* if the user ignores it.  If the connection was reset, read() is an error,
\* and the receiving thread of the rust program panics: nobody is asked.
KickedLater(c) ==
    /\ app[c] = "chatting"
    /\ Closed(c)
    /\ \/ Ends(c)
       \/ /\ c \in Rust
          /\ \E state \in {"idle", "deaf"} : Becomes(c, state)
          /\ UNCHANGED <<up, down, view, typed>>

SendText(c, t) ==
    /\ app[c] \in {"chatting", "deaf"}
    /\ typed < MaxTexts
    /\ t.type = "console" => c \in Rust       \* ".op"
    /\ Sends(c, t)
    /\ typed' = typed + 1
    /\ UNCHANGED <<app, down, view>>

\* The rust program locks the AES key to send: the poisoned lock ends it.
SendPanics(c) ==
    /\ app[c] = "poisoned"
    /\ Ends(c)

\* The user closes the program.
Quit(c) ==
    /\ app[c] \notin {"off", "gone"}
    /\ Ends(c)

-----------------------------------------------------------------------------
Read(c) ==
    \/ SendCredentials(c)
    \/ SendPubKey(c)
    \/ ReceiveAesKey(c)
    \/ FailToDecrypt(c)
    \/ KickedInHandshake(c)
    \/ Show(c)
    \/ FailToShow(c)
    \/ KickedLater(c)

User(c) ==
    \/ \E t \in Text : SendText(c, t)
    \/ SendPanics(c)
    \/ Quit(c)

=============================================================================

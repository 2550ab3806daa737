------------------------------- MODULE Stream -------------------------------
(***************************************************************************)
(* One connection as a stream of bytes with bounded buffers.  A packet is  *)
(* two halves, which may arrive in one chunk, in two, or in one with those *)
(* of other packets.  The server's sockets do not block: what finds no     *)
(* room in the buffer is not sent, and the server goes on.  The clients'   *)
(* sockets block: whoever writes waits for room.                           *)
(*                                                                         *)
(* The thread that runs the handshake writes and reads by turns.  After it *)
(* the user's thread writes while another one reads; in the rust program   *)
(* both need the lock of the AES key, which the user's thread holds until  *)
(* its packet is written.                                                  *)
(*                                                                         *)
(* Users chat and issue commands; a command is answered by one text.  What *)
(* others do is a text that arrives at any time.                           *)
(***************************************************************************)
EXTENDS Naturals, Sequences, SequencesExt

CONSTANTS
    DownRoom, UpRoom,    \* sizes of the buffers, in halves
    MaxSent, MaxTyped    \* bounds: texts not in answer, commands

ASSUME StreamAssumption ==
    /\ DownRoom \in Nat /\ DownRoom >= 2 /\ UpRoom \in Nat /\ UpRoom >= 1
    /\ MaxSent \in Nat /\ MaxTyped \in Nat

VARIABLES
    program,    \* "cpp", "rust", or "tester" (encrypt-test-client)
    auth,       \* client_authenticated_array, or "none" or "closed"
    app,        \* HandshakeStatus of the client, or what became of it
    up, down,   \* halves on their way
    writing,    \* what a thread of the client has still to write
    typed,      \* commands issued
    sent,       \* texts the server has sent since the handshake
    lost,       \* those that found no room
    shown       \* those the client has shown

vars == <<program, auth, app, up, down, writing, typed, sent, lost, shown>>
server == <<auth, sent, lost>>
peer == <<program, app, writing, typed, shown>>

Packet(t) == [type |-> t, id |-> 0]
Text(i) == [type |-> "text", id |-> i]
Halves(p) == <<[packet |-> p, part |-> 1], [packet |-> p, part |-> 2]>>

\* What one receive or read returns, if anything has arrived.
Chunk(stream, k) == SubSeq(stream, 1, k)
Rest(stream, k) == SubSeq(stream, k + 1, Len(stream))

-----------------------------------------------------------------------------
(* The server.                                                             *)

\* TcpSocket::send on a non-blocking socket: all of it, a part, or nothing.
Room == DownRoom - Len(down)
SendWaits == Room >= 2
SendReturns == Room >= 0
WhatFits(p) == IF Room < 2 THEN SubSeq(Halves(p), 1, Room) ELSE Halves(p)
SendWhole(p) == SendReturns /\ down' = down \o Halves(p)
Send(p) ==
    /\ SendReturns
    /\ down' = down \o WhatFits(p)
SendText ==
    /\ sent' = sent + 1
    /\ Send(Text(sent + 1))
    /\ lost' = IF Room < 2 THEN lost \cup {sent + 1} ELSE lost

\* disconnectClient, or the end of the process: what was sent still arrives.
Close == auth' = "closed" /\ UNCHANGED <<down, sent, lost>>

Accept ==
    /\ auth = "none"
    /\ auth' = "Undone"
    /\ Send(Packet("pubkey"))
    /\ UNCHANGED <<up, sent, lost, peer>>

\* Undone: RSA_decrypt throws for anything but the credentials, encrypted
\* under the server's key; they may be refused all the same.
ReceiveCredentials(chunk) ==
    /\ auth = "Undone"
    /\ \/ Close
       \/ /\ chunk = Halves(Packet("credentials"))
          /\ auth' = "KeyReceived"
          /\ Send(Packet("spb"))
          /\ UNCHANGED <<sent, lost>>

\* KeyReceived: any number is taken for the client's key, also a half.  A
\* number that is no RSA key kicks the client or ends the process.
ReceiveKey(chunk) ==
    /\ auth = "KeyReceived"
    /\ \/ Close
       \/ /\ auth' = "Done"
          /\ Send(Packet(IF chunk = Halves(Packet("key")) THEN "aes" ELSE "aesTorn"))
          /\ UNCHANGED <<sent, lost>>

\* Done: a chat message goes to others.  Anything else is answered: a command,
\* or what could not be decrypted.  (Close, below, covers the kicks.)
ReceiveCommand(chunk) ==
    /\ auth = "Done"
    /\ UNCHANGED auth
    /\ IF chunk = Halves(Packet("chat"))
       THEN UNCHANGED <<down, sent, lost>>
       ELSE SendText

\* receive(): one chunk.
Receive ==
    /\ \E k \in 1..Len(up) :
          /\ \/ ReceiveCredentials(Chunk(up, k))
             \/ ReceiveKey(Chunk(up, k))
             \/ ReceiveCommand(Chunk(up, k))
          /\ up' = Rest(up, k)
    /\ UNCHANGED peer

\* Another client's doings; a /msg may arrive before the handshake is over.
\* The client may be kicked, and the process ended, at any time.
PassOn ==
    /\ \/ auth = "Done" /\ sent < MaxSent /\ SendText /\ UNCHANGED auth
       \/ /\ auth = "KeyReceived" /\ Send(Packet("early"))
          /\ UNCHANGED <<auth, sent, lost>>
       \/ /\ auth \notin {"none", "closed"} /\ Close
    /\ UNCHANGED <<up, peer>>

\* The client's end has been closed.
PeerGone ==
    /\ auth \notin {"none", "closed"} /\ app = "gone" /\ up = <<>>
    /\ Close
    /\ UNCHANGED <<up, peer>>

-----------------------------------------------------------------------------
(* The client: reading.                                                    *)

Handshaking == {"HasntBegun", "SentCredentials", "SentPubKey"}

\* No thread holds what the reading thread needs.
MayRead == writing = <<>> \/ (app = "chatting" /\ program # "rust")

Gone == app' = "gone" /\ writing' = <<>>
Replies(p, state) == app' = state /\ writing' = Halves(p)

\* A half of the server's public key may do as a key, or make no key at all.
ReadPubKey(chunk) ==
    /\ app = "HasntBegun"
    /\ \/ /\ chunk = Halves(Packet("pubkey"))
          /\ Replies(Packet("credentials"), "SentCredentials")
       \/ /\ chunk # Halves(Packet("pubkey"))
          /\ Gone \/ Replies(Packet("unreadable"), "SentCredentials")
    /\ UNCHANGED shown

\* "spb": whatever arrives is not looked at.
ReadSpb(chunk) ==
    /\ app = "SentCredentials"
    /\ Replies(Packet("key"), "SentPubKey")
    /\ UNCHANGED shown

AesUnreadableIgnored == UNCHANGED <<app, writing>>
AesUnreadable == Gone
ReadAes(chunk) ==
    /\ app = "SentPubKey"
    /\ IF chunk = Halves(Packet("aes"))
       THEN app' = "chatting" /\ UNCHANGED writing
       ELSE AesUnreadable
    /\ UNCHANGED shown

\* A chunk that is not one packet cannot be decrypted: an exception ends the
\* C++ programs, a panic leaves the lock of the rust program poisoned.
UnreadableIgnored == UNCHANGED <<app, writing>>
Unreadable ==
    IF program = "rust" THEN app' = "poisoned" /\ UNCHANGED writing ELSE Gone
ReadText(chunk) ==
    /\ app = "chatting"
    /\ \/ \E i \in 1..sent :
             /\ chunk = Halves(Text(i))
             /\ shown' = Append(shown, i)
             /\ UNCHANGED <<app, writing>>
       \/ /\ \A i \in 1..sent : chunk # Halves(Text(i))
          /\ Unreadable
          /\ UNCHANGED shown

Read ==
    /\ MayRead
    /\ \E k \in 1..Len(down) :
          /\ \/ ReadPubKey(Chunk(down, k)) \/ ReadSpb(Chunk(down, k))
             \/ ReadAes(Chunk(down, k)) \/ ReadText(Chunk(down, k))
          /\ down' = Rest(down, k)
    /\ UNCHANGED <<program, up, typed, server>>

\* The connection has been closed and everything has been read.  In the
\* handshake the C++ programs do not look at that: they call handshake() again
\* and again.  After it the tester goes on reading, cpp exits.  The rust
\* program exits, or its user chooses to go on without a connection.
GoesOn ==
    \/ program = "rust" /\ app \in {"HasntBegun", "chatting"}
    \/ program = "tester" /\ app = "chatting"
Exits == program = "rust" \/ (program = "cpp" /\ app = "chatting")
ReadEnd ==
    /\ auth = "closed" /\ down = <<>> /\ MayRead
    /\ app \in Handshaking \cup {"chatting"}
    /\ \/ GoesOn /\ app' = "idle" /\ UNCHANGED writing
       \/ Exits /\ Gone
    /\ UNCHANGED <<program, up, down, typed, shown, server>>

-----------------------------------------------------------------------------
(* The client: writing.                                                    *)

\* The user issues a command, or chats.  In the rust program the poisoned lock
\* panics on the user's thread, and so does a write without a connection.
Issue ==
    /\ app \in {"chatting", "poisoned", "idle"} /\ writing = <<>>
    /\ typed < MaxTyped
    /\ IF app = "chatting" \/ program = "tester"
       THEN /\ \E t \in {"chat", "command"} : writing' = Halves(Packet(t))
            /\ UNCHANGED app
       ELSE Gone
    /\ typed' = typed + 1
    /\ UNCHANGED <<program, up, down, shown, server>>

Write ==
    /\ writing # <<>> /\ auth # "closed"
    /\ Len(up) < UpRoom
    /\ up' = Append(up, Head(writing))
    /\ writing' = Tail(writing)
    /\ UNCHANGED <<program, app, down, typed, shown, server>>

\* The C++ programs report the failure, the rust program panics.
WriteFails ==
    /\ writing # <<>> /\ auth = "closed"
    /\ IF program = "rust" THEN Gone ELSE writing' = <<>> /\ UNCHANGED app
    /\ UNCHANGED <<program, up, down, typed, shown, server>>

-----------------------------------------------------------------------------
Init ==
    /\ program \in {"cpp", "rust", "tester"}
    /\ auth = "none" /\ app = "HasntBegun"
    /\ up = <<>> /\ down = <<>> /\ writing = <<>> /\ shown = <<>>
    /\ typed = 0 /\ sent = 0 /\ lost = {}

Next ==
    \/ Accept \/ Receive \/ PassOn \/ PeerGone
    \/ Read \/ ReadEnd \/ Issue \/ Write \/ WriteFails

\* The server looks at the connection again and again, and the client's
\* threads run; users, and other clients, do as they please.
Fairness ==
    /\ WF_vars(Receive) /\ WF_vars(PeerGone)
    /\ WF_vars(Read) /\ WF_vars(ReadEnd)
    /\ WF_vars(Write) /\ WF_vars(WriteFails)

Spec == Init /\ [][Next]_vars /\ Fairness

-----------------------------------------------------------------------------
(* Correctness.                                                            *)

Types == {"pubkey", "credentials", "unreadable", "spb", "key", "aes", "aesTorn",
          "early", "chat", "command", "text"}
Answered == MaxSent + 2 * MaxTyped + 1
Half == [packet : [type : Types, id : 0..Answered], part : {1, 2}]

\* Every variable holds a value of its type, and the buffers hold no more than
\* they have room for.
TypeOK ==
    /\ program \in {"cpp", "rust", "tester"}
    /\ auth \in {"none", "Undone", "KeyReceived", "Done", "closed"}
    /\ app \in Handshaking \cup {"chatting", "poisoned", "idle", "gone"}
    /\ up \in Seq(Half) /\ Len(up) <= UpRoom
    /\ down \in Seq(Half) /\ Len(down) <= DownRoom
    /\ writing \in Seq(Half) /\ typed \in 0..MaxTyped
    /\ sent \in 0..Answered /\ lost \subseteq 1..sent /\ shown \in Seq(1..sent)

\* A program that still shows messages has missed none of those sent since
\* the handshake, but for those the server knew it could not send, and shows
\* them in their order: one that was torn or ran into another ends the
\* program's reading instead of leaving a gap.
Ends(stream) ==
    {i \in 1..Len(stream) : stream[i].packet.type = "text" /\ stream[i].part = 2}
Unbroken(stream, seen, texts) ==
    /\ {seen[i] : i \in 1..Len(seen)}
            \cup {stream[i].packet.id : i \in Ends(stream)} = texts
    /\ \A i, j \in 1..Len(seen) : i < j => seen[i] < seen[j]
    /\ \A i, j \in Ends(stream) :
            i < j => stream[i].packet.id < stream[j].packet.id
    /\ \A i \in 1..Len(seen), j \in Ends(stream) : seen[i] < stream[j].packet.id
NoGaps == app = "chatting" => Unbroken(down, shown, (1..sent) \ lost)

\* A user's thread is never stuck in a write: the server goes on reading
\* whatever the state of what it has to send.
WritesEnd == writing # <<>> ~> writing = <<>>

\* However packets are torn, glued and lost, nobody waits for the other end in
\* the handshake for ever: it succeeds, or the connection ends, which ends the
\* handshake of the rust program, and of the C++ programs is not looked at.
HandshakeEnds ==
    auth # "none" /\ app \in Handshaking
        ~> app \notin Handshaking \/ (auth = "closed" /\ program # "rust")

=============================================================================

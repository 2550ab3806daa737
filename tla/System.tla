------------------------------- MODULE System -------------------------------
(***************************************************************************)
(* The server and its clients over TCP.  Server says what the server does  *)
(* with what it receives, ClientProgram what the two client programs do;   *)
(* here the one receives what the other has sent, in order and in chunks   *)
(* of one or more packets.                                                 *)
(*                                                                         *)
(* Each packet arrives whole (MAX_RAW_DATA is larger than any), and none   *)
(* is lost while both ends live: the kernel's buffers never fill up.       *)
(***************************************************************************)
EXTENDS Server

CONSTANTS Rust, Text, NoList, MaxTexts

VARIABLES app, up, down, view, typed

Program == INSTANCE ClientProgram

channels == <<up, down>>
sysvars == <<vars, app, up, down, view, typed>>

\* What users type: a chat, a text of white space only, ".op" (rust), another
\* command, a direct message, a text of more than 256 characters or 511 words.
TextTypes == {"chat", "blank", "console", "command", "direct", "long"}

ASSUME RustAssumption == Rust \subseteq Client
ASSUME MaxTextsAssumption == MaxTexts \in Nat
ASSUME TextAssumption ==
    \A t \in Text : /\ t.type \in TextTypes
                    /\ t.type = "direct" => t.to \in Name

SInit == Init /\ Program!Init

-----------------------------------------------------------------------------
(* A step of the server, seen from the connections.                        *)

\* Connected and not yet accepted: a client is accepted even if it has left.
Connected(c) ==
    /\ conn[c] = "new"
    /\ \/ app[c] = "HasntBegun" /\ down[c] = <<>>
       \/ app[c] = "gone" /\ up[c] = <<Program!Fin>>

\* The connection ends for c: the server closes it, or the process ends while
\* it is still in the listener's backlog.
BacklogCut(c) == Connected(c) /\ running /\ ~running'
SocketLeftOpen(c) == BacklogCut(c)
CutOff(c) ==
    \/ BacklogCut(c)
    \/ conn[c] = "open" /\ conn'[c] = "closed"

\* What the server sends is on its way to the programs that still run, "rest"
\* is what has not been taken from the connections.
Deliver(rest) ==
    /\ up' = [c \in Client |->
                IF CutOff(c) \/ conn'[c] = "closed" THEN <<>> ELSE rest[c]]
    /\ down' = [c \in Client |->
                IF app[c] = "gone" THEN down[c]
                ELSE down[c] \o sent'[c] \o
                        (IF CutOff(c) THEN <<Program!Fin>> ELSE <<>>)]
    /\ UNCHANGED <<app, view, typed>>

\* What the server makes of one packet, by the status of the connection.
HandleCredentials(c) ==
    RefuseLogin(c) \/ Login(c) \/ KilledSaving(c) \/ LoginThrows(c)
HandleKey(c) == SendAesKey(c) \/ RefuseKey(c)
HandleText(c, t) ==
    \/ t.type \in {"chat", "long"} /\ Message(c)
    \/ t.type = "blank" /\ BlankMessage(c)
    \/ t.type = "console" /\ RequestConsole(c)
    \/ t.type \in {"command", "long"} /\ Command(c)
    \/ t.type = "direct" /\ Msg(c, t.to)
    \/ t.type = "long" /\ OverlongMessage(c)

Handle(c, packet) ==
    \/ packet.type = "fin" /\ PeerGone(c)
    \/ packet.type = "credentials" /\ HandleCredentials(c)
    \/ packet.type = "key" /\ HandleKey(c)
    \/ packet.type \in TextTypes /\ HandleText(c, packet)

Texts(c) == {i \in 1..Len(up[c]) : up[c][i].type \in TextTypes}

\* receive(): one packet, or several texts that cannot be decrypted as one.
Serve(c) ==
    /\ up[c] # <<>>
    /\ \/ /\ Handle(c, Head(up[c]))
          /\ Deliver([up EXCEPT ![c] = Tail(@)])
       \/ \E k \in Texts(c) \ {1} :
             /\ 1..k \subseteq Texts(c)
             /\ Undecryptable(c)
             /\ Deliver([up EXCEPT ![c] = SubSeq(@, k + 1, Len(@))])

Admit(c) == Connected(c) /\ Accept(c) /\ Deliver(up)

Operate == (AcceptFails \/ Killed \/ Start) /\ Deliver(up)

\* A program's step leaves the server alone.
Dial(c) == IF running THEN Program!Connect(c) ELSE Program!ConnectRefused(c)
Use(c) == (Dial(c) \/ Program!User(c)) /\ UNCHANGED vars
Run(c) == Program!Read(c) /\ UNCHANGED vars

SNext ==
    \/ \E c \in Client : Admit(c) \/ Serve(c) \/ Use(c) \/ Run(c)
    \/ Operate

\* The server looks at every connection again and again (Served in module
\* SlotTable), and a client's reading thread is always scheduled again.
\* Users, and the arrival of connections, are left alone.
Fairness ==
    \A c \in Client : WF_sysvars(Serve(c)) /\ WF_sysvars(Run(c))

SSpec == SInit /\ [][SNext]_sysvars /\ Fairness

-----------------------------------------------------------------------------
(* Correctness.                                                            *)

\* What clients send.
Upward == Text \cup {Program!Fin, Program!CredentialsSent, Program!KeySent}
UpOK == up \in [Client -> Seq(Upward)]

\* The server's variables have their types, and what is on its way is what
\* server and clients send.
SystemTypeOK ==
    /\ TypeOK
    /\ app \in [Client -> Program!State]
    /\ UpOK
    /\ down \in [Client -> Seq(Packet \cup {Program!Fin})]
    /\ view \in [Client -> (SUBSET Name) \cup {NoList}]
    /\ typed \in 0..MaxTexts

\* The two ends of an open connection agree on how far the handshake has
\* come: the client is at most one packet ahead or behind, and what it waits
\* for, or has sent, is on its way.
Agreed(c) ==
    \/ /\ auth[c] = "Undone"
       /\ \/ app[c] = "HasntBegun" /\ down[c] = <<PubKeyPacket>>
          \/ app[c] = "SentCredentials" /\ up[c] = <<Program!CredentialsSent>>
    \/ /\ auth[c] = "KeyReceived"
       /\ \/ /\ app[c] = "SentCredentials"
             /\ down[c] # <<>> /\ Head(down[c]) = SpbPacket
          \/ app[c] = "SentPubKey" /\ up[c] = <<Program!KeySent>>
    \/ /\ auth[c] = "Done"
       /\ \/ /\ app[c] = "SentPubKey"
             /\ \E i \in 1..Len(down[c]) : down[c][i] = AesPacket(c)
          \/ app[c] \in {"chatting", "deaf", "poisoned"}
InStep ==
    \A c \in Open : app[c] # "gone" => Agreed(c)

\* The list of users a client shows is the server's, but for the lists that
\* are still on their way; a client that was told nothing since its handshake
\* shows none.
IsList(packet) == packet.type \in {"join", "leave"}
NoLists(seq) == \A i \in 1..Len(seq) : ~IsList(seq[i])
LastList(seq, list) ==
    \E i \in 1..Len(seq) :
        /\ IsList(seq[i]) /\ seq[i].list = list
        /\ \A j \in (i + 1)..Len(seq) : ~IsList(seq[j])
Current(c) ==
    \/ NoLists(down[c]) /\ view[c] \in {NoList, Names(Open)}
    \/ LastList(down[c], Names(Open))
RosterCurrent == \A c \in Done : app[c] = "chatting" => Current(c)

\* Neither end waits for the other for ever: the handshake of a client that
\* was accepted succeeds, or its program or the connection ends.
HandshakeResolves ==
    \A c \in Client : []<>~(c \in Open /\ app[c] \in Program!Handshaking)

\* A closed connection does not leave a reading thread at work on it: what was
\* sent before does not keep the end of it away, whichever side and whichever
\* thread failed.  The thread ends the program, asks its user, or (rust) has
\* panicked, which its user is not told.  The C++ program is not said to leave
\* its handshake: it never looks at the end of the connection there.
StillReading(c) ==
    /\ conn[c] = "closed"
    /\ app[c] \in {"chatting"} \cup (IF c \in Rust THEN Program!Handshaking ELSE {})
CloseEndsReading == \A c \in Client : []<>~StillReading(c)

\* specs/handshake.md: "Client decrypts the ciphertext which is the AES key
\* with their private key".  Whatever chunk a client may read at that point
\* is the AES key, encrypted for this client.
AesKeyDecrypted ==
    \A c \in Open : app[c] = "SentPubKey" =>
        \A k \in Program!Packets(c) : Program!IsAesKey(c, k)

=============================================================================

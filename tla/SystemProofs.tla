---------------------------- MODULE SystemProofs ----------------------------
(***************************************************************************)
(* The server of module System, whose input comes from the client programs *)
(* over TCP, does what module Server says of arbitrary input: all that     *)
(* ServerProofs proves holds of it.                                        *)
(***************************************************************************)
EXTENDS System, ServerProofs, SequenceTheorems

-----------------------------------------------------------------------------
(* What is on its way to the server is what clients send.                  *)

LEMMA DeliverKeepsUp ==
    ASSUME NEW rest \in [Client -> Seq(Upward)], Deliver(rest)
    PROVE  UpOK'
  BY DEF Deliver, UpOK

LEMMA SendKeepsUp ==
    ASSUME UpOK, NEW c \in Client, NEW packet \in Upward,
           Program!Sends(c, packet)
    PROVE  UpOK'
  BY DEF UpOK, Program!Sends

LEMMA EndKeepsUp ==
    ASSUME UpOK, NEW c \in Client, Program!Ends(c)
    PROVE  UpOK'
  <1>1. Program!Fin \in Upward
    BY DEF Upward
  <1>2. CASE Program!Closed(c)
    BY <1>2 DEF Program!Ends, UpOK
  <1>3. CASE ~Program!Closed(c)
    BY <1>1, <1>3, SendKeepsUp DEF Program!Ends
  <1> QED
    BY <1>2, <1>3

\* A step of a client program.
LEMMA ProgramKeepsUp ==
    ASSUME UpOK, NEW c \in Client, Use(c) \/ Run(c)
    PROVE  UpOK'
  <1>1. CASE Dial(c)
    BY <1>1 DEF Dial, Program!Connect, Program!ConnectRefused, UpOK
  <1>2. ASSUME NEW t \in Text, Program!SendText(c, t)
        PROVE  UpOK'
    BY <1>2, SendKeepsUp DEF Program!SendText, Upward
  <1>3. CASE Program!Quit(c)
    BY <1>3, EndKeepsUp DEF Program!Quit
  <1>4. CASE Program!SendCredentials(c)
    BY <1>4, SendKeepsUp DEF Program!SendCredentials, Upward
  <1>5. CASE Program!SendPubKey(c)
    BY <1>5, SendKeepsUp DEF Program!SendPubKey, Upward
  <1>6. CASE Program!ReceiveAesKey(c) \/ Program!Show(c)
    BY <1>6 DEF Program!ReceiveAesKey, Program!Show, UpOK
  <1>7. CASE Program!FailToDecrypt(c) \/ Program!SendPanics(c)
    BY <1>7, EndKeepsUp DEF Program!FailToDecrypt, Program!SendPanics
  <1>8. CASE Program!KickedInHandshake(c) \/ Program!KickedLater(c)
    BY <1>8, EndKeepsUp DEF Program!KickedInHandshake, Program!KickedLater, UpOK
  <1>9. CASE Program!FailToShow(c)
    BY <1>9, EndKeepsUp DEF Program!FailToShow, UpOK
  <1> QED
    BY <1>1, <1>2, <1>3, <1>4, <1>5, <1>6, <1>7, <1>8, <1>9
    DEF Use, Run, Program!User, Program!Read

-----------------------------------------------------------------------------
(* A step of the server is a step of module Server.                        *)

\* A packet is handled by a step of receive(), whatever it is.
LEMMA HandleReceives ==
    ASSUME NEW c \in Client, NEW packet \in Upward, Handle(c, packet)
    PROVE  Receive(c)
  <1>1. packet.type = "direct" => packet.to \in Name
    BY TextAssumption DEF Upward, Program!Fin, Program!CredentialsSent,
                          Program!KeySent
  <1> QED
    BY <1>1 DEF Handle, HandleCredentials, HandleKey, HandleText, TextTypes,
                Receive

LEMMA ServeReceives ==
    ASSUME UpOK, NEW c \in Client, Serve(c)
    PROVE  UpOK' /\ Receive(c)
  <1>1. up[c] # <<>> /\ up[c] \in Seq(Upward)
    BY DEF UpOK, Serve
  <1>2. CASE Handle(c, Head(up[c])) /\ Deliver([up EXCEPT ![c] = Tail(@)])
    <2>1. Head(up[c]) \in Upward
      BY <1>1
    <2>2. [up EXCEPT ![c] = Tail(@)] \in [Client -> Seq(Upward)]
      BY <1>1 DEF UpOK
    <2> QED
      BY <1>2, <2>1, <2>2, HandleReceives, DeliverKeepsUp
  <1>3. ASSUME NEW k \in Texts(c) \ {1}, Undecryptable(c),
               Deliver([up EXCEPT ![c] = SubSeq(@, k + 1, Len(@))])
        PROVE  UpOK' /\ Receive(c)
    <2>1. k \in 1..Len(up[c])
      BY DEF Texts
    <2>2. SubSeq(up[c], k + 1, Len(up[c])) \in Seq(Upward)
      BY <1>1, <2>1
    <2>3. [up EXCEPT ![c] = SubSeq(@, k + 1, Len(@))] \in [Client -> Seq(Upward)]
      BY <2>2 DEF UpOK
    <2> QED
      BY <1>3, <2>3, DeliverKeepsUp DEF Receive
  <1> QED
    BY <1>2, <1>3 DEF Serve

LEMMA SystemStep ==
    ASSUME UpOK, [SNext]_sysvars
    PROVE  UpOK' /\ [Next]_vars
  <1>1. ASSUME NEW c \in Client, Admit(c)
        PROVE  UpOK' /\ Next
    BY <1>1, DeliverKeepsUp DEF Admit, Next, UpOK
  <1>2. ASSUME NEW c \in Client, Serve(c)
        PROVE  UpOK' /\ Next
    BY <1>2, ServeReceives DEF Next
  <1>3. ASSUME NEW c \in Client, Use(c) \/ Run(c)
        PROVE  UpOK' /\ UNCHANGED vars
    BY <1>3, ProgramKeepsUp DEF Use, Run
  <1>4. CASE Operate
    BY <1>4, DeliverKeepsUp DEF Operate, Next, UpOK
  <1>5. CASE UNCHANGED sysvars
    BY <1>5 DEF sysvars, UpOK
  <1> QED
    BY <1>1, <1>2, <1>3, <1>4, <1>5 DEF SNext

\* Whatever the programs send, in whatever order, and however it is split
\* into chunks, the server takes only the steps of module Server.
THEOREM SystemImplementsServer == SSpec => Spec
  <1>1. SInit => Init /\ UpOK
    <2>1. <<>> \in Seq(Upward)
      OBVIOUS
    <2> QED
      BY <2>1 DEF SInit, Program!Init, UpOK
  <1>2. UpOK /\ [SNext]_sysvars => UpOK' /\ [Next]_vars
    BY SystemStep
  <1> QED
    BY <1>1, <1>2, PTL DEF SSpec, Spec

\* So, with the client programs at the other end, no two open connections
\* hold the same alias, whoever is past the Undone status has shown the
\* password on file, and a client's key is not left for another connection.
THEOREM SystemSafe ==
    SSpec => [](NamesUnique /\ AdmittedByPassword /\ KeysOwned)
  BY SystemImplementsServer, AliasesUnique, Admission, KeyOwnership, PTL

\* ... and the AES key leaves it under the key of the client it is sent to.
THEOREM SystemProtectsAes == SSpec => AesUnderOwnKey
  BY SystemImplementsServer, AesProtected

-----------------------------------------------------------------------------
(* Type correctness.                                                       *)

Downward == Packet \cup {Program!Fin}

\* What the programs and the connections to them hold.
EndsOK ==
    /\ app \in [Client -> Program!State]
    /\ down \in [Client -> Seq(Downward)]
    /\ view \in [Client -> (SUBSET Name) \cup {NoList}]
    /\ typed \in 0..MaxTexts

LEMMA DeliverKeepsEnds ==
    ASSUME EndsOK, NEW rest, Deliver(rest), sent' \in [Client -> Seq(Packet)]
    PROVE  EndsOK'
  <1>1. ASSUME NEW c \in Client
        PROVE  /\ down[c] \in Seq(Downward)
               /\ down[c] \o sent'[c] \o <<Program!Fin>> \in Seq(Downward)
               /\ down[c] \o sent'[c] \o <<>> \in Seq(Downward)
    <2>1. down[c] \in Seq(Downward) /\ sent'[c] \in Seq(Downward)
      BY DEF EndsOK, Downward
    <2>2. <<Program!Fin>> \in Seq(Downward) /\ <<>> \in Seq(Downward)
      BY DEF Downward
    <2> QED
      BY <2>1, <2>2
  <1>2. down' \in [Client -> Seq(Downward)]
    BY <1>1 DEF Deliver
  <1> QED
    BY <1>2 DEF Deliver, EndsOK

LEMMA ProgramStates ==
    /\ Program!Handshaking \subseteq Program!State
    /\ {"off", "chatting", "deaf", "poisoned", "idle", "gone"}
            \subseteq Program!State
    /\ {"HasntBegun", "SentCredentials", "SentPubKey"} = Program!Handshaking
  BY DEF Program!State, Program!Handshaking

\* A chunk of k packets has been read.
LEMMA ReadKeepsDown ==
    ASSUME EndsOK, NEW c \in Client, NEW k, Program!Reads(c, k)
    PROVE  /\ k \in 1..Len(down[c])
           /\ down' \in [Client -> Seq(Downward)]
           /\ down' = [down EXCEPT ![c] = SubSeq(down[c], k + 1, Len(down[c]))]
  <1>1. down[c] \in Seq(Downward)
    BY DEF EndsOK
  <1>2. k \in 1..Len(down[c])
    BY DEF Program!Reads, Program!Packets
  <1>3. SubSeq(down[c], k + 1, Len(down[c])) \in Seq(Downward)
    BY <1>1, <1>2
  <1> QED
    BY <1>2, <1>3 DEF Program!Reads, EndsOK

LEMMA EndKeepsEnds ==
    ASSUME EndsOK, NEW c \in Client, Program!Ends(c)
    PROVE  EndsOK'
  BY ProgramStates DEF EndsOK, Program!Ends, Program!Becomes

LEMMA ProgramKeepsEnds ==
    ASSUME EndsOK, NEW c \in Client, Use(c) \/ Run(c)
    PROVE  EndsOK'
  <1> USE ProgramStates DEF Program!Becomes
  <1>1. CASE Dial(c)
    <2>1. <<Program!Fin>> \in Seq(Downward)
      BY DEF Downward
    <2> QED
      BY <1>1, <2>1 DEF Dial, Program!Connect, Program!ConnectRefused, EndsOK
  <1>2. ASSUME NEW t \in Text, Program!SendText(c, t)
        PROVE  EndsOK'
    BY <1>2, MaxTextsAssumption DEF Program!SendText, EndsOK
  <1>3. CASE Program!Quit(c) \/ Program!FailToDecrypt(c) \/ Program!SendPanics(c)
    BY <1>3, EndKeepsEnds
    DEF Program!Quit, Program!FailToDecrypt, Program!SendPanics
  <1>4. CASE Program!SendCredentials(c) \/ Program!SendPubKey(c)
    BY <1>4, ReadKeepsDown
    DEF Program!SendCredentials, Program!SendPubKey, EndsOK
  <1>5. CASE Program!ReceiveAesKey(c)
    BY <1>5, ReadKeepsDown DEF Program!ReceiveAesKey, EndsOK
  <1>6. CASE Program!Show(c)
    <2>1. 1 \in 1..Len(down[c]) /\ down[c][1] # Program!Fin
      BY <1>6 DEF Program!Show, Program!Packets
    <2>2. down[c][1] \in Packet
      BY <2>1 DEF EndsOK, Downward
    <2>3. down[c][1].type \in {"join", "leave"} => down[c][1].list \in SUBSET Name
      BY <2>2 DEF Packet
    <2>4. view[c] \in (SUBSET Name) \cup {NoList}
      BY DEF EndsOK
    <2>5. Program!Shown(c, down[c][1]) \in (SUBSET Name) \cup {NoList}
      BY <2>3, <2>4 DEF Program!Shown
    <2>6. view' \in [Client -> (SUBSET Name) \cup {NoList}]
      BY <1>6, <2>5 DEF Program!Show, EndsOK
    <2> QED
      BY <1>6, <2>6, ReadKeepsDown DEF Program!Show, EndsOK
  <1>7. CASE Program!FailToShow(c)
    <2>1. CASE Program!Ends(c)
      BY <2>1, EndKeepsEnds
    <2>2. CASE ~Program!Ends(c)
      <3>1. PICK k : /\ Program!Reads(c, k)
                     /\ Program!Becomes(c, IF k = 1 THEN "deaf" ELSE "poisoned")
                     /\ UNCHANGED <<view, typed>>
        BY <1>7, <2>2 DEF Program!FailToShow
      <3>2. (IF k = 1 THEN "deaf" ELSE "poisoned") \in Program!State
        OBVIOUS
      <3>3. down' \in [Client -> Seq(Downward)]
        BY <3>1, ReadKeepsDown
      <3> QED
        BY <3>1, <3>2, <3>3 DEF EndsOK
    <2> QED
      BY <2>1, <2>2
  <1>8. CASE Program!KickedInHandshake(c) \/ Program!KickedLater(c)
    BY <1>8, EndKeepsEnds
    DEF Program!KickedInHandshake, Program!KickedLater, EndsOK
  <1> QED
    BY <1>1, <1>2, <1>3, <1>4, <1>5, <1>6, <1>7, <1>8
    DEF Use, Run, Program!User, Program!Read

LEMMA EndsStep ==
    ASSUME EndsOK, [SNext]_sysvars, sent' \in [Client -> Seq(Packet)]
    PROVE  EndsOK'
  <1>1. ASSUME NEW c \in Client, Admit(c)
        PROVE  EndsOK'
    BY <1>1, DeliverKeepsEnds DEF Admit
  <1>2. ASSUME NEW c \in Client, Serve(c)
        PROVE  EndsOK'
    BY <1>2, DeliverKeepsEnds DEF Serve
  <1>3. ASSUME NEW c \in Client, Use(c) \/ Run(c)
        PROVE  EndsOK'
    BY <1>3, ProgramKeepsEnds
  <1>4. CASE Operate
    BY <1>4, DeliverKeepsEnds DEF Operate
  <1>5. CASE UNCHANGED sysvars
    BY <1>5 DEF sysvars, EndsOK
  <1> QED
    BY <1>1, <1>2, <1>3, <1>4, <1>5 DEF SNext

\* The invariants of module Server and the types of everything else.
SysTypes == IInv /\ UpOK /\ EndsOK

LEMMA SysTypesInit == SInit => SysTypes
  <1> SUFFICES ASSUME SInit
               PROVE  SysTypes
    OBVIOUS
  <1>1. <<>> \in Seq(Upward) /\ <<>> \in Seq(Downward)
    OBVIOUS
  <1> QED
    BY <1>1, IInit, ProgramStates, MaxTextsAssumption
    DEF SInit, Program!Init, SysTypes, UpOK, EndsOK

LEMMA SysTypesStep == SysTypes /\ [SNext]_sysvars => SysTypes'
  <1> SUFFICES ASSUME SysTypes, [SNext]_sysvars
               PROVE  SysTypes'
    OBVIOUS
  <1>1. UpOK' /\ [Next]_vars
    BY SystemStep DEF SysTypes
  <1>2. IInv'
    BY <1>1, INext DEF SysTypes
  <1>3. sent' \in [Client -> Seq(Packet)]
    BY <1>2 DEF IInv, TypeOK
  <1> QED
    BY <1>1, <1>2, <1>3, EndsStep DEF SysTypes

\* The server's variables always have their types, and what is on its way
\* between it and its clients is what they send: whatever users type, whoever
\* fails, however the bytes are split.
THEOREM SystemTypes == SSpec => []SystemTypeOK
  <1>1. SysTypes => SystemTypeOK
    BY DEF SysTypes, IInv, EndsOK, Downward, SystemTypeOK
  <1> QED
    BY <1>1, SysTypesInit, SysTypesStep, PTL DEF SSpec

-----------------------------------------------------------------------------
(* The two ends of a connection.  InStep is not inductive: what is on its  *)
(* way in one direction must be known where it speaks of the other, and of *)
(* connections that are still in the listener's backlog.                   *)

\* What is on its way to a client before the AES key is.
Plain(seq) ==
    \A i \in 1..Len(seq) : seq[i].type \notin {"aes", "fin", "join", "leave"}
\* The connection has not ended; it has, and nothing else was sent.
Alive(seq) == \A i \in 1..Len(seq) : seq[i].type # "fin"
Over(seq) == \A i \in 1..Len(seq) : seq[i].type = "fin"

\* Not yet accepted: the client has sent nothing and reads at most the end of
\* the connection.
Fresh(c) ==
    /\ app[c] \in {"off", "HasntBegun", "idle"}
    /\ up[c] = <<>>
    /\ Over(down[c])

\* Its status is Undone, KeyReceived, Done.
Awaiting(c) ==
    \/ app[c] = "HasntBegun" /\ down[c] = <<PubKeyPacket>> /\ up[c] = <<>>
    \/ /\ app[c] = "SentCredentials"
       /\ down[c] = <<>> /\ up[c] = <<Program!CredentialsSent>>
Exchanging(c) ==
    /\ Plain(down[c])
    /\ \/ /\ app[c] = "SentCredentials" /\ up[c] = <<>>
          /\ down[c] # <<>> /\ down[c][1] = SpbPacket
       \/ app[c] = "SentPubKey" /\ up[c] = <<Program!KeySent>>
Talking(c) ==
    /\ Alive(down[c])
    /\ \/ /\ app[c] = "SentPubKey" /\ up[c] = <<>>
          /\ \E i \in 1..Len(down[c]) : down[c][i] = AesPacket(c)
       \/ app[c] \in {"chatting", "deaf", "poisoned"} /\ up[c] \in Seq(Text)

Linked(c) ==
    app[c] # "gone" =>
        /\ conn[c] = "new" => Fresh(c)
        /\ conn[c] = "open" =>
              /\ auth[c] = "Undone" => Awaiting(c)
              /\ auth[c] = "KeyReceived" => Exchanging(c)
              /\ auth[c] = "Done" => Talking(c)

\* No list is shown during the handshake, and none goes out to a client that
\* is not Done; after that, RosterCurrent, from the moment the AES key is sent.
Unshown(c) == app[c] \in Program!Handshaking \cup {"off"} => view[c] = NoList
Shows(c) == c \in Done /\ app[c] \in {"SentPubKey", "chatting"} => Current(c)

Linkage == \A c \in Client : Linked(c) /\ Unshown(c) /\ Shows(c)

-----------------------------------------------------------------------------
(* Lists on their way.                                                     *)

LEMMA ConcatLists ==
    ASSUME NEW S, NEW s \in Seq(S), NEW t \in Seq(S), NEW list
    PROVE  /\ NoLists(s) /\ NoLists(t) => NoLists(s \o t)
           /\ LastList(s, list) /\ NoLists(t) => LastList(s \o t, list)
           /\ LastList(t, list) => LastList(s \o t, list)
  <1>1. /\ Len(s) \in Nat /\ Len(t) \in Nat /\ Len(s \o t) = Len(s) + Len(t)
        /\ \A i \in 1..Len(s) : (s \o t)[i] = s[i]
        /\ \A i \in (Len(s) + 1)..(Len(s) + Len(t)) : (s \o t)[i] = t[i - Len(s)]
    OBVIOUS
  <1>2. ASSUME NoLists(s), NoLists(t)
        PROVE  NoLists(s \o t)
    <2> SUFFICES ASSUME NEW i \in 1..(Len(s) + Len(t))
                 PROVE  ~IsList((s \o t)[i])
      BY <1>1 DEF NoLists
    <2>1. CASE i <= Len(s)
      BY <1>1, <1>2, <2>1 DEF NoLists
    <2>2. CASE i > Len(s)
      <3>1. i - Len(s) \in 1..Len(t)
        BY <1>1, <2>2
      <3> QED
        BY <1>1, <1>2, <2>2, <3>1 DEF NoLists
    <2> QED
      BY <1>1, <2>1, <2>2
  <1>3. ASSUME LastList(s, list), NoLists(t)
        PROVE  LastList(s \o t, list)
    <2>1. PICK i \in 1..Len(s) :
              /\ IsList(s[i]) /\ s[i].list = list
              /\ \A j \in (i + 1)..Len(s) : ~IsList(s[j])
      BY <1>3 DEF LastList
    <2>2. ASSUME NEW j \in (i + 1)..(Len(s) + Len(t))
          PROVE  ~IsList((s \o t)[j])
      <3>1. CASE j <= Len(s)
        BY <1>1, <2>1, <3>1
      <3>2. CASE j > Len(s)
        <4>1. j - Len(s) \in 1..Len(t)
          BY <1>1, <3>2
        <4> QED
          BY <1>1, <1>3, <3>2, <4>1 DEF NoLists
      <3> QED
        BY <1>1, <3>1, <3>2
    <2>3. i \in 1..Len(s \o t) /\ (s \o t)[i] = s[i]
      BY <1>1
    <2> QED
      BY <1>1, <2>1, <2>2, <2>3 DEF LastList
  <1>4. ASSUME LastList(t, list)
        PROVE  LastList(s \o t, list)
    <2>1. PICK i \in 1..Len(t) :
              /\ IsList(t[i]) /\ t[i].list = list
              /\ \A j \in (i + 1)..Len(t) : ~IsList(t[j])
      BY <1>4 DEF LastList
    <2>2. ASSUME NEW j \in (Len(s) + i + 1)..(Len(s) + Len(t))
          PROVE  ~IsList((s \o t)[j])
      <3>1. j - Len(s) \in (i + 1)..Len(t)
        BY <1>1
      <3> QED
        BY <1>1, <2>1, <3>1
    <2>3. Len(s) + i \in 1..Len(s \o t) /\ (s \o t)[Len(s) + i] = t[i]
      BY <1>1
    <2> QED
      BY <1>1, <2>1, <2>2, <2>3 DEF LastList
  <1> QED
    BY <1>2, <1>3, <1>4

\* The first packet is taken off.
LEMMA TailLists ==
    ASSUME NEW S, NEW s \in Seq(S), 1 \in 1..Len(s), NEW list
    PROVE  LET tail == SubSeq(s, 2, Len(s))
           IN  /\ NoLists(s) => NoLists(tail) /\ ~IsList(s[1])
               /\ LastList(s, list) =>
                     \/ LastList(tail, list)
                     \/ NoLists(tail) /\ IsList(s[1]) /\ s[1].list = list
  <1> DEFINE tail == SubSeq(s, 2, Len(s))
  <1>1. /\ Len(s) \in Nat /\ Len(tail) = Len(s) - 1
        /\ \A i \in 1..(Len(s) - 1) : tail[i] = s[i + 1]
    <2>1. Len(s) \in Nat /\ Len(s) >= 1
      OBVIOUS
    <2>2. \A i \in 2..Len(s) : s[i] \in S
      BY <2>1
    <2>3. Len(tail) = IF 2 <= Len(s) THEN Len(s) - 2 + 1 ELSE 0
      BY <2>1, <2>2, SubSeqProperties
    <2>4. \A i \in 1..(Len(s) - 2 + 1) : tail[i] = s[2 + i - 1]
      BY <2>1, <2>2, SubSeqProperties
    <2> HIDE DEF tail
    <2>5. Len(tail) = Len(s) - 1
      <3>1. PICK n \in Nat : n = Len(s)
        BY <2>1
      <3> QED
        BY <2>1, <2>3, <3>1
    <2>6. ASSUME NEW i \in 1..(Len(s) - 1)
          PROVE  tail[i] = s[i + 1]
      <3>1. i \in 1..(Len(s) - 2 + 1) /\ 2 + i - 1 = i + 1
        BY <2>1
      <3> QED
        BY <2>4, <3>1
    <2> QED
      BY <2>1, <2>5, <2>6
  <1> HIDE DEF tail
  <1>2. ASSUME NoLists(s)
        PROVE  NoLists(tail) /\ ~IsList(s[1])
    BY <1>1, <1>2 DEF NoLists
  <1>3. ASSUME LastList(s, list)
        PROVE  \/ LastList(tail, list)
               \/ NoLists(tail) /\ IsList(s[1]) /\ s[1].list = list
    <2>1. PICK i \in 1..Len(s) :
              /\ IsList(s[i]) /\ s[i].list = list
              /\ \A j \in (i + 1)..Len(s) : ~IsList(s[j])
      BY <1>3 DEF LastList
    <2>2. ASSUME NEW j \in i..Len(tail)
          PROVE  ~IsList(tail[j])
      BY <1>1, <2>1
    <2>3. CASE i = 1
      BY <2>1, <2>2, <2>3 DEF NoLists
    <2>4. CASE i # 1
      <3>1. i - 1 \in 1..Len(tail) /\ tail[i - 1] = s[i]
        BY <1>1, <2>4
      <3>2. \A j \in ((i - 1) + 1)..Len(tail) : ~IsList(tail[j])
        BY <2>2
      <3> QED
        BY <2>1, <3>1, <3>2 DEF LastList
    <2> QED
      BY <2>3, <2>4
  <1> QED
    BY <1>2, <1>3 DEF tail

\* One packet, or a list and a notice.
LEMMA ShortLists ==
    ASSUME NEW m, NEW n
    PROVE  /\ NoLists(<<>>)
           /\ ~IsList(m) => NoLists(<<m>>)
           /\ IsList(m) => LastList(<<m>>, m.list)
           /\ IsList(m) /\ ~IsList(n) => LastList(<<m, n>>, m.list)
  <1>1. NoLists(<<>>)
    BY DEF NoLists
  <1>2. Len(<<m>>) = 1 /\ <<m>>[1] = m /\ Len(<<m, n>>) = 2
            /\ <<m, n>>[1] = m /\ <<m, n>>[2] = n
    OBVIOUS
  <1>3. ~IsList(m) => NoLists(<<m>>)
    BY <1>2 DEF NoLists
  <1>4. IsList(m) => LastList(<<m>>, m.list)
    BY <1>2 DEF LastList
  <1>5. IsList(m) /\ ~IsList(n) => LastList(<<m, n>>, m.list)
    <2>1. \A j \in 2..2 : j = 2
      OBVIOUS
    <2> QED
      BY <1>2, <2>1 DEF LastList
  <1> QED
    BY <1>1, <1>3, <1>4, <1>5

-----------------------------------------------------------------------------
(* What the server does when it has received something.                    *)

\* c's packets have been taken from the connection, up to "rest".
Taken(c, rest) ==
    /\ rest \in [Client -> Seq(Upward)]
    /\ \A d \in Client \ {c} : rest[d] = up[d]
    /\ Deliver(rest)

\* One packet, which is no list of users, to some of those who have an alias.
TalkTypes == {"notice", "chat", "direct", "empty"}
Hears(d) ==
    \/ sent'[d] = <<>>
    \/ /\ d \in Open /\ auth[d] # "Undone"
       /\ \E m : m.type \in TalkTypes /\ sent'[d] = <<m>>
Talks(c) ==
    /\ c \in Done
    /\ UNCHANGED <<running, conn, name, auth>>
    /\ \A d \in Client : Hears(d)

LEMMA TalkSent ==
    ASSUME IInv, NEW c \in Done, UNCHANGED <<running, conn, name, auth>>,
           \/ sent' = ToOnly(c, Notice)
           \/ \E m : m.type \in TalkTypes /\ sent' = ToAudience(c, <<m>>)
           \/ \E n \in Name : sent' = [d \in Client |->
                    IF d \in Open /\ name[d] = n THEN <<Direct(name[c])>> ELSE <<>>]
    PROVE  Talks(c)
  <1> SUFFICES ASSUME NEW d \in Client
               PROVE  Hears(d)
    BY DEF Talks
  <1>1. c \in Open /\ auth[c] = "Done"
    BY DEF Done
  <1>2. CASE sent' = ToOnly(c, Notice)
    BY <1>1, <1>2 DEF Hears, ToOnly, Notice, TalkTypes
  <1>3. ASSUME NEW m, m.type \in TalkTypes, sent' = ToAudience(c, <<m>>)
        PROVE  Hears(d)
    BY <1>3 DEF Hears, ToAudience, Audience, Done
  <1>4. ASSUME NEW n \in Name,
               sent' = [x \in Client |-> IF x \in Open /\ name[x] = n
                                         THEN <<Direct(name[c])>> ELSE <<>>]
        PROVE  Hears(d)
    <2>1. CASE d \in Open /\ name[d] = n
      <3>1. auth[d] # "Undone"
        BY <2>1, ConstantsAssumption DEF IInv, Rows, NamedWhenAdmitted
      <3> QED
        BY <1>4, <2>1, <3>1 DEF Hears, Direct, TalkTypes
    <2>2. CASE ~(d \in Open /\ name[d] = n)
      BY <1>4, <2>2 DEF Hears
    <2> QED
      BY <2>1, <2>2
  <1> QED
    BY <1>2, <1>3, <1>4

\* What becomes of the server, and of the texts that have not been read.
Served(c, rest) ==
    \/ running /\ Stops
    \/ running /\ c \in Open /\ \E last \in Seq(Packet) : DropRow(c, last)
    \/ Login(c) /\ rest[c] = Tail(up[c])
    \/ SendAesKey(c) /\ rest[c] = Tail(up[c])
    \/ Talks(c) /\ (up[c] \in Seq(Text) => rest[c] \in Seq(Text))

LEMMA HandleServes ==
    ASSUME IInv, NEW c \in Client, NEW packet \in Upward, Handle(c, packet)
    PROVE  \/ running /\ Stops
           \/ running /\ c \in Open /\ \E last \in Seq(Packet) : DropRow(c, last)
           \/ Login(c)
           \/ SendAesKey(c)
           \/ Talks(c)
  <1>1. <<>> \in Seq(Packet) /\ <<Notice>> \in Seq(Packet)
    BY PacketTypes
  <1>2. CASE PeerGone(c) \/ RefuseLogin(c) \/ RefuseKey(c) \/ BlankMessage(c)
    BY <1>1, <1>2 DEF PeerGone, RefuseLogin, RefuseKey, BlankMessage, Serving,
                      Disconnect
  <1>3. CASE KilledSaving(c) \/ LoginThrows(c) \/ OverlongMessage(c)
    BY <1>3, EndsStop DEF IInv, KilledSaving, LoginThrows, OverlongMessage, Serving
  <1>4. CASE Login(c) \/ SendAesKey(c)
    BY <1>4
  <1>5. CASE Command(c)
    BY <1>5, TalkSent DEF Command, Serving, Done
  <1>6. CASE Message(c)
    <2>1. Chat(name[c]).type \in TalkTypes
      BY DEF Chat, TalkTypes
    <2> QED
      BY <1>6, <2>1, TalkSent DEF Message, Serving, Done
  <1>7. CASE RequestConsole(c)
    <2>1. EmptyPacket.type \in TalkTypes
      BY DEF EmptyPacket, TalkTypes
    <2> QED
      BY <1>7, <2>1, TalkSent DEF RequestConsole, Serving, Done
  <1>8. ASSUME NEW n \in Name, Msg(c, n)
        PROVE  Talks(c)
    BY <1>8, TalkSent DEF Msg, Serving, Done
  <1>9. packet.type = "direct" => packet.to \in Name
    BY TextAssumption DEF Upward, Program!Fin, Program!CredentialsSent,
                          Program!KeySent
  <1> QED
    BY <1>2, <1>3, <1>4, <1>5, <1>6, <1>7, <1>8, <1>9
    DEF Handle, HandleCredentials, HandleKey, HandleText

LEMMA ServeEffect ==
    ASSUME IInv, UpOK, NEW c \in Client, Serve(c)
    PROVE  up[c] # <<>> /\ \E rest : Taken(c, rest) /\ Served(c, rest)
  <1>1. up[c] # <<>> /\ up[c] \in Seq(Upward)
    BY DEF UpOK, Serve
  <1>2. CASE Handle(c, Head(up[c])) /\ Deliver([up EXCEPT ![c] = Tail(@)])
    <2> DEFINE rest == [up EXCEPT ![c] = Tail(@)]
    <2>1. Head(up[c]) \in Upward /\ Tail(up[c]) \in Seq(Upward)
      BY <1>1
    <2>2. rest[c] = Tail(up[c]) /\ Taken(c, rest)
      BY <1>2, <2>1 DEF Taken, UpOK
    <2>3. up[c] \in Seq(Text) => rest[c] \in Seq(Text)
      BY <1>1, <2>2
    <2>4. Served(c, rest)
      BY <1>2, <2>1, <2>2, <2>3, HandleServes DEF Served
    <2> QED
      BY <1>1, <2>2, <2>4
  <1>3. ASSUME NEW k \in Texts(c) \ {1}, Undecryptable(c),
               Deliver([up EXCEPT ![c] = SubSeq(@, k + 1, Len(@))])
        PROVE  \E rest : Taken(c, rest) /\ Served(c, rest)
    <2> DEFINE rest == [up EXCEPT ![c] = SubSeq(@, k + 1, Len(@))]
    <2>1. k \in 1..Len(up[c])
      BY DEF Texts
    <2>2. SubSeq(up[c], k + 1, Len(up[c])) \in Seq(Upward)
      BY <1>1, <2>1
    <2>3. rest[c] = SubSeq(up[c], k + 1, Len(up[c])) /\ Taken(c, rest)
      BY <1>3, <2>2 DEF Taken, UpOK
    <2>4. up[c] \in Seq(Text) => rest[c] \in Seq(Text)
      BY <2>1, <2>3
    <2>5. Talks(c)
      BY <1>3, TalkSent DEF Undecryptable, Serving, Done
    <2> QED
      BY <2>3, <2>4, <2>5 DEF Served
  <1> QED
    BY <1>1, <1>2, <1>3 DEF Serve

-----------------------------------------------------------------------------
(* What a step of the server does to a connection.                         *)

LEMMA ConcatPlain ==
    ASSUME NEW S, NEW s \in Seq(S), NEW t \in Seq(S)
    PROVE  /\ Plain(s) /\ Plain(t) => Plain(s \o t)
           /\ Alive(s) /\ Alive(t) => Alive(s \o t)
           /\ Over(s) /\ Over(t) => Over(s \o t)
  <1>1. /\ Len(s) \in Nat /\ Len(t) \in Nat /\ Len(s \o t) = Len(s) + Len(t)
        /\ \A i \in 1..Len(s) : (s \o t)[i] = s[i]
        /\ \A i \in (Len(s) + 1)..(Len(s) + Len(t)) : (s \o t)[i] = t[i - Len(s)]
    OBVIOUS
  <1>2. ASSUME NEW i \in 1..Len(s \o t)
        PROVE  \/ i \in 1..Len(s) /\ (s \o t)[i] = s[i]
               \/ \E j \in 1..Len(t) : (s \o t)[i] = t[j]
    <2>1. CASE i <= Len(s)
      BY <1>1, <2>1
    <2>2. CASE i > Len(s)
      <3>1. i - Len(s) \in 1..Len(t) /\ (s \o t)[i] = t[i - Len(s)]
        BY <1>1, <2>2
      <3> QED
        BY <3>1
    <2> QED
      BY <1>1, <2>1, <2>2
  <1>3. Plain(s) /\ Plain(t) => Plain(s \o t)
    BY <1>2 DEF Plain
  <1>4. Alive(s) /\ Alive(t) => Alive(s \o t)
    BY <1>2 DEF Alive
  <1>5. Over(s) /\ Over(t) => Over(s \o t)
    BY <1>2 DEF Over
  <1> QED
    BY <1>3, <1>4, <1>5

Begins(u, s) == \A i \in 1..Len(s) : i \in 1..Len(u) /\ u[i] = s[i]

LEMMA ConcatBegins ==
    ASSUME NEW S, NEW s \in Seq(S), NEW t \in Seq(S)
    PROVE  Begins(s \o t, s)
  BY DEF Begins

LEMMA PacketAlive ==
    ASSUME NEW s \in Seq(Packet)
    PROVE  Alive(s)
  BY DEF Alive, Packet

\* On a connection that is open after the step, what the server sent has been
\* added to what is on its way.
LEMMA Delivered ==
    ASSUME SysTypes, SysTypes', NEW rest, Deliver(rest), NEW d \in Client,
           app[d] # "gone", conn'[d] = "open", ~BacklogCut(d)
    PROVE  /\ down'[d] = down[d] \o sent'[d] /\ up'[d] = rest[d]
           /\ down[d] \in Seq(Downward) /\ sent'[d] \in Seq(Packet)
           /\ sent'[d] \in Seq(Downward)
           /\ app' = app /\ view' = view
  <1>1. down[d] \in Seq(Downward) /\ sent'[d] \in Seq(Packet)
    BY DEF SysTypes, EndsOK, IInv, TypeOK
  <1>2. sent'[d] \in Seq(Downward)
    BY <1>1 DEF Downward
  <1>3. down[d] \o sent'[d] \o <<>> = down[d] \o sent'[d]
    BY <1>1, <1>2
  <1>4. ~CutOff(d)
    BY DEF CutOff
  <1> QED
    BY <1>1, <1>2, <1>3, <1>4 DEF Deliver

\* What may be sent on a connection on which nothing else changes.
Suits(d) ==
    /\ auth[d] = "Undone" => sent'[d] = <<>>
    /\ auth[d] = "KeyReceived" => Plain(sent'[d])
    /\ auth[d] = "Done" =>
          \/ NoLists(sent'[d]) /\ Names(Open)' = Names(Open)
          \/ LastList(sent'[d], Names(Open)')

LEMMA SuitsLinked ==
    ASSUME SysTypes, SysTypes', Linkage, NEW rest, Deliver(rest),
           NEW d \in Open, conn'[d] = "open", auth'[d] = auth[d], Suits(d),
           \/ rest[d] = up[d]
           \/ auth[d] = "Done" /\ app[d] # "SentPubKey" /\ rest[d] \in Seq(Text)
    PROVE  Linked(d)' /\ Shows(d)'
  <1>1. d \in Client /\ conn[d] = "open"
    BY DEF Open
  <1>2. ~BacklogCut(d)
    BY <1>1 DEF BacklogCut, Connected
  <1>3. app' = app
    BY DEF Deliver
  <1>4. CASE app[d] = "gone"
    BY <1>3, <1>4 DEF Linked, Shows
  <1>5. CASE app[d] # "gone"
    <2>1. /\ down'[d] = down[d] \o sent'[d] /\ up'[d] = rest[d]
          /\ down[d] \in Seq(Downward) /\ sent'[d] \in Seq(Packet)
          /\ sent'[d] \in Seq(Downward)
          /\ view' = view
      BY <1>1, <1>2, <1>5, Delivered
    <2>2. Linked(d) /\ Unshown(d) /\ Shows(d)
      BY <1>1 DEF Linkage
    <2>3. Alive(sent'[d])
      BY <2>1, PacketAlive
    <2>4. Begins(down'[d], down[d])
      BY <2>1, ConcatBegins
    <2>5. CASE auth[d] = "Undone"
      <3>1. down'[d] = down[d] /\ up'[d] = up[d]
        <4>1. sent'[d] = <<>>
          BY <2>5 DEF Suits
        <4> QED
          BY <2>1, <2>5, <4>1
      <3> QED
        BY <1>1, <1>3, <2>2, <2>5, <3>1
        DEF Linked, Awaiting, Shows, Done
    <2>6. CASE auth[d] = "KeyReceived"
      <3>1. Exchanging(d)
        BY <1>1, <1>5, <2>2, <2>6 DEF Linked
      <3>2. Plain(down[d] \o sent'[d])
        BY <2>1, <2>6, <3>1, ConcatPlain DEF Suits, Exchanging
      <3>3. down[d] # <<>> => down'[d] # <<>> /\ down'[d][1] = down[d][1]
        <4>1. CASE down[d] # <<>>
          <5>1. 1 \in 1..Len(down[d])
            BY <2>1, <4>1
          <5>2. 1 \in 1..Len(down'[d]) /\ down'[d][1] = down[d][1]
            BY <2>4, <5>1 DEF Begins
          <5> QED
            BY <5>2
        <4> QED
          BY <4>1
      <3>4. up'[d] = up[d]
        BY <2>1, <2>6
      <3>5. Exchanging(d)'
        BY <1>3, <2>1, <3>1, <3>2, <3>3, <3>4 DEF Exchanging
      <3> QED
        BY <2>6, <3>5 DEF Linked, Shows, Done
    <2>7. CASE auth[d] = "Done"
      <3>1. Talking(d)
        BY <1>1, <1>5, <2>2, <2>7 DEF Linked
      <3>2. Alive(down[d] \o sent'[d])
        BY <2>1, <2>3, <3>1, ConcatPlain DEF Talking
      <3>3. Talking(d)'
        <4>1. CASE app[d] = "SentPubKey"
          <5>1. up'[d] = <<>>
            BY <2>1, <3>1, <4>1 DEF Talking
          <5>2. PICK i \in 1..Len(down[d]) : down[d][i] = AesPacket(d)
            BY <3>1, <4>1 DEF Talking
          <5>3. i \in 1..Len(down'[d]) /\ down'[d][i] = AesPacket(d)
            BY <2>4, <5>2 DEF Begins
          <5> QED
            BY <1>3, <2>1, <3>2, <4>1, <5>1, <5>3 DEF Talking, AesPacket
        <4>2. CASE app[d] # "SentPubKey"
          <5>1. up'[d] \in Seq(Text)
            BY <2>1, <3>1, <4>2 DEF Talking
          <5> QED
            BY <1>3, <2>1, <3>1, <3>2, <4>2, <5>1 DEF Talking
        <4> QED
          BY <4>1, <4>2
      <3>4. Shows(d)'
        <4> SUFFICES ASSUME app[d] \in {"SentPubKey", "chatting"}
                     PROVE  Current(d)'
          BY <1>3 DEF Shows
        <4>1. Current(d)
          BY <1>1, <2>2, <2>7 DEF Shows, Done
        <4>2. CASE LastList(sent'[d], Names(Open)')
          BY <2>1, <4>2, ConcatLists DEF Current
        <4>3. CASE NoLists(sent'[d]) /\ Names(Open)' = Names(Open)
          <5>1. CASE NoLists(down[d]) /\ view[d] \in {NoList, Names(Open)}
            <6>1. NoLists(down'[d])
              BY <2>1, <4>3, <5>1, ConcatLists
            <6> QED
              BY <2>1, <4>3, <5>1, <6>1 DEF Current
          <5>2. CASE LastList(down[d], Names(Open))
            <6>1. LastList(down'[d], Names(Open))
              BY <2>1, <4>3, <5>2, ConcatLists
            <6> QED
              BY <4>3, <6>1 DEF Current
          <5> QED
            BY <4>1, <5>1, <5>2 DEF Current
        <4> QED
          BY <2>7, <4>2, <4>3 DEF Suits
      <3> QED
        BY <2>7, <3>3, <3>4 DEF Linked
    <2> QED
      BY <1>1, <2>5, <2>6, <2>7 DEF SysTypes, IInv, TypeOK
  <1> QED
    BY <1>4, <1>5

\* A connection that stays in the backlog, and one that is closed.
LEMMA BacklogLinked ==
    ASSUME SysTypes, Linkage, NEW rest, Deliver(rest), NEW d \in Client,
           conn[d] = "new", conn'[d] = "new", sent'[d] = <<>>, rest[d] = up[d]
    PROVE  Linked(d)' /\ Shows(d)'
  <1>1. d \notin Done' /\ app' = app
    BY DEF Done, Open, Deliver
  <1>2. CASE app[d] = "gone"
    BY <1>1, <1>2 DEF Linked, Shows
  <1>3. CASE app[d] # "gone"
    <2>1. Fresh(d)
      BY <1>3 DEF Linkage, Linked
    <2>2. down[d] \in Seq(Downward)
      BY DEF SysTypes, EndsOK
    <2> DEFINE t == IF CutOff(d) THEN <<Program!Fin>> ELSE <<>>
    <2>3. down'[d] = down[d] \o sent'[d] \o t
      BY <1>3 DEF Deliver
    <2>4. t \in Seq(Downward) /\ Over(t)
      <3>1. <<Program!Fin>> \in Seq(Downward) /\ <<>> \in Seq(Downward)
        BY DEF Downward
      <3>2. Over(<<Program!Fin>>) /\ Over(<<>>)
        BY DEF Over, Program!Fin
      <3> QED
        BY <3>1, <3>2
    <2> HIDE DEF t
    <2>5. down'[d] = down[d] \o t
      <3>1. down[d] \o sent'[d] = down[d]
        BY <2>2
      <3> QED
        BY <2>3, <3>1
    <2>6. Over(down'[d])
      BY <2>1, <2>2, <2>4, <2>5, ConcatPlain DEF Fresh
    <2>7. up'[d] = <<>>
      BY <2>1 DEF Deliver, Fresh
    <2> QED
      BY <1>1, <2>1, <2>6, <2>7 DEF Linked, Fresh, Shows
  <1> QED
    BY <1>2, <1>3

LEMMA ClosedLinked ==
    ASSUME NEW d \in Client, conn'[d] = "closed"
    PROVE  Linked(d)' /\ Shows(d)'
  BY DEF Linked, Shows, Done, Open

\* A list that goes out is the list after the step (ListsCurrent).
LEMMA ListTold ==
    ASSUME AllProper, running', NEW d \in Client, NEW m, NEW n, IsList(m), ~IsList(n),
           sent'[d] \in {<<m>>, <<m, n>>}
    PROVE  LastList(sent'[d], Names(Open)')
  <1>1. 1 \in 1..Len(sent'[d]) /\ sent'[d][1] = m
    <2>1. /\ 1 \in 1..Len(<<m>>) /\ <<m>>[1] = m
          /\ 1 \in 1..Len(<<m, n>>) /\ <<m, n>>[1] = m
      OBVIOUS
    <2> QED
      BY <2>1
  <1>2. m.list = Names(Open)'
    BY <1>1 DEF AllProper, Proper, IsList
  <1> QED
    BY <1>2, ShortLists

LEMMA NamesKept ==
    ASSUME UNCHANGED <<conn, name>>
    PROVE  Names(Open)' = Names(Open)
  BY DEF Names, Open

LEMMA ListPackets ==
    ASSUME NEW n, NEW list
    PROVE  /\ IsList(Join(n, list)) /\ IsList(Leave(n, list)) /\ ~IsList(Notice)
           /\ \A u : JoinPackets(u, list)
                        \in {<<Join(u, list)>>, <<Join(u, list), Notice>>}
  BY DEF IsList, Join, Leave, Notice, JoinPackets

\* A connection on which nothing, or what a user says, is sent.
LEMMA HearsLinked ==
    ASSUME SysTypes, SysTypes', Linkage, NEW rest, Deliver(rest),
           NEW d \in Client, rest[d] = up[d], conn'[d] = conn[d],
           auth'[d] = auth[d], Names(Open)' = Names(Open), Hears(d)
    PROVE  Linked(d)' /\ Shows(d)'
  <1>1. CASE conn[d] = "closed"
    BY <1>1, ClosedLinked
  <1>2. CASE conn[d] = "new"
    <2>1. sent'[d] = <<>>
      BY <1>2 DEF Hears, Open
    <2> QED
      BY <1>2, <2>1, BacklogLinked
  <1>3. CASE conn[d] = "open"
    <2>1. d \in Open
      BY <1>3 DEF Open
    <2>2. auth[d] = "Undone" => sent'[d] = <<>>
      BY DEF Hears
    <2>3. Plain(sent'[d]) /\ NoLists(sent'[d])
      <3>1. CASE sent'[d] = <<>>
        BY <3>1 DEF Plain, NoLists
      <3>2. ASSUME NEW m, m.type \in TalkTypes, sent'[d] = <<m>>
            PROVE  Plain(sent'[d]) /\ NoLists(sent'[d])
        <4>1. \A i \in 1..Len(<<m>>) : <<m>>[i] = m
          OBVIOUS
        <4> QED
          BY <3>2, <4>1 DEF Plain, NoLists, IsList, TalkTypes
      <3> QED
        BY <3>1, <3>2 DEF Hears
    <2>4. Suits(d)
      BY <2>2, <2>3 DEF Suits
    <2> QED
      BY <1>3, <2>1, <2>4, SuitsLinked
  <1> QED
    BY <1>1, <1>2, <1>3 DEF SysTypes, IInv, TypeOK

\* A connection the step is not about.
LEMMA OthersLinked ==
    ASSUME SysTypes, SysTypes', Linkage, AllProper, NEW c \in Client, NEW rest,
           Taken(c, rest), Served(c, rest), NEW d \in Client, d # c
    PROVE  Linked(d)' /\ Shows(d)'
  <1>1. /\ Deliver(rest) /\ rest[d] = up[d]
        /\ conn[d] \in {"new", "open", "closed"}
        /\ auth[d] \in {"Undone", "KeyReceived", "Done"}
    BY DEF Taken, SysTypes, IInv, TypeOK
  \* It is told of a change of the aliases, if it is Done, by a list.
  <1>2. ASSUME conn'[d] = conn[d], auth'[d] = auth[d],
               d \notin Done => sent'[d] = <<>>,
               d \in Done => LastList(sent'[d], Names(Open)')
        PROVE  Linked(d)' /\ Shows(d)'
    <2>1. CASE conn[d] = "closed"
      BY <1>2, <2>1, ClosedLinked
    <2>2. CASE conn[d] = "new"
      <3>1. d \notin Done
        BY <2>2 DEF Done, Open
      <3> QED
        BY <1>1, <1>2, <2>2, <3>1, BacklogLinked
    <2>3. CASE conn[d] = "open"
      <3>1. d \in Open
        BY <2>3 DEF Open
      <3>2. Suits(d)
        BY <1>2, <3>1 DEF Suits, Plain, Done
      <3> QED
        BY <1>1, <1>2, <2>3, <3>1, <3>2, SuitsLinked
    <2> QED
      BY <1>1, <2>1, <2>2, <2>3
  \* The aliases stay as they are.
  <1>3. ASSUME UNCHANGED <<conn, name>>, auth'[d] = auth[d], Hears(d)
        PROVE  Linked(d)' /\ Shows(d)'
    BY <1>1, <1>3, NamesKept, HearsLinked
  <1>4. CASE Stops
    <2>1. conn'[d] = IF d \in Open THEN "closed" ELSE conn[d]
      BY <1>4 DEF Stops, Halt
    <2>2. CASE conn[d] = "new"
      <3>1. conn'[d] = "new" /\ d \in Client \ Done
        BY <2>1, <2>2 DEF Open, Done
      <3>2. sent'[d] = <<>>
        BY <1>4, <3>1 DEF Stops
      <3> QED
        BY <1>1, <2>2, <3>1, <3>2, BacklogLinked
    <2>3. CASE conn[d] # "new"
      <3>1. conn'[d] = "closed"
        BY <1>1, <2>1, <2>3 DEF Open
      <3> QED
        BY <3>1, ClosedLinked
    <2> QED
      BY <2>2, <2>3
  <1>5. ASSUME running, NEW last, DropRow(c, last)
        PROVE  Linked(d)' /\ Shows(d)'
    <2> DEFINE m == Leave(name[c], NamesBesides(c))
    <2>1. conn'[d] = conn[d] /\ auth'[d] = auth[d]
      BY <1>5 DEF DropRow, SysTypes, IInv, TypeOK
    <2>2. running'
      BY <1>5 DEF DropRow
    <2>3. sent'[d] = IF d \in Done THEN <<m>> ELSE <<>>
      BY <1>5 DEF DropRow, ToAudience, Audience
    <2>4. d \in Done => LastList(sent'[d], Names(Open)')
      BY <2>3, <2>2, ListTold, ListPackets
    <2> QED
      BY <1>2, <2>1, <2>3, <2>4
  <1>6. CASE Login(c)
    <2> DEFINE u == cred[c].uname
               list == NamesBesides(c) \cup {u}
    <2>1. conn'[d] = conn[d] /\ auth'[d] = auth[d]
      BY <1>6 DEF Login, SysTypes, IInv, TypeOK
    <2>2. running'
      BY <1>6 DEF Login, Serving
    <2>3. sent'[d] = IF d \in Done THEN JoinPackets(u, list) ELSE <<>>
      BY <1>6 DEF Login, ToAudience, Audience
    <2>4. d \in Done => LastList(sent'[d], Names(Open)')
      BY <2>3, <2>2, ListTold, ListPackets
    <2> QED
      BY <1>2, <2>1, <2>3, <2>4
  <1>7. CASE SendAesKey(c)
    <2>1. auth'[d] = auth[d] /\ sent'[d] = <<>> /\ UNCHANGED <<conn, name>>
      BY <1>7 DEF SendAesKey, ToOnly, SysTypes, IInv, TypeOK
    <2> QED
      BY <1>3, <2>1 DEF Hears
  <1>8. CASE Talks(c)
    BY <1>3, <1>8 DEF Talks
  <1> QED
    BY <1>4, <1>5, <1>6, <1>7, <1>8 DEF Served

\* The connection a packet came in on.
LEMMA OnePacket == \A m : Tail(<<m>>) = <<>> /\ <<>> \o <<m>> = <<m>>
  OBVIOUS

LEMMA LoginLinked ==
    ASSUME SysTypes, SysTypes', Linkage, NEW c \in Client, NEW rest,
           Deliver(rest), up[c] # <<>>, Login(c), rest[c] = Tail(up[c])
    PROVE  Linked(c)' /\ Shows(c)'
  <1>1. /\ c \in Client /\ conn[c] = "open" /\ auth[c] = "Undone"
        /\ conn'[c] = "open" /\ auth'[c] = "KeyReceived"
        /\ sent'[c] = <<SpbPacket>>
    BY DEF Login, Serving, Open, KeyRequest, ToAudience, SysTypes, IInv, TypeOK
  <1>2. c \notin Done' /\ app' = app
    BY <1>1 DEF Done, Deliver
  <1>3. CASE app[c] = "gone"
    BY <1>2, <1>3 DEF Linked, Shows
  <1>4. CASE app[c] # "gone"
    <2>1. /\ app[c] = "SentCredentials" /\ down[c] = <<>>
          /\ up[c] = <<Program!CredentialsSent>>
      BY <1>1, <1>4 DEF Linkage, Linked, Awaiting
    <2>2. down'[c] = down[c] \o sent'[c] /\ up'[c] = rest[c]
      BY <1>1, <1>4, Delivered DEF BacklogCut, Connected
    <2>3. down'[c] = <<SpbPacket>> /\ up'[c] = <<>>
      BY <1>1, <2>1, <2>2, OnePacket
    <2>4. Plain(<<SpbPacket>>) /\ <<SpbPacket>> # <<>> /\ <<SpbPacket>>[1] = SpbPacket
      BY DEF Plain, SpbPacket
    <2>5. Exchanging(c)'
      BY <1>2, <2>1, <2>3, <2>4 DEF Exchanging, SpbPacket
    <2> QED
      BY <1>1, <1>2, <2>5 DEF Linked, Shows
  <1> QED
    BY <1>3, <1>4

LEMMA AesLinked ==
    ASSUME SysTypes, SysTypes', Linkage, NEW c \in Client, NEW rest,
           Deliver(rest), up[c] # <<>>, SendAesKey(c), rest[c] = Tail(up[c])
    PROVE  Linked(c)' /\ Shows(c)'
  <1>1. /\ conn[c] = "open" /\ auth[c] = "KeyReceived"
        /\ conn'[c] = "open" /\ auth'[c] = "Done"
    BY DEF SendAesKey, Serving, Open, SysTypes, IInv, TypeOK
  <1>2. sent'[c] = <<AesPacket(c)>>
    BY OwnKey DEF SendAesKey, ToOnly, SysTypes
  <1>3. app' = app
    BY DEF Deliver
  <1>4. CASE app[c] = "gone"
    BY <1>3, <1>4 DEF Linked, Shows
  <1>5. CASE app[c] # "gone"
    <2>1. Linked(c) /\ Unshown(c)
      BY DEF Linkage
    <2>2. /\ app[c] = "SentPubKey" /\ up[c] = <<Program!KeySent>>
          /\ Plain(down[c])
      BY <1>1, <1>5, <2>1 DEF Linked, Exchanging
    <2>3. /\ down'[c] = down[c] \o sent'[c] /\ up'[c] = rest[c] /\ view' = view
          /\ down[c] \in Seq(Downward) /\ sent'[c] \in Seq(Downward)
          /\ sent'[c] \in Seq(Packet)
      BY <1>1, <1>5, Delivered DEF BacklogCut, Connected
    <2>4. up'[c] = <<>>
      BY <2>2, <2>3, OnePacket
    <2>5. Alive(down[c]) /\ NoLists(down[c])
      BY <2>2 DEF Plain, Alive, NoLists, IsList
    <2>6. Alive(down'[c])
      BY <2>3, <2>5, PacketAlive, ConcatPlain
    <2>7. NoLists(down'[c])
      <3>1. NoLists(sent'[c])
        BY <1>2, ShortLists DEF IsList, AesPacket
      <3> QED
        BY <2>3, <2>5, <3>1, ConcatLists
    <2>8. \E i \in 1..Len(down'[c]) : down'[c][i] = AesPacket(c)
      <3>1. PICK s \in Seq(Downward), t \in Seq(Downward) :
                s = down[c] /\ t = sent'[c]
        BY <2>3
      <3>2. t = <<AesPacket(c)>> /\ down'[c] = s \o t
        BY <1>2, <2>3, <3>1
      <3>3. Len(s) + 1 \in 1..Len(s \o t) /\ (s \o t)[Len(s) + 1] = AesPacket(c)
        BY <3>2
      <3> QED
        BY <3>2, <3>3
    <2>9. Talking(c)'
      BY <1>3, <2>2, <2>4, <2>6, <2>8 DEF Talking, AesPacket
    <2>10. view'[c] = NoList
      BY <2>1, <2>2, <2>3 DEF Unshown, Program!Handshaking
    <2>11. Current(c)'
      BY <2>7, <2>10 DEF Current
    <2> QED
      BY <1>1, <2>9, <2>11 DEF Linked, Shows
  <1> QED
    BY <1>4, <1>5

LEMMA SelfLinked ==
    ASSUME SysTypes, SysTypes', Linkage, NEW c \in Client, NEW rest,
           up[c] # <<>>, Taken(c, rest), Served(c, rest)
    PROVE  Linked(c)' /\ Shows(c)'
  <1>1. Deliver(rest) /\ up[c] # <<>>
    BY DEF Taken
  <1>2. CASE running /\ Stops
    <2>1. conn'[c] = IF c \in Open THEN "closed" ELSE conn[c]
      BY <1>2 DEF Stops, Halt
    <2>2. CASE c \in Open \/ conn[c] = "closed"
      BY <2>1, <2>2, ClosedLinked
    <2>3. CASE c \notin Open /\ conn[c] # "closed"
      <3>1. conn[c] = "new"
        BY <2>3 DEF Open, SysTypes, IInv, TypeOK
      <3>2. app[c] = "gone"
        BY <1>1, <3>1 DEF Linkage, Linked, Fresh
      <3> QED
        BY <1>1, <3>2 DEF Linked, Shows, Deliver
    <2> QED
      BY <2>2, <2>3
  <1>3. ASSUME NEW last, c \in Open, DropRow(c, last)
        PROVE  Linked(c)' /\ Shows(c)'
    <2>1. conn'[c] = "closed"
      BY <1>3 DEF DropRow, SysTypes, IInv, TypeOK
    <2> QED
      BY <2>1, ClosedLinked
  <1>4. CASE Login(c) /\ rest[c] = Tail(up[c])
    BY <1>1, <1>4, LoginLinked
  <1>5. CASE SendAesKey(c) /\ rest[c] = Tail(up[c])
    BY <1>1, <1>5, AesLinked
  <1>6. CASE Talks(c) /\ (up[c] \in Seq(Text) => rest[c] \in Seq(Text))
    <2>1. /\ c \in Open /\ auth[c] = "Done" /\ conn[c] = "open"
          /\ UNCHANGED <<conn, name, auth>> /\ Hears(c)
      BY <1>6 DEF Talks, Done, Open
    <2>2. CASE app[c] = "gone"
      BY <1>1, <2>2 DEF Deliver, Linked, Shows
    <2>3. CASE app[c] # "gone"
      <3>1. app[c] # "SentPubKey" /\ up[c] \in Seq(Text)
        BY <1>1, <2>1, <2>3 DEF Linkage, Linked, Talking
      <3>2. NoLists(sent'[c])
        BY <2>1, ShortLists DEF Hears, IsList, TalkTypes
      <3>3. Suits(c)
        BY <2>1, <3>2, NamesKept DEF Suits
      <3> QED
        BY <1>1, <1>6, <2>1, <3>1, <3>3, SuitsLinked
    <2> QED
      BY <2>2, <2>3
  <1> QED
    BY <1>2, <1>3, <1>4, <1>5, <1>6 DEF Served

LEMMA ServeLinked ==
    ASSUME SysTypes, SysTypes', Linkage, NEW c \in Client, Serve(c)
    PROVE  \A d \in Client : Linked(d)' /\ Shows(d)'
  <1>1. up[c] # <<>> /\ \E rest : Taken(c, rest) /\ Served(c, rest)
    BY ServeEffect DEF SysTypes
  <1>2. PICK rest : Taken(c, rest) /\ Served(c, rest)
    BY <1>1
  <1>3. AllProper
    BY NextProper, ServeReceives DEF Next, SysTypes
  <1> QED
    BY <1>1, <1>2, <1>3, SelfLinked, OthersLinked

LEMMA AdmitLinked ==
    ASSUME SysTypes, SysTypes', Linkage, NEW c \in Client, Admit(c)
    PROVE  \A d \in Client : Linked(d)' /\ Shows(d)'
  <1>1. /\ Deliver(up) /\ Connected(c) /\ running' = running /\ name' = name
        /\ auth' = auth /\ conn[c] = "new"
        /\ conn' = [conn EXCEPT ![c] = "open"]
        /\ sent' = ToOnly(c, PubKeyPacket)
    BY DEF Admit, Accept
  <1>2. /\ conn'[c] = "open" /\ sent'[c] = <<PubKeyPacket>>
        /\ \A d \in Client \ {c} : conn'[d] = conn[d] /\ sent'[d] = <<>>
    BY <1>1 DEF ToOnly, SysTypes, IInv, TypeOK
  <1>3. Open' = Open \cup {c} /\ c \notin Open
    BY <1>1, <1>2 DEF Open
  <1>4. auth[c] = "Undone" /\ name[c] = NoName
    BY <1>3 DEF SysTypes, IInv, Rows, RowsOfOpen, NamedWhenAdmitted
  <1>5. Names(Open)' = Names(Open)
    BY <1>1, <1>3, <1>4 DEF Names
  <1>6. ASSUME NEW d \in Client, d # c
        PROVE  Linked(d)' /\ Shows(d)'
    BY <1>1, <1>2, <1>5, <1>6, HearsLinked DEF Hears
  <1>7. Linked(c)' /\ Shows(c)'
    <2>1. c \notin Done' /\ app' = app
      BY <1>1, <1>4 DEF Done, Deliver
    <2>2. CASE app[c] = "gone"
      BY <2>1, <2>2 DEF Linked, Shows
    <2>3. CASE app[c] # "gone"
      <3>1. app[c] = "HasntBegun" /\ down[c] = <<>> /\ up[c] = <<>>
        BY <1>1, <2>3 DEF Connected, Linkage, Linked, Fresh
      <3>2. down'[c] = down[c] \o sent'[c] /\ up'[c] = up[c]
        BY <1>1, <1>2, <2>3, Delivered DEF BacklogCut
      <3>3. down'[c] = <<PubKeyPacket>> /\ up'[c] = <<>>
        BY <1>2, <3>1, <3>2, OnePacket
      <3>4. Awaiting(c)'
        BY <2>1, <3>1, <3>3 DEF Awaiting, PubKeyPacket
      <3> QED
        BY <1>1, <1>2, <1>4, <2>1, <3>4 DEF Linked, Shows
    <2> QED
      BY <2>2, <2>3
  <1> QED
    BY <1>6, <1>7

LEMMA OperateLinked ==
    ASSUME SysTypes, SysTypes', Linkage, Operate
    PROVE  \A d \in Client : Linked(d)' /\ Shows(d)'
  <1> SUFFICES ASSUME NEW d \in Client
               PROVE  Linked(d)' /\ Shows(d)'
    OBVIOUS
  <1>1. Deliver(up)
    BY DEF Operate
  <1>2. CASE AcceptFails \/ Start
    <2>1. UNCHANGED <<conn, name, auth>> /\ sent'[d] = <<>>
      BY <1>2 DEF AcceptFails, Start, Nothing
    <2> QED
      BY <1>1, <2>1, NamesKept, HearsLinked DEF Hears
  <1>3. CASE Killed
    <2>1. /\ conn'[d] = IF d \in Open THEN "closed" ELSE conn[d]
          /\ sent'[d] = <<>>
      BY <1>3 DEF Killed, Die, Halt, Nothing
    <2>2. CASE conn[d] = "new"
      <3>1. conn'[d] = "new"
        BY <2>1, <2>2 DEF Open
      <3> QED
        BY <1>1, <2>1, <2>2, <3>1, BacklogLinked
    <2>3. CASE conn[d] # "new"
      <3>1. conn'[d] = "closed"
        BY <2>1, <2>3 DEF Open, SysTypes, IInv, TypeOK
      <3> QED
        BY <3>1, ClosedLinked
    <2> QED
      BY <2>2, <2>3
  <1> QED
    BY <1>2, <1>3 DEF Operate

-----------------------------------------------------------------------------
(* What a step of a program does to its connection.                        *)

LEMMA RestPlain ==
    ASSUME NEW S, NEW s \in Seq(S), NEW k \in 1..Len(s)
    PROVE  /\ Plain(s) => Plain(SubSeq(s, k + 1, Len(s)))
           /\ Alive(s) => Alive(SubSeq(s, k + 1, Len(s)))
  <1> DEFINE r == SubSeq(s, k + 1, Len(s))
  <1>1. Len(s) \in Nat /\ k \in Nat /\ k + 1 \in Int /\ Len(s) \in Int
    OBVIOUS
  <1>2. \A i \in (k + 1)..Len(s) : s[i] \in S
    BY <1>1
  <1>3. Len(r) = IF k + 1 <= Len(s) THEN Len(s) - (k + 1) + 1 ELSE 0
    BY <1>1, <1>2, SubSeqProperties
  <1>4. \A i \in 1..(Len(s) - (k + 1) + 1) : r[i] = s[(k + 1) + i - 1]
    BY <1>1, <1>2, SubSeqProperties
  <1> HIDE DEF r
  <1>5. ASSUME NEW i \in 1..Len(r)
        PROVE  \E j \in 1..Len(s) : r[i] = s[j]
    <2>1. PICK n \in Nat : n = Len(s)
      BY <1>1
    <2>2. i \in 1..(n - (k + 1) + 1) /\ (k + 1) + i - 1 \in 1..n
      BY <1>1, <1>3, <2>1
    <2> QED
      BY <1>4, <2>1, <2>2
  <1> QED
    BY <1>5 DEF Plain, Alive, r

\* The programs of other clients.
LEMMA ProgramOthers ==
    ASSUME EndsOK, UpOK, NEW c \in Client, Use(c) \/ Run(c), NEW d \in Client \ {c}
    PROVE  /\ app'[d] = app[d] /\ up'[d] = up[d]
           /\ down'[d] = down[d] /\ view'[d] = view[d]
  BY DEF EndsOK, UpOK, Use, Run, Dial, Program!User, Program!Read,
         Program!Connect, Program!ConnectRefused, Program!SendCredentials,
         Program!SendPubKey, Program!ReceiveAesKey, Program!FailToDecrypt,
         Program!KickedInHandshake, Program!Show, Program!FailToShow,
         Program!KickedLater, Program!SendText, Program!SendPanics,
         Program!Quit, Program!Ends, Program!Reads, Program!Sends,
         Program!Becomes

\* A program that has ended.
LEMMA EndsLinked ==
    ASSUME EndsOK, NEW c \in Client, Program!Ends(c)
    PROVE  Linked(c)' /\ Unshown(c)' /\ Shows(c)'
  <1>1. app'[c] = "gone"
    BY DEF EndsOK, Program!Ends, Program!Becomes
  <1> QED
    BY <1>1 DEF Linked, Unshown, Shows, Program!Handshaking

\* What a program finds when it reads.
LEMMA ReadLinked ==
    ASSUME SysTypes, NEW c \in Client, NEW k, Program!Reads(c, k)
    PROVE  /\ k \in 1..Len(down[c])
           /\ down[c] \in Seq(Downward)
           /\ down'[c] = SubSeq(down[c], k + 1, Len(down[c]))
           /\ ~Over(down[c])
           /\ Plain(down[c]) => Plain(down'[c])
           /\ Alive(down[c]) => Alive(down'[c])
  <1>1. /\ k \in 1..Len(down[c]) /\ down[c] \in Seq(Downward)
        /\ down'[c] = SubSeq(down[c], k + 1, Len(down[c]))
    BY ReadKeepsDown DEF SysTypes, EndsOK
  <1>2. k \in Program!Packets(c)
    BY DEF Program!Reads
  <1>3. 1 \in 1..Len(down[c]) /\ 1 \in 1..k
    BY <1>1
  <1>4. down[c][1] # Program!Fin
    BY <1>2, <1>3 DEF Program!Packets
  <1>5. down[c][1] \in Packet
    BY <1>1, <1>3, <1>4 DEF Downward
  <1>6. ~Over(down[c])
    BY <1>3, <1>5 DEF Over, Packet
  <1> QED
    BY <1>1, <1>6, RestPlain

\* The end of the connection is read only once it is closed.
LEMMA ClosedSeen ==
    ASSUME SysTypes, Linkage, NEW c \in Client, Program!Closed(c),
           app[c] # "gone"
    PROVE  conn[c] # "open"
  <1> SUFFICES ASSUME conn[c] = "open"
               PROVE  FALSE
    OBVIOUS
  <1>1. down[c] # <<>> /\ down[c] \in Seq(Downward) /\ Head(down[c]) = Program!Fin
    BY DEF Program!Closed, SysTypes, EndsOK
  <1>2. 1 \in 1..Len(down[c]) /\ down[c][1] = Program!Fin
    BY <1>1
  <1>3. down[c][1].type = "fin"
    BY <1>2 DEF Program!Fin
  <1>4. ~Plain(down[c]) /\ ~Alive(down[c])
    BY <1>2, <1>3 DEF Plain, Alive
  <1>5. down[c] # <<PubKeyPacket>>
    <2>1. <<PubKeyPacket>>[1] = PubKeyPacket
      OBVIOUS
    <2> QED
      BY <1>3, <2>1 DEF PubKeyPacket
  <1>6. ~Awaiting(c) /\ ~Exchanging(c) /\ ~Talking(c)
    BY <1>1, <1>4, <1>5 DEF Awaiting, Exchanging, Talking
  <1> QED
    BY <1>6 DEF Linkage, Linked, SysTypes, IInv, TypeOK

\* A step of the handshake.
LEMMA HandshakeLinked ==
    ASSUME SysTypes, Linkage, NEW c \in Client, UNCHANGED vars,
           \/ Dial(c)
           \/ Program!SendCredentials(c)
           \/ Program!SendPubKey(c)
           \/ Program!KickedInHandshake(c)
    PROVE  Linked(c)' /\ Unshown(c)' /\ Shows(c)'
  <1>1. /\ conn'[c] = conn[c] /\ auth'[c] = auth[c] /\ Done' = Done
        /\ conn[c] \in {"new", "open", "closed"}
        /\ auth[c] \in {"Undone", "KeyReceived", "Done"}
    BY DEF vars, Done, Open, SysTypes, IInv, TypeOK
  <1>2. Linked(c) /\ Unshown(c) /\ Shows(c)
    BY DEF Linkage
  <1>3. c \in Done => Talking(c) \/ app[c] = "gone"
    BY <1>2 DEF Linked, Done, Open
  <1> USE DEF Program!Becomes, SysTypes, EndsOK, UpOK
  <1>4. CASE Dial(c)
    <2>1. app[c] = "off" /\ up' = up /\ view' = view
      BY <1>4 DEF Dial, Program!Connect, Program!ConnectRefused
    <2>2. conn[c] # "open"
      BY <1>1, <1>2, <2>1 DEF Linked, Awaiting, Exchanging, Talking
    <2>3. Over(down[c]) => Over(down'[c])
      <3>1. Over(<<Program!Fin>>)
        BY DEF Over, Program!Fin
      <3> QED
        BY <1>4, <3>1 DEF Dial, Program!Connect, Program!ConnectRefused
    <2>4. app'[c] \in {"HasntBegun", "gone"}
      BY <1>4 DEF Dial, Program!Connect, Program!ConnectRefused
    <2>5. Linked(c)'
      BY <1>1, <1>2, <2>1, <2>2, <2>3, <2>4 DEF Linked, Fresh
    <2>6. Unshown(c)'
      BY <1>2, <2>1 DEF Unshown
    <2>7. Shows(c)'
      BY <2>4 DEF Shows
    <2> QED
      BY <2>5, <2>6, <2>7
  <1>5. CASE Program!SendCredentials(c)
    <2>1. PICK k : Program!Reads(c, k)
      BY <1>5 DEF Program!SendCredentials
    <2>2. /\ app[c] = "HasntBegun" /\ app'[c] = "SentCredentials" /\ view' = view
          /\ up'[c] = Append(up[c], Program!CredentialsSent)
      BY <1>5 DEF Program!SendCredentials, Program!Sends
    <2>3. conn[c] # "new"
      BY <1>2, <2>1, <2>2, ReadLinked DEF Linked, Fresh
    <2>4. ASSUME conn[c] = "open"
          PROVE  auth[c] = "Undone" /\ Awaiting(c)'
      <3>1. auth[c] = "Undone" /\ down[c] = <<PubKeyPacket>> /\ up[c] = <<>>
        BY <1>1, <1>2, <2>2, <2>4
        DEF Linked, Awaiting, Exchanging, Talking
      <3>2. k = 1 /\ SubSeq(<<PubKeyPacket>>, 2, 1) = <<>>
        <4>1. k \in 1..Len(down[c])
          BY <2>1, ReadLinked
        <4>2. Len(<<PubKeyPacket>>) = 1
          OBVIOUS
        <4> QED
          BY <3>1, <4>1, <4>2, SubSeqEmpty
      <3>3. down'[c] = <<>>
        <4>1. down'[c] = SubSeq(down[c], k + 1, Len(down[c]))
          BY <2>1, ReadLinked
        <4>2. Len(<<PubKeyPacket>>) = 1 /\ 1 + 1 = 2
          OBVIOUS
        <4> QED
          BY <3>1, <3>2, <4>1, <4>2
      <3>4. up'[c] = <<Program!CredentialsSent>>
        <4>1. \A m : Append(<<>>, m) = <<m>>
          OBVIOUS
        <4> QED
          BY <2>2, <3>1, <4>1
      <3> QED
        BY <2>2, <3>1, <3>3, <3>4 DEF Awaiting, Program!CredentialsSent
    <2>5. Linked(c)'
      BY <1>1, <2>3, <2>4 DEF Linked
    <2>6. Unshown(c)' /\ Shows(c)'
      BY <1>2, <2>2 DEF Unshown, Shows, Program!Handshaking
    <2> QED
      BY <2>5, <2>6
  <1>6. CASE Program!SendPubKey(c)
    <2>1. PICK k : Program!Reads(c, k)
      BY <1>6 DEF Program!SendPubKey
    <2>2. /\ app[c] = "SentCredentials" /\ app'[c] = "SentPubKey" /\ view' = view
          /\ up'[c] = Append(up[c], Program!KeySent)
      BY <1>6 DEF Program!SendPubKey, Program!Sends
    <2>3. conn[c] # "new"
      BY <1>2, <2>2 DEF Linked, Fresh
    <2>4. ASSUME conn[c] = "open"
          PROVE  auth[c] = "KeyReceived" /\ Exchanging(c)'
      <3>1. down[c] # <<>>
        BY <2>1, ReadLinked
      <3>2. auth[c] = "KeyReceived" /\ Plain(down[c]) /\ up[c] = <<>>
        BY <1>1, <1>2, <2>2, <2>4, <3>1
        DEF Linked, Awaiting, Exchanging, Talking
      <3>3. Plain(down'[c])
        BY <2>1, <3>2, ReadLinked
      <3>4. up'[c] = <<Program!KeySent>>
        <4>1. \A m : Append(<<>>, m) = <<m>>
          OBVIOUS
        <4> QED
          BY <2>2, <3>2, <4>1
      <3> QED
        BY <2>2, <3>2, <3>3, <3>4 DEF Exchanging, Program!KeySent
    <2>5. Linked(c)'
      BY <1>1, <2>3, <2>4 DEF Linked
    <2>6. Unshown(c)'
      BY <1>2, <2>2 DEF Unshown, Program!Handshaking
    <2>7. c \notin Done
      BY <1>3, <2>2 DEF Talking
    <2>8. Shows(c)'
      BY <1>1, <2>7 DEF Shows
    <2> QED
      BY <2>5, <2>6, <2>8
  <1>7. CASE Program!KickedInHandshake(c)
    <2>1. CASE Program!Ends(c)
      BY <2>1, EndsLinked
    <2>2. CASE ~Program!Ends(c)
      <3>1. /\ app[c] \in Program!Handshaking /\ Program!Closed(c)
            /\ app'[c] = "idle" /\ UNCHANGED <<up, down, view>>
        BY <1>7, <2>2 DEF Program!KickedInHandshake
      <3>2. conn[c] # "open"
        BY <3>1, ClosedSeen DEF Program!Handshaking
      <3>3. Linked(c)'
        BY <1>1, <1>2, <3>1, <3>2 DEF Linked, Fresh, Program!Handshaking
      <3>4. Unshown(c)' /\ Shows(c)'
        BY <3>1 DEF Unshown, Shows, Program!Handshaking
      <3> QED
        BY <3>3, <3>4
    <2> QED
      BY <2>1, <2>2
  <1> QED
    BY <1>4, <1>5, <1>6, <1>7

\* One packet is read: the list that is shown last is shown or on its way.
LEMMA ShownCurrent ==
    ASSUME SysTypes, NEW c \in Client, UNCHANGED <<conn, name>>,
           Program!Reads(c, 1), Current(c),
           view'[c] = Program!Shown(c, down[c][1])
    PROVE  Current(c)'
  <1>1. 1 \in 1..Len(down[c]) /\ down[c] \in Seq(Downward)
    BY ReadLinked
  <1>2. down'[c] = SubSeq(down[c], 2, Len(down[c]))
    <2>1. 1 + 1 = 2
      OBVIOUS
    <2> QED
      BY <2>1, ReadLinked
  <1>3. Names(Open)' = Names(Open)
    BY NamesKept
  <1>4. view'[c] = IF IsList(down[c][1]) THEN down[c][1].list ELSE view[c]
    BY DEF Program!Shown, IsList
  <1>5. CASE NoLists(down[c]) /\ view[c] \in {NoList, Names(Open)}
    <2>1. NoLists(down'[c]) /\ ~IsList(down[c][1])
      BY <1>1, <1>2, <1>5, TailLists
    <2> QED
      BY <1>3, <1>4, <1>5, <2>1 DEF Current
  <1>6. CASE LastList(down[c], Names(Open))
    <2>1. \/ LastList(down'[c], Names(Open))
          \/ /\ NoLists(down'[c]) /\ IsList(down[c][1])
             /\ down[c][1].list = Names(Open)
      BY <1>1, <1>2, <1>6, TailLists
    <2>2. CASE LastList(down'[c], Names(Open))
      BY <1>3, <2>2 DEF Current
    <2>3. CASE /\ NoLists(down'[c]) /\ IsList(down[c][1])
               /\ down[c][1].list = Names(Open)
      BY <1>3, <1>4, <2>3 DEF Current
    <2> QED
      BY <2>1, <2>2, <2>3
  <1> QED
    BY <1>5, <1>6 DEF Current

\* A step of a program that has completed the handshake, or ends.
LEMMA ChatLinked ==
    ASSUME SysTypes, Linkage, NEW c \in Client, UNCHANGED vars,
           \/ Program!ReceiveAesKey(c)
           \/ Program!Show(c)
           \/ Program!FailToShow(c)
           \/ Program!KickedLater(c)
           \/ Program!FailToDecrypt(c)
           \/ Program!User(c)
    PROVE  Linked(c)' /\ Unshown(c)' /\ Shows(c)'
  <1>1. /\ conn'[c] = conn[c] /\ auth'[c] = auth[c] /\ Done' = Done
        /\ conn[c] \in {"new", "open", "closed"}
        /\ auth[c] \in {"Undone", "KeyReceived", "Done"}
        /\ UNCHANGED <<conn, name>>
    BY DEF vars, Done, Open, SysTypes, IInv, TypeOK
  <1>2. Linked(c) /\ Unshown(c) /\ Shows(c)
    BY DEF Linkage
  <1> USE DEF Program!Becomes, SysTypes, EndsOK, UpOK
  <1>3. CASE Program!ReceiveAesKey(c)
    <2>1. /\ app[c] = "SentPubKey" /\ app'[c] = "chatting"
          /\ up' = up /\ view' = view /\ Program!Reads(c, 1)
          /\ down[c][1].type = "aes"
      BY <1>3 DEF Program!ReceiveAesKey, Program!IsAesKey
    <2>2. conn[c] # "new"
      BY <1>2, <2>1 DEF Linked, Fresh
    <2>3. 1 \in 1..Len(down[c])
      BY <2>1, ReadLinked
    <2>4. ~Plain(down[c])
      BY <2>1, <2>3 DEF Plain
    <2>5. ASSUME conn[c] = "open"
          PROVE  auth[c] = "Done" /\ Talking(c)'
      <3>1. auth[c] = "Done" /\ Talking(c)
        BY <1>1, <1>2, <2>1, <2>4, <2>5 DEF Linked, Awaiting, Exchanging
      <3>2. Alive(down'[c])
        BY <2>1, <3>1, ReadLinked DEF Talking
      <3>3. up'[c] \in Seq(Text)
        BY <2>1, <3>1 DEF Talking
      <3> QED
        BY <2>1, <3>1, <3>2, <3>3 DEF Talking
    <2>6. Linked(c)'
      BY <1>1, <2>2, <2>5 DEF Linked
    <2>7. Shows(c)'
      <3> SUFFICES ASSUME c \in Done
                   PROVE  Current(c)'
        BY <1>1 DEF Shows
      <3>1. Current(c)
        BY <1>2, <2>1 DEF Shows
      <3>2. view'[c] = Program!Shown(c, down[c][1])
        BY <2>1 DEF Program!Shown
      <3> QED
        BY <1>1, <2>1, <3>1, <3>2, ShownCurrent
    <2>8. Unshown(c)'
      BY <2>1 DEF Unshown, Program!Handshaking
    <2> QED
      BY <2>6, <2>7, <2>8
  <1>4. CASE Program!Show(c)
    <2>1. /\ app[c] = "chatting" /\ app' = app /\ up' = up
          /\ view'[c] = Program!Shown(c, down[c][1]) /\ Program!Reads(c, 1)
      BY <1>4 DEF Program!Show
    <2>2. conn[c] # "new"
      BY <1>2, <2>1 DEF Linked, Fresh
    <2>3. ASSUME conn[c] = "open"
          PROVE  auth[c] = "Done" /\ Talking(c)'
      <3>1. auth[c] = "Done" /\ Talking(c)
        BY <1>1, <1>2, <2>1, <2>3 DEF Linked, Awaiting, Exchanging
      <3>2. Alive(down'[c])
        BY <2>1, <3>1, ReadLinked DEF Talking
      <3> QED
        BY <2>1, <3>1, <3>2 DEF Talking
    <2>4. Linked(c)'
      BY <1>1, <2>2, <2>3 DEF Linked
    <2>5. Shows(c)'
      BY <1>1, <1>2, <2>1, ShownCurrent DEF Shows
    <2>6. Unshown(c)'
      BY <2>1 DEF Unshown, Program!Handshaking
    <2> QED
      BY <2>4, <2>5, <2>6
  <1>5. CASE Program!FailToShow(c)
    <2>1. CASE Program!Ends(c)
      BY <2>1, EndsLinked
    <2>2. CASE ~Program!Ends(c)
      <3>1. PICK k : /\ app[c] = "chatting" /\ up' = up /\ Program!Reads(c, k)
                     /\ app'[c] \in {"deaf", "poisoned"}
        BY <1>5, <2>2 DEF Program!FailToShow
      <3>2. conn[c] # "new"
        BY <1>2, <3>1 DEF Linked, Fresh
      <3>3. ASSUME conn[c] = "open"
            PROVE  auth[c] = "Done" /\ Talking(c)'
        <4>1. auth[c] = "Done" /\ Talking(c)
          BY <1>1, <1>2, <3>1, <3>3 DEF Linked, Awaiting, Exchanging
        <4>2. Alive(down'[c])
          BY <3>1, <4>1, ReadLinked DEF Talking
        <4> QED
          BY <3>1, <4>1, <4>2 DEF Talking
      <3>4. Linked(c)'
        BY <1>1, <3>2, <3>3 DEF Linked
      <3>5. Unshown(c)' /\ Shows(c)'
        BY <3>1 DEF Unshown, Shows, Program!Handshaking
      <3> QED
        BY <3>4, <3>5
    <2> QED
      BY <2>1, <2>2
  <1>6. CASE Program!KickedLater(c)
    <2>1. CASE Program!Ends(c)
      BY <2>1, EndsLinked
    <2>2. CASE ~Program!Ends(c)
      <3>1. /\ app[c] = "chatting" /\ Program!Closed(c)
            /\ app'[c] \in {"idle", "deaf"}
        BY <1>6, <2>2 DEF Program!KickedLater
      <3>2. conn[c] = "closed"
        BY <1>1, <1>2, <3>1, ClosedSeen DEF Linked, Fresh
      <3>3. Linked(c)'
        BY <1>1, <3>2 DEF Linked
      <3>4. Unshown(c)' /\ Shows(c)'
        BY <3>1 DEF Unshown, Shows, Program!Handshaking
      <3> QED
        BY <3>3, <3>4
    <2> QED
      BY <2>1, <2>2
  <1>7. ASSUME NEW t \in Text, Program!SendText(c, t)
        PROVE  Linked(c)' /\ Unshown(c)' /\ Shows(c)'
    <2>1. /\ app[c] \in {"chatting", "deaf"} /\ UNCHANGED <<app, down, view>>
          /\ up'[c] = Append(up[c], t)
      BY <1>7 DEF Program!SendText, Program!Sends
    <2>2. conn[c] # "new"
      BY <1>2, <2>1 DEF Linked, Fresh
    <2>3. ASSUME conn[c] = "open"
          PROVE  auth[c] = "Done" /\ Talking(c)'
      <3>1. auth[c] = "Done" /\ Alive(down[c]) /\ up[c] \in Seq(Text)
        BY <1>1, <1>2, <2>1, <2>3 DEF Linked, Awaiting, Exchanging, Talking
      <3>2. up'[c] \in Seq(Text)
        BY <2>1, <3>1
      <3> QED
        BY <2>1, <3>1, <3>2 DEF Talking
    <2>4. Linked(c)'
      BY <1>1, <2>2, <2>3 DEF Linked
    <2>5. Unshown(c)' /\ Shows(c)'
      BY <1>1, <1>2, <2>1, NamesKept DEF Unshown, Shows, Current
    <2> QED
      BY <2>4, <2>5
  <1> QED
    BY <1>3, <1>4, <1>5, <1>6, <1>7, EndsLinked
    DEF Program!FailToDecrypt, Program!User, Program!SendPanics, Program!Quit

-----------------------------------------------------------------------------
(* The invariant, and what follows from it.                                *)

LEMMA ProgramLinked ==
    ASSUME SysTypes, Linkage, NEW c \in Client, Use(c) \/ Run(c)
    PROVE  Linkage'
  <1>1. UNCHANGED vars
    BY DEF Use, Run
  <1>2. Linked(c)' /\ Unshown(c)' /\ Shows(c)'
    BY <1>1, HandshakeLinked, ChatLinked DEF Use, Run, Program!Read
  <1>3. ASSUME NEW d \in Client \ {c}
        PROVE  Linked(d)' /\ Unshown(d)' /\ Shows(d)'
    <2>1. Linked(d) /\ Unshown(d) /\ Shows(d)
      BY DEF Linkage
    <2>2. /\ app'[d] = app[d] /\ up'[d] = up[d]
          /\ down'[d] = down[d] /\ view'[d] = view[d]
      BY ProgramOthers DEF SysTypes
    <2>3. UNCHANGED <<conn, auth, name>> /\ Done' = Done
      BY <1>1 DEF vars, Done, Open
    <2>4. Linked(d)'
      BY <2>1, <2>2, <2>3 DEF Linked, Fresh, Awaiting, Exchanging, Talking,
                              AesPacket
    <2>5. Unshown(d)'
      BY <2>1, <2>2 DEF Unshown
    <2>6. Shows(d)'
      BY <2>1, <2>2, <2>3, NamesKept DEF Shows, Current
    <2> QED
      BY <2>4, <2>5, <2>6
  <1> QED
    BY <1>2, <1>3 DEF Linkage

LEMMA LinkageInit == SInit => Linkage
  <1> SUFFICES ASSUME SInit
               PROVE  Linkage
    OBVIOUS
  <1>1. \A c \in Client : conn[c] = "new" /\ c \notin Done
    BY DEF SInit, Init, Done, Open
  <1> QED
    BY <1>1 DEF SInit, Program!Init, Linkage, Linked, Fresh, Over, Unshown, Shows

LEMMA LinkageStep == SysTypes /\ SysTypes' /\ Linkage /\ [SNext]_sysvars => Linkage'
  <1> SUFFICES ASSUME SysTypes, SysTypes', Linkage, [SNext]_sysvars
               PROVE  Linkage'
    OBVIOUS
  \* A step of the server leaves the programs where they are.
  <1>1. ASSUME NEW rest, Deliver(rest), \A d \in Client : Linked(d)' /\ Shows(d)'
        PROVE  Linkage'
    BY <1>1 DEF Linkage, Deliver, Unshown
  <1>2. ASSUME NEW c \in Client, Admit(c)
        PROVE  Linkage'
    <2>1. \A d \in Client : Linked(d)' /\ Shows(d)'
      BY <1>2, AdmitLinked
    <2> QED
      BY <1>1, <1>2, <2>1 DEF Admit
  <1>3. ASSUME NEW c \in Client, Serve(c)
        PROVE  Linkage'
    <2>1. \A d \in Client : Linked(d)' /\ Shows(d)'
      BY <1>3, ServeLinked
    <2>2. PICK rest : Deliver(rest)
      BY <1>3 DEF Serve
    <2> QED
      BY <1>1, <2>1, <2>2
  <1>4. CASE Operate
    <2>1. \A d \in Client : Linked(d)' /\ Shows(d)'
      BY <1>4, OperateLinked
    <2> QED
      BY <1>1, <1>4, <2>1 DEF Operate
  <1>5. ASSUME NEW c \in Client, Use(c) \/ Run(c)
        PROVE  Linkage'
    BY <1>5, ProgramLinked
  <1>6. CASE UNCHANGED sysvars
    <2>1. UNCHANGED <<conn, auth, name, app, up, down, view>> /\ Done' = Done
      BY <1>6 DEF sysvars, vars, Done, Open
    <2>2. Names(Open)' = Names(Open)
      BY <2>1, NamesKept
    <2>3. ASSUME NEW d \in Client
          PROVE  Linked(d)' /\ Unshown(d)' /\ Shows(d)'
      <3>1. Linked(d) /\ Unshown(d) /\ Shows(d)
        BY DEF Linkage
      <3>2. Linked(d)'
        BY <2>1, <3>1
        DEF Linked, Fresh, Awaiting, Exchanging, Talking, AesPacket
      <3> QED
        BY <2>1, <2>2, <3>1, <3>2 DEF Unshown, Shows, Current
    <2> QED
      BY <2>3 DEF Linkage
  <1> QED
    BY <1>2, <1>3, <1>4, <1>5, <1>6 DEF SNext

LEMMA LinkageInvariance == SSpec => [](SysTypes /\ Linkage)
  BY SysTypesInit, SysTypesStep, LinkageInit, LinkageStep, PTL DEF SSpec

\* The two ends of an open connection always agree on how far the handshake
\* has come, and what one of them waits for is on its way.
THEOREM HandshakeInStep == SSpec => []InStep
  <1>1. SysTypes /\ Linkage => InStep
    <2> SUFFICES ASSUME SysTypes, Linkage, NEW c \in Open, app[c] # "gone"
                 PROVE  Agreed(c)
      BY DEF InStep
    <2>1. Linked(c) /\ conn[c] = "open" /\ c \in Client
      BY DEF Open, Linkage
    <2>2. CASE auth[c] = "Undone"
      BY <2>1, <2>2 DEF Linked, Awaiting, Agreed
    <2>3. CASE auth[c] = "KeyReceived"
      <3>1. Exchanging(c)
        BY <2>1, <2>3 DEF Linked
      <3>2. down[c] # <<>> => Head(down[c]) = down[c][1]
        BY <2>1 DEF SysTypes, EndsOK
      <3> QED
        BY <2>3, <3>1, <3>2 DEF Exchanging, Agreed
    <2>4. CASE auth[c] = "Done"
      BY <2>1, <2>4 DEF Linked, Talking, Agreed
    <2> QED
      BY <2>1, <2>2, <2>3, <2>4 DEF SysTypes, IInv, TypeOK
  <1> QED
    BY <1>1, LinkageInvariance, PTL

\* The list of users a client shows is always the server's, but for the lists
\* still on their way to it.
THEOREM RosterUpToDate == SSpec => []RosterCurrent
  <1>1. SysTypes /\ Linkage => RosterCurrent
    BY DEF RosterCurrent, Linkage, Shows, Done, Open
  <1> QED
    BY <1>1, LinkageInvariance, PTL
=============================================================================

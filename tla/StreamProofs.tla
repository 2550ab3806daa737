---------------------------- MODULE StreamProofs ----------------------------
(***************************************************************************)
(* Proofs about Stream, for buffers of every size, any number of texts and *)
(* any number of commands: the types with the bounds on the buffers, and   *)
(* that a program which still shows messages has left none out.            *)
(***************************************************************************)
EXTENDS Stream, SequenceTheorems, TLAPS

-----------------------------------------------------------------------------
(* Packets, halves, and what a stream carries.                             *)

Packets == [type : Types, id : 0..Answered]

\* No text ends in the first k halves of the stream.
Silent(stream, k) == \A i \in Ends(stream) : i > k

LEMMA Bounds == Answered \in Nat /\ MaxSent \in Nat /\ MaxTyped \in Nat
                /\ DownRoom \in Nat /\ UpRoom \in Nat
  BY StreamAssumption DEF Answered

LEMMA PacketIsPacket ==
    ASSUME NEW t \in Types PROVE Packet(t) \in Packets
  BY Bounds DEF Packet, Packets

LEMMA TextIsPacket ==
    ASSUME NEW i \in 0..Answered PROVE Text(i) \in Packets
  BY DEF Text, Packets, Types

LEMMA HalvesTyped ==
    ASSUME NEW p \in Packets
    PROVE  /\ Halves(p) \in Seq(Half) /\ Len(Halves(p)) = 2
           /\ Halves(p)[1] = [packet |-> p, part |-> 1]
           /\ Halves(p)[2] = [packet |-> p, part |-> 2]
  BY DEF Halves, Half, Packets

\* What a receive takes and what it leaves.
LEMMA Splits ==
    ASSUME NEW S, NEW s \in Seq(S), NEW k \in 1..Len(s)
    PROVE  /\ Rest(s, k) \in Seq(S) /\ Len(Rest(s, k)) = Len(s) - k
           /\ \A i \in 1..(Len(s) - k) : Rest(s, k)[i] = s[i + k]
           /\ Chunk(s, k) \in Seq(S) /\ Len(Chunk(s, k)) = k
           /\ \A i \in 1..k : Chunk(s, k)[i] = s[i]
<1>0. /\ k \in Nat /\ Len(s) \in Nat /\ k >= 1 /\ k <= Len(s)
  OBVIOUS
<1> DEFINE r == SubSeq(s, k + 1, Len(s))
           c == SubSeq(s, 1, k)
<1>1. /\ r \in Seq(S)
      /\ Len(r) = IF k + 1 <= Len(s) THEN Len(s) - (k + 1) + 1 ELSE 0
      /\ \A i \in 1..(Len(s) - (k + 1) + 1) : r[i] = s[(k + 1) + i - 1]
  BY <1>0, SubSeqProperties
<1>2. /\ c \in Seq(S)
      /\ Len(c) = IF 1 <= k THEN k - 1 + 1 ELSE 0
      /\ \A i \in 1..(k - 1 + 1) : c[i] = s[1 + i - 1]
  BY <1>0, SubSeqProperties
<1>3. Rest(s, k) = r /\ Chunk(s, k) = c
  BY DEF Rest, Chunk
<1> HIDE DEF r, c
<1>4. PICK n \in Nat : n = Len(s)
  BY <1>0
<1>5. Len(r) = n - k
  BY <1>0, <1>1, <1>4
<1>6. \A i \in 1..(n - k) : r[i] = s[i + k]
  BY <1>0, <1>1, <1>4
<1>7. Len(c) = k /\ \A i \in 1..k : c[i] = s[i]
  BY <1>0, <1>2
<1> QED
  BY <1>1, <1>2, <1>3, <1>4, <1>5, <1>6, <1>7

-----------------------------------------------------------------------------
(* How the texts of a stream, and those already seen, change.              *)

\* The texts of Unbroken, one by one.
Holds(stream, seen, texts) ==
    \A t : t \in texts <=> \/ \E i \in 1..Len(seen) : seen[i] = t
                           \/ \E i \in Ends(stream) : stream[i].packet.id = t
Rises(stream, seen) ==
    /\ \A i, j \in 1..Len(seen) : i < j => seen[i] < seen[j]
    /\ \A i, j \in Ends(stream) : i < j => stream[i].packet.id < stream[j].packet.id
    /\ \A i \in 1..Len(seen), j \in Ends(stream) : seen[i] < stream[j].packet.id

LEMMA UnbrokenIs ==
    ASSUME NEW stream, NEW seen, NEW texts
    PROVE  Unbroken(stream, seen, texts)
                <=> Holds(stream, seen, texts) /\ Rises(stream, seen)
<1> DEFINE both == {seen[i] : i \in 1..Len(seen)}
                        \cup {stream[i].packet.id : i \in Ends(stream)}
<1>1. \A t : t \in both <=> \/ \E i \in 1..Len(seen) : seen[i] = t
                            \/ \E i \in Ends(stream) : stream[i].packet.id = t
  OBVIOUS
<1>2. Unbroken(stream, seen, texts) <=> both = texts /\ Rises(stream, seen)
  BY DEF Unbroken, Rises
<1> HIDE DEF both
<1>3. both = texts <=> (\A t : t \in both <=> t \in texts)
  OBVIOUS
<1>4. (\A t : t \in both <=> t \in texts) <=> Holds(stream, seen, texts)
  BY <1>1 DEF Holds
<1> QED
  BY <1>2, <1>3, <1>4

\* A half without a text is received.
LEMMA SilentSkipped ==
    ASSUME NEW stream \in Seq(Half), NEW k \in 1..Len(stream), Silent(stream, k),
           NEW seen, NEW texts, Unbroken(stream, seen, texts)
    PROVE  Unbroken(Rest(stream, k), seen, texts)
<1> DEFINE r == Rest(stream, k)
<1>1. PICK n \in Nat : n = Len(stream)
  OBVIOUS
<1>2. /\ r \in Seq(Half) /\ Len(r) = n - k /\ k \in 1..n
      /\ \A i \in 1..(n - k) : r[i] = stream[i + k]
  BY <1>1, Splits
<1> HIDE DEF r
<1>3. \A i \in Ends(r) : i \in Nat /\ i + k \in Ends(stream) /\ r[i] = stream[i + k]
  BY <1>1, <1>2 DEF Ends
<1>4. \A i \in Ends(stream) : i \in Nat /\ i - k \in Ends(r) /\ r[i - k] = stream[i]
  <2> SUFFICES ASSUME NEW i \in Ends(stream)
               PROVE  i \in Nat /\ i - k \in Ends(r) /\ r[i - k] = stream[i]
    OBVIOUS
  <2>1. i \in 1..n /\ i > k
    BY <1>1 DEF Ends, Silent
  <2>2. i - k \in 1..(n - k) /\ (i - k) + k = i
    BY <1>2, <2>1
  <2>3. r[i - k] = stream[i]
    BY <1>2, <2>2
  <2> QED
    BY <1>2, <2>1, <2>2, <2>3 DEF Ends
<1>5. Holds(stream, seen, texts) /\ Rises(stream, seen)
  BY UnbrokenIs
<1>6. Holds(r, seen, texts)
  <2>1. \A t : (\E i \in Ends(r) : r[i].packet.id = t)
                  <=> \E i \in Ends(stream) : stream[i].packet.id = t
    <3>1. ASSUME NEW t, NEW i \in Ends(r), r[i].packet.id = t
          PROVE  \E j \in Ends(stream) : stream[j].packet.id = t
      BY <1>3, <3>1
    <3>2. ASSUME NEW t, NEW i \in Ends(stream), stream[i].packet.id = t
          PROVE  \E j \in Ends(r) : r[j].packet.id = t
      BY <1>4, <3>2
    <3> QED
      BY <3>1, <3>2
  <2> QED
    BY <1>5, <2>1 DEF Holds
<1>7. Rises(r, seen)
  <2>1. \A i, j \in Ends(r) : i < j => r[i].packet.id < r[j].packet.id
    <3> SUFFICES ASSUME NEW i \in Ends(r), NEW j \in Ends(r), i < j
                 PROVE  r[i].packet.id < r[j].packet.id
      OBVIOUS
    <3>1. i + k < j + k
      BY <1>2, <1>3
    <3> QED
      BY <1>3, <1>5, <3>1 DEF Rises
  <2> QED
    BY <1>3, <1>5, <2>1 DEF Rises
<1> QED
  BY <1>6, <1>7, UnbrokenIs DEF r

\* What is sent brings no text to its end: part of one, or another packet.
LEMMA SilentAppended ==
    ASSUME NEW stream \in Seq(Half), NEW more \in Seq(Half), Ends(more) = {},
           NEW seen, NEW texts, Unbroken(stream, seen, texts)
    PROVE  Unbroken(stream \o more, seen, texts)
<1> DEFINE r == stream \o more
<1>1. PICK n \in Nat, m \in Nat : n = Len(stream) /\ m = Len(more)
  OBVIOUS
<1>2. /\ Len(r) = n + m
      /\ \A i \in 1..(n + m) : r[i] = IF i <= n THEN stream[i] ELSE more[i - n]
  BY <1>1, ConcatProperties
<1> HIDE DEF r
<1>3. \A i \in Ends(stream) : i \in Ends(r) /\ r[i] = stream[i]
  BY <1>1, <1>2 DEF Ends
<1>4. \A i \in Ends(r) : i \in Ends(stream)
  <2> SUFFICES ASSUME NEW i \in Ends(r) PROVE i \in Ends(stream)
    OBVIOUS
  <2>1. i \in 1..(n + m) /\ r[i].packet.type = "text" /\ r[i].part = 2
    BY <1>2 DEF Ends
  <2>2. CASE i <= n
    BY <1>1, <1>2, <2>1, <2>2 DEF Ends
  <2>3. CASE i > n
    <3>1. i - n \in 1..m /\ r[i] = more[i - n]
      BY <1>2, <2>1, <2>3
    <3>2. i - n \in Ends(more)
      BY <1>1, <2>1, <3>1 DEF Ends
    <3> QED
      BY <3>2
  <2> QED
    BY <2>1, <2>2, <2>3
<1>5. Holds(stream, seen, texts) /\ Rises(stream, seen)
  BY UnbrokenIs
<1>6. Holds(r, seen, texts) /\ Rises(r, seen)
  BY <1>3, <1>4, <1>5 DEF Holds, Rises
<1> QED
  BY <1>6, UnbrokenIs DEF r

\* A text is sent whole, later than all the others.
LEMMA TextAppended ==
    ASSUME NEW stream \in Seq(Half), NEW n \in 0..Answered,
           NEW texts, \A t \in texts : t < n,
           NEW seen, Unbroken(stream, seen, texts)
    PROVE  Unbroken(stream \o Halves(Text(n)), seen, texts \cup {n})
<1> DEFINE more == Halves(Text(n))
           r == stream \o more
<1>1. PICK m \in Nat : m = Len(stream)
  OBVIOUS
<1>2. /\ more \in Seq(Half) /\ Len(more) = 2
      /\ more[1] = [packet |-> Text(n), part |-> 1]
      /\ more[2] = [packet |-> Text(n), part |-> 2]
  BY TextIsPacket, HalvesTyped
<1> HIDE DEF more
<1>3. /\ Len(r) = m + 2
      /\ \A i \in 1..(m + 2) : r[i] = IF i <= m THEN stream[i] ELSE more[i - m]
  <2>1. more \in Seq(Half) /\ Len(more) = 2
    BY <1>2
  <2>2. Len(r) = Len(stream) + Len(more)
    BY <2>1, ConcatProperties
  <2>3. \A i \in 1..(Len(stream) + Len(more)) :
            r[i] = IF i <= Len(stream) THEN stream[i] ELSE more[i - Len(stream)]
    BY <2>1, ConcatProperties
  <2> QED
    BY <1>1, <2>1, <2>2, <2>3
<1> HIDE DEF r
<1>4. r[m + 1] = more[1] /\ r[m + 2] = more[2]
  BY <1>1, <1>3
<1>5. r[m + 2].packet = Text(n) /\ r[m + 2].part = 2 /\ r[m + 1].part = 1
  BY <1>2, <1>4
<1>6. \A i \in Ends(stream) : i \in Ends(r) /\ r[i] = stream[i] /\ i \in 1..m
  BY <1>1, <1>3 DEF Ends
<1>7. m + 2 \in Ends(r) /\ r[m + 2].packet.id = n
  BY <1>3, <1>5 DEF Ends, Text
<1>8. \A i \in Ends(r) : i = m + 2 \/ (i \in Ends(stream) /\ r[i] = stream[i])
  <2> SUFFICES ASSUME NEW i \in Ends(r), i # m + 2
               PROVE  i \in Ends(stream) /\ r[i] = stream[i]
    OBVIOUS
  <2>1. i \in 1..(m + 2) /\ r[i].packet.type = "text" /\ r[i].part = 2
    BY <1>3 DEF Ends
  <2>2. i # m + 1
    BY <1>5, <2>1
  <2>3. i \in 1..m
    BY <1>1, <2>1, <2>2
  <2>4. r[i] = stream[i]
    BY <1>1, <1>3, <2>3
  <2> QED
    BY <1>1, <2>1, <2>3, <2>4 DEF Ends
<1>9. Holds(stream, seen, texts) /\ Rises(stream, seen)
  BY UnbrokenIs
<1>10. Holds(r, seen, texts \cup {n})
  <2>1. \A t : (\E i \in Ends(r) : r[i].packet.id = t)
                  <=> t = n \/ \E i \in Ends(stream) : stream[i].packet.id = t
    <3>1. ASSUME NEW t, NEW i \in Ends(r), r[i].packet.id = t
          PROVE  t = n \/ \E j \in Ends(stream) : stream[j].packet.id = t
      BY <1>7, <1>8, <3>1
    <3>2. ASSUME NEW t, NEW i \in Ends(stream), stream[i].packet.id = t
          PROVE  \E j \in Ends(r) : r[j].packet.id = t
      BY <1>6, <3>2
    <3> QED
      BY <1>7, <3>1, <3>2
  <2> QED
    BY <1>9, <2>1 DEF Holds
<1>11. Rises(r, seen)
  <2>1. \A i \in Ends(stream) : stream[i].packet.id < n
    BY <1>9 DEF Holds
  <2>2. \A i \in 1..Len(seen) : seen[i] < n
    BY <1>9 DEF Holds
  <2>3. ASSUME NEW i \in Ends(r), NEW j \in Ends(r), i < j
        PROVE  r[i].packet.id < r[j].packet.id
    <3>1. i # m + 2
      BY <1>1, <1>6, <1>8, <2>3
    <3>2. i \in Ends(stream) /\ r[i] = stream[i]
      BY <1>8, <3>1
    <3>3. CASE j = m + 2
      BY <1>7, <2>1, <3>2, <3>3
    <3>4. CASE j # m + 2
      <4>1. j \in Ends(stream) /\ r[j] = stream[j]
        BY <1>8, <3>4
      <4> QED
        BY <1>9, <2>3, <3>2, <4>1 DEF Rises
    <3> QED
      BY <3>3, <3>4
  <2>4. ASSUME NEW i \in 1..Len(seen), NEW j \in Ends(r)
        PROVE  seen[i] < r[j].packet.id
    BY <1>7, <1>8, <1>9, <2>2 DEF Rises
  <2> QED
    BY <1>9, <2>3, <2>4 DEF Rises
<1> QED
  BY <1>10, <1>11, UnbrokenIs DEF r, more

\* A text is received whole, and shown.
LEMMA TextShown ==
    ASSUME NEW stream \in Seq(Half), NEW k \in 1..Len(stream),
           NEW n \in 0..Answered, Chunk(stream, k) = Halves(Text(n)),
           NEW S, NEW seen \in Seq(S), n \in S,
           NEW texts, Unbroken(stream, seen, texts)
    PROVE  Unbroken(Rest(stream, k), Append(seen, n), texts)
<1> DEFINE r == Rest(stream, k)
           c == Chunk(stream, k)
           shows == Append(seen, n)
<1>1. PICK m \in Nat, l \in Nat : m = Len(stream) /\ l = Len(seen)
  OBVIOUS
<1>2. /\ r \in Seq(Half) /\ Len(r) = m - k /\ k \in 1..m
      /\ \A i \in 1..(m - k) : r[i] = stream[i + k]
      /\ Len(c) = k /\ \A i \in 1..k : c[i] = stream[i]
  BY <1>1, Splits
<1>3. /\ Len(c) = 2
      /\ c[1] = [packet |-> Text(n), part |-> 1]
      /\ c[2] = [packet |-> Text(n), part |-> 2]
  BY TextIsPacket, HalvesTyped
<1>4. /\ Len(shows) = l + 1
      /\ \A i \in 1..l : shows[i] = seen[i]
      /\ shows[l + 1] = n
  BY <1>1, AppendProperties
<1> HIDE DEF r, c, shows
<1>5. k = 2 /\ stream[1].part = 1 /\ stream[2].part = 2 /\ stream[2].packet = Text(n)
  BY <1>2, <1>3
<1>6. 2 \in Ends(stream) /\ stream[2].packet.id = n
  BY <1>1, <1>2, <1>5 DEF Ends, Text
<1>7. \A i \in Ends(r) : i \in Nat /\ i > 0 /\ i + 2 \in Ends(stream) /\ r[i] = stream[i + 2]
  BY <1>1, <1>2, <1>5 DEF Ends
<1>8. \A i \in Ends(stream) :
        /\ i \in Nat
        /\ i = 2 \/ (i - 2 \in Ends(r) /\ r[i - 2] = stream[i])
  <2> SUFFICES ASSUME NEW i \in Ends(stream), i # 2
               PROVE  i \in Nat /\ i - 2 \in Ends(r) /\ r[i - 2] = stream[i]
    BY DEF Ends
  <2>1. i \in 1..m /\ stream[i].part = 2
    BY <1>1 DEF Ends
  <2>2. i # 1
    BY <1>5, <2>1
  <2>3. i - 2 \in 1..(m - 2) /\ (i - 2) + 2 = i
    BY <1>1, <2>1, <2>2
  <2>4. r[i - 2] = stream[i]
    BY <1>2, <1>5, <2>3
  <2> QED
    BY <1>2, <1>5, <2>1, <2>3, <2>4 DEF Ends
<1>9. Holds(stream, seen, texts) /\ Rises(stream, seen)
  BY UnbrokenIs
<1>10. Holds(r, shows, texts)
  <2>1. \A t : (\E i \in 1..Len(shows) : shows[i] = t)
                  <=> t = n \/ \E i \in 1..Len(seen) : seen[i] = t
    BY <1>1, <1>4
  <2>2. \A t : (\E i \in Ends(stream) : stream[i].packet.id = t)
                  <=> t = n \/ \E i \in Ends(r) : r[i].packet.id = t
    <3>1. ASSUME NEW t, NEW i \in Ends(r), r[i].packet.id = t
          PROVE  \E j \in Ends(stream) : stream[j].packet.id = t
      BY <1>7, <3>1
    <3>2. ASSUME NEW t, NEW i \in Ends(stream), stream[i].packet.id = t
          PROVE  t = n \/ \E j \in Ends(r) : r[j].packet.id = t
      BY <1>6, <1>8, <3>2
    <3> QED
      BY <1>6, <3>1, <3>2
  <2> QED
    BY <1>9, <2>1, <2>2 DEF Holds
<1>11. Rises(r, shows)
  <2>1. ASSUME NEW i \in 1..Len(shows), NEW j \in 1..Len(shows), i < j
        PROVE  shows[i] < shows[j]
    <3>1. i \in 1..l /\ shows[i] = seen[i]
      BY <1>1, <1>4, <2>1
    <3>2. CASE j = l + 1
      BY <1>1, <1>4, <1>6, <1>9, <3>1, <3>2 DEF Rises
    <3>3. CASE j # l + 1
      <4>1. j \in 1..l /\ shows[j] = seen[j]
        BY <1>1, <1>4, <2>1, <3>3
      <4> QED
        BY <1>1, <1>9, <2>1, <3>1, <4>1 DEF Rises
    <3> QED
      BY <3>2, <3>3
  <2>2. ASSUME NEW i \in Ends(r), NEW j \in Ends(r), i < j
        PROVE  r[i].packet.id < r[j].packet.id
    <3>1. i + 2 < j + 2
      BY <1>7, <2>2
    <3> QED
      BY <1>7, <1>9, <3>1 DEF Rises
  <2>3. ASSUME NEW i \in 1..Len(shows), NEW j \in Ends(r)
        PROVE  shows[i] < r[j].packet.id
    <3>1. j + 2 \in Ends(stream) /\ 2 < j + 2 /\ r[j] = stream[j + 2]
      BY <1>7
    <3>2. CASE i = l + 1
      <4>1. n < r[j].packet.id
        BY <1>6, <1>9, <3>1 DEF Rises
      <4> QED
        BY <1>4, <3>2, <4>1
    <3>3. CASE i # l + 1
      <4>1. i \in 1..l /\ shows[i] = seen[i]
        BY <1>1, <1>4, <3>3
      <4> QED
        BY <1>1, <1>9, <3>1, <4>1 DEF Rises
    <3> QED
      BY <3>2, <3>3
  <2> QED
    BY <2>1, <2>2, <2>3 DEF Rises
<1> QED
  BY <1>10, <1>11, UnbrokenIs DEF r, shows

-----------------------------------------------------------------------------
(* The inductive invariant.                                                *)

\* Halves the client has still to write and the server has still to read.
Pending == Len(up) + Len(writing)
NoCredentials(stream) ==
    \A i \in 1..Len(stream) : stream[i].packet.type # "credentials"

\* How far the client can be, by the status of the connection: the server
\* goes on only when the client has, or when it never will.
BeforeLogin ==
    \/ /\ app = "HasntBegun" /\ up = <<>> /\ writing = <<>>
       /\ down = Halves(Packet("pubkey"))
    \/ /\ app = "SentCredentials" /\ down = <<>>
       /\ up \o writing = Halves(Packet("credentials"))
    \/ /\ app # "HasntBegun"
       /\ NoCredentials(up) /\ NoCredentials(writing)
BeforeKey ==
    /\ app # "HasntBegun"
    /\ app = "SentCredentials" => up = <<>> /\ writing = <<>>
    /\ Pending <= 2 * typed + 2
AfterKey ==
    /\ app \notin {"HasntBegun", "SentCredentials"}
    /\ Pending <= 2 * typed + 1
    /\ sent + Pending <= MaxSent + 2 * typed + 1
Stages ==
    /\ auth = "none" =>
            app = "HasntBegun" /\ up = <<>> /\ writing = <<>> /\ down = <<>>
    /\ auth = "Undone" => BeforeLogin
    /\ auth = "KeyReceived" => BeforeKey
    /\ auth = "Done" => AfterKey
    /\ auth \in {"none", "Undone", "KeyReceived"} => sent = 0
    /\ app \in {"HasntBegun", "SentCredentials"} => sent = 0

\* NoGaps, also before the handshake is over.
Texts == (1..sent) \ lost
Continuous ==
    app \in Handshaking \cup {"chatting"} => Unbroken(down, shown, Texts)

-----------------------------------------------------------------------------
(* What the server's sends do.                                             *)

\* As much as there is room for is put behind what is there.
LEMMA SendFits ==
    ASSUME TypeOK, NEW p \in Packets, Send(p)
    PROVE  /\ down' \in Seq(Half) /\ Len(down') <= DownRoom
           /\ Room >= 2 => down' = down \o Halves(p)
           /\ \E more \in Seq(Half) :
                /\ down' = down \o more
                /\ \A i \in 1..Len(more) : more[i].packet = p
                /\ Room < 2 => Ends(more) = {}
<1> DEFINE whole == Halves(p)
<1>1. PICK s \in Seq(Half), n \in Nat, free \in Nat :
        s = down /\ n = Len(s) /\ n + free = DownRoom /\ Room = free
  BY Bounds DEF TypeOK, Send, SendReturns, Room
<1>2. /\ whole \in Seq(Half) /\ Len(whole) = 2
      /\ whole[1] = [packet |-> p, part |-> 1]
      /\ whole[2] = [packet |-> p, part |-> 2]
  BY HalvesTyped
<1> HIDE DEF whole
<1>3. down' = s \o WhatFits(p)
  BY <1>1 DEF Send
<1>4. CASE Room >= 2
  <2>0. whole \in Seq(Half) /\ Len(whole) = 2
    BY <1>2
  <2>1. WhatFits(p) = whole
    BY <1>1, <1>4 DEF WhatFits, whole
  <2>2. PICK t \in Seq(Half) : t = s \o whole
    BY <2>0, ConcatProperties
  <2>3. Len(t) = n + 2
    <3>1. Len(s \o whole) = Len(s) + Len(whole)
      BY <2>0, ConcatProperties
    <3> QED
      BY <1>1, <2>0, <2>2, <3>1
  <2>4. down' = t /\ Len(t) <= DownRoom
    BY <1>1, <1>3, <1>4, <2>1, <2>2, <2>3, Bounds
  <2>5. \A i \in 1..Len(whole) : whole[i].packet = p
    BY <1>2
  <2>6. down' = down \o whole /\ ~(Room < 2)
    BY <1>1, <1>4, <2>2, <2>4
  <2>7. down' \in Seq(Half) /\ Len(down') <= DownRoom
    BY <2>4
  <2> QED
    BY <2>0, <2>5, <2>6, <2>7 DEF whole
<1>5. CASE Room < 2
  <2> DEFINE part == SubSeq(whole, 1, free)
  <2>1. free \in {0, 1}
    BY <1>1, <1>5
  <2>2. WhatFits(p) = part
    BY <1>1, <1>5 DEF WhatFits, whole
  <2>3. /\ part \in Seq(Half)
        /\ Len(part) = IF 1 <= free THEN free - 1 + 1 ELSE 0
        /\ \A i \in 1..(free - 1 + 1) : part[i] = whole[1 + i - 1]
    BY <1>2, <2>1, SubSeqProperties
  <2> HIDE DEF part
  <2>4. Len(part) = free /\ \A i \in 1..free : part[i] = whole[1]
    BY <2>1, <2>3
  <2>5. PICK t \in Seq(Half) : t = s \o part
    BY <2>3, ConcatProperties
  <2>6. Len(t) = n + free
    BY <1>1, <2>3, <2>4, <2>5, ConcatProperties
  <2>7. down' = t /\ Len(t) <= DownRoom
    BY <1>1, <1>3, <2>2, <2>5, <2>6, Bounds
  <2>8. \A i \in 1..Len(part) : part[i].packet = p /\ part[i].part = 1
    BY <1>2, <2>4
  <2>9. Ends(part) = {}
    BY <2>8 DEF Ends
  <2>10. down' = down \o part /\ ~(Room >= 2) /\ part \in Seq(Half)
    BY <1>1, <1>5, <2>3, <2>5, <2>7
  <2>11. down' \in Seq(Half) /\ Len(down') <= DownRoom
    BY <2>7
  <2> QED
    BY <2>8, <2>9, <2>10, <2>11
<1>6. Room >= 2 \/ Room < 2
  BY <1>1
<1> QED
  BY <1>4, <1>5, <1>6

\* A packet of another kind changes no text on its way.
LEMMA SendSilent ==
    ASSUME TypeOK, NEW p \in Packets, p.type # "text", Send(p),
           NEW texts, Unbroken(down, shown, texts)
    PROVE  Unbroken(down', shown, texts)
<1>1. PICK more \in Seq(Half) :
        down' = down \o more /\ \A i \in 1..Len(more) : more[i].packet = p
  BY SendFits
<1>2. Ends(more) = {}
  BY <1>1 DEF Ends
<1>3. PICK s \in Seq(Half) : s = down
  BY DEF TypeOK
<1>4. Unbroken(s \o more, shown, texts)
  BY <1>2, <1>3, SilentAppended
<1> QED
  BY <1>1, <1>3, <1>4

\* A text is there whole, or among the lost.
LEMMA SendTextKeeps ==
    ASSUME TypeOK, sent + 1 <= Answered, SendText
    PROVE  /\ down' \in Seq(Half) /\ Len(down') <= DownRoom
           /\ sent' = sent + 1 /\ sent' \in 0..Answered /\ lost' \subseteq 1..sent'
           /\ shown \in Seq(1..sent')
           /\ Unbroken(down, shown, Texts) => Unbroken(down', shown, Texts')
<1>1. PICK n \in 0..Answered : n = sent + 1
  BY Bounds DEF TypeOK
<1>2. Text(n) \in Packets /\ Send(Text(n)) /\ sent' = n
  BY <1>1, TextIsPacket DEF SendText
<1>3. sent \in Nat /\ lost \subseteq 1..sent /\ shown \in Seq(1..sent) /\ n \in Nat
  BY <1>1, Bounds DEF TypeOK
<1>4. shown \in Seq(1..n)
  <2>1. 1..sent \subseteq 1..n
    BY <1>1, <1>3
  <2> QED
    BY <1>3, <2>1, SeqMonotonic
<1>5. CASE Room < 2
  <2>1. lost' = lost \cup {n}
    BY <1>1, <1>5 DEF SendText
  <2>2. lost' \subseteq 1..n /\ Texts' = Texts
    BY <1>1, <1>2, <1>3, <2>1 DEF Texts
  <2>3. ASSUME Unbroken(down, shown, Texts) PROVE Unbroken(down', shown, Texts)
    <3>1. PICK more \in Seq(Half) : down' = down \o more /\ Ends(more) = {}
      BY <1>2, <1>5, SendFits
    <3>2. PICK s \in Seq(Half) : s = down
      BY DEF TypeOK
    <3>3. Unbroken(s \o more, shown, Texts)
      BY <2>3, <3>1, <3>2, SilentAppended
    <3> QED
      BY <3>1, <3>2, <3>3
  <2> QED
    BY <1>1, <1>2, <1>4, <2>2, <2>3, SendFits
<1>6. CASE Room >= 2
  <2>1. lost' = lost
    <3>1. ~(Room < 2)
      BY <1>6, Bounds DEF Room, TypeOK
    <3> QED
      BY <3>1 DEF SendText
  <2>2. lost' \subseteq 1..n /\ Texts' = Texts \cup {n} /\ \A t \in Texts : t < n
    BY <1>1, <1>2, <1>3, <2>1 DEF Texts
  <2>3. ASSUME Unbroken(down, shown, Texts)
        PROVE  Unbroken(down', shown, Texts \cup {n})
    <3>1. down' = down \o Halves(Text(n))
      BY <1>2, <1>6, SendFits
    <3>2. PICK s \in Seq(Half) : s = down
      BY DEF TypeOK
    <3>3. Unbroken(s \o Halves(Text(n)), shown, Texts \cup {n})
      BY <2>2, <2>3, <3>2, TextAppended
    <3> QED
      BY <3>1, <3>2, <3>3
  <2> QED
    BY <1>1, <1>2, <1>4, <2>2, <2>3, SendFits
<1>7. Room < 2 \/ Room >= 2
  BY Bounds DEF Room, TypeOK
<1> QED
  BY <1>5, <1>6, <1>7

-----------------------------------------------------------------------------
(* The server's steps keep the invariant.                                  *)

IInv == TypeOK /\ Stages /\ Continuous

\* One more text keeps within the bound that the commands set.
LEMMA AnswersBounded ==
    ASSUME TypeOK, AfterKey, sent < MaxSent \/ up # <<>>
    PROVE  sent + 1 <= Answered
<1>1. PICK u \in Nat, w \in Nat, t \in Nat, n \in Nat :
        u = Len(up) /\ w = Len(writing) /\ t = typed /\ n = sent
  BY Bounds DEF TypeOK
<1>2. t <= MaxTyped /\ n + (u + w) <= MaxSent + 2 * t + 1
  BY <1>1, Bounds DEF TypeOK, AfterKey, Pending
<1>3. up # <<>> => u >= 1
  BY <1>1, EmptySeq DEF TypeOK
<1> QED
  BY <1>1, <1>2, <1>3, Bounds DEF Answered

LEMMA AcceptKeeps ==
    ASSUME IInv, Accept
    PROVE  IInv'
<1>1. /\ auth = "none" /\ auth' = "Undone" /\ Send(Packet("pubkey"))
      /\ UNCHANGED <<up, sent, lost, program, app, writing, typed, shown>>
  BY DEF Accept, peer
<1>2. app = "HasntBegun" /\ up = <<>> /\ writing = <<>> /\ down = <<>> /\ sent = 0
  BY <1>1 DEF IInv, Stages
<1>3. Packet("pubkey") \in Packets /\ Packet("pubkey").type # "text"
  BY PacketIsPacket DEF Types, Packet
<1>4. TypeOK'
  BY <1>1, <1>3, SendFits DEF IInv, TypeOK
<1>5. Stages'
  <2>1. Len(down) = 0
    BY <1>2
  <2>2. Room >= 2
    BY <2>1, StreamAssumption DEF Room
  <2>3. down' = <<>> \o Halves(Packet("pubkey"))
    BY <1>1, <1>2, <1>3, <2>2, SendFits DEF IInv
  <2>4. down' = Halves(Packet("pubkey"))
    BY <1>3, <2>3, HalvesTyped, ConcatEmptySeq
  <2> QED
    BY <1>1, <1>2, <2>4 DEF Stages, BeforeLogin
<1>6. Continuous'
  BY <1>1, <1>3, SendSilent DEF IInv, Continuous, Texts
<1> QED
  BY <1>4, <1>5, <1>6 DEF IInv

\* A connection closes: what is on its way down stays.
LEMMA CloseKeeps ==
    ASSUME IInv, Close, up' \in Seq(Half), Len(up') <= UpRoom, UNCHANGED peer
    PROVE  IInv'
<1>1. /\ auth' = "closed"
      /\ UNCHANGED <<down, sent, lost, program, app, writing, typed, shown>>
  BY DEF Close, peer
<1> QED
  BY <1>1 DEF IInv, TypeOK, Stages, Continuous, Texts

LEMMA PassOnKeeps ==
    ASSUME IInv, PassOn
    PROVE  IInv'
<1>1. UNCHANGED <<up, program, app, writing, typed, shown>>
  BY DEF PassOn, peer
<1>2. CASE auth = "Done" /\ sent < MaxSent /\ SendText /\ UNCHANGED auth
  <2>1. AfterKey /\ TypeOK
    BY <1>2 DEF IInv, Stages
  <2>2. sent + 1 <= Answered
    BY <1>2, <2>1, AnswersBounded
  <2>3. /\ down' \in Seq(Half) /\ Len(down') <= DownRoom
        /\ sent' = sent + 1 /\ sent' \in 0..Answered /\ lost' \subseteq 1..sent'
        /\ shown \in Seq(1..sent')
        /\ Unbroken(down, shown, Texts) => Unbroken(down', shown, Texts')
    BY <1>2, <2>1, <2>2, SendTextKeeps
  <2>4. TypeOK'
    BY <1>1, <1>2, <2>3 DEF IInv, TypeOK
  <2>5. Stages'
    <3>1. PICK l \in Nat, t \in Nat, n \in Nat : l = Pending /\ t = typed /\ n = sent
      BY <2>1, Bounds DEF TypeOK, Pending
    <3>2. l <= 2 * t + 1
      BY <2>1, <3>1 DEF AfterKey
    <3>3. Pending' = l /\ typed' = t /\ sent' = n + 1
      BY <1>1, <2>3, <3>1 DEF Pending
    <3>4. AfterKey'
      BY <1>1, <1>2, <2>1, <3>1, <3>2, <3>3, Bounds DEF AfterKey
    <3> QED
      BY <1>1, <1>2, <2>1, <3>4 DEF Stages, AfterKey
  <2>6. Continuous'
    BY <1>1, <2>3 DEF IInv, Continuous
  <2> QED
    BY <2>4, <2>5, <2>6 DEF IInv
<1>3. CASE auth = "KeyReceived" /\ Send(Packet("early")) /\ UNCHANGED <<auth, sent, lost>>
  <2>1. Packet("early") \in Packets /\ Packet("early").type # "text"
    BY PacketIsPacket DEF Types, Packet
  <2>2. TypeOK'
    BY <1>1, <1>3, <2>1, SendFits DEF IInv, TypeOK
  <2>3. Stages'
    BY <1>1, <1>3 DEF IInv, Stages, BeforeKey, Pending
  <2>4. Continuous'
    BY <1>1, <1>3, <2>1, SendSilent DEF IInv, Continuous, Texts
  <2> QED
    BY <2>2, <2>3, <2>4 DEF IInv
<1>4. CASE Close
  BY <1>1, <1>4, CloseKeeps DEF IInv, TypeOK, peer
<1> QED
  BY <1>2, <1>3, <1>4 DEF PassOn

LEMMA PeerGoneKeeps ==
    ASSUME IInv, PeerGone
    PROVE  IInv'
  BY CloseKeeps DEF IInv, TypeOK, PeerGone

\* A chunk is received: the server's side of the connection shrinks by it.
LEMMA ReceivedShrinks ==
    ASSUME TypeOK, NEW k \in 1..Len(up), up' = Rest(up, k), UNCHANGED peer
    PROVE  /\ up' \in Seq(Half) /\ Len(up') <= UpRoom /\ up # <<>>
           /\ Pending \in Nat /\ Pending' \in Nat /\ Pending' <= Pending - 1
<1>1. PICK s \in Seq(Half), u \in Nat : s = up /\ u = Len(s)
  BY DEF TypeOK
<1>2. k \in 1..u /\ Rest(s, k) \in Seq(Half) /\ Len(Rest(s, k)) = u - k
  BY <1>1, Splits
<1>3. PICK w \in Nat : w = Len(writing)
  BY DEF TypeOK
<1>4. Pending = u + w /\ Pending' = (u - k) + w
  BY <1>1, <1>2, <1>3 DEF Pending, peer
<1>5. up # <<>>
  BY <1>1, <1>2, EmptySeq
<1>6. u <= UpRoom
  BY <1>1 DEF TypeOK
<1>7. u - k \in Nat /\ u - k <= UpRoom
  BY <1>2, <1>6, Bounds
<1>8. Pending \in Nat /\ Pending' \in Nat /\ Pending' <= Pending - 1
  BY <1>2, <1>4, <1>7
<1> QED
  BY <1>1, <1>2, <1>5, <1>7, <1>8

\* A chunk that is one packet.
LEMMA ChunkIsPacket ==
    ASSUME NEW stream \in Seq(Half), NEW k \in 1..Len(stream), NEW p \in Packets,
           Chunk(stream, k) = Halves(p)
    PROVE  k = 2 /\ stream[1].packet = p /\ stream[2].packet = p
<1> DEFINE c == Chunk(stream, k)
           whole == Halves(p)
<1>1. Len(c) = k /\ \A i \in 1..k : c[i] = stream[i]
  BY Splits
<1>2. /\ Len(whole) = 2
      /\ whole[1] = [packet |-> p, part |-> 1]
      /\ whole[2] = [packet |-> p, part |-> 2]
  BY HalvesTyped
<1>3. c = whole
  OBVIOUS
<1> HIDE DEF c, whole
<1>4. k = 2
  BY <1>1, <1>2, <1>3
<1>5. 1 \in 1..k /\ 2 \in 1..k
  BY <1>4
<1>6. c[1] = stream[1] /\ c[2] = stream[2]
  BY <1>1, <1>5
<1> QED
  BY <1>2, <1>3, <1>4, <1>6

\* The credentials arrive whole, and nothing behind them.
LEMMA CredentialsWhole ==
    ASSUME TypeOK, BeforeLogin, NEW k \in 1..Len(up),
           Chunk(up, k) = Halves(Packet("credentials"))
    PROVE  app = "SentCredentials" /\ Rest(up, k) = <<>> /\ writing = <<>>
<1> DEFINE whole == Halves(Packet("credentials"))
<1>1. PICK s \in Seq(Half), u \in Nat, t \in Seq(Half), w \in Nat :
        s = up /\ u = Len(s) /\ t = writing /\ w = Len(t)
  BY DEF TypeOK
<1>2. k \in 1..u /\ Rest(s, k) \in Seq(Half) /\ Len(Rest(s, k)) = u - k
  BY <1>1, Splits
<1>3. Packet("credentials") \in Packets /\ Packet("credentials").type = "credentials"
  BY PacketIsPacket DEF Types, Packet
<1>4. k = 2 /\ s[1].packet = Packet("credentials")
  BY <1>1, <1>3, ChunkIsPacket
<1>5. ~NoCredentials(up) /\ up # <<>>
  BY <1>1, <1>2, <1>3, <1>4, EmptySeq DEF NoCredentials
<1>6. app = "SentCredentials" /\ s \o t = whole
  BY <1>1, <1>5 DEF BeforeLogin
<1>7. Len(whole) = 2
  BY <1>3, HalvesTyped
<1> HIDE DEF whole
<1>8. Len(s \o t) = u + w
  BY <1>1, ConcatProperties
<1>9. u + w = 2 /\ k <= u
  <2>1. Len(s \o t) = 2
    BY <1>6, <1>7
  <2>2. k <= u
    BY <1>2
  <2> QED
    BY <1>8, <2>1, <2>2
<1>10. w = 0 /\ u - k = 0
  BY <1>1, <1>2, <1>4, <1>9
<1>11. t = <<>> /\ Rest(s, k) = <<>>
  BY <1>1, <1>2, <1>10, EmptySeq
<1> QED
  BY <1>1, <1>6, <1>11

LEMMA ReceiveKeeps ==
    ASSUME IInv, Receive
    PROVE  IInv'
<1>1. UNCHANGED <<program, app, writing, typed, shown>> /\ UNCHANGED peer
  BY DEF Receive, peer
<1>2. PICK k \in 1..Len(up) :
        /\ \/ ReceiveCredentials(Chunk(up, k))
           \/ ReceiveKey(Chunk(up, k))
           \/ ReceiveCommand(Chunk(up, k))
        /\ up' = Rest(up, k)
  BY DEF Receive
<1>3. /\ up' \in Seq(Half) /\ Len(up') <= UpRoom /\ up # <<>>
      /\ Pending \in Nat /\ Pending' \in Nat /\ Pending' <= Pending - 1
  BY <1>1, <1>2, ReceivedShrinks DEF IInv
<1>4. CASE Close
  BY <1>1, <1>3, <1>4, CloseKeeps
<1>5. CASE ReceiveCredentials(Chunk(up, k)) /\ ~Close
  <2>1. /\ auth = "Undone" /\ auth' = "KeyReceived" /\ Send(Packet("spb"))
        /\ Chunk(up, k) = Halves(Packet("credentials")) /\ UNCHANGED <<sent, lost>>
    BY <1>5 DEF ReceiveCredentials
  <2>2. Packet("spb") \in Packets /\ Packet("spb").type # "text"
    BY PacketIsPacket DEF Types, Packet
  <2>3. TypeOK'
    BY <1>1, <1>3, <2>1, <2>2, SendFits DEF IInv, TypeOK
  <2>4. Stages'
    <3>1. app = "SentCredentials" /\ up' = <<>> /\ writing = <<>>
      BY <1>2, <2>1, CredentialsWhole DEF IInv, Stages
    <3>2. Pending' = 0
      BY <1>1, <3>1 DEF Pending
    <3>3. BeforeKey'
      BY <1>1, <3>1, <3>2 DEF BeforeKey, IInv, TypeOK
    <3> QED
      BY <1>1, <2>1, <3>1, <3>3 DEF Stages, IInv
  <2>5. Continuous'
    BY <1>1, <2>1, <2>2, SendSilent DEF IInv, Continuous, Texts
  <2> QED
    BY <2>3, <2>4, <2>5 DEF IInv
<1>6. CASE ReceiveKey(Chunk(up, k)) /\ ~Close
  <2>1. auth = "KeyReceived" /\ auth' = "Done" /\ UNCHANGED <<sent, lost>>
    BY <1>6 DEF ReceiveKey
  <2>2. PICK p \in {Packet("aes"), Packet("aesTorn")} : Send(p)
    BY <1>6 DEF ReceiveKey
  <2>3. p \in Packets /\ p.type # "text"
    BY PacketIsPacket DEF Types, Packet
  <2>4. TypeOK'
    BY <1>1, <1>3, <2>1, <2>2, <2>3, SendFits DEF IInv, TypeOK
  <2>5. Stages'
    <3>1. BeforeKey /\ sent = 0
      BY <2>1 DEF IInv, Stages
    <3>2. app \notin {"HasntBegun", "SentCredentials"}
      BY <1>3, <3>1 DEF BeforeKey
    <3>3. PICK l \in Nat, m \in Nat, t \in Nat : l = Pending /\ m = Pending' /\ t = typed
      BY <1>3, Bounds DEF IInv, TypeOK
    <3>4. l <= 2 * t + 2 /\ m <= l - 1
      BY <1>3, <3>1, <3>3 DEF BeforeKey
    <3>5. m <= 2 * t + 1 /\ 0 + m <= MaxSent + 2 * t + 1
      BY <3>4, Bounds
    <3>6. AfterKey'
      BY <1>1, <2>1, <3>1, <3>2, <3>3, <3>5 DEF AfterKey
    <3> QED
      BY <1>1, <2>1, <3>1, <3>6 DEF Stages
  <2>6. Continuous'
    BY <1>1, <2>1, <2>2, <2>3, SendSilent DEF IInv, Continuous, Texts
  <2> QED
    BY <2>4, <2>5, <2>6 DEF IInv
<1>7. CASE ReceiveCommand(Chunk(up, k))
  <2>1. auth = "Done" /\ auth' = "Done" /\ AfterKey /\ TypeOK
    BY <1>7 DEF ReceiveCommand, IInv, Stages
  <2>2. PICK l \in Nat, m \in Nat, t \in Nat, n \in Nat :
          l = Pending /\ m = Pending' /\ t = typed /\ n = sent
    BY <1>3, Bounds DEF IInv, TypeOK
  <2>3. l <= 2 * t + 1 /\ n + l <= MaxSent + 2 * t + 1 /\ m <= l - 1
    BY <1>3, <2>1, <2>2 DEF AfterKey
  <2>4. m <= 2 * t + 1 /\ (n + 1) + m <= MaxSent + 2 * t + 1
        /\ n + m <= MaxSent + 2 * t + 1
    BY <2>3, Bounds
  <2>5. CASE UNCHANGED <<down, sent, lost>>
    <3>1. TypeOK'
      BY <1>1, <1>3, <2>1, <2>5 DEF TypeOK
    <3>2. AfterKey'
      BY <1>1, <2>1, <2>2, <2>4, <2>5 DEF AfterKey
    <3>3. Stages'
      BY <1>1, <2>1, <3>2 DEF Stages, AfterKey
    <3>4. Continuous'
      BY <1>1, <2>5 DEF IInv, Continuous, Texts
    <3> QED
      BY <3>1, <3>3, <3>4 DEF IInv
  <2>6. CASE SendText
    <3>1. sent + 1 <= Answered
      BY <1>3, <2>1, AnswersBounded
    <3>2. /\ down' \in Seq(Half) /\ Len(down') <= DownRoom
          /\ sent' = sent + 1 /\ sent' \in 0..Answered /\ lost' \subseteq 1..sent'
          /\ shown \in Seq(1..sent')
          /\ Unbroken(down, shown, Texts) => Unbroken(down', shown, Texts')
      BY <2>1, <2>6, <3>1, SendTextKeeps
    <3>3. TypeOK'
      BY <1>1, <1>3, <2>1, <3>2 DEF TypeOK
    <3>4. AfterKey'
      BY <1>1, <2>1, <2>2, <2>4, <3>2 DEF AfterKey
    <3>5. Stages'
      BY <1>1, <2>1, <3>4 DEF Stages, AfterKey
    <3>6. Continuous'
      BY <1>1, <3>2 DEF IInv, Continuous
    <3> QED
      BY <3>3, <3>5, <3>6 DEF IInv
  <2> QED
    BY <1>7, <2>5, <2>6 DEF ReceiveCommand
<1> QED
  BY <1>2, <1>4, <1>5, <1>6, <1>7

-----------------------------------------------------------------------------
(* The client's steps keep the invariant.                                  *)

\* The stages that only ask that no credentials follow, and not too much.
LEMMA Onwards ==
    ASSUME TypeOK, Stages, app \notin {"HasntBegun", "SentCredentials"},
           app' \notin {"HasntBegun", "SentCredentials"},
           UNCHANGED <<auth, up, sent, typed>>, writing' \in {writing, <<>>}
    PROVE  Stages'
<1>1. PICK u \in Nat, w \in Nat, t \in Nat, n \in Nat :
        u = Len(up) /\ w = Len(writing) /\ t = typed /\ n = sent
  BY Bounds DEF TypeOK
<1>2. PICK v \in Nat : v = Len(writing') /\ v <= w
  BY <1>1, EmptySeq
<1>3. Pending = u + w /\ Pending' = u + v
  BY <1>1, <1>2 DEF Pending
<1>4. ASSUME BeforeLogin PROVE BeforeLogin'
  BY <1>4, EmptySeq DEF BeforeLogin, NoCredentials
<1>5. ASSUME BeforeKey PROVE BeforeKey'
  <2>1. u + w <= 2 * t + 2
    BY <1>1, <1>3, <1>5 DEF BeforeKey
  <2>2. u + v <= 2 * t + 2
    BY <1>1, <1>2, <2>1
  <2> QED
    BY <1>1, <1>3, <2>2 DEF BeforeKey
<1>6. ASSUME AfterKey PROVE AfterKey'
  <2>1. u + w <= 2 * t + 1 /\ n + (u + w) <= MaxSent + 2 * t + 1
    BY <1>1, <1>3, <1>6 DEF AfterKey
  <2>2. u + v <= 2 * t + 1 /\ n + (u + v) <= MaxSent + 2 * t + 1
    BY <1>1, <1>2, <2>1, Bounds
  <2> QED
    BY <1>1, <1>3, <2>2 DEF AfterKey
<1> QED
  BY <1>4, <1>5, <1>6 DEF Stages

\* Nothing has been sent that a text could end in.
LEMMA NothingYet ==
    ASSUME IInv, sent = 0, app \in Handshaking
    PROVE  Ends(down) = {}
<1>1. Texts = {}
  BY DEF IInv, TypeOK, Texts
<1>2. Holds(down, shown, {})
  BY <1>1, UnbrokenIs DEF IInv, Continuous
<1> QED
  BY <1>2 DEF Holds

LEMMA OtherHalves ==
    ASSUME NEW p \in Packets, p.type # "credentials"
    PROVE  NoCredentials(Halves(p))
<1> DEFINE whole == Halves(p)
<1>1. /\ Len(whole) = 2
      /\ whole[1] = [packet |-> p, part |-> 1]
      /\ whole[2] = [packet |-> p, part |-> 2]
  BY HalvesTyped
<1> HIDE DEF whole
<1>2. whole[1].packet = p /\ whole[2].packet = p
  BY <1>1
<1>3. NoCredentials(whole)
  BY <1>1, <1>2 DEF NoCredentials
<1> QED
  BY <1>3 DEF whole

\* A chunk is read: what is left is what came behind it.
LEMMA ReadShrinks ==
    ASSUME TypeOK, NEW k \in 1..Len(down), down' = Rest(down, k)
    PROVE  /\ down \in Seq(Half) /\ down' \in Seq(Half) /\ down # <<>>
           /\ Len(down') = Len(down) - k /\ Len(down') <= DownRoom
<1>1. PICK s \in Seq(Half), n \in Nat : s = down /\ n = Len(s)
  BY DEF TypeOK
<1>2. k \in 1..n /\ Rest(s, k) \in Seq(Half) /\ Len(Rest(s, k)) = n - k
  BY <1>1, Splits
<1>3. s # <<>>
  BY <1>1, <1>2, EmptySeq
<1> QED
  BY <1>1, <1>2, <1>3, Bounds DEF TypeOK

LEMMA ReadPubKeyKeeps ==
    ASSUME IInv, NEW k \in 1..Len(down), ReadPubKey(Chunk(down, k)),
           down' = Rest(down, k), UNCHANGED <<program, up, typed, server>>
    PROVE  IInv'
<1>1. /\ app = "HasntBegun" /\ sent = 0
      /\ UNCHANGED <<program, up, typed, shown, auth, sent, lost>>
  BY DEF ReadPubKey, server, IInv, Stages
<1>2. /\ down \in Seq(Half) /\ down' \in Seq(Half) /\ down # <<>>
      /\ Len(down') = Len(down) - k /\ Len(down') <= DownRoom
  BY ReadShrinks DEF IInv
<1>3. \/ writing' = <<>> /\ app' = "gone"
      \/ writing' = Halves(Packet("unreadable")) /\ app' = "SentCredentials"
      \/ /\ writing' = Halves(Packet("credentials")) /\ app' = "SentCredentials"
         /\ Chunk(down, k) = Halves(Packet("pubkey"))
  BY DEF ReadPubKey, Gone, Replies
<1>4. Packet("unreadable") \in Packets /\ Packet("credentials") \in Packets
      /\ Packet("pubkey") \in Packets
  BY PacketIsPacket DEF Types
<1>5. writing' \in Seq(Half)
  BY <1>3, <1>4, HalvesTyped, EmptySeq
<1>6. TypeOK'
  BY <1>1, <1>2, <1>3, <1>5 DEF IInv, TypeOK, Handshaking
<1>7. Stages'
  <2>1. auth \notin {"none", "KeyReceived", "Done"}
    BY <1>1, <1>2 DEF IInv, Stages, BeforeKey, AfterKey
  <2>2. ASSUME auth = "Undone" PROVE BeforeLogin'
    <3>1. up = <<>> /\ writing = <<>> /\ down = Halves(Packet("pubkey"))
      BY <1>1, <2>2 DEF IInv, Stages, BeforeLogin
    <3>2. CASE writing' = <<>> /\ app' = "gone"
      BY <1>1, <3>1, <3>2 DEF BeforeLogin, NoCredentials
    <3>3. CASE writing' = Halves(Packet("unreadable")) /\ app' = "SentCredentials"
      <4>1. NoCredentials(Halves(Packet("unreadable")))
        BY <1>4, OtherHalves DEF Packet
      <4>2. NoCredentials(up')
        BY <1>1, <3>1 DEF NoCredentials
      <4> QED
        BY <3>3, <4>1, <4>2 DEF BeforeLogin
    <3>4. CASE /\ writing' = Halves(Packet("credentials")) /\ app' = "SentCredentials"
               /\ Chunk(down, k) = Halves(Packet("pubkey"))
      <4>1. k = 2 /\ Len(down) = 2
        BY <1>2, <1>4, <3>1, <3>4, ChunkIsPacket, HalvesTyped
      <4>2. down' = <<>>
        BY <1>2, <4>1, EmptySeq
      <4>3. up' \o writing' = Halves(Packet("credentials"))
        BY <1>1, <1>4, <3>1, <3>4, HalvesTyped, ConcatEmptySeq
      <4> QED
        BY <3>4, <4>2, <4>3 DEF BeforeLogin
    <3> QED
      BY <1>3, <3>2, <3>3, <3>4
  <2> QED
    BY <1>1, <2>1, <2>2 DEF IInv, TypeOK, Stages
<1>8. Continuous'
  <2>1. Ends(down) = {}
    BY <1>1, NothingYet DEF Handshaking
  <2>2. Unbroken(down, shown, Texts)
    BY <1>1 DEF IInv, Continuous, Handshaking
  <2>3. Unbroken(Rest(down, k), shown, Texts)
    BY <1>2, <2>1, <2>2, SilentSkipped DEF Silent
  <2> QED
    BY <1>1, <2>3 DEF Continuous, Texts
<1> QED
  BY <1>6, <1>7, <1>8 DEF IInv

LEMMA ReadSpbKeeps ==
    ASSUME IInv, NEW k \in 1..Len(down), ReadSpb(Chunk(down, k)),
           down' = Rest(down, k), UNCHANGED <<program, up, typed, server>>
    PROVE  IInv'
<1>1. /\ app = "SentCredentials" /\ app' = "SentPubKey" /\ sent = 0
      /\ writing' = Halves(Packet("key"))
      /\ UNCHANGED <<program, up, typed, shown, auth, sent, lost>>
  BY DEF ReadSpb, Replies, server, IInv, Stages
<1>2. /\ down \in Seq(Half) /\ down' \in Seq(Half) /\ down # <<>>
      /\ Len(down') = Len(down) - k /\ Len(down') <= DownRoom
  BY ReadShrinks DEF IInv
<1>3. Packet("key") \in Packets /\ Packet("key").type # "credentials"
  BY PacketIsPacket DEF Types, Packet
<1>4. writing' \in Seq(Half) /\ Len(writing') = 2 /\ NoCredentials(writing')
  BY <1>1, <1>3, HalvesTyped, OtherHalves
<1>5. TypeOK'
  BY <1>1, <1>2, <1>4 DEF IInv, TypeOK, Handshaking
<1>6. Stages'
  <2>1. auth \notin {"none", "Done"}
    BY <1>1, <1>2 DEF IInv, Stages, AfterKey
  <2>2. ASSUME auth = "Undone" PROVE BeforeLogin'
    <3>1. NoCredentials(up)
      BY <1>1, <1>2, <2>2 DEF IInv, Stages, BeforeLogin
    <3>2. NoCredentials(up')
      BY <1>1, <3>1
    <3> QED
      BY <1>1, <1>4, <3>2 DEF BeforeLogin
  <2>3. ASSUME auth = "KeyReceived" PROVE BeforeKey'
    <3>1. up = <<>>
      BY <1>1, <2>3 DEF IInv, Stages, BeforeKey
    <3>2. Len(up') = 0
      BY <1>1, <3>1
    <3>3. Pending' = 2
      BY <1>4, <3>2 DEF Pending
    <3> QED
      BY <1>1, <3>3 DEF IInv, TypeOK, BeforeKey
  <2> QED
    BY <1>1, <2>1, <2>2, <2>3 DEF IInv, TypeOK, Stages
<1>7. Continuous'
  <2>1. Ends(down) = {}
    BY <1>1, NothingYet DEF Handshaking
  <2>2. Unbroken(down, shown, Texts)
    BY <1>1 DEF IInv, Continuous, Handshaking
  <2>3. Unbroken(Rest(down, k), shown, Texts)
    BY <1>2, <2>1, <2>2, SilentSkipped DEF Silent
  <2> QED
    BY <1>1, <2>3 DEF Continuous, Texts
<1> QED
  BY <1>5, <1>6, <1>7 DEF IInv

LEMMA ReadAesKeeps ==
    ASSUME IInv, NEW k \in 1..Len(down), ReadAes(Chunk(down, k)),
           down' = Rest(down, k), UNCHANGED <<program, up, typed, server>>
    PROVE  IInv'
<1>1. /\ app = "SentPubKey" /\ app' \in {"chatting", "gone"}
      /\ writing' \in {writing, <<>>}
      /\ app' = "chatting" => Chunk(down, k) = Halves(Packet("aes"))
      /\ UNCHANGED <<program, up, typed, shown, auth, sent, lost>>
  BY DEF ReadAes, AesUnreadable, Gone, server
<1>2. /\ down \in Seq(Half) /\ down' \in Seq(Half) /\ down # <<>>
      /\ Len(down') = Len(down) - k /\ Len(down') <= DownRoom
  BY ReadShrinks DEF IInv
<1>3. writing' \in Seq(Half)
  BY <1>1, EmptySeq DEF IInv, TypeOK
<1>4. TypeOK'
  BY <1>1, <1>2, <1>3 DEF IInv, TypeOK
<1>5. Stages'
  BY <1>1, Onwards DEF IInv
<1>6. ASSUME app' = "chatting" PROVE Unbroken(down', shown, Texts)
  <2>1. Packet("aes") \in Packets /\ Packet("aes").type # "text"
    BY PacketIsPacket DEF Types, Packet
  <2>2. k = 2 /\ down[1].packet = Packet("aes") /\ down[2].packet = Packet("aes")
    BY <1>1, <1>2, <1>6, <2>1, ChunkIsPacket
  <2>3. Silent(down, k)
    BY <1>2, <2>1, <2>2 DEF Silent, Ends
  <2>4. Unbroken(down, shown, Texts)
    BY <1>1 DEF IInv, Continuous, Handshaking
  <2> QED
    BY <1>2, <2>3, <2>4, SilentSkipped
<1>7. Continuous'
  BY <1>1, <1>6 DEF Continuous, Texts, Handshaking
<1> QED
  BY <1>4, <1>5, <1>7 DEF IInv

LEMMA ReadTextKeeps ==
    ASSUME IInv, NEW k \in 1..Len(down), ReadText(Chunk(down, k)),
           down' = Rest(down, k), UNCHANGED <<program, up, typed, server>>
    PROVE  IInv'
<1>1. app = "chatting" /\ UNCHANGED <<program, up, typed, auth, sent, lost>>
  BY DEF ReadText, server
<1>2. /\ down \in Seq(Half) /\ down' \in Seq(Half) /\ down # <<>>
      /\ Len(down') = Len(down) - k /\ Len(down') <= DownRoom
  BY ReadShrinks DEF IInv
<1>3. CASE UNCHANGED shown /\ Unreadable
  <2>1. app' \in {"poisoned", "gone"} /\ writing' \in {writing, <<>>}
    BY <1>3 DEF Unreadable, Gone
  <2>2. writing' \in Seq(Half)
    BY <2>1, EmptySeq DEF IInv, TypeOK
  <2>3. TypeOK'
    BY <1>1, <1>2, <1>3, <2>1, <2>2 DEF IInv, TypeOK
  <2>4. Stages'
    BY <1>1, <2>1, Onwards DEF IInv
  <2>5. Continuous'
    BY <2>1 DEF Continuous, Handshaking
  <2> QED
    BY <2>3, <2>4, <2>5 DEF IInv
<1>4. CASE \E i \in 1..sent : /\ Chunk(down, k) = Halves(Text(i))
                              /\ shown' = Append(shown, i)
                              /\ UNCHANGED <<app, writing>>
  <2>1. PICK i \in 1..sent : /\ Chunk(down, k) = Halves(Text(i))
                             /\ shown' = Append(shown, i)
                             /\ UNCHANGED <<app, writing>>
    BY <1>4
  <2>2. i \in 0..Answered /\ shown \in Seq(1..sent)
    BY Bounds DEF IInv, TypeOK
  <2>3. shown' \in Seq(1..sent)
    BY <2>1, <2>2, AppendProperties
  <2>4. TypeOK'
    BY <1>1, <1>2, <2>1, <2>3 DEF IInv, TypeOK
  <2>5. Stages'
    BY <1>1, <2>1, Onwards DEF IInv
  <2>6. Continuous'
    <3>1. Unbroken(down, shown, Texts)
      BY <1>1 DEF IInv, Continuous
    <3>2. Unbroken(Rest(down, k), Append(shown, i), Texts)
      BY <1>2, <2>1, <2>2, <3>1, TextShown
    <3> QED
      BY <1>1, <2>1, <3>2 DEF Continuous, Texts
  <2> QED
    BY <2>4, <2>5, <2>6 DEF IInv
<1> QED
  BY <1>3, <1>4 DEF ReadText

LEMMA ReadKeeps ==
    ASSUME IInv, Read
    PROVE  IInv'
<1>1. PICK k \in 1..Len(down) :
        /\ \/ ReadPubKey(Chunk(down, k)) \/ ReadSpb(Chunk(down, k))
           \/ ReadAes(Chunk(down, k)) \/ ReadText(Chunk(down, k))
        /\ down' = Rest(down, k)
  BY DEF Read
<1>2. UNCHANGED <<program, up, typed, server>>
  BY DEF Read
<1> QED
  BY <1>1, <1>2, ReadPubKeyKeeps, ReadSpbKeeps, ReadAesKeeps, ReadTextKeeps

\* Nobody who has lost the connection shakes hands, or shows messages.
LEMMA ReadEndKeeps ==
    ASSUME IInv, ReadEnd
    PROVE  IInv'
<1>1. /\ auth = "closed" /\ app' \in {"idle", "gone"}
      /\ writing' \in {writing, <<>>}
      /\ UNCHANGED <<program, up, down, typed, shown, auth, sent, lost>>
  BY DEF ReadEnd, Gone, server
<1>2. writing' \in Seq(Half)
  BY <1>1, EmptySeq DEF IInv, TypeOK
<1>3. TypeOK'
  BY <1>1, <1>2 DEF IInv, TypeOK
<1>4. Stages'
  BY <1>1 DEF Stages
<1>5. Continuous'
  BY <1>1 DEF Continuous, Handshaking
<1> QED
  BY <1>3, <1>4, <1>5 DEF IInv

\* One command more is two halves more.
LEMMA Doubled == \A t \in Nat : 2 * (t + 1) = 2 * t + 2
  OBVIOUS

LEMMA IssueKeeps ==
    ASSUME IInv, Issue
    PROVE  IInv'
<1>1. /\ app \in {"chatting", "poisoned", "idle"} /\ app' \in {app, "gone"}
      /\ writing = <<>> /\ typed < MaxTyped /\ typed' = typed + 1
      /\ UNCHANGED <<program, up, down, shown, auth, sent, lost>>
  BY DEF Issue, Gone, server
<1>2. \/ writing' = <<>>
      \/ \E t \in {"chat", "command"} : writing' = Halves(Packet(t))
  BY DEF Issue, Gone
<1>3. /\ writing' \in Seq(Half) /\ Len(writing') \in {0, 2}
      /\ NoCredentials(writing')
  <2>1. CASE writing' = <<>>
    BY <2>1, EmptySeq DEF NoCredentials
  <2>2. CASE \E t \in {"chat", "command"} : writing' = Halves(Packet(t))
    <3>1. PICK t \in {"chat", "command"} : writing' = Halves(Packet(t))
      BY <2>2
    <3>2. Packet(t) \in Packets /\ Packet(t).type # "credentials"
      BY PacketIsPacket DEF Types, Packet
    <3> QED
      BY <3>1, <3>2, HalvesTyped, OtherHalves
  <2> QED
    BY <1>2, <2>1, <2>2
<1>4. TypeOK'
  BY <1>1, <1>3, Bounds DEF IInv, TypeOK
<1>5. Stages'
  <2>1. PICK u \in Nat, t \in Nat, n \in Nat, w \in 0..2 :
          u = Len(up) /\ t = typed /\ n = sent /\ w = Len(writing')
    <3>1. Len(up) \in Nat /\ typed \in Nat /\ sent \in Nat /\ Len(writing') \in 0..2
      BY <1>3, Bounds DEF IInv, TypeOK
    <3> QED
      BY <3>1
  <2>2. Len(writing) = 0
    BY <1>1
  <2>3. Pending = u /\ Pending' = u + w /\ typed' = t + 1 /\ sent' = n
    BY <1>1, <2>1, <2>2 DEF Pending
  <2>4. ASSUME BeforeLogin PROVE BeforeLogin'
    BY <1>1, <1>3, <2>4 DEF BeforeLogin, NoCredentials
  <2>5. ASSUME BeforeKey PROVE BeforeKey'
    <3>1. u <= 2 * t + 2
      BY <2>1, <2>3, <2>5 DEF BeforeKey
    <3>2. u + w <= 2 * (t + 1) + 2
      BY <3>1, Doubled
    <3> QED
      BY <1>1, <2>3, <2>5, <3>2 DEF BeforeKey
  <2>6. ASSUME AfterKey PROVE AfterKey'
    <3>1. u <= 2 * t + 1 /\ n + u <= MaxSent + 2 * t + 1
      BY <2>1, <2>3, <2>6 DEF AfterKey
    <3>2. u + w <= 2 * (t + 1) + 1
      BY <3>1, Doubled
    <3>3. n + (u + w) <= MaxSent + 2 * (t + 1) + 1
      BY <3>1, Doubled, Bounds
    <3> QED
      BY <1>1, <2>3, <2>6, <3>2, <3>3 DEF AfterKey
  <2> QED
    BY <1>1, <2>4, <2>5, <2>6 DEF IInv, Stages
<1>6. Continuous'
  BY <1>1 DEF IInv, Continuous, Texts, Handshaking
<1> QED
  BY <1>4, <1>5, <1>6 DEF IInv

\* What is written is next on its way.
LEMMA WrittenNext ==
    ASSUME NEW S, NEW s \in Seq(S), NEW t \in Seq(S), t # <<>>
    PROVE  /\ Append(s, Head(t)) \in Seq(S) /\ Tail(t) \in Seq(S)
           /\ Len(Append(s, Head(t))) = Len(s) + 1 /\ Len(Tail(t)) = Len(t) - 1
           /\ Append(s, Head(t)) \o Tail(t) = s \o t
<1> DEFINE a == Append(s, Head(t))
           b == Tail(t)
<1>1. PICK n \in Nat, m \in Nat : n = Len(s) /\ m = Len(t) /\ m >= 1
  BY EmptySeq
<1>2. /\ Head(t) \in S /\ Head(t) = t[1]
      /\ b \in Seq(S) /\ Len(b) = m - 1 /\ \A i \in 1..(m - 1) : b[i] = t[i + 1]
  BY <1>1, HeadTailProperties
<1>3. /\ a \in Seq(S) /\ Len(a) = n + 1
      /\ \A i \in 1..n : a[i] = s[i]
      /\ a[n + 1] = t[1]
  BY <1>1, <1>2, AppendProperties
<1> HIDE DEF a, b
<1>4. PICK x \in Seq(S) : x = a \o b
  BY <1>2, <1>3, ConcatProperties
<1>5. PICK y \in Seq(S) : y = s \o t
  BY ConcatProperties
<1>6. /\ Len(x) = n + m
      /\ \A i \in 1..(n + m) : x[i] = IF i <= n + 1 THEN a[i] ELSE b[i - (n + 1)]
  <2>1. /\ Len(x) = Len(a) + Len(b)
        /\ \A i \in 1..(Len(a) + Len(b)) :
              x[i] = IF i <= Len(a) THEN a[i] ELSE b[i - Len(a)]
    BY <1>2, <1>3, <1>4, ConcatProperties
  <2>2. Len(a) = n + 1 /\ Len(b) = m - 1 /\ (n + 1) + (m - 1) = n + m
    BY <1>1, <1>2, <1>3
  <2> QED
    BY <2>1, <2>2
<1>7. /\ Len(y) = n + m
      /\ \A i \in 1..(n + m) : y[i] = IF i <= n THEN s[i] ELSE t[i - n]
  BY <1>1, <1>5, ConcatProperties
<1>8. ASSUME NEW i \in 1..(n + m) PROVE x[i] = y[i]
  <2>1. CASE i <= n
    BY <1>1, <1>3, <1>6, <1>7, <2>1
  <2>2. CASE i = n + 1
    <3>1. x[i] = a[i] /\ y[i] = t[i - n] /\ i - n = 1
      BY <1>1, <1>6, <1>7, <2>2
    <3> QED
      BY <1>3, <2>2, <3>1
  <2>3. CASE i > n + 1
    <3>1. i - (n + 1) \in 1..(m - 1) /\ (i - (n + 1)) + 1 = i - n
      BY <1>1, <2>3
    <3>2. x[i] = b[i - (n + 1)] /\ y[i] = t[i - n]
      BY <1>1, <1>6, <1>7, <2>3
    <3> QED
      BY <1>2, <3>1, <3>2
  <2> QED
    BY <1>1, <2>1, <2>2, <2>3
<1>9. x = y
  BY <1>6, <1>7, <1>8, SeqEqual
<1> QED
  BY <1>1, <1>2, <1>3, <1>4, <1>5, <1>9 DEF a, b

LEMMA WriteKeeps ==
    ASSUME IInv, Write
    PROVE  IInv'
<1>1. /\ writing # <<>> /\ auth # "closed" /\ Len(up) < UpRoom
      /\ up' = Append(up, Head(writing)) /\ writing' = Tail(writing)
      /\ UNCHANGED <<program, app, down, typed, shown, auth, sent, lost>>
  BY DEF Write, server
<1>2. PICK s \in Seq(Half), t \in Seq(Half), u \in Nat, w \in Nat :
        s = up /\ t = writing /\ t # <<>> /\ u = Len(s) /\ w = Len(t)
  BY <1>1 DEF IInv, TypeOK
<1>3. /\ up' \in Seq(Half) /\ writing' \in Seq(Half)
      /\ Len(up') = u + 1 /\ Len(writing') = w - 1
      /\ up' \o writing' = up \o writing
  <2>1. /\ Append(s, Head(t)) \in Seq(Half) /\ Tail(t) \in Seq(Half)
        /\ Len(Append(s, Head(t))) = u + 1 /\ Len(Tail(t)) = w - 1
        /\ Append(s, Head(t)) \o Tail(t) = s \o t
    BY <1>2, WrittenNext
  <2>2. up' = Append(s, Head(t)) /\ writing' = Tail(t)
    BY <1>1, <1>2
  <2> QED
    BY <1>2, <2>1, <2>2
<1>4. TypeOK'
  <2>1. u + 1 <= UpRoom
    BY <1>1, <1>2, Bounds
  <2> QED
    BY <1>1, <1>3, <2>1 DEF IInv, TypeOK
<1>5. Stages'
  <2>1. Pending' = Pending
    BY <1>2, <1>3 DEF Pending
  <2>2. ASSUME NoCredentials(up), NoCredentials(writing)
        PROVE  NoCredentials(up') /\ NoCredentials(writing')
    <3>1. /\ \A i \in 1..u : Append(s, Head(t))[i] = s[i]
          /\ Append(s, Head(t))[u + 1] = t[1]
      BY <1>2, AppendProperties, HeadTailProperties
    <3>2. \A i \in 1..(w - 1) : Tail(t)[i] = t[i + 1]
      BY <1>2, HeadTailProperties
    <3>3. up' = Append(s, Head(t)) /\ writing' = Tail(t) /\ w >= 1
      BY <1>1, <1>2, EmptySeq
    <3>4. /\ \A i \in 1..u : s[i].packet.type # "credentials"
          /\ \A i \in 1..w : t[i].packet.type # "credentials"
      BY <1>2, <2>2 DEF NoCredentials
    <3>5. ASSUME NEW i \in 1..(u + 1) PROVE up'[i].packet.type # "credentials"
      <4>1. CASE i = u + 1
        BY <1>2, <3>1, <3>3, <3>4, <4>1
      <4>2. CASE i # u + 1
        <5>1. i \in 1..u
          BY <1>2, <4>2
        <5> QED
          BY <3>1, <3>3, <3>4, <5>1
      <4> QED
        BY <4>1, <4>2
    <3>6. ASSUME NEW i \in 1..(w - 1)
          PROVE  writing'[i].packet.type # "credentials"
      <4>1. i + 1 \in 1..w
        BY <1>2
      <4> QED
        BY <3>2, <3>3, <3>4, <4>1
    <3> QED
      BY <1>3, <3>5, <3>6 DEF NoCredentials
  <2>3. ASSUME BeforeLogin PROVE BeforeLogin'
    BY <1>1, <1>3, <2>2, <2>3 DEF BeforeLogin
  <2>4. ASSUME BeforeKey PROVE BeforeKey'
    BY <1>1, <2>1, <2>4 DEF BeforeKey
  <2>5. ASSUME AfterKey PROVE AfterKey'
    BY <1>1, <2>1, <2>5 DEF AfterKey
  <2> QED
    BY <1>1, <2>3, <2>4, <2>5 DEF IInv, Stages
<1>6. Continuous'
  BY <1>1 DEF IInv, Continuous, Texts
<1> QED
  BY <1>4, <1>5, <1>6 DEF IInv

LEMMA WriteFailsKeeps ==
    ASSUME IInv, WriteFails
    PROVE  IInv'
<1>1. /\ auth = "closed" /\ app' \in {app, "gone"} /\ writing' = <<>>
      /\ UNCHANGED <<program, up, down, typed, shown, auth, sent, lost>>
  BY DEF WriteFails, Gone, server
<1>2. TypeOK'
  BY <1>1, EmptySeq DEF IInv, TypeOK
<1>3. Stages'
  BY <1>1 DEF IInv, Stages
<1>4. Continuous'
  BY <1>1 DEF IInv, Continuous, Texts, Handshaking
<1> QED
  BY <1>2, <1>3, <1>4 DEF IInv

-----------------------------------------------------------------------------
(* The theorems.                                                           *)

LEMMA InitOK == Init => IInv
<1> SUFFICES ASSUME Init PROVE IInv
  OBVIOUS
<1>1. up = <<>> /\ down = <<>> /\ writing = <<>> /\ shown = <<>>
      /\ auth = "none" /\ app = "HasntBegun" /\ sent = 0 /\ lost = {} /\ typed = 0
  BY DEF Init
<1>2. TypeOK
  <2>1. up \in Seq(Half) /\ down \in Seq(Half) /\ writing \in Seq(Half)
        /\ shown \in Seq(1..sent)
    BY <1>1, EmptySeq
  <2>2. Len(up) = 0 /\ Len(down) = 0
    BY <1>1
  <2> QED
    BY <1>1, <2>1, <2>2, Bounds DEF Init, TypeOK, Handshaking
<1>3. Stages
  BY <1>1 DEF Stages
<1>4. Continuous
  <2>1. Len(down) = 0 /\ Len(shown) = 0 /\ Texts = {}
    BY <1>1, Bounds DEF Texts
  <2>2. Ends(down) = {}
    BY <2>1 DEF Ends
  <2>3. Holds(down, shown, {}) /\ Rises(down, shown)
    BY <2>1, <2>2 DEF Holds, Rises
  <2> QED
    BY <2>1, <2>3, UnbrokenIs DEF Continuous
<1> QED
  BY <1>2, <1>3, <1>4 DEF IInv

LEMMA StepOK == IInv /\ [Next]_vars => IInv'
<1> SUFFICES ASSUME IInv, [Next]_vars PROVE IInv'
  OBVIOUS
<1>1. CASE Next
  BY <1>1, AcceptKeeps, ReceiveKeeps, PassOnKeeps, PeerGoneKeeps, ReadKeeps,
     ReadEndKeeps, IssueKeeps, WriteKeeps, WriteFailsKeeps DEF Next
<1>2. CASE UNCHANGED vars
  <2>1. UNCHANGED <<program, auth, app, up, down, writing, typed, sent, lost, shown>>
    BY <1>2 DEF vars
  <2>2. TypeOK'
    BY <2>1 DEF IInv, TypeOK
  <2>3. Stages'
    BY <2>1 DEF IInv, Stages, BeforeLogin, BeforeKey, AfterKey, Pending, NoCredentials
  <2>4. Continuous'
    BY <2>1 DEF IInv, Continuous, Texts
  <2> QED
    BY <2>2, <2>3, <2>4 DEF IInv
<1> QED
  BY <1>1, <1>2

LEMMA InvariantHolds == Spec => []IInv
<1>1. Init => IInv
  BY InitOK
<1>2. IInv /\ [Next]_vars => IInv'
  BY StepOK
<1> QED
  BY <1>1, <1>2, PTL DEF Spec

\* Buffers of whatever size are never overfilled, though a send that finds
\* too little room puts there what fits, and the texts the server counts
\* stay within what the users' commands and the others can cause.
THEOREM StreamTypes == Spec => []TypeOK
<1>1. IInv => TypeOK
  BY DEF IInv
<1> QED
  BY <1>1, InvariantHolds, PTL

\* A program that still shows messages has left out none of those sent since
\* the handshake but those the server knew it could not send, and shows them
\* in their order, however packets are torn, glued and lost.
THEOREM NothingSkipped == Spec => []NoGaps
<1>1. IInv => NoGaps
  BY DEF IInv, Continuous, NoGaps, Texts
<1> QED
  BY <1>1, InvariantHolds, PTL
=============================================================================

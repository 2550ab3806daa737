--------------------------- MODULE PollLoopProofs ---------------------------
(***************************************************************************)
(* The check against spam never fires, for any number of clients and any   *)
(* SpamInterval below Nap.  Rested is the inductive part: what a pass has  *)
(* still to visit has slept through a whole Nap.                           *)
(***************************************************************************)
EXTENDS PollLoop, TLAPS

Inv == TypeOK /\ Rested /\ NeverSpam

-----------------------------------------------------------------------------
(* A row that is erased.                                                   *)

LEMMA RowOf ==
    ASSUME NEW t \in Seq(Row), NEW i \in 1..Len(t)
    PROVE  t[i] \in Row /\ t[i].since \in 0..Long /\ t[i].since \in Nat
  <1>1. t[i] \in Row
    OBVIOUS
  <1>2. t[i].since \in 0..Long
    BY <1>1 DEF Row
  <1> QED
    BY <1>1, <1>2, PollLoopAssumption

LEMMA RowsAfterRemoval ==
    ASSUME NEW T, NEW s \in Seq(T), NEW i \in 1..Len(s)
    PROVE  /\ RemoveAt(s, i) \in Seq(T)
           /\ Len(RemoveAt(s, i)) = Len(s) - 1
           /\ \A j \in 1..(Len(s) - 1) :
                 RemoveAt(s, i)[j] = IF j < i THEN s[j] ELSE s[j + 1]
  <1> DEFINE before == SubSeq(s, 1, i - 1)
             after == SubSeq(s, i + 1, Len(s))
  <1>1. /\ before \in Seq(T) /\ Len(before) = i - 1
        /\ \A j \in 1..(i - 1) : before[j] = s[j]
    OBVIOUS
  <1>2. /\ after \in Seq(T) /\ Len(after) = Len(s) - i
        /\ \A j \in 1..(Len(s) - i) : after[j] = s[i + j]
    OBVIOUS
  <1>3. RemoveAt(s, i) = before \o after
    BY DEF RemoveAt
  <1> HIDE DEF before, after
  <1>4. Len(before \o after) = Len(s) - 1 /\ before \o after \in Seq(T)
    BY <1>1, <1>2
  <1>5. ASSUME NEW j \in 1..(Len(s) - 1)
        PROVE  (before \o after)[j] = IF j < i THEN s[j] ELSE s[j + 1]
    <2>1. CASE j < i
      BY <1>1, <1>2, <2>1
    <2>2. CASE j >= i
      <3>1. (before \o after)[j] = after[j - (i - 1)]
        <4>1. \A t, u \in Seq(T) : \A k \in (Len(t) + 1)..(Len(t) + Len(u)) :
                 (t \o u)[k] = u[k - Len(t)]
          OBVIOUS
        <4>2. j \in (Len(before) + 1)..(Len(before) + Len(after))
          BY <1>1, <1>2, <2>2
        <4> QED
          BY <1>1, <1>2, <4>1, <4>2
      <3>2. j - (i - 1) \in 1..(Len(s) - i)
        BY <2>2
      <3>3. after[j - (i - 1)] = s[i + (j - (i - 1))]
        BY <1>2, <3>2
      <3> QED
        BY <2>2, <3>1, <3>3
    <2>3. j < i \/ (j >= i /\ ~(j < i))
      OBVIOUS
    <2>4. CASE j >= i /\ ~(j < i)
      BY <2>2, <2>4
    <2> QED
      BY <2>1, <2>3, <2>4
  <1> QED
    BY <1>3, <1>4, <1>5

-----------------------------------------------------------------------------
(* The pieces of the actions.                                              *)

\* Time moves no row and sets no clock back.
LEMMA PassLater ==
    ASSUME TypeOK, NEW d \in 0..Long, table' = Pass(d)
    PROVE  /\ table' \in Seq(Row) /\ Len(table') = Len(table)
           /\ \A i \in Rows : /\ table'[i].auth = table[i].auth
                              /\ table'[i].since >= table[i].since
                              /\ table'[i].since >= d
  <1>1. \A i \in Rows : table[i] \in Row
    BY DEF TypeOK, Rows
  <1>2. ASSUME NEW i \in Rows
        PROVE  /\ Pass(d)[i] = [table[i] EXCEPT !.since = Later(@, d)]
               /\ Later(table[i].since, d) \in 0..Long
               /\ Later(table[i].since, d) >= table[i].since
               /\ Later(table[i].since, d) >= d
    BY <1>1, PollLoopAssumption DEF Pass, Later, Row
  <1>3. ASSUME NEW i \in Rows
        PROVE  /\ Pass(d)[i] \in Row
               /\ Pass(d)[i].auth = table[i].auth
               /\ Pass(d)[i].since >= table[i].since
               /\ Pass(d)[i].since >= d
    BY <1>1, <1>2 DEF Row
  <1>4. Pass(d) \in Seq(Row) /\ Len(Pass(d)) = Len(table)
    BY <1>3 DEF TypeOK, Pass, Rows
  <1> QED
    BY <1>3, <1>4

\* The rows the pass has still to visit are the same ones after the row it is
\* at has been erased, but for the one it passes over.
LEMMA DisconnectKeeps ==
    ASSUME TypeOK, Rested, NEW i \in Rows, Visits(i),
           NEW reason \in Reason, Disconnect(i, reason), iterator' = NextRow(i)
    PROVE  TypeOK' /\ Rested'
  <1>1. /\ table' \in Seq(Row) /\ Len(table') = Len(table) - 1
        /\ \A j \in 1..(Len(table) - 1) :
              table'[j] = IF j < i THEN table[j] ELSE table[j + 1]
    BY RowsAfterRemoval DEF TypeOK, Rows, Disconnect
  <1>2. TypeOK'
    BY <1>1 DEF TypeOK, Disconnect, NextRow, Visits, Rows
  <1>3. ASSUME NEW j \in Rows', j >= iterator', table'[j].auth = "Done"
        PROVE  table'[j].since > SpamInterval
    <2>1. j + 1 \in Rows /\ j + 1 >= iterator /\ table'[j] = table[j + 1]
      BY <1>1, <1>3 DEF TypeOK, Rows, NextRow, Visits
    <2> QED
      BY <1>3, <2>1 DEF Rested, Visits, TypeOK, Rows
  <1> QED
    BY <1>2, <1>3 DEF Rested

-----------------------------------------------------------------------------
(* The steps.                                                              *)

LEMMA VisitKeeps ==
    ASSUME Inv, NEW i \in Rows,
           ReceiveNothing(i) \/ ReceiveLast(i)
             \/ ReceiveHandshake(i) \/ ReceiveText(i)
    PROVE  Inv'
  <1> USE DEF Inv
  <1>1. /\ table \in Seq(Row) /\ \A j \in Rows : table[j] \in Row
        /\ iterator = i /\ i \in Nat /\ i # 0
    BY DEF TypeOK, Rows, Visits, ReceiveNothing, ReceiveLast,
           ReceiveHandshake, ReceiveText
  <1>2. CASE ReceiveNothing(i)
    BY <1>1, <1>2 DEF ReceiveNothing, NextRow, TypeOK, Rested, NeverSpam, Rows
  <1>3. CASE ReceiveLast(i)
    <2>1. PICK reason \in {"DisconnectLeave", "DisconnectKick"} :
             Disconnect(i, reason) /\ iterator' = NextRow(i) /\ Visits(i)
      BY <1>3 DEF ReceiveLast
    <2>2. TypeOK' /\ Rested'
      BY <2>1, DisconnectKeeps DEF Reason
    <2>3. NeverSpam'
      BY <2>1 DEF Disconnect, NeverSpam
    <2> QED
      BY <2>2, <2>3
  <1>4. CASE ReceiveHandshake(i)
    <2> DEFINE a == FurtherOn(table[i].auth)
    <2>1. /\ table' = [table EXCEPT ![i] = [table[i] EXCEPT !.auth = a]]
          /\ a \in {"KeyReceived", "Done"}
      BY <1>4 DEF ReceiveHandshake, FurtherOn
    <2> HIDE DEF a
    <2>2. /\ table' \in Seq(Row) /\ Len(table') = Len(table)
          /\ \A j \in Rows : j # i => table'[j] = table[j]
      <3>1. [table[i] EXCEPT !.auth = a] \in Row
        BY <1>1, <2>1 DEF Row
      <3> QED
        BY <1>1, <2>1, <3>1 DEF Rows
    <2> QED
      BY <1>1, <1>4, <2>2
      DEF ReceiveHandshake, NextRow, TypeOK, Rested, NeverSpam, Rows
  <1>5. CASE ReceiveText(i)
    <2>1. table[i].since > SpamInterval
      BY <1>1, <1>5 DEF ReceiveText, Rested
    <2>2. /\ table' = [table EXCEPT ![i] = [table[i] EXCEPT !.since = 0]]
          /\ kicked' = kicked
      <3>1. ~(table[i].since <= SpamInterval)
        BY <1>1, <2>1, PollLoopAssumption DEF Row
      <3> QED
        BY <1>5, <3>1 DEF ReceiveText
    <2>3. /\ table' \in Seq(Row) /\ Len(table') = Len(table)
          /\ \A j \in Rows : j # i => table'[j] = table[j]
      <3>1. 0 \in 0..Long
        BY PollLoopAssumption
      <3>2. [table[i] EXCEPT !.since = 0] \in Row
        BY <1>1, <3>1 DEF Row
      <3> QED
        BY <1>1, <2>2, <3>2 DEF Rows
    <2> QED
      BY <1>1, <1>5, <2>2, <2>3
      DEF ReceiveText, NextRow, TypeOK, Rested, NeverSpam, Rows
  <1> QED
    BY <1>2, <1>3, <1>4, <1>5

LEMMA AcceptKeeps ==
    ASSUME Inv, NEW c \in Client, Accept(c)
    PROVE  Inv'
  <1>1. NewRow(c) \in Row /\ NewRow(c).auth # "Done"
    BY PollLoopAssumption DEF NewRow, Row
  <1>2. /\ table' \in Seq(Row) /\ Len(table') = Len(table) + 1
        /\ \A j \in Rows : table'[j] = table[j]
        /\ table'[Len(table) + 1] = NewRow(c)
    BY <1>1 DEF Accept, Inv, TypeOK, Rows
  <1> QED
    BY <1>1, <1>2 DEF Accept, Inv, TypeOK, Rested, NeverSpam, Rows

LEMMA InvKept == Inv /\ [Next]_vars => Inv'
  <1> SUFFICES ASSUME Inv, [Next]_vars PROVE Inv'
    OBVIOUS
  <1>1. ASSUME NEW c \in Client, Accept(c) PROVE Inv'
    BY <1>1, AcceptKeeps
  <1>2. ASSUME NEW i \in Rows,
               ReceiveNothing(i) \/ ReceiveLast(i)
                 \/ ReceiveHandshake(i) \/ ReceiveText(i)
        PROVE  Inv'
    BY <1>2, VisitKeeps
  <1>3. CASE Take
    <2>1. /\ table' \in Seq(Row) /\ Len(table') = Len(table)
          /\ \A i \in Rows : /\ table'[i].auth = table[i].auth
                             /\ table'[i].since >= table[i].since
      <3>1. CASE 1 \in 0..Long
        BY <1>3, <3>1, PassLater DEF Take, Inv
      <3> QED
        BY <3>1, PollLoopAssumption
    <2>2. \A i \in Rows : table[i].since \in Nat /\ table'[i].since \in Nat
      BY <2>1, RowOf DEF Inv, TypeOK, Rows
    <2>3. TypeOK' /\ NeverSpam'
      BY <1>3, <2>1 DEF Take, Inv, TypeOK, NeverSpam
    <2>4. ASSUME NEW i \in Rows', i >= iterator', table'[i].auth = "Done"
          PROVE  table'[i].since > SpamInterval
      <3>1. i \in Rows /\ table[i].since > SpamInterval
        BY <1>3, <2>1, <2>4 DEF Take, Inv, Rested, Rows
      <3> QED
        BY <2>1, <2>2, <3>1, PollLoopAssumption
    <2> QED
      BY <2>3, <2>4 DEF Inv, Rested
  <1>4. CASE EndPass
    BY <1>4 DEF EndPass, Inv, TypeOK, Rested, NeverSpam, Rows
  <1>5. CASE StartPass
    <2>1. PICK d \in 0..Long : Sleep(d) /\ table' = Pass(d)
      BY <1>5 DEF StartPass
    <2>2. /\ table' \in Seq(Row) /\ Len(table') = Len(table)
          /\ \A i \in Rows : table'[i].since >= d
      BY <2>1, PassLater DEF Inv
    <2>3. \A i \in Rows : table'[i].since \in Nat
      BY <2>2, RowOf DEF Rows
    <2>4. d \in Nat /\ d > SpamInterval
      BY <2>1, PollLoopAssumption DEF Sleep
    <2>5. TypeOK' /\ NeverSpam'
      BY <1>5, <2>2 DEF StartPass, Inv, TypeOK, NeverSpam
    <2>6. \A i \in Rows' : table'[i].since > SpamInterval
      BY <2>2, <2>3, <2>4, PollLoopAssumption DEF Rows
    <2> QED
      BY <2>5, <2>6 DEF Inv, Rested
  <1>6. CASE UNCHANGED vars
    BY <1>6 DEF vars, Inv, TypeOK, Rested, NeverSpam, Rows
  <1> QED
    BY <1>1, <1>2, <1>3, <1>4, <1>5, <1>6 DEF Next

LEMMA InvAlways == Spec => []Inv
  <1>1. Init => Inv
    BY DEF Init, Inv, TypeOK, Rested, NeverSpam, Rows
  <1> QED
    BY <1>1, InvKept, PTL DEF Spec

\* No client is ever disconnected as a spammer: the check of its clock, which
\* is made once per pass, comes after the sleep between two passes.
THEOREM SpamCheckNeverFires == Spec => []NeverSpam
  <1>1. Inv => NeverSpam
    BY DEF Inv
  <1> QED
    BY <1>1, InvAlways, PTL

\* What a pass has still to visit has slept, whatever rows are erased before
\* it and appended behind it.
THEOREM AlwaysRested == Spec => []Rested
  <1>1. Inv => Rested
    BY DEF Inv
  <1> QED
    BY <1>1, InvAlways, PTL

\* Each row has a status and a running clock.
THEOREM PollLoopTypes == Spec => []TypeOK
  <1>1. Inv => TypeOK
    BY DEF Inv
  <1> QED
    BY <1>1, InvAlways, PTL

=============================================================================

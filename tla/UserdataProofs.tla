---------------------------- MODULE UserdataProofs ----------------------------
(***************************************************************************)
(* What userdata.yml promises, for any aliases and passwords, any number   *)
(* of registrations, failures and kills.  The inductive invariant adds to  *)
(* the properties what registerUser may rely on in between: that nobody    *)
(* else has got the alias meanwhile, and that its copy is as sound as the  *)
(* file was.                                                               *)
(***************************************************************************)
EXTENDS Userdata, TLAPS

Line == Entry \cup Junk

Unique(f) == \A i, j \in 1..Len(f) : i # j => f[i].alias # f[j].alias
\* What an entry for which p was given may have become.
Remains(p) == {p, "bare", "word", "blank"} \cup Shorter[p]
Current(f) ==
    \A i \in 1..Len(f) : f[i] \in Entry =>
        /\ given[f[i].alias] \in Password
        /\ f[i].password \in Remains(given[f[i].alias])
Free(f) == \A i \in 1..Len(f) : f[i].alias # uname
Copied == pc \in {"read", "emptied", "unopened"}

\* The file can be read by a server that is up.
FileThere == pc # "down" => file \in File

\* registerUser's alias is not in the file, nor in the copy, which holds
\* whole entries only.
AliasFree ==
    /\ pc = "admitted" => file \in Seq(Entry)
    /\ pc \in {"admitted", "read", "unopened"} => Free(file)
    /\ Copied => prevFile \in Seq(Entry) /\ Free(prevFile)
    /\ pc = "emptied" => file = <<>>
    /\ pc \notin {"down", "serving"} => given[uname] = passwd

\* What is read, and what will be written back, is sound.
Sound ==
    /\ Unique(Text(file)) /\ Current(Text(file))
    /\ Copied => Unique(prevFile) /\ Current(prevFile)

\* Without failures the copy is the file.
TrueCopy ==
    faults = {} => pc # "unopened" /\ (pc = "read" => prevFile = file)

IInv == TypeOK /\ FileThere /\ AliasFree /\ Sound /\ TrueCopy /\ Kept

-----------------------------------------------------------------------------
(* Texts.                                                                  *)

LEMMA LineType ==
    ASSUME NEW e \in Line
    PROVE  /\ e.alias \in Name \cup {Nobody}
           /\ e.password \in Password => e \in Entry
           /\ e \in Entry => e.alias \in Name
           /\ e.password \in Password \cup Cut
           /\ e \notin Entry => e.alias = Nobody
  BY UserdataAssumption DEF Line, Entry, Junk, FirstLine, OpenQuote, Cut

LEMMA FileType == File = Seq(Line)
  BY DEF File, Line

LEMMA EntriesAreLines == Seq(Entry) \subseteq File
  BY DEF File

LEMMA TextType ==
    ASSUME file \in File \cup {NoFile}
    PROVE  Text(file) \in File /\ (file \in File => Text(file) = file)
  BY UserdataAssumption DEF Text, File

\* A text without a piece of a first line consists of entries.
LEMMA Wellformed ==
    ASSUME NEW f \in File, ~Malformed(f)
    PROVE  f \in Seq(Entry)
  <1>1. \A i \in 1..Len(f) : f[i] \in Entry
    BY DEF File, Malformed, Entries
  <1> QED
    BY <1>1 DEF File

LEMMA NotKnown ==
    ASSUME NEW f \in File, NEW n
    PROVE  ~Known(f, n) <=> \A i \in 1..Len(f) : f[i].alias # n
  BY DEF Known, EntriesOf, Entries

\* The second line of an entry loses its end.
LEMMA CutLineOf ==
    ASSUME NEW d \in Password \cup Cut
    PROVE  /\ d \in Cut => CutLine(d) \subseteq Cut
           /\ d \in Password => CutLine(d) = Cut \cup Shorter[d]
           /\ CutLine(d) \subseteq Password \cup Cut
  <1>1. CASE d \in Cut
    BY <1>1, UserdataAssumption DEF CutLine, Cut
  <1>2. CASE d \in Password
    <2>1. CutLine(d) = Cut \cup Shorter[d]
      BY <1>2, UserdataAssumption DEF CutLine, Cut
    <2>2. Shorter[d] \subseteq Password
      BY <1>2, UserdataAssumption
    <2> QED
      BY <1>2, <2>1, <2>2, UserdataAssumption DEF Cut
  <1> QED
    BY <1>1, <1>2

\* A text that is cut short keeps a part of its entries, all but the last one
\* unchanged.
LEMMA BeginningOf ==
    ASSUME NEW text \in Seq(Entry), NEW b \in Beginnings(text)
    PROVE  /\ b \in File /\ Len(b) <= Len(text)
           /\ \A i \in 1..Len(b) :
                 \/ i < Len(text) /\ b[i] = text[i]
                 \/ i = Len(b) /\ b[i] \in CutEntry(text[i])
  <1>1. CASE \E k \in 0..Len(text) - 1 : b = SubSeq(text, 1, k)
    BY <1>1 DEF File
  <1>2. ASSUME NEW k \in 1..Len(text), NEW e \in CutEntry(text[k]),
               b = Append(SubSeq(text, 1, k - 1), e)
        PROVE  /\ b \in File /\ Len(b) <= Len(text)
               /\ \A i \in 1..Len(b) :
                     \/ i < Len(text) /\ b[i] = text[i]
                     \/ i = Len(b) /\ b[i] \in CutEntry(text[i])
    <2>1. e \in Line
      <3>1. text[k] \in Entry
        OBVIOUS
      <3>2. \A d \in Password \cup Cut : [text[k] EXCEPT !.password = d] \in Entry
        BY <3>1 DEF Entry
      <3>3. CutLine(text[k].password) \subseteq Password \cup Cut
        BY <3>1, CutLineOf DEF Entry
      <3> QED
        BY <1>2, <3>2, <3>3 DEF CutEntry, Line
    <2> DEFINE front == SubSeq(text, 1, k - 1)
    <2>2. /\ front \in Seq(Line) /\ Len(front) = k - 1
          /\ \A i \in 1..k - 1 : front[i] = text[i]
      BY DEF Line
    <2> HIDE DEF front
    <2>3. /\ b \in Seq(Line) /\ Len(b) = k /\ b[k] = e
          /\ \A i \in 1..k - 1 : b[i] = front[i]
      BY <1>2, <2>1, <2>2 DEF front
    <2> QED
      BY <1>2, <2>2, <2>3, FileType
  <1> QED
    BY <1>1, <1>2 DEF Beginnings

LEMMA CutAlias ==
    ASSUME NEW e \in Entry, NEW d \in CutEntry(e)
    PROVE  /\ d \in Entry => d.alias = e.alias /\ d.password \in CutLine(e.password)
           /\ d \in Line /\ d.alias \in {e.alias, Nobody}
  <1>1. CASE d \in Junk
    BY <1>1, UserdataAssumption DEF Junk, FirstLine, OpenQuote, Entry, Line
  <1>2. CASE \E x \in CutLine(e.password) : d = [e EXCEPT !.password = x]
    BY <1>2, CutLineOf DEF Entry, Line
  <1> QED
    BY <1>1, <1>2 DEF CutEntry

\* Cutting a cut password again leaves what one cut can leave.
LEMMA CutAgain ==
    ASSUME NEW p \in Password, NEW d \in Remains(p)
    PROVE  CutLine(d) \subseteq Remains(p)
  <1>1. CASE d \in Cut
    BY <1>1, CutLineOf DEF Remains, Cut
  <1>2. CASE d \in Password
    <2>1. d = p \/ d \in Shorter[p]
      BY <1>2, UserdataAssumption DEF Remains, Cut
    <2>2. Shorter[d] \subseteq Shorter[p]
      BY <2>1, UserdataAssumption
    <2> QED
      BY <1>2, <2>2, CutLineOf DEF Remains, Cut
  <1> QED
    BY <1>1, <1>2, UserdataAssumption DEF Remains, Cut

LEMMA UniqueBeginning ==
    ASSUME NEW text \in Seq(Entry), Unique(text), NEW b \in Beginnings(text)
    PROVE  Unique(b)
  <1>1. ASSUME NEW i \in 1..Len(b), NEW j \in 1..Len(b), i < j
        PROVE  b[i].alias # b[j].alias
    <2>1. /\ i \in 1..Len(text) /\ j \in 1..Len(text)
          /\ b[i] = text[i]
          /\ b[j] = text[j] \/ b[j] \in CutEntry(text[j])
      BY <1>1, BeginningOf
    <2>2. text[i] \in Entry /\ text[j] \in Entry
      BY <2>1
    <2>3. text[i].alias # text[j].alias /\ text[i].alias # Nobody
      BY <1>1, <2>1, <2>2, UserdataAssumption DEF Unique, Entry
    <2> QED
      BY <2>1, <2>2, <2>3, CutAlias
  <1>2. \A i, j \in 1..Len(b) : i # j => i < j \/ j < i
    BY BeginningOf DEF File
  <1> QED
    BY <1>1, <1>2 DEF Unique

\* What registerUser adds is one more alias.
LEMMA NewTextSound ==
    ASSUME TypeOK, prevFile \in Seq(Entry), Free(prevFile), Unique(prevFile)
    PROVE  /\ NewText \in Seq(Entry) /\ Unique(NewText)
           /\ Len(NewText) = Len(prevFile) + 1
           /\ \A i \in 1..Len(prevFile) : NewText[i] = prevFile[i]
           /\ NewText[Len(prevFile) + 1] = [alias |-> uname, password |-> passwd]
  <1>1. [alias |-> uname, password |-> passwd] \in Entry
    BY DEF TypeOK, Entry
  <1>2. /\ NewText \in Seq(Entry)
        /\ Len(NewText) = Len(prevFile) + 1
        /\ \A i \in 1..Len(prevFile) : NewText[i] = prevFile[i]
        /\ NewText[Len(prevFile) + 1] = [alias |-> uname, password |-> passwd]
    BY <1>1 DEF NewText
  <1>3. \A i \in 1..Len(NewText) : i \in 1..Len(prevFile) \/ i = Len(prevFile) + 1
    BY <1>2
  <1>4. Unique(NewText)
    BY <1>2, <1>3 DEF Unique, Free
  <1> QED
    BY <1>2, <1>4

-----------------------------------------------------------------------------
(* The steps.                                                              *)

\* A step that leaves the file and what was given alone.
LEMMA SoundStays ==
    ASSUME Unique(Text(file)), Current(Text(file)), UNCHANGED <<file, given>>
    PROVE  Unique(Text(file))' /\ Current(Text(file))'
  BY DEF Unique, Current, Text

LEMMA StartStep ==
    ASSUME IInv, Start
    PROVE  IInv'
  <1> USE DEF Start, IInv
  <1>1. file' \in File /\ Text(file)' = Text(file) /\ UNCHANGED given
    BY TextType, UserdataAssumption DEF TypeOK, Text
  <1>2. TypeOK' /\ FileThere' /\ AliasFree' /\ TrueCopy'
    BY <1>1 DEF TypeOK, FileThere, AliasFree, TrueCopy, Copied
  <1>3. Sound'
    BY <1>1 DEF Sound, Unique, Current, Copied
  <1>4. Kept'
    BY <1>1 DEF Kept, Contents
  <1> QED
    BY <1>2, <1>3, <1>4

LEMMA LoginStep ==
    ASSUME IInv, NEW n \in Name, NEW p \in Password, LoginNew(n, p)
    PROVE  IInv'
  <1> USE DEF LoginNew, IInv
  <1>1. file \in File /\ file' = file
    BY DEF FileThere
  <1>2. file' \in Seq(Entry) /\ Free(file)'
    BY <1>1, Wellformed, NotKnown DEF IsNew, Free
  <1>3. TypeOK' /\ FileThere' /\ AliasFree' /\ TrueCopy'
    BY <1>1, <1>2 DEF TypeOK, FileThere, AliasFree, TrueCopy, Copied
  <1>4. Sound'
    <2>1. /\ \A i \in 1..Len(file) : file[i] \in Entry /\ file[i].alias # n
          /\ Text(file) = file /\ Text(file)' = file
      BY <1>1, <1>2, UserdataAssumption DEF Free, Text
    <2>2. \A m \in Name : m # n => given'[m] = given[m]
      BY DEF TypeOK
    <2>3. Current(Text(file))'
      BY <2>1, <2>2 DEF Sound, Current, Entry
    <2> QED
      BY <2>1, <2>3 DEF Sound, Copied, Unique
  <1>5. Kept'
    BY DEF Kept, Contents, Text, Entries
  <1> QED
    BY <1>3, <1>4, <1>5

LEMMA ReadStep ==
    ASSUME IInv, ReadFile
    PROVE  IInv'
  <1> USE DEF ReadFile, IInv, LineBreakAdded, CopyUnread
  <1>1. file \in File /\ file \in Seq(Entry) /\ Text(file) = file
    BY TextType DEF FileThere, AliasFree, TypeOK
  <1>2. prevFile' \in Seq(Entry) /\ Free(prevFile)'
        /\ Unique(prevFile)' /\ Current(prevFile)'
    <2>1. CASE prevFile' = file
      BY <1>1, <2>1 DEF AliasFree, Sound, Free, Unique, Current
    <2>2. CASE prevFile' = <<>>
      BY <2>2 DEF Free, Unique, Current
    <2> QED
      BY <2>1, <2>2
  <1>3. prevFile' \in File
    BY <1>2, EntriesAreLines
  <1>4. TypeOK' /\ FileThere' /\ AliasFree' /\ TrueCopy'
    BY <1>1, <1>2, <1>3 DEF TypeOK, FileThere, AliasFree, TrueCopy, Copied, Free
  <1>5. Sound'
    BY <1>2, SoundStays DEF Sound
  <1>6. Kept'
    BY DEF Kept, Contents, Text
  <1> QED
    BY <1>4, <1>5, <1>6

LEMMA TruncateStep ==
    ASSUME IInv, Truncate
    PROVE  IInv'
  <1> USE DEF Truncate, IInv
  <1>1. file \in File /\ Text(file) = file
    BY TextType DEF FileThere, TypeOK
  <1>2. TypeOK' /\ FileThere' /\ TrueCopy'
    <2>1. <<>> \in File
      BY DEF File
    <2>2. file' \in File
      BY <1>1, <2>1
    <2> QED
      BY <2>2 DEF TypeOK, FileThere, TrueCopy
  <1>3. AliasFree'
    BY DEF AliasFree, Copied, Free
  <1>4. Unique(prevFile)' /\ Current(prevFile)'
    BY DEF Sound, Copied, Unique, Current
  <1>5. Unique(Text(file))' /\ Current(Text(file))'
    <2>1. CASE file' = <<>>
      BY <2>1 DEF Text, Unique, Current
    <2>2. CASE UNCHANGED file
      BY <2>2, SoundStays DEF Sound
    <2> QED
      BY <2>1, <2>2
  <1>6. Kept'
    BY <1>1 DEF Kept, Contents, TrueCopy, Text
  <1> QED
    BY <1>2, <1>3, <1>4, <1>5, <1>6 DEF Sound

\* Whichever text a write leaves behind, it is sound.
LEMMA WrittenSound ==
    ASSUME IInv, pc = "emptied", UNCHANGED given,
           file' = NewText \/ file' \in Beginnings(NewText)
    PROVE  /\ file' \in File /\ Text(file)' = file'
           /\ Unique(file') /\ Current(Text(file))'
  <1> USE DEF IInv
  <1>1. /\ prevFile \in Seq(Entry) /\ Free(prevFile)
        /\ Unique(prevFile) /\ Current(prevFile)
        /\ given[uname] = passwd /\ passwd \in Password
    BY DEF AliasFree, Sound, Copied, TypeOK
  <1>2. /\ NewText \in Seq(Entry) /\ Unique(NewText)
        /\ Len(NewText) = Len(prevFile) + 1 /\ Len(prevFile) \in Nat
        /\ \A i \in 1..Len(prevFile) : NewText[i] = prevFile[i]
        /\ NewText[Len(prevFile) + 1] = [alias |-> uname, password |-> passwd]
    BY <1>1, NewTextSound
  <1>3. file' \in File /\ Unique(file')
    BY <1>2, BeginningOf, UniqueBeginning, EntriesAreLines
  <1>4. Text(file)' = file'
    BY <1>3, UserdataAssumption DEF Text
  <1>5. ASSUME NEW i \in 1..Len(NewText)
        PROVE  /\ NewText[i] \in Entry
               /\ given[NewText[i].alias] \in Password
               /\ NewText[i].password \in Remains(given[NewText[i].alias])
    <2>1. NewText[i] \in Entry
      BY <1>2
    <2>2. CASE i \in 1..Len(prevFile)
      BY <1>1, <1>2, <2>1, <2>2 DEF Current
    <2>3. CASE i = Len(prevFile) + 1
      BY <1>1, <1>2, <2>3 DEF Remains
    <2> QED
      BY <1>2, <2>1, <2>2, <2>3
  <1>6. ASSUME NEW i \in 1..Len(file'), file'[i] \in Entry
        PROVE  /\ given[file'[i].alias] \in Password
               /\ file'[i].password \in Remains(given[file'[i].alias])
    <2>1. /\ i \in 1..Len(NewText)
          /\ file'[i] = NewText[i] \/ file'[i] \in CutEntry(NewText[i])
      BY <1>2, <1>3, BeginningOf DEF File
    <2>2. CASE file'[i] = NewText[i]
      BY <1>5, <2>1, <2>2
    <2>3. CASE file'[i] \in CutEntry(NewText[i])
      <3>1. /\ file'[i].alias = NewText[i].alias
            /\ file'[i].password \in CutLine(NewText[i].password)
        BY <1>5, <1>6, <2>1, <2>3, CutAlias
      <3> QED
        BY <1>5, <2>1, <3>1, CutAgain
    <2> QED
      BY <2>1, <2>2, <2>3
  <1> QED
    BY <1>3, <1>4, <1>6 DEF Current

LEMMA WriteStep ==
    ASSUME IInv, Write
    PROVE  IInv'
  <1> USE DEF Write, IInv
  <1>1. told' = [told EXCEPT ![uname] = passwd] /\ told \in [Name -> Password \cup {Absent}]
        /\ uname \in Name /\ passwd \in Password
    BY DEF TypeOK
  <1>2. CASE pc = "emptied"
    <2>1. prevFile \in Seq(Entry) /\ Free(prevFile) /\ Unique(prevFile)
      BY <1>2 DEF AliasFree, Sound, Copied
    <2>3. /\ file' \in File /\ Text(file)' = file'
          /\ Unique(file') /\ Current(Text(file))'
      BY <1>2, WrittenSound
    <2>4. TypeOK' /\ FileThere' /\ AliasFree' /\ TrueCopy'
      BY <1>1, <2>3 DEF TypeOK, FileThere, AliasFree, TrueCopy, Copied
    <2>5. Sound'
      BY <2>3 DEF Sound, Copied, Unique
    <2>6. Kept'
      <3>1. SUFFICES ASSUME faults = {}, NEW n \in Name, told'[n] # Absent
                     PROVE  [alias |-> n, password |-> told'[n]] \in Entries(file')
        BY <2>3 DEF Kept, Contents
      <3>2. /\ file' = NewText /\ Len(NewText) = Len(prevFile) + 1
            /\ \A i \in 1..Len(prevFile) : NewText[i] = prevFile[i]
            /\ NewText[Len(prevFile) + 1] = [alias |-> uname, password |-> passwd]
        BY <1>2, <2>1, <3>1, NewTextSound
      <3>3. Len(prevFile) \in Nat
        BY <2>1
      <3>4. CASE n = uname
        BY <1>1, <3>2, <3>3, <3>4 DEF Entries
      <3>5. CASE n # uname
        <4>1. [alias |-> n, password |-> told[n]] \in Entries(prevFile)
          BY <1>1, <1>2, <3>1, <3>5 DEF Kept, Contents
        <4> QED
          BY <1>1, <3>2, <3>3, <3>5, <4>1 DEF Entries
      <3> QED
        BY <3>4, <3>5
    <2> QED
      BY <2>4, <2>5, <2>6
  <1>3. CASE pc = "unopened"
    <2>1. file \in File /\ Text(file) = file /\ file' = file /\ Free(file)
          /\ faults # {}
      BY <1>3, TextType DEF FileThere, AliasFree, TypeOK, TrueCopy
    <2>2. TypeOK' /\ FileThere' /\ AliasFree' /\ TrueCopy'
      BY <1>1, <1>3, <2>1 DEF TypeOK, FileThere, AliasFree, TrueCopy, Copied
    <2>3. Unique(Text(file))'
      BY <2>1 DEF Sound, Unique, Text
    <2>4. Current(Text(file))'
      BY <2>1, SoundStays DEF Sound
    <2>5. Kept'
      BY <2>1 DEF Kept
    <2> QED
      BY <1>3, <2>2, <2>3, <2>4, <2>5 DEF Sound, Copied
  <1> QED
    BY <1>2, <1>3

LEMMA EndStep ==
    ASSUME IInv, pc # "emptied", pc' = "down", Stays
    PROVE  IInv'
  <1> USE DEF Stays, IInv
  <1>1. TypeOK' /\ FileThere' /\ AliasFree' /\ TrueCopy'
    BY DEF TypeOK, FileThere, AliasFree, TrueCopy, Copied
  <1>2. Sound'
    BY SoundStays DEF Sound, Copied
  <1>3. Kept'
    BY DEF Kept, Contents, Text
  <1> QED
    BY <1>1, <1>2, <1>3

LEMMA KillWritingStep ==
    ASSUME IInv, KillWriting
    PROVE  IInv'
  <1> USE DEF KillWriting, IInv
  <1>1. file' \in Beginnings(NewText)
        /\ told' = [n \in Name |->
                IF [alias |-> n, password |-> told[n]] \in Entries(file')
                THEN told[n] ELSE Absent]
    OBVIOUS
  <1>4. /\ file' \in File /\ Text(file)' = file'
        /\ Unique(file') /\ Current(Text(file))'
    BY <1>1, WrittenSound
  <1>5. told' \in [Name -> Password \cup {Absent}]
    BY <1>1 DEF TypeOK
  <1>6. TypeOK' /\ FileThere' /\ AliasFree' /\ TrueCopy'
    BY <1>4, <1>5 DEF TypeOK, FileThere, AliasFree, TrueCopy, Copied
  <1>7. Sound'
    BY <1>4 DEF Sound, Copied, Unique
  <1>8. Kept'
    BY <1>1, <1>4 DEF Kept, Contents
  <1> QED
    BY <1>6, <1>7, <1>8

LEMMA Invariance == Spec => []IInv
  <1>1. Init => IInv
    <2> SUFFICES ASSUME Init PROVE IInv
      OBVIOUS
    <2>1. <<>> \in File /\ Text(file) = <<>>
      BY DEF Init, Text, File
    <2> QED
      BY <2>1 DEF Init, IInv, TypeOK, FileThere, AliasFree, Sound, TrueCopy, Kept,
                  Copied, Unique, Current
  <1>2. IInv /\ [Next]_vars => IInv'
    <2> SUFFICES ASSUME IInv, [Next]_vars PROVE IInv'
      OBVIOUS
    <2>1. CASE Start
      BY <2>1, StartStep
    <2>2. CASE RegisterUser
      BY <2>2, ReadStep, TruncateStep, WriteStep DEF RegisterUser
    <2>3. CASE Kill
      BY <2>3, EndStep DEF Kill
    <2>4. CASE KillWriting
      BY <2>4, KillWritingStep
    <2>5. ASSUME NEW n \in Name, LoginThrows(n)
          PROVE  IInv'
      BY <2>5, EndStep DEF LoginThrows
    <2>6. ASSUME NEW n \in Name, NEW p \in Password, LoginNew(n, p)
          PROVE  IInv'
      BY <2>6, LoginStep
    <2>7. CASE UNCHANGED vars
      BY <2>7 DEF vars, IInv, TypeOK, FileThere, AliasFree, Sound, TrueCopy, Kept,
                  Copied, Unique, Current, Free, Text, Contents
    <2> QED
      BY <2>1, <2>2, <2>3, <2>4, <2>5, <2>6, <2>7 DEF Next
  <1> QED
    BY <1>1, <1>2, PTL DEF Spec

-----------------------------------------------------------------------------
(* The results.                                                            *)

\* Every variable of the file's model keeps its type.
THEOREM UserdataTypes == Spec => []TypeOK
  <1>1. IInv => TypeOK
    BY DEF IInv
  <1> QED
    BY <1>1, Invariance, PTL

\* Where opening and writing never fail, whoever was told to be registered is
\* on file, unless the process was killed while it wrote.
THEOREM NobodyForgotten == Spec => []Kept
  <1>1. IInv => Kept
    BY DEF IInv
  <1> QED
    BY <1>1, Invariance, PTL

\* No alias ever has two entries, whatever fails.
THEOREM EntriesUnique == Spec => []OneEntryEach
  <1>1. IInv => OneEntryEach
    BY DEF IInv, Sound, Unique, Copied, OneEntryEach, Contents
  <1> QED
    BY <1>1, Invariance, PTL

\* Whatever fails, and however often a text is cut, a password that admits is
\* the one last given for its alias, a beginning of that one, or the "null"
\* that is read where nothing of it is left.
THEOREM PasswordsCurrent == Spec => []NoStalePassword
  <1>1. IInv => NoStalePassword
    <2>1. SUFFICES ASSUME IInv, NEW i \in 1..Len(Text(file)),
                          Reads(Text(file)[i]) \in Password
                   PROVE  /\ given[Text(file)[i].alias] # Absent
                          /\ Reads(Text(file)[i]) \in {given[Text(file)[i].alias]}
                                 \cup Remainder[given[Text(file)[i].alias]]
      BY DEF NoStalePassword, Entries
    <2> DEFINE e == Text(file)[i]  p == given[e.alias]
    <2>2. e \in Line
      BY <2>1, FileType, TextType DEF IInv, TypeOK
    <2>3. e \in Entry
      BY <2>1, <2>2, UserdataAssumption
      DEF Line, Junk, FirstLine, OpenQuote, Reads, Cut
    <2>4. p \in Password /\ e.password \in Remains(p)
      BY <2>1, <2>3 DEF IInv, Sound, Current
    <2>5. Remainder[p] = Shorter[p] \cup {NullText}
      BY <2>4 DEF Remainder
    <2>6. Reads(e) \in {p} \cup Remainder[p]
      BY <2>1, <2>4, <2>5, UserdataAssumption DEF Remains, Reads, Cut
    <2> QED
      BY <2>4, <2>6, UserdataAssumption
  <1> QED
    BY <1>1, Invariance, PTL

-----------------------------------------------------------------------------
(* The file implements UserStore.                                          *)

AccountIn(f, n) ==
    IF ~Known(f, n) THEN Absent
    ELSE LET e == CHOOSE e \in EntriesOf(f, n) : TRUE
         IN  IF Reads(e) \in Password THEN Reads(e) ELSE NoPassword
Accounts == [n \in Name |-> IF faults = {} THEN AccountOf(n) ELSE Absent]

LEMMA AccountsAre ==
    Accounts = [n \in Name |-> IF faults = {} THEN AccountIn(Contents, n) ELSE Absent]
  BY DEF Accounts, AccountOf, AccountIn

LEMMA AccountType ==
    ASSUME NEW f, NEW n
    PROVE  AccountIn(f, n) \in Password \cup {Absent, NoPassword}
  BY DEF AccountIn

\* The entry of an alias decides, since there is only one.
LEMMA AccountOfEntry ==
    ASSUME NEW f \in File, Unique(f), NEW i \in 1..Len(f)
    PROVE  AccountIn(f, f[i].alias) =
               IF Reads(f[i]) \in Password THEN Reads(f[i]) ELSE NoPassword
  <1>1. EntriesOf(f, f[i].alias) = {f[i]}
    BY DEF EntriesOf, Entries, Unique
  <1>2. (CHOOSE e \in {f[i]} : TRUE) = f[i]
    OBVIOUS
  <1> QED
    BY <1>1, <1>2 DEF AccountIn, Known

LEMMA AccountsStay ==
    ASSUME faults = {} => Contents' = Contents, UNCHANGED faults
    PROVE  Accounts' = Accounts
  <1>1. CASE faults = {}
    <2>1. \A n \in Name : AccountOf(n)' = AccountOf(n)
      BY <1>1 DEF AccountOf, Known, EntriesOf
    <2> QED
      BY <1>1, <2>1 DEF Accounts
  <1>2. CASE faults # {}
    BY <1>2 DEF Accounts
  <1> QED
    BY <1>1, <1>2

\* The text that is to be written holds the new account beside the old ones.
LEMMA NewAccounts ==
    ASSUME IInv, pc = "emptied"
    PROVE  /\ NewText \in Seq(Entry) /\ NewText \in File /\ Unique(NewText)
           /\ Contents = prevFile
           /\ AccountIn(prevFile, uname) = Absent
           /\ AccountIn(NewText, uname) = passwd
           /\ \A n \in Name \ {uname} :
                 AccountIn(NewText, n) = AccountIn(prevFile, n)
  <1> USE DEF IInv
  <1>1. uname \in Name /\ passwd \in Password
    BY DEF TypeOK
  <1>2. /\ prevFile \in Seq(Entry) /\ prevFile \in File
        /\ Free(prevFile) /\ Unique(prevFile)
    BY DEF AliasFree, Sound, Copied, TypeOK
  <1>3. /\ NewText \in Seq(Entry) /\ NewText \in File /\ Unique(NewText)
        /\ Len(NewText) = Len(prevFile) + 1 /\ Len(prevFile) \in Nat
        /\ \A i \in 1..Len(prevFile) : NewText[i] = prevFile[i]
        /\ NewText[Len(prevFile) + 1] = [alias |-> uname, password |-> passwd]
    BY <1>2, NewTextSound, EntriesAreLines
  <1>4. AccountIn(prevFile, uname) = Absent
    BY <1>2, NotKnown DEF Free, AccountIn
  <1>5. AccountIn(NewText, uname) = passwd
    <2>1. Reads(NewText[Len(prevFile) + 1]) = passwd
      BY <1>1, <1>3, UserdataAssumption DEF Reads, Cut
    <2>2. AccountIn(NewText, NewText[Len(prevFile) + 1].alias) = passwd
      BY <1>1, <1>3, <2>1, AccountOfEntry
    <2> QED
      BY <1>3, <2>2
  <1>6. ASSUME NEW n \in Name, n # uname
        PROVE  AccountIn(NewText, n) = AccountIn(prevFile, n)
    <2>1. EntriesOf(NewText, n) = EntriesOf(prevFile, n)
      <3>1. \A i \in 1..Len(NewText) : i \in 1..Len(prevFile) \/ i = Len(prevFile) + 1
        BY <1>3
      <3>2. \A i \in 1..Len(prevFile) : i \in 1..Len(NewText)
        BY <1>3
      <3> QED
        BY <1>3, <1>6, <3>1, <3>2 DEF EntriesOf, Entries
    <2> QED
      BY <2>1 DEF AccountIn, Known
  <1> QED
    BY <1>3, <1>4, <1>5, <1>6 DEF Contents

LEMMA RegisterImplemented ==
    ASSUME IInv, Write, faults = {}
    PROVE  /\ Accounts[uname] = Absent
           /\ Accounts' = [Accounts EXCEPT ![uname] = passwd]
  <1>1. /\ pc = "emptied" /\ file' = NewText /\ faults' = {} /\ pc' = "serving"
        /\ uname \in Name /\ passwd \in Password
    BY DEF IInv, Write, TrueCopy, TypeOK
  <1>2. Contents' = NewText
    BY <1>1, NewAccounts, UserdataAssumption DEF Contents, Text
  <1>3. Accounts' = [n \in Name |-> AccountIn(NewText, n)]
    BY <1>1, <1>2, AccountsAre DEF Accounts, AccountOf, AccountIn, Known, EntriesOf
  <1> QED
    BY <1>1, <1>3, NewAccounts, AccountsAre

\* The entry in which a text ends too early is left with what a cut makes of
\* its account.
LEMMA CutAccount ==
    ASSUME NEW e \in Entry, NEW d \in Entry,
           d = e \/ d.password \in CutLine(e.password)
    PROVE  (IF Reads(d) \in Password THEN Reads(d) ELSE NoPassword) \in
               Store!LeftOf(IF Reads(e) \in Password THEN Reads(e) ELSE NoPassword)
  <1> USE UserdataAssumption
  <1>1. CASE d = e
    BY <1>1 DEF Store!LeftOf
  <1>2. CASE e.password \in Password /\ d.password \in CutLine(e.password)
    <2>1. /\ Reads(e) = e.password
          /\ Remainder[e.password] = Shorter[e.password] \cup {NullText}
          /\ Shorter[e.password] \subseteq Password
      BY <1>2 DEF Reads, Remainder, Cut
    <2>2. d.password \in Cut \/ d.password \in Shorter[e.password]
      BY <1>2, CutLineOf
    <2>3. Store!LeftOf(e.password) =
              {e.password, Absent, NoPassword} \cup Remainder[e.password]
      BY <1>2 DEF Store!LeftOf
    <2> QED
      BY <1>2, <2>1, <2>2, <2>3 DEF Reads, Cut
  <1>3. CASE e.password \in Cut /\ d.password \in CutLine(e.password)
    BY <1>3, CutLineOf DEF CutLine, Reads, Cut, Store!LeftOf
  <1> QED
    BY <1>1, <1>2, <1>3 DEF Entry

\* The text ends too early in the entry of one alias: it is the new one, and
\* all others are kept, or the new one is lost with those before it.
LEMMA StopImplemented ==
    ASSUME IInv, KillWriting, faults = {}
    PROVE  \/ Accounts' \in Store!CutInNew(uname, passwd)
           \/ \E n \in Name : Accounts' \in Store!CutInOld(n)
  <1> USE DEF IInv
  <1> DEFINE last == Len(file')
             meant(m) == AccountIn(NewText, m)
  <1>1. /\ pc = "emptied" /\ faults' = {} /\ file' \in Beginnings(NewText)
        /\ uname \in Name /\ passwd \in Password
    BY DEF KillWriting, TypeOK
  <1>2. /\ NewText \in Seq(Entry) /\ NewText \in File /\ Unique(NewText)
        /\ NewText[Len(NewText)].alias = uname /\ Len(NewText) \in Nat \ {0}
        /\ meant(uname) = passwd
        /\ Accounts = [m \in Name |-> IF m = uname THEN Absent ELSE meant(m)]
    <2>1. /\ Len(NewText) = Len(prevFile) + 1 /\ Len(prevFile) \in Nat
          /\ NewText[Len(prevFile) + 1].alias = uname
      BY <1>1, NewTextSound DEF AliasFree, Sound, Copied
    <2> QED
      BY <1>1, <2>1, NewAccounts, AccountsAre
  <1>3. /\ file' \in File /\ Unique(file')
        /\ last <= Len(NewText) /\ last \in Nat
        /\ \A i \in 1..last :
              \/ file'[i] = NewText[i]
              \/ i = last /\ file'[i] \in CutEntry(NewText[i])
    BY <1>1, <1>2, BeginningOf, UniqueBeginning DEF File
  <1>4. Accounts' = [m \in Name |-> AccountIn(file', m)]
    <2>1. Contents' = file'
      BY <1>1, <1>3, UserdataAssumption DEF KillWriting, Contents, Text
    <2> QED
      BY <1>1, <2>1 DEF Accounts, AccountOf, AccountIn, Known, EntriesOf
  <1>5. Accounts' \in [Name -> Store!Account]
    BY <1>4, AccountType DEF Store!Account
  <1>6. ASSUME NEW i \in 1..last, file'[i].alias \in Name
        PROVE  LET m == file'[i].alias
               IN  /\ AccountIn(file', m) \in Store!LeftOf(meant(m))
                   /\ i # last => AccountIn(file', m) = meant(m)
                   /\ i \in 1..Len(NewText) /\ NewText[i].alias = m
    <2> DEFINE m == file'[i].alias
    <2>1. i \in 1..Len(NewText) /\ NewText[i] \in Entry
      BY <1>2, <1>3
    <2>2. file'[i] \in Entry
      BY <1>3, <1>6, FileType, LineType, UserdataAssumption
    <2>3. /\ NewText[i].alias = m
          /\ file'[i] = NewText[i] \/ file'[i].password \in CutLine(NewText[i].password)
      BY <1>3, <2>1, <2>2, CutAlias
    <2>4. AccountIn(file', m) =
             IF Reads(file'[i]) \in Password THEN Reads(file'[i]) ELSE NoPassword
      BY <1>3, AccountOfEntry
    <2>5. meant(m) =
             IF Reads(NewText[i]) \in Password THEN Reads(NewText[i]) ELSE NoPassword
      BY <1>2, <2>1, <2>3, AccountOfEntry
    <2>6. AccountIn(file', m) \in Store!LeftOf(meant(m))
      BY <2>1, <2>2, <2>3, <2>4, <2>5, CutAccount
    <2>7. i # last => AccountIn(file', m) = meant(m)
      BY <1>3, <2>4, <2>5
    <2> QED
      BY <2>1, <2>3, <2>6, <2>7
  <1>7. ASSUME NEW m \in Name, \A i \in 1..last : file'[i].alias # m
        PROVE  AccountIn(file', m) = Absent
    BY <1>3, <1>7, NotKnown DEF AccountIn
  <1> HIDE DEF meant
  <1>8. CASE \E i \in 1..last : file'[i].alias = uname
    <2>1. PICK i \in 1..last : file'[i].alias = uname
      BY <1>8
    <2>2. i = Len(NewText) /\ last = Len(NewText)
      <3>1. i \in 1..Len(NewText) /\ NewText[i].alias = uname
        BY <1>1, <1>6, <2>1
      <3> QED
        BY <1>2, <1>3, <3>1 DEF Unique
    <2>3. AccountIn(file', uname) \in Store!LeftOf(passwd)
      BY <1>1, <1>2, <1>6, <2>1
    <2>4. ASSUME NEW m \in Name, m # uname
          PROVE  AccountIn(file', m) = meant(m)
      <3>1. CASE \E j \in 1..last : file'[j].alias = m
        BY <1>6, <2>1, <2>2, <2>4, <3>1
      <3>2. CASE \A j \in 1..last : file'[j].alias # m
        <4>1. \A j \in 1..Len(NewText) : NewText[j].alias # m
          BY <1>2, <1>3, <2>2, <2>4, <3>2
        <4> QED
          BY <1>2, <1>7, <3>2, <4>1, NotKnown DEF AccountIn, meant
      <3> QED
        BY <3>1, <3>2
    <2>5. Accounts' = [Accounts EXCEPT ![uname] = AccountIn(file', uname)]
      BY <1>1, <1>2, <1>4, <2>4
    <2> QED
      BY <2>3, <2>5 DEF Store!CutInNew, Accounts
  <1>9. CASE \A i \in 1..last : file'[i].alias # uname
    <2>1. AccountIn(file', uname) = Absent
      BY <1>1, <1>7, <1>9
    <2>2. ASSUME NEW i \in 1..last, file'[i].alias \in Name
          PROVE  meant(file'[i].alias) = Accounts[file'[i].alias]
      BY <1>2, <1>9, <2>2
    <2>3. ASSUME NEW n \in Name,
                 AccountIn(file', n) \in Store!LeftOf(Accounts[n]),
                 \A i \in 1..last : file'[i].alias \in Name \ {n} => i # last
          PROVE  Accounts' \in Store!CutInOld(n)
      <3>1. ASSUME NEW m \in Name \ {n}
            PROVE  AccountIn(file', m) \in {Accounts[m], Absent}
        <4>1. CASE \E i \in 1..last : file'[i].alias = m
          BY <1>6, <2>2, <2>3, <3>1, <4>1
        <4>2. CASE \A i \in 1..last : file'[i].alias # m
          BY <1>7, <4>2
        <4> QED
          BY <4>1, <4>2
      <3> QED
        BY <1>4, <1>5, <2>3, <3>1 DEF Store!CutInOld, Accounts
    <2>4. CASE \E i \in 1..last : i = last /\ file'[i].alias \in Name
      <3>1. PICK i \in 1..last : i = last /\ file'[i].alias \in Name
        BY <2>4
      <3>2. AccountIn(file', file'[i].alias) \in Store!LeftOf(Accounts[file'[i].alias])
        BY <1>6, <2>2, <3>1
      <3>3. Accounts' \in Store!CutInOld(file'[i].alias)
        BY <2>3, <3>1, <3>2
      <3> QED
        BY <3>1, <3>3
    <2>5. CASE \A i \in 1..last : file'[i].alias \in Name => i # last
      <3>1. AccountIn(file', uname) \in Store!LeftOf(Accounts[uname])
        BY <1>1, <1>2, <2>1 DEF Store!LeftOf
      <3>2. Accounts' \in Store!CutInOld(uname)
        BY <1>1, <2>3, <2>5, <3>1
      <3> QED
        BY <1>1, <3>2
    <2> QED
      BY <2>4, <2>5
  <1> QED
    BY <1>8, <1>9

LEMMA AccountsType == Accounts \in [Name -> Store!Account]
  BY AccountsAre, AccountType DEF Store!Account

LEMMA StepStores ==
    ASSUME IInv, [Next]_vars
    PROVE  [Store!Next]_(Store!vars)
  <1>1. Store!vars = <<pc # "down", Accounts>>
    BY DEF Store!vars, Accounts
  <1>2. CASE Start
    <2>1. Contents' = Contents /\ UNCHANGED faults
      BY <1>2, TextType, UserdataAssumption DEF Start, IInv, TypeOK, Contents, Text
    <2>2. Accounts' = Accounts
      BY <2>1, AccountsStay
    <2> QED
      BY <1>2, <2>2 DEF Start, Store!Start, Store!Next, Accounts
  <1>3. CASE ReadFile \/ Truncate
    <2>1. (faults = {} => Contents' = Contents) /\ UNCHANGED faults
      BY <1>3, TextType
      DEF IInv, ReadFile, Truncate, FileThere, TrueCopy, TypeOK, Contents, Text
    <2>2. Accounts' = Accounts
      BY <2>1, AccountsStay
    <2> QED
      BY <1>1, <1>3, <2>2 DEF ReadFile, Truncate, Store!vars, Accounts
  <1>4. CASE Write /\ faults # {}
    <2>1. Accounts' = Accounts
      BY <1>4, AccountsStay DEF Write
    <2> QED
      BY <1>4, <2>1 DEF Write, Store!vars, Accounts
  <1>5. CASE Write /\ faults = {}
    <2>1. /\ pc # "down" /\ pc' # "down"
          /\ uname \in Name /\ passwd \in Password
      BY <1>5 DEF IInv, TypeOK, Write
    <2>2. Store!Register(uname, passwd)
      BY <1>5, <2>1, RegisterImplemented DEF Store!Register, Accounts
    <2> QED
      BY <2>1, <2>2 DEF Store!Next
  <1>6. CASE KillWriting
    <2>1. pc # "down" /\ pc' = "down"
      BY <1>6 DEF KillWriting
    <2>2. ASSUME faults = {} PROVE Store!Stop
      <3>1. /\ pc = "emptied" /\ uname \in Name /\ passwd \in Password
            /\ Accounts[uname] = Absent
        BY <1>6, <2>2, NewAccounts, AccountsAre DEF KillWriting, IInv, TypeOK
      <3> QED
        BY <1>6, <2>1, <2>2, <3>1, StopImplemented DEF Store!Stop, Accounts
    <2>3. ASSUME faults # {} PROVE Store!Stop
      <3>1. Accounts' = Accounts
        BY <1>6, <2>3, AccountsStay DEF KillWriting
      <3> QED
        BY <2>1, <3>1 DEF Store!Stop, Accounts
    <2>4. Store!Stop
      BY <2>2, <2>3
    <2> QED
      BY <2>4 DEF Store!Next
  <1>7. ASSUME pc \notin {"down", "emptied"}, pc' = "down", Stays
        PROVE  [Store!Next]_(Store!vars)
    <2>1. Contents' = Contents /\ UNCHANGED faults
      BY <1>7 DEF Stays, Contents, Text
    <2>2. Accounts' = Accounts
      BY <2>1, AccountsStay
    <2>3. Store!Stop
      BY <1>7, <2>2, AccountsType DEF Store!Stop, Accounts
    <2> QED
      BY <2>3 DEF Store!Next
  <1>8. ASSUME NEW n \in Name, NEW p \in Password, LoginNew(n, p)
        PROVE  [Store!Next]_(Store!vars)
    <2>1. Contents' = Contents /\ UNCHANGED faults
      BY <1>8 DEF LoginNew, Contents, Text
    <2>2. Accounts' = Accounts
      BY <2>1, AccountsStay
    <2> QED
      BY <1>8, <2>2 DEF LoginNew, Store!vars, Accounts
  <1>9. CASE UNCHANGED vars
    <2>1. Contents' = Contents /\ UNCHANGED faults
      BY <1>9 DEF vars, Contents, Text
    <2>2. Accounts' = Accounts
      BY <2>1, AccountsStay
    <2> QED
      BY <1>9, <2>2 DEF vars, Store!vars, Accounts
  <1>10. Kill \/ (\E n \in Name : LoginThrows(n)) =>
            pc \notin {"down", "emptied"} /\ pc' = "down" /\ Stays
    BY DEF Kill, LoginThrows
  <1> QED
    BY <1>2, <1>3, <1>4, <1>5, <1>6, <1>7, <1>8, <1>9, <1>10 DEF Next, RegisterUser

\* Where opening and writing never fail, the file implements the store of
\* accounts, step by step and whenever the process is killed.
THEOREM ImplementsStore == Spec => StoreSpec
  <1>1. Init => Store!Init
    <2> SUFFICES ASSUME Init PROVE Store!Init
      OBVIOUS
    <2>1. Accounts \in [Name -> Store!Account]
      BY AccountsType
    <2> QED
      BY <2>1 DEF Store!Init, Accounts
  <1> QED
    BY <1>1, StepStores, Invariance, PTL DEF Spec, StoreSpec, Store!Spec
===============================================================================

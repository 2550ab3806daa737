------------------------------ MODULE Userdata ------------------------------
(***************************************************************************)
(* userdata.yml: how it is opened, read at every login, and rewritten by   *)
(* registerUser, one operation on the file per step.  The server process   *)
(* can be killed between any two of them (nothing else ever ends it but    *)
(* exceptions), or while it writes; opening a file fails when the process  *)
(* is out of descriptors, writing when the disk is full.                   *)
(*                                                                         *)
(* The text of the file is a sequence of entries, two lines each:          *)
(*     alias:                                                              *)
(*       password: ...                                                     *)
(* A text cut short ends in an entry without its second line ("bare"),     *)
(* with a piece of the word "password" as its only value ("word"), with no *)
(* value for the password ("blank"), or with a beginning of the password,  *)
(* which is a password like any other; or in a piece of a first line or an *)
(* unterminated value, which the parser refuses together with the file.    *)
(* Logins are handled one after the other by the manage thread.            *)
(***************************************************************************)
EXTENDS Naturals, Sequences, FiniteSets

CONSTANTS
    Name, Password,
    Shorter,     \* the beginnings of each password
    NullText,    \* "null", which yaml-cpp reads where there is no value
    NoFile,      \* the file does not exist
    Absent,      \* no entry
    NoPassword,  \* an entry nobody can be admitted under
    Nobody       \* the alias of a cut first line

VARIABLES
    faults,   \* subset of {"open", "write"}: what may fail on this machine
    file,     \* the file on disk
    pc,       \* where the manage thread is in receive and registerUser
    uname, passwd,   \* the login being handled
    prevFile, \* registerUser's copy of the file
    given,    \* the password last given to registerUser for each alias
    told      \* the same, unless the write was interrupted

vars == <<faults, file, pc, uname, passwd, prevFile, given, told>>

-----------------------------------------------------------------------------
(* The text of the file and what YAML::LoadFile makes of it.               *)

Cut == {"bare", "word", "blank"}
Entry == [alias : Name, password : Password \cup Cut]
FirstLine == [alias |-> Nobody, password |-> "bare"]   \* a piece of one
OpenQuote == [alias |-> Nobody, password |-> "word"]
Junk == {FirstLine, OpenQuote}
File == Seq(Entry \cup Junk)

ASSUME UserdataAssumption ==
    /\ Shorter \in [Password -> SUBSET Password]
    /\ \A p \in Password : \A q \in Shorter[p] : Shorter[q] \subseteq Shorter[p]
    /\ NullText \in Password
    /\ Nobody \notin Name /\ NoFile \notin File
    /\ Absent \notin Password /\ NoPassword \notin Password /\ Absent # NoPassword
    /\ Cut \cap Password = {}

Text(f) == IF f = NoFile THEN <<>> ELSE f
Entries(text) == {text[i] : i \in 1..Len(text)}
Malformed(text) == Junk \cap Entries(text) # {}
EntriesOf(text, n) == {e \in Entries(text) : e.alias = n}
Known(text, n) == EntriesOf(text, n) # {}

\* The password that admits under an entry, if there is one.
Reads(e) == IF e.password = "blank" THEN NullText ELSE e.password

\* What a password may be read as after it was cut.
Remainder == [p \in Password |-> Shorter[p] \cup {NullText}]

\* What may be left of a text that was not written to its end.
CutLine(d) ==
    CASE d = "bare" -> {"bare"}
      [] d = "word" -> {"bare", "word"}
      [] d = "blank" -> Cut
      [] OTHER -> Cut \cup Shorter[d]
CutEntry(e) == {[e EXCEPT !.password = d] : d \in CutLine(e.password)} \cup Junk
Beginnings(text) ==
    {SubSeq(text, 1, k) : k \in 0..Len(text) - 1} \cup
    UNION {{Append(SubSeq(text, 1, k - 1), e) : e \in CutEntry(text[k])} :
              k \in 1..Len(text)}

-----------------------------------------------------------------------------
(* Starting and logging in.                                                *)

Stays == UNCHANGED <<faults, file, prevFile, uname, passwd, given, told>>

\* openUserdata: the file is parsed, or created.  A malformed file throws and
\* the server does not start; a file that is nothing but a piece of a first
\* line is a scalar and loads.
Start ==
    /\ pc = "down"
    /\ Malformed(Text(file)) => file = <<FirstLine>>
    /\ file' = Text(file)
    /\ pc' = "serving"
    /\ UNCHANGED <<faults, uname, passwd, prevFile, given, told>>

\* LoadFile throws because it cannot open or parse the file, or an operator[]
\* because the file or the entry of the user is no map: nobody catches that.
LoginThrows(n) ==
    /\ pc = "serving"
    /\ \/ Malformed(file)
       \/ "open" \in faults
       \/ \E e \in EntriesOf(file, n) : e.password = "word"
    /\ pc' = "down"
    /\ Stays

\* A user name that is not on file is admitted (nick) and then registered;
\* one that is on file changes nothing.
IsNewUnlessUsable(n) == \A e \in EntriesOf(file, n) : e.password \in Cut
IsNew(n) == ~Known(file, n)

LoginNew(n, p) ==
    /\ pc = "serving"
    /\ ~Malformed(file)
    /\ IsNew(n)
    /\ uname' = n
    /\ passwd' = p
    /\ given' = [given EXCEPT ![n] = p]
    /\ pc' = "admitted"
    /\ UNCHANGED <<faults, file, prevFile, told>>

-----------------------------------------------------------------------------
(* registerUser.                                                           *)

\* The file is copied line by line; a file that does not open has no lines.
LineBreakForgotten(text) ==
    IF text = <<>> THEN <<>> ELSE [text EXCEPT ![Len(text)].password = "word"]
LineBreakAdded(text) == text
CopyKept == prevFile
CopyUnread == <<>>

ReadFile ==
    /\ pc = "admitted"
    /\ \/ prevFile' = LineBreakAdded(file)
       \/ "open" \in faults /\ prevFile' = CopyUnread
    /\ pc' = "read"
    /\ UNCHANGED <<faults, file, uname, passwd, given, told>>

\* Opening it for writing empties it.
Truncate ==
    /\ pc = "read"
    /\ \/ file' = <<>> /\ pc' = "emptied"
       \/ "open" \in faults /\ UNCHANGED file /\ pc' = "unopened"
    /\ UNCHANGED <<faults, uname, passwd, prevFile, given, told>>

TextWithoutValue == Append(prevFile, [alias |-> uname, password |-> Absent])
NewText == Append(prevFile, [alias |-> uname, password |-> passwd])

\* ... and closing it has written the new text.  No failure is noticed: the
\* user is welcomed in any case.
Write ==
    /\ \/ pc = "emptied" /\ file' = NewText
       \/ pc = "emptied" /\ "write" \in faults /\ file' \in Beginnings(NewText)
       \/ pc = "unopened" /\ UNCHANGED file
    /\ told' = [told EXCEPT ![uname] = passwd]
    /\ pc' = "serving"
    /\ UNCHANGED <<faults, uname, passwd, prevFile, given>>

-----------------------------------------------------------------------------
\* The process is killed.
Kill ==
    /\ pc \notin {"down", "emptied"}
    /\ pc' = "down"
    /\ Stays

\* The same while the file is being written: whoever is not found in what is
\* left has to register again.
KillWriting ==
    /\ pc = "emptied"
    /\ pc' = "down"
    /\ \E text \in Beginnings(NewText) :
          /\ file' = text
          /\ told' = [n \in Name |->
                IF [alias |-> n, password |-> told[n]] \in Entries(text)
                THEN told[n] ELSE Absent]
    /\ UNCHANGED <<faults, uname, passwd, prevFile, given>>

Init ==
    /\ faults \in {{}, {"open", "write"}}
    /\ file = NoFile
    /\ pc = "down"
    /\ uname \in Name /\ passwd \in Password
    /\ prevFile = <<>>
    /\ given = [n \in Name |-> Absent]
    /\ told = [n \in Name |-> Absent]

RegisterUser == ReadFile \/ Truncate \/ Write

Next ==
    \/ Start \/ RegisterUser \/ Kill \/ KillWriting
    \/ \E n \in Name : LoginThrows(n) \/ \E p \in Password : LoginNew(n, p)

Spec == Init /\ [][Next]_vars

-----------------------------------------------------------------------------
(* Correctness.                                                            *)

\* Every variable holds a value of its type.
TypeOK ==
    /\ faults \subseteq {"open", "write"}
    /\ file \in File \cup {NoFile}
    /\ pc \in {"down", "serving", "admitted", "read", "emptied", "unopened"}
    /\ uname \in Name /\ passwd \in Password
    /\ prevFile \in File
    /\ given \in [Name -> Password \cup {Absent}]
    /\ told \in [Name -> Password \cup {Absent}]

\* What a reader finds once the registration under way is over, unless it
\* is interrupted.
Contents == IF pc = "emptied" THEN prevFile ELSE Text(file)

\* Whoever was told to be registered is on file, whatever was registered
\* since and however often the process was killed; only a process killed
\* between the truncation and the end of the write forgets anybody.  Holds
\* if opening and writing never fail.
Kept ==
    \A n \in Name : faults = {} /\ told[n] # Absent =>
        [alias |-> n, password |-> told[n]] \in Entries(Contents)

\* No alias has two entries, also after failures and in a file that was cut:
\* which of two YAML would use is anybody's guess.
OneEntryEach ==
    \A i, j \in 1..Len(Contents) :
        i # j => Contents[i].alias # Contents[j].alias

\* A password that admits somebody is the one last given for its alias, or
\* what a cut made of that one: failures and kills may forget an entry or
\* shorten it, once or several times over, never put back an older password.
NoStalePassword ==
    \A e \in Entries(Text(file)) : Reads(e) \in Password =>
        /\ given[e.alias] # Absent
        /\ Reads(e) \in {given[e.alias]} \cup Remainder[given[e.alias]]

\* The file implements UserStore, if opening and writing never fail.
AccountOf(n) ==
    IF ~Known(Contents, n) THEN Absent
    ELSE LET e == CHOOSE e \in EntriesOf(Contents, n) : TRUE
         IN  IF Reads(e) \in Password THEN Reads(e) ELSE NoPassword
Store == INSTANCE UserStore WITH
            Alias <- Name, None <- Absent, Spoiled <- NoPassword,
            up <- (pc # "down"),
            accounts <- [n \in Name |-> IF faults = {} THEN AccountOf(n) ELSE Absent]
StoreSpec == Store!Spec

=============================================================================

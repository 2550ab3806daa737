------------------------------- MODULE Lines -------------------------------
(***************************************************************************)
(* What becomes of a line a user types: how the client program makes a     *)
(* packet of it, how the server takes the packet apart (Lexer, Executor,   *)
(* handleSend, the scan of the credentials) and composes another, and what *)
(* the client programs show of that.  One line, one action per program.    *)
(*                                                                         *)
(* Here texts are sequences of characters, since everything depends on     *)
(* separators, terminating NULs and the sizes of arrays.  Encryption is    *)
(* left out: it returns the bytes it was given (SystemProofs and Stream    *)
(* deal with keys and chunks).                                             *)
(***************************************************************************)
EXTENDS Naturals, Sequences, SequencesExt

CONSTANTS
    Typable,        \* characters a user can type, but for Sep and Nul
    HelpWord, PluginsWord, MsgWord,   \* the commands
    Sender,         \* the alias of the user who types
    Peer,           \* an alias in use
    Online,         \* the aliases in the list nick sends, in its order
    Names, Passwords,  \* what users type for a user name and for a password
    CommandWords,   \* size of Executor::iterate's array (512)
    ChatRoom,       \* size of receive()'s char_array (256)
    ClientWords,    \* size of the C++ client's args (100)
    MaxTyped        \* bound: characters typed

Sep == "\\x01"
Nul == "\\0"
Space == " "
Slash == "/"

\* Nothing keeps a user from typing the separator.  A line with a NUL in it
\* is not studied, but credentials with one are.
Keys == Typable \cup {Sep}

\* An alias is the first word of what was typed as a user name; an empty one
\* is kicked.
ASSUME LinesAssumption ==
    /\ {Sep, Nul} \cap Typable = {} /\ {Space, Slash} \subseteq Typable
    /\ {HelpWord, PluginsWord, MsgWord, Sender, Peer} \subseteq Seq(Typable)
    /\ Names \subseteq Seq(Keys \cup {Nul}) /\ Passwords \subseteq Seq(Keys \cup {Nul})
    /\ Online \in Seq(Seq(Typable) \ {<<>>})
    /\ HelpWord # PluginsWord /\ HelpWord # MsgWord /\ PluginsWord # MsgWord
    /\ Sender # Peer
    /\ {CommandWords, ChatRoom, ClientWords, MaxTyped} \subseteq Nat
    /\ CommandWords > 3 /\ ClientWords > 3

VARIABLES
    client,    \* the program: "cpp", "rust", "tester" (encrypt-test-client)
    stage,     \* how far the line has come
    text,      \* what was typed
    passwd,    \* and the password, when that was a user name
    packet,    \* what the client sent
    did,       \* what the server did
    wire,      \* what it sent
    shown      \* what each program shows of that

vars == <<client, stage, text, passwd, packet, did, wire, shown>>

-----------------------------------------------------------------------------
(* Strings.                                                                *)

\* Lexer::lex and Utils::lexer: the words, read off the array.  A character
\* either starts the next word or is added to the last one.
NextWordKept(words) == Append(words, words[Len(words)])
NextWord(words) == Append(words, <<>>)
Read(words, x, sep) ==
    IF x = sep THEN NextWord(words)
    ELSE [words EXCEPT ![Len(words)] = Append(@, x)]
Lex(str, sep) ==
    LET words[k \in 0..Len(str)] ==
            IF k = 0 THEN <<<<>>>> ELSE Read(words[k - 1], str[k], sep)
    IN  words[Len(str)]
\* What the array holds at position k; the rest of it is empty.
Arg(words, k) == IF k < Len(words) THEN words[k + 1] ELSE <<>>

\* A text passed as a const char*.
CString(str) ==
    SubSeq(str, 1, IF \E i \in 1..Len(str) : str[i] = Nul
                   THEN SelectInSeq(str, LAMBDA x : x = Nul) - 1
                   ELSE Len(str))

Blank(str) == \A i \in 1..Len(str) : str[i] = Space
Packed(fields) == Tail(FlattenSeq([i \in 1..Len(fields) |-> <<Sep>> \o fields[i]]))

-----------------------------------------------------------------------------
(* The client programs send.                                               *)

Filler == <<"A", "A">>
NotShifted(str) == str
CarCdr(str) == Tail(str)
\* memmove takes the terminating NUL along, and the length stays.
ShiftLeft(str) == Append(Tail(str), Nul)

Prefixed(str, shifted) ==
    IF str # <<>> /\ str[1] = Slash THEN <<"5">> \o shifted ELSE <<"0">> \o str

Composed ==
    CASE client = "cpp" -> LET line == IF text = <<>> THEN Filler ELSE text
                           IN  Prefixed(line, ShiftLeft(line))
      [] client = "tester" -> CString(Prefixed(text, ShiftLeft(text)))
      [] client = "rust" -> Prefixed(text, CarCdr(text))

Enter ==
    /\ stage = "typing"
    /\ client = "rust" => text # <<>>
    /\ packet' = Composed
    /\ stage' = "sent"
    /\ UNCHANGED <<client, text, passwd, did, wire, shown>>

\* The credentials, before they are encrypted.
EnterCredentials ==
    /\ stage = "typing" /\ text = <<>>
    /\ \E u \in Names, p \in Passwords :
          text' = u /\ passwd' = p /\ packet' = u \o <<Sep>> \o p
    /\ stage' = "login"
    /\ UNCHANGED <<client, did, wire, shown>>

-----------------------------------------------------------------------------
(* The server handles what it receives.                                    *)

\* receive(), Undone: the scan of the credentials.
Rank == [GotNeither |-> 0, GotUsername |-> 1, GotUsernameAndPassword |-> 2]
AfterSepTwice(status) == Rank.GotUsernameAndPassword
AfterSep(status) ==
    IF status = Rank.GotNeither THEN Rank.GotUsername
    ELSE Rank.GotUsernameAndPassword
Scanned(s, x) ==
    CASE x = Sep -> [s EXCEPT !.status = AfterSep(@)]
      [] x # Sep /\ s.status = Rank.GotNeither -> [s EXCEPT !.uname = Append(@, x)]
      [] x # Sep /\ s.status = Rank.GotUsername -> [s EXCEPT !.passwd = Append(@, x)]
      [] OTHER -> s
Scan(str) ==
    LET scan[k \in 0..Len(str)] ==
            IF k = 0
            THEN [status |-> Rank.GotNeither, uname |-> <<>>, passwd |-> <<>>]
            ELSE Scanned(scan[k - 1], str[k])
    IN  scan[Len(str)]

Outcome(what, sent) == did' = what /\ wire' = CString(sent)
Notice(str) == <<"6", Sep>> \o str

\* handleSend, and the copy into char_array.
ChatPacketSwapped(str) == Packed(<<<<"0">>, Sender, str>>)
ChatPacket(str) == Packed(<<<<"0">>, str, Sender>>)
HandleSend(str) ==
    IF Blank(CString(str)) THEN Outcome("kick", Notice(<<"!">>))
    ELSE IF Len(CString(ChatPacket(str))) >= ChatRoom THEN Outcome("undefined", <<>>)
    ELSE Outcome("chat", ChatPacket(str))

\* The lambdas of init: help, plugins, msg.  msg adds a space after each
\* element of the array, filled or not.
Help(words) ==
    Outcome("help", Notice(IF Arg(words, 1) = <<>> THEN HelpWord ELSE <<"!">>))
DirectTextEarly(words) ==
    FlattenSeq([k \in 1..CommandWords - 1 |-> Append(Arg(words, k), Space)])
DirectText(words) ==
    FlattenSeq([k \in 1..CommandWords - 2 |-> Append(Arg(words, k + 1), Space)])
Msg(words) ==
    CASE Arg(words, 1) = Sender -> Outcome("self", Notice(<<"!">>))
      [] Arg(words, 1) = Peer -> Outcome("msg", Notice(Peer \o DirectText(words)))
      [] OTHER -> Outcome("nobody", <<>>)

\* Executor::iterate.
Iterate(str) ==
    LET words == Lex(str, Space)
        name == Arg(words, 0)
    IN  CASE Len(words) > CommandWords -> Outcome("undefined", <<>>)
          [] Len(words) <= CommandWords /\ name = HelpWord -> Help(words)
          [] Len(words) <= CommandWords /\ name = PluginsWord ->
                Outcome("plugins", Notice(PluginsWord))
          [] Len(words) <= CommandWords /\ name = MsgWord -> Msg(words)
          [] OTHER -> Outcome("unknown", Notice(<<"?">> \o str))

\* check(): who sends a separator is kicked.
Legal(str) == \A i \in 1..Len(CString(str)) : CString(str)[i] # Sep
Receive ==
    /\ stage = "sent"
    /\ \/ ~Legal(packet) /\ Outcome("illegal", <<>>)
       \/ Legal(packet) /\ Head(packet) = "0" /\ HandleSend(Tail(packet))
       \/ Legal(packet) /\ Head(packet) = "5" /\ Iterate(Tail(packet))
    /\ stage' = "handled"
    /\ UNCHANGED <<client, text, passwd, packet, shown>>

\* nick: a join with the list of the n aliases in use.
Aliases(n) == SubSeq(Online, 1, n)
JoinPacket(n) == Packed(<<<<"1">>, Peer>> \o Aliases(n))
Announce ==
    /\ stage = "typing" /\ text = <<>>
    /\ \E n \in 1..Len(Online) : wire' = JoinPacket(n)
    /\ did' = "join"
    /\ stage' = "handled"
    /\ UNCHANGED <<client, text, passwd, packet, shown>>

-----------------------------------------------------------------------------
(* The client programs show what they receive.                             *)

\* ClientNetwork::receive; too many words overrun args.
LastListedEarly == ClientWords - 2
LastListed == ClientWords - 1
\* The loop that prints the list: of an empty element only a space is seen.
Listed(names, name) == IF name = <<>> THEN names ELSE Append(names, name)
Listing(args) ==
    LET list[k \in 0..(LastListed - 1)] ==
            IF k = 0 THEN <<>> ELSE Listed(list[k - 1], Arg(args, k + 1))
    IN  list[LastListed - 1]
CppShows(str) ==
    LET words == Lex(str, Sep)
    IN  IF Len(words) > ClientWords THEN <<"undefined">>
        ELSE CASE Arg(words, 0) = <<"0">> -> <<"chat", Arg(words, 2), Arg(words, 1)>>
               [] Arg(words, 0) = <<"1">> -> <<"join", Arg(words, 1)>> \o Listing(words)
               [] Arg(words, 0) = <<"6">> -> <<"direct", Arg(words, 1)>>

\* parse_packet: the last field of a packet runs to its end.
After(str, k) == Packed(SubSeq(Lex(str, Sep), k + 1, Len(Lex(str, Sep))))
RustShows(str) ==
    LET kind == Arg(Lex(str, Sep), 0)
    IN  CASE kind = <<"0">> -> <<"chat", After(str, 2), Arg(Lex(str, Sep), 1)>>
          [] kind = <<"1">> -> <<"join", After(str, 1)>>
          [] kind = <<"6">> -> <<"direct", After(str, 1)>>

Show ==
    /\ stage = "handled" /\ wire # <<>>
    /\ shown' = [cpp |-> CppShows(wire), rust |-> RustShows(wire)]
    /\ stage' = "shown"
    /\ UNCHANGED <<client, text, passwd, packet, did, wire>>

-----------------------------------------------------------------------------
Type ==
    /\ stage = "typing" /\ Len(text) < MaxTyped
    /\ \E x \in Keys : text' = Append(text, x)
    /\ UNCHANGED <<client, stage, passwd, packet, did, wire, shown>>

Init ==
    /\ client \in {"cpp", "rust", "tester"}
    /\ stage = "typing"
    /\ text = <<>> /\ passwd = <<>> /\ packet = <<>>
    /\ did = "nothing" /\ wire = <<>>
    /\ shown = [cpp |-> <<>>, rust |-> <<>>]

Next == Type \/ Enter \/ EnterCredentials \/ Receive \/ Announce \/ Show

Spec == Init /\ [][Next]_vars

-----------------------------------------------------------------------------
(* Correctness.                                                            *)

\* The words between separators, by their definition.
Split(str, sep) ==
    LET cuts == {0, Len(str) + 1} \cup {i \in 1..Len(str) : str[i] = sep}
        cut(k) == CHOOSE i \in cuts : Cardinality({j \in cuts : j < i}) = k
    IN  [k \in 1..Cardinality(cuts) - 1 |-> SubSeq(str, cut(k - 1) + 1, cut(k) - 1)]

\* The lexer's one pass over a text finds the words between the separators,
\* in the order of the text: none is lost, repeated or run into another, also
\* with separators at either end or in a row.
LexSplits ==
    /\ Lex(text, Space) = Split(text, Space)
    /\ Lex(wire, Sep) = Split(wire, Sep)

\* Whoever is shown a chat is shown what was typed, by whom, whichever
\* programs the two users run.
Typed == IF client = "cpp" /\ text = <<>> THEN Filler ELSE text
ChatAsTyped ==
    did = "chat" /\ stage = "shown" =>
        \A program \in DOMAIN shown : shown[program] = <<"chat", Sender, Typed>>

\* A direct message shows what was typed after the alias, but for spaces at
\* its end.
Trimmed(str) ==
    SubSeq(str, 1, Max({0} \cup {i \in 1..Len(str) : str[i] # Space}))
DirectAsTyped ==
    did = "msg" /\ stage = "shown" =>
        LET rest == SubSeq(text, Len(MsgWord \o Peer) + 4, Len(text))
        IN  \A program \in DOMAIN shown :
                Trimmed(shown[program][2]) = Trimmed(Peer \o rest)

\* The command that is executed is the one that was typed: no other one, not
\* two, not none.  With the C++ program this takes a space after the command,
\* and with any a line without the separator.
Meant(word) ==
    CASE word = HelpWord -> {"help"}
      [] word = PluginsWord -> {"plugins"}
      [] word = MsgWord -> {"msg", "self", "nobody"}
      [] OTHER -> {"unknown"}
CommandAsTyped ==
    /\ stage \in {"handled", "shown"} /\ did \notin {"undefined", "join", "illegal"}
    /\ text # <<>> /\ text[1] = Slash
    /\ client # "cpp" \/ \E i \in 1..Len(text) : text[i] = Space
    => did \in Meant(Split(Tail(text), Space)[1])

\* Without a separator in them, the server reads the user name and the
\* password that were typed.  What follows one in the user name it takes for
\* the password, and what follows the next one typed is lost.
CredentialsAsTyped ==
    LET u == Split(text, Sep)
        p == Split(passwd, Sep)
        read == Scan(packet)
    IN  stage = "login" =>
            /\ read.uname = u[1]
            /\ read.passwd = IF Len(u) > 1 THEN u[2] ELSE p[1]
            /\ read.status = IF Len(u) > 1 \/ Len(p) > 1
                             THEN Rank.GotUsernameAndPassword ELSE Rank.GotUsername

\* Everybody who is online is in the list the C++ program shows, and nobody
\* else, as long as the array holds them all.
ListAsSent ==
    \A n \in 1..Len(Online) :
        stage = "shown" /\ wire = JoinPacket(n) /\ n + 2 <= ClientWords =>
            shown.cpp = <<"join", Peer>> \o Aliases(n)

-----------------------------------------------------------------------------
(* What the documentation says and the code does not do.                   *)

\* executor.cpp: "Type /help to get help."
HelpReached ==
    text = <<Slash>> \o HelpWord /\ stage = "handled" => did = "help"
=============================================================================

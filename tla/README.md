# openSIMP in TLA+

openSIMP is a small instant-messaging system: a C++ server that admits users by
password, hands each client an AES key under the client's RSA key and passes
messages on, and two clients, a C++ terminal program and a rust GUI program.
This directory holds models of the server, of its table of connections, of its
user database and its timing, of the client programs and the connections to
them, the configurations TLC checks on small instances, and proofs for all
instances. Line numbers refer to
`src/src/server/src/servernetwork/servernetwork.cpp` unless another file is named.

## The system

| Component | State | Operations | Hard to get right |
|---|---|---|---|
| `ServerNetwork`, connection thread (`connectClients`, 136-158) | the five vectors of the table | accept a connection, append a row to each vector, send the public key | shares the vectors with the manage thread, without a lock |
| `ServerNetwork`, manage thread (`manage` 702-710, `receive` 336-544) | the vectors; the status of each connection (`AuthStatus`) | receive one chunk per connection and pass: login, key exchange, message, alias, command; `disconnectClient` | erases rows while it walks over them; every kick happens somewhere inside a handler |
| `Cryptography` | client keys by socket address; the cipher objects | insert, remove, encrypt, decrypt | addresses are reused, `insert` does not overwrite, failures are exceptions |
| Commands (`Executor`, `Lexer`) | a fixed list | help, plugins, msg | `msg` looks up a recipient by alias; fixed arrays, separators users can type |
| `userdata.yml` | the password of each alias | read at each login, extended at each registration | survives the process, rewritten in place, truncated first; no stream failure is noticed |
| C++ client (`ClientNetwork.cpp`) | `HandshakeStatus`, the AES key | handshake, receiving thread, input loop | any exception ends it; never leaves a failed handshake |
| Rust client (`main.rs`, `network.rs`) | the AES key in a mutex | `Login` and `SendMessage` events, receiving thread | panics on one thread, poisoned lock, dialogs |
| Rust windows, themes, dialogs | widgets | | nothing the protocol depends on |
| Queue thread (`sendQueuedMessage`, 712-730) | `send_queue`, always empty | none | dead code |
| `util/encrypt-test-client` | as the C++ client | a third client program | blocks in turns, one thread reads |
| `util/susrust` | | a tool for an earlier protocol | not part of the system |

The two server threads communicate through the vectors only. The manage thread
calls everything else directly: `receive` calls `nick`, `handleSend`,
`handleCommand` and `registerUser`; all of them may call `disconnectClient`,
which broadcasts to the remaining clients. Server and clients communicate over
TCP: a packet is whatever one `receive` or `read` returns, so packets sent in
quick succession may be read as one. The handshake is: public key of the
server; credentials under it; `spb`; public key of the client; AES key under
it. After that every packet is AES-GCM encrypted: `0` chat, `1` join, `2`
leave, `4` console, `5` command, `6` text of the server or direct message.

What makes each component correct:

* the table: a position means one connection in all five vectors; an erasure
  takes the row it was meant for; no connection is passed over for ever;
* the server: aliases are unique, a status past `Undone` implies the password on
  file, keys do not leak from one connection to the next, content goes to
  authenticated connections only, and lists of users are current;
* the user database: whoever was told to be registered stays registered, and a
  password that admits is the one registered or what a cut made of it, whatever
  fails and whenever the process is killed;
* the loop: nobody is kicked as a spammer;
* lines: what is shown is what was typed, and the command that is executed is
  the one that was meant;
* a connection: no text is skipped silently, nobody waits in a write or in the
  handshake for ever;
* server and clients together: both ends agree on how far the handshake is,
  no handshake hangs, no thread that reads stays at work on a closed connection,
  the list a client shows is the server's.

`PROJECT.json` lists under `hazards` what in this code is hard to test, each
at its line, with the properties that guard it.

## The modules

    ConnTable                     UserStore       what the table and the
      ^        ^                   ^      ^        user database promise
    SlotTable   \                 /        \
                 \_____ Server __/         Userdata   the file, step by step
                        ^     ^
        ClientProgram   |     ServerProofs
                \       |        |
                 System (both) -- SystemProofs      Userdata -- UserdataProofs

    SlotTable -- SlotTableProofs -- SlotTableImplements
    PollLoop -- PollLoopProofs     the manage thread in time
    Stream -- StreamProofs         one connection, byte by byte
    Lines -- LinesProofs           one line, character by character

`Server` and `System` have the protocol; the others look at one thing more
closely than these can: the vectors and threads, the file, the clock, the
buffers, the text. Each says which assumption of the others it justifies.

* **ConnTable** is abstract: each connection has a stage (`none`, `Undone`,
  `KeyReceived`, `Done`) and an alias nobody else has. `Server` and `SlotTable`
  implement it, each under a refinement mapping (`Table == INSTANCE ConnTable
  WITH ...`, property `TableSpec`).
* **SlotTable** models how the code keeps the table. A step is one call on one
  vector by one of the two threads: `PushSocket ... PushInterval, Greet` are
  lines 141-150, `Reject, EraseId, TellLeave, FreeSocket, EraseSocket ...
  EraseInterval` are `disconnectClient`, `NextRow, RowDone, EndOfPass` the loop
  at 704. Every element is tagged with its connection, which the code does not
  do; the tags let the properties say whose row is hit. `strayed` becomes true
  when the manage thread uses the position it is at in a vector that has no such
  row, or the connection thread a socket after it was freed; `overread` when
  `broadcast`, which walks over all of them, reads a status that is not there
  (245). What the code then does is undefined: the value read is arbitrary, and
  the process may stop (`Crash`). An erasure from an empty vector takes one from a
  `size()` that is zero; the next element appended makes up for it (`owed`). The
  contents of messages are left out.
* **Server** models what the server does, at the granularity of one accepted
  connection or one call of `receive`, with one action per branch. A row is
  indexed by its connection instead of a position, which `SlotTable` justifies
  (`Aligned`, `ErasesOwnRow`). What a client sends is arbitrary: an action is
  enabled whenever the status allows its branch. `sent` holds what the step
  sent. A client is one run of a program; its user's credentials are in `cred`,
  its public key is its identity; keys of `WeakKey` clients cannot hold the AES
  key, so that `RSA_encrypt` throws. `keys` is the map in `Cryptography`, by
  socket address. `Die` is an exception outside a `try` (449) or an overrun
  buffer (533, `lexer.cpp:10`); `Start` is a restart, of which only
  `userdata.yml` knows the past. `Killed` ends the process at any time, and
  `KilledSaving` in the middle of `registerUser`, after which aliases may be
  missing, spoiled, or left with a piece of their password (`UsersLeft`, which is
  what `Userdata` finds); the others have been told of the join by then (659).
  `Remainder` gives what a password may be read as once it was cut.
  `LoginThrows` is `YAML::LoadFile` or an entry that is no map (409-411).
* **UserStore** is abstract: an alias belongs to whoever registered it first,
  nothing is changed while the server is up, and a server that stops during a
  registration cuts the text in one entry: that one may be left with a piece of
  its password or with none, those behind it are forgotten, and all others are
  kept. `Server` (`AccountsSpec`) and `Userdata` (`StoreSpec`) implement it.
* **Userdata** models `userdata.yml` with a step per operation on the file:
  `Start` is `openUserdata`, `LoginNew` the lookup in `receive` (409-428), `ReadFile`,
  `Truncate`, `Write` are `registerUser` (160-178). The file is a sequence of
  entries, of which the last may be cut anywhere. A text cut inside a password is
  valid YAML, and whoever types the piece is admitted (411-412): `Shorter` has the
  pieces of each password. Cut right before it, the entry is read as `NullText`, as
  `null` is what yaml-cpp makes of a missing value (`src/src/CMakeLists.txt:20-21`
  takes its current version); cut further up, it admits nobody, and the login
  throws or the alias counts as taken; cut in the next alias, the file cannot be
  parsed. `Kill` and `KillWriting` end the
  process between any two steps or within the write; `faults` is what may fail on
  the machine: opening a file (out of descriptors) or writing it (disk full).
* **PollLoop** has the rows of the table with the clock of each (345, 542), and
  the position `manage` is at (702-710); time passes within a pass and in the
  sleep. Rows come and go at any point of it.
* **Stream** is one connection between the server and one of the three client
  programs (`encrypt-test-client` included) with bounded buffers: a packet is two
  halves, so that it can be torn, glued to the next, or sent in part.
  The server's `send` takes what fits and returns (259); the clients' blocks.
  `writing` is what a thread of the client has still to write, while which the
  rust program holds the lock of the AES key (`main.rs:481`).
* **Lines** follows one line from the keyboard to the displays: what each program
  makes of it (`Enter`, `EnterCredentials`), `Receive` with the lexer, the choice of
  the command and `handleSend`, the scan of the credentials (385-402), and `Show`.
  Here texts are sequences of characters and arrays have sizes. A user may type the
  separator `\x01`: a line with one is answered by a kick (485), user names and
  passwords with one are taken apart at the wrong place, which `CredentialsAsTyped`
  describes. User names and passwords may hold a NUL too; lines with one are not
  studied.
* **ClientProgram** models both client programs: the handshake as far as each
  has come, the chunks they read (one or more whole packets), and the ways they
  end. The status `deaf` is a rust program whose receiving thread panicked in
  `parse_packet`, `poisoned` one where it panicked in `aes_decrypt` with the
  key locked (`main.rs:274-279`), so that the next text sent panics too. A C++
  program whose connection is closed during the handshake stays in the handshake:
  it never looks at the end of the connection (`ClientNetwork.cpp:75`) and calls
  `handshake()` for ever (145-147) until its user quits. A rust program whose
  connection was reset panics on its receiving thread without a dialog
  (`network.rs:111`) and is `deaf`.
* **System** composes the two: `Serve` handles the first packet of a stream
  (or several texts read as one), `Deliver` puts what the server sent on the
  way, `Run` lets a program read, `Use` is its user. TCP is modelled from how
  both sides use it: in order, without loss, without packet boundaries.
* **ServerProofs**, **SystemProofs**, **UserdataProofs**, **PollLoopProofs**,
  **SlotTableProofs**, **SlotTableImplements**, **StreamProofs** and **LinesProofs**
  hold the proofs; the modules **MC...** the instances.

Definitions named like `NameKept`, `KeyLeftBehind` or `PushSocketFirst` stand
beside the definition they are a faulty variant of. The specifications do not
use them; replaced for the definition that follows, each makes a property
fail (`mutants` in `PROJECT.json`).

### Abstractions

* In `System` a packet arrives whole, and none is lost between live ends: what
  happens otherwise is in `Stream`, for one connection. `Server` takes
  arbitrary input.
* In `Stream` a packet has two halves, which tell apart a packet that is whole,
  begun and continued; a write of a client puts a half into the buffer
  at a time. Every text but the answer to a command comes at any time.
* Calls on a vector are atomic. In the code two threads inside one vector race
  whatever they do; the order of whole calls is what is studied.
* `new sf::TcpSocket` (138) happens one `accept` before the connection. The
  address is chosen at the accept here, among all that are free, which includes
  those the code could have chosen.
* The spam check at 345 can never fire, as `PollLoop` shows, and is left out of
  `Server`. Guards that cannot hold (494, 603, 641) are left out;
  `NamedWhenAdmitted` shows that 603 cannot.
* The order in which YAML keeps two entries of one alias is not modelled:
  `OneEntryEach` shows there are none.
* The log lines at 417 and 423 read a freed object; only the text of the line
  depends on it.
* `Server` knows of `userdata.yml` what `UserStore` promises if opening and writing
  never fail; what failures do to the file is in `Userdata`.

## What TLC checks

| Run | Instance | Shows |
|---|---|---|
| `server` | 3 clients (1 weak key), 2 addresses, 2 aliases + 1 refused, 2 passwords; symmetric | `TypeOK`, `NamesUnique`, `NamedWhenAdmitted`, `AdmittedByPassword`, `KeysOwned`, `AesUnderOwnKey`, `ListsCurrent`, `ContentToAuthenticated`, `TableSpec`, `AccountsSpec` |
| `slots` | 3 connections, used again without limit, 1 alias | `TypeOK`, `Aligned`, `ErasesOwnRow`, `NeverStrays`, `TableSpec`, `Served`; 246 595 states |
| `slots_eager` | the same with 2 aliases, one peer that does not wait for the public key; symmetric | `SameLength`, `StraysOnlyDuringAccept`; 2 538 401 states |
| `system` | a C++ and a rust client, new users, 2 aliases, 1 password, two texts of any kind by any user | `SystemTypeOK`, `InStep`, `RosterCurrent`, `HandshakeResolves`, `CloseEndsReading`; 281 765 states |
| `userdata` | 3 aliases, 3 passwords (one is a beginning of another, one is `null`), any number of registrations and restarts, with and without failures; symmetric | `TypeOK`, `Kept`, `OneEntryEach`, `NoStalePassword`, `StoreSpec` |
| `lines` | every line of up to 6 characters out of space, `/`, `\x01` and two letters, every user name and password of up to 3 out of a letter, `\x01` and NUL, three programs, arrays of 4, 5 and 10 | `LexSplits`, `ChatAsTyped`, `DirectAsTyped`, `CommandAsTyped`, `CredentialsAsTyped`, `ListAsSent`; 185 192 states |
| `stream` | each client program, room for 3 and 2 halves, 3 texts and 2 commands | `TypeOK`, `NoGaps`, `WritesEnd`, `HandshakeEnds`; 26 263 states |
| `poll` | 3 clients, unit of time 20 ms, sleep 5 units; symmetric | `Rested`, `NeverSpam` |
| `own_key` | as `server` | documentation that does not hold, see below |
| `key_first` | as `slots`, 2 aliases | the same |
| `aes_decrypted` | as `system`, any users, chats and direct messages | the same |
| `lines_help` | as `lines` | the same |

Why the bounds are enough. In `server`, three connections over two addresses
are the fewest for which an address is reused while another connection is
open; a weak key, a taken alias and a wrong password each exist once. One password
is a beginning of the other, so that a cut one admits the user who typed that.
`SmallInit` keeps the run small: the user of the client with the weak key types an
alias that is not refused and the longer password; the other two, whose keys are
usable, type anything. In
`SlotTable`, three rows are the fewest with a row before, at and behind the
erased one while a fourth push is possible only after an erasure; connections
are reused, so that runs have no bound of their own. One alias is enough for
`slots`, where it can be taken and free; renames need two and are in
`slots_eager`. In `system`, one client of each program exercises every pair of
reader and sender; two texts of one user are the fewest that can be read as one
chunk, and a text of kind `long` may be handled as a chat and as a command. In
`userdata`, three aliases are an entry before, at and behind a cut, and the passwords
are one that can be cut to another, that other, and what is read where nothing is
left. In `lines`,
one-letter commands and aliases leave room for two arguments, and the arrays
are so small that lines and lists on either side of their sizes occur. In
`stream`, the buffers hold one packet and a half downwards and one upwards: the
least with whole packets, parts that fit and parts that do not; in `poll`, clocks
stop counting at `Long`, where no comparison changes any more. The counters are
`MaxTexts` (`System`), `MaxSent`, `MaxTyped` (`Stream`), `MaxTyped` (`Lines`) and `Long`
(`PollLoop`), each a bound in a guard or a minimum; `Online` (`Lines`) is the list of the
users who are there, of which every beginning is sent, here up to five against an array of five.

`CHECK_DEADLOCK FALSE` is set where the system really stops: every client has
come and gone (a client connects once in `Server`, `System` and `Stream`), the
process has crashed (`slots` and `slots_eager`: by what a broadcast reads also in
the former), the file cannot be parsed at a start (`userdata`), the line has been
shown (`lines`). In `poll` deadlock is checked. That nobody waits for ever is
what the liveness properties say; `Served` exempts a process that crashed.

Not every closed connection is noticed by the program at its other end: the C++
program kicked in its handshake and the rust program that panicked on a reset
connection tell their users nothing. `CloseEndsReading` promises no more than that the
threads that do look at the end of the connection stop reading, and `HandshakeEnds`
leaves the C++ programs out once their connection is closed. The hazards at these lines say so.

Fairness. `Served` assumes `WF(ManageThread)`: `manage` is an endless loop on a
thread of its own that never blocks (sockets are non-blocking, 140). Nothing
is assumed of peers or of the connection thread, whose `accept` blocks. In
`System`, `WF(Serve(c))` is what `Served` shows, and `WF(Run(c))` holds because the
programs read in a loop (C++) or on a thread that does nothing else (rust); both
read blocking. `Stream` assumes the same of the two ends, and that a blocked write
goes on once there is room, which is the operating system's part; the lock of the
rust program is released when its holder is done. Nothing is assumed of users or
of new connections, so `HandshakeResolves` and `HandshakeEnds` speak of accepted
connections. A user who leaves the rust program's "connection error" dialog open
has not answered it: the program is then `idle` at the latest when the answer is
"Ignore".

### Where documentation and code differ

* `OwnKeyUsed` (`own_key`): a key whose owner was kicked because `RSA_encrypt`
  threw stays in the map (462, 221) and `insert` (449, `cryptography.cpp:69`)
  does not replace it. The next client at that address is kicked.
* `PublicKeyFirst` (`key_first`): a broadcast during `connectClients` reads a status
  that has not been appended yet (245) and may send to the new connection.
* `AesKeyDecrypted` (`aes_decrypted`): the chunk read as the AES key may be, or
  contain, another packet (`ClientNetwork.cpp:99`, `main.rs:437-441`): `/msg` (115)
  reaches a client that has an alias but no AES key yet.
* `HelpReached` (`lines_help`): `/help` typed into the C++ client is an unknown
  command, because the shift takes the terminating NUL along
  (`ClientNetwork.cpp:162`).

Seen while modelling, and part of the models without a run of their own: a
connection without alias is announced as `"\x96"` (210), which makes the rust
client's receiving thread panic (`FailToShow`), against `network.rs:29`;
`specs/handshake.md:13-15` still has the credentials as a two-digit length, the
user name and the password, while all programs separate them by `\x01`
(`EnterCredentials` in `Lines`).

## What is proved

`ServerProofs` proves, for any sets of clients, weak keys, addresses, aliases and
passwords that satisfy `ConstantsAssumption`, every property of run `server`:

* the invariants `TypeOK`, `NamesUnique`, `NamedWhenAdmitted`,
  `AdmittedByPassword`, `KeysOwned`;
* the action properties `AesUnderOwnKey`, `ListsCurrent`,
  `ContentToAuthenticated`;
* the refinements `TableSpec` and `AccountsSpec`: for the latter every action maps
  to a registration, a stop, a start or a stutter of `UserStore`.

The inductive invariant is `IInv == TypeOK /\ Rows`, where `Rows` joins the
invariants with `RowsOfOpen`: a connection that is not open has no socket object
and no status, and two open ones have different socket objects. `RowsOfOpen` is
what makes `KeysOwned` inductive: without it, `Accept` could hand out an address
whose key is still on file for an open connection, and `removeClientKey` could
remove the key of another one. `KeysOwned` in turn needs `NamedWhenAdmitted`'s
companion facts on the status, and is what `AesUnderOwnKey` rests on: the entry
found at a client's address is its own or is one that cannot encrypt. The
lemmas follow the code: `DropRow` and `Die` are treated once and cited by every
handler that kicks or stops. The proof of each step has one case per action.
Each action property follows from a lemma that says of a step of `Next` that
everything it sends is proper, and the refinement from one that maps each action
to an action of `ConnTable` or a stutter.

`SystemProofs` proves that `System` implements `Server` (`SSpec => Spec`) for every
set of texts: what is in the streams towards the server is always what clients
send (`UpOK`), and each such packet is handled by a disjunct of `Receive`. So
every theorem about `Server` holds of the composed system; `SystemSafe` and
`SystemProtectsAes` state the most important ones. It also proves the invariants of
run `system`, for any number of clients of either program and any texts:
`SystemTypeOK`, `InStep` and `RosterCurrent`. `InStep` says how far the two ends of
an open connection have come, and is not inductive: a program that takes its next
step does so because of what it reads, so the invariant has to say what is on its
way. `Linkage` does, per status of the connection: in `Undone` either the public key
or the credentials are on their way and nothing else (`Awaiting`), in
`KeyReceived` the `spb` and then the client's key (`Exchanging`), in `Done` the AES key,
until it has been read (`Talking`). A connection that the server has not accepted yet
(`new`) may belong to a program that has already noticed the end of the server; nothing
but that end has been sent to it (`Fresh`). `Shows` is `RosterCurrent` from the moment the AES
key is sent: the last list on its way is the server's, or, with none on its way, the
list the program shows is. It needs `ListsCurrent`, which `ServerProofs` has, for each step.

`UserdataProofs` proves every property of run `userdata` for any aliases and
passwords. The inductive invariant adds to `Kept`, `OneEntryEach` and
`NoStalePassword` (a password that admits is the one last given for its alias, a
beginning of it, or `null`; this holds however often a text is cut, because a
beginning of a beginning is one) what `registerUser` relies on between its steps: that the alias
is neither in the file nor in the copy (`AliasFree`), that the copy, which holds whole
entries only, is as sound as the file was (`Sound`), and that without failures it
is the file (`TrueCopy`). The lemma `BeginningOf` says what a cut text can hold. The
refinement follows from `AccountOfEntry`: an alias has one entry, so that one decides.

`PollLoopProofs` proves `Rested` and `NeverSpam` for any number of clients and any
intervals of which the sleep is the longer. The inductive invariant is their
conjunction with `TypeOK`. What makes it so is that positions behind the loop's do
not matter: a row that moves up to a visited position is passed over in this pass,
and one that is appended is not `Done` before the loop has been at it, after which
it is behind. So whoever is still to be visited has not been received from since
the sleep.

`SlotTableProofs` proves what holds of the five vectors whoever the peers are, for any
number of connections and aliases. `SlotTypes` is type correctness; `LengthsAgree`
(`SameLength`) says that the vectors are of one length whenever no thread is between
two of them, where the length of a vector that was erased from when empty counts as one
less than none. Its inductive invariant, `SameHeight`, counts each vector together with
what the connection thread has still to append and the manage thread has erased,
by the two program counters: they all count to the same number, also when a position
was used too early, because then the erasures hit the wrong row, but one in each
vector. `NoStrayBetweenAccepts` (`StraysOnlyDuringAccept`) follows from it: a
position beyond the end of a vector means that a row is being appended, and a missing
status in a broadcast that it has its socket but no status yet.
`VectorsAligned` (`Aligned`) needs the rows themselves: there is one sequence of
connections of which each vector is what the counters say, and the row in hand is
the client's (`Laid`, a conjunction of `Columns` and `InHand`). This holds until the
first position strays (`Columned`).

`SlotTableImplements` assumes `Eager = {}`: every peer waits for the public key before
it sends anything or leaves. The three client programs send nothing before it, but
their users may close them between the accept and the greeting; a client that is
closed in that moment, which is five calls long, is one of `Eager`, and
`StraysOnlyDuringAccept`, run `slots_eager`, is what is known of it. Under the
assumption no position strays (`WaitingNeverStrays`: what the manage thread does with
the row in hand is done with a row that is there; a broadcast may still read a status
that is not, which `StraysOnlyDuringAccept` confines and run `key_first` shows),
each erasure takes the row of its own client
(`WaitingErasesOwnRow`), and the vectors implement `ConnTable`
(`SlotTableImplementsTable`), which is what allows `Server` to index rows by
connection. The inductive invariant is `Orderly`: `Laid` without erased rows that are
still being appended, no connection with two rows, and a row being appended whose
peer has said nothing (`Fresh`), so that nothing but a receive is done with it. The
refinement adds the values in the rows: aliases and statuses belong to the same
connections (`Agree`), no two have one alias (`Unique`), and the status `receive` has
read is still in the vector when it acts on it (`Seen`).

`StreamProofs` proves the invariants of run `stream` for buffers of any size (two
halves downwards, one upwards at least, so that a handshake can take place at all),
any number of texts and any number of commands: `StreamTypes` (`TypeOK`, with the bounds on
the buffers) and `NothingSkipped` (`NoGaps`). The inductive invariant is
`TypeOK /\ Stages /\ Continuous`. `Continuous` is `NoGaps` from the beginning of the
handshake: what has been shown, followed by the texts that end in the buffer, is
every text that was sent and not lost, in ascending order (`Unbroken`). Four lemmas say
how this survives what happens to a buffer: a part of a text, or another packet, is
appended (`SilentAppended`), a text is appended whole (`TextAppended`), halves in which no
text ends are read (`SilentSkipped`), a text is read and shown (`TextShown`). In every other
case the program stops reading. `Stages` says, per status of the connection, how far the
client is and what it may have sent. So no text is sent while the client is in one of the
first two statuses of the handshake, in which it takes whatever it reads for the packet it
expects; and there are no more answers to come than halves on their way up, which bounds
the number of texts.

`LinesProofs` proves every property of run `lines`, for any alphabet, with the separator
in it, any names of the commands, any user names and passwords, also with separators and
NULs in them, arrays of any
size and lines of any length. The inductive invariant is `IInv == TypeOK /\ History`.
`History` is what is known of the past of a line: the packet is what the program
composed of the text (`Composed`), what the server did and sent is what it does with such
a packet (`SentOn`, `Obeyed`), and what is shown is made from that. So the steps are easy, and
the work is in what the operators compute for every input:

* `Lex`, `Scan`, `Listing` are passes over an array, written as recursive functions over
  its positions, and `FlattenSeq` is one. Each is first shown to have the value its
  recursion describes (`LexFunction`, `ScanFunction`, `ListFunction`, `FlattenFunction`,
  all by `RunExists`: a pass from a first value exists), and then what one more character, or one
  more text, does to it (`LexAppend`, `ScanAppend`, `FlattenAppend`);
* the induction is about sets: one with 0 that is closed under adding one is `Nat`
  (`Induction`), which follows from the order on `Nat` being well-founded, and one with
  the empty text that is closed under adding a character has all texts (`SeqInduction`). So no
  fact with an operator as its parameter is needed;
* `LexIsSplit` compares the pass of the lexer with the words between the separators:
  after `n` characters the last word goes from the last separator to `n`, and each of the others
  from one to the next (`BetweenCuts`). `LexerSplits` is its consequence;
* `LexPacked` says that what is packed from fields without a separator has these
  fields, for any number of them. `ChatsAsTyped` and `ListsAsSent` rest on it, and on
  `CStringWhole`: such a packet has no NUL at which it would be cut. That a line which
  reaches `handleSend` has no separator is `LegalTyped`: `Receive` kicks the others;
* `ScanFieldsRead` says what the scan makes of the credentials that were sent, by the words
  between their separators, `LexJoined` which words those are for a user name and a
  password with any number of separators. `CredentialsArrive` compares the two;
* `LexSpaced` says that the words of a text, each followed by a space, are the text
  and a space, and `LexPadded` that any number of empty elements of the array add only spaces.
  From these `DirectTextOf` finds what `msg` joins from its third element on, and `CStringConcat`
  that the NUL the C++ program sends along cuts it off at the end of what was typed.
  `DirectsAsTyped` compares texts that differ in spaces at the end (`Same`);
* `FirstWord` is why `CommandsAsTyped` asks for a space with the C++ program: the NUL
  then is in the last word and not in the first.

Assumptions on constants are `ConstantsAssumption` (`Server`: the distinguished
values are not ordinary ones, as the code's patterns ensure),
`RustAssumption`, `MaxTextsAssumption`, `TextAssumption` (`System`),
`UserdataAssumption` (the values that stand for no file, no entry and cut entries are
none of the others), `PollLoopAssumption`, `ConnAssumption`, `EagerAssumption`,
`AliasAssumption` (`SlotTable`: values that stand for nothing are not ordinary ones),
`StreamAssumption` (the least sizes of the buffers) and `LinesAssumption` (`Typable` has
neither the separator, which can be typed besides, nor the NUL; aliases in use are of it;
nobody online has the empty alias, which is
kicked, the commands differ, and the arrays have room for a kind and two fields). `Remainder`
in `Server` may be any function from passwords to sets of them, `Shorter` in `Userdata` any
transitive one. TLC evaluates the assumptions in the runs.

Only model-checked: liveness (`Served`, `HandshakeResolves`, `CloseEndsReading`,
`WritesEnd`, `HandshakeEnds`), which is beyond the proof system. Every other property of a
passing run is proved.

## Plan

Done, in the order of importance: ConnTable, Server with its proofs, SlotTable,
ClientProgram and System, SystemProofs; the server killed at any time; UserStore
and Userdata, and PollLoop, with their proofs; Stream; Lines; SlotTableProofs and
SlotTableImplements; `InStep` and `RosterCurrent` in SystemProofs; StreamProofs; LinesProofs.

Left: for `SlotTable`, what of `ConnTable` still holds with peers that do not wait.

## Not modelled

Windows, themes and dialogs of the rust client, and its `.help` and `.uwuify`,
which change only what one user shows or types: no state the protocol depends on.
The queue thread, which never has anything to send. `util/susrust`, which speaks an
earlier protocol. RSA, AES and base conversions themselves: what matters of them
is whether they succeed, and on which chunks. The terminal the C++ programs
draw on.

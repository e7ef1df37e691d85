# The service server, specified

TLA+ specifications, TLC runs and TLAPS proofs for the service server of the UDP shooter
(`src/ServiceServer/ServiceServer`). File names below are relative to that directory;
`README` of the program is `src/README.md`.

## 1. The system

`main` (Main.cpp) creates a `ServiceManager`, which connects the database and starts one
thread per service; on a key press it stops them and exits.

| component | state | operations | threads |
|---|---|---|---|
| **Packet dispatcher** (PacketDispatcher) | three FIFO queues, one mutex, handlers by type, `_running`, the dispatch thread | RegisterHandler, Start, EnqueuePacket, DispatchLoop, Stop | its owner (the service) and its dispatch thread |
| **Matchmaking** (MatchmakingServer, StartMatchData) | two queues of players, `_lastMatchID`, pending creations, pending sessions | handlers FIND_MATCH, CANCEL_SEARCH, ACK_MATCH_FOUND, MATCH_UNIQUE, MATCH_USED; every 100 ms ProcessMatchmaking (twice), ProcessMatchCreations, ProcessMatchSessionsACKS | Run on the service's thread, handlers on the dispatch thread of its dispatcher |
| **Version checker** (VersionChecker) | the version read at start, a blocking UDP socket | handler VERSION: OK, or UPDATE and the map file | as above |
| **Login and register** (LoginServer, ClientLR) | listener, selector, connected clients | accept, receive, LOGIN, REGISTER | one |
| **Database** (DatabaseManager) | the connection (null if it failed), two mutexes | ConnectDatabase, RegisterUser, LoginUser; GetElo and UpdateElo are stubs | called from main and from login |
| **Service lifecycle** (ServiceManager, Main) | `_running`, three threads | InitializeServices, StopServices, destructor | main |
| **Wire format** (NetworkDefs) | none | CreateRawDatagram, SendDatagram, ParseRawDatagram | |
| **Password hashing** (bcrypt, blowfish) | none | generateHash, validatePassword | |

How they interact: a service receives a datagram, parses it and *enqueues* it in its own
dispatcher, whose thread *calls back* into the service. Matchmaking talks to clients and
to the game server by UDP only. Services share nothing but `_running`; login calls the
database singleton.

What is hard:

* the handlers of matchmaking and its tick work on the same queues and vectors from two
  threads, and no lock protects them (the mutex of the dispatcher covers only the
  dispatcher's queues);
* a match id is renamed by MATCH_USED, erased by MATCH_UNIQUE and given up by the tick,
  in any order, while datagrams with it are under way;
* resends, retries and give-ups are driven by clocks, acknowledgements come late or not
  at all and carry no match id;
* stopping: the dispatch thread may be anywhere when `_running` is cleared; the version
  checker may sit in a blocking receive for ever;
* strict priorities starve what is below them;
* login goes on after everything that fails: a connection to the database that was never
  made or broke between the INSERT and the answer, a statement that fails alone, a
  connection that cannot be accepted, a client that left or does not read and finds
  answers cut off;
* datagrams are put together in a buffer without a bound on what goes into it;
* bcrypt keeps lengths in bytes, leaves out padding, stops at invalid characters and
  reads back what it may not have written.

What makes each component correct:

* dispatcher: the queues are used by one thread at a time; the packet taken is the
  oldest of the highest priority; nothing is lost, repeated or reordered within a
  priority; after Stop nothing of it runs; Stop returns, and waits for at most one
  handler;
* matchmaking: one id, one match; all that is sent about an id is about one group of
  players; nobody gets lost, doubled or moved to the other kind of match between queue,
  creation, session and back; the loops that erase under their iterator pass nothing
  over; every full queue is grouped, every creation and session comes to an end;
* version checker: a client that gets OK has the version and the map of the service;
  with files that fit, every client gets there;
* login and database: a nickname has one owner for good; each command is answered once
  at most, by what the table said unless a statement failed; a client that left does no
  harm to the others;
* password hashing: a stored text lets in who enters its password, or one of the same
  key, and nobody else, and a damaged text nobody, whatever memory held before it was
  written; the cipher's modes decrypt what they encrypt;
* lifecycle: StopServices returns, and no thread uses a service after its deletion.

## 2. Modules

| module | what it is |
|---|---|
| `PacketDispatch` | abstract: what a dispatcher promises its owner (no threads, no lock) |
| `PacketDispatcher` | the code: owner, dispatch thread, mutex; implements `PacketDispatch` |
| `PacketDispatcherProofs` | theorems about it |
| `Lobby` | abstract: what matchmaking does with its players (no ids, datagrams, clocks, retries) |
| `Matchmaking` | the code of MatchmakingServer: handlers and tick; implements `Lobby` |
| `MatchmakingSystem` | `Matchmaking` composed with players, the game server and the network |
| `MatchmakingProofs`, `MatchmakingSystemProofs` | theorems about them |
| `WireFormat` | NetworkDefs.h: datagrams as bytes, the buffer, the queue a mask leads to |
| `VersionChecker` | the code of VersionChecker on `PacketDispatch`, its clients and the network |
| `VersionCheckerProofs` | theorems about it |
| `Accounts` | abstract: what login and register promise (one table, no sockets, no hashes) |
| `LoginServer` | the code of LoginServer, ClientLR and DatabaseManager; implements `Accounts` |
| `LoginServerProofs` | theorems about it |
| `Blowfish`, `Bcrypt` | blowfish.cpp and bcrypt.cpp as operators |
| `PasswordHashing` | what is done with them: register, log in, and the modes of the cipher |
| `CipherProofs` | theorems about the cipher and its modes |
| `PasswordHashingProofs` | theorems about the texts of bcrypt |
| `ServiceLifecycle` | main, ServiceManager, and the service threads as far as they decide when a thread ends |
| `ServiceLifecycleProofs` | theorems about it |
| `MC*` | instances for TLC, and what documents say and the code does not keep |

### PacketDispatcher

`queue` is the three `std::queue`s, `mutex` is `_mutex`, `running` is `_running`
(atomic). The owner's program counter follows a service: setup, the receive loop,
EnqueuePacket (`EnqueueLock`, `EnqueuePacket`), `Stop` and its `Join`; a service that
cannot bind its port returns from Run before Start, so only the destructor's Stop
happens (`StopUnstarted`). The dispatch thread's follows DispatchLoop: test of
`_running`, lock, pop or `continue`, lookup of the handler, handler. Acquiring the lock
is a step; what happens under it up to the end of the scope is one. What a handler does
is left to the module of the service.

`PacketDispatch` is the promise: jobs wait in one queue per priority, one job is served
at a time, the next is the oldest of the highest priority, and after `Close` at most one
more job is started (`grace`: the thread had already tested `_running`). The mapping:
`serving` is the job in hand, `phase` comes from the owner's program counter, `grace`
holds while the thread, told to stop, is between the test and the pop.

### Matchmaking

`queue` has the two player queues; `pendingMatchCreations` and `pendingSessions` are the
vectors; `mainPc` and `cursor` are the place of Run and of its iterator; `sent` is every
datagram about a match sent so far. A handler is one step, and so is one round of a loop
of the tick. Giving a session up takes two steps (`GiveUpSession`, `Requeue`), since a
late acknowledgement between the two decides who returns to the queue.

*The two threads.* Where both use a container at once, C++ gives the program no meaning.
A handler that changes what the round of the main thread works on may come before that
round, or overlap with it; the model allows both: each handler ends in one of the
outcomes `Raced` gives it, `fate = "undefined"` among them just when the main thread is
at the containers the handler uses. FIND_MATCH and CANCEL_SEARCH meet it at the queues
(`MainAtQueues`: it takes a group, or puts players back), MATCH_UNIQUE and MATCH_USED at
the creations (`MainAtCreations`), even when they find nothing (`LookInVain`),
ACK_MATCH_FOUND at a session (`MainAtSession`). `Fates` adds the handler that erases or
moves elements under the main thread's iterator. All other outcomes are interleavings of
whole steps, and the model ends at the first undefined one. So every property says: *as
long as the behaviour is defined*. No lock keeps it so, and no document says that it
stays so. `fate = "aborted"`: `std::stoi` threw in a handler and nothing catches it.

*Abstractions.* A player is its ip and port. A player's `playerID` is its seat, the
position in the match, as ProcessMatchmaking numbers them. The fields of `PendingMatch`
that are the same for all players of a session (`matchType`, the id inside
`matchMessage`) are kept once per session. Clocks are read nondeterministically: a
creation may be too young (`SkipCreation`), the seats whose timer has passed
RESEND_INTERVAL are any set (`due`). `waitingForAck` is never read and left out.
SEARCH_ACK and OK answer every search and every cancellation, change no state and are
not recorded; a FIND_MATCH with another content than NORMAL and RANKED does nothing and
is not a step. The environment is arbitrary: any handler may run with any sender and any
id at any time, which covers loss, duplication, delay and reordering of whatever clients
and the game server send.

`Lobby` is the promise to players: queues, proposed groups, announced groups. The
mapping forgets ids, texts, attempts, retries and acknowledgements (`Proposals`,
`Announcements`); MATCH_UNIQUE announces a group, giving a creation up dissolves it,
`StartMatch` starts it, `Requeue` disbands it. Who of a disbanded group returns is left
open by `Lobby`: it depends on acknowledgements.

### MatchmakingSystem

`MatchmakingSystem` adds what the other programs must do for the packets of
MatchmakingServer to make sense. Players and the game server are external: nothing of
them is in the repository. The game server keeps one match per id (`matches`), answers
CREATE_MATCH with MATCH_UNIQUE for a new id and MATCH_USED for one it has, and repeats
itself; some ids may be taken by matches from before the service was started
(`Earlier`), and those may end. Players acknowledge what they are told. Nothing that was
sent is ever taken off the network, so a delivery may happen late, repeatedly, in any
order, or never. Matches made in this run never end in the model: how a game server
tells that one has ended is not part of this repository.

### WireFormat and VersionChecker

`WireFormat` has the bytes: two header bytes before the content, a type and a mask, the
tests of ParseRawDatagram, and `FitsBuffer`, which the code does not test before its
memcpy. `VersionChecker` reads the version once, receives through the dispatcher (as
`PacketDispatch`, which `PacketDispatcher` is shown to implement), and answers in one
step (OK) or two (UPDATE, then the map in a second datagram). The map file has any
length (`MapFiles`), since nothing in the code bounds it: a service whose map is too
long comes to `fate = "overrun"`, a memcpy past the buffer, the first time a client
needs it, and the model ends there. The map that is shipped has some 650 bytes; the
buffer takes 1022, less one for a last line that has no newline. `FullMap` is what the
file becomes line by line. The files do not change while the service runs. Clients are
external: they ask until they get OK, and take a version for theirs when they have both
halves of an update. Requests and replies are sets; a datagram may be lost, and a copy
of one that arrives may stay.

### Accounts and LoginServer

`LoginServer` is the thread of Run: wait on the selector, accept before everything else,
then one command of each client that is ready, in the order of `_clients`, until
`RunEnds`. A command goes through ReceiveData, HandleCommand (with RegisterUser or
LoginUser) and Respond, each a step. `con` is `_con`: null if ConnectDatabase failed,
open, or broken when its peer is gone; it is never opened again. A statement throws
(`Throws`) because the connection is broken, because it breaks under the statement,
before or after its effect, or for a reason of its own that leaves the connection open;
the program answers all of these like a refusal, which `fault` remembers for the
properties. `Die` is the end of the process, by a null `_con` or by another service, and
`Restart` the next start; the table survives. Clients leave, do not read, and ask on
several connections. The table has the nickname as its key (the program has no schema;
the handling of a second INSERT as a failure implies it). Commands are in `inbox` once
they are whole. A hash is `[hashOf |-> password]` here; how it is made is the next part.

A connection that cannot be accepted (`AcceptFails`: no descriptors) stays in the
backlog, so the selector reports the listener again, and no client is served while it
does; one that was reset meanwhile is gone (`AcceptAborted`). The listener blocks,
unlike the clients' sockets, and so do statements.

The buffer of a socket takes `Room` answers; the next one is sent in part and those
after it not at all (`SendWhole`, `SendPart`, `SendNothing`), and the code does not
look. Behind an answer that was cut off the client is out of step (`torn`): it takes the
beginning of the next answer for the rest of this one. What it reads then is no answer:
bytes of a length are within the text, or the text is empty. It may come to be in step
again at the end of a later answer (REGISTER_FAIL cut after five bytes is filled up by a
whole LOGIN_OK), so `torn` may end with any answer. An answer that is missing has
another effect that no model can repair: answers do not say what they answer, so the
client takes the next one for the earlier command.

`Accounts` is the promise: each connection's commands are decided in their order against
one lasting table, answered at most once, refused against the table only by a fault; and
nothing is told on a connection while it is not `legible`. The mapping forgets selector,
hashes, the connection to the database and the process.

### Blowfish, Bcrypt and PasswordHashing

The operators follow the functions of blowfish.cpp and bcrypt.cpp: words and bytes, the
Feistel network, the key schedule, ECB and CBC, base 64 without padding, the header of a
text, the lengths of keys, the cost. A byte has four quarters of `Quarter` values each;
the code's is 4, and TLC's is 2, so bytes of four bits, codes of three. The literal
tables are the constant `initstate`, exclusive or is the constant `XorByte`.
`PasswordHashing` makes a text for a password (RegisterUser), or takes one of version
2a, lets it be damaged in its column, and compares an entered password with it
(LoginUser). Beside that it encrypts and decrypts a buffer in both modes; that part
shares no state with the texts and runs only while none is stored, which keeps the
product of the two out of the state space. CBC decryption is a fold over one buffer,
from the last block to the first: each block is overwritten, and mixed with the block
before it as the buffer has it then (`DecryptBlock`). The program itself calls none of
the modes and makes no text of version 2a: they are what the library beside it offers.
`buffer` is what `csalt` holds before it is written: `decode_base64` stops at an invalid
character and node_bcrypt goes on. Recursion over blocks and rounds is written as
recursive functions; `The` only tells TLC to evaluate a value before it goes on.

A password is a sequence of bytes of any kind: it comes with its length (`sf::Packet >>
std::string`, LoginServer.cpp:65; `password.size()`, bcrypt.cpp:337) and may hold a NUL.
Its key is the password and a NUL behind it, over and over, up to 72 bytes
(`KeyStream`), so `ab`, and `ab` NUL `ab`, are one key, and each lets in where the other
was registered. Who is let in is stated by this key. For passwords without NUL it says:
those that agree in their first 72 bytes (`PasswordsWithoutNUL`). The comment
bcrypt.cpp:181 ("'ab' should not yield the same as 'abab'") is about those, and kept.

Left out, because C++ gives it no meaning: texts shorter than their header (reads past
the end) and CBC decryption of no data. Lengths of version 2a that wrap (`Keyed`) are
excluded from the properties: there the code does accept others.

### ServiceLifecycle

`main` constructs the manager, starts the threads, waits for a key, joins the services
in `Order`, deletes them and exits. Each service thread is its loop: test of `_running`,
receive (or the wait of the selector), again; the two services with a dispatcher stop it
after the loop, and its thread is reduced to the test of its own `_running`, the pop and
the handler. What services do with what they receive is left to their modules, except
for two ways to end the process: a command that meets a null `_con`, and a `std::stoi`
that throws. The module has no constants, so its runs check all of it.

## 3. Runs

| run | instance | shows |
|---|---|---|
| MCPacketDispatcher | five packets with every kind of mask, two waiting per queue, fair threads | types, exclusive queues, quiet after Stop, refinement of `PacketDispatch`, Stop returns and is short, urgent packets are taken, normal ones when it is quiet |
| MCMatchmaking | 2 clients, groups of 2, 1 attempt, no retry, 2 ids | ids unique; one group per id; players conserved; no creation or session passed over |
| MCMatchmakingLive | 2 clients, groups of 2, 1 attempt, 1 retry, 1 id, fair | types; refinement of `Lobby`; creations settled, groups formed, sessions settled |
| MCMatchmakingSystem | 2 players, groups of 2, 2 ids, each free or taken at the start | what players are told and what sessions wait for is what the game server has |
| MCVersionChecker | 1 client with any of 3 versions, a map that fills the buffer with its newline or one that is a byte longer, 3 kinds of noise, fair | types; OK never follows half an update; with the map that fits every client gets to OK |
| MCLoginServer | 2 connections, 1 nickname, 2 passwords, 3 commands, 1 restart, a socket buffer for 1 answer | types; one owner; refinement of `Accounts` |
| MCLoginServerLive | 3 connections on a selector with room for 2, 2 commands, an empty field and a packet that is none among them, fair | commands are taken |
| MCPasswordHashing | bytes of 4 bits, 5 passwords (one with a NUL inside), 1 salt, both versions, 15 damages, 2 contents of unwritten memory, 3 buffers of 1 to 3 blocks | texts whole; owner let in; other keys and damaged texts refused; verdicts defined; decryption inverts |
| ServiceLifecycle | the whole module, fair threads | types; no thread in a deleted service; login and matchmaking end; StopServices returns while the version checker keeps receiving |

Runs that are meant to find a violation:

| run | what a document says | what the code does |
|---|---|---|
| MCMatchmakingResend | MatchmakingServer.cpp:233, resends the MATCH_FOUND | the resend (:258) has no header and is read as something else |
| MCMatchmakingStaleAck | :281, a match whose player "does not reply ACK" is given up | an acknowledgement of an earlier match counts (:117) and the match starts |
| ServiceLifecycleIdle | ServiceManager.cpp:30, "Stops all the services" | the version checker stays in a blocking receive (VersionChecker.cpp:81) and main with it |

Two more disagreements have no run: one client that searched twice is "enough players"
(MatchmakingServer.cpp:165), and MATCH_USED sets the attempts back to 0 (:150), so
"retries 5 times" (:194) is 5 times per id. No property claims otherwise:
`CreationsAreSettled` speaks of ids, and groups are made of places in a queue.

*Bounds.* `QueueBound` limits waiting packets and players, `MaxMatchID` the ids. Two
waiting packets per queue show order within and between queues; an owner that finds the
queue full just receives nothing. Two clients fill a match and each may search
repeatedly, so that a third and fourth place wait beside a match; two ids are two
matches pending at once or one renamed, which is what uniqueness, one-group-per-id and
conservation are about. `MaxAttempts` and `MAX_RETRIES` are 5 in the code; 0 and 1
already have the case before, at and after the limit. When the ids are used up no match
is formed, which the liveness properties name as one of their outcomes: with the one id
of MCMatchmakingLive, `GroupsAreFormed` is about the first group, and
`CreationsAreSettled` does not meet a rename, which would set the attempts back to 0
(MatchmakingServer.cpp:150). Symmetry is used only in runs without liveness. In
MCMatchmakingSystem the players search one kind of match; the two kinds meet in nothing
but the tick, which MCMatchmaking has with both. Two connections and three commands are
a race for one nickname and a login after it, before and after a restart, and an answer
that is whole, one cut off and one behind that. A selector limit of 3 (listener and two)
and `Room` of 1 make both limits reachable with one client more, as in
MCLoginServerLive, or one answer more. In a buffer of six bytes the shorter map fits to
the last byte and the longer does not. Bytes of four bits keep every operator of the
cipher at its real structure (16 rounds, 18 subkeys, 4 S-boxes); passwords of 73 bytes
differ before and behind the end of a key, and one holds another twice with the NUL
between. Two contents of unwritten memory are what a verdict that depended on it would
tell apart.

*Fairness.* Threads keep running (weak fairness of their steps). Locking is strongly
fair: both threads release the mutex in each round, and a mutex that keeps being free is
not denied to one waiter for ever by the schedulers this program runs on. Handlers
return: none of them loops or waits. In Matchmaking the main thread never blocks
(`setBlocking(false)`), and a clock that is not restarted passes its limit after some
ticks; hence strong fairness of "this creation (session) is due when the main thread
comes by". Arriving packets, acknowledgements and Stop are never owed. In VersionChecker
the dispatch thread runs, a client without OK asks again, and a datagram that is sent
again and again arrives at last, in both directions; opening the map file succeeds now
and then. Urgent noise and requests with a version the client no longer has are not
repeated without end, since strict priority would starve the others. In LoginServer only
what the thread does without waiting for anybody is fair (`Round`): the wait of the
selector returns when something is ready, and the clients' sockets do not block. The
listener blocks, statements wait for the database, and connections that cannot be
accepted keep it from its clients: that all of these end is the hypothesis `RoundsGoOn`
of `CommandsAreTaken`, which the code does nothing for. Clients, the database and
restarts owe nothing. In ServiceLifecycle every thread is weakly fair and the wait of
the selector ends after a second; only `StopsWhenAsked` adds, as its hypothesis, that
the version checker's receive returns.

*Deadlock* is checked in every run: a dispatcher that was stopped and a server that
ended stutter explicitly (`Stopped`, `Over`, `Done`).

## 4. Proofs

For every value of the constants that satisfies their assumptions:

* `PacketDispatcherProofs`: `TypeCorrect`, `Exclusion`, `Quiet`, `Refinement`,
  `ShortStop`, `NeverBlocked`. The invariant `DispatcherInv` says who holds the mutex,
  what each thread has in hand and how far the owner is, in terms of the two program
  counters; `ExclusiveQueues` alone is not inductive because nothing in it relates the
  mutex to the program counters. The refinement is proved step by step: each action is
  one action of `PacketDispatch` or a stutter. `StopReturns` is liveness; its safety
  half is proved. While Stop waits, somebody can take a step (`NeverBlocked`: the owner
  holds no lock, the mutex is free whenever the dispatch thread wants it), and each step
  makes `StepsLeft` smaller (`ShortStop`): what is left to the run is that threads keep
  running and handlers return.
* `MatchmakingProofs`: `TypeCorrect`, `UniqueMatchIDs`, `NobodyPassedOver` and
  `OneGroup`. `TypeInv` adds to the types that the session being requeued is still there
  (no handler erases sessions). `IdInv` adds that no id in use is above `_lastMatchID`,
  from which the uniqueness of each new id follows. `NonePassedOver` is about two lists
  of different ids and an iterator on each; what a step does to them is one of a few
  edits (the walk moves on, erases where it stands, or ends; a handler appends, renames
  or erases), and a lemma for each says that it keeps to `Walks` (`WalkStays` to
  `WalkEnds`). `OneGroupPerMatchID` speaks of what was sent and says nothing of what is
  about to be sent, so `GroupInv` adds: the text of a creation is that of its data
  (`Serialized`); a pending match has the players of the CREATE_MATCH with its id, and
  no sent id is above `_lastMatchID` (`CreatesAgree`); nobody was told of a match that
  is still a creation (`FoundAgree`). `GroupStep` proves that it is kept by any step
  that keeps creations or adds one with a new id, makes sessions only of creations, and
  sends only what is known of a pending match; the actions are then shown to be such
  steps.
* `MatchmakingSystemProofs`, first: `LobbyKept` and `Conservation`. Matchmaking
  implements `Lobby`: each handler and each round of the tick is one action of `Lobby`
  or invisible to it; the work is in the vectors, where erasing and appending must
  commute with the mapping. `PlayersAreConserved` is proved on the same three lists, the
  queues and the groups in creations and in sessions: the places a client holds are
  counted list by list (`Held`), sets of places are matched one to one where a list is
  cut in two or a group is appended (`Cover`, `CountOfTwo`), and for each action it is
  shown which places it adds, moves or drops. `FullInv` adds that every group has
  `PlayersPerMatch` players: a shorter one would have seats that belong to nobody.
* `MatchmakingSystemProofs`, then: `SystemSeats` and `SystemSessions`. A system step is
  a step of `Matchmaking` or leaves its variables alone, so the system implements
  `Matchmaking` (`Restricts`) and whatever is proved of that holds in the system;
  `SystemInv` adds that the game server only has matches it was asked for
  (`MatchesAsked`), that MATCH_UNIQUE was only said of a match it has (`AnswersHonest`),
  and that what players were or will be told is known there (`FoundKnown`). One group
  per id then makes the match it has the one they are told of.
* `LoginServerProofs`: `OwnersKept` and `AnswersKept`. `OneOwner` speaks of what was
  told, so `OwnerInv` adds what links it to the table: what was told, and what is
  decided and not told yet, holds of the row it speaks of (`Honest`), and a decision
  that gives a nickname away is the first one (`FirstToRegister`). A row that is there
  is never replaced, which keeps all of that. For the refinement, `HandInv` adds that a
  command in hand is the turn of one client, and that a process that is down has no
  clients left; then each step is one step of `Accounts` (`AskStep` to `DecideStep`) or
  none: receiving a command puts it before what its client asks, handling it decides it,
  with a fault where the statement threw, an answer that is not told or not legible is
  `Miss`, the end of the process is `Restart`. Nothing is assumed of when statements
  fail and answers are cut off.
* `VersionCheckerProofs`: `TypeCorrect` and `UpToDate`, for files of any length.
  `AnswerInv` follows a request to its answer: one for the latest version comes from a
  client that has it, one for another from a client that did not start with it (`Came`),
  in the network, in the queues, in hand and in the replies; and what clients hold of an
  update is the latest version and the whole map. A client never goes back (`Onward`),
  so what fits once fits when it arrives late or again. The bytes of a datagram are read
  back as they were written (`DatagramIsRead`). The dispatcher's steps are those of
  `PacketDispatch` by definition; that the threads of PacketDispatcher.cpp keep to it is
  `Refinement` above.
* `CipherProofs`: `DecipherInverts` and `DataDecrypted`. A word is the sum of its bytes
  at their places, and exclusive or applied twice cancels byte by byte. A round is
  undone by the same round on the turned halves, so decipher, which takes the subkeys
  from the last to the first, undoes encipher, whatever the S-boxes are. The key
  schedule makes contexts of any key, and ECB and CBC are inverted block by block; for
  CBC, the buffer from the n-th block on is plain and in front of it still what was
  encrypted, so the block before is the ciphertext that decryption needs.
  `DataDecrypted` takes this through the states of `PasswordHashing`.
* `PasswordHashingProofs`: `WholeTexts`, `OwnersLetIn`, `VerdictsAreDefined`,
  `LetInByHash`, `OthersByCollision` and `PasswordsWithoutNUL`. `OwnerIsLetIn` says
  nothing of a text nobody has tried yet, so the invariant `PasswordInv` adds that a
  text which is not damaged is the text of its owner's password for some version, cost
  and salt (`Made`), and that there is no verdict without a text. That such a text lets
  its owner in is shown in three parts. The four codes of base 64 give back the three
  bytes they were cut from, whatever follows them (`CodesUndone`, `Decoded`); so
  node_bcrypt reads out of a text the version, the cost and the salt that were written
  to it, whatever its buffer held before (`ReadsBack`). The schedule depends on a key
  only through the bytes it adds to the subkeys (`ExpandedSame`). And two passwords of
  one `KeyStream` add the same bytes, since a key is the password with its NUL, read
  over and over and cut at 72 bytes, unless a length of version 2a wraps (`StreamOfKey`,
  `StreamKeys`). What that means of passwords without NUL is `PasswordsWithoutNUL`: the
  first NUL of the stream is then the end of the password. For the other direction the
  invariant also says that a text, damaged or not, consists of characters that are
  written (`DamagesAreWritten`) and that one which lets somebody in is made of what was
  entered. What could not be read out of a text is written back otherwise than it was
  read, and the texts differ (`AcceptedIsMade`); a text that was made lets its password
  in under every content of unwritten memory (`MadeIsAccepted`), so that memory never
  decides. Hence who is let in has entered a password whose hash the text is
  (`LetInByHash`), and for a text that is not damaged it is the owner's hash as well
  (`OthersByCollision`, by `MadeTwice`: the version, cost and salt of a text are what it
  was made with).
* `ServiceLifecycleProofs`: `NothingUsedDeleted` and `TypeCorrect`. The module has no
  constants and its runs cover all its states; the proof says why it is so.
  `NoUseAfterDelete` only speaks of the end, so `LifecycleInv` adds that a dispatch
  thread begins and ends between Bind and the end of Run (`DispatchEnclosed`) and that
  what was joined has returned and stays so (`Joined`).

Each set of assumptions on constants is named in the module that declares them. The ones
that carry weight: `VersionChecker!NoiseAssumption` (noise does not ask for a version),
`Blowfish!XorAssumption` (what exclusive or of two bytes is), `Bcrypt!CostAssumption` (a
cost is written with two digits), `Bcrypt!AlphabetAssumption` (base 64 has at most its
64 characters; the runs use the smaller alphabets), and that `None` is none of the
values it stands beside.

The provers cannot instantiate the library's induction theorems, which take an operator.
What induction is needed for here (the `n`-th element of a finite set of positions, in
`At`, the recursive functions of the cipher, and what `FlattenSeq` makes of the groups
of base 64) is proved through `SetInduction`, where the induction hypothesis is a set
and well-foundedness of `<` on the naturals gives a least counterexample;
`RecursionExists` gives recursive functions their values from it. Conditionals are
written with IF in the modules that have theorems: the SMT translation of CASE
expressions was seen to accept wrong steps.

Only model-checked: all liveness (out of the provers' reach); and `OthersAreRefused` and
`DamagedTextsAreRefused`, which say that the hash has no collisions among what the run
tries. They cannot hold for all passwords, since there are more of them than texts: what
does not depend on collisions is `OthersByCollision` and `LetInByHash`.

## 5. Plan and limits

Done: all components that the program has of its own, and theorems for every safety
property that depends on constants and can hold for all of them. Worth adding:
`PacketDispatcher` itself, in place of `PacketDispatch`, under the version checker and
under matchmaking, so that one state has the threads of both.

Not modelled:

* logging, port numbers and addresses (ConsoleUtils.h, Constants.h; Packet.hpp): no
  state;
* the vendored libraries (SFML, the MySQL connector, their documentation and examples
  under `src/ServiceServer/Dependencies`, some 56000 of the repository's 59000 lines),
  except as the environment of the code that calls them. They are not this program, and
  most of it are headers without code;
* the literal S-box tables of Blowfish_initstate, a constant: what is claimed holds for
  any tables;
* `GenerateMatchID` and `bcrypt_get_rounds`, which nothing calls, and the elo functions,
  which are stubs;
* what a handler throws where memory runs out, and everything after undefined behaviour,
  such as what becomes of a copy past a buffer or of two threads in one container;
* how many bytes of an answer are sent, and ids beyond `MaxMatchID`;
* the format of SerializeMatch as text: what it carries is kept in `serialized`.

---------------------------- MODULE LoginServer ----------------------------
(***************************************************************************)
(* LoginServer.{h,cpp}, ClientLR.{h,cpp} and DatabaseManager.{h,cpp}: one  *)
(* thread that waits on a selector, accepts a connection if one is waiting *)
(* and otherwise serves one command of every client that is ready.  The    *)
(* commands end in the table users of a MySQL server, reached through one  *)
(* connection that is made when the process starts and never again.        *)
(*                                                                         *)
(* A connection is a TCP connection of a client, who may leave at any      *)
(* time.  A command is in inbox once all of it has arrived; a round that   *)
(* finds less of it than that does nothing.  Sockets of clients do not     *)
(* block: of an answer as much is sent as fits in the buffer, and the rest *)
(* is forgotten.  The listener and the statements to the database do       *)
(* block.  The process may be killed by what happens in the other          *)
(* services; the table survives.                                           *)
(***************************************************************************)
EXTENDS Naturals, Sequences, FiniteSets

CONSTANTS
  Connection,     \* the connections clients make
  Nickname, Password, Empty,
  Offered,        \* the commands clients send
  None,           \* nothing in hand, no row
  SelectorLimit,  \* how many sockets the selector takes, the listener included
  Room,           \* the answers that fit into the buffer of a socket
  MaxCommands,    \* bound of the model: commands sent
  MaxRestarts     \* bound of the model: how often the process starts again

Command ==
  [command : {"REGISTER", "LOGIN"},
   nick : Nickname \cup {Empty}, pass : Password \cup {Empty}]

\* A packet without a command this server knows, or without the two strings.
Unreadable == [command |-> "unreadable"]

ASSUME OfferedAssumption == Offered \subseteq Command \cup {Unreadable}
ASSUME EmptyAssumption == Empty \notin Nickname \cup Password
ASSUME LimitAssumption == SelectorLimit \in Nat \ {0}
ASSUME RoomAssumption == Room \in Nat
ASSUME BoundAssumption == MaxCommands \in Nat /\ MaxRestarts \in Nat

Answer == {"REGISTER_OK", "REGISTER_FAIL", "LOGIN_OK", "LOGIN_FAIL"}

\* fault: the statement threw, for another reason than a nickname that is taken.
Decision == [of : Command, answer : Answer, fault : BOOLEAN]

\* What bcrypt stores for a password, and how it is compared with one.
generateHash(pass) == [hashOf |-> pass]
validatePassword(pass, hash) == hash = generateHash(pass)

ASSUME NoneAssumption ==
  None \notin Password \cup Command \cup {Unreadable} \cup Decision
                \cup {generateHash(p) : p \in Password}

VARIABLES
  users,      \* the table: the hash stored for each nickname, or None
  con,        \* _con: "null", "open", or "broken" when its peer is gone
  backlog,    \* connections that wait to be accepted
  clients,    \* _clients
  watched,    \* the clients that are in _selector
  ready,      \* the clients the selector reported and that are not served yet
  serverPc,   \* where the thread of Run is
  command,    \* the command HandleCommand works on
  decision,   \* the answer it is about to send
  inbox,      \* the commands that have arrived on each connection
  unread,     \* how many answers, or parts of one, wait in the buffer of each
  torn,       \* the connections whose client does not find where answers begin
  left,       \* the connections that have ended on the client's side
  asked,      \* the number of commands sent so far
  told,       \* every answer sent on each connection that can be read there
  restarts

vars == <<users, con, backlog, clients, watched, ready, serverPc, command, decision,
          inbox, unread, torn, left, asked, told, restarts>>

clientVars == <<inbox, unread, torn, left, asked>>
tableVars == <<users, con>>
serverVars == <<backlog, clients, watched, ready, serverPc, command, decision>>

\* DatabaseManager::ConnectDatabase: it connects, or connects to a server that
\* has no such schema, or does not connect; it returns all the same.
ConnectDatabase == {"null", "open", "broken"}

Init ==
  /\ users = [n \in Nickname |-> None]
  /\ con \in ConnectDatabase
  /\ backlog = {} /\ clients = <<>> /\ watched = {} /\ ready = {}
  /\ serverPc = "wait" /\ command = None /\ decision = None
  /\ inbox = [c \in Connection |-> <<>>]
  /\ unread = [c \in Connection |-> 0]
  /\ torn = {} /\ left = {}
  /\ asked = 0
  /\ told = [c \in Connection |-> <<>>]
  /\ restarts = 0

-----------------------------------------------------------------------------
(* Clients. *)

Accepted == {clients[i] : i \in DOMAIN clients}
Connected(c) == c \in (backlog \cup Accepted) \ left

Connect(c) ==
  /\ serverPc # "down"
  /\ c \notin backlog \cup Accepted \cup left
  /\ backlog' = backlog \cup {c}
  /\ UNCHANGED <<tableVars, clientVars, clients, watched, ready, serverPc, command,
                 decision, told, restarts>>

Send(c, m) ==
  /\ Connected(c) /\ asked < MaxCommands
  /\ inbox' = [inbox EXCEPT ![c] = Append(@, m)]
  /\ asked' = asked + 1
  /\ UNCHANGED <<tableVars, serverVars, unread, torn, left, told, restarts>>

ReadAnswer(c) ==
  /\ c \notin left /\ unread[c] > 0
  /\ unread' = [unread EXCEPT ![c] = @ - 1]
  /\ UNCHANGED <<tableVars, serverVars, inbox, torn, left, asked, told, restarts>>

\* What has arrived before the end can still be read, unless the client reset
\* the connection; one that was not accepted may then be gone altogether.
Leave(c) ==
  /\ Connected(c)
  /\ left' = left \cup {c}
  /\ \/ UNCHANGED <<inbox, backlog>>
     \/ /\ inbox' = [inbox EXCEPT ![c] = <<>>]
        /\ backlog' \in {backlog, backlog \ {c}}
  /\ UNCHANGED <<tableVars, clients, watched, ready, serverPc, command, decision, unread,
                 torn, asked, told, restarts>>

-----------------------------------------------------------------------------
(* DatabaseManager.  A statement throws when the connection is broken; it  *)
(* may break under the statement, before or after the effect of it; and    *)
(* the statement alone may fail (a value too long, a lock that is not to   *)
(* be had, no such table), which leaves the connection as it is.           *)

Missing(m) == m.nick = Empty \/ m.pass = Empty

\* Mutant of RegisterUser: the row of a nickname is replaced.
ReplaceUser(m, success, fault) ==
  \/ Missing(m) /\ ~success /\ ~fault /\ UNCHANGED tableVars
  \/ /\ ~Missing(m) /\ con = "open" /\ UNCHANGED con /\ success /\ ~fault
     /\ users' = [users EXCEPT ![m.nick] = generateHash(m.pass)]

\* Throws(TRUE) when the statement had its effect before.
Throws(done) ==
  /\ con \in {"open", "broken"}
  /\ done => con = "open" /\ con' = "broken"
  /\ con' \in {con, "broken"}

Insert(m) ==
  /\ users[m.nick] = None
  /\ users' = [users EXCEPT ![m.nick] = generateHash(m.pass)]

\* The nickname is the key of the table: a second row for it is refused.
RegisterUser(m, success, fault) ==
  \/ Missing(m) /\ ~success /\ ~fault /\ UNCHANGED tableVars
  \/ /\ ~Missing(m) /\ con = "open" /\ UNCHANGED con /\ ~fault
     /\ \/ success /\ Insert(m)
        \/ ~success /\ users[m.nick] # None /\ UNCHANGED users
  \/ /\ ~Missing(m) /\ ~success /\ fault
     /\ \/ Throws(FALSE) /\ UNCHANGED users
        \/ Throws(TRUE) /\ Insert(m)

\* Mutant of LoginUser: any row with the nickname will do.
LoginAnyRow(m, success, fault) ==
  /\ UNCHANGED tableVars
  /\ con = "open" \/ Missing(m)
  /\ success = (~Missing(m) /\ users[m.nick] # None) /\ ~fault

LoginUser(m, success, fault) ==
  /\ UNCHANGED users
  /\ \/ Missing(m) /\ ~success /\ ~fault /\ UNCHANGED con
     \/ /\ ~Missing(m) /\ con = "open" /\ UNCHANGED con /\ ~fault
        /\ success = (users[m.nick] # None /\ validatePassword(m.pass, users[m.nick]))
     \/ ~Missing(m) /\ ~success /\ fault /\ Throws(FALSE)

\* The server of the database goes away, or closes a connection that was idle.
ConnectionBreaks ==
  /\ con = "open"
  /\ con' = "broken"
  /\ UNCHANGED <<users, serverVars, clientVars, told, restarts>>

-----------------------------------------------------------------------------
(* The thread of Run. *)

\* Mutant of Watch: a socket is only added to an empty selector.
WatchFirst(c) == IF watched = {} THEN {c} ELSE watched

\* SocketSelector::add leaves a socket out when the selector is full.
Watch(c) == IF Cardinality(watched) + 1 < SelectorLimit THEN watched \cup {c} ELSE watched

\* wait reports a waiting connection, which goes before every client.
ListenerReady ==
  /\ serverPc = "wait" /\ backlog # {}
  /\ serverPc' = "accept"
  /\ UNCHANGED <<tableVars, clientVars, backlog, clients, watched, ready, command,
                 decision, told, restarts>>

\* accept, on a listener that blocks: it waits when the connection is gone.
AcceptNewConnection(c) ==
  /\ serverPc = "accept" /\ serverPc' = "wait"
  /\ c \in backlog
  /\ backlog' = backlog \ {c}
  /\ clients' = Append(clients, c)
  /\ watched' = Watch(c)
  /\ UNCHANGED <<tableVars, clientVars, ready, command, decision, told, restarts>>

\* There are no descriptors left, of the process or of the machine: only the
\* new object is deleted, and the connection waits on.
AcceptFails ==
  /\ serverPc = "accept" /\ serverPc' = "wait"
  /\ UNCHANGED <<tableVars, clientVars, backlog, clients, watched, ready, command,
                 decision, told, restarts>>

\* The connection was reset while it waited.
AcceptAborted(c) ==
  /\ serverPc = "accept" /\ serverPc' = "wait"
  /\ c \in backlog \cap left /\ inbox[c] = <<>>
  /\ backlog' = backlog \ {c}
  /\ UNCHANGED <<tableVars, clientVars, clients, watched, ready, command, decision, told,
                 restarts>>

\* A socket is ready when it has something to receive, its end included.
IsReady(c) == inbox[c] # <<>> \/ c \in left
Reported == {c \in watched : IsReady(c)}

WaitReports ==
  /\ serverPc = "wait" /\ backlog = {}
  /\ Reported # {}
  /\ ready' = Reported
  /\ serverPc' = "serve"
  /\ UNCHANGED <<tableVars, clientVars, backlog, clients, watched, command, decision,
                 told, restarts>>

WaitElapses ==
  /\ serverPc = "wait" /\ backlog = {} /\ Reported = {}
  /\ UNCHANGED vars

\* The for loop has come to the client c: the first one of those still ready.
Turn(c) ==
  /\ c \in ready
  /\ \E i \in DOMAIN clients :
       clients[i] = c /\ \A k \in 1..(i - 1) : clients[k] \notin ready

Served(c) ==
  /\ ready' = ready \ {c}
  /\ serverPc' = IF ready' = {} THEN "wait" ELSE "serve"

\* ReceiveData returns without a command: the client is gone, or it sent
\* something else.
ReceiveNothing(c) ==
  /\ serverPc = "serve" /\ Turn(c)
  /\ inbox[c] = <<>>
  /\ Served(c)
  /\ UNCHANGED <<tableVars, clientVars, backlog, clients, watched, command, decision,
                 told, restarts>>

ReceiveOther(c) ==
  /\ serverPc = "serve" /\ Turn(c)
  /\ inbox[c] # <<>> /\ Head(inbox[c]) = Unreadable
  /\ inbox' = [inbox EXCEPT ![c] = Tail(@)]
  /\ Served(c)
  /\ UNCHANGED <<tableVars, backlog, clients, watched, command, decision, unread, torn,
                 left, asked, told, restarts>>

ReceiveData(c) ==
  /\ serverPc = "serve" /\ Turn(c)
  /\ inbox[c] # <<>> /\ Head(inbox[c]) # Unreadable
  /\ inbox' = [inbox EXCEPT ![c] = Tail(@)]
  /\ command' = Head(inbox[c])
  /\ serverPc' = "handle"
  /\ UNCHANGED <<tableVars, backlog, clients, watched, ready, decision, unread, torn, left,
                 asked, told, restarts>>

HandleCommand(success, fault) ==
  /\ serverPc = "handle"
  /\ \/ /\ command.command = "REGISTER"
        /\ RegisterUser(command, success, fault)
        /\ decision' = [of |-> command, fault |-> fault,
                        answer |-> IF success THEN "REGISTER_OK" ELSE "REGISTER_FAIL"]
     \/ /\ command.command = "LOGIN"
        /\ LoginUser(command, success, fault)
        /\ decision' = [of |-> command, fault |-> fault,
                        answer |-> IF success THEN "LOGIN_OK" ELSE "LOGIN_FAIL"]
  /\ command' = None
  /\ serverPc' = "respond"
  /\ UNCHANGED <<clientVars, backlog, clients, watched, ready, told, restarts>>

(***************************************************************************)
(* The end of HandleCommand.  The status of send is not looked at.  Once   *)
(* part of an answer was sent, the client takes the next bytes for the     *)
(* rest of it, and finds neither the end nor the length of what follows;   *)
(* by chance it may be in step again at the end of a later answer.  What   *)
(* it reads out of step is never one of the answers: a length is in the    *)
(* middle of it, or it is empty.                                           *)
(***************************************************************************)
OutOfStep(c) == torn' \in {torn, torn \ {c}}

SendWhole(c) ==
  /\ c \notin left /\ unread[c] < Room
  /\ unread' = [unread EXCEPT ![c] = @ + 1]
  /\ \/ /\ c \notin torn /\ UNCHANGED torn
        /\ told' = [told EXCEPT ![c] = Append(@, decision)]
     \/ c \in torn /\ OutOfStep(c) /\ UNCHANGED told

SendPart(c) ==
  /\ c \notin left /\ unread[c] = Room
  /\ unread' = [unread EXCEPT ![c] = @ + 1]
  /\ IF c \in torn THEN OutOfStep(c) ELSE torn' = torn \cup {c}
  /\ UNCHANGED told

SendNothing(c) ==
  /\ c \in left \/ unread[c] >= Room
  /\ UNCHANGED <<unread, torn, told>>

\* Mutant of Respond: the decision is not given up after it was sent.
RespondAgain(c) ==
  /\ serverPc = "respond" /\ Turn(c)
  /\ SendWhole(c) \/ SendPart(c) \/ SendNothing(c)
  /\ Served(c)
  /\ UNCHANGED <<tableVars, backlog, clients, watched, command, decision, inbox, left,
                 asked, restarts>>

Respond(c) ==
  /\ serverPc = "respond" /\ Turn(c)
  /\ SendWhole(c) \/ SendPart(c) \/ SendNothing(c)
  /\ decision' = None
  /\ Served(c)
  /\ UNCHANGED <<tableVars, backlog, clients, watched, command, inbox, left, asked,
                 restarts>>

\* The test of running at the start of a round.
RunEnds ==
  /\ serverPc = "wait" /\ serverPc' = "stopped"
  /\ UNCHANGED <<tableVars, clientVars, backlog, clients, watched, ready, command,
                 decision, told, restarts>>

-----------------------------------------------------------------------------
(* The process. *)

\* All connections end with the process.
Die ==
  /\ serverPc' = "down"
  /\ con' = "null"
  /\ left' = left \cup backlog \cup Accepted
  /\ backlog' = {} /\ clients' = <<>> /\ watched' = {} /\ ready' = {}
  /\ command' = None /\ decision' = None
  /\ inbox' = [c \in Connection |-> <<>>]
  /\ unread' = [c \in Connection |-> 0]
  /\ UNCHANGED <<users, torn, asked, told, restarts>>

\* prepareStatement is called through a null pointer.
NullConnection ==
  /\ serverPc = "handle" /\ ~Missing(command) /\ con = "null"
  /\ Die

\* The process is stopped, or another service ends it.
Killed == serverPc # "down" /\ Die

Restart ==
  /\ serverPc = "down" /\ restarts < MaxRestarts
  /\ restarts' = restarts + 1
  /\ con' \in ConnectDatabase
  /\ serverPc' = "wait"
  /\ UNCHANGED <<users, clientVars, backlog, clients, watched, ready, command, decision,
                 told>>

Over == serverPc = "down" /\ restarts = MaxRestarts /\ UNCHANGED vars

-----------------------------------------------------------------------------
Client ==
  \/ \E c \in Connection : Connect(c) \/ ReadAnswer(c) \/ Leave(c)
  \/ \E c \in Connection, m \in Offered : Send(c, m)

\* What the thread does without having to wait for anybody.
Round ==
  \/ \E c \in Connection :
       \/ AcceptNewConnection(c) \/ AcceptAborted(c)
       \/ ReceiveNothing(c) \/ ReceiveOther(c) \/ ReceiveData(c)
       \/ Respond(c)
  \/ ListenerReady \/ WaitReports

\* What waits for the database.
Statement ==
  \/ \E success, fault \in BOOLEAN : HandleCommand(success, fault)
  \/ NullConnection

Next ==
  \/ Client \/ Round \/ AcceptFails \/ Statement \/ RunEnds
  \/ ConnectionBreaks \/ WaitElapses \/ Killed \/ Restart \/ Over

Spec == Init /\ [][Next]_vars

(***************************************************************************)
(* The thread keeps running where it does not block: wait returns when     *)
(* something is ready, and accepted sockets return at once.  Statements,   *)
(* clients, the database and restarts are not owed anything.               *)
(***************************************************************************)
FairSpec == Spec /\ WF_vars(Round)

-----------------------------------------------------------------------------
(* Properties. *)

\* Type correctness of the login server's state.
TypeOK ==
  /\ users \in [Nickname -> {generateHash(p) : p \in Password} \cup {None}]
  /\ con \in {"null", "open", "broken"}
  /\ backlog \subseteq Connection /\ left \subseteq Connection /\ torn \subseteq Connection
  /\ clients \in Seq(Connection)
  /\ ready \subseteq watched /\ watched \subseteq Connection
  /\ serverPc \in {"wait", "accept", "serve", "handle", "respond", "stopped", "down"}
  /\ command \in Command \cup {None} /\ (command # None <=> serverPc = "handle")
  /\ decision \in Decision \cup {None} /\ (decision # None <=> serverPc = "respond")
  /\ inbox \in [Connection -> Seq(Command \cup {Unreadable})]
  /\ unread \in [Connection -> 0..(Room + 1)]
  /\ asked \in 0..MaxCommands
  /\ told \in [Connection -> Seq(Decision)]
  /\ restarts \in 0..MaxRestarts

\* A nickname has one owner for good: REGISTER_OK is told once for it, on one
\* connection, and LOGIN_OK only to those with the password it was registered
\* with, across lost answers, a broken database and restarts of the process.
OneOwner ==
  \A c, d \in Connection : \A i \in DOMAIN told[c], j \in DOMAIN told[d] :
    LET first == told[c][i]
        second == told[d][j]
    IN first.answer = "REGISTER_OK" /\ first.of.nick = second.of.nick =>
         /\ second.answer = "REGISTER_OK" => c = d /\ i = j
         /\ second.answer = "LOGIN_OK" => second.of.pass = first.of.pass

\* Login and register do what Accounts promises: the commands of a connection
\* are decided one by one in their order against one lasting table of
\* accounts.  Unless a statement failed, the decision is what the table says;
\* OK is never said otherwise.  Each decision is told at most once, and none
\* is told on a connection where an answer was cut off, until the client has
\* found the beginning of an answer again.
Promise == INSTANCE Accounts WITH
  accounts <- [n \in Nickname |->
                 IF users[n] = None THEN None ELSE users[n].hashOf],
  asked <- [c \in Connection |->
              IF serverPc = "handle" /\ Turn(c) THEN <<command>> \o inbox[c]
              ELSE inbox[c]],
  decided <- [c \in Connection |->
                IF serverPc = "respond" /\ Turn(c) THEN decision ELSE None],
  legible <- [c \in Connection |-> c \notin torn]

AnswersAsPromised == Promise!AccountsSpec

\* The client c is one of those the selector has room for.
Observed(c) ==
  \E i \in DOMAIN clients : clients[i] = c /\ i < SelectorLimit

\* The thread gets to its clients again and again: there comes an end to
\* connections that wait, those that cannot be accepted among them, and what
\* blocks, the listener and the statements, returns.
RoundsGoOn ==
  <>[](backlog = {}) /\ []<>(serverPc # "accept") /\ []<>(serverPc # "handle")

\* Then the commands of every client the selector has room for are taken,
\* whichever other clients left and are reported for ever (nothing removes
\* them, LoginServer.cpp:112), until Run ends.
CommandsAreTaken ==
  RoundsGoOn =>
    \A c \in Connection :
      Observed(c) /\ inbox[c] # <<>> ~> (serverPc \in {"stopped", "down"} \/ inbox[c] = <<>>)
=============================================================================

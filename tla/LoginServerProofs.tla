------------------------- MODULE LoginServerProofs -------------------------
(***************************************************************************)
(* A nickname has one owner, and the answers are those of Accounts, for    *)
(* any number of connections, commands, faults and restarts.               *)
(***************************************************************************)
EXTENDS LoginServer, SequenceTheorems, TLAPS

-----------------------------------------------------------------------------
(* Types. *)

LEMMA AppendType ==
  ASSUME NEW S, NEW s \in Seq(S), NEW e \in S
  PROVE  Append(s, e) \in Seq(S)
BY AppendProperties

LEMMA TailType ==
  ASSUME NEW S, NEW s \in Seq(S), s # <<>>
  PROVE  Tail(s) \in Seq(S) /\ Head(s) \in S
BY HeadTailProperties

LEMMA CommandFields ==
  ASSUME NEW m \in Command
  PROVE  /\ m.command \in {"REGISTER", "LOGIN"}
         /\ ~Missing(m) => m.nick \in Nickname /\ m.pass \in Password
BY DEF Command, Missing

LEMMA NoneIsNone ==
  /\ None \notin Command /\ None \notin Decision
  /\ \A p \in Password : generateHash(p) # None
BY NoneAssumption

\* RegisterUser and LoginUser keep the types of the table and the connection.
LEMMA TableTypes ==
  ASSUME TypeOK, NEW m \in Command, NEW success \in BOOLEAN, NEW fault \in BOOLEAN,
         RegisterUser(m, success, fault) \/ LoginUser(m, success, fault)
  PROVE  /\ users' \in [Nickname -> {generateHash(p) : p \in Password} \cup {None}]
         /\ con' \in {"null", "open", "broken"}
<1>1. ~Missing(m) => generateHash(m.pass) \in {generateHash(p) : p \in Password}
  BY CommandFields
<1> QED
  BY <1>1 DEF RegisterUser, LoginUser, Throws, Insert, tableVars, TypeOK

LEMMA ClientTypes ==
  ASSUME TypeOK, Client
  PROVE  TypeOK'
<1>1. ASSUME NEW c \in Connection, Connect(c) PROVE TypeOK'
  BY <1>1 DEF Connect, TypeOK, tableVars, clientVars
<1>2. ASSUME NEW c \in Connection, ReadAnswer(c) PROVE TypeOK'
  <2>1. unread[c] - 1 \in 0..(Room + 1)
    BY <1>2, RoomAssumption DEF ReadAnswer, TypeOK
  <2> QED
    BY <1>2, <2>1 DEF ReadAnswer, TypeOK, tableVars, serverVars
<1>3. ASSUME NEW c \in Connection, Leave(c) PROVE TypeOK'
  <2>1. left' \subseteq Connection
    BY <1>3 DEF Leave, TypeOK
  <2>2. backlog' \subseteq Connection
    BY <1>3 DEF Leave, TypeOK
  <2>3. inbox' \in [Connection -> Seq(Command \cup {Unreadable})]
    BY <1>3, EmptySeq DEF Leave, TypeOK
  <2> QED
    BY <1>3, <2>1, <2>2, <2>3 DEF Leave, TypeOK, tableVars
<1>4. ASSUME NEW c \in Connection, NEW m \in Offered, Send(c, m) PROVE TypeOK'
  <2>1. Append(inbox[c], m) \in Seq(Command \cup {Unreadable})
    BY OfferedAssumption, AppendType DEF TypeOK
  <2>2. asked + 1 \in 0..MaxCommands
    BY <1>4, BoundAssumption DEF Send, TypeOK
  <2> QED
    BY <1>4, <2>1, <2>2 DEF Send, TypeOK, tableVars, serverVars
<1> QED
  BY <1>1, <1>2, <1>3, <1>4 DEF Client

LEMMA DieTypes ==
  ASSUME TypeOK, Die
  PROVE  TypeOK'
<1>1. Accepted \subseteq Connection
  BY ElementOfSeq DEF Accepted, TypeOK
<1>2. left' \subseteq Connection
  BY <1>1 DEF Die, TypeOK
<1>3. clients' \in Seq(Connection)
  BY EmptySeq DEF Die
<1>4. /\ inbox' \in [Connection -> Seq(Command \cup {Unreadable})]
      /\ unread' \in [Connection -> 0..(Room + 1)]
  BY EmptySeq, RoomAssumption DEF Die
<1>5. /\ command' \in Command \cup {None} /\ (command' # None <=> serverPc' = "handle")
      /\ decision' \in Decision \cup {None} /\ (decision' # None <=> serverPc' = "respond")
      /\ con' \in {"null", "open", "broken"}
      /\ serverPc' \in {"wait", "accept", "serve", "handle", "respond", "stopped", "down"}
  BY DEF Die
<1>6. /\ backlog' \subseteq Connection
      /\ ready' \subseteq watched' /\ watched' \subseteq Connection
  BY DEF Die
<1>7. UNCHANGED <<users, torn, asked, told, restarts>>
  BY DEF Die
<1> QED
  BY <1>2, <1>3, <1>4, <1>5, <1>6, <1>7 DEF TypeOK

LEMMA SendTypes ==
  ASSUME TypeOK, NEW c \in Connection, decision \in Decision,
         SendWhole(c) \/ SendPart(c) \/ SendNothing(c)
  PROVE  /\ unread' \in [Connection -> 0..(Room + 1)]
         /\ torn' \subseteq Connection
         /\ told' \in [Connection -> Seq(Decision)]
<1>1. unread' \in [Connection -> 0..(Room + 1)]
  <2>1. \/ unread' = unread
        \/ unread[c] <= Room /\ unread' = [unread EXCEPT ![c] = @ + 1]
    BY RoomAssumption DEF SendWhole, SendPart, SendNothing, TypeOK
  <2>2. unread[c] <= Room => unread[c] + 1 \in 0..(Room + 1)
    BY RoomAssumption DEF TypeOK
  <2> QED
    BY <2>1, <2>2 DEF TypeOK
<1>2. torn' \subseteq Connection
  BY DEF SendWhole, SendPart, SendNothing, OutOfStep, TypeOK
<1>3. Append(told[c], decision) \in Seq(Decision)
  BY AppendType DEF TypeOK
<1> QED
  BY <1>1, <1>2, <1>3 DEF SendWhole, SendPart, SendNothing, TypeOK

LEMMA RoundTypes ==
  ASSUME TypeOK, Round
  PROVE  TypeOK'
<1>1. ASSUME NEW c \in Connection, AcceptNewConnection(c) PROVE TypeOK'
  <2>1. Append(clients, c) \in Seq(Connection)
    BY AppendType DEF TypeOK
  <2>2. Watch(c) \in SUBSET Connection /\ watched \subseteq Watch(c)
    BY DEF Watch, TypeOK
  <2> QED
    BY <1>1, <2>1, <2>2 DEF AcceptNewConnection, TypeOK, tableVars, clientVars
<1>2. ASSUME NEW c \in Connection, AcceptAborted(c) PROVE TypeOK'
  BY <1>2 DEF AcceptAborted, TypeOK, tableVars, clientVars
<1>3. ASSUME NEW c \in Connection, ReceiveNothing(c) PROVE TypeOK'
  BY <1>3, NoneIsNone DEF ReceiveNothing, Served, TypeOK, tableVars, clientVars
<1>4. ASSUME NEW c \in Connection, ReceiveOther(c) PROVE TypeOK'
  <2>1. Tail(inbox[c]) \in Seq(Command \cup {Unreadable})
    BY <1>4, TailType DEF ReceiveOther, TypeOK
  <2> QED
    BY <1>4, <2>1 DEF ReceiveOther, Served, TypeOK, tableVars
<1>5. ASSUME NEW c \in Connection, ReceiveData(c) PROVE TypeOK'
  <2>1. Tail(inbox[c]) \in Seq(Command \cup {Unreadable}) /\ Head(inbox[c]) \in Command
    BY <1>5, TailType DEF ReceiveData, TypeOK
  <2> QED
    BY <1>5, <2>1, NoneIsNone DEF ReceiveData, TypeOK, tableVars
<1>6. ASSUME NEW c \in Connection, Respond(c) PROVE TypeOK'
  <2>1. decision \in Decision
    BY <1>6 DEF Respond, TypeOK
  <2>2. /\ unread' \in [Connection -> 0..(Room + 1)]
        /\ torn' \subseteq Connection
        /\ told' \in [Connection -> Seq(Decision)]
    BY <1>6, <2>1, SendTypes DEF Respond
  <2> QED
    BY <1>6, <2>2 DEF Respond, Served, TypeOK, tableVars
<1>7. CASE WaitReports
  BY <1>7 DEF WaitReports, Reported, TypeOK, tableVars, clientVars
<1>8. CASE ListenerReady
  BY <1>8 DEF ListenerReady, TypeOK, tableVars, clientVars
<1> QED
  BY <1>1, <1>2, <1>3, <1>4, <1>5, <1>6, <1>7, <1>8 DEF Round

LEMMA StatementTypes ==
  ASSUME TypeOK, Statement
  PROVE  TypeOK'
<1>1. ASSUME NEW success \in BOOLEAN, NEW fault \in BOOLEAN, HandleCommand(success, fault)
      PROVE  TypeOK'
  <2>1. command \in Command
    BY <1>1 DEF HandleCommand, TypeOK
  <2>2. RegisterUser(command, success, fault) \/ LoginUser(command, success, fault)
    BY <1>1 DEF HandleCommand
  <2>3. decision' \in Decision
    BY <1>1, <2>1 DEF HandleCommand, Decision, Answer
  <2> QED
    BY <1>1, <2>1, <2>2, <2>3, TableTypes, NoneIsNone DEF HandleCommand, TypeOK, clientVars
<1>2. CASE NullConnection
  BY <1>2, DieTypes DEF NullConnection
<1> QED
  BY <1>1, <1>2 DEF Statement

LEMMA TypesStep == TypeOK /\ [Next]_vars => TypeOK'
<1> SUFFICES ASSUME TypeOK, [Next]_vars PROVE TypeOK'
  OBVIOUS
<1>1. CASE ConnectionBreaks
  BY <1>1 DEF ConnectionBreaks, TypeOK, serverVars, clientVars
<1>2. CASE Killed
  BY <1>2, DieTypes DEF Killed
<1>3. CASE Restart
  BY <1>3, BoundAssumption DEF Restart, ConnectDatabase, TypeOK, clientVars
<1>4. CASE WaitElapses \/ Over \/ UNCHANGED vars
  BY <1>4 DEF WaitElapses, Over, TypeOK, vars
<1>5. CASE AcceptFails \/ RunEnds
  BY <1>5 DEF AcceptFails, RunEnds, TypeOK, tableVars, clientVars
<1> QED
  BY <1>1, <1>2, <1>3, <1>4, <1>5, ClientTypes, RoundTypes, StatementTypes DEF Next

\* TypeOK.
THEOREM TypeCorrect == Spec => []TypeOK
<1>1. Init => TypeOK
  BY EmptySeq, BoundAssumption, RoomAssumption DEF Init, ConnectDatabase, TypeOK
<1> QED
  BY <1>1, TypesStep, PTL DEF Spec

-----------------------------------------------------------------------------
(* Owners. *)

\* What a client is told of its password holds of the table.
Honest(table, x) ==
  x.answer \in {"REGISTER_OK", "LOGIN_OK"} =>
    /\ x.of.nick \in Nickname /\ x.of.pass \in Password
    /\ table[x.of.nick] = generateHash(x.of.pass)

Registers(x, n) == x.answer = "REGISTER_OK" /\ x.of.nick = n

ToldHonest == \A c \in Connection : \A i \in DOMAIN told[c] : Honest(users, told[c][i])

\* No decision of those told so far gave away the nickname that x gives away.
FirstToRegister(x) ==
  \A c \in Connection : \A i \in DOMAIN told[c] :
    \A n \in Nickname : ~(Registers(told[c][i], n) /\ Registers(x, n))

RegisteredOnce ==
  \A c, d \in Connection : \A i \in DOMAIN told[c], j \in DOMAIN told[d] :
    \A n \in Nickname :
      Registers(told[c][i], n) /\ Registers(told[d][j], n) => c = d /\ i = j

\* What is decided and not told yet.
DecisionHonest == decision # None => Honest(users, decision) /\ FirstToRegister(decision)

OwnerInv == ToldHonest /\ RegisteredOnce /\ DecisionHonest

LEMMA QuietStep ==
  ASSUME OwnerInv, UNCHANGED <<told, users>>, decision' = decision \/ decision' = None
  PROVE  OwnerInv'
BY DEF OwnerInv, ToldHonest, RegisteredOnce, DecisionHonest, FirstToRegister

\* A row is never replaced, and a success is what the row says.
LEMMA TableStep ==
  ASSUME TypeOK, NEW success \in BOOLEAN, NEW fault \in BOOLEAN,
         HandleCommand(success, fault)
  PROVE  /\ \A n \in Nickname : users[n] # None => users'[n] = users[n]
         /\ Honest(users', decision')
         /\ \A n \in Nickname : Registers(decision', n) => users[n] = None
<1>1. command \in Command
  BY DEF HandleCommand, TypeOK
<1>2. CASE command.command = "REGISTER"
  <2>1. RegisterUser(command, success, fault)
        /\ decision' = [of |-> command, fault |-> fault,
                        answer |-> IF success THEN "REGISTER_OK" ELSE "REGISTER_FAIL"]
    BY <1>2 DEF HandleCommand
  <2>2. CASE UNCHANGED users /\ ~success
    BY <2>1, <2>2 DEF Honest, Registers
  <2>3. CASE ~Missing(command) /\ Insert(command)
    BY <1>1, <2>1, <2>3, CommandFields DEF Insert, Honest, Registers, TypeOK
  <2> QED
    BY <2>1, <2>2, <2>3 DEF RegisterUser, tableVars
<1>3. CASE command.command = "LOGIN"
  <2>1. LoginUser(command, success, fault) /\ users' = users
        /\ decision' = [of |-> command, fault |-> fault,
                        answer |-> IF success THEN "LOGIN_OK" ELSE "LOGIN_FAIL"]
    BY <1>3 DEF HandleCommand, LoginUser
  <2>2. CASE ~success
    BY <2>1, <2>2 DEF Honest, Registers
  <2>3. CASE ~Missing(command) /\ users[command.nick] = generateHash(command.pass)
    BY <1>1, <2>1, <2>3, CommandFields DEF Honest, Registers
  <2> QED
    BY <2>1, <2>2, <2>3 DEF LoginUser, validatePassword
<1> QED
  BY <1>1, <1>2, <1>3, CommandFields

LEMMA HandleOwners ==
  ASSUME TypeOK, OwnerInv, NEW success \in BOOLEAN, NEW fault \in BOOLEAN,
         HandleCommand(success, fault)
  PROVE  OwnerInv'
<1>1. told' = told
  BY DEF HandleCommand
<1>2. ASSUME NEW c \in Connection, NEW i \in DOMAIN told[c],
             told[c][i].answer \in {"REGISTER_OK", "LOGIN_OK"}
      PROVE  /\ told[c][i].of.nick \in Nickname /\ told[c][i].of.pass \in Password
             /\ users[told[c][i].of.nick] = generateHash(told[c][i].of.pass)
             /\ users[told[c][i].of.nick] # None
  BY <1>2, NoneIsNone DEF OwnerInv, ToldHonest, Honest
<1>3. ToldHonest'
  BY <1>1, <1>2, TableStep DEF ToldHonest, Honest
<1>4. FirstToRegister(decision)'
  BY <1>1, <1>2, TableStep DEF FirstToRegister, Registers
<1> QED
  BY <1>1, <1>3, <1>4, TableStep DEF OwnerInv, DecisionHonest, RegisteredOnce

LEMMA RespondOwners ==
  ASSUME TypeOK, OwnerInv, NEW c \in Connection, Respond(c)
  PROVE  OwnerInv'
<1>1. decision \in Decision /\ decision # None /\ decision' = None /\ users' = users
  BY DEF Respond, TypeOK, tableVars
<1>2. CASE told' = told
  BY <1>1, <1>2, QuietStep
<1>3. CASE told' = [told EXCEPT ![c] = Append(@, decision)]
  <2>1. told[c] \in Seq(Decision)
    BY DEF TypeOK
  <2>2. PICK s \in Seq(Decision) : s = Append(told[c], decision)
    BY <1>1, <2>1, AppendProperties
  <2>3. /\ DOMAIN told[c] = 1..Len(told[c]) /\ Len(told[c]) \in Nat
        /\ DOMAIN s = 1..(Len(told[c]) + 1)
        /\ \A i \in 1..Len(told[c]) : s[i] = told[c][i]
        /\ s[Len(told[c]) + 1] = decision
    BY <1>1, <2>1, <2>2, AppendProperties, LenProperties
  <2>4. told'[c] = s /\ \A d \in Connection \ {c} : told'[d] = told[d]
    BY <1>3, <2>2 DEF TypeOK
  <2>5. \A d \in Connection : \A i \in DOMAIN told'[d] :
          \/ i \in DOMAIN told[d] /\ told'[d][i] = told[d][i]
          \/ d = c /\ i = Len(told[c]) + 1 /\ told'[d][i] = decision
    BY <2>3, <2>4
  <2>6. Honest(users, decision) /\ FirstToRegister(decision)
    BY <1>1 DEF OwnerInv, DecisionHonest
  <2>7. ToldHonest'
    BY <1>1, <2>5, <2>6 DEF OwnerInv, ToldHonest
  <2>8. RegisteredOnce'
    BY <2>5, <2>6 DEF OwnerInv, RegisteredOnce, FirstToRegister
  <2> QED
    BY <1>1, <2>7, <2>8 DEF OwnerInv, DecisionHonest
<1> QED
  BY <1>2, <1>3 DEF Respond, SendWhole, SendPart, SendNothing

LEMMA OwnerStep == TypeOK /\ OwnerInv /\ [Next]_vars => OwnerInv'
<1> SUFFICES ASSUME TypeOK, OwnerInv, [Next]_vars PROVE OwnerInv'
  OBVIOUS
<1>1. CASE Client
  <2>1. UNCHANGED <<told, users, decision>>
    BY <1>1 DEF Client, Connect, ReadAnswer, Leave, Send, tableVars, serverVars
  <2> QED
    BY <2>1, QuietStep
<1>2. ASSUME NEW c \in Connection,
             \/ AcceptNewConnection(c) \/ AcceptAborted(c)
             \/ ReceiveNothing(c) \/ ReceiveOther(c) \/ ReceiveData(c)
      PROVE  OwnerInv'
  <2>1. UNCHANGED <<told, users, decision>>
    BY <1>2 DEF AcceptNewConnection, AcceptAborted, ReceiveNothing, ReceiveOther,
                ReceiveData, tableVars
  <2> QED
    BY <2>1, QuietStep
<1>3. CASE ListenerReady \/ AcceptFails \/ WaitReports \/ ConnectionBreaks \/ WaitElapses
           \/ RunEnds \/ Restart \/ Over \/ UNCHANGED vars
  <2>1. UNCHANGED <<told, users, decision>>
    BY <1>3 DEF ListenerReady, AcceptFails, RunEnds, WaitReports, ConnectionBreaks, WaitElapses, Restart, Over, tableVars,
                serverVars, vars
  <2> QED
    BY <2>1, QuietStep
<1>4. CASE NullConnection \/ Killed
  <2>1. UNCHANGED <<told, users>> /\ decision' = None
    BY <1>4 DEF NullConnection, Killed, Die
  <2> QED
    BY <2>1, QuietStep
<1>5. CASE Round \/ Statement
  BY <1>2, <1>3, <1>4, <1>5, HandleOwners, RespondOwners DEF Round, Statement
<1> QED
  BY <1>1, <1>3, <1>4, <1>5 DEF Next

LEMMA OwnersFollow == TypeOK /\ OwnerInv => OneOwner
<1> SUFFICES ASSUME TypeOK, OwnerInv, NEW c \in Connection, NEW d \in Connection,
                    NEW i \in DOMAIN told[c], NEW j \in DOMAIN told[d],
                    told[c][i].answer = "REGISTER_OK",
                    told[c][i].of.nick = told[d][j].of.nick
             PROVE  /\ told[d][j].answer = "REGISTER_OK" => c = d /\ i = j
                    /\ told[d][j].answer = "LOGIN_OK" =>
                         told[d][j].of.pass = told[c][i].of.pass
  BY DEF OneOwner
<1>1. told[c][i].of.nick \in Nickname
      /\ users[told[c][i].of.nick] = generateHash(told[c][i].of.pass)
  BY DEF OwnerInv, ToldHonest, Honest
<1>2. ASSUME told[d][j].answer = "LOGIN_OK"
      PROVE  told[d][j].of.pass = told[c][i].of.pass
  <2>1. users[told[d][j].of.nick] = generateHash(told[d][j].of.pass)
    BY <1>2 DEF OwnerInv, ToldHonest, Honest
  <2> QED
    BY <1>1, <2>1 DEF generateHash
<1> QED
  BY <1>1, <1>2 DEF OwnerInv, RegisteredOnce, Registers

\* OneOwner: across lost answers, a broken database and any number of restarts,
\* a nickname is registered once, and only its password logs in.
THEOREM OwnersKept == Spec => []OneOwner
<1>1. Init => OwnerInv
  BY DEF Init, OwnerInv, ToldHonest, RegisteredOnce, DecisionHonest
<1>2. Spec => []OwnerInv
  BY <1>1, OwnerStep, TypeCorrect, PTL DEF Spec
<1> QED
  BY <1>2, OwnersFollow, TypeCorrect, PTL

-----------------------------------------------------------------------------
(* The promise to clients: what stands for the variables of Accounts. *)

Account == [n \in Nickname |-> IF users[n] = None THEN None ELSE users[n].hashOf]
Asked ==
  [c \in Connection |->
     IF serverPc = "handle" /\ Turn(c) THEN <<command>> \o inbox[c] ELSE inbox[c]]
Decided ==
  [c \in Connection |-> IF serverPc = "respond" /\ Turn(c) THEN decision ELSE None]
Legible == [c \in Connection |-> c \notin torn]

\* A command in hand belongs to a client; a process that is down has no clients.
HandInv ==
  /\ serverPc \in {"handle", "respond"} => \E c \in Connection : Turn(c)
  /\ serverPc = "down" =>
       backlog = {} /\ clients = <<>> /\ inbox = [c \in Connection |-> <<>>]

LEMMA TurnStays ==
  ASSUME UNCHANGED <<ready, clients>>
  PROVE  \A c : Turn(c)' <=> Turn(c)
BY DEF Turn

LEMMA TurnIsOne ==
  ASSUME TypeOK, NEW c, NEW d, Turn(c), Turn(d)
  PROVE  c = d
<1>1. PICK i \in DOMAIN clients :
        clients[i] = c /\ \A k \in 1..(i - 1) : clients[k] \notin ready
  BY DEF Turn
<1>2. PICK j \in DOMAIN clients :
        clients[j] = d /\ \A k \in 1..(j - 1) : clients[k] \notin ready
  BY DEF Turn
<1>3. i \in Nat /\ j \in Nat /\ i >= 1 /\ j >= 1
  BY LenProperties, SMTT(30) DEF TypeOK
<1>4. ~(i < j) /\ ~(j < i)
  BY <1>1, <1>2, <1>3 DEF Turn
<1> QED
  BY <1>1, <1>2, <1>3, <1>4

LEMMA HandStep == TypeOK /\ HandInv /\ [Next]_vars => HandInv'
<1> SUFFICES ASSUME TypeOK, HandInv, [Next]_vars PROVE HandInv'
  OBVIOUS
<1>1. CASE Client
  <2>1. UNCHANGED <<serverPc, ready, clients>>
    BY <1>1 DEF Client, Connect, ReadAnswer, Leave, Send, serverVars
  <2>2. serverPc = "down" => UNCHANGED <<backlog, inbox>>
    BY <1>1, EmptySeq DEF Client, Connect, ReadAnswer, Leave, Send, serverVars, clientVars,
      HandInv, Connected, Accepted
  <2> QED
    BY <2>1, <2>2, TurnStays DEF HandInv
<1>2. ASSUME NEW c \in Connection,
             \/ AcceptNewConnection(c) \/ AcceptAborted(c)
             \/ ReceiveNothing(c) \/ ReceiveOther(c) \/ Respond(c)
      PROVE  HandInv'
  <2>1. serverPc' \in {"wait", "serve"}
    BY <1>2 DEF AcceptNewConnection, AcceptAborted, ReceiveNothing, ReceiveOther, Respond,
                Served
  <2> QED
    BY <2>1 DEF HandInv
<1>3. ASSUME NEW c \in Connection, ReceiveData(c) PROVE HandInv'
  <2>1. Turn(c) /\ serverPc' = "handle" /\ UNCHANGED <<ready, clients>>
    BY <1>3 DEF ReceiveData
  <2> QED
    BY <2>1, TurnStays DEF HandInv
<1>4. CASE WaitReports \/ ListenerReady \/ AcceptFails \/ RunEnds
  BY <1>4 DEF WaitReports, ListenerReady, AcceptFails, RunEnds, HandInv
<1>5. ASSUME NEW success \in BOOLEAN, NEW fault \in BOOLEAN, HandleCommand(success, fault)
      PROVE  HandInv'
  <2>1. serverPc = "handle" /\ serverPc' = "respond" /\ UNCHANGED <<ready, clients>>
    BY <1>5 DEF HandleCommand
  <2> QED
    BY <2>1, TurnStays DEF HandInv
<1>6. CASE NullConnection \/ Killed
  BY <1>6 DEF NullConnection, Killed, Die, HandInv
<1>7. CASE Restart
  BY <1>7 DEF Restart, HandInv
<1>8. CASE ConnectionBreaks \/ WaitElapses \/ Over \/ UNCHANGED vars
  <2>1. UNCHANGED <<serverPc, ready, clients, backlog, inbox>>
    BY <1>8 DEF ConnectionBreaks, WaitElapses, Over, vars, serverVars, clientVars
  <2> QED
    BY <2>1, TurnStays DEF HandInv
<1> QED
  BY <1>1, <1>2, <1>3, <1>4, <1>5, <1>6, <1>7, <1>8
     DEF Next, Round, Statement

\* With one in hand, it is the first thing its client asks.
LEMMA InHand ==
  ASSUME TypeOK, NEW c \in Connection, Turn(c)
  PROVE  /\ serverPc = "handle" =>
              /\ Asked[c] = <<command>> \o inbox[c]
              /\ \A d \in Connection \ {c} : Asked[d] = inbox[d]
              /\ Decided = [d \in Connection |-> None]
         /\ serverPc = "respond" =>
              /\ Asked = inbox
              /\ Decided[c] = decision
              /\ \A d \in Connection \ {c} : Decided[d] = None
<1>1. \A d \in Connection \ {c} : ~Turn(d)
  BY TurnIsOne
<1> QED
  BY <1>1 DEF Asked, Decided, TypeOK

LEMMA SameTable ==
  ASSUME UNCHANGED <<users, torn>>
  PROVE  UNCHANGED <<Account, Legible>>
BY DEF Account, Legible

LEMMA SameHand ==
  ASSUME UNCHANGED <<serverPc, ready, clients, command, decision>>
  PROVE  /\ UNCHANGED Decided
         /\ UNCHANGED inbox => UNCHANGED Asked
BY TurnStays DEF Decided, Asked

\* One command before others.
LEMMA OneBefore ==
  ASSUME NEW S, NEW m \in S, NEW s \in Seq(S)
  PROVE  /\ <<m>> \o s \in Seq(S) /\ <<m>> \o s # <<>>
         /\ Head(<<m>> \o s) = m /\ Tail(<<m>> \o s) = s
         /\ \A e \in S : Append(<<m>> \o s, e) = <<m>> \o Append(s, e)
         /\ SubSeq(<<m>> \o s, 1, 1) = <<m>>
         /\ <<m>> \o <<>> = <<m>>
<1>a. <<m>> \in Seq(S) /\ Len(<<m>>) = 1 /\ <<m>>[1] = m
  OBVIOUS
<1>1. PICK one \in Seq(S) : one = <<m>> /\ Len(one) = 1 /\ one[1] = m
  BY <1>a
<1>2. PICK t \in Seq(S) : t = one \o s
  BY ConcatProperties
<1>3. /\ Len(t) = 1 + Len(s) /\ Len(s) \in Nat /\ t[1] = m
      /\ \A i \in 1..Len(s) : t[i + 1] = s[i]
  BY <1>1, <1>2, ConcatProperties, LenProperties
<1>4. t # <<>> /\ Head(t) = m
  BY <1>3, EmptySeq
<1>5. Tail(t) = s
  BY <1>3, <1>4, HeadTailProperties, SeqEqual
<1>6. ASSUME NEW e \in S PROVE Append(t, e) = one \o Append(s, e)
  <2>1. <<e>> \in Seq(S)
    OBVIOUS
  <2>2. Append(t, e) = t \o <<e>>
    BY AppendIsConcat
  <2>3. Append(s, e) = s \o <<e>>
    BY AppendIsConcat
  <2>4. (one \o s) \o <<e>> = one \o (s \o <<e>>)
    BY <2>1, ConcatAssociative
  <2> QED
    BY <1>2, <2>2, <2>3, <2>4
<1>7. SubSeq(t, 1, 1) = one
  <2>1. \A i \in 1..1 : t[i] \in S
    BY <1>3
  <2>2. /\ SubSeq(t, 1, 1) \in Seq(S) /\ Len(SubSeq(t, 1, 1)) = 1
        /\ \A i \in 1..1 : SubSeq(t, 1, 1)[i] = t[i]
    BY <2>1, SubSeqProperties
  <2>3. PICK u \in Seq(S) : u = SubSeq(t, 1, 1)
    BY <2>2
  <2>4. Len(u) = Len(one) /\ \A i \in 1..Len(u) : u[i] = one[i]
    BY <1>1, <1>3, <2>2, <2>3
  <2>5. u = one
    BY <2>4, SeqEqual
  <2> QED
    BY <2>3, <2>5
<1>8. one \o <<>> = one
  BY ConcatEmptySeq
<1> QED
  BY <1>1, <1>2, <1>4, <1>5, <1>6, <1>7, <1>8

-----------------------------------------------------------------------------
(* Every step is one that was promised, or none. *)

PromiseStep == [Promise!AccountsNext]_Promise!accountVars

LEMMA NoStep ==
  ASSUME UNCHANGED <<Account, Asked, Decided, told, Legible>>
  PROVE  PromiseStep
BY DEF PromiseStep, Promise!accountVars, Account, Asked, Decided, Legible

LEMMA AskStep ==
  ASSUME NEW c \in Connection, NEW m \in Offered,
         Asked' = [Asked EXCEPT ![c] = Append(@, m)],
         UNCHANGED <<Account, Decided, told, Legible>>
  PROVE  PromiseStep
<1>1. Promise!Ask(c, m)
  BY DEF Promise!Ask, Account, Asked, Decided, Legible
<1> QED
  BY <1>1 DEF PromiseStep, Promise!AccountsNext

LEMMA IgnoreStep ==
  ASSUME NEW c \in Connection,
         Decided[c] = None, Asked[c] # <<>>, Head(Asked[c]) = Unreadable,
         Asked' = [Asked EXCEPT ![c] = Tail(@)],
         UNCHANGED <<Account, Decided, told, Legible>>
  PROVE  PromiseStep
<1>1. Promise!Ignore(c)
  BY DEF Promise!Ignore, Account, Asked, Decided, Legible, Unreadable, Promise!Unreadable
<1> QED
  BY <1>1 DEF PromiseStep, Promise!AccountsNext

LEMMA MissStep ==
  ASSUME NEW c \in Connection, Decided[c] # None,
         Decided' = [Decided EXCEPT ![c] = None],
         torn' \in {torn, torn \cup {c}, torn \ {c}},
         UNCHANGED <<Account, Asked, told>>
  PROVE  PromiseStep
<1>1. PICK after \in BOOLEAN : Legible' = [Legible EXCEPT ![c] = after]
  <2>1. (c \notin torn') \in BOOLEAN
    OBVIOUS
  <2>2. Legible' = [Legible EXCEPT ![c] = c \notin torn']
    BY DEF Legible
  <2> QED
    BY <2>1, <2>2
<1>2. Promise!Miss(c)
  BY <1>1 DEF Promise!Miss, Account, Asked, Decided, Legible
<1> QED
  BY <1>2 DEF PromiseStep, Promise!AccountsNext

LEMMA TellStep ==
  ASSUME NEW c \in Connection, Decided[c] # None, c \notin torn,
         told' = [told EXCEPT ![c] = Append(@, Decided[c])],
         Decided' = [Decided EXCEPT ![c] = None],
         UNCHANGED <<Account, Asked, Legible>>
  PROVE  PromiseStep
<1>1. Promise!Tell(c)
  BY DEF Promise!Tell, Account, Asked, Decided, Legible
<1> QED
  BY <1>1 DEF PromiseStep, Promise!AccountsNext

LEMMA LoseStep ==
  ASSUME NEW c \in Connection, NEW n \in 0..Len(Asked[c]),
         Asked' = [Asked EXCEPT ![c] = SubSeq(@, 1, n)],
         UNCHANGED <<Account, Decided, told, Legible>>
  PROVE  PromiseStep
<1>1. Promise!Lose(c)
  BY DEF Promise!Lose, Account, Asked, Decided, Legible
<1> QED
  BY <1>1 DEF PromiseStep, Promise!AccountsNext

LEMMA RestartStep ==
  ASSUME Asked' = [c \in Connection |-> <<>>], Decided' = [c \in Connection |-> None],
         UNCHANGED <<Account, told, Legible>>
  PROVE  PromiseStep
<1>1. Promise!Restart
  BY DEF Promise!Restart, Account, Asked, Decided, Legible
<1> QED
  BY <1>1 DEF PromiseStep, Promise!AccountsNext

LEMMA DecideStep ==
  ASSUME NEW c \in Connection, NEW m, NEW answer \in Answer, NEW fault \in BOOLEAN,
         Decided[c] = None, Asked[c] # <<>>, m = Head(Asked[c]),
         \/ m.command = "REGISTER" /\ Promise!Register(m, answer, fault)
         \/ m.command = "LOGIN" /\ Promise!Login(m, answer, fault),
         Decided' = [Decided EXCEPT ![c] = [of |-> m, answer |-> answer, fault |-> fault]],
         Asked' = [Asked EXCEPT ![c] = Tail(@)],
         UNCHANGED <<told, Legible>>
  PROVE  PromiseStep
<1>1. Promise!Decide(c, answer, fault)
  BY DEF Promise!Decide, Asked, Decided, Legible
<1> QED
  BY <1>1 DEF PromiseStep, Promise!AccountsNext, Answer, Promise!Answer

LEMMA ClientPromise ==
  ASSUME TypeOK, Client
  PROVE  PromiseStep
<1>1. UNCHANGED <<users, torn, told, serverPc, ready, clients, command, decision>>
  BY DEF tableVars, clientVars, Client, Connect, Send, ReadAnswer, Leave, serverVars
<1>2. UNCHANGED <<Account, Legible, Decided, told>>
  BY <1>1, SameTable, SameHand
<1>3. CASE UNCHANGED inbox
  BY <1>1, <1>2, <1>3, SameHand, NoStep
<1>4. ASSUME NEW c \in Connection, NEW m \in Offered, Send(c, m) PROVE PromiseStep
  <2>1. m \in Command \cup {Unreadable}
    BY OfferedAssumption
  <2>2. inbox[c] \in Seq(Command \cup {Unreadable})
    BY DEF TypeOK
  <2>3. inbox' = [inbox EXCEPT ![c] = Append(@, m)]
    BY <1>4 DEF Send
  <2>4. \A d \in Connection \ {c} : Asked'[d] = Asked[d]
    BY <1>1, <2>3, TurnStays DEF Asked, TypeOK
  <2>5. Asked'[c] = Append(Asked[c], m)
    <3>1. CASE serverPc = "handle" /\ Turn(c)
      <4>1. command \in Command \cup {Unreadable}
        BY <3>1 DEF TypeOK
      <4>2. Asked[c] = <<command>> \o inbox[c] /\ Asked'[c] = <<command>> \o inbox'[c]
        BY <1>1, <3>1, TurnStays DEF Asked
      <4>3. inbox'[c] = Append(inbox[c], m)
        BY <2>3 DEF TypeOK
      <4>4. Append(<<command>> \o inbox[c], m) = <<command>> \o Append(inbox[c], m)
        BY <2>1, <2>2, <4>1, OneBefore
      <4> QED
        BY <4>2, <4>3, <4>4
    <3>2. CASE ~(serverPc = "handle" /\ Turn(c))
      BY <1>1, <2>3, <3>2, TurnStays DEF Asked, TypeOK
    <3> QED
      BY <3>1, <3>2
  <2>6. Asked' = [Asked EXCEPT ![c] = Append(@, m)]
    BY <2>4, <2>5 DEF Asked
  <2> QED
    BY <1>2, <2>1, <2>6, AskStep
<1>5. ASSUME NEW c \in Connection, Leave(c), inbox' = [inbox EXCEPT ![c] = <<>>]
      PROVE  PromiseStep
  <2>1. inbox[c] \in Seq(Command \cup {Unreadable})
    BY DEF TypeOK
  <2>2. inbox'[c] = <<>>
    BY <1>5 DEF TypeOK
  <2>3. \A d \in Connection \ {c} : Asked'[d] = Asked[d]
    BY <1>1, <1>5, TurnStays DEF Asked, TypeOK
  <2>4. PICK n \in 0..Len(Asked[c]) : Asked'[c] = SubSeq(Asked[c], 1, n)
    <3>1. CASE serverPc = "handle" /\ Turn(c)
      <4>1. command \in Command \cup {Unreadable}
        BY <3>1 DEF TypeOK
      <4>2. Asked[c] = <<command>> \o inbox[c] /\ Asked'[c] = <<command>> \o <<>>
        BY <1>1, <2>2, <3>1, TurnStays DEF Asked
      <4>3. Asked'[c] = SubSeq(Asked[c], 1, 1)
        BY <2>1, <4>1, <4>2, OneBefore
      <4>4. Asked[c] \in Seq(Command \cup {Unreadable}) /\ Asked[c] # <<>>
        BY <2>1, <4>1, <4>2, OneBefore
      <4>5. 1 \in 0..Len(Asked[c])
        BY <4>4, EmptySeq
      <4> QED
        BY <4>3, <4>5
    <3>2. CASE ~(serverPc = "handle" /\ Turn(c))
      <4>1. Asked[c] = inbox[c] /\ Asked'[c] = <<>>
        BY <1>1, <2>2, <3>2, TurnStays DEF Asked
      <4>2. SubSeq(Asked[c], 1, 0) = <<>>
        BY SubSeqEmpty
      <4>3. 0 \in 0..Len(Asked[c])
        BY <2>1, <4>1, LenProperties
      <4> QED
        BY <4>1, <4>2, <4>3
    <3> QED
      BY <3>1, <3>2
  <2>5. Asked' = [Asked EXCEPT ![c] = SubSeq(@, 1, n)]
    BY <2>3, <2>4 DEF Asked
  <2> QED
    BY <1>2, <2>5, LoseStep
<1> QED
  BY <1>3, <1>4, <1>5 DEF Client, Connect, ReadAnswer, Leave, clientVars

LEMMA RoundPromise ==
  ASSUME TypeOK, TypeOK', NEW c \in Connection,
         \/ AcceptNewConnection(c) \/ AcceptAborted(c)
         \/ ReceiveNothing(c) \/ ReceiveOther(c)
  PROVE  PromiseStep
<1>1. UNCHANGED <<users, torn, told>>
  BY DEF AcceptNewConnection, AcceptAborted, ReceiveNothing, ReceiveOther, tableVars,
         clientVars
<1>2. serverPc \in {"accept", "serve"} /\ serverPc' \in {"wait", "serve"}
  BY DEF AcceptNewConnection, AcceptAborted, ReceiveNothing, ReceiveOther, Served
<1>3. /\ Asked = inbox /\ Asked' = inbox'
      /\ Decided = [d \in Connection |-> None] /\ Decided' = [d \in Connection |-> None]
  BY <1>2 DEF Asked, Decided, TypeOK
<1>4. UNCHANGED <<Account, Legible, Decided, told>>
  BY <1>1, <1>3, SameTable
<1>5. CASE UNCHANGED inbox
  BY <1>3, <1>4, <1>5, NoStep
<1>6. CASE ReceiveOther(c)
  BY <1>3, <1>4, <1>6, IgnoreStep DEF ReceiveOther
<1> QED
  BY <1>5, <1>6 DEF AcceptNewConnection, AcceptAborted, ReceiveNothing, clientVars

LEMMA ReceivePromise ==
  ASSUME TypeOK, TypeOK', NEW c \in Connection, ReceiveData(c)
  PROVE  PromiseStep
<1>1. /\ UNCHANGED <<users, torn, told, ready, clients>>
      /\ serverPc = "serve" /\ serverPc' = "handle" /\ Turn(c)
      /\ inbox[c] # <<>> /\ command' = Head(inbox[c])
      /\ inbox' = [inbox EXCEPT ![c] = Tail(@)]
  BY DEF ReceiveData, tableVars
<1>2. Asked = inbox /\ Decided = [d \in Connection |-> None]
  BY <1>1 DEF Asked, Decided, TypeOK
<1>3. Turn(c)' /\ \A d \in Connection \ {c} : ~Turn(d)'
  BY <1>1, TurnStays, TurnIsOne
<1>4. Decided' = Decided
  BY <1>1, <1>2 DEF Decided
<1>5. \A d \in Connection \ {c} : Asked'[d] = inbox[d]
  BY <1>1, <1>3 DEF Asked, TypeOK
<1>6. Asked'[c] = <<Head(inbox[c])>> \o Tail(inbox[c])
  BY <1>1, <1>3 DEF Asked, TypeOK
<1>7. <<Head(inbox[c])>> \o Tail(inbox[c]) = inbox[c]
  <2>1. PICK s \in Seq(Command \cup {Unreadable}) : s = inbox[c]
    BY DEF TypeOK
  <2>2. s # <<>>
    BY <1>1, <2>1
  <2>3. /\ Head(s) \in Command \cup {Unreadable} /\ Head(s) = s[1]
        /\ Tail(s) \in Seq(Command \cup {Unreadable})
        /\ Len(Tail(s)) = Len(s) - 1 /\ Len(s) \in Nat /\ Len(s) >= 1
        /\ \A i \in 1..Len(Tail(s)) : Tail(s)[i] = s[i + 1]
    BY <2>2, HeadTailProperties, LenProperties, EmptySeq
  <2>4. /\ <<Head(s)>> \in Seq(Command \cup {Unreadable})
        /\ Len(<<Head(s)>>) = 1 /\ <<Head(s)>>[1] = Head(s)
    BY <2>3
  <2>5. PICK u \in Seq(Command \cup {Unreadable}) :
          /\ u = <<Head(s)>> \o Tail(s)
          /\ Len(u) = 1 + Len(Tail(s))
          /\ \A i \in 1..(1 + Len(Tail(s))) :
               u[i] = IF i <= 1 THEN Head(s) ELSE Tail(s)[i - 1]
    <3>1. /\ <<Head(s)>> \o Tail(s) \in Seq(Command \cup {Unreadable})
          /\ Len(<<Head(s)>> \o Tail(s)) = Len(<<Head(s)>>) + Len(Tail(s))
          /\ \A i \in 1..(Len(<<Head(s)>>) + Len(Tail(s))) :
               (<<Head(s)>> \o Tail(s))[i] =
                 IF i <= Len(<<Head(s)>>) THEN <<Head(s)>>[i]
                 ELSE Tail(s)[i - Len(<<Head(s)>>)]
      BY <2>3, <2>4, ConcatProperties
    <3> QED
      BY <2>3, <2>4, <3>1
  <2>6. Len(u) = Len(s) /\ \A i \in 1..Len(u) : u[i] = s[i]
    BY <2>3, <2>5
  <2> QED
    BY <2>1, <2>5, <2>6, SeqEqual
<1>8. Asked' = Asked
  BY <1>2, <1>5, <1>6, <1>7 DEF Asked
<1> QED
  BY <1>1, <1>4, <1>8, SameTable, NoStep

LEMMA RespondPromise ==
  ASSUME TypeOK, TypeOK', NEW c \in Connection, Respond(c)
  PROVE  PromiseStep
<1>1. /\ UNCHANGED <<users, inbox>>
      /\ serverPc = "respond" /\ serverPc' \in {"wait", "serve"} /\ Turn(c)
  BY DEF Respond, Served, tableVars
<1>2. /\ Asked = inbox /\ Decided[c] = decision
      /\ \A d \in Connection \ {c} : Decided[d] = None
  BY <1>1, InHand
<1>3. Asked' = inbox' /\ Decided' = [d \in Connection |-> None]
  BY <1>1 DEF Asked, Decided, TypeOK
<1>4. Decided' = [Decided EXCEPT ![c] = None]
  BY <1>2, <1>3 DEF Decided
<1>5. UNCHANGED <<Account, Asked>>
  BY <1>1, <1>2, <1>3 DEF Account
<1>6. decision # None
  BY <1>1 DEF TypeOK
<1>7. CASE /\ c \notin torn /\ UNCHANGED torn
           /\ told' = [told EXCEPT ![c] = Append(@, decision)]
  BY <1>2, <1>4, <1>5, <1>6, <1>7, TellStep DEF Legible
<1>8. CASE told' = told /\ torn' \in {torn, torn \cup {c}, torn \ {c}}
  BY <1>2, <1>4, <1>5, <1>6, <1>8, MissStep
<1> QED
  BY <1>7, <1>8 DEF Respond, SendWhole, SendPart, SendNothing, OutOfStep

LEMMA AccountOfUser ==
  ASSUME TypeOK, NEW n \in Nickname, NEW p \in Password
  PROVE  /\ users[n] = None <=> Account[n] = None
         /\ users[n] = generateHash(p) <=> Account[n] = p
<1>1. \A q \in Password : generateHash(q) # None /\ generateHash(q).hashOf = q /\ q # None
  BY NoneAssumption DEF generateHash
<1>2. users[n] = None \/ \E q \in Password : users[n] = generateHash(q)
  BY DEF TypeOK
<1> QED
  BY <1>1, <1>2 DEF Account

LEMMA CompleteIsNotMissing ==
  ASSUME NEW m \in Command
  PROVE  Promise!Complete(m) <=> ~Missing(m)
BY EmptyAssumption, CommandFields DEF Promise!Complete, Missing

LEMMA RegisterPromise ==
  ASSUME TypeOK, NEW m \in Command, NEW success \in BOOLEAN, NEW fault \in BOOLEAN,
         RegisterUser(m, success, fault)
  PROVE  Promise!Register(m, IF success THEN "REGISTER_OK" ELSE "REGISTER_FAIL", fault)
<1>1. CASE ~Missing(m) /\ Insert(m) /\ success = ~fault
  <2>1. m.nick \in Nickname /\ m.pass \in Password
    BY <1>1, CommandFields
  <2>2. Account[m.nick] = None
    BY <1>1, <2>1, AccountOfUser DEF Insert
  <2>3. users'[m.nick] = generateHash(m.pass)
        /\ \A n \in Nickname \ {m.nick} : users'[n] = users[n]
    BY <1>1, <2>1 DEF Insert, TypeOK
  <2>4. generateHash(m.pass) # None /\ generateHash(m.pass).hashOf = m.pass
    BY <2>1, NoneIsNone DEF generateHash
  <2>5. Account' = [Account EXCEPT ![m.nick] = m.pass]
    BY <2>1, <2>3, <2>4 DEF Account
  <2>6. Promise!Complete(m)
    BY <1>1, CompleteIsNotMissing
  <2> QED
    BY <1>1, <2>2, <2>5, <2>6 DEF Promise!Register, Account
<1>2. CASE ~success /\ UNCHANGED users
  <2>1. Account' = Account
    BY <1>2 DEF Account
  <2>2. ~Missing(m) /\ ~fault => users[m.nick] # None
    BY <1>2 DEF RegisterUser
  <2>3. Promise!Complete(m) /\ ~fault => Account[m.nick] # None
    BY <2>2, CompleteIsNotMissing, AccountOfUser DEF Promise!Complete
  <2> QED
    BY <1>2, <2>1, <2>3 DEF Promise!Register, Account
<1> QED
  BY <1>1, <1>2 DEF RegisterUser, tableVars

LEMMA LoginPromise ==
  ASSUME TypeOK, NEW m \in Command, NEW success \in BOOLEAN, NEW fault \in BOOLEAN,
         LoginUser(m, success, fault)
  PROVE  Promise!Login(m, IF success THEN "LOGIN_OK" ELSE "LOGIN_FAIL", fault)
<1>1. Account' = Account
  BY DEF LoginUser, Account
<1>2. success <=> Promise!Complete(m) /\ ~fault /\ Account[m.nick] = m.pass
  <2>1. CASE Missing(m)
    BY <2>1, CompleteIsNotMissing DEF LoginUser
  <2>2. CASE ~Missing(m)
    <3>1. m.nick \in Nickname /\ m.pass \in Password /\ Promise!Complete(m)
      BY <2>2, CommandFields, CompleteIsNotMissing
    <3>2. users[m.nick] = generateHash(m.pass) <=> Account[m.nick] = m.pass
      BY <3>1, AccountOfUser
    <3>3. generateHash(m.pass) # None
      BY <3>1, NoneIsNone
    <3> QED
      BY <2>2, <3>1, <3>2, <3>3 DEF LoginUser, validatePassword
  <2> QED
    BY <2>1, <2>2
<1> QED
  BY <1>1, <1>2 DEF Promise!Login, Account

LEMMA HandlePromise ==
  ASSUME TypeOK, TypeOK', HandInv, NEW success \in BOOLEAN, NEW fault \in BOOLEAN,
         HandleCommand(success, fault)
  PROVE  PromiseStep
<1>1. /\ serverPc = "handle" /\ serverPc' = "respond"
      /\ UNCHANGED <<inbox, torn, ready, clients, told>>
  BY DEF HandleCommand, clientVars
<1>2. PICK c \in Connection : Turn(c)
  BY <1>1 DEF HandInv
<1>3. PICK m \in Command : m = command
  BY <1>1 DEF TypeOK
<1>4. inbox[c] \in Seq(Command \cup {Unreadable})
  BY DEF TypeOK
<1>5. /\ Asked[c] = <<m>> \o inbox[c] /\ Decided = [d \in Connection |-> None]
      /\ \A d \in Connection \ {c} : Asked[d] = inbox[d]
  BY <1>1, <1>2, <1>3, InHand
<1>6. Asked[c] # <<>> /\ Head(Asked[c]) = m /\ Tail(Asked[c]) = inbox[c]
  BY <1>4, <1>5, OneBefore
<1>7. Asked' = [Asked EXCEPT ![c] = Tail(@)]
  <2>1. Asked' = inbox
    BY <1>1 DEF Asked, TypeOK
  <2> QED
    BY <1>5, <1>6, <2>1 DEF Asked, TypeOK
<1>8. Turn(c)' /\ \A d \in Connection \ {c} : ~Turn(d)'
  BY <1>1, <1>2, TurnStays, TurnIsOne
<1>9. Decided' = [Decided EXCEPT ![c] = decision']
  BY <1>1, <1>5, <1>8 DEF Decided
<1>10. ASSUME NEW answer \in Answer,
              decision' = [of |-> m, answer |-> answer, fault |-> fault],
              \/ m.command = "REGISTER" /\ Promise!Register(m, answer, fault)
              \/ m.command = "LOGIN" /\ Promise!Login(m, answer, fault)
       PROVE  PromiseStep
  BY <1>1, <1>5, <1>6, <1>7, <1>9, <1>10, DecideStep DEF Legible
<1>11. CASE m.command = "REGISTER"
  <2>1. RegisterUser(m, success, fault)
        /\ decision' = [of |-> m, fault |-> fault,
                        answer |-> IF success THEN "REGISTER_OK" ELSE "REGISTER_FAIL"]
    BY <1>3, <1>11 DEF HandleCommand
  <2>2. (IF success THEN "REGISTER_OK" ELSE "REGISTER_FAIL") \in Answer
    BY DEF Answer
  <2> QED
    BY <1>10, <1>11, <2>1, <2>2, RegisterPromise
<1>12. CASE m.command = "LOGIN"
  <2>1. LoginUser(m, success, fault)
        /\ decision' = [of |-> m, fault |-> fault,
                        answer |-> IF success THEN "LOGIN_OK" ELSE "LOGIN_FAIL"]
    BY <1>3, <1>12 DEF HandleCommand
  <2>2. (IF success THEN "LOGIN_OK" ELSE "LOGIN_FAIL") \in Answer
    BY DEF Answer
  <2> QED
    BY <1>10, <1>12, <2>1, <2>2, LoginPromise
<1> QED
  BY <1>11, <1>12, CommandFields

LEMMA ProcessPromise ==
  ASSUME TypeOK, TypeOK', HandInv, Die \/ Restart
  PROVE  PromiseStep
<1>1. UNCHANGED <<users, torn, told>>
  BY DEF Die, Restart, clientVars
<1>2. serverPc' \in {"down", "wait"} /\ inbox' = [c \in Connection |-> <<>>]
  BY DEF Die, Restart, HandInv, clientVars
<1>3. Asked' = [c \in Connection |-> <<>>] /\ Decided' = [c \in Connection |-> None]
  BY <1>2 DEF Asked, Decided
<1> QED
  BY <1>1, <1>3, SameTable, RestartStep

LEMMA StepPromised == TypeOK /\ TypeOK' /\ HandInv /\ [Next]_vars => PromiseStep
<1> SUFFICES ASSUME TypeOK, TypeOK', HandInv, [Next]_vars PROVE PromiseStep
  OBVIOUS
<1>1. CASE ConnectionBreaks \/ WaitElapses \/ Over \/ UNCHANGED vars
  <2>1. /\ UNCHANGED <<users, torn>>
        /\ UNCHANGED <<told, serverPc, ready, clients, command, decision, inbox>>
    BY <1>1 DEF ConnectionBreaks, WaitElapses, Over, vars, serverVars, clientVars
  <2> QED
    BY <2>1, SameTable, SameHand, NoStep
<1>3. CASE ListenerReady \/ AcceptFails \/ WaitReports \/ RunEnds
  <2>1. /\ UNCHANGED <<users, torn, told, inbox>>
        /\ serverPc \in {"wait", "accept"}
        /\ serverPc' \in {"wait", "accept", "serve", "stopped"}
    BY <1>3 DEF ListenerReady, AcceptFails, WaitReports, RunEnds, clientVars, tableVars
  <2>2. UNCHANGED <<Asked, Decided>>
    BY <2>1 DEF Asked, Decided
  <2> QED
    BY <2>1, <2>2, SameTable, NoStep
<1>4. CASE NullConnection \/ Killed \/ Restart
  BY <1>4, ProcessPromise DEF NullConnection, Killed
<1>5. CASE Round \/ Statement
  BY <1>3, <1>4, <1>5, RoundPromise, ReceivePromise, RespondPromise, HandlePromise
     DEF Round, Statement
<1> QED
  BY <1>1, <1>3, <1>4, <1>5, ClientPromise DEF Next

\* AnswersAsPromised: LoginServer implements Accounts, for any number of clients,
\* commands and restarts.
THEOREM AnswersKept == Spec => AnswersAsPromised
<1>1. Init => Promise!AccountsInit
  <2> HAVE Init
  <2>1. /\ users = [n \in Nickname |-> None] /\ serverPc = "wait"
        /\ inbox = [c \in Connection |-> <<>>] /\ told = [c \in Connection |-> <<>>]
        /\ torn = {}
    BY DEF Init
  <2> QED
    BY <2>1 DEF Promise!AccountsInit
<1>2. Init => HandInv
  BY DEF Init, HandInv
<1>3. Spec => [](TypeOK /\ HandInv)
  BY <1>2, HandStep, TypeCorrect, PTL DEF Spec
<1> QED
  BY <1>1, <1>3, StepPromised, PTL
     DEF Spec, AnswersAsPromised, Promise!AccountsSpec, PromiseStep

=============================================================================

-------------------------- MODULE ServiceLifecycle --------------------------
(***************************************************************************)
(* Main.cpp and ServiceManager.{h,cpp}, with as much of the three services *)
(* as decides when their threads end: each service runs on a thread of its *)
(* own until it sees that running was cleared, and two of them have a      *)
(* dispatch thread besides (PacketDispatcher).  StopServices joins the     *)
(* services one after the other, the destructor deletes them.              *)
(*                                                                         *)
(* A handler that throws, or a command that reaches the database through a *)
(* null connection, ends the whole process.                                *)
(***************************************************************************)
EXTENDS Naturals, Sequences

\* The services in the order in which they are joined and deleted.
Order == <<"version", "login", "matchmaking">>
Service == {Order[i] : i \in DOMAIN Order}
Dispatching == {"version", "matchmaking"}

VARIABLES
  running,     \* ServiceManager::_running
  mainPc,      \* where main is
  passed,      \* services joined, or deleted, so far
  connected,   \* DatabaseManager::_con is not null
  deleted,     \* the services that have been deleted
  servicePc,   \* where the thread of each service is
  dispatchPc,  \* where the dispatch thread of each service is
  crashed

vars == <<running, mainPc, passed, connected, deleted, servicePc, dispatchPc, crashed>>
mainVars == <<running, mainPc, passed, connected, deleted>>

Init ==
  /\ running = FALSE
  /\ mainPc = "construct" /\ passed = 0
  /\ connected = FALSE
  /\ deleted = {}
  /\ servicePc = [s \in Service |-> "none"]
  /\ dispatchPc = [s \in Service |-> "none"]
  /\ crashed = FALSE

-----------------------------------------------------------------------------
(* The main thread. *)

Main(pc) == mainPc = pc /\ ~crashed /\ UNCHANGED <<dispatchPc, crashed>>

\* The constructor of ServiceManager: ConnectDatabase may fail, and returns
\* all the same.
Construct ==
  /\ Main("construct")
  /\ connected' \in BOOLEAN
  /\ running' = TRUE
  /\ mainPc' = "initialize"
  /\ UNCHANGED <<passed, deleted, servicePc>>

InitializeServices ==
  /\ Main("initialize")
  /\ servicePc' = [s \in Service |-> IF s \in Dispatching THEN "bind" ELSE "test"]
  /\ mainPc' = "wait"
  /\ UNCHANGED <<running, passed, connected, deleted>>

\* Mutant of StopServices: _running is not cleared.
StopServicesUncleared ==
  /\ Main("wait")
  /\ mainPc' = "join"
  /\ UNCHANGED <<running, passed, connected, deleted, servicePc>>

\* A key was pressed: StopServices begins.
StopServices ==
  /\ Main("wait")
  /\ running' = FALSE
  /\ mainPc' = "join"
  /\ UNCHANGED <<passed, connected, deleted, servicePc>>

\* Mutants of JoinService: the services are not waited for; one is joined too
\* many.
JoinNothing ==
  /\ Main("join")
  /\ passed < Len(Order)
  /\ passed' = passed + 1
  /\ UNCHANGED <<running, mainPc, connected, deleted, servicePc>>
JoinPastEnd ==
  /\ Main("join")
  /\ passed < Len(Order) => servicePc[Order[passed + 1]] = "returned"
  /\ passed' = passed + 1
  /\ UNCHANGED <<running, mainPc, connected, deleted, servicePc>>

JoinService ==
  /\ Main("join")
  /\ passed < Len(Order)
  /\ servicePc[Order[passed + 1]] = "returned"
  /\ passed' = passed + 1
  /\ UNCHANGED <<running, mainPc, connected, deleted, servicePc>>

StopServicesReturn ==
  /\ Main("join")
  /\ passed = Len(Order)
  /\ mainPc' = "delete" /\ passed' = 0
  /\ UNCHANGED <<running, connected, deleted, servicePc>>

\* The destructor: its StopServices finds no thread left to join, nor does the
\* destructor of the service's dispatcher.
DeleteService ==
  /\ Main("delete")
  /\ passed < Len(Order)
  /\ deleted' = deleted \cup {Order[passed + 1]}
  /\ passed' = passed + 1
  /\ UNCHANGED <<running, mainPc, connected, servicePc>>

\* main has returned; the connection is closed with the other static objects.
Exit ==
  /\ Main("delete")
  /\ passed = Len(Order)
  /\ mainPc' = "exit"
  /\ connected' = FALSE
  /\ UNCHANGED <<running, passed, deleted, servicePc>>

-----------------------------------------------------------------------------
(* The threads of the services: Run of each of them. *)

Goes(s, from, to) ==
  /\ ~crashed
  /\ servicePc[s] = from
  /\ servicePc' = [servicePc EXCEPT ![s] = to]
  /\ UNCHANGED <<mainVars, crashed>>

\* The port is bound, the handlers are registered and the dispatcher starts ...
Bind(s) ==
  /\ Goes(s, "bind", "test")
  /\ dispatchPc' = [dispatchPc EXCEPT ![s] = "test"]

\* ... or the port is taken, and Run returns at once.
BindFails(s) == Goes(s, "bind", "returned") /\ UNCHANGED dispatchPc

LoopAgain(s) == running /\ Goes(s, "test", "receive") /\ UNCHANGED dispatchPc

LeaveLoop(s) ==
  /\ ~running
  /\ Goes(s, "test", IF s \in Dispatching THEN "stop" ELSE "returned")
  /\ UNCHANGED dispatchPc

\* The socket of matchmaking does not block: with a datagram or without one,
\* the tick follows.
MatchmakingReceive == Goes("matchmaking", "receive", "test") /\ UNCHANGED dispatchPc

\* The socket of the version checker blocks until a datagram comes.
VersionReceive == Goes("version", "receive", "test") /\ UNCHANGED dispatchPc

\* The selector reports a socket, or one second has passed.
LoginWait ==
  /\ \/ Goes("login", "receive", "serve")
     \/ Goes("login", "receive", "test")
  /\ UNCHANGED dispatchPc

\* A connection is accepted, or commands are answered.
LoginServe == Goes("login", "serve", "test") /\ UNCHANGED dispatchPc

\* LOGIN or REGISTER with a nickname and a password calls _con.
LoginWithoutConnection ==
  /\ servicePc["login"] = "serve" /\ ~connected /\ ~crashed
  /\ crashed' = TRUE
  /\ UNCHANGED <<mainVars, servicePc, dispatchPc>>

\* Stop of the dispatcher, which joins the dispatch thread.
StopDispatcher(s) == Goes(s, "stop", "join") /\ UNCHANGED dispatchPc
JoinDispatcher(s) ==
  dispatchPc[s] = "returned" /\ Goes(s, "join", "returned") /\ UNCHANGED dispatchPc

-----------------------------------------------------------------------------
(* The dispatch threads.  Whether a packet is queued is not recorded. *)

Moves(s, from, to) ==
  /\ ~crashed
  /\ dispatchPc[s] = from
  /\ dispatchPc' = [dispatchPc EXCEPT ![s] = to]
  /\ UNCHANGED <<mainVars, servicePc, crashed>>

\* Mutant of DispatchTest: Stop joins the thread without clearing the
\* dispatcher's _running.
DispatchOn(s) == Moves(s, "test", "pop")

\* _running of the dispatcher was cleared by its Stop.
DispatchTest(s) ==
  Moves(s, "test", IF servicePc[s] = "join" THEN "returned" ELSE "pop")
DispatchPop(s) == Moves(s, "pop", "test") \/ Moves(s, "pop", "handler")
HandlerReturns(s) == Moves(s, "handler", "test")

\* std::stoi throws in MATCH_UNIQUE or MATCH_USED.
HandlerThrows ==
  /\ dispatchPc["matchmaking"] = "handler" /\ ~crashed
  /\ crashed' = TRUE
  /\ UNCHANGED <<mainVars, servicePc, dispatchPc>>

-----------------------------------------------------------------------------
MainThread ==
  \/ Construct \/ InitializeServices \/ StopServices \/ JoinService
  \/ StopServicesReturn \/ DeleteService \/ Exit

ServiceThread(s) ==
  \/ Bind(s) \/ BindFails(s)
  \/ LoopAgain(s) \/ LeaveLoop(s)
  \/ StopDispatcher(s) \/ JoinDispatcher(s)

Receiving == MatchmakingReceive \/ VersionReceive \/ LoginWait \/ LoginServe

DispatchThread(s) == DispatchTest(s) \/ DispatchPop(s) \/ HandlerReturns(s)

Crash == LoginWithoutConnection \/ HandlerThrows

Over == (mainPc = "exit" \/ crashed) /\ UNCHANGED vars

Next ==
  \/ MainThread
  \/ \E s \in Service : ServiceThread(s) \/ DispatchThread(s)
  \/ Receiving
  \/ Crash
  \/ Over

Spec == Init /\ [][Next]_vars

(***************************************************************************)
(* The threads keep running, the wait of the selector ends after a second, *)
(* and handlers and commands come to an end.  Nobody has to press the key, *)
(* and no datagram is owed to the version checker.                         *)
(***************************************************************************)
Fairness ==
  /\ WF_vars(JoinService \/ StopServicesReturn \/ DeleteService \/ Exit)
  /\ \A s \in Service : WF_vars(ServiceThread(s)) /\ WF_vars(DispatchThread(s))
  /\ WF_vars(MatchmakingReceive) /\ WF_vars(LoginWait) /\ WF_vars(LoginServe)

FairSpec == Spec /\ Fairness

-----------------------------------------------------------------------------
(* Properties. *)

\* Type correctness of the lifecycle's state.
TypeOK ==
  /\ running \in BOOLEAN /\ connected \in BOOLEAN /\ crashed \in BOOLEAN
  /\ mainPc \in {"construct", "initialize", "wait", "join", "delete", "exit"}
  /\ passed \in 0..Len(Order)
  /\ deleted \subseteq Service
  /\ servicePc \in [Service -> {"none", "bind", "test", "receive", "serve",
                                "stop", "join", "returned"}]
  /\ dispatchPc \in [Service -> {"none", "test", "pop", "handler", "returned"}]

\* No thread runs in a service that the destructor of ServiceManager has
\* deleted, its dispatch thread and a handler it may still be in included, and
\* nobody asks for the database once the connection is closed.
NoUseAfterDelete ==
  /\ \A s \in deleted : servicePc[s] = "returned" /\ dispatchPc[s] \in {"none", "returned"}
  /\ mainPc = "exit" => servicePc["login"] = "returned"

\* The comment on StopServices, "Stops all the services": once the key was
\* pressed, all services end and main gets on.
StopServicesReturns == mainPc = "join" ~> (mainPc = "delete" \/ crashed)

\* It does so while clients keep asking for the version: the receive of the
\* version checker is all that may hold it up.
StopsWhenAsked == WF_vars(VersionReceive) => StopServicesReturns

\* Login and matchmaking end when they are told to, whatever the version
\* checker does; main does not get to join them before the version checker.
OthersEnd ==
  mainPc = "join" ~>
    (crashed \/ \A s \in Service \ {"version"} : servicePc[s] = "returned")
=============================================================================

----------------------- MODULE ServiceLifecycleProofs -----------------------
(***************************************************************************)
(* No thread outlives its service, whatever threads, handlers and crashes  *)
(* do while StopServices joins the services one after the other.           *)
(***************************************************************************)
EXTENDS ServiceLifecycle, TLAPS

LEMMA Services ==
  /\ Len(Order) = 3
  /\ Order[1] = "version" /\ Order[2] = "login" /\ Order[3] = "matchmaking"
  /\ Service = {"version", "login", "matchmaking"}
  /\ \A s \in Service : \E i \in 1..3 : s = Order[i]
<1>1. /\ Len(Order) = 3 /\ DOMAIN Order = 1..3
      /\ Order[1] = "version" /\ Order[2] = "login" /\ Order[3] = "matchmaking"
  BY DEF Order
<1>2. 1..3 = {1, 2, 3}
  OBVIOUS
<1>3. Service = {"version", "login", "matchmaking"}
  BY <1>1, <1>2 DEF Service
<1> QED
  BY <1>1, <1>2, <1>3

-----------------------------------------------------------------------------
(***************************************************************************)
(* The inductive invariant.  A dispatch thread begins and ends between     *)
(* Bind and the end of Run, and login has none.  What was joined has       *)
(* returned, and a service is only deleted when all are joined.            *)
(***************************************************************************)
DispatchEnclosed ==
  /\ \A s \in Service :
       /\ servicePc[s] \in {"none", "bind"} => dispatchPc[s] = "none"
       /\ servicePc[s] = "returned" => dispatchPc[s] \in {"none", "returned"}
  /\ dispatchPc["login"] = "none"
  /\ servicePc["login"] \notin {"bind", "stop", "join"}

NoneYet ==
  mainPc \in {"construct", "initialize"} => \A s \in Service : servicePc[s] = "none"

Joined ==
  /\ mainPc \in {"construct", "initialize", "wait"} => passed = 0
  /\ mainPc = "join" => \A i \in 1..passed : servicePc[Order[i]] = "returned"
  /\ mainPc \in {"delete", "exit"} => \A s \in Service : servicePc[s] = "returned"
  /\ mainPc \notin {"delete", "exit"} => deleted = {}

LifecycleInv == TypeOK /\ DispatchEnclosed /\ NoneYet /\ Joined

LEMMA InitHolds == Init => LifecycleInv
<1> SUFFICES ASSUME Init PROVE LifecycleInv
  OBVIOUS
<1>1. TypeOK
  <2>1. passed \in 0..Len(Order)
    BY Services DEF Init
  <2> QED
    BY <2>1 DEF Init, TypeOK
<1>2. DispatchEnclosed
  BY Services DEF Init, DispatchEnclosed
<1>3. NoneYet /\ Joined
  BY DEF Init, NoneYet, Joined
<1> QED
  BY <1>1, <1>2, <1>3 DEF LifecycleInv

LEMMA MainStep ==
  ASSUME LifecycleInv, MainThread
  PROVE  LifecycleInv'
<1> USE Services DEF LifecycleInv, TypeOK, Main
<1>1. CASE Construct
  BY <1>1 DEF Construct, DispatchEnclosed, NoneYet, Joined
<1>2. CASE InitializeServices
  <2>1. /\ servicePc' = [s \in Service |-> IF s \in Dispatching THEN "bind" ELSE "test"]
        /\ \A s \in Service : dispatchPc[s] = "none"
    BY <1>2 DEF InitializeServices, DispatchEnclosed, NoneYet
  <2>2. TypeOK' /\ DispatchEnclosed'
    BY <1>2, <2>1 DEF InitializeServices, DispatchEnclosed, Dispatching
  <2> QED
    BY <1>2, <2>2 DEF InitializeServices, NoneYet, Joined
<1>3. CASE StopServices
  <2>1. TypeOK' /\ DispatchEnclosed' /\ NoneYet'
    BY <1>3 DEF StopServices, DispatchEnclosed, NoneYet
  <2>2. 1..0 = {}
    OBVIOUS
  <2> QED
    BY <1>3, <2>1, <2>2 DEF StopServices, Joined
<1>4. CASE JoinService
  <2>1. TypeOK' /\ DispatchEnclosed' /\ NoneYet'
    BY <1>4 DEF JoinService, DispatchEnclosed, NoneYet
  <2>2. \A i \in 1..(passed + 1) : i \in 1..passed \/ i = passed + 1
    OBVIOUS
  <2> QED
    BY <1>4, <2>1, <2>2 DEF JoinService, Joined
<1>5. CASE StopServicesReturn
  <2>1. \A s \in Service : servicePc[s] = "returned"
    BY <1>5 DEF StopServicesReturn, Joined
  <2> QED
    BY <1>5, <2>1 DEF StopServicesReturn, DispatchEnclosed, NoneYet, Joined
<1>6. CASE DeleteService
  <2>1. passed + 1 \in 1..3
    BY <1>6 DEF DeleteService
  <2>2. Order[passed + 1] \in Service
    BY <2>1
  <2>3. deleted' = deleted \cup {Order[passed + 1]} /\ passed' = passed + 1
    BY <1>6 DEF DeleteService
  <2>4. UNCHANGED <<running, mainPc, connected, servicePc, dispatchPc, crashed>>
    BY <1>6 DEF DeleteService
  <2>5. \A t : t \in deleted' => t \in Service
    BY <2>2, <2>3, Zenon
  <2>6. TypeOK' /\ DispatchEnclosed' /\ NoneYet'
    BY <2>1, <2>3, <2>4, <2>5 DEF DispatchEnclosed, NoneYet
  <2> QED
    BY <1>6, <2>4, <2>6 DEF DeleteService, Joined
<1>7. CASE Exit
  BY <1>7 DEF Exit, DispatchEnclosed, NoneYet, Joined
<1> QED
  BY <1>1, <1>2, <1>3, <1>4, <1>5, <1>6, <1>7 DEF MainThread

\* A thread that goes on has not returned, so it is not joined yet.
LEMMA GoesKeeps ==
  ASSUME LifecycleInv, NEW s \in Service, NEW from, NEW to, Goes(s, from, to),
         from \notin {"none", "returned"},
         to \in {"test", "receive", "serve", "stop", "join", "returned"},
         s = "login" => to \notin {"stop", "join"},
         dispatchPc' \in [Service -> {"none", "test", "pop", "handler", "returned"}],
         \A r \in Service \ {s} : dispatchPc'[r] = dispatchPc[r],
         s = "login" => dispatchPc'[s] = "none",
         to = "returned" => dispatchPc'[s] \in {"none", "returned"}
  PROVE  LifecycleInv'
<1> USE Services DEF LifecycleInv, TypeOK, Goes, mainVars
<1>1. /\ servicePc'[s] = to
      /\ \A r \in Service \ {s} : servicePc'[r] = servicePc[r]
  OBVIOUS
<1>2. TypeOK'
  OBVIOUS
<1>3. DispatchEnclosed'
  BY <1>1 DEF DispatchEnclosed
<1>4. NoneYet'
  BY DEF NoneYet
<1>5. Joined'
  BY <1>1 DEF Joined
<1> QED
  BY <1>2, <1>3, <1>4, <1>5

LEMMA ServiceStep ==
  ASSUME LifecycleInv, NEW s \in Service, ServiceThread(s)
  PROVE  LifecycleInv'
<1> USE DEF LifecycleInv, TypeOK, DispatchEnclosed
<1>1. CASE Bind(s)
  BY <1>1, GoesKeeps DEF Bind, Goes
<1>2. CASE BindFails(s)
  BY <1>2, GoesKeeps DEF BindFails, Goes
<1>3. CASE LoopAgain(s)
  BY <1>3, GoesKeeps DEF LoopAgain
<1>4. CASE LeaveLoop(s)
  <2>1. /\ dispatchPc' = dispatchPc
        /\ Goes(s, "test", IF s \in Dispatching THEN "stop" ELSE "returned")
        /\ servicePc[s] = "test"
    BY <1>4 DEF LeaveLoop, Goes
  <2>2. CASE s \in Dispatching
    <3>1. Goes(s, "test", "stop") /\ s # "login"
      BY <2>1, <2>2 DEF Dispatching
    <3> QED
      BY <2>1, <3>1, GoesKeeps
  <2>3. CASE s \notin Dispatching
    <3>1. Goes(s, "test", "returned") /\ s = "login"
      BY <2>1, <2>3, Services DEF Dispatching
    <3> QED
      BY <2>1, <3>1, GoesKeeps
  <2> QED
    BY <2>2, <2>3
<1>5. CASE StopDispatcher(s)
  BY <1>5, GoesKeeps DEF StopDispatcher, Goes
<1>6. CASE JoinDispatcher(s)
  BY <1>6, GoesKeeps DEF JoinDispatcher, Goes
<1> QED
  BY <1>1, <1>2, <1>3, <1>4, <1>5, <1>6 DEF ServiceThread

LEMMA ReceivingStep ==
  ASSUME LifecycleInv, Receiving
  PROVE  LifecycleInv'
<1> USE Services DEF LifecycleInv, TypeOK, DispatchEnclosed
<1>1. CASE MatchmakingReceive
  BY <1>1, GoesKeeps DEF MatchmakingReceive
<1>2. CASE VersionReceive
  BY <1>2, GoesKeeps DEF VersionReceive
<1>3. CASE LoginWait
  BY <1>3, GoesKeeps DEF LoginWait
<1>4. CASE LoginServe
  BY <1>4, GoesKeeps DEF LoginServe
<1> QED
  BY <1>1, <1>2, <1>3, <1>4 DEF Receiving

\* A dispatch thread that moves on has not ended, so its service has not
\* returned.
LEMMA DispatchStep ==
  ASSUME LifecycleInv, NEW s \in Service, DispatchThread(s)
  PROVE  LifecycleInv'
<1> USE Services DEF LifecycleInv, TypeOK
<1>1. PICK from \in {"test", "pop", "handler"}, to \in {"test", "pop", "handler", "returned"} :
        Moves(s, from, to)
  BY DEF DispatchThread, DispatchTest, DispatchPop, HandlerReturns
<1>2. /\ dispatchPc[s] = from
      /\ dispatchPc' = [dispatchPc EXCEPT ![s] = to]
      /\ UNCHANGED <<mainVars, servicePc, crashed>>
  BY <1>1 DEF Moves
<1>3. s # "login" /\ servicePc[s] \notin {"none", "bind", "returned"}
  BY <1>2 DEF DispatchEnclosed
<1>4. TypeOK' /\ NoneYet' /\ Joined'
  BY <1>2 DEF mainVars, NoneYet, Joined
<1>5. DispatchEnclosed'
  BY <1>2, <1>3 DEF DispatchEnclosed
<1> QED
  BY <1>4, <1>5

LEMMA Invariance == Spec => []LifecycleInv
<1>1. LifecycleInv /\ [Next]_vars => LifecycleInv'
  <2> SUFFICES ASSUME LifecycleInv, [Next]_vars PROVE LifecycleInv'
    OBVIOUS
  <2>1. CASE Crash \/ Over \/ UNCHANGED vars
    BY <2>1 DEF Crash, LoginWithoutConnection, HandlerThrows, Over, vars, mainVars,
       LifecycleInv, TypeOK, DispatchEnclosed, NoneYet, Joined
  <2> QED
    BY <2>1, MainStep, ServiceStep, ReceivingStep, DispatchStep DEF Next
<1> QED
  BY <1>1, InitHolds, PTL DEF Spec

\* TypeOK: type correctness of the lifecycle's state.
THEOREM TypeCorrect == Spec => []TypeOK
  BY Invariance, PTL DEF LifecycleInv

\* NoUseAfterDelete: what the destructor deletes has no thread left, whether
\* its port was free or not and wherever its threads were when the key was
\* pressed.
THEOREM NothingUsedDeleted == Spec => []NoUseAfterDelete
<1>1. LifecycleInv => NoUseAfterDelete
  BY Services DEF LifecycleInv, TypeOK, DispatchEnclosed, Joined, NoUseAfterDelete
<1> QED
  BY <1>1, Invariance, PTL
=============================================================================

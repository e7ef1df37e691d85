----------------------- MODULE PacketDispatcherProofs -----------------------
(***************************************************************************)
(* PacketDispatcher is type correct, keeps its queues exclusive and does   *)
(* what PacketDispatch promises, for any packets, handlers and bounds.     *)
(***************************************************************************)
EXTENDS PacketDispatcher, SequenceTheorems, TLAPS

(***************************************************************************)
(* The inductive invariant: who holds the mutex, what each thread has in   *)
(* hand, and how far the owner is, are all determined by the two program   *)
(* counters.                                                               *)
(***************************************************************************)
OwnerControl ==
  /\ mutex = "owner" <=> ownerPc = "push"
  /\ IF ownerPc \in {"lock", "push"} THEN incoming \in Arriving ELSE incoming = NoJob
  /\ running <=> ownerPc \in {"receive", "lock", "push"}
  /\ ownerPc = "setup" => dispatchPc = "none"
  /\ dispatchPc = "none" => ownerPc \in {"setup", "stopped"}
  /\ ownerPc = "stopped" => dispatchPc \in {"none", "returned"}

DispatchControl ==
  /\ mutex = "dispatch" <=> dispatchPc = "pop"
  /\ job # NoJob <=> dispatchPc \in {"find", "handler"}
  /\ dispatchPc = "returned" => ownerPc \in {"join", "stopped"}

DispatcherInv == TypeOK /\ OwnerControl /\ DispatchControl

\* Every packet has one of the three queues.
LEMMA QueueOfType == \A j : QueueOf(j) \in PacketHeader
  BY DEF QueueOf, PacketHeader

LEMMA InitInv == Init => DispatcherInv
<1> SUFFICES ASSUME Init PROVE DispatcherInv
  OBVIOUS
<1>1. TypeOK
  <2>1. queue \in [PacketHeader -> Seq(RawPacketJob)]
    BY EmptySeq DEF Init
  <2> QED
    BY <2>1 DEF Init, TypeOK
<1>2. OwnerControl /\ DispatchControl
  BY DEF Init, OwnerControl, DispatchControl
<1> QED
  BY <1>1, <1>2 DEF DispatcherInv

LEMMA OwnerInv ==
  ASSUME DispatcherInv, Owner
  PROVE  DispatcherInv'
<1> USE ArrivingAssumption, NoJobAssumption
    DEF DispatcherInv, TypeOK, OwnerControl, DispatchControl, dispatchVars, ownerVars
<1>1. CASE Start
  BY <1>1 DEF Start
<1>2. CASE \E j \in Arriving : Receive(j)
  BY <1>2 DEF Receive
<1>3. CASE EnqueueLock
  BY <1>3 DEF EnqueueLock
<1>4. CASE EnqueuePacket
  <2>1. queue' \in [PacketHeader -> Seq(RawPacketJob)]
    BY <1>4, QueueOfType, AppendProperties DEF EnqueuePacket
  <2> QED
    BY <1>4, <2>1 DEF EnqueuePacket
<1>5. CASE Stop
  BY <1>5 DEF Stop
<1>6. CASE StopUnstarted
  BY <1>6 DEF StopUnstarted
<1>7. CASE Join
  BY <1>7 DEF Join
<1> QED
  BY <1>1, <1>2, <1>3, <1>4, <1>5, <1>6, <1>7 DEF Owner

LEMMA DispatchInv ==
  ASSUME DispatcherInv, Dispatch
  PROVE  DispatcherInv'
<1> USE NoJobAssumption
    DEF DispatcherInv, TypeOK, OwnerControl, DispatchControl, ownerVars
<1>1. CASE TestRunning
  BY <1>1 DEF TestRunning
<1>2. CASE DispatchLock
  BY <1>2 DEF DispatchLock
<1>3. CASE \E c \in PacketHeader : TakeJob(c)
  <2> PICK c \in PacketHeader : TakeJob(c)
    BY <1>3
  <2>1. Head(queue[c]) \in RawPacketJob /\ Tail(queue[c]) \in Seq(RawPacketJob)
    BY HeadTailProperties DEF TakeJob
  <2> QED
    BY <2>1 DEF TakeJob
<1>4. CASE NothingToTake
  BY <1>4 DEF NothingToTake
<1>5. CASE CallHandler
  BY <1>5 DEF CallHandler
<1>6. CASE DropJob
  BY <1>6 DEF DropJob
<1>7. CASE HandlerReturns
  BY <1>7 DEF HandlerReturns
<1> QED
  BY <1>1, <1>2, <1>3, <1>4, <1>5, <1>6, <1>7 DEF Dispatch

LEMMA Invariance == Spec => []DispatcherInv
<1>1. ASSUME DispatcherInv, [Next]_vars
      PROVE  DispatcherInv'
  <2>1. CASE UNCHANGED vars
    BY <2>1, <1>1 DEF vars, DispatcherInv, TypeOK, OwnerControl, DispatchControl
  <2> QED
    BY <2>1, <1>1, OwnerInv, DispatchInv DEF Next, Stopped
<1> QED
  BY InitInv, <1>1, PTL DEF Spec

-----------------------------------------------------------------------------
\* TypeOK of PacketDispatcher: the state keeps its types.
THEOREM TypeCorrect == Spec => []TypeOK
  BY Invariance, PTL DEF DispatcherInv

\* The lock_guard of EnqueuePacket and the locked scope of DispatchLoop keep
\* the two threads from working on the queues together, and the job in hand
\* lasts from its pop to the end of its handler.
THEOREM Exclusion == Spec => []ExclusiveQueues
<1>1. DispatcherInv => ExclusiveQueues
  BY DEF DispatcherInv, OwnerControl, DispatchControl, ExclusiveQueues
<1> QED
  BY <1>1, Invariance, PTL

\* After Stop returned no handler runs and none is started: by then the
\* dispatch thread has left DispatchLoop, or was never created.
THEOREM Quiet == Spec => QuietAfterStop
<1>1. ASSUME DispatcherInv, [Next]_vars
      PROVE  [ownerPc = "stopped" => job' = NoJob /\ dispatchPc' = dispatchPc]_vars
  BY <1>1 DEF DispatcherInv, OwnerControl, DispatchControl, Next, Stopped, vars,
     Owner, Start, Receive, EnqueueLock, EnqueuePacket, Stop, StopUnstarted, Join,
     Dispatch, TestRunning, DispatchLock, TakeJob, NothingToTake, CallHandler,
     DropJob, HandlerReturns
<1> QED
  BY <1>1, Invariance, PTL DEF Spec, QuietAfterStop

\* In Stop the owner holds no lock, and whoever it waits for is at a step it can
\* take: there is a dispatch thread, it waits for a free mutex or for nothing,
\* and when it is through with DispatchLoop it can be joined.
THEOREM NeverBlocked ==
  Spec => [](ownerPc = "join" =>
               /\ mutex # "owner" /\ dispatchPc # "none"
               /\ dispatchPc = "lock" => mutex = "free"
               /\ dispatchPc = "find" => job # NoJob)
<1>1. DispatcherInv /\ ownerPc = "join" =>
        /\ mutex # "owner" /\ dispatchPc # "none"
        /\ dispatchPc = "lock" => mutex = "free"
        /\ dispatchPc = "find" => job # NoJob
  BY DEF DispatcherInv, TypeOK, OwnerControl, DispatchControl
<1> QED
  BY <1>1, Invariance, PTL

\* However many packets are queued, every step of either thread brings the
\* return of Stop closer: with NeverBlocked, the owner waits for at most one
\* handler.
THEOREM ShortStop == Spec => StopIsShort
<1>1. ASSUME DispatcherInv, Next, ownerPc = "join"
      PROVE  StepsLeft' < StepsLeft \/ UNCHANGED vars
  <2> USE DEF DispatcherInv, TypeOK, OwnerControl, DispatchControl, StepsLeft
  <2>1. CASE Owner
    BY <1>1, <2>1 DEF Owner, Start, Receive, EnqueueLock, EnqueuePacket, Stop, StopUnstarted,
       Join
  <2>2. CASE Dispatch
    BY <1>1, <2>2 DEF Dispatch, TestRunning, DispatchLock, TakeJob, NothingToTake, CallHandler,
       DropJob, HandlerReturns, ownerVars
  <2> QED
    BY <1>1, <2>1, <2>2 DEF Next, Stopped
<1>2. ASSUME DispatcherInv, [Next]_vars
      PROVE  [ownerPc = "join" => StepsLeft' < StepsLeft]_vars
  BY <1>1, <1>2
<1> QED
  BY <1>2, Invariance, PTL DEF Spec, StopIsShort

-----------------------------------------------------------------------------
(***************************************************************************)
(* The refinement.  Under the refinement mapping a step of the owner other *)
(* than Start, EnqueuePacket, Stop and Join is a stuttering step of        *)
(* PacketDispatch, and so is a step of the dispatch thread other than the  *)
(* pop, the end of a job, and the last empty look after Stop.              *)
(***************************************************************************)
LEMMA RefineInit == Init => Promise!SpecInit
  BY DEF Init, Promise!SpecInit, Promise!Priority, PacketHeader

LEMMA RefineOwner ==
  ASSUME DispatcherInv, Owner
  PROVE  [Promise!SpecNext]_(Promise!specVars)
<1> USE DEF DispatcherInv, OwnerControl, DispatchControl, dispatchVars,
    Promise!SpecNext, Promise!specVars
<1>1. CASE Start
  BY <1>1 DEF Start, Promise!Open
<1>2. CASE \E j \in Arriving : Receive(j)
  BY <1>2 DEF Receive
<1>3. CASE EnqueueLock
  BY <1>3 DEF EnqueueLock
<1>4. CASE EnqueuePacket
  <2>1. Promise!Submit(incoming)
    BY <1>4 DEF EnqueuePacket, Promise!Submit
  <2>2. incoming \in Arriving
    BY <1>4 DEF EnqueuePacket
  <2> QED
    BY <2>1, <2>2
<1>5. CASE Stop
  BY <1>5 DEF Stop, Promise!Close
<1>6. CASE StopUnstarted
  BY <1>6 DEF StopUnstarted, Promise!Abandon
<1>7. CASE Join
  BY <1>7 DEF Join, Promise!Closed
<1> QED
  BY <1>1, <1>2, <1>3, <1>4, <1>5, <1>6, <1>7 DEF Owner

LEMMA RefineDispatch ==
  ASSUME DispatcherInv, Dispatch
  PROVE  [Promise!SpecNext]_(Promise!specVars)
<1> USE DEF DispatcherInv, OwnerControl, DispatchControl, ownerVars,
    Promise!SpecNext, Promise!specVars
<1>1. CASE TestRunning
  BY <1>1 DEF TestRunning
<1>2. CASE DispatchLock
  BY <1>2 DEF DispatchLock
<1>3. CASE \E c \in PacketHeader : TakeJob(c)
  <2> PICK c \in PacketHeader : TakeJob(c)
    BY <1>3
  <2>1. \A d \in PacketHeader : Promise!Above(d) = Before(d)
    BY DEF PacketHeader, Promise!Above, Before
  <2>2. Promise!Serve(c)
    BY <2>1 DEF TakeJob, Promise!Serve, TypeOK
  <2> QED
    BY <2>2 DEF Promise!Priority, PacketHeader
<1>4. CASE NothingToTake
  BY <1>4 DEF NothingToTake, Promise!Lapse, Promise!Priority, PacketHeader
<1>5. CASE CallHandler
  BY <1>5 DEF CallHandler
<1>6. CASE DropJob
  BY <1>6 DEF DropJob, Promise!Finish
<1>7. CASE HandlerReturns
  BY <1>7 DEF HandlerReturns, Promise!Finish
<1> QED
  BY <1>1, <1>2, <1>3, <1>4, <1>5, <1>6, <1>7 DEF Dispatch

\* PacketDispatcher implements PacketDispatch: strict priority, first in first
\* out within a priority, nothing lost or repeated, and at most one more
\* handler after Stop was called.
THEOREM Refinement == Spec => DispatchesAsPromised
<1>1. ASSUME DispatcherInv, [Next]_vars
      PROVE  [Promise!SpecNext]_(Promise!specVars)
  <2>1. CASE UNCHANGED vars
    BY <2>1 DEF vars, Promise!specVars
  <2> QED
    BY <2>1, <1>1, RefineOwner, RefineDispatch DEF Next, Stopped
<1> QED
  BY RefineInit, <1>1, Invariance, PTL
     DEF Spec, DispatchesAsPromised, Promise!AbstractSpec
=============================================================================

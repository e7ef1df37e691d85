-------------------------- MODULE PacketDispatcher --------------------------
(***************************************************************************)
(* PacketDispatcher.{h,cpp}: three FIFO queues under one mutex, filled by   *)
(* the receive loop of the service that owns the dispatcher and emptied by *)
(* a dispatch thread that calls the handler registered for each packet.    *)
(*                                                                         *)
(* Two threads.  ownerPc follows the owner: RegisterHandler and Start, the *)
(* receive loop that calls EnqueuePacket, and Stop.  dispatchPc follows    *)
(* DispatchLoop.  Locking the mutex is a step of its own; what a thread    *)
(* does under the lock, up to the unlock that ends the scope, is one step. *)
(***************************************************************************)
EXTENDS Sequences, Naturals

CONSTANTS
  PacketType,  \* the packet types that occur
  Content,     \* the contents that tell packets of one type apart
  Arriving,    \* the packets the service may receive
  Registered,  \* the packet types a handler is registered for
  NoJob,       \* no packet in hand
  QueueBound   \* bound of the model: packets waiting in one queue

\* The header byte is a mask: a packet may carry any of the three bits.
PacketHeader == {"NORMAL", "CRITIC", "URGENT"}
RawPacketJob == [headerMask : SUBSET PacketHeader,
                 type : PacketType,
                 content : Content]

ASSUME ArrivingAssumption == Arriving \subseteq RawPacketJob
ASSUME RegisteredAssumption == Registered \subseteq PacketType
ASSUME NoJobAssumption == NoJob \notin RawPacketJob
ASSUME QueueBoundAssumption == QueueBound \in Nat

VARIABLES
  queue,       \* _queueUrgent, _queueCritical and _queueNormal
  mutex,       \* _mutex: "free" or the thread that holds it
  running,     \* _running
  ownerPc,     \* where the owning thread is
  incoming,    \* the packet the owner is enqueuing
  dispatchPc,  \* where the dispatch thread is
  job          \* the packet the dispatch thread took, until its handler returned

vars == <<queue, mutex, running, ownerPc, incoming, dispatchPc, job>>
ownerVars == <<ownerPc, incoming>>
dispatchVars == <<dispatchPc, job>>

\* The queue EnqueuePacket chooses: the highest bit that is set, and the
\* normal queue for a mask with neither of the two high bits.
QueueOf(j) == IF "URGENT" \in j.headerMask THEN "URGENT"
              ELSE IF "CRITIC" \in j.headerMask THEN "CRITIC"
              ELSE "NORMAL"

Init ==
  /\ queue = [c \in PacketHeader |-> <<>>]
  /\ mutex = "free"
  /\ running = FALSE
  /\ ownerPc = "setup" /\ incoming = NoJob
  /\ dispatchPc = "none" /\ job = NoJob

-----------------------------------------------------------------------------
(* The owning thread. *)

Start ==
  /\ ownerPc = "setup"
  /\ running' = TRUE
  /\ dispatchPc' = "test"
  /\ ownerPc' = "receive"
  /\ UNCHANGED <<queue, mutex, incoming, job>>

\* The receive loop parsed a datagram and calls EnqueuePacket with it.
Receive(j) ==
  /\ ownerPc = "receive"
  /\ Len(queue[QueueOf(j)]) < QueueBound
  /\ incoming' = j
  /\ ownerPc' = "lock"
  /\ UNCHANGED <<queue, mutex, running, dispatchVars>>

\* Mutant of EnqueueLock: EnqueuePacket without its lock_guard.
EnqueueWithoutLock ==
  /\ ownerPc = "lock"
  /\ ownerPc' = "push"
  /\ UNCHANGED <<queue, mutex, running, incoming, dispatchVars>>

EnqueueLock ==
  /\ ownerPc = "lock"
  /\ mutex = "free"
  /\ mutex' = "owner"
  /\ ownerPc' = "push"
  /\ UNCHANGED <<queue, running, incoming, dispatchVars>>

\* Mutant of EnqueuePacket: the packet is pushed after it was given up.
EnqueueMoved ==
  /\ ownerPc = "push"
  /\ incoming' = NoJob
  /\ queue' = [queue EXCEPT ![QueueOf(incoming)] = Append(@, incoming')]
  /\ mutex' = "free"
  /\ ownerPc' = "receive"
  /\ UNCHANGED <<running, dispatchVars>>

EnqueuePacket ==
  /\ ownerPc = "push"
  /\ queue' = [queue EXCEPT ![QueueOf(incoming)] = Append(@, incoming)]
  /\ mutex' = "free"
  /\ incoming' = NoJob
  /\ ownerPc' = "receive"
  /\ UNCHANGED <<running, dispatchVars>>

\* Mutant of Stop: it joins the dispatch thread before it clears _running.
StopUncleared ==
  /\ ownerPc = "receive"
  /\ ownerPc' = "join"
  /\ UNCHANGED <<queue, mutex, running, incoming, dispatchVars>>

Stop ==
  /\ ownerPc = "receive"
  /\ running' = FALSE
  /\ ownerPc' = "join"
  /\ UNCHANGED <<queue, mutex, incoming, dispatchVars>>

\* The destructor of a dispatcher that was never started (the service could
\* not bind its port): there is no thread to join.
StopUnstarted ==
  /\ ownerPc = "setup"
  /\ running' = FALSE
  /\ ownerPc' = "stopped"
  /\ UNCHANGED <<queue, mutex, incoming, dispatchVars>>

\* Mutant of Join: Stop does not wait for the dispatch thread.
StopWithoutJoin ==
  /\ ownerPc = "join"
  /\ ownerPc' = "stopped"
  /\ UNCHANGED <<queue, mutex, running, incoming, dispatchVars>>

Join ==
  /\ ownerPc = "join"
  /\ dispatchPc = "returned"
  /\ ownerPc' = "stopped"
  /\ UNCHANGED <<queue, mutex, running, incoming, dispatchVars>>

-----------------------------------------------------------------------------
(* The dispatch thread: DispatchLoop. *)

TestRunning ==
  /\ dispatchPc = "test"
  /\ dispatchPc' = IF running THEN "lock" ELSE "returned"
  /\ UNCHANGED <<queue, mutex, running, ownerVars, job>>

DispatchLock ==
  /\ dispatchPc = "lock"
  /\ mutex = "free"
  /\ mutex' = "dispatch"
  /\ dispatchPc' = "pop"
  /\ UNCHANGED <<queue, running, ownerVars, job>>

\* Mutants of Before: the queues are tried in another order.
BeforeCriticFirst(c) == IF c = "CRITIC" THEN {}
                        ELSE IF c = "URGENT" THEN {"CRITIC"}
                        ELSE {"URGENT", "CRITIC"}
BeforeNormalFirst(c) == IF c = "NORMAL" THEN {}
                        ELSE IF c = "CRITIC" THEN {"NORMAL"}
                        ELSE {"NORMAL", "CRITIC"}

\* The queues the if-else chain has found empty before it looks at queue c.
Before(c) == IF c = "URGENT" THEN {}
             ELSE IF c = "CRITIC" THEN {"URGENT"}
             ELSE {"URGENT", "CRITIC"}

TakeJob(c) ==
  /\ dispatchPc = "pop"
  /\ \A d \in Before(c) : queue[d] = <<>>
  /\ queue[c] # <<>>
  /\ job' = Head(queue[c])
  /\ queue' = [queue EXCEPT ![c] = Tail(@)]
  /\ mutex' = "free"
  /\ dispatchPc' = "find"
  /\ UNCHANGED <<running, ownerVars>>

\* Mutant of NothingToTake: the chain ends after the critical queue.
NothingHighToTake ==
  /\ dispatchPc = "pop"
  /\ queue["URGENT"] = <<>> /\ queue["CRITIC"] = <<>>
  /\ mutex' = "free"
  /\ dispatchPc' = "test"
  /\ UNCHANGED <<queue, running, ownerVars, job>>

\* All three queues are empty: continue, which leaves the locked scope.
NothingToTake ==
  /\ dispatchPc = "pop"
  /\ \A c \in PacketHeader : queue[c] = <<>>
  /\ mutex' = "free"
  /\ dispatchPc' = "test"
  /\ UNCHANGED <<queue, running, ownerVars, job>>

CallHandler ==
  /\ dispatchPc = "find"
  /\ job.type \in Registered
  /\ dispatchPc' = "handler"
  /\ UNCHANGED <<queue, mutex, running, ownerVars, job>>

\* No handler for this type: the packet is dropped.
DropJob ==
  /\ dispatchPc = "find"
  /\ job.type \notin Registered
  /\ job' = NoJob
  /\ dispatchPc' = "test"
  /\ UNCHANGED <<queue, mutex, running, ownerVars>>

HandlerReturns ==
  /\ dispatchPc = "handler"
  /\ job' = NoJob
  /\ dispatchPc' = "test"
  /\ UNCHANGED <<queue, mutex, running, ownerVars>>

-----------------------------------------------------------------------------
Owner == \/ Start
         \/ \E j \in Arriving : Receive(j)
         \/ EnqueueLock
         \/ EnqueuePacket
         \/ Stop
         \/ StopUnstarted
         \/ Join

Dispatch == \/ TestRunning
            \/ DispatchLock
            \/ \E c \in PacketHeader : TakeJob(c)
            \/ NothingToTake
            \/ CallHandler
            \/ DropJob
            \/ HandlerReturns

\* Stop has returned: nothing of the dispatcher runs any more.
Stopped == ownerPc = "stopped" /\ UNCHANGED vars

Next == Owner \/ Dispatch \/ Stopped

Spec == Init /\ [][Next]_vars

(***************************************************************************)
(* The threads keep running: a thread that can take its next step takes    *)
(* it, the thread that waits for the mutex is not passed over for ever     *)
(* although the mutex keeps being free, and every handler returns.  The    *)
(* arrival of packets and the call of Stop are never owed.                 *)
(***************************************************************************)
Fairness ==
  /\ SF_vars(EnqueueLock) /\ WF_vars(EnqueuePacket) /\ WF_vars(Join)
  /\ WF_vars(TestRunning) /\ SF_vars(DispatchLock)
  /\ WF_vars(\E c \in PacketHeader : TakeJob(c)) /\ WF_vars(NothingToTake)
  /\ WF_vars(CallHandler) /\ WF_vars(DropJob) /\ WF_vars(HandlerReturns)

FairSpec == Spec /\ Fairness

-----------------------------------------------------------------------------
(* Properties. *)

\* Type correctness of the dispatcher's state.
TypeOK ==
  /\ queue \in [PacketHeader -> Seq(RawPacketJob)]
  /\ mutex \in {"free", "owner", "dispatch"}
  /\ running \in BOOLEAN
  /\ ownerPc \in {"setup", "receive", "lock", "push", "join", "stopped"}
  /\ incoming \in RawPacketJob \cup {NoJob}
  /\ dispatchPc \in {"none", "test", "lock", "pop", "find", "handler", "returned"}
  /\ job \in RawPacketJob \cup {NoJob}

\* EnqueuePacket and the pop of DispatchLoop never work on the queues at the
\* same time, and a job is in hand exactly from the pop to the end of its
\* handler, whatever the owner does meanwhile (Stop included).
ExclusiveQueues ==
  /\ ~(ownerPc = "push" /\ dispatchPc = "pop")
  /\ (job # NoJob) <=> (dispatchPc \in {"find", "handler"})

\* After Stop returned (PacketDispatcher.cpp:41-45) no handler runs and none
\* is started: the owner may destroy the state its handlers capture.
QuietAfterStop ==
  [][ownerPc = "stopped" => job' = NoJob /\ dispatchPc' = dispatchPc]_vars

\* The dispatcher does what PacketDispatch promises its owner: every packet
\* in hand is the oldest of the highest priority at the moment it was popped,
\* no packet is lost, repeated or reordered within its queue, and after Stop
\* at most one more packet is started.
Promise == INSTANCE PacketDispatch WITH
  Job <- Arriving,
  PriorityOf <- QueueOf,
  waiting <- queue,
  serving <- job,
  phase <- IF ownerPc = "setup" THEN "new"
           ELSE IF ownerPc \in {"receive", "lock", "push"} THEN "open"
           ELSE IF ownerPc = "join" THEN "closing"
           ELSE "closed",
  grace <- ownerPc = "join" /\ dispatchPc \in {"lock", "pop"}

DispatchesAsPromised == Promise!AbstractSpec

\* Stop returns: the dispatch thread leaves its loop once the handler it is
\* in has returned, however many packets are still queued.
StopReturns == ownerPc = "join" ~> ownerPc = "stopped"

\* The steps there may be until Stop has returned.
StepsLeft ==
  IF ownerPc = "stopped" THEN 0
  ELSE [none |-> 0, returned |-> 1, test |-> 2, handler |-> 3, find |-> 4, pop |-> 5,
        lock |-> 6][dispatchPc]

\* How long the owner waits in Stop does not depend on what is queued: from
\* there every step of either thread brings the return closer, so that at most
\* one handler is waited for (PacketDispatcher.cpp:44).
StopIsShort == [][ownerPc = "join" => StepsLeft' < StepsLeft]_vars

\* While the dispatcher is not stopped, a waiting urgent packet is followed
\* by an urgent packet being taken, whatever keeps arriving.
UrgentIsTaken ==
  queue["URGENT"] # <<>> ~>
    (~running \/ (job # NoJob /\ QueueOf(job) = "URGENT"))

\* Every packet a service enqueues is taken in the end if the traffic of
\* higher priority ends; while it goes on, a normal packet may wait for ever.
NormalIsTakenWhenQuiet ==
  <>[](queue["URGENT"] = <<>> /\ queue["CRITIC"] = <<>>) =>
    (queue["NORMAL"] # <<>> ~>
       (~running \/ (job # NoJob /\ QueueOf(job) = "NORMAL")))
=============================================================================

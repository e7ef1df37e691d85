--------------------------- MODULE PacketDispatch ---------------------------
(***************************************************************************)
(* What a packet dispatcher promises to the service that owns it, without  *)
(* threads or locks.  Jobs handed in wait in one queue per priority; the   *)
(* service's handlers run one job at a time; the next job is the oldest    *)
(* one of the highest priority that has a job waiting.  Closing the        *)
(* dispatcher lets the job being served finish and at most one more job    *)
(* start; what still waits then is discarded.                              *)
(***************************************************************************)
EXTENDS Sequences

CONSTANTS Job,          \* the packets the service may receive
          NoJob,        \* "no job is being served"
          PriorityOf(_) \* the priority a job is queued under

VARIABLES waiting,  \* the jobs waiting, one queue for each priority
          serving,  \* the job whose handler runs, or NoJob
          phase,    \* "new", "open", "closing" or "closed"
          grace     \* while closing: one more job may still be started

specVars == <<waiting, serving, phase, grace>>

Priority == {"URGENT", "CRITIC", "NORMAL"}

\* The priorities that are served before priority c.
Above(c) == IF c = "URGENT" THEN {}
            ELSE IF c = "CRITIC" THEN {"URGENT"}
            ELSE {"URGENT", "CRITIC"}

SpecInit ==
  /\ waiting = [c \in Priority |-> <<>>]
  /\ serving = NoJob
  /\ phase = "new"
  /\ grace = FALSE

Open ==
  /\ phase = "new"
  /\ phase' = "open"
  /\ UNCHANGED <<waiting, serving, grace>>

\* The owner gives the dispatcher up without ever opening it.
Abandon ==
  /\ phase = "new"
  /\ phase' = "closed"
  /\ UNCHANGED <<waiting, serving, grace>>

Submit(j) ==
  /\ phase = "open"
  /\ waiting' = [waiting EXCEPT ![PriorityOf(j)] = Append(@, j)]
  /\ UNCHANGED <<serving, phase, grace>>

\* The oldest job of the highest priority present is started.
Serve(c) ==
  /\ \/ phase = "open" /\ UNCHANGED grace
     \/ phase = "closing" /\ grace /\ grace' = FALSE
  /\ serving = NoJob
  /\ waiting[c] # <<>>
  /\ \A d \in Above(c) : waiting[d] = <<>>
  /\ serving' = Head(waiting[c])
  /\ waiting' = [waiting EXCEPT ![c] = Tail(@)]
  /\ UNCHANGED phase

Finish ==
  /\ serving # NoJob
  /\ serving' = NoJob
  /\ UNCHANGED <<waiting, phase, grace>>

\* The owner asks for the end.  A dispatcher that is idle may be about to
\* look at its queues once more.
Close ==
  /\ phase = "open"
  /\ phase' = "closing"
  /\ grace' \in IF serving = NoJob THEN BOOLEAN ELSE {FALSE}
  /\ UNCHANGED <<waiting, serving>>

\* The last look found every queue empty.
Lapse ==
  /\ phase = "closing" /\ grace
  /\ \A c \in Priority : waiting[c] = <<>>
  /\ grace' = FALSE
  /\ UNCHANGED <<waiting, serving, phase>>

Closed ==
  /\ phase = "closing" /\ ~grace /\ serving = NoJob
  /\ phase' = "closed"
  /\ UNCHANGED <<waiting, serving, grace>>

SpecNext ==
  \/ Open
  \/ Abandon
  \/ \E j \in Job : Submit(j)
  \/ \E c \in Priority : Serve(c)
  \/ Finish
  \/ Close
  \/ Lapse
  \/ Closed

AbstractSpec == SpecInit /\ [][SpecNext]_specVars
=============================================================================

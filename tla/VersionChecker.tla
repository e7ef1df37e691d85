--------------------------- MODULE VersionChecker ---------------------------
(***************************************************************************)
(* VersionChecker.{h,cpp} on its dispatcher, its clients, and the network  *)
(* between them.  A client asks with the version it has.  The answer is OK *)
(* for the version the service read when it was constructed; for any other *)
(* it is UPDATE with that version and then, in a second datagram, the map, *)
(* which is read again for each answer.                                    *)
(*                                                                         *)
(* The dispatcher is PacketDispatch, which PacketDispatcher implements.    *)
(* The network is UDP: a datagram on its way may be lost, arrive more than *)
(* once, late, and in another order.  Clients are external.  They ask      *)
(* until they get OK, and take a version for theirs once they have both    *)
(* its number and its map.                                                 *)
(***************************************************************************)
EXTENDS WireFormat, SequencesExt

CONSTANTS
  Client,
  Version,       \* the version strings clients start with
  VersionLine,   \* the first line of VersionFile
  DefaultVersion,\* "0.0", for a VersionFile that cannot be opened
  MapFiles,      \* what the map file may hold, of whatever length
  Newline,
  Noise,         \* datagrams that ask for nothing, which any client may send
  None,
  QueueBound,    \* bound of the model: packets waiting in one queue
  MaxNoise       \* bound of the model: such datagrams sent

ASSUME VersionsAssumption ==
  /\ VersionLine \in Seq(Byte) /\ DefaultVersion \in Seq(Byte)
  /\ \A v \in Version : v \in Seq(Byte) /\ FitsBuffer(v)
ASSUME FilesAssumption == MapFiles \subseteq Seq(Byte) /\ Newline \in Byte
AsksVersion(d) == Readable(d) /\ d[2] = VERSION
ASSUME NoiseAssumption ==
  \A d \in Noise :
    d \in Seq(Byte) /\ Len(d) <= BufferSize /\ ~AsksVersion(d)
ASSUME BoundsAssumption == QueueBound \in Nat /\ MaxNoise \in Nat

RawPacketJob ==
  [headerMask : Byte, type : Byte, content : Seq(Byte), sender : Client]
ASSUME NoneAssumption == None \notin RawPacketJob \cup Seq(Byte)

VARIABLES
  lastestVersion,  \* _lastestVersion
  mapFile,         \* the bytes of the map file
  waiting, serving, phase, grace,  \* the dispatcher
  handler,         \* where the handler of VERSION is: "idle", "called", "sendFile"
  fate,            \* "running", or "overrun" after a memcpy past the buffer
  requests,        \* the datagrams on their way to the service, by sender
  replies,         \* the datagrams on their way to clients
  version,         \* the version each client has
  announced,       \* the version a client was told to update to, or None
  map,             \* the map a client has received, or None
  settled,         \* the clients that got OK
  noise

dispatcherVars == <<waiting, serving, phase, grace>>
files == <<lastestVersion, mapFile>>
serviceVars == <<files, dispatcherVars, handler, fate>>
clientVars == <<version, announced, map, settled, noise>>
vars == <<serviceVars, requests, replies, clientVars>>

Dispatcher == INSTANCE PacketDispatch WITH
  Job <- RawPacketJob, NoJob <- None, PriorityOf <- QueueOf

\* GetLocalVersion, in the constructor.
GetLocalVersion == {VersionLine, DefaultVersion}

Init ==
  /\ lastestVersion \in GetLocalVersion /\ mapFile \in MapFiles
  /\ Dispatcher!SpecInit
  /\ handler = "idle" /\ fate = "running"
  /\ requests = {} /\ replies = {}
  /\ version \in [Client -> Version]
  /\ announced = [c \in Client |-> None]
  /\ map = [c \in Client |-> None]
  /\ settled = {}
  /\ noise = 0

-----------------------------------------------------------------------------
(* Clients and the network. *)

Request(c) == CreateRawDatagram(NORMAL, VERSION, version[c])

Ask(c) ==
  /\ c \notin settled
  /\ requests' = requests \cup {<<c, Request(c)>>}
  /\ UNCHANGED <<serviceVars, replies, clientVars>>

SendNoise(c, d) ==
  /\ noise < MaxNoise
  /\ noise' = noise + 1
  /\ requests' = requests \cup {<<c, d>>}
  /\ UNCHANGED <<serviceVars, replies, version, announced, map, settled>>

Lose(d) ==
  /\ d \in requests \cup replies
  /\ requests' = requests \ {d}
  /\ replies' = replies \ {d}
  /\ UNCHANGED <<serviceVars, clientVars>>

\* A datagram arrives, and a copy of it may still be on its way.
Arrives(d, network, networkAfter) ==
  /\ d \in network
  /\ networkAfter \in {network, network \ {d}}

ReadOK(c, d) ==
  /\ Arrives(<<c, d>>, replies, replies')
  /\ Readable(d) /\ ParseRawDatagram(d, c).type = OK
  /\ settled' = settled \cup {c}
  /\ UNCHANGED <<serviceVars, requests, version, announced, map, noise>>

\* With both halves of the update the client has the new version.
ReadUpdate(c, d) ==
  /\ Arrives(<<c, d>>, replies, replies')
  /\ Readable(d)
  /\ LET packet == ParseRawDatagram(d, c)
     IN \/ /\ packet.type = UPDATE
           /\ announced' = [announced EXCEPT ![c] = packet.content]
           /\ UNCHANGED map
        \/ /\ packet.type = UPDATE_MAP
           /\ map' = [map EXCEPT ![c] = packet.content]
           /\ UNCHANGED announced
  /\ version' = IF announced'[c] # None /\ map'[c] # None
                THEN [version EXCEPT ![c] = announced'[c]] ELSE version
  /\ UNCHANGED <<serviceVars, requests, settled, noise>>

-----------------------------------------------------------------------------
(* The thread of Run. *)

Bind == Dispatcher!Open /\ UNCHANGED <<files, handler, fate, requests, replies, clientVars>>

BindFails ==
  Dispatcher!Abandon /\ UNCHANGED <<files, handler, fate, requests, replies, clientVars>>

\* receive returned a datagram: it is parsed and given to the dispatcher.  Noise
\* and what a client has asked with an older version are not repeated without
\* end: urgent packets would keep the others waiting for ever (PacketDispatcher,
\* NormalIsTakenWhenQuiet), and so would a queue kept full, were it bounded.
Receive(c, d) ==
  /\ phase = "open" /\ fate = "running"
  /\ Arrives(<<c, d>>, requests, requests')
  /\ d = Request(c) \/ requests' # requests
  /\ IF Readable(d)
     THEN LET job == ParseRawDatagram(d, c)
          IN Len(waiting[QueueOf(job)]) < QueueBound /\ Dispatcher!Submit(job)
     ELSE UNCHANGED dispatcherVars
  /\ UNCHANGED <<files, handler, fate, replies, clientVars>>

Stop ==
  /\ fate = "running"
  /\ Dispatcher!Close \/ Dispatcher!Lapse \/ Dispatcher!Closed
  /\ UNCHANGED <<files, handler, fate, requests, replies, clientVars>>

-----------------------------------------------------------------------------
(* The dispatch thread. *)

Serve(priority) ==
  /\ fate = "running"
  /\ Dispatcher!Serve(priority)
  /\ handler' = IF serving'.type = VERSION THEN "called" ELSE "idle"
  /\ UNCHANGED <<files, fate, requests, replies, clientVars>>

\* No handler is registered for the type.
Drop ==
  /\ handler = "idle" /\ fate = "running"
  /\ Dispatcher!Finish
  /\ UNCHANGED <<files, handler, fate, requests, replies, clientVars>>

SendDatagram(type, content) ==
  IF FitsBuffer(content)
  THEN /\ replies' = replies \cup
            {<<serving.sender, CreateRawDatagram(NORMAL, type, content)>>}
       /\ UNCHANGED fate
  ELSE fate' = "overrun" /\ UNCHANGED replies

\* Mutant of HandlerReturns: the dispatcher goes on before the handler is done.
HandlerReturnsEarly == Dispatcher!Finish /\ UNCHANGED handler

HandlerReturns == handler' = "idle" /\ Dispatcher!Finish

\* Mutant of Current: a version is current when it starts like the latest one.
CurrentByPrefix(v) == Head(v) = Head(lastestVersion)

Current(v) == v = lastestVersion

AnswerOK ==
  /\ handler = "called" /\ fate = "running"
  /\ Current(serving.content)
  /\ SendDatagram(OK, <<>>)
  /\ HandlerReturns
  /\ UNCHANGED <<files, requests, clientVars>>

AnswerUpdate ==
  /\ handler = "called" /\ fate = "running"
  /\ ~Current(serving.content)
  /\ SendDatagram(UPDATE, lastestVersion)
  /\ handler' = "sendFile"
  /\ UNCHANGED <<files, dispatcherVars, requests, clientVars>>

\* The lines of the file, each with a newline behind it.
FullMap == IF mapFile = <<>> \/ Last(mapFile) = Newline THEN mapFile
           ELSE Append(mapFile, Newline)

SendFile ==
  /\ handler = "sendFile" /\ fate = "running"
  /\ SendDatagram(UPDATE_MAP, FullMap)
  /\ HandlerReturns
  /\ UNCHANGED <<files, requests, clientVars>>

\* The map file could not be opened.
NoMapFile ==
  /\ handler = "sendFile" /\ fate = "running"
  /\ HandlerReturns
  /\ UNCHANGED <<files, fate, requests, replies, clientVars>>

Done ==
  /\ phase = "closed" \/ fate # "running"
  /\ UNCHANGED vars

-----------------------------------------------------------------------------
Handle == AnswerOK \/ AnswerUpdate \/ SendFile \/ NoMapFile \/ Drop
DispatchThread == Handle \/ \E p \in Dispatcher!Priority : Serve(p)

Reads(c) == \E r \in replies : r[1] = c /\ (ReadOK(c, r[2]) \/ ReadUpdate(c, r[2]))

Next ==
  \/ \E c \in Client :
       \/ Ask(c) \/ Reads(c)
       \/ \E d \in Noise : SendNoise(c, d)
  \/ \E d \in requests \cup replies : Lose(d)
  \/ Bind \/ BindFails \/ Stop
  \/ \E r \in requests : Receive(r[1], r[2])
  \/ DispatchThread
  \/ Done

Spec == Init /\ [][Next]_vars

(***************************************************************************)
(* The dispatch thread keeps running.  A client that has no OK asks again. *)
(* A datagram that is sent again and again arrives at last, at the service *)
(* and at the client; the map file can be opened now and then.             *)
(***************************************************************************)
ReadsType(c, type) ==
  \E r \in replies :
    /\ r[1] = c /\ ParseRawDatagram(r[2], c).type = type
    /\ ReadOK(c, r[2]) \/ ReadUpdate(c, r[2])

Fairness ==
  /\ WF_vars(DispatchThread)
  /\ SF_vars(SendFile)
  /\ \A c \in Client :
       /\ WF_vars(Ask(c))
       /\ \A v \in Version \cup GetLocalVersion :
            SF_vars(Receive(c, CreateRawDatagram(NORMAL, VERSION, v)))
       /\ \A type \in {OK, UPDATE, UPDATE_MAP} : SF_vars(ReadsType(c, type))

FairSpec == Spec /\ Fairness

-----------------------------------------------------------------------------
(* Properties. *)

\* Type correctness of the version checker, its clients and the network.
TypeOK ==
  /\ lastestVersion \in Seq(Byte) /\ mapFile \in Seq(Byte)
  /\ waiting \in [Dispatcher!Priority -> Seq(RawPacketJob)]
  /\ serving \in RawPacketJob \cup {None}
  /\ phase \in {"new", "open", "closing", "closed"} /\ grace \in BOOLEAN
  /\ handler \in {"idle", "called", "sendFile"}
  /\ handler # "idle" => serving # None /\ serving.type = VERSION
  /\ fate \in {"running", "overrun"}
  /\ requests \in SUBSET (Client \X Seq(Byte))
  /\ replies \in SUBSET (Client \X Seq(Byte))
  /\ version \in [Client -> Seq(Byte)]
  /\ announced \in [Client -> Seq(Byte) \cup {None}]
  /\ map \in [Client -> Seq(Byte) \cup {None}]
  /\ settled \subseteq Client
  /\ noise \in 0..MaxNoise

\* A client that got OK has the version of the service, and the map of the
\* service too unless it came with that version: whatever was lost, late or
\* repeated in between, OK never follows a half update.
SettledIsUpToDate ==
  \A c \in settled :
    /\ version[c] = lastestVersion
    /\ announced[c] # None => map[c] = FullMap

\* What the service has to send fits into the buffer it is put together in.
FilesFit == FitsBuffer(lastestVersion) /\ FitsBuffer(FullMap)

\* With files that fit, every client gets to OK in the end, whatever the network
\* loses and repeats, unless the service stops.
ClientsSettle ==
  \A c \in Client :
    phase = "open" /\ FilesFit ~> (c \in settled \/ phase # "open")
=============================================================================

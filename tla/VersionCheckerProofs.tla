------------------------ MODULE VersionCheckerProofs ------------------------
(***************************************************************************)
(* What the version checker keeps, for any number of clients, files of any *)
(* length and any loss, delay and repetition of datagrams.                 *)
(***************************************************************************)
EXTENDS VersionChecker, SequenceTheorems, TLAPS

-----------------------------------------------------------------------------
(* Datagrams. *)

LEMMA AppendType ==
  ASSUME NEW S, NEW s \in Seq(S), NEW e \in S
  PROVE  Append(s, e) \in Seq(S)
BY AppendProperties

LEMMA TailType ==
  ASSUME NEW S, NEW s \in Seq(S), s # <<>>
  PROVE  Tail(s) \in Seq(S) /\ Head(s) \in S
BY HeadTailProperties

LEMMA Bytes == {NORMAL, INVALID, VERSION, UPDATE, OK, UPDATE_MAP} \subseteq Byte
BY DEF Byte, NORMAL, INVALID, VERSION, UPDATE, OK, UPDATE_MAP

\* What is put into a datagram is what is read from it.
LEMMA DatagramIsRead ==
  ASSUME NEW h \in Byte, NEW t \in Byte, NEW s \in Seq(Byte), NEW c
  PROVE  LET d == CreateRawDatagram(h, t, s)
         IN /\ d \in Seq(Byte)
            /\ Len(d) = 2 + Len(s)
            /\ ParseRawDatagram(d, c).type = t
            /\ ParseRawDatagram(d, c).content = s
            /\ ParseRawDatagram(d, c).sender = c
<1> DEFINE d == CreateRawDatagram(h, t, s)
<1>1. <<h, t>> \in Seq(Byte) /\ Len(<<h, t>>) = 2 /\ Len(s) \in Nat
  BY LenProperties
<1>2. d = <<h, t>> \o s
  BY DEF CreateRawDatagram
<1>3. /\ d \in Seq(Byte) /\ Len(d) = 2 + Len(s) /\ d[2] = t
      /\ \A i \in 1..Len(s) : d[i + 2] = s[i]
  BY <1>1, <1>2, ConcatProperties
<1> HIDE DEF d
<1>4. SubSeq(d, 3, Len(d)) = s
  <2>1. PICK u \in Seq(Byte) : u = SubSeq(d, 3, Len(d))
    BY <1>1, <1>3, SubSeqProperties
  <2>2. Len(u) = Len(s) /\ \A i \in 1..Len(s) : u[i] = s[i]
    BY <1>1, <1>3, <2>1, SubSeqProperties
  <2> QED
    BY <2>1, <2>2, SeqEqual
<1> QED
  BY <1>3, <1>4 DEF ParseRawDatagram, d

LEMMA JobIsParsed ==
  ASSUME NEW d \in Seq(Byte), NEW c \in Client, Readable(d)
  PROVE  ParseRawDatagram(d, c) \in RawPacketJob
<1>1. Len(d) \in Nat /\ Len(d) >= 2 /\ d[1] \in Byte /\ d[2] \in Byte
  BY ElementOfSeq, LenProperties DEF Readable
<1>2. SubSeq(d, 3, Len(d)) \in Seq(Byte)
  BY <1>1, SubSeqProperties
<1> QED
  BY <1>1, <1>2 DEF ParseRawDatagram, RawPacketJob

LEMMA FilesAreBytes ==
  /\ \A v \in GetLocalVersion : v \in Seq(Byte)
  /\ mapFile \in Seq(Byte) => FullMap \in Seq(Byte)
  /\ <<>> \in Seq(Byte)
<1>1. \A v \in GetLocalVersion : v \in Seq(Byte)
  BY VersionsAssumption DEF GetLocalVersion
<1>2. mapFile \in Seq(Byte) => Append(mapFile, Newline) \in Seq(Byte)
  BY FilesAssumption, AppendProperties
<1> QED
  BY <1>1, <1>2, EmptySeq DEF FullMap

-----------------------------------------------------------------------------
(* Types. *)

LEMMA QueueIsPriority == ASSUME NEW job PROVE QueueOf(job) \in Dispatcher!Priority
BY DEF QueueOf, Dispatcher!Priority

LEMMA NoneIsNone == None \notin RawPacketJob /\ None \notin Seq(Byte)
BY NoneAssumption

LEMMA ClientTypes ==
  ASSUME TypeOK, NEW c \in Client,
         \/ Ask(c) \/ \E d \in Noise : SendNoise(c, d)
         \/ \E r \in replies : r[1] = c /\ (ReadOK(c, r[2]) \/ ReadUpdate(c, r[2]))
  PROVE  TypeOK'
<1>1. CASE Ask(c)
  <2>1. version[c] \in Seq(Byte)
    BY DEF TypeOK
  <2>2. Request(c) \in Seq(Byte)
    BY <2>1, Bytes, DatagramIsRead DEF Request
  <2>3. requests' \in SUBSET (Client \X Seq(Byte))
    BY <1>1, <2>2 DEF Ask, TypeOK
  <2> QED
    BY <1>1, <2>3 DEF Ask, TypeOK, serviceVars, clientVars, files, dispatcherVars
<1>2. ASSUME NEW d \in Noise, SendNoise(c, d) PROVE TypeOK'
  BY <1>2, NoiseAssumption, BoundsAssumption DEF SendNoise, TypeOK,
    serviceVars, files, dispatcherVars
<1>3. ASSUME NEW r \in replies, r[1] = c, ReadOK(c, r[2]) PROVE TypeOK'
  BY <1>3 DEF ReadOK, Arrives, TypeOK, serviceVars, files, dispatcherVars
<1>4. ASSUME NEW r \in replies, r[1] = c, ReadUpdate(c, r[2]) PROVE TypeOK'
  <2>1. PICK packet \in RawPacketJob : packet = ParseRawDatagram(r[2], c)
    BY <1>4, JobIsParsed DEF ReadUpdate, TypeOK
  <2>2. packet.content \in Seq(Byte)
    BY DEF RawPacketJob
  <2>3. /\ announced' \in [Client -> Seq(Byte) \cup {None}]
        /\ map' \in [Client -> Seq(Byte) \cup {None}]
    BY <1>4, <2>1, <2>2 DEF ReadUpdate, TypeOK
  <2>4. version' \in [Client -> Seq(Byte)]
    BY <1>4, <2>3 DEF ReadUpdate, TypeOK
  <2>5. replies' \in SUBSET (Client \X Seq(Byte))
    BY <1>4 DEF ReadUpdate, Arrives, TypeOK
  <2> QED
    BY <1>4, <2>3, <2>4, <2>5 DEF ReadUpdate, TypeOK, serviceVars, files, dispatcherVars
<1> QED
  BY <1>1, <1>2, <1>3, <1>4

LEMMA RunTypes ==
  ASSUME TypeOK,
         Bind \/ BindFails \/ Stop \/ \E r \in requests : Receive(r[1], r[2])
  PROVE  TypeOK'
<1>1. CASE Bind \/ BindFails \/ Stop
  BY <1>1 DEF Bind, BindFails, Stop, Dispatcher!Open, Dispatcher!Abandon,
    Dispatcher!Close, Dispatcher!Lapse, Dispatcher!Closed, TypeOK, clientVars, files
<1>2. ASSUME NEW r \in requests, Receive(r[1], r[2]) PROVE TypeOK'
  <2>1. r[1] \in Client /\ r[2] \in Seq(Byte)
    BY DEF TypeOK
  <2>2. requests' \in SUBSET (Client \X Seq(Byte))
    BY <1>2 DEF Receive, Arrives, TypeOK
  <2>3. CASE Readable(r[2])
    <3>1. PICK job \in RawPacketJob : job = ParseRawDatagram(r[2], r[1])
      BY <2>1, <2>3, JobIsParsed
    <3>2. Dispatcher!Submit(job)
      BY <1>2, <2>3, <3>1 DEF Receive
    <3>3. Append(waiting[QueueOf(job)], job) \in Seq(RawPacketJob)
      BY QueueIsPriority, AppendType DEF TypeOK
    <3> QED
      BY <1>2, <2>2, <3>2, <3>3 DEF Receive, Dispatcher!Submit, TypeOK, clientVars, files
  <2>4. CASE ~Readable(r[2])
    BY <1>2, <2>2, <2>4 DEF Receive, TypeOK, clientVars, files, dispatcherVars
  <2> QED
    BY <2>3, <2>4
<1> QED
  BY <1>1, <1>2

LEMMA SendTypes ==
  ASSUME TypeOK, handler # "idle", NEW t \in {OK, UPDATE, UPDATE_MAP},
         NEW s \in Seq(Byte), SendDatagram(t, s)
  PROVE  /\ fate' \in {"running", "overrun"}
         /\ replies' \in SUBSET (Client \X Seq(Byte))
<1>1. serving.sender \in Client
  BY DEF TypeOK, RawPacketJob
<1>2. CreateRawDatagram(NORMAL, t, s) \in Seq(Byte)
  BY Bytes, DatagramIsRead
<1> QED
  BY <1>1, <1>2 DEF SendDatagram, TypeOK

LEMMA DispatchTypes ==
  ASSUME TypeOK, DispatchThread
  PROVE  TypeOK'
<1>1. ASSUME NEW p \in Dispatcher!Priority, Serve(p) PROVE TypeOK'
  <2>1. Tail(waiting[p]) \in Seq(RawPacketJob) /\ Head(waiting[p]) \in RawPacketJob
    BY <1>1, TailType DEF Serve, Dispatcher!Serve, TypeOK
  <2> QED
    BY <1>1, <2>1, NoneIsNone DEF Serve, Dispatcher!Serve, TypeOK, clientVars, files
<1>2. CASE Drop
  BY <1>2 DEF Drop, Dispatcher!Finish, TypeOK, clientVars, files
<1>3. CASE AnswerOK
  <2>1. SendDatagram(OK, <<>>) /\ handler # "idle"
    BY <1>3 DEF AnswerOK
  <2> QED
    BY <1>3, <2>1, SendTypes, FilesAreBytes
    DEF AnswerOK, HandlerReturns, Dispatcher!Finish, TypeOK, clientVars, files
<1>4. CASE AnswerUpdate
  <2>1. SendDatagram(UPDATE, lastestVersion) /\ handler # "idle"
    BY <1>4 DEF AnswerUpdate
  <2>2. lastestVersion \in Seq(Byte)
    BY DEF TypeOK
  <2>3. fate' \in {"running", "overrun"} /\ replies' \in SUBSET (Client \X Seq(Byte))
    BY <2>1, <2>2, SendTypes
  <2> QED
    BY <1>4, <2>1, <2>3 DEF AnswerUpdate, TypeOK, clientVars, files, dispatcherVars
<1>5. CASE SendFile
  <2>1. SendDatagram(UPDATE_MAP, FullMap) /\ handler # "idle"
    BY <1>5 DEF SendFile
  <2> QED
    BY <1>5, <2>1, SendTypes, FilesAreBytes
    DEF SendFile, HandlerReturns, Dispatcher!Finish, TypeOK, clientVars, files
<1>6. CASE NoMapFile
  BY <1>6 DEF NoMapFile, HandlerReturns, Dispatcher!Finish, TypeOK, clientVars, files
<1> QED
  BY <1>1, <1>2, <1>3, <1>4, <1>5, <1>6 DEF DispatchThread, Handle

LEMMA TypesStep == TypeOK /\ [Next]_vars => TypeOK'
<1> SUFFICES ASSUME TypeOK, [Next]_vars PROVE TypeOK'
  OBVIOUS
<1>1. ASSUME NEW d \in requests \cup replies, Lose(d) PROVE TypeOK'
  BY <1>1 DEF Lose, TypeOK, serviceVars, dispatcherVars, clientVars, files
<1>2. CASE UNCHANGED vars
  BY <1>2 DEF TypeOK, vars, serviceVars, dispatcherVars, clientVars, files
<1> QED
  BY <1>1, <1>2, ClientTypes, RunTypes, DispatchTypes DEF Next, Reads, Done

\* TypeOK.
THEOREM TypeCorrect == Spec => []TypeOK
<1>1. Init => TypeOK
  <2> HAVE Init
  <2>1. waiting \in [Dispatcher!Priority -> Seq(RawPacketJob)]
    BY EmptySeq DEF Init, Dispatcher!SpecInit
  <2>2. /\ version \in [Client -> Seq(Byte)]
        /\ lastestVersion \in Seq(Byte) /\ mapFile \in Seq(Byte)
    <3>1. \A v \in Version : v \in Seq(Byte)
      BY VersionsAssumption
    <3> QED
      BY <3>1, FilesAreBytes, FilesAssumption DEF Init
  <2>3. /\ announced \in [Client -> Seq(Byte) \cup {None}]
        /\ map \in [Client -> Seq(Byte) \cup {None}]
        /\ noise \in 0..MaxNoise
    BY BoundsAssumption DEF Init
  <2>4. /\ serving \in RawPacketJob \cup {None} /\ handler = "idle"
        /\ phase \in {"new", "open", "closing", "closed"} /\ grace \in BOOLEAN
    BY DEF Init, Dispatcher!SpecInit
  <2>5. requests = {} /\ replies = {} /\ settled = {} /\ fate = "running"
    BY DEF Init
  <2> QED
    BY <2>1, <2>2, <2>3, <2>4, <2>5 DEF TypeOK
<1> QED
  BY <1>1, TypesStep, PTL DEF Spec

-----------------------------------------------------------------------------
(* Answers. *)

\* A client that has come to the latest version came with its map.
Came(c) == version[c] = lastestVersion => map[c] # None

\* A request for the latest version comes from a client that has it for good,
\* any other from one that did not start with it.
JobFits(job) ==
  job.type = VERSION =>
    IF job.content = lastestVersion THEN version[job.sender] = lastestVersion
    ELSE Came(job.sender)

AnswerFits(packet) ==
  /\ packet.type = OK => version[packet.sender] = lastestVersion
  /\ packet.type = UPDATE => packet.content = lastestVersion /\ Came(packet.sender)
  /\ packet.type = UPDATE_MAP => packet.content = FullMap

RequestsFit == \A r \in requests : Readable(r[2]) => JobFits(ParseRawDatagram(r[2], r[1]))

QueuesFit ==
  /\ \A p \in Dispatcher!Priority : \A i \in DOMAIN waiting[p] : JobFits(waiting[p][i])
  /\ serving # None => JobFits(serving)
  /\ handler = "sendFile" => Came(serving.sender)

RepliesFit == \A r \in replies : AnswerFits(ParseRawDatagram(r[2], r[1]))

ClientsFit ==
  \A c \in Client :
    /\ announced[c] # None => announced[c] = lastestVersion /\ Came(c)
    /\ map[c] # None => map[c] = FullMap
    /\ c \in settled => version[c] = lastestVersion

AnswerInv ==
  /\ lastestVersion \in GetLocalVersion
  /\ RequestsFit /\ QueuesFit /\ RepliesFit /\ ClientsFit

\* A client never goes back, so what fits fits for good.
Onward ==
  /\ lastestVersion' = lastestVersion /\ FullMap' = FullMap
  /\ \A c \in Client :
       /\ version[c] = lastestVersion => version'[c] = lastestVersion
       /\ Came(c) => Came(c)'

LEMMA StandingStill ==
  ASSUME UNCHANGED <<lastestVersion, mapFile, version, map>>
  PROVE  Onward
BY DEF Onward, Came, FullMap

LEMMA RequestsKept ==
  ASSUME TypeOK, RequestsFit, Onward, requests' \subseteq requests
  PROVE  RequestsFit'
<1> SUFFICES ASSUME NEW r \in requests', Readable(r[2])
             PROVE  JobFits(ParseRawDatagram(r[2], r[1]))'
  BY DEF RequestsFit
<1>1. r \in requests /\ r[1] \in Client
  BY DEF TypeOK
<1>2. JobFits(ParseRawDatagram(r[2], r[1]))
  BY <1>1 DEF RequestsFit
<1> QED
  BY <1>1, <1>2 DEF JobFits, ParseRawDatagram, Onward

LEMMA RepliesKept ==
  ASSUME TypeOK, RepliesFit, Onward, replies' \subseteq replies
  PROVE  RepliesFit'
<1> SUFFICES ASSUME NEW r \in replies'
             PROVE  AnswerFits(ParseRawDatagram(r[2], r[1]))'
  BY DEF RepliesFit
<1>1. r \in replies /\ r[1] \in Client
  BY DEF TypeOK
<1>2. AnswerFits(ParseRawDatagram(r[2], r[1]))
  BY <1>1 DEF RepliesFit
<1> QED
  BY <1>1, <1>2 DEF AnswerFits, ParseRawDatagram, Onward

LEMMA WaitingJobs ==
  ASSUME TypeOK, NEW p \in Dispatcher!Priority, NEW i \in DOMAIN waiting[p]
  PROVE  waiting[p][i] \in RawPacketJob /\ waiting[p][i].sender \in Client
<1>1. waiting[p] \in Seq(RawPacketJob)
  BY DEF TypeOK
<1>2. waiting[p][i] \in RawPacketJob
  BY <1>1, ElementOfSeq, LenProperties
<1> QED
  BY <1>2 DEF RawPacketJob

LEMMA QueuesKept ==
  ASSUME TypeOK, QueuesFit, Onward, UNCHANGED <<waiting, serving, handler>>
  PROVE  QueuesFit'
<1>1. ASSUME NEW p \in Dispatcher!Priority, NEW i \in DOMAIN waiting'[p]
      PROVE  JobFits(waiting[p][i])'
  BY <1>1, WaitingJobs DEF QueuesFit, JobFits, Onward
<1>2. serving # None => JobFits(serving)'
  BY DEF QueuesFit, JobFits, Onward, TypeOK, RawPacketJob
<1>3. handler = "sendFile" => Came(serving.sender)'
  BY DEF QueuesFit, Onward, TypeOK, RawPacketJob, Came
<1> QED
  BY <1>1, <1>2, <1>3 DEF QueuesFit

LEMMA ClientsKept ==
  ASSUME ClientsFit, Onward, UNCHANGED <<announced, map, settled>>
  PROVE  ClientsFit'
BY DEF ClientsFit, Onward

\* What is put on its way to clients fits.
LEMMA AnswersFit ==
  ASSUME TypeOK, AnswerInv, handler # "idle", NEW t \in {OK, UPDATE, UPDATE_MAP},
         NEW s \in Seq(Byte), SendDatagram(t, s),
         t = OK => version[serving.sender] = lastestVersion,
         t = UPDATE => s = lastestVersion /\ Came(serving.sender),
         t = UPDATE_MAP => s = FullMap,
         UNCHANGED <<lastestVersion, mapFile, version, map>>
  PROVE  RepliesFit'
<1> Onward
  BY StandingStill
<1>1. replies' \subseteq replies \cup {<<serving.sender, CreateRawDatagram(NORMAL, t, s)>>}
  BY DEF SendDatagram
<1> t \in Byte /\ NORMAL \in Byte
  BY Bytes
<1>2. PICK d \in Seq(Byte) : d = CreateRawDatagram(NORMAL, t, s)
  BY DatagramIsRead
<1>3. /\ ParseRawDatagram(d, serving.sender).type = t
      /\ ParseRawDatagram(d, serving.sender).content = s
      /\ ParseRawDatagram(d, serving.sender).sender = serving.sender
  BY <1>2, DatagramIsRead
<1>4. AnswerFits(ParseRawDatagram(d, serving.sender))
  BY <1>3 DEF AnswerFits, OK, UPDATE, UPDATE_MAP
<1>5. ASSUME NEW r \in replies' PROVE AnswerFits(ParseRawDatagram(r[2], r[1]))
  BY <1>1, <1>2, <1>4 DEF AnswerInv, RepliesFit
<1>6. ASSUME NEW r \in replies' PROVE AnswerFits(ParseRawDatagram(r[2], r[1]))'
  BY <1>5 DEF AnswerFits, Came, ParseRawDatagram, Onward
<1> QED
  BY <1>6 DEF RepliesFit

LEMMA AskFits ==
  ASSUME TypeOK, AnswerInv, NEW c \in Client, Ask(c)
  PROVE  AnswerInv'
<1>1. /\ UNCHANGED <<lastestVersion, mapFile, version, map, replies, waiting, serving,
                      handler, announced, settled, fate>>
      /\ requests' = requests \cup {<<c, Request(c)>>}
  BY DEF Ask, serviceVars, dispatcherVars, clientVars, files
<1>2. Onward
  BY <1>1, StandingStill
<1>3. version[c] \in Seq(Byte)
  BY DEF TypeOK
<1>4. PICK d \in Seq(Byte) : d = Request(c)
  BY <1>3, Bytes, DatagramIsRead DEF Request
<1>5. /\ ParseRawDatagram(d, c).type = VERSION
      /\ ParseRawDatagram(d, c).content = version[c]
      /\ ParseRawDatagram(d, c).sender = c
  BY <1>3, <1>4, Bytes, DatagramIsRead DEF Request
<1>6. JobFits(ParseRawDatagram(d, c))
  BY <1>5 DEF JobFits, Came
<1>7. ASSUME NEW r \in requests', Readable(r[2])
      PROVE  JobFits(ParseRawDatagram(r[2], r[1]))
  BY <1>1, <1>4, <1>6, <1>7 DEF AnswerInv, RequestsFit
<1>8. ASSUME NEW r \in requests', Readable(r[2])
      PROVE  JobFits(ParseRawDatagram(r[2], r[1]))'
  BY <1>1, <1>7, <1>8 DEF JobFits, Came, ParseRawDatagram
<1> QED
  BY <1>1, <1>2, <1>8, RepliesKept, QueuesKept, ClientsKept DEF AnswerInv, RequestsFit

LEMMA NoiseFits ==
  ASSUME TypeOK, AnswerInv, NEW c \in Client, NEW d \in Noise, SendNoise(c, d)
  PROVE  AnswerInv'
<1>1. /\ UNCHANGED <<lastestVersion, mapFile, version, map, replies, waiting, serving,
                      handler, announced, settled, fate>>
      /\ requests' = requests \cup {<<c, d>>}
  BY DEF SendNoise, serviceVars, files, dispatcherVars
<1>2. Onward
  BY <1>1, StandingStill
<1>3. Readable(d) => JobFits(ParseRawDatagram(d, c))
  BY NoiseAssumption DEF AsksVersion, JobFits, ParseRawDatagram
<1>4. ASSUME NEW r \in requests', Readable(r[2])
      PROVE  JobFits(ParseRawDatagram(r[2], r[1]))
  BY <1>1, <1>3, <1>4 DEF AnswerInv, RequestsFit
<1>5. ASSUME NEW r \in requests', Readable(r[2])
      PROVE  JobFits(ParseRawDatagram(r[2], r[1]))'
  BY <1>1, <1>4, <1>5 DEF JobFits, Came, ParseRawDatagram
<1> QED
  BY <1>1, <1>2, <1>5, RepliesKept, QueuesKept, ClientsKept DEF AnswerInv, RequestsFit

LEMMA ReadFits ==
  ASSUME TypeOK, AnswerInv, NEW c \in Client, NEW r \in replies, r[1] = c,
         ReadOK(c, r[2]) \/ ReadUpdate(c, r[2])
  PROVE  AnswerInv'
<1>1. PICK packet \in RawPacketJob : packet = ParseRawDatagram(r[2], c)
  BY JobIsParsed DEF ReadOK, ReadUpdate, TypeOK
<1>2. AnswerFits(packet) /\ packet.sender = c
  BY <1>1 DEF AnswerInv, RepliesFit, ParseRawDatagram
<1>3. /\ UNCHANGED <<lastestVersion, mapFile, requests, waiting, serving, handler, fate>>
      /\ replies' \subseteq replies
  BY DEF ReadOK, ReadUpdate, Arrives, serviceVars, files, dispatcherVars
<1>4. CASE ReadOK(c, r[2])
  <2>1. packet.type = OK /\ settled' = settled \cup {c}
        /\ UNCHANGED <<version, announced, map>>
    BY <1>1, <1>4 DEF ReadOK
  <2>2. Onward
    BY <1>3, <2>1, StandingStill
  <2>3. ClientsFit'
    BY <1>2, <1>3, <2>1 DEF AnswerInv, ClientsFit, AnswerFits, Came, FullMap
  <2> QED
    BY <1>3, <2>2, <2>3, RequestsKept, RepliesKept, QueuesKept DEF AnswerInv
<1>5. CASE ReadUpdate(c, r[2])
  <2>1. /\ \/ /\ packet.type = UPDATE /\ UNCHANGED map
              /\ announced' = [announced EXCEPT ![c] = packet.content]
           \/ /\ packet.type = UPDATE_MAP /\ UNCHANGED announced
              /\ map' = [map EXCEPT ![c] = packet.content]
        /\ version' = IF announced'[c] # None /\ map'[c] # None
                      THEN [version EXCEPT ![c] = announced'[c]] ELSE version
        /\ UNCHANGED settled
    BY <1>1, <1>5 DEF ReadUpdate
  <2>2. FullMap # None
    BY FilesAreBytes, NoneIsNone DEF TypeOK
  <2>3. /\ announced'[c] \in {announced[c], lastestVersion}
        /\ map'[c] \in {map[c], FullMap}
        /\ announced'[c] # announced[c] => Came(c)
        /\ \A e \in Client \ {c} : announced'[e] = announced[e] /\ map'[e] = map[e]
    BY <1>2, <2>1 DEF AnswerFits, TypeOK
  <2>4. /\ \A e \in Client \ {c} : version'[e] = version[e]
        /\ version'[c] = version[c] \/ (version'[c] = lastestVersion /\ map'[c] # None)
        /\ map[c] # None => map'[c] # None
    <3>1. announced'[c] # None => announced'[c] = lastestVersion
      BY <2>3 DEF AnswerInv, ClientsFit
    <3> QED
      BY <2>1, <2>2, <2>3, <3>1 DEF TypeOK
  <2>5. Onward
    BY <1>3, <2>3, <2>4 DEF Onward, Came, FullMap
  <2>6. ClientsFit'
    <3> SUFFICES ASSUME NEW e \in Client
                 PROVE  /\ announced'[e] # None =>
                             announced'[e] = lastestVersion' /\ Came(e)'
                        /\ map'[e] # None => map'[e] = FullMap'
                        /\ e \in settled' => version'[e] = lastestVersion'
      BY DEF ClientsFit
    <3>1. /\ announced[e] # None => announced[e] = lastestVersion /\ Came(e)
          /\ map[e] # None => map[e] = FullMap
          /\ e \in settled => version[e] = lastestVersion
      BY DEF AnswerInv, ClientsFit
    <3>2. /\ announced'[e] # None => announced'[e] = lastestVersion /\ Came(e)
          /\ map'[e] # None => map'[e] = FullMap
      BY <2>3, <3>1
    <3> QED
      BY <1>3, <2>1, <2>5, <3>1, <3>2 DEF Onward
  <2> QED
    BY <1>3, <2>5, <2>6, RequestsKept, RepliesKept, QueuesKept DEF AnswerInv
<1> QED
  BY <1>4, <1>5

LEMMA ReceiveFits ==
  ASSUME TypeOK, AnswerInv, NEW r \in requests, Receive(r[1], r[2])
  PROVE  AnswerInv'
<1>1. /\ UNCHANGED <<lastestVersion, mapFile, version, map, replies, serving, handler,
                      announced, settled, fate>>
      /\ requests' \subseteq requests
  BY DEF Receive, Arrives, Dispatcher!Submit, dispatcherVars, clientVars, files
<1>2. Onward
  BY <1>1, StandingStill
<1>3. CASE Readable(r[2])
  <2>1. r[1] \in Client /\ r[2] \in Seq(Byte)
    BY DEF TypeOK
  <2>2. PICK job \in RawPacketJob : job = ParseRawDatagram(r[2], r[1])
    BY <1>3, <2>1, JobIsParsed
  <2>3. JobFits(job)
    BY <1>3, <2>2 DEF AnswerInv, RequestsFit
  <2>4. waiting' = [waiting EXCEPT ![QueueOf(job)] = Append(@, job)]
    BY <1>3, <2>2 DEF Receive, Dispatcher!Submit
  <2>5. waiting[QueueOf(job)] \in Seq(RawPacketJob)
    BY QueueIsPriority DEF TypeOK
  <2>6. PICK t \in Seq(RawPacketJob) : t = Append(waiting[QueueOf(job)], job)
    BY <2>5, AppendType
  <2>7. /\ DOMAIN t = 1..(Len(waiting[QueueOf(job)]) + 1)
        /\ DOMAIN waiting[QueueOf(job)] = 1..Len(waiting[QueueOf(job)])
        /\ \A i \in 1..Len(waiting[QueueOf(job)]) : t[i] = waiting[QueueOf(job)][i]
        /\ t[Len(waiting[QueueOf(job)]) + 1] = job
    BY <2>5, <2>6, AppendProperties, LenProperties
  <2>8. ASSUME NEW p \in Dispatcher!Priority, NEW i \in DOMAIN waiting'[p]
        PROVE  JobFits(waiting'[p][i])
    <3>1. CASE p = QueueOf(job)
      <4>1. waiting'[p] = t
        BY <2>4, <2>6, <3>1 DEF TypeOK
      <4> QED
        BY <2>3, <2>5, <2>7, <2>8, <3>1, <4>1, LenProperties DEF AnswerInv, QueuesFit
    <3>2. CASE p # QueueOf(job)
      BY <2>4, <2>8, <3>2 DEF TypeOK, AnswerInv, QueuesFit
    <3> QED
      BY <3>1, <3>2
  <2>9. QueuesFit'
    BY <1>1, <2>8 DEF AnswerInv, QueuesFit, JobFits, Came
  <2> QED
    BY <1>1, <1>2, <2>9, RequestsKept, RepliesKept, ClientsKept DEF AnswerInv
<1>4. CASE ~Readable(r[2])
  <2>1. UNCHANGED waiting
    BY <1>4 DEF Receive, dispatcherVars
  <2> QED
    BY <1>1, <1>2, <2>1, RequestsKept, RepliesKept, QueuesKept, ClientsKept DEF AnswerInv
<1> QED
  BY <1>3, <1>4

LEMMA ServeFits ==
  ASSUME TypeOK, AnswerInv, NEW p \in Dispatcher!Priority, Serve(p)
  PROVE  AnswerInv'
<1>1. /\ UNCHANGED <<lastestVersion, mapFile, version, map, replies, requests, announced,
                      settled, fate>>
      /\ handler' \in {"called", "idle"}
      /\ serving' = Head(waiting[p]) /\ waiting[p] # <<>>
      /\ waiting' = [waiting EXCEPT ![p] = Tail(@)]
  BY DEF Serve, Dispatcher!Serve, clientVars, files
<1>2. Onward
  BY <1>1, StandingStill
<1>3. waiting[p] \in Seq(RawPacketJob)
  BY DEF TypeOK
<1>4. PICK t \in Seq(RawPacketJob) : t = Tail(waiting[p])
  BY <1>1, <1>3, TailType
<1>5. /\ DOMAIN waiting[p] = 1..Len(waiting[p]) /\ Len(waiting[p]) \in Nat
      /\ Head(waiting[p]) = waiting[p][1] /\ Len(waiting[p]) >= 1
      /\ DOMAIN t = 1..(Len(waiting[p]) - 1)
      /\ \A i \in 1..(Len(waiting[p]) - 1) : t[i] = waiting[p][i + 1]
  BY <1>1, <1>3, <1>4, HeadTailProperties, LenProperties, EmptySeq
<1>6. JobFits(serving')
  BY <1>1, <1>5 DEF AnswerInv, QueuesFit
<1>7. ASSUME NEW q \in Dispatcher!Priority, NEW i \in DOMAIN waiting'[q]
      PROVE  JobFits(waiting'[q][i])
  <2>1. CASE q = p
    <3>1. waiting'[q] = t
      BY <1>1, <1>4, <2>1 DEF TypeOK
    <3>2. PICK j \in DOMAIN waiting[p] : t[i] = waiting[p][j]
      BY <1>5, <1>7, <3>1
    <3> QED
      BY <2>1, <3>1, <3>2 DEF AnswerInv, QueuesFit
  <2>2. CASE q # p
    BY <1>1, <1>7, <2>2 DEF TypeOK, AnswerInv, QueuesFit
  <2> QED
    BY <2>1, <2>2
<1>8. QueuesFit'
  BY <1>1, <1>6, <1>7 DEF QueuesFit, JobFits, Came
<1> QED
  BY <1>1, <1>2, <1>8, RequestsKept, RepliesKept, ClientsKept DEF AnswerInv

LEMMA HandleFits ==
  ASSUME TypeOK, AnswerInv, Handle
  PROVE  AnswerInv'
<1>1. UNCHANGED <<lastestVersion, mapFile, version, map, requests, announced, settled,
                  waiting>>
  BY DEF Handle, AnswerOK, AnswerUpdate, SendFile, NoMapFile, Drop, HandlerReturns,
         Dispatcher!Finish, dispatcherVars, clientVars, files
<1>2. Onward
  BY <1>1, StandingStill
<1>3. RequestsFit' /\ ClientsFit' /\ lastestVersion' \in GetLocalVersion
  BY <1>1, <1>2, RequestsKept, ClientsKept DEF AnswerInv
<1>4. ASSUME serving' = None, handler' = "idle" PROVE QueuesFit'
  BY <1>1, <1>4 DEF AnswerInv, QueuesFit, JobFits, Came
<1>5. handler # "idle" => JobFits(serving) /\ serving.type = VERSION
  BY DEF TypeOK, AnswerInv, QueuesFit
<1>6. CASE NoMapFile \/ Drop
  <2>1. UNCHANGED <<fate, replies>> /\ serving' = None /\ handler' = "idle"
    BY <1>6 DEF NoMapFile, Drop, HandlerReturns, Dispatcher!Finish
  <2> QED
    BY <1>2, <1>3, <1>4, <2>1, RepliesKept DEF AnswerInv
<1>10. OK # UPDATE /\ OK # UPDATE_MAP /\ UPDATE # UPDATE_MAP
  BY DEF OK, UPDATE, UPDATE_MAP
<1>7. CASE AnswerOK
  <2>1. /\ handler # "idle" /\ serving' = None /\ handler' = "idle"
        /\ SendDatagram(OK, <<>>) /\ serving.content = lastestVersion
    BY <1>7 DEF AnswerOK, HandlerReturns, Dispatcher!Finish, Current
  <2>2. version[serving.sender] = lastestVersion
    BY <1>5, <2>1 DEF JobFits
  <2>3. RepliesFit'
    BY <1>1, <2>1, <2>2, <1>10, FilesAreBytes, AnswersFit
  <2> QED
    BY <1>3, <1>4, <2>1, <2>3 DEF AnswerInv
<1>8. CASE AnswerUpdate
  <2>1. /\ handler # "idle" /\ handler' = "sendFile" /\ UNCHANGED serving
        /\ SendDatagram(UPDATE, lastestVersion) /\ serving.content # lastestVersion
    BY <1>8 DEF AnswerUpdate, Current, dispatcherVars
  <2>2. Came(serving.sender)
    BY <1>5, <2>1 DEF JobFits
  <2>3. lastestVersion \in Seq(Byte)
    BY FilesAreBytes DEF AnswerInv
  <2>4. RepliesFit'
    BY <1>1, <2>1, <2>2, <2>3, AnswersFit DEF OK, UPDATE, UPDATE_MAP
  <2>5. QueuesFit'
    BY <1>1, <2>1, <2>2 DEF AnswerInv, QueuesFit, JobFits, Came
  <2> QED
    BY <1>3, <2>4, <2>5 DEF AnswerInv
<1>9. CASE SendFile
  <2>1. /\ handler # "idle" /\ serving' = None /\ handler' = "idle"
        /\ SendDatagram(UPDATE_MAP, FullMap)
    BY <1>9 DEF SendFile, HandlerReturns, Dispatcher!Finish
  <2>2. RepliesFit'
    BY <1>1, <2>1, FilesAreBytes, AnswersFit DEF OK, UPDATE, UPDATE_MAP, TypeOK
  <2> QED
    BY <1>3, <1>4, <2>1, <2>2 DEF AnswerInv
<1> QED
  BY <1>6, <1>7, <1>8, <1>9 DEF Handle

LEMMA AnswerStep == TypeOK /\ AnswerInv /\ [Next]_vars => AnswerInv'
<1> SUFFICES ASSUME TypeOK, AnswerInv, [Next]_vars PROVE AnswerInv'
  OBVIOUS
<1>1. ASSUME /\ UNCHANGED <<lastestVersion, mapFile, version, map, waiting, serving,
                            handler, announced, settled, fate>>
             /\ requests' \subseteq requests /\ replies' \subseteq replies
      PROVE  AnswerInv'
  BY <1>1, StandingStill, RequestsKept, RepliesKept, QueuesKept, ClientsKept DEF AnswerInv
<1>2. ASSUME NEW d \in requests \cup replies, Lose(d) PROVE AnswerInv'
  BY <1>1, <1>2 DEF Lose, serviceVars, dispatcherVars, clientVars, files
<1>3. CASE Bind \/ BindFails \/ Stop
  BY <1>1, <1>3 DEF Bind, BindFails, Stop, Dispatcher!Open, Dispatcher!Abandon,
    Dispatcher!Close, Dispatcher!Lapse, Dispatcher!Closed, clientVars, files
<1>4. CASE UNCHANGED vars
  BY <1>1, <1>4 DEF vars, serviceVars, dispatcherVars, clientVars, files
<1>5. CASE \E c \in Client : Reads(c)
  BY <1>5, ReadFits DEF Reads
<1>6. CASE DispatchThread
  BY <1>6, HandleFits, ServeFits DEF DispatchThread
<1> QED
  BY <1>2, <1>3, <1>4, <1>5, <1>6, AskFits, NoiseFits, ReceiveFits DEF Next, Done

LEMMA AnswersKept == Spec => []AnswerInv
<1>1. Init => AnswerInv
  <2> HAVE Init
  <2>1. /\ lastestVersion \in GetLocalVersion /\ handler = "idle"
        /\ requests = {} /\ replies = {} /\ settled = {} /\ serving = None
        /\ waiting = [p \in Dispatcher!Priority |-> <<>>]
        /\ announced = [c \in Client |-> None] /\ map = [c \in Client |-> None]
    BY DEF Init, Dispatcher!SpecInit
  <2> QED
    BY <2>1 DEF AnswerInv, RequestsFit, QueuesFit, RepliesFit, ClientsFit
<1> QED
  BY <1>1, AnswerStep, TypeCorrect, PTL DEF Spec

\* SettledIsUpToDate: OK never follows half an update.
THEOREM UpToDate == Spec => []SettledIsUpToDate
<1>1. AnswerInv /\ TypeOK => SettledIsUpToDate
  BY DEF AnswerInv, ClientsFit, Came, SettledIsUpToDate, TypeOK
<1> QED
  BY <1>1, AnswersKept, TypeCorrect, PTL

=============================================================================

---------------------------- MODULE Matchmaking ----------------------------
(***************************************************************************)
(* MatchmakingServer.{h,cpp} and StartMatchData.h: players queue up, full  *)
(* groups become match creations the game server has to accept, accepted   *)
(* creations become sessions whose players have to acknowledge.            *)
(*                                                                         *)
(* Two threads work on this state and no lock protects it.  The thread of  *)
(* Run walks through the queues and lists on every tick; the dispatch      *)
(* thread runs one packet handler at a time.  A handler is one step, and   *)
(* so is one round of a loop of the main thread.  A handler that changes a *)
(* container whose round the main thread is at may come before that round  *)
(* or overlap with it.  When they overlap, or when a handler moves the     *)
(* elements under the main thread's iterator, the behaviour of the program *)
(* is undefined: fate records it and the model ends there.                 *)
(*                                                                         *)
(* Clocks are read nondeterministically.  A player is its ip and port; its *)
(* playerID is its seat in the match, and the fields of PendingMatch that  *)
(* are the same for all players of a session are kept once per session.    *)
(***************************************************************************)
EXTENDS Naturals, Sequences, FiniteSets, SequencesExt

CONSTANTS
  Endpoint,         \* the ip and port of every client
  PlayersPerMatch,  \* _playersPerMatch
  MaxAttempts,      \* CREATE_MATCH datagrams sent before a creation is given up
  MAX_RETRIES,      \* MATCH_FOUND resends before a session is given up
  MaxMatchID,       \* bound of the model: match ids given out
  QueueBound        \* bound of the model: players waiting after a FIND_MATCH

ASSUME PlayersPerMatchAssumption == PlayersPerMatch \in Nat \ {0}
ASSUME MaxAttemptsAssumption == MaxAttempts \in Nat
ASSUME MaxRetriesAssumption == MAX_RETRIES \in Nat
ASSUME MaxMatchIDAssumption == MaxMatchID \in Nat
ASSUME QueueBoundAssumption == QueueBound \in Nat

MatchType == {"NORMAL", "RANKED"}
MatchID == 1..MaxMatchID

StartMatchData == [matchID : MatchID, type : MatchType, players : Seq(Endpoint)]
PendingMatchCreation ==
  [matchData : StartMatchData, serialized : StartMatchData, attempts : 0..MaxAttempts]
PendingMatch == [player : Endpoint, retries : 0..MAX_RETRIES, ackRecieved : BOOLEAN]
MatchSession == [matchID : MatchID, type : MatchType, players : Seq(PendingMatch)]

(***************************************************************************)
(* What the server sends about matches (SEARCH_ACK and OK, which answer    *)
(* every search and every cancellation, are not recorded).  A datagram is  *)
(* read back by ParseRawDatagram, which takes its second byte for the      *)
(* packet type: the bare text of a resent message, "192...", has none of   *)
(* the types.                                                              *)
(***************************************************************************)
CreateMatch(data) == [packet |-> "CREATE_MATCH", data |-> data]
Found(packet, c, id, seat) ==
  [packet |-> packet, to |-> c, matchID |-> id, seat |-> seat]

Datagram ==
  [packet : {"CREATE_MATCH"}, data : StartMatchData]
    \cup [packet : {"MATCH_FOUND", "untyped"}, to : Endpoint, matchID : MatchID, seat : Nat]

VARIABLES
  queue,                  \* _normalQueue and _rankedQueue
  lastMatchID,            \* _lastMatchID
  pendingMatchCreations,  \* _pendingMatchCreations
  pendingSessions,        \* _pendingSessions
  mainPc,                 \* where the thread of Run is
  cursor,                 \* the position of its iterator
  sent,                   \* every datagram about a match sent so far
  fate                    \* "running", or how the process went wrong

vars == <<queue, lastMatchID, pendingMatchCreations, pendingSessions,
          mainPc, cursor, sent, fate>>
mainVars == <<mainPc, cursor>>
listVars == <<lastMatchID, pendingMatchCreations, pendingSessions>>

Init ==
  /\ queue = [t \in MatchType |-> <<>>]
  /\ lastMatchID = 0
  /\ pendingMatchCreations = <<>>
  /\ pendingSessions = <<>>
  /\ mainPc = "receive" /\ cursor = 1
  /\ sent = {}
  /\ fate = "running"

Players(session) == [s \in DOMAIN session.players |-> session.players[s].player]
Acked(session) == {s \in DOMAIN session.players : session.players[s].ackRecieved}

\* The entries of q at the positions in kept, in their order.
At(q, kept) ==
  LET Nth(n) == CHOOSE i \in kept : Cardinality({k \in kept : k <= i}) = n
  IN [n \in 1..Cardinality(kept) |-> q[Nth(n)]]

Without(q, c) == At(q, {i \in DOMAIN q : q[i] # c})

-----------------------------------------------------------------------------
(* The packet handlers, run by the dispatch thread. *)

Handler == fate = "running" /\ mainPc # "stopped" /\ UNCHANGED mainPc

GroupReady(t) == Len(queue[t]) >= PlayersPerMatch

\* The rounds of ProcessMatchCreations: the creation at the iterator was
\* touched less than 500 ms ago, or it is given up, or it is sent.
AtCreation == mainPc = "creations" /\ cursor \in DOMAIN pendingMatchCreations
AllAttempts == AtCreation /\ pendingMatchCreations[cursor].attempts >= MaxAttempts

\* What the round the main thread is at works on.
MainAtQueues == mainPc \in MatchType \cup {"requeue"} \/ AllAttempts
MainAtCreations ==
  mainPc = "creations" \/ \E t \in MatchType : mainPc = t /\ GroupReady(t)
MainAtSession == mainPc \in {"acks", "requeue"} /\ cursor \in DOMAIN pendingSessions

\* How a handler ends that changes what the main thread may be working on.
Raced(overlap) == {"running"} \cup (IF overlap THEN {"undefined"} ELSE {})

FindMatch(c, t) ==
  /\ Handler
  /\ Len(queue["NORMAL"]) + Len(queue["RANKED"]) < QueueBound
  /\ queue' = [queue EXCEPT ![t] = Append(@, c)]
  /\ fate' \in Raced(MainAtQueues)
  /\ UNCHANGED <<listVars, cursor, sent>>

CancelSearch(c) ==
  /\ Handler
  /\ queue' = [t \in MatchType |-> Without(queue[t], c)]
  /\ fate' \in Raced(MainAtQueues)
  /\ UNCHANGED <<listVars, cursor, sent>>

Marked(p, c) == IF p.player = c THEN [p EXCEPT !.ackRecieved = TRUE] ELSE p

\* Acknowledges every session the sender has a seat in.
AckMatchFound(c) ==
  /\ Handler
  /\ pendingSessions' =
       [i \in DOMAIN pendingSessions |->
          [pendingSessions[i] EXCEPT !.players =
             [s \in DOMAIN @ |-> Marked(@[s], c)]]]
  /\ fate' \in Raced(MainAtSession)
  /\ UNCHANGED <<queue, lastMatchID, pendingMatchCreations, cursor, sent>>

\* Mutant of IsCreation: the first creation is taken for any id.
IsFirstCreation(i, id) ==
  /\ i \in DOMAIN pendingMatchCreations
  /\ \A k \in 1..(i - 1) : pendingMatchCreations[k].matchData.matchID # id

\* The creation a handler finds for a match id: the first one that has it.
IsCreation(i, id) ==
  /\ i \in DOMAIN pendingMatchCreations
  /\ pendingMatchCreations[i].matchData.matchID = id
  /\ \A k \in 1..(i - 1) : pendingMatchCreations[k].matchData.matchID # id

NewSession(data) ==
  [matchID |-> data.matchID, type |-> data.type,
   players |-> [s \in DOMAIN data.players |->
                  [player |-> data.players[s], retries |-> 0, ackRecieved |-> FALSE]]]

MatchFoundTo(data) ==
  {Found("MATCH_FOUND", data.players[s], data.matchID, s) : s \in DOMAIN data.players}

(***************************************************************************)
(* Erasing creation i invalidates an iterator at i or behind it.  At the   *)
(* sessions, push_back invalidates every iterator if it has to move them   *)
(* to a larger block, which depends on a capacity that is not modelled.    *)
(***************************************************************************)
Fates(i) == IF mainPc = "creations" /\ cursor >= i THEN {"undefined"}
            ELSE Raced(MainAtCreations \/ mainPc \in {"acks", "requeue"})

\* Mutant of MatchUnique: the accepted creation stays in the list.
MatchUniqueKept(i, id) ==
  /\ Handler
  /\ IsCreation(i, id)
  /\ LET data == pendingMatchCreations[i].matchData
     IN /\ sent' = sent \cup MatchFoundTo(data)
        /\ pendingSessions' = Append(pendingSessions, NewSession(data))
  /\ fate' \in Fates(i)
  /\ UNCHANGED <<queue, lastMatchID, pendingMatchCreations, cursor>>

MatchUnique(i, id) ==
  /\ Handler
  /\ IsCreation(i, id)
  /\ LET data == pendingMatchCreations[i].matchData
     IN /\ sent' = sent \cup MatchFoundTo(data)
        /\ pendingSessions' = Append(pendingSessions, NewSession(data))
  /\ pendingMatchCreations' = RemoveAt(pendingMatchCreations, i)
  /\ fate' \in Fates(i)
  /\ UNCHANGED <<queue, lastMatchID, cursor>>

\* Mutant of MatchUsed: the fresh id is not counted.
MatchUsedUncounted(i, id) ==
  /\ Handler
  /\ IsCreation(i, id)
  /\ lastMatchID < MaxMatchID
  /\ LET data == [pendingMatchCreations[i].matchData EXCEPT !.matchID = lastMatchID + 1]
     IN pendingMatchCreations' = [pendingMatchCreations EXCEPT ![i] =
          [matchData |-> data, serialized |-> data, attempts |-> 0]]
  /\ fate' \in Raced(MainAtCreations)
  /\ UNCHANGED <<queue, lastMatchID, pendingSessions, cursor, sent>>

\* The game server knows the id already: the creation gets a fresh one.
MatchUsed(i, id) ==
  /\ Handler
  /\ IsCreation(i, id)
  /\ lastMatchID < MaxMatchID
  /\ lastMatchID' = lastMatchID + 1
  /\ LET data == [pendingMatchCreations[i].matchData EXCEPT !.matchID = lastMatchID']
     IN pendingMatchCreations' = [pendingMatchCreations EXCEPT ![i] =
          [matchData |-> data, serialized |-> data, attempts |-> 0]]
  /\ fate' \in Raced(MainAtCreations)
  /\ UNCHANGED <<queue, pendingSessions, cursor, sent>>

\* MATCH_UNIQUE and MATCH_USED look through the list when no creation has the id.
LookInVain(id) ==
  /\ Handler
  /\ \A i \in DOMAIN pendingMatchCreations : ~IsCreation(i, id)
  /\ fate' \in Raced(MainAtCreations)
  /\ UNCHANGED <<queue, listVars, cursor, sent>>

\* std::stoi throws on a content that is no number; nothing catches it.
BadMatchID ==
  /\ Handler
  /\ pendingMatchCreations # <<>>
  /\ fate' = "aborted"
  /\ UNCHANGED <<queue, listVars, cursor, sent>>

-----------------------------------------------------------------------------
(* The thread of Run. *)

Main(pc) == fate = "running" /\ mainPc = pc /\ UNCHANGED fate

\* More than 100 ms passed since the last tick.
Tick ==
  /\ Main("receive")
  /\ mainPc' = "NORMAL"
  /\ UNCHANGED <<queue, listVars, cursor, sent>>

\* The service is told to stop: Run leaves its loop and stops the dispatcher.
Leave ==
  /\ Main("receive")
  /\ mainPc' = "stopped"
  /\ UNCHANGED <<queue, listVars, cursor, sent>>

\* Mutant of FormMatch: the last player of the group stays in the queue.
FormMatchLeavingOne(t) ==
  /\ Main(t)
  /\ GroupReady(t)
  /\ lastMatchID < MaxMatchID
  /\ lastMatchID' = lastMatchID + 1
  /\ LET data == [matchID |-> lastMatchID', type |-> t,
                  players |-> SubSeq(queue[t], 1, PlayersPerMatch)]
     IN pendingMatchCreations' =
          Append(pendingMatchCreations,
                 [matchData |-> data, serialized |-> data, attempts |-> 0])
  /\ queue' = [queue EXCEPT ![t] = SubSeq(@, PlayersPerMatch, Len(@))]
  /\ UNCHANGED <<pendingSessions, mainVars, sent>>

\* One round of the loop of ProcessMatchmaking.
FormMatch(t) ==
  /\ Main(t)
  /\ GroupReady(t)
  /\ lastMatchID < MaxMatchID
  /\ lastMatchID' = lastMatchID + 1
  /\ LET data == [matchID |-> lastMatchID', type |-> t,
                  players |-> SubSeq(queue[t], 1, PlayersPerMatch)]
     IN pendingMatchCreations' =
          Append(pendingMatchCreations,
                 [matchData |-> data, serialized |-> data, attempts |-> 0])
  /\ queue' = [queue EXCEPT ![t] = SubSeq(@, PlayersPerMatch + 1, Len(@))]
  /\ UNCHANGED <<pendingSessions, mainVars, sent>>

\* Mutant of NoMatch: the ranked queue is never looked at.
NoMatchNormalOnly(t) ==
  /\ Main(t)
  /\ ~GroupReady(t) \/ lastMatchID = MaxMatchID
  /\ mainPc' = "creations"
  /\ cursor' = 1
  /\ UNCHANGED <<queue, listVars, sent>>

\* Its end: too few players are left, or the model is out of match ids.
NoMatch(t) ==
  /\ Main(t)
  /\ ~GroupReady(t) \/ lastMatchID = MaxMatchID
  /\ mainPc' = IF t = "NORMAL" THEN "RANKED" ELSE "creations"
  /\ cursor' = 1
  /\ UNCHANGED <<queue, listVars, sent>>

SkipCreation ==
  /\ Main("creations") /\ AtCreation
  /\ cursor' = cursor + 1
  /\ UNCHANGED <<queue, listVars, mainPc, sent>>

\* Mutant of GiveUpCreation: everybody returns to the normal queue.
GiveUpCreationToNormal ==
  /\ Main("creations") /\ AtCreation
  /\ LET creation == pendingMatchCreations[cursor]
     IN /\ creation.attempts >= MaxAttempts
        /\ queue' = [queue EXCEPT !["NORMAL"] = @ \o creation.matchData.players]
  /\ pendingMatchCreations' = RemoveAt(pendingMatchCreations, cursor)
  /\ UNCHANGED <<lastMatchID, pendingSessions, mainVars, sent>>

\* Mutant of GiveUpCreation: the iterator is moved on although the erased
\* creation made the next one move up.
GiveUpCreationAndNext ==
  /\ Main("creations") /\ AtCreation
  /\ LET creation == pendingMatchCreations[cursor]
     IN /\ creation.attempts >= MaxAttempts
        /\ queue' = [queue EXCEPT ![creation.matchData.type] =
                       @ \o creation.matchData.players]
  /\ pendingMatchCreations' = RemoveAt(pendingMatchCreations, cursor)
  /\ cursor' = cursor + 1
  /\ UNCHANGED <<lastMatchID, pendingSessions, mainPc, sent>>

GiveUpCreation ==
  /\ Main("creations") /\ AtCreation
  /\ LET creation == pendingMatchCreations[cursor]
     IN /\ creation.attempts >= MaxAttempts
        /\ queue' = [queue EXCEPT ![creation.matchData.type] =
                       @ \o creation.matchData.players]
  /\ pendingMatchCreations' = RemoveAt(pendingMatchCreations, cursor)
  /\ UNCHANGED <<lastMatchID, pendingSessions, mainVars, sent>>

\* Mutant of SendCreation: the attempt is not counted.
SendCreationUncounted ==
  /\ Main("creations") /\ AtCreation
  /\ pendingMatchCreations[cursor].attempts < MaxAttempts
  /\ sent' = sent \cup {CreateMatch(pendingMatchCreations[cursor].serialized)}
  /\ cursor' = cursor + 1
  /\ UNCHANGED <<queue, listVars, mainPc>>

SendCreation ==
  /\ Main("creations") /\ AtCreation
  /\ pendingMatchCreations[cursor].attempts < MaxAttempts
  /\ sent' = sent \cup {CreateMatch(pendingMatchCreations[cursor].serialized)}
  /\ pendingMatchCreations' = [pendingMatchCreations EXCEPT ![cursor].attempts = @ + 1]
  /\ cursor' = cursor + 1
  /\ UNCHANGED <<queue, lastMatchID, pendingSessions, mainPc>>

CreationsDone ==
  /\ Main("creations")
  /\ cursor \notin DOMAIN pendingMatchCreations
  /\ mainPc' = "acks" /\ cursor' = 1
  /\ UNCHANGED <<queue, listVars, sent>>

(***************************************************************************)
(* The rounds of ProcessMatchSessionsACKS.  due holds the seats whose      *)
(* timer has passed RESEND_INTERVAL.  The first due player that has had    *)
(* all its retries ends the round, after the resends to the seats before.  *)
(***************************************************************************)
AtSession == mainPc = "acks" /\ cursor \in DOMAIN pendingSessions

Waiting(session) == DOMAIN session.players \ Acked(session)
\* Mutant of Exhausted: one retry too many.
ExhaustedLater(session) ==
  {s \in Waiting(session) : session.players[s].retries > MAX_RETRIES}
Exhausted(session) == {s \in Waiting(session) : session.players[s].retries >= MAX_RETRIES}

Retried(p) == [p EXCEPT !.retries = @ + 1]

\* Mutant of Resend: the retry is not counted.
ResendUncounted(session, seats) ==
  /\ sent' = sent \cup {Found("untyped", session.players[s].player, session.matchID, s) :
                          s \in seats}
  /\ UNCHANGED pendingSessions

\* Sends the message again to the players in seats, without a header.
Resend(session, seats) ==
  /\ sent' = sent \cup {Found("untyped", session.players[s].player, session.matchID, s) :
                          s \in seats}
  /\ pendingSessions' = [pendingSessions EXCEPT ![cursor].players =
       [s \in DOMAIN @ |-> IF s \in seats THEN Retried(@[s]) ELSE @[s]]]

AwaitAcks(due) ==
  /\ Main("acks") /\ AtSession
  /\ LET session == pendingSessions[cursor]
     IN /\ Waiting(session) # {}
        /\ due \subseteq Waiting(session) \ Exhausted(session)
        /\ Resend(session, due)
  /\ cursor' = cursor + 1
  /\ UNCHANGED <<queue, lastMatchID, pendingMatchCreations, mainPc>>

GiveUpSession(due, last) ==
  /\ Main("acks") /\ AtSession
  /\ LET session == pendingSessions[cursor]
     IN /\ last \in Exhausted(session)
        /\ due \subseteq {s \in Waiting(session) \ Exhausted(session) : s < last}
        /\ Resend(session, due)
  /\ mainPc' = "requeue"
  /\ UNCHANGED <<queue, lastMatchID, pendingMatchCreations, cursor>>

\* RemoveSessionAndReQueue: the players that have acknowledged by now.
Requeue ==
  /\ Main("requeue")
  /\ LET session == pendingSessions[cursor]
     IN queue' = [queue EXCEPT ![session.type] =
                    @ \o At(Players(session), Acked(session))]
  /\ pendingSessions' = RemoveAt(pendingSessions, cursor)
  /\ mainPc' = "acks"
  /\ UNCHANGED <<lastMatchID, pendingMatchCreations, cursor, sent>>

StartMatch ==
  /\ Main("acks") /\ AtSession
  /\ Waiting(pendingSessions[cursor]) = {}
  /\ pendingSessions' = RemoveAt(pendingSessions, cursor)
  /\ UNCHANGED <<queue, lastMatchID, pendingMatchCreations, mainVars, sent>>

SessionsDone ==
  /\ Main("acks")
  /\ cursor \notin DOMAIN pendingSessions
  /\ mainPc' = "receive" /\ cursor' = 1
  /\ UNCHANGED <<queue, listVars, sent>>

-----------------------------------------------------------------------------
\* The process is gone, or nothing more can be said about it.
Over ==
  /\ fate # "running" \/ mainPc = "stopped"
  /\ UNCHANGED vars

-----------------------------------------------------------------------------
DispatchThread ==
  \/ \E c \in Endpoint, t \in MatchType : FindMatch(c, t)
  \/ \E c \in Endpoint : CancelSearch(c)
  \/ \E c \in Endpoint : AckMatchFound(c)
  \/ \E id \in MatchID : \E i \in DOMAIN pendingMatchCreations : MatchUnique(i, id)
  \/ \E id \in MatchID : \E i \in DOMAIN pendingMatchCreations : MatchUsed(i, id)
  \/ \E id \in MatchID : LookInVain(id)
  \/ BadMatchID

MainLoop ==
  \/ Tick
  \/ \E t \in MatchType : FormMatch(t)
  \/ \E t \in MatchType : NoMatch(t)
  \/ SkipCreation
  \/ GiveUpCreation
  \/ SendCreation
  \/ CreationsDone
  \/ \E due \in SUBSET (1..PlayersPerMatch) : AwaitAcks(due)
  \/ \E due \in SUBSET (1..PlayersPerMatch), last \in 1..PlayersPerMatch :
       GiveUpSession(due, last)
  \/ Requeue
  \/ StartMatch
  \/ SessionsDone

Next == DispatchThread \/ MainLoop \/ Leave \/ Over

Spec == Init /\ [][Next]_vars

(***************************************************************************)
(* The main thread never blocks, and a clock that is not restarted passes  *)
(* its limit after a few ticks, so a creation or a session that the main   *)
(* thread comes by again and again is not found too young for ever.        *)
(* Packets are never owed.                                                 *)
(***************************************************************************)
CreationDue(id) ==
  /\ SendCreation \/ GiveUpCreation
  /\ pendingMatchCreations[cursor].matchData.matchID = id

SessionDue(id) ==
  /\ \/ \E due \in (SUBSET (1..PlayersPerMatch)) \ {{}} : AwaitAcks(due)
     \/ \E due \in SUBSET (1..PlayersPerMatch), last \in 1..PlayersPerMatch :
          GiveUpSession(due, last)
  /\ pendingSessions[cursor].matchID = id

Fairness == /\ WF_vars(MainLoop)
            /\ \A id \in MatchID : SF_vars(CreationDue(id)) /\ SF_vars(SessionDue(id))

FairSpec == Spec /\ Fairness

-----------------------------------------------------------------------------
(* Properties. *)

\* Type correctness of the server's state.
TypeOK ==
  /\ queue \in [MatchType -> Seq(Endpoint)]
  /\ lastMatchID \in 0..MaxMatchID
  /\ pendingMatchCreations \in Seq(PendingMatchCreation)
  /\ pendingSessions \in Seq(MatchSession)
  /\ mainPc \in {"receive", "creations", "acks", "requeue", "stopped"} \cup MatchType
  /\ cursor \in Nat \ {0}
  /\ sent \subseteq Datagram
  /\ fate \in {"running", "undefined", "aborted"}

\* A match id belongs to one pending creation or one pending session, however
\* creations are renamed, accepted and given up meanwhile, so MATCH_UNIQUE and
\* MATCH_USED, which stop at the first hit, find the match they are about.
MatchIDsAreUnique ==
  /\ \A i, j \in DOMAIN pendingMatchCreations :
       pendingMatchCreations[i].matchData.matchID =
         pendingMatchCreations[j].matchData.matchID => i = j
  /\ \A i, j \in DOMAIN pendingSessions :
       pendingSessions[i].matchID = pendingSessions[j].matchID => i = j
  /\ \A i \in DOMAIN pendingMatchCreations, j \in DOMAIN pendingSessions :
       pendingMatchCreations[i].matchData.matchID # pendingSessions[j].matchID

\* Whatever was sent about one match id is about one group: every CREATE_MATCH
\* with it lists the same players of the same kind of match, and a client told
\* of it by MATCH_FOUND, at once or later, is the player of that seat.
OneGroupPerMatchID ==
  \A d \in sent : d.packet = "CREATE_MATCH" =>
    \A e \in sent :
      /\ e.packet = "CREATE_MATCH" /\ e.data.matchID = d.data.matchID => e.data = d.data
      /\ e.packet \in {"MATCH_FOUND", "untyped"} /\ e.matchID = d.data.matchID =>
           e.seat \in DOMAIN d.data.players /\ e.to = d.data.players[e.seat]

\* How often a client stands in the queue for t, in the creations and in the
\* sessions of type t.
Holds(c, t) ==
  Cardinality({i \in DOMAIN queue[t] : queue[t][i] = c})
    + Cardinality({p \in (DOMAIN pendingMatchCreations) \X (1..PlayersPerMatch) :
                     /\ pendingMatchCreations[p[1]].matchData.type = t
                     /\ pendingMatchCreations[p[1]].matchData.players[p[2]] = c})
    + Cardinality({p \in (DOMAIN pendingSessions) \X (1..PlayersPerMatch) :
                     /\ pendingSessions[p[1]].type = t
                     /\ pendingSessions[p[1]].players[p[2]].player = c})

\* Nobody is lost, doubled or moved to the other kind of match on the way
\* through queue, creation, session and back: a client's places grow by one at
\* its FIND_MATCH, and shrink only when it cancels, when its match starts, or
\* when its session is given up and it has not acknowledged, as long as the
\* behaviour is defined.
PlayersAreConserved ==
  [][fate' = "running" =>
       \A c \in Endpoint, t \in MatchType :
         LET before == Holds(c, t)
             after == Holds(c, t)'
         IN /\ after > before => FindMatch(c, t) /\ after = before + 1
            /\ after < before =>
                 \/ CancelSearch(c)
                 \/ StartMatch
                 \/ /\ Requeue
                    /\ \E s \in Waiting(pendingSessions[cursor]) :
                         pendingSessions[cursor].players[s].player = c]_vars

CreationIDs ==
  [i \in DOMAIN pendingMatchCreations |-> pendingMatchCreations[i].matchData.matchID]
SessionIDs == [i \in DOMAIN pendingSessions |-> pendingSessions[i].matchID]

\* The ids an iterator at position at has not passed.
Ahead(ids, at) == {ids[i] : i \in {k \in DOMAIN ids : k >= at}}

\* A step of a walk: an id leaves what is ahead when the iterator is at it, or
\* when it leaves the list, and comes to it only when it comes to the list.
Walks(ids, at, idsAfter, atAfter) ==
  /\ \A id \in Ahead(ids, at) \ Ahead(idsAfter, atAfter) :
       id = ids[at] \/ id \notin Ahead(idsAfter, 1)
  /\ \A id \in Ahead(idsAfter, atAfter) \ Ahead(ids, at) : id \notin Ahead(ids, 1)

\* The loops that erase under their own iterator (MatchmakingServer.cpp:218, 267)
\* look at every creation and every session once a tick: none is passed over
\* and none is met twice, whatever handlers rename, accept and append
\* meanwhile, as long as the behaviour is defined.
NonePassedOver ==
  [][fate' = "running" =>
       /\ mainPc = "creations" =>
            IF mainPc' = "creations" THEN Walks(CreationIDs, cursor, CreationIDs', cursor')
            ELSE Ahead(CreationIDs, cursor) = {}
       /\ mainPc \in {"acks", "requeue"} =>
            IF mainPc' \in {"acks", "requeue"} THEN Walks(SessionIDs, cursor, SessionIDs', cursor')
            ELSE Ahead(SessionIDs, cursor) = {}]_vars

Proposals ==
  [i \in DOMAIN pendingMatchCreations |->
     [type |-> pendingMatchCreations[i].matchData.type,
      players |-> pendingMatchCreations[i].matchData.players]]
Announcements ==
  [i \in DOMAIN pendingSessions |->
     [type |-> pendingSessions[i].type, players |-> Players(pendingSessions[i])]]

Promise == INSTANCE Lobby WITH
  waiting <- queue, proposed <- Proposals, announced <- Announcements

\* Matchmaking does with its players what Lobby promises, whatever becomes of
\* match ids, attempts, retries and acknowledgements: groups are the head of a
\* queue, one kind of match is not mixed with the other, and who returns to a
\* queue returns behind those who wait, once, and in order.
GroupsAsPromised == Promise!LobbySpec

Ended == fate # "running" \/ mainPc = "stopped"

\* Every match id announced or about to be is settled: the game server takes
\* it, it is replaced by a fresh one, or the attempts run out and the players
\* go back to the queue.
CreationsAreSettled ==
  \A id \in MatchID :
    (\E i \in DOMAIN pendingMatchCreations :
        pendingMatchCreations[i].matchData.matchID = id) ~>
      (Ended \/ \A i \in DOMAIN pendingMatchCreations :
                  pendingMatchCreations[i].matchData.matchID # id)

\* Every session comes to an end, whatever acknowledgements are lost: its
\* match starts, or its retries run out.
SessionsAreSettled ==
  \A id \in MatchID :
    (\E i \in DOMAIN pendingSessions : pendingSessions[i].matchID = id) ~>
      (Ended \/ \A i \in DOMAIN pendingSessions : pendingSessions[i].matchID # id)

\* Enough waiting players are not left waiting: a group is taken from their
\* queue, or its players cancel.
GroupsAreFormed ==
  \A t \in MatchType :
    GroupReady(t) ~> (Ended \/ ~GroupReady(t) \/ lastMatchID = MaxMatchID)
=============================================================================

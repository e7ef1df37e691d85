----------------------- MODULE MatchmakingSystemProofs ----------------------
(***************************************************************************)
(* Matchmaking and those around it.                                        *)
(*                                                                         *)
(* First: Matchmaking implements Lobby.  Each step of the service is one   *)
(* step of Lobby or changes nothing that Lobby sees: match ids, attempts,  *)
(* retries, acknowledgements and the place of the main thread are          *)
(* invisible to it.                                                        *)
(*                                                                         *)
(* Second: the places a client holds in a queue and in the groups Lobby    *)
(* sees are counted; only the searches, the cancellations and the ends of  *)
(* matches change that number.                                             *)
(*                                                                         *)
(* Third: what players are told and what sessions wait for is what the     *)
(* game server has, for any number of players and match ids and any        *)
(* behaviour of the network.                                               *)
(***************************************************************************)
EXTENDS MatchmakingProofs, MatchmakingSystem


-----------------------------------------------------------------------------
(* Sequences that are told by their elements. *)

LEMMA ErasedIs ==
  ASSUME NEW S, NEW s \in Seq(S), NEW i \in DOMAIN s, NEW r,
         r = [k \in 1..(Len(s) - 1) |-> r[k]],
         \A k \in 1..(Len(s) - 1) : r[k] = s[Shift(i, k)]
  PROVE  r = RemoveAt(s, i)
<1>1. /\ RemoveAt(s, i) \in Seq(S) /\ Len(RemoveAt(s, i)) = Len(s) - 1
      /\ \A k \in 1..(Len(s) - 1) : RemoveAt(s, i)[k] = s[Shift(i, k)]
  BY RemoveAtShifts DEF Shift
<1>2. RemoveAt(s, i) = [k \in 1..(Len(s) - 1) |-> RemoveAt(s, i)[k]]
  BY <1>1
<1> QED
  BY <1>1, <1>2

LEMMA AppendedIs ==
  ASSUME NEW S, NEW s \in Seq(S), NEW e \in S, NEW r,
         r = [k \in 1..(Len(s) + 1) |-> r[k]],
         \A k \in 1..Len(s) : r[k] = s[k], r[Len(s) + 1] = e
  PROVE  r = Append(s, e)
<1>1. PICK t \in Seq(S) : t = Append(s, e)
  BY AppendProperties
<1>2. /\ Len(t) = Len(s) + 1
      /\ \A k \in 1..Len(s) : t[k] = s[k]
      /\ t[Len(s) + 1] = e
  BY <1>1, AppendProperties
<1>3. t \in [1..(Len(s) + 1) -> S] /\ Len(s) \in Nat
  BY <1>2, LenProperties
<1>4. \A k \in 1..(Len(s) + 1) : t[k] = r[k]
  <2>1. \A k \in 1..(Len(s) + 1) : k \in 1..Len(s) \/ k = Len(s) + 1
    BY <1>3
  <2> QED
    BY <1>2, <2>1
<1>5. t = r
  BY <1>3, <1>4
<1> QED
  BY <1>1, <1>5

-----------------------------------------------------------------------------
(* What Lobby sees. *)

Group == [type : MatchType, players : Seq(Endpoint)]

LEMMA ProposalsType ==
  ASSUME TypeOK
  PROVE  /\ Proposals \in Seq(Group)
         /\ Len(Proposals) = Len(pendingMatchCreations)
         /\ DOMAIN Proposals = DOMAIN pendingMatchCreations
<1>1. Len(pendingMatchCreations) \in Nat
      /\ DOMAIN pendingMatchCreations = 1..Len(pendingMatchCreations)
  BY Indices
<1>2. \A i \in DOMAIN pendingMatchCreations : Proposals[i] \in Group
  BY CreationTypes DEF Proposals, Group, StartMatchData
<1>3. Proposals \in [1..Len(pendingMatchCreations) -> Group]
  BY <1>1, <1>2 DEF Proposals
<1> QED
  BY <1>1, <1>3

LEMMA AnnouncementsType ==
  ASSUME TypeOK
  PROVE  /\ Announcements \in Seq(Group)
         /\ Len(Announcements) = Len(pendingSessions)
         /\ DOMAIN Announcements = DOMAIN pendingSessions
<1>1. Len(pendingSessions) \in Nat /\ DOMAIN pendingSessions = 1..Len(pendingSessions)
  BY Indices
<1>2. \A i \in DOMAIN pendingSessions : Announcements[i] \in Group
  BY SessionTypes, PlayersType DEF Announcements, Group
<1>3. Announcements \in [1..Len(pendingSessions) -> Group]
  BY <1>1, <1>2 DEF Announcements
<1> QED
  BY <1>1, <1>3

LEMMA ProposalsErased ==
  ASSUME TypeOK, NEW i \in DOMAIN pendingMatchCreations,
         pendingMatchCreations' = RemoveAt(pendingMatchCreations, i)
  PROVE  Proposals' = RemoveAt(Proposals, i)
<1>1. PICK n \in Nat : n = Len(pendingMatchCreations)
  BY Indices
<1>2. DOMAIN pendingMatchCreations = 1..n /\ i \in 1..n
  BY <1>1, Indices
<1>3. DOMAIN pendingMatchCreations' = 1..(n - 1)
      /\ \A k \in 1..(n - 1) : /\ pendingMatchCreations'[k] = pendingMatchCreations[Shift(i, k)]
                              /\ Shift(i, k) \in DOMAIN pendingMatchCreations
  BY <1>1, <1>2, CreationErased, Shifting
<1>4. \A k \in 1..(n - 1) : Proposals'[k] = Proposals[Shift(i, k)]
  BY <1>3 DEF Proposals
<1>5. Proposals' = [k \in 1..(n - 1) |-> Proposals'[k]]
  BY <1>3 DEF Proposals
<1> QED
  BY <1>1, <1>2, <1>4, <1>5, ProposalsType, ErasedIs

LEMMA AnnouncementsErased ==
  ASSUME TypeOK, NEW i \in DOMAIN pendingSessions,
         pendingSessions' = RemoveAt(pendingSessions, i)
  PROVE  Announcements' = RemoveAt(Announcements, i)
<1>1. PICK n \in Nat : n = Len(pendingSessions)
  BY Indices
<1>2. DOMAIN pendingSessions = 1..n /\ i \in 1..n
  BY <1>1, Indices
<1>3. DOMAIN pendingSessions' = 1..(n - 1)
      /\ \A k \in 1..(n - 1) : /\ pendingSessions'[k] = pendingSessions[Shift(i, k)]
                              /\ Shift(i, k) \in DOMAIN pendingSessions
  BY <1>1, <1>2, SessionErased, Shifting
<1>4. \A k \in 1..(n - 1) : Announcements'[k] = Announcements[Shift(i, k)]
  BY <1>3 DEF Announcements, Players
<1>5. Announcements' = [k \in 1..(n - 1) |-> Announcements'[k]]
  BY <1>3 DEF Announcements
<1> QED
  BY <1>1, <1>2, <1>4, <1>5, AnnouncementsType, ErasedIs

LEMMA ProposalsSame ==
  ASSUME DOMAIN pendingMatchCreations' = DOMAIN pendingMatchCreations,
         \A i \in DOMAIN pendingMatchCreations :
           /\ pendingMatchCreations'[i].matchData.type = Data(i).type
           /\ pendingMatchCreations'[i].matchData.players = Data(i).players
  PROVE  Proposals' = Proposals
  BY DEF Proposals, Data

LEMMA AnnouncementsSame ==
  ASSUME DOMAIN pendingSessions' = DOMAIN pendingSessions,
         \A i \in DOMAIN pendingSessions :
           /\ pendingSessions'[i].type = pendingSessions[i].type
           /\ Players(pendingSessions'[i]) = Players(pendingSessions[i])
  PROVE  Announcements' = Announcements
  BY DEF Announcements, Players

LEMMA ListsSame ==
  /\ UNCHANGED pendingMatchCreations => Proposals' = Proposals
  /\ UNCHANGED pendingSessions => Announcements' = Announcements
  BY DEF Proposals, Announcements, Players

\* Acknowledgements and retries are invisible.
LEMMA AcksInvisible ==
  ASSUME TypeInv, NEW c, AckMatchFound(c)
  PROVE  Announcements' = Announcements
<1>1. DOMAIN pendingSessions' = DOMAIN pendingSessions
  BY DEF AckMatchFound
<1>2. ASSUME NEW j \in DOMAIN pendingSessions
      PROVE  /\ pendingSessions'[j].type = pendingSessions[j].type
             /\ Players(pendingSessions'[j]) = Players(pendingSessions[j])
  <2> DEFINE session == pendingSessions[j]
             qs == [s \in DOMAIN session.players |-> Marked(session.players[s], c)]
  <2>1. pendingSessions'[j] = [session EXCEPT !.players = qs]
    BY DEF AckMatchFound
  <2>2. session \in MatchSession
    BY SessionTypes DEF TypeInv
  <2>3. \A s \in DOMAIN session.players : session.players[s] \in PendingMatch
    BY <2>2, ElementOfSeq, LenProperties DEF MatchSession
  <2>4. \A s \in DOMAIN session.players : qs[s].player = session.players[s].player
    BY <2>3 DEF Marked, PendingMatch
  <2>5. DOMAIN qs = DOMAIN session.players
    OBVIOUS
  <2> HIDE DEF qs
  <2> QED
    BY <2>1, <2>2, <2>4, <2>5, SamePlayers
<1> QED
  BY <1>1, <1>2, AnnouncementsSame

LEMMA ResendsInvisible ==
  ASSUME TypeInv, AtSession, NEW seats, Resend(pendingSessions[cursor], seats)
  PROVE  Announcements' = Announcements
<1> DEFINE session == pendingSessions[cursor]
           qs == [s \in DOMAIN session.players |->
                    IF s \in seats THEN Retried(session.players[s]) ELSE session.players[s]]
<1>1. cursor \in DOMAIN pendingSessions /\ session \in MatchSession
  BY SessionTypes DEF AtSession, TypeInv
<1>2. pendingSessions' = [pendingSessions EXCEPT ![cursor] = [session EXCEPT !.players = qs]]
  BY DEF Resend
<1>3. \A s \in DOMAIN session.players : session.players[s] \in PendingMatch
  BY <1>1, ElementOfSeq, LenProperties DEF MatchSession
<1>4. \A s \in DOMAIN session.players : qs[s].player = session.players[s].player
  BY <1>3 DEF Retried, PendingMatch
<1>5. DOMAIN qs = DOMAIN session.players
  OBVIOUS
<1> HIDE DEF qs
<1>6. /\ [session EXCEPT !.players = qs].type = session.type
      /\ Players([session EXCEPT !.players = qs]) = Players(session)
  BY <1>1, <1>4, <1>5, SamePlayers
<1>7. ASSUME NEW j \in DOMAIN pendingSessions
      PROVE  /\ pendingSessions'[j].type = pendingSessions[j].type
             /\ Players(pendingSessions'[j]) = Players(pendingSessions[j])
  BY <1>1, <1>2, <1>6
<1>8. DOMAIN pendingSessions' = DOMAIN pendingSessions
  BY <1>2
<1> QED
  BY <1>7, <1>8, AnnouncementsSame

-----------------------------------------------------------------------------
(* The steps. *)

LEMMA AcceptingAnnounces ==
  ASSUME TypeInv, NEW i \in DOMAIN pendingMatchCreations, NEW id, MatchUnique(i, id)
  PROVE  Promise!Announce(i)
<1>1. Proposals' = RemoveAt(Proposals, i)
  BY ProposalsErased DEF MatchUnique, TypeInv
<1>2. PICK n \in Nat : n = Len(pendingSessions)
  BY Indices DEF TypeInv
<1>3. /\ DOMAIN pendingSessions = 1..n /\ DOMAIN pendingSessions' = 1..(n + 1)
      /\ \A k \in 1..n : pendingSessions'[k] = pendingSessions[k]
      /\ pendingSessions'[n + 1] = NewSession(Data(i))
  BY <1>2, Accepted, Indices DEF Data, TypeInv
<1>4. Data(i) \in StartMatchData
  BY CreationTypes DEF Data, TypeInv
<1>5. NewSession(Data(i)).type = Data(i).type /\ Players(NewSession(Data(i))) = Data(i).players
  <2>1. Players(NewSession(Data(i))) = Data(i).players
    BY <1>4, NewPlayers
  <2> QED
    BY <2>1 DEF NewSession
<1>6. Announcements' = [k \in 1..(n + 1) |-> Announcements'[k]]
  BY <1>3 DEF Announcements
<1>7. \A k \in 1..n : Announcements'[k] = Announcements[k]
  BY <1>3, SMTT(30) DEF Announcements, Players
<1>8. Announcements'[n + 1] = Proposals[i]
  BY <1>3, <1>5 DEF Announcements, Proposals, Players, Data
<1>9. Announcements \in Seq(Group) /\ Len(Announcements) = n /\ Proposals[i] \in Group
  BY <1>2, AnnouncementsType, ProposalsType, ElementOfSeq, Indices DEF TypeInv
<1>10. Announcements' = Append(Announcements, Proposals[i])
  BY <1>6, <1>7, <1>8, <1>9, AppendedIs
<1> QED
  BY <1>1, <1>10 DEF Promise!Announce, Promise!RemoveAt, RemoveAt, MatchUnique

LEMMA FormingProposes ==
  ASSUME TypeInv, NEW t \in MatchType, FormMatch(t)
  PROVE  Promise!Propose(t)
<1> DEFINE data == [matchID |-> lastMatchID', type |-> t,
                    players |-> SubSeq(queue[t], 1, PlayersPerMatch)]
           c == [matchData |-> data, serialized |-> data, attempts |-> 0]
           group == [type |-> t, players |-> SubSeq(queue[t], 1, PlayersPerMatch)]
<1>1. pendingMatchCreations' = Append(pendingMatchCreations, c)
  BY DEF FormMatch
<1>2. PICK n \in Nat : n = Len(pendingMatchCreations)
  BY Indices DEF TypeInv
<1>3. PICK x \in PendingMatchCreation : pendingMatchCreations' = Append(pendingMatchCreations, x)
  BY NewMatch DEF TypeInv
<1>4. Len(pendingMatchCreations') = n + 1 /\ DOMAIN pendingMatchCreations' = 1..(n + 1)
      /\ DOMAIN pendingMatchCreations = 1..n
      /\ \A k \in 1..n : pendingMatchCreations'[k] = pendingMatchCreations[k]
      /\ pendingMatchCreations'[n + 1] = x
  BY <1>2, <1>3, AppendProperties, LenProperties, Indices DEF TypeInv, TypeOK
<1>5. pendingMatchCreations'[n + 1] = c
  BY <1>1, <1>2
<1>6. c.matchData.type = t /\ c.matchData.players = SubSeq(queue[t], 1, PlayersPerMatch)
  OBVIOUS
<1> HIDE DEF c
<1>7. Proposals' = [k \in 1..(n + 1) |-> Proposals'[k]]
  BY <1>4 DEF Proposals
<1>8. \A k \in 1..n : Proposals'[k] = Proposals[k]
  BY <1>4 DEF Proposals
<1>9. Proposals'[n + 1] = group
  <2>1. n + 1 \in DOMAIN pendingMatchCreations'
    BY <1>4
  <2>2. Proposals'[n + 1] = [type |-> pendingMatchCreations'[n + 1].matchData.type,
                            players |-> pendingMatchCreations'[n + 1].matchData.players]
    BY <2>1 DEF Proposals
  <2> QED
    BY <1>5, <1>6, <2>2
<1>10. /\ queue[t] \in Seq(Endpoint) /\ Len(queue[t]) \in Nat
       /\ \A i \in 1..Len(queue[t]) : queue[t][i] \in Endpoint
       /\ PlayersPerMatch \in Nat /\ PlayersPerMatch <= Len(queue[t])
  BY LenProperties, ElementOfSeq, PlayersPerMatchAssumption
     DEF FormMatch, GroupReady, TypeInv, TypeOK
<1>11. SubSeq(queue[t], 1, PlayersPerMatch) \in Seq(Endpoint)
  BY <1>10, SubSeqProperties
<1>12. group \in Group
  BY <1>11 DEF Group
<1>13. Proposals \in Seq(Group) /\ Len(Proposals) = n
  BY <1>2, ProposalsType DEF TypeInv
<1> HIDE DEF group
<1>14. Proposals' = Append(Proposals, group)
  BY <1>7, <1>8, <1>9, <1>12, <1>13, AppendedIs
<1> QED
  BY <1>14, ListsSame DEF group, Promise!Propose, FormMatch, GroupReady

\* A new id for a creation is invisible, and so is a CREATE_MATCH.
LEMMA RenamesInvisible ==
  ASSUME TypeInv, NEW id, NEW i \in DOMAIN pendingMatchCreations, MatchUsed(i, id)
  PROVE  Proposals' = Proposals
<1>1. DOMAIN pendingMatchCreations' = DOMAIN pendingMatchCreations
  BY DEF MatchUsed
<1>2. Data(i) \in StartMatchData
  BY CreationTypes DEF Data, TypeInv
<1>3. pendingMatchCreations'[i].matchData = [Data(i) EXCEPT !.matchID = lastMatchID']
  BY DEF MatchUsed, Data
<1>4. \A k \in DOMAIN pendingMatchCreations : k # i =>
        pendingMatchCreations'[k] = pendingMatchCreations[k]
  BY DEF MatchUsed
<1> QED
  BY <1>1, <1>2, <1>3, <1>4, ProposalsSame DEF Data, StartMatchData

LEMMA SendsInvisible ==
  ASSUME TypeInv, SendCreation
  PROVE  Proposals' = Proposals
<1>1. cursor \in DOMAIN pendingMatchCreations
      /\ pendingMatchCreations[cursor] \in PendingMatchCreation
  BY CreationTypes DEF SendCreation, AtCreation, TypeInv
<1>2. DOMAIN pendingMatchCreations' = DOMAIN pendingMatchCreations
      /\ \A i \in DOMAIN pendingMatchCreations : pendingMatchCreations'[i].matchData = Data(i)
  BY <1>1 DEF SendCreation, PendingMatchCreation, Data
<1> QED
  BY <1>2, ProposalsSame

LEMMA HandlersRefine ==
  ASSUME TypeInv, DispatchThread
  PROVE  [Promise!LobbyNext]_(Promise!lobbyVars)
<1> USE DEF Promise!LobbyNext, Promise!lobbyVars
<1>1. ASSUME NEW c \in Endpoint, NEW t \in MatchType, FindMatch(c, t)
      PROVE  Promise!Join(c, t)
  BY <1>1, ListsSame DEF FindMatch, listVars, Promise!Join
<1>2. ASSUME NEW c \in Endpoint, CancelSearch(c)
      PROVE  Promise!Withdraw(c)
  BY <1>2, ListsSame
     DEF CancelSearch, Without, At, listVars, Promise!Withdraw, Promise!At,
         Cardinality, Promise!Cardinality
<1>3. ASSUME NEW c \in Endpoint, AckMatchFound(c)
      PROVE  UNCHANGED Promise!lobbyVars
  BY <1>3, AcksInvisible, ListsSame DEF AckMatchFound
<1>4. ASSUME NEW id, NEW i \in DOMAIN pendingMatchCreations, MatchUnique(i, id)
      PROVE  Promise!Announce(i) /\ i \in DOMAIN Proposals
  BY <1>4, AcceptingAnnounces, ProposalsType DEF TypeInv
<1>5. ASSUME NEW id, NEW i \in DOMAIN pendingMatchCreations, MatchUsed(i, id)
      PROVE  UNCHANGED Promise!lobbyVars
  BY <1>5, RenamesInvisible, ListsSame DEF MatchUsed
<1>6. CASE BadMatchID \/ \E id \in MatchID : LookInVain(id)
  BY <1>6, ListsSame DEF BadMatchID, LookInVain, listVars
<1>7. CASE \E id \in MatchID : \E i \in DOMAIN pendingMatchCreations : MatchUnique(i, id)
  BY <1>7, <1>4
<1>8. CASE \E id \in MatchID : \E i \in DOMAIN pendingMatchCreations : MatchUsed(i, id)
  BY <1>8, <1>5
<1> QED
  BY <1>1, <1>2, <1>3, <1>6, <1>7, <1>8 DEF DispatchThread

LEMMA MainLoopRefines ==
  ASSUME TypeInv, MainLoop
  PROVE  [Promise!LobbyNext]_(Promise!lobbyVars)
<1> USE DEF Promise!LobbyNext, Promise!lobbyVars
<1>1. CASE \/ Tick \/ SkipCreation \/ CreationsDone \/ SessionsDone
           \/ \E t \in MatchType : NoMatch(t)
  BY <1>1, ListsSame DEF Tick, SkipCreation, CreationsDone, SessionsDone, NoMatch, listVars
<1>2. CASE \E t \in MatchType : FormMatch(t)
  BY <1>2, FormingProposes
<1>3. CASE GiveUpCreation
  <2>1. cursor \in DOMAIN pendingMatchCreations /\ cursor \in DOMAIN Proposals
        /\ Proposals' = RemoveAt(Proposals, cursor)
    BY <1>3, ProposalsErased, ProposalsType DEF GiveUpCreation, AtCreation, TypeInv
  <2>2. /\ Proposals[cursor].type = pendingMatchCreations[cursor].matchData.type
        /\ Proposals[cursor].players = pendingMatchCreations[cursor].matchData.players
    BY <2>1 DEF Proposals
  <2>3. Promise!Dissolve(cursor)
    BY <1>3, <2>1, <2>2, ListsSame
       DEF GiveUpCreation, Promise!Dissolve, Promise!RemoveAt, RemoveAt
  <2> QED
    BY <2>1, <2>3
<1>4. CASE SendCreation
  BY <1>4, SendsInvisible, ListsSame DEF SendCreation
<1>5. ASSUME NEW due, AwaitAcks(due) PROVE UNCHANGED Promise!lobbyVars
  BY <1>5, ResendsInvisible, ListsSame DEF AwaitAcks
<1>6. ASSUME NEW due, NEW last, GiveUpSession(due, last) PROVE UNCHANGED Promise!lobbyVars
  BY <1>6, ResendsInvisible, ListsSame DEF GiveUpSession
<1>7. CASE Requeue
  <2>1. cursor \in DOMAIN pendingSessions /\ cursor \in DOMAIN Announcements
        /\ Announcements' = RemoveAt(Announcements, cursor)
    BY <1>7, AnnouncementsErased, AnnouncementsType DEF Requeue, Main, TypeInv
  <2>2. /\ Announcements[cursor].type = pendingSessions[cursor].type
        /\ Announcements[cursor].players = Players(pendingSessions[cursor])
    BY <2>1 DEF Announcements
  <2>3. Acked(pendingSessions[cursor]) \in SUBSET DOMAIN Players(pendingSessions[cursor])
    BY DEF Acked, Players
  <2>4. queue' = [queue EXCEPT ![Announcements[cursor].type] =
                    @ \o Promise!At(Announcements[cursor].players, Acked(pendingSessions[cursor]))]
    BY <1>7, <2>2, SMTT(30) DEF Requeue, At, Promise!At, Cardinality, Promise!Cardinality
  <2>5. Promise!Disband(cursor)
    BY <1>7, <2>1, <2>2, <2>3, <2>4, ListsSame
       DEF Requeue, Promise!Disband, Promise!RemoveAt, RemoveAt
  <2> QED
    BY <2>1, <2>5
<1>8. CASE StartMatch
  <2>1. cursor \in DOMAIN pendingSessions /\ cursor \in DOMAIN Announcements
        /\ Announcements' = RemoveAt(Announcements, cursor)
    BY <1>8, AnnouncementsErased, AnnouncementsType DEF StartMatch, AtSession, TypeInv
  <2>2. Promise!Start(cursor)
    BY <1>8, <2>1, ListsSame DEF StartMatch, Promise!Start, Promise!RemoveAt, RemoveAt
  <2> QED
    BY <2>1, <2>2
<1> QED
  BY <1>1, <1>2, <1>3, <1>4, <1>5, <1>6, <1>7, <1>8 DEF MainLoop

\* GroupsAsPromised: Matchmaking implements Lobby, for any number of players,
\* attempts, retries and match ids, as long as its behaviour is defined.
THEOREM LobbyKept == Spec => GroupsAsPromised
<1>1. Init => Promise!LobbyInit
  BY DEF Init, Promise!LobbyInit, Proposals, Announcements
<1>2. ASSUME TypeInv, [Next]_vars
      PROVE  [Promise!LobbyNext]_(Promise!lobbyVars)
  <2>1. CASE Leave \/ Over \/ UNCHANGED vars
    BY <2>1, ListsSame DEF Leave, Over, listVars, vars, Promise!lobbyVars
  <2> QED
    BY <1>2, <2>1, HandlersRefine, MainLoopRefines DEF Next
<1> QED
  BY <1>1, <1>2, TypeInvariance, PTL DEF Spec, GroupsAsPromised, Promise!LobbySpec

-----------------------------------------------------------------------------
(***************************************************************************)
(* Counting.  The places a client holds are counted queue by queue and     *)
(* group by group, so what a step does to a sequence of clients or groups  *)
(* is turned into a sum of two counts.                                     *)
(***************************************************************************)

\* Two injections into T that share no element and leave none out.
Cover(f, A, g, B, T) ==
  /\ f \in [A -> T] /\ g \in [B -> T]
  /\ \A x, y \in A : f[x] = f[y] => x = y
  /\ \A x, y \in B : g[x] = g[y] => x = y
  /\ \A x \in A, y \in B : f[x] # g[y]
  /\ \A z \in T : (\E x \in A : z = f[x]) \/ (\E y \in B : z = g[y])

LEMMA CountOfTwo ==
  ASSUME NEW A, NEW B, NEW T, NEW f, NEW g, Cover(f, A, g, B, T),
         IsFiniteSet(A), IsFiniteSet(B)
  PROVE  Cardinality(T) = Cardinality(A) + Cardinality(B)
<1> USE DEF Cover
<1> DEFINE FA == {f[x] : x \in A}
           GB == {g[y] : y \in B}
<1>1. IsFiniteSet(FA) /\ Cardinality(FA) = Cardinality(A)
  <2>1. f \in [A -> FA]
    OBVIOUS
  <2>2. f \in Surjection(A, FA)
    BY <2>1 DEF Surjection
  <2>3. f \in Injection(A, FA)
    BY <2>1 DEF Injection, IsInjective
  <2> HIDE DEF FA, GB
  <2> QED
    BY <2>2, <2>3, FS_Surjection
<1>2. IsFiniteSet(GB) /\ Cardinality(GB) = Cardinality(B)
  <2>1. g \in [B -> GB]
    OBVIOUS
  <2>2. g \in Surjection(B, GB)
    BY <2>1 DEF Surjection
  <2>3. g \in Injection(B, GB)
    BY <2>1 DEF Injection, IsInjective
  <2> HIDE DEF FA, GB
  <2> QED
    BY <2>2, <2>3, FS_Surjection
<1>3. T = FA \cup GB /\ FA \cap GB = {}
  OBVIOUS
<1> HIDE DEF FA, GB
<1>4. Cardinality(FA \cap GB) = 0
  BY <1>3, FS_EmptySet
<1>5. Cardinality(A) \in Nat /\ Cardinality(B) \in Nat
  BY FS_CardinalityType
<1>6. Cardinality(FA \cup GB) = Cardinality(FA) + Cardinality(GB) - Cardinality(FA \cap GB)
  BY <1>1, <1>2, FS_Union
<1> QED
  BY <1>1, <1>2, <1>3, <1>4, <1>5, <1>6

\* The positions of x in s.
Places(s, x) == {i \in DOMAIN s : s[i] = x}

LEMMA PlacesFinite ==
  ASSUME NEW S, NEW s \in Seq(S), NEW x
  PROVE  IsFiniteSet(Places(s, x)) /\ Cardinality(Places(s, x)) \in Nat
<1>1. Places(s, x) \in SUBSET (1..Len(s)) /\ Len(s) \in Nat
  BY LenProperties DEF Places
<1>2. IsFiniteSet(1..Len(s))
  BY <1>1, FS_Interval
<1> QED
  BY <1>1, <1>2, FS_Subset, FS_CardinalityType

LEMMA PlacesConcat ==
  ASSUME NEW S, NEW s \in Seq(S), NEW r \in Seq(S), NEW x
  PROVE  Cardinality(Places(s \o r, x)) =
           Cardinality(Places(s, x)) + Cardinality(Places(r, x))
<1>1. PICK m \in Nat : m = Len(s) /\ DOMAIN s = 1..m
  BY LenProperties
<1>2. PICK n \in Nat : n = Len(r) /\ DOMAIN r = 1..n
  BY LenProperties
<1>3. PICK u \in Seq(S) : u = s \o r
  BY ConcatProperties
<1>4. /\ DOMAIN u = 1..(m + n)
      /\ \A i \in 1..(m + n) : u[i] = IF i <= m THEN s[i] ELSE r[i - m]
  BY <1>1, <1>2, <1>3, ConcatProperties, LenProperties
<1> DEFINE f == [i \in Places(s, x) |-> i]
           g == [i \in Places(r, x) |-> m + i]
<1>5. f \in [Places(s, x) -> Places(u, x)]
  BY <1>1, <1>4 DEF Places
<1>6. g \in [Places(r, x) -> Places(u, x)]
  <2>1. ASSUME NEW i \in Places(r, x) PROVE m + i \in Places(u, x)
    <3>1. i \in 1..n /\ r[i] = x
      BY <1>2 DEF Places
    <3>2. m + i \in 1..(m + n) /\ ~(m + i <= m) /\ (m + i) - m = i
      BY <3>1
    <3> QED
      BY <3>1, <3>2, <1>4 DEF Places
  <2> QED
    BY <2>1
<1>7. ASSUME NEW z \in Places(u, x)
      PROVE  (\E i \in Places(s, x) : z = f[i]) \/ (\E i \in Places(r, x) : z = g[i])
  <2>1. z \in 1..(m + n) /\ u[z] = x
    BY <1>4 DEF Places
  <2>2. CASE z <= m
    BY <2>1, <2>2, <1>1, <1>4 DEF Places
  <2>3. CASE z > m
    <3>1. z - m \in 1..n /\ m + (z - m) = z /\ r[z - m] = x
      BY <2>1, <2>3, <1>4
    <3>2. z - m \in Places(r, x)
      BY <3>1, <1>2 DEF Places
    <3> QED
      BY <3>1, <3>2
  <2> QED
    BY <2>1, <2>2, <2>3
<1>8. /\ \A i \in Places(s, x) : i \in 1..m
      /\ \A i \in Places(r, x) : i \in 1..n
  BY <1>1, <1>2 DEF Places
<1>9. /\ \A i, j \in Places(s, x) : f[i] = f[j] => i = j
      /\ \A i, j \in Places(r, x) : g[i] = g[j] => i = j
      /\ \A i \in Places(s, x), j \in Places(r, x) : f[i] # g[j]
  BY <1>8
<1>10. IsFiniteSet(Places(s, x)) /\ IsFiniteSet(Places(r, x))
  BY PlacesFinite
<1> HIDE DEF f, g
<1>11. Cover(f, Places(s, x), g, Places(r, x), Places(u, x))
  BY <1>5, <1>6, <1>7, <1>9 DEF Cover
<1>12. Cardinality(Places(u, x)) = Cardinality(Places(s, x)) + Cardinality(Places(r, x))
  BY <1>10, <1>11, CountOfTwo
<1> QED
  BY <1>3, <1>12

LEMMA PlacesOne ==
  ASSUME NEW e, NEW x
  PROVE  Cardinality(Places(<<e>>, x)) = IF e = x THEN 1 ELSE 0
<1>1. DOMAIN <<e>> = {1} /\ <<e>>[1] = e
  OBVIOUS
<1>2. CASE e = x
  <2>1. Places(<<e>>, x) = {1}
    BY <1>1, <1>2 DEF Places
  <2> QED
    BY <2>1, <1>2, FS_Singleton
<1>3. CASE e # x
  <2>1. Places(<<e>>, x) = {}
    BY <1>1, <1>3 DEF Places
  <2> QED
    BY <2>1, <1>3, FS_EmptySet
<1> QED
  BY <1>2, <1>3

LEMMA PlacesAppend ==
  ASSUME NEW S, NEW s \in Seq(S), NEW e \in S, NEW x
  PROVE  Cardinality(Places(Append(s, e), x)) =
           Cardinality(Places(s, x)) + (IF e = x THEN 1 ELSE 0)
<1>1. <<e>> \in Seq(S)
  OBVIOUS
<1>2. Append(s, e) = s \o <<e>>
  BY AppendIsConcat
<1>3. Cardinality(Places(s \o <<e>>, x)) =
        Cardinality(Places(s, x)) + Cardinality(Places(<<e>>, x))
  BY <1>1, PlacesConcat
<1> QED
  BY <1>2, <1>3, PlacesOne

\* A sequence that is cut in two.
LEMMA PlacesCut ==
  ASSUME NEW S, NEW s \in Seq(S), NEW n \in Nat, n <= Len(s), NEW x
  PROVE  /\ SubSeq(s, 1, n) \in Seq(S) /\ Len(SubSeq(s, 1, n)) = n
         /\ SubSeq(s, n + 1, Len(s)) \in Seq(S)
         /\ Cardinality(Places(s, x)) =
              Cardinality(Places(SubSeq(s, 1, n), x))
                + Cardinality(Places(SubSeq(s, n + 1, Len(s)), x))
<1>1. Len(s) \in Nat /\ \A i \in 1..Len(s) : s[i] \in S
  BY LenProperties, ElementOfSeq
<1>2. SubSeq(s, 1, n) \in Seq(S) /\ Len(SubSeq(s, 1, n)) = n
  BY <1>1, SubSeqProperties
<1>3. SubSeq(s, n + 1, Len(s)) \in Seq(S)
  <2>1. \A i \in (n + 1)..Len(s) : s[i] \in S
    BY <1>1
  <2> QED
    BY <1>1, <2>1, SubSeqProperties
<1>4. SubSeq(s, 1, n) \o SubSeq(s, n + 1, Len(s)) = s
  <2>1. SubSeq(s, 1, n) \o SubSeq(s, n + 1, Len(s)) = SubSeq(s, 1, Len(s))
    <3>1. 1 \in 1..(Len(s) + 1) /\ n \in (1 - 1)..Len(s) /\ Len(s) \in n..Len(s)
      BY <1>1
    <3> QED
      BY <3>1, ConcatAdjacentSubSeq
  <2> QED
    BY <2>1, SubSeqFull
<1> DEFINE head == SubSeq(s, 1, n)
           tail == SubSeq(s, n + 1, Len(s))
<1> HIDE DEF head, tail
<1>5. Cardinality(Places(head \o tail, x)) =
        Cardinality(Places(head, x)) + Cardinality(Places(tail, x))
  BY <1>2, <1>3, PlacesConcat DEF head, tail
<1> QED
  BY <1>2, <1>3, <1>4, <1>5 DEF head, tail

\* The positions that are kept hold what they held: none of the kept places of
\* x is lost or doubled.
LEMMA PlacesAt ==
  ASSUME NEW S, NEW q \in Seq(S), NEW kept \in SUBSET DOMAIN q, NEW x
  PROVE  /\ Cardinality(Places(At(q, kept), x)) <= Cardinality(Places(q, x))
         /\ Places(q, x) \subseteq kept =>
              Cardinality(Places(At(q, kept), x)) = Cardinality(Places(q, x))
<1> DEFINE Rank(i) == Cardinality({k \in kept : k <= i})
           Nth(n) == CHOOSE i \in kept : Rank(i) = n
           K == Cardinality(kept)
           f == [n \in 1..K |-> Nth(n)]
           keptPlaces == {i \in kept : q[i] = x}
<1>1. kept \in SUBSET (1..Len(q)) /\ Len(q) \in Nat
  BY LenProperties
<1>2. IsFiniteSet(kept) /\ K \in Nat
  <2>1. IsFiniteSet(1..Len(q))
    BY <1>1, FS_Interval
  <2> QED
    BY <1>1, <2>1, FS_Subset, FS_CardinalityType
<1>3. \A n \in 1..K : Nth(n) \in kept /\ Rank(Nth(n)) = n
  <2>1. \A k \in kept : k \in Nat /\ 1 <= k /\ k <= Len(q)
    BY <1>1
  <2>2. \A n \in 1..K : \E i \in kept : Rank(i) = n
    BY <1>1, <2>1, Ranked
  <2> HIDE DEF Rank
  <2> QED
    BY <2>2
<1>4. At(q, kept) = [n \in 1..K |-> q[f[n]]]
  BY DEF At
<1> HIDE DEF Rank, Nth
<1>5. f \in [1..K -> kept] /\ \A m, n \in 1..K : f[m] = f[n] => m = n
  BY <1>3
<1> HIDE DEF f
<1>6. f \in Injection(1..K, kept)
  BY <1>5 DEF Injection, IsInjective
<1>7. IsFiniteSet(1..K) /\ Cardinality(1..K) = K
  BY <1>2, FS_Interval
<1>8. f \in Surjection(1..K, kept)
  BY <1>2, <1>6, <1>7, FS_Injection
<1>9. \A i \in kept : \E n \in 1..K : f[n] = i
  BY <1>8 DEF Surjection
<1>10. Places(At(q, kept), x) = {n \in 1..K : q[f[n]] = x}
  BY <1>4 DEF Places
<1> DEFINE A == {n \in 1..K : q[f[n]] = x}
           fA == [n \in A |-> f[n]]
           none == [n \in {} |-> n]
<1>11. Cover(fA, A, none, {}, keptPlaces)
  BY <1>5, <1>9 DEF Cover
<1>12. IsFiniteSet(A)
  <2>1. A \in SUBSET (1..K)
    OBVIOUS
  <2> QED
    BY <1>7, <2>1, FS_Subset
<1> HIDE DEF A, fA, none, K
<1>13. IsFiniteSet({}) /\ Cardinality({}) = 0 /\ Cardinality(A) \in Nat
  BY <1>12, FS_EmptySet, FS_CardinalityType
<1>14. Cardinality(keptPlaces) = Cardinality(A) + Cardinality({})
  BY <1>11, <1>12, <1>13, CountOfTwo
<1>15. Cardinality(keptPlaces) = Cardinality(Places(At(q, kept), x))
  BY <1>10, <1>13, <1>14 DEF A, K
<1>16. /\ keptPlaces \in SUBSET Places(q, x)
       /\ Places(q, x) \subseteq kept => keptPlaces = Places(q, x)
  BY DEF Places
<1> HIDE DEF keptPlaces
<1>17. Cardinality(keptPlaces) <= Cardinality(Places(q, x))
  BY <1>16, PlacesFinite, FS_Subset
<1> QED
  BY <1>15, <1>16, <1>17

-----------------------------------------------------------------------------
(* The same for groups. *)

\* A list of groups of PlayersPerMatch players each.
FullGroups(gs) ==
  /\ gs \in Seq(Group)
  /\ \A i \in DOMAIN gs : DOMAIN gs[i].players = 1..PlayersPerMatch

\* The seats of c in the groups of type t.
Seats(gs, c, t) ==
  {p \in (DOMAIN gs) \X (1..PlayersPerMatch) :
     gs[p[1]].type = t /\ gs[p[1]].players[p[2]] = c}

\* How often c is in the group g, if it is one for t.
Share(g, c, t) == IF g.type = t THEN Places(g.players, c) ELSE {}

LEMMA SeatsFinite ==
  ASSUME NEW gs \in Seq(Group), NEW c, NEW t
  PROVE  IsFiniteSet(Seats(gs, c, t)) /\ Cardinality(Seats(gs, c, t)) \in Nat
<1>1. IsFiniteSet(DOMAIN gs) /\ IsFiniteSet(1..PlayersPerMatch)
  BY LenProperties, FS_Interval, PlayersPerMatchAssumption
<1>2. IsFiniteSet((DOMAIN gs) \X (1..PlayersPerMatch))
  BY <1>1, FS_Product
<1>3. Seats(gs, c, t) \in SUBSET ((DOMAIN gs) \X (1..PlayersPerMatch))
  BY DEF Seats
<1> QED
  BY <1>2, <1>3, FS_Subset, FS_CardinalityType

LEMMA ShareFinite ==
  ASSUME NEW g \in Group, NEW c, NEW t
  PROVE  IsFiniteSet(Share(g, c, t)) /\ Cardinality(Share(g, c, t)) \in Nat
  BY PlacesFinite, FS_EmptySet DEF Share, Group

LEMMA SeatsErased ==
  ASSUME NEW gs, FullGroups(gs), NEW i \in DOMAIN gs, NEW c, NEW t
  PROVE  /\ FullGroups(RemoveAt(gs, i))
         /\ Cardinality(Seats(gs, c, t)) =
              Cardinality(Seats(RemoveAt(gs, i), c, t)) + Cardinality(Share(gs[i], c, t))
<1>1. PICK n \in Nat : n = Len(gs) /\ DOMAIN gs = 1..n
  BY LenProperties DEF FullGroups
<1>2. PICK r \in Seq(Group) : r = RemoveAt(gs, i)
  BY RemoveAtShifts DEF FullGroups
<1>3. DOMAIN r = 1..(n - 1) /\ \A k \in 1..(n - 1) : r[k] = gs[Shift(i, k)]
  BY <1>1, <1>2, RemoveAtShifts, LenProperties DEF FullGroups, Shift
<1>4. \A k \in 1..(n - 1) : Shift(i, k) \in 1..n /\ Shift(i, k) # i
  BY <1>1, Shifting
<1>5. \A k, l \in 1..(n - 1) : Shift(i, k) = Shift(i, l) => k = l
  BY <1>1, Shifting
<1>6. \A m \in 1..n : m # i => \E k \in 1..(n - 1) : m = Shift(i, k)
  <2> SUFFICES ASSUME NEW m \in 1..n, m # i PROVE \E k \in 1..(n - 1) : m = Shift(i, k)
    OBVIOUS
  <2>1. CASE m < i
    <3>1. m \in 1..(n - 1) /\ Shift(i, m) = m
      BY <1>1, <2>1 DEF Shift
    <3> QED
      BY <3>1
  <2>2. CASE m > i
    <3>1. m - 1 \in 1..(n - 1) /\ Shift(i, m - 1) = m
      BY <1>1, <2>2 DEF Shift
    <3> QED
      BY <3>1
  <2> QED
    BY <1>1, <2>1, <2>2
<1>7. FullGroups(r)
  BY <1>1, <1>3, <1>4 DEF FullGroups
<1> DEFINE A == Seats(r, c, t)
           B == Share(gs[i], c, t)
           f == [p \in A |-> <<Shift(i, p[1]), p[2]>>]
           g == [s \in B |-> <<i, s>>]
<1>8. \A p \in A : p = <<p[1], p[2]>> /\ p[1] \in 1..(n - 1)
  BY <1>3 DEF Seats
<1>9. f \in [A -> Seats(gs, c, t)]
  BY <1>1, <1>3, <1>4 DEF Seats
<1>10. g \in [B -> Seats(gs, c, t)]
  BY DEF Seats, Share, Places, FullGroups
<1>11. /\ \A x, y \in A : f[x] = f[y] => x = y
       /\ \A x, y \in B : g[x] = g[y] => x = y
       /\ \A x \in A, y \in B : f[x] # g[y]
  BY <1>4, <1>5, <1>8
<1>12. ASSUME NEW z \in Seats(gs, c, t)
       PROVE  (\E x \in A : z = f[x]) \/ (\E y \in B : z = g[y])
  <2>1. /\ z = <<z[1], z[2]>> /\ z[1] \in 1..n /\ z[2] \in 1..PlayersPerMatch
        /\ gs[z[1]].type = t /\ gs[z[1]].players[z[2]] = c
    BY <1>1 DEF Seats
  <2>2. CASE z[1] = i
    BY <2>1, <2>2 DEF Share, Places, FullGroups
  <2>3. CASE z[1] # i
    <3>1. PICK k \in 1..(n - 1) : z[1] = Shift(i, k)
      BY <1>6, <2>1, <2>3
    <3>2. <<k, z[2]>> \in A
      BY <1>3, <2>1, <3>1 DEF Seats
    <3>3. f[<<k, z[2]>>] = z
      BY <2>1, <3>1, <3>2
    <3> QED
      BY <3>2, <3>3
  <2> QED
    BY <2>2, <2>3
<1>13. Cover(f, A, g, B, Seats(gs, c, t))
  BY <1>9, <1>10, <1>11, <1>12 DEF Cover
<1>14. gs[i] \in Group
  BY <1>1, ElementOfSeq DEF FullGroups
<1>15. IsFiniteSet(A) /\ IsFiniteSet(B)
  BY <1>14, SeatsFinite, ShareFinite
<1> HIDE DEF A, B, f, g
<1>16. Cardinality(Seats(gs, c, t)) = Cardinality(A) + Cardinality(B)
  BY <1>13, <1>15, CountOfTwo
<1> QED
  BY <1>2, <1>7, <1>16 DEF A, B

LEMMA SeatsAppended ==
  ASSUME NEW gs, FullGroups(gs), NEW group \in Group,
         DOMAIN group.players = 1..PlayersPerMatch, NEW c, NEW t
  PROVE  /\ FullGroups(Append(gs, group))
         /\ Cardinality(Seats(Append(gs, group), c, t)) =
              Cardinality(Seats(gs, c, t)) + Cardinality(Share(group, c, t))
<1>1. PICK n \in Nat : n = Len(gs) /\ DOMAIN gs = 1..n
  BY LenProperties DEF FullGroups
<1>2. PICK r \in Seq(Group) : r = Append(gs, group)
  BY AppendProperties DEF FullGroups
<1>3. /\ DOMAIN r = 1..(n + 1)
      /\ \A k \in 1..n : r[k] = gs[k]
      /\ r[n + 1] = group
  BY <1>1, <1>2, AppendProperties, LenProperties DEF FullGroups
<1>4. FullGroups(r)
  <2>1. \A k \in 1..(n + 1) : k \in 1..n \/ k = n + 1
    OBVIOUS
  <2> QED
    BY <1>1, <1>3, <2>1 DEF FullGroups
<1>5. RemoveAt(r, n + 1) = gs
  <2>1. n + 1 \in DOMAIN r /\ Len(r) = n + 1
    BY <1>3, LenProperties
  <2>2. gs = [k \in 1..(Len(r) - 1) |-> gs[k]]
    BY <1>1, <2>1, LenProperties DEF FullGroups
  <2>3. \A k \in 1..(Len(r) - 1) : gs[k] = r[Shift(n + 1, k)]
    BY <1>3, <2>1 DEF Shift
  <2> QED
    BY <2>1, <2>2, <2>3, ErasedIs
<1>6. Cardinality(Seats(r, c, t)) =
        Cardinality(Seats(RemoveAt(r, n + 1), c, t)) + Cardinality(Share(r[n + 1], c, t))
  BY <1>3, <1>4, SeatsErased
<1> QED
  BY <1>2, <1>3, <1>4, <1>5, <1>6

-----------------------------------------------------------------------------
(***************************************************************************)
(* PlayersAreConserved.  The inductive invariant is that every pending     *)
(* creation and session has PlayersPerMatch players: a shorter one would   *)
(* have seats that belong to nobody.                                       *)
(***************************************************************************)
FullInv == FullGroups(Proposals) /\ FullGroups(Announcements)

\* Holds in the words of what Lobby sees.
Held(c, t) ==
  Cardinality(Places(queue[t], c)) + Cardinality(Seats(Proposals, c, t))
    + Cardinality(Seats(Announcements, c, t))

LEMMA HoldsIsHeld == FullInv => \A c, t : Holds(c, t) = Held(c, t)
<1> SUFFICES ASSUME FullInv, NEW c, NEW t PROVE Holds(c, t) = Held(c, t)
  OBVIOUS
<1>1. Places(queue[t], c) = {i \in DOMAIN queue[t] : queue[t][i] = c}
  BY DEF Places
<1>2. Seats(Proposals, c, t) =
        {p \in (DOMAIN pendingMatchCreations) \X (1..PlayersPerMatch) :
           /\ pendingMatchCreations[p[1]].matchData.type = t
           /\ pendingMatchCreations[p[1]].matchData.players[p[2]] = c}
  BY DEF Seats, Proposals
<1>3. \A i \in DOMAIN pendingSessions, s \in 1..PlayersPerMatch :
        Announcements[i].players[s] = pendingSessions[i].players[s].player
  BY DEF FullInv, FullGroups, Announcements, Players
<1>4. /\ DOMAIN Announcements = DOMAIN pendingSessions
      /\ \A i \in DOMAIN pendingSessions : Announcements[i].type = pendingSessions[i].type
  BY DEF Announcements
<1>5. Seats(Announcements, c, t) =
        {p \in (DOMAIN pendingSessions) \X (1..PlayersPerMatch) :
           /\ pendingSessions[p[1]].type = t
           /\ pendingSessions[p[1]].players[p[2]].player = c}
  BY <1>3, <1>4 DEF Seats
<1> QED
  BY <1>1, <1>2, <1>5 DEF Holds, Held

LEMMA HeldTypes ==
  ASSUME TypeInv, FullInv, NEW c, NEW t \in MatchType
  PROVE  /\ queue[t] \in Seq(Endpoint)
         /\ Cardinality(Places(queue[t], c)) \in Nat
         /\ Cardinality(Seats(Proposals, c, t)) \in Nat
         /\ Cardinality(Seats(Announcements, c, t)) \in Nat
         /\ Held(c, t) \in Nat
<1>1. queue[t] \in Seq(Endpoint)
  BY DEF TypeInv, TypeOK
<1>2. /\ Cardinality(Places(queue[t], c)) \in Nat
      /\ Cardinality(Seats(Proposals, c, t)) \in Nat
      /\ Cardinality(Seats(Announcements, c, t)) \in Nat
  BY <1>1, PlacesFinite, SeatsFinite DEF FullInv, FullGroups
<1> QED
  BY <1>1, <1>2 DEF Held

\* The steps Lobby does not see.
LEMMA InvisibleKeepsHeld ==
  ASSUME FullInv, UNCHANGED <<queue, Proposals, Announcements>>
  PROVE  FullInv' /\ \A c, t : Held(c, t)' = Held(c, t)
  BY DEF FullInv, Held

LEMMA FindMatchCounts ==
  ASSUME TypeInv, FullInv, NEW d \in Endpoint, NEW u \in MatchType, FindMatch(d, u)
  PROVE  /\ FullInv'
         /\ \A c \in Endpoint, t \in MatchType :
              Held(c, t)' = Held(c, t) + (IF c = d /\ t = u THEN 1 ELSE 0)
<1>1. Proposals' = Proposals /\ Announcements' = Announcements
  BY ListsSame DEF FindMatch, listVars
<1>2. queue' = [queue EXCEPT ![u] = Append(queue[u], d)]
  BY DEF FindMatch
<1>3. DOMAIN queue = MatchType
  BY DEF TypeInv, TypeOK
<1>4. ASSUME NEW c \in Endpoint, NEW t \in MatchType
      PROVE  Held(c, t)' = Held(c, t) + (IF c = d /\ t = u THEN 1 ELSE 0)
  <2>1. Cardinality(Places(queue'[t], c)) =
          Cardinality(Places(queue[t], c)) + (IF c = d /\ t = u THEN 1 ELSE 0)
    <3>0. queue[t] \in Seq(Endpoint) /\ Cardinality(Places(queue[t], c)) \in Nat
      BY HeldTypes
    <3>1. CASE t = u
      <4>1. queue'[t] = Append(queue[t], d)
        BY <1>2, <1>3, <3>1
      <4>2. Cardinality(Places(Append(queue[t], d), c)) =
              Cardinality(Places(queue[t], c)) + (IF d = c THEN 1 ELSE 0)
        BY <3>0, PlacesAppend
      <4> QED
        BY <3>1, <4>1, <4>2
    <3>2. CASE t # u
      <4>1. queue'[t] = queue[t]
        BY <1>2, <1>3, <3>2
      <4> QED
        BY <3>0, <3>2, <4>1
    <3> QED
      BY <3>1, <3>2
  <2> QED
    BY <1>1, <2>1, HeldTypes DEF Held
<1> QED
  BY <1>1, <1>4 DEF FullInv

LEMMA CancelCounts ==
  ASSUME TypeInv, FullInv, NEW d \in Endpoint, CancelSearch(d)
  PROVE  /\ FullInv'
         /\ \A c \in Endpoint, t \in MatchType :
              Held(c, t)' \in 0..Held(c, t) /\ (c # d => Held(c, t)' = Held(c, t))
<1>1. Proposals' = Proposals /\ Announcements' = Announcements
  BY ListsSame DEF CancelSearch, listVars
<1>2. ASSUME NEW c \in Endpoint, NEW t \in MatchType
      PROVE  Held(c, t)' \in 0..Held(c, t) /\ (c # d => Held(c, t)' = Held(c, t))
  <2> DEFINE kept == {i \in DOMAIN queue[t] : queue[t][i] # d}
  <2>1. queue'[t] = At(queue[t], kept)
    BY DEF CancelSearch, Without
  <2>2. c # d => Places(queue[t], c) \subseteq kept
    BY DEF Places
  <2>3. kept \in SUBSET DOMAIN queue[t]
    OBVIOUS
  <2> HIDE DEF kept
  <2>4. /\ Cardinality(Places(queue'[t], c)) <= Cardinality(Places(queue[t], c))
        /\ c # d => Cardinality(Places(queue'[t], c)) = Cardinality(Places(queue[t], c))
    BY <2>1, <2>2, <2>3, HeldTypes, PlacesAt
  <2>5. Cardinality(Places(queue'[t], c)) \in Nat
    BY <2>1, <2>3, HeldTypes, AtType, PlacesFinite
  <2> QED
    BY <1>1, <2>4, <2>5, HeldTypes DEF Held
<1> QED
  BY <1>1, <1>2 DEF FullInv

\* A group leaves the head of the queue for the creations.
LEMMA FormMatchCounts ==
  ASSUME TypeInv, FullInv, NEW u \in MatchType, FormMatch(u)
  PROVE  FullInv' /\ \A c \in Endpoint, t \in MatchType : Held(c, t)' = Held(c, t)
<1> DEFINE head == SubSeq(queue[u], 1, PlayersPerMatch)
           tail == SubSeq(queue[u], PlayersPerMatch + 1, Len(queue[u]))
           group == [type |-> u, players |-> head]
<1>1. /\ Proposals' = Append(Proposals, group)
      /\ queue' = [queue EXCEPT ![u] = tail]
      /\ Announcements' = Announcements
  BY FormingProposes DEF Promise!Propose
<1>2. PlayersPerMatch \in Nat /\ PlayersPerMatch <= Len(queue[u]) /\ queue[u] \in Seq(Endpoint)
  BY PlayersPerMatchAssumption, HeldTypes DEF FormMatch, GroupReady
<1>3. \A c : /\ head \in Seq(Endpoint) /\ Len(head) = PlayersPerMatch
             /\ Cardinality(Places(queue[u], c)) =
                  Cardinality(Places(head, c)) + Cardinality(Places(tail, c))
  BY <1>2, PlacesCut
<1>4. tail \in Seq(Endpoint)
  BY <1>2, PlacesCut
<1> HIDE DEF head, tail
<1>5. group \in Group /\ DOMAIN group.players = 1..PlayersPerMatch
  BY <1>3, LenProperties DEF Group
<1>6. FullInv'
  BY <1>1, <1>5, SeatsAppended DEF FullInv
<1>7. ASSUME NEW c \in Endpoint, NEW t \in MatchType PROVE Held(c, t)' = Held(c, t)
  <2>1. Cardinality(Seats(Proposals', c, t)) =
          Cardinality(Seats(Proposals, c, t)) + Cardinality(Share(group, c, t))
    BY <1>1, <1>5, SeatsAppended DEF FullInv
  <2>2. Cardinality(Places(head, c)) \in Nat /\ Cardinality(Places(tail, c)) \in Nat
    BY <1>3, <1>4, PlacesFinite
  <2>3. Cardinality(Places(queue[t], c)) =
          Cardinality(Places(queue'[t], c)) + Cardinality(Share(group, c, t))
    <3>1. CASE t = u
      <4>1. queue'[t] = tail /\ Share(group, c, t) = Places(head, c)
        BY <1>1, <3>1 DEF Share, TypeInv, TypeOK
      <4> QED
        BY <1>3, <2>2, <3>1, <4>1
    <3>2. CASE t # u
      <4>1. queue'[t] = queue[t] /\ Share(group, c, t) = {}
        BY <1>1, <3>2 DEF Share, TypeInv, TypeOK
      <4>2. Cardinality(Places(queue[t], c)) \in Nat /\ Cardinality(Share(group, c, t)) = 0
        BY <4>1, FS_EmptySet, HeldTypes
      <4> QED
        BY <4>1, <4>2
    <3> QED
      BY <3>1, <3>2
  <2>4. Cardinality(Share(group, c, t)) \in Nat
    BY <1>5, ShareFinite
  <2>5. Cardinality(Places(queue'[t], c)) \in Nat
    BY <1>1, <1>4, HeldTypes, PlacesFinite DEF TypeInv, TypeOK
  <2> QED
    BY <1>1, <2>1, <2>3, <2>4, <2>5, HeldTypes DEF Held
<1> QED
  BY <1>6, <1>7

\* A group goes from the creations to the sessions.
LEMMA MatchUniqueCounts ==
  ASSUME TypeInv, FullInv, NEW i \in DOMAIN pendingMatchCreations, NEW id, MatchUnique(i, id)
  PROVE  FullInv' /\ \A c \in Endpoint, t \in MatchType : Held(c, t)' = Held(c, t)
<1>1. /\ Proposals' = RemoveAt(Proposals, i)
      /\ Announcements' = Append(Announcements, Proposals[i])
      /\ queue' = queue
  BY AcceptingAnnounces DEF Promise!Announce, Promise!RemoveAt, RemoveAt
<1>2. i \in DOMAIN Proposals /\ Proposals[i] \in Group
      /\ DOMAIN Proposals[i].players = 1..PlayersPerMatch
  BY ProposalsType, ElementOfSeq, LenProperties DEF TypeInv, FullInv, FullGroups
<1>3. FullInv'
  BY <1>1, <1>2, SeatsErased, SeatsAppended DEF FullInv
<1>4. ASSUME NEW c \in Endpoint, NEW t \in MatchType PROVE Held(c, t)' = Held(c, t)
  <2>1. Cardinality(Seats(Proposals, c, t)) =
          Cardinality(Seats(Proposals', c, t)) + Cardinality(Share(Proposals[i], c, t))
    BY <1>1, <1>2, SeatsErased DEF FullInv
  <2>2. Cardinality(Seats(Announcements', c, t)) =
          Cardinality(Seats(Announcements, c, t)) + Cardinality(Share(Proposals[i], c, t))
    BY <1>1, <1>2, SeatsAppended DEF FullInv
  <2>3. /\ Cardinality(Share(Proposals[i], c, t)) \in Nat
        /\ Cardinality(Seats(Proposals', c, t)) \in Nat
    BY <1>2, <1>3, ShareFinite, SeatsFinite DEF FullInv, FullGroups
  <2> QED
    BY <1>1, <2>1, <2>2, <2>3, HeldTypes DEF Held
<1> QED
  BY <1>3, <1>4

\* A group goes back to its queue.
LEMMA GiveUpCreationCounts ==
  ASSUME TypeInv, FullInv, GiveUpCreation
  PROVE  FullInv' /\ \A c \in Endpoint, t \in MatchType : Held(c, t)' = Held(c, t)
<1>1. cursor \in DOMAIN Proposals /\ Proposals[cursor] \in Group
  BY ProposalsType, ElementOfSeq, LenProperties
     DEF GiveUpCreation, AtCreation, TypeInv, FullInv, FullGroups
<1>2. PICK group \in Group : group = Proposals[cursor]
  BY <1>1
<1>3. /\ Proposals' = RemoveAt(Proposals, cursor)
      /\ Announcements' = Announcements
  BY ProposalsErased, ListsSame DEF GiveUpCreation, AtCreation, TypeInv
<1>4. queue' = [queue EXCEPT ![group.type] = queue[group.type] \o group.players]
  BY <1>1, <1>2 DEF GiveUpCreation, AtCreation, Proposals
<1>5. FullInv'
  BY <1>1, <1>3, SeatsErased DEF FullInv
<1>6. ASSUME NEW c \in Endpoint, NEW t \in MatchType PROVE Held(c, t)' = Held(c, t)
  <2>1. Cardinality(Seats(Proposals, c, t)) =
          Cardinality(Seats(Proposals', c, t)) + Cardinality(Share(group, c, t))
    BY <1>1, <1>2, <1>3, SeatsErased DEF FullInv
  <2>2. /\ Cardinality(Share(group, c, t)) \in Nat
        /\ Cardinality(Seats(Proposals', c, t)) \in Nat
    BY <1>5, ShareFinite, SeatsFinite DEF FullInv, FullGroups
  <2>3. queue[t] \in Seq(Endpoint) /\ Cardinality(Places(queue[t], c)) \in Nat
    BY HeldTypes
  <2>4. Cardinality(Places(queue'[t], c)) =
          Cardinality(Places(queue[t], c)) + Cardinality(Share(group, c, t))
    <3>1. CASE t = group.type
      <4>1. queue'[t] = queue[t] \o group.players /\ Share(group, c, t) = Places(group.players, c)
        BY <1>4, <3>1 DEF Share, TypeInv, TypeOK
      <4>2. group.players \in Seq(Endpoint)
        BY DEF Group
      <4> QED
        BY <2>3, <4>1, <4>2, PlacesConcat
    <3>2. CASE t # group.type
      <4>1. queue'[t] = queue[t] /\ Share(group, c, t) = {}
        BY <1>4, <3>2 DEF Share, TypeInv, TypeOK
      <4> QED
        BY <2>3, <4>1, FS_EmptySet
    <3> QED
      BY <3>1, <3>2
  <2> QED
    BY <1>3, <2>1, <2>2, <2>3, <2>4, HeldTypes DEF Held
<1> QED
  BY <1>5, <1>6

\* The players of a group leave the server.
LEMMA StartCounts ==
  ASSUME TypeInv, FullInv, StartMatch
  PROVE  FullInv' /\ \A c \in Endpoint, t \in MatchType : Held(c, t)' \in 0..Held(c, t)
<1>1. cursor \in DOMAIN Announcements /\ Announcements[cursor] \in Group
  BY AnnouncementsType, ElementOfSeq, LenProperties
     DEF StartMatch, AtSession, TypeInv, FullInv, FullGroups
<1>2. /\ Announcements' = RemoveAt(Announcements, cursor)
      /\ Proposals' = Proposals /\ queue' = queue
  BY AnnouncementsErased, ListsSame DEF StartMatch, AtSession, TypeInv
<1>3. FullInv'
  BY <1>1, <1>2, SeatsErased DEF FullInv
<1>4. ASSUME NEW c \in Endpoint, NEW t \in MatchType PROVE Held(c, t)' \in 0..Held(c, t)
  <2>1. Cardinality(Seats(Announcements, c, t)) =
          Cardinality(Seats(Announcements', c, t))
            + Cardinality(Share(Announcements[cursor], c, t))
    BY <1>1, <1>2, SeatsErased DEF FullInv
  <2>2. /\ Cardinality(Share(Announcements[cursor], c, t)) \in Nat
        /\ Cardinality(Seats(Announcements', c, t)) \in Nat
    BY <1>1, <1>3, ShareFinite, SeatsFinite DEF FullInv, FullGroups
  <2> QED
    BY <1>2, <2>1, <2>2, HeldTypes DEF Held
<1> QED
  BY <1>3, <1>4

\* The players that have acknowledged return to the queue of their session.
LEMMA RequeueCounts ==
  ASSUME TypeInv, FullInv, Requeue
  PROVE  /\ FullInv'
         /\ \A c \in Endpoint, t \in MatchType :
              /\ Held(c, t)' \in 0..Held(c, t)
              /\ (\A s \in Waiting(pendingSessions[cursor]) :
                    pendingSessions[cursor].players[s].player # c)
                   => Held(c, t)' = Held(c, t)
<1>1. cursor \in DOMAIN pendingSessions
  BY DEF Requeue, Main, TypeInv
<1>2. cursor \in DOMAIN Announcements /\ Announcements[cursor] \in Group
  BY <1>1, AnnouncementsType, ElementOfSeq, LenProperties DEF TypeInv, FullInv, FullGroups
<1>3. PICK group \in Group : group = Announcements[cursor]
  BY <1>2
<1>4. PICK session : session = pendingSessions[cursor]
  OBVIOUS
<1>5. PICK kept : kept = Acked(session)
  OBVIOUS
<1>6. /\ Announcements' = RemoveAt(Announcements, cursor)
      /\ Proposals' = Proposals
  BY <1>1, AnnouncementsErased, ListsSame DEF Requeue, TypeInv
<1>7. group.type = session.type /\ group.players = Players(session)
  BY <1>1, <1>3, <1>4 DEF Announcements
<1>8. queue' = [queue EXCEPT ![group.type] = queue[group.type] \o At(group.players, kept)]
  BY <1>4, <1>5, <1>7 DEF Requeue
<1>9. group.players \in Seq(Endpoint) /\ kept \in SUBSET DOMAIN group.players
  BY <1>5, <1>7 DEF Group, Acked, Players
<1>10. At(group.players, kept) \in Seq(Endpoint)
  BY <1>9, AtType
<1>11. FullInv'
  BY <1>2, <1>6, SeatsErased DEF FullInv
<1>12. ASSUME NEW c \in Endpoint, NEW t \in MatchType
       PROVE  /\ Held(c, t)' \in 0..Held(c, t)
              /\ (\A s \in Waiting(session) : session.players[s].player # c)
                   => Held(c, t)' = Held(c, t)
  <2> DEFINE back == Cardinality(Places(At(group.players, kept), c))
             all == Cardinality(Places(group.players, c))
             share == Cardinality(Share(group, c, t))
             returned == IF t = group.type THEN back ELSE 0
  <2>1. Cardinality(Seats(Announcements, c, t)) =
          Cardinality(Seats(Announcements', c, t)) + share
    BY <1>2, <1>3, <1>6, SeatsErased DEF FullInv
  <2>2. share \in Nat /\ Cardinality(Seats(Announcements', c, t)) \in Nat
    BY <1>11, ShareFinite, SeatsFinite DEF FullInv, FullGroups
  <2>3. queue[t] \in Seq(Endpoint) /\ Cardinality(Places(queue[t], c)) \in Nat
    BY HeldTypes
  <2>4. back \in Nat /\ all \in Nat
    BY <1>9, <1>10, PlacesFinite
  <2>5. back <= all /\ (Places(group.players, c) \subseteq kept => back = all)
    BY <1>9, PlacesAt
  <2>6. share = IF t = group.type THEN all ELSE 0
    BY FS_EmptySet DEF Share
  <2>7. Cardinality(Places(queue'[t], c)) = Cardinality(Places(queue[t], c)) + returned
    <3>1. CASE t = group.type
      <4>1. queue'[t] = queue[t] \o At(group.players, kept)
        BY <1>8, <3>1 DEF TypeInv, TypeOK
      <4> QED
        BY <1>10, <2>3, <3>1, <4>1, PlacesConcat
    <3>2. CASE t # group.type
      <4>1. queue'[t] = queue[t]
        BY <1>8, <3>2 DEF TypeInv, TypeOK
      <4> QED
        BY <2>3, <3>2, <4>1
    <3> QED
      BY <3>1, <3>2
  <2>8. ASSUME \A s \in Waiting(session) : session.players[s].player # c
        PROVE  Places(group.players, c) \subseteq kept
    BY <1>5, <1>7, <2>8 DEF Places, Waiting, Acked, Players
  <2> HIDE DEF back, all, share
  <2>9. returned \in Nat /\ returned <= share
        /\ (Places(group.players, c) \subseteq kept => returned = share)
    BY <2>4, <2>5, <2>6
  <2> HIDE DEF returned
  <2>10. /\ Held(c, t)' = Cardinality(Places(queue[t], c)) + returned
              + Cardinality(Seats(Proposals, c, t)) + Cardinality(Seats(Announcements', c, t))
         /\ Held(c, t) = Cardinality(Places(queue[t], c)) + Cardinality(Seats(Proposals, c, t))
              + (Cardinality(Seats(Announcements', c, t)) + share)
    BY <1>6, <2>1, <2>7 DEF Held
  <2>11. Cardinality(Seats(Proposals, c, t)) \in Nat
    BY HeldTypes
  <2> QED
    BY <2>2, <2>3, <2>8, <2>9, <2>10, <2>11, SMTT(30)
<1> QED
  BY <1>4, <1>11, <1>12

-----------------------------------------------------------------------------
(* The steps together. *)

\* PlayersAreConserved for one step, in the words of Held.
HeldConserved ==
  \A c \in Endpoint, t \in MatchType :
    /\ Held(c, t)' > Held(c, t) => FindMatch(c, t) /\ Held(c, t)' = Held(c, t) + 1
    /\ Held(c, t)' < Held(c, t) =>
         \/ CancelSearch(c)
         \/ StartMatch
         \/ /\ Requeue
            /\ \E s \in Waiting(pendingSessions[cursor]) :
                 pendingSessions[cursor].players[s].player = c

LEMMA HeldSame ==
  ASSUME TypeInv, FullInv,
         \A c \in Endpoint, t \in MatchType : Held(c, t)' = Held(c, t)
  PROVE  HeldConserved
  BY HeldTypes DEF HeldConserved

LEMMA HandlersConserve ==
  ASSUME TypeInv, FullInv, DispatchThread
  PROVE  FullInv' /\ HeldConserved
<1>1. CASE \E c \in Endpoint, t \in MatchType : FindMatch(c, t)
  <2>1. PICK d \in Endpoint, u \in MatchType : FindMatch(d, u)
    BY <1>1
  <2> QED
    BY <2>1, FindMatchCounts, HeldTypes DEF HeldConserved
<1>2. CASE \E c \in Endpoint : CancelSearch(c)
  <2>1. PICK d \in Endpoint : CancelSearch(d)
    BY <1>2
  <2>2. /\ FullInv'
        /\ \A c \in Endpoint, t \in MatchType :
             Held(c, t)' \in 0..Held(c, t) /\ (c # d => Held(c, t)' = Held(c, t))
    BY <2>1, CancelCounts
  <2>3. ASSUME NEW c \in Endpoint, NEW t \in MatchType
        PROVE  /\ ~(Held(c, t)' > Held(c, t))
               /\ Held(c, t)' < Held(c, t) => CancelSearch(c)
    <3>1. Held(c, t) \in Nat
      BY HeldTypes
    <3>2. Held(c, t)' \in 0..Held(c, t) /\ (c # d => Held(c, t)' = Held(c, t))
      BY <2>2
    <3> QED
      BY <2>1, <3>1, <3>2
  <2> QED
    BY <2>2, <2>3 DEF HeldConserved
<1>3. ASSUME UNCHANGED <<queue, Proposals, Announcements>>
      PROVE  FullInv' /\ HeldConserved
  BY <1>3, InvisibleKeepsHeld, HeldSame
<1>4. CASE \E c \in Endpoint : AckMatchFound(c)
  BY <1>3, <1>4, AcksInvisible, ListsSame DEF AckMatchFound
<1>5. CASE \E id \in MatchID : \E i \in DOMAIN pendingMatchCreations : MatchUnique(i, id)
  BY <1>5, MatchUniqueCounts, HeldSame
<1>6. CASE \E id \in MatchID : \E i \in DOMAIN pendingMatchCreations : MatchUsed(i, id)
  BY <1>3, <1>6, RenamesInvisible, ListsSame DEF MatchUsed
<1>7. CASE BadMatchID \/ \E id \in MatchID : LookInVain(id)
  BY <1>3, <1>7, ListsSame DEF BadMatchID, LookInVain, listVars
<1> QED
  BY <1>1, <1>2, <1>4, <1>5, <1>6, <1>7 DEF DispatchThread

LEMMA MainLoopConserves ==
  ASSUME TypeInv, FullInv, MainLoop
  PROVE  FullInv' /\ HeldConserved
<1>1. ASSUME UNCHANGED <<queue, Proposals, Announcements>>
      PROVE  FullInv' /\ HeldConserved
  BY <1>1, InvisibleKeepsHeld, HeldSame
<1>2. CASE \/ Tick \/ SkipCreation \/ CreationsDone \/ SessionsDone
           \/ \E t \in MatchType : NoMatch(t)
  BY <1>1, <1>2, ListsSame DEF Tick, SkipCreation, CreationsDone, SessionsDone, NoMatch, listVars
<1>3. CASE \E t \in MatchType : FormMatch(t)
  BY <1>3, FormMatchCounts, HeldSame
<1>4. CASE GiveUpCreation
  BY <1>4, GiveUpCreationCounts, HeldSame
<1>5. CASE SendCreation
  BY <1>1, <1>5, SendsInvisible, ListsSame DEF SendCreation
<1>6. ASSUME NEW due, AwaitAcks(due) PROVE FullInv' /\ HeldConserved
  BY <1>1, <1>6, ResendsInvisible, ListsSame DEF AwaitAcks
<1>7. ASSUME NEW due, NEW last, GiveUpSession(due, last) PROVE FullInv' /\ HeldConserved
  BY <1>1, <1>7, ResendsInvisible, ListsSame DEF GiveUpSession
<1>8. CASE Requeue
  <2>1. ASSUME NEW c \in Endpoint, NEW t \in MatchType
        PROVE  /\ ~(Held(c, t)' > Held(c, t))
               /\ Held(c, t)' < Held(c, t) =>
                    \E s \in Waiting(pendingSessions[cursor]) :
                      pendingSessions[cursor].players[s].player = c
    <3>1. /\ Held(c, t)' \in 0..Held(c, t)
          /\ (\A s \in Waiting(pendingSessions[cursor]) :
                pendingSessions[cursor].players[s].player # c)
               => Held(c, t)' = Held(c, t)
      BY <1>8, RequeueCounts
    <3>2. Held(c, t) \in Nat
      BY HeldTypes
    <3> QED
      BY <3>1, <3>2
  <2> QED
    BY <1>8, <2>1, RequeueCounts DEF HeldConserved
<1>9. CASE StartMatch
  <2>1. ASSUME NEW c \in Endpoint, NEW t \in MatchType
        PROVE  ~(Held(c, t)' > Held(c, t))
    <3>1. Held(c, t)' \in 0..Held(c, t) /\ Held(c, t) \in Nat
      BY <1>9, StartCounts, HeldTypes
    <3> QED
      BY <3>1
  <2> QED
    BY <1>9, <2>1, StartCounts DEF HeldConserved
<1> QED
  BY <1>2, <1>3, <1>4, <1>5, <1>6, <1>7, <1>8, <1>9 DEF MainLoop

LEMMA ConservedStep ==
  TypeInv /\ FullInv /\ [Next]_vars => FullInv' /\ HeldConserved
<1> SUFFICES ASSUME TypeInv, FullInv, [Next]_vars PROVE FullInv' /\ HeldConserved
  OBVIOUS
<1>1. CASE Leave \/ Over \/ UNCHANGED vars
  <2>1. UNCHANGED <<queue, Proposals, Announcements>>
    BY <1>1, ListsSame DEF Leave, Over, listVars, vars
  <2> QED
    BY <2>1, InvisibleKeepsHeld, HeldSame
<1> QED
  BY <1>1, HandlersConserve, MainLoopConserves DEF Next

LEMMA FullInvariance == Spec => []FullInv
<1>1. Init => FullInv
  <2> SUFFICES ASSUME Init PROVE FullInv
    OBVIOUS
  <2>1. Proposals = <<>> /\ Announcements = <<>>
    BY DEF Init, Proposals, Announcements
  <2>2. <<>> \in Seq(Group) /\ DOMAIN <<>> = {}
    BY EmptySeq
  <2> QED
    BY <2>1, <2>2 DEF FullInv, FullGroups
<1> QED
  BY <1>1, ConservedStep, TypeInvariance, PTL DEF Spec

\* PlayersAreConserved: nobody is lost, doubled or moved to the other kind of
\* match, for any number of clients, players per match, attempts and retries.
THEOREM Conservation == Spec => PlayersAreConserved
<1> DEFINE Conserved ==
      fate' = "running" =>
        \A c \in Endpoint, t \in MatchType :
          LET before == Holds(c, t)
              after == Holds(c, t)'
          IN /\ after > before => FindMatch(c, t) /\ after = before + 1
             /\ after < before =>
                  \/ CancelSearch(c)
                  \/ StartMatch
                  \/ /\ Requeue
                     /\ \E s \in Waiting(pendingSessions[cursor]) :
                          pendingSessions[cursor].players[s].player = c
<1>1. (FullInv => \A c, t : Holds(c, t) = Held(c, t))'
  BY HoldsIsHeld, PTL
<1>2. ASSUME FullInv, FullInv', HeldConserved PROVE Conserved
  <2>1. \A c, t : Holds(c, t) = Held(c, t)
    BY <1>2, HoldsIsHeld
  <2>2. \A c, t : Holds(c, t)' = Held(c, t)'
    BY <1>1, <1>2
  <2> QED
    BY <1>2, <2>1, <2>2 DEF HeldConserved
<1>3. TypeInv /\ FullInv /\ FullInv' /\ [Next]_vars => [Conserved]_vars
  BY <1>2, ConservedStep
<1>4. TypeInv /\ FullInv /\ [Next]_vars => FullInv'
  BY ConservedStep
<1> HIDE DEF Conserved
<1>5. Spec => [][Conserved]_vars
  BY <1>3, <1>4, TypeInvariance, FullInvariance, PTL DEF Spec
<1> QED
  BY <1>5 DEF PlayersAreConserved, Conserved

-----------------------------------------------------------------------------
(* The composition with players, game server and network. *)

Has(id) == matches[id] \notin {None, Earlier}
Agrees(id, players) == Has(id) /\ matches[id].players = players

SystemTypes ==
  /\ matches \in [MatchID -> StartMatchData \cup {None, Earlier}]
  /\ answers \subseteq {"MATCH_UNIQUE", "MATCH_USED"} \X MatchID
  /\ told \in [Endpoint -> SUBSET (MatchID \X Nat)]
  /\ acks \subseteq Endpoint

\* What the service has sent and received, by type.
LEMMA SentTypes ==
  ASSUME TypeOK, NEW d \in sent
  PROVE  IF IsCreate(d)
         THEN d.data \in StartMatchData /\ d.data.matchID \in MatchID
         ELSE d.to \in Endpoint /\ d.matchID \in MatchID /\ d.seat \in Nat
  BY DEF TypeOK, Datagram, IsCreate, StartMatchData

-----------------------------------------------------------------------------
(* The composition restricts Matchmaking: what others send is what its     *)
(* handlers may receive.                                                   *)

LEMMA ServiceSteps ==
  ASSUME SystemTypes, Service
  PROVE  Next
<1>1. CASE Delivered
  <2>1. CASE \E c \in Endpoint, t \in Searched : FindMatch(c, t)
    BY <2>1, SearchedAssumption DEF Next, DispatchThread
  <2>2. CASE \E c \in Endpoint : CancelSearch(c)
    BY <2>2 DEF Next, DispatchThread
  <2>3. CASE \E c \in acks : AckMatchFound(c)
    BY <2>3 DEF Next, DispatchThread, SystemTypes
  <2>4. CASE \E a \in answers : \E i \in DOMAIN pendingMatchCreations :
               \/ a[1] = "MATCH_UNIQUE" /\ MatchUnique(i, a[2])
               \/ a[1] = "MATCH_USED" /\ MatchUsed(i, a[2])
    <3>1. PICK a \in answers, i \in DOMAIN pendingMatchCreations :
            MatchUnique(i, a[2]) \/ MatchUsed(i, a[2])
      BY <2>4
    <3>2. PICK id \in MatchID : id = a[2]
      BY DEF SystemTypes
    <3> QED
      BY <3>1, <3>2 DEF Next, DispatchThread
  <2>5. CASE \E a \in answers : LookInVain(a[2])
    BY <2>5 DEF Next, DispatchThread, SystemTypes
  <2> QED
    BY <1>1, <2>1, <2>2, <2>3, <2>4, <2>5 DEF Delivered
<1> QED
  BY <1>1 DEF Service, Next

LEMMA SystemSteps ==
  ASSUME SystemTypes, [SystemNext]_allVars
  PROVE  [Next]_vars
  BY ServiceSteps DEF SystemNext, GameServerCreates, GameServerKnows, GameServerEnds,
     PlayerIsTold, allVars

LEMMA SystemTypesStep ==
  ASSUME SystemTypes, TypeOK, [SystemNext]_allVars
  PROVE  SystemTypes'
<1>1. CASE UNCHANGED systemVars
  BY <1>1 DEF SystemTypes, systemVars
<1>2. ASSUME NEW d \in sent, IsCreate(d), GameServerCreates(d.data) \/ GameServerKnows(d.data)
      PROVE  SystemTypes'
  <2>1. d.data \in StartMatchData /\ d.data.matchID \in MatchID
    BY <1>2, SentTypes
  <2>2. matches' \in [MatchID -> StartMatchData \cup {None, Earlier}]
    BY <1>2, <2>1 DEF SystemTypes, GameServerCreates, GameServerKnows
  <2>3. answers' \subseteq {"MATCH_UNIQUE", "MATCH_USED"} \X MatchID
    BY <1>2, <2>1 DEF SystemTypes, GameServerCreates, GameServerKnows
  <2>4. UNCHANGED <<told, acks>>
    BY <1>2 DEF GameServerCreates, GameServerKnows
  <2> QED
    BY <2>2, <2>3, <2>4 DEF SystemTypes
<1>3. ASSUME NEW d \in sent, ~IsCreate(d), PlayerIsTold(d)
      PROVE  SystemTypes'
  <2>1. d.to \in Endpoint /\ d.matchID \in MatchID /\ d.seat \in Nat
    BY <1>3, SentTypes
  <2>2. told' \in [Endpoint -> SUBSET (MatchID \X Nat)]
    BY <1>3, <2>1 DEF SystemTypes, PlayerIsTold
  <2>3. acks' \subseteq Endpoint /\ UNCHANGED <<matches, answers>>
    BY <1>3, <2>1 DEF SystemTypes, PlayerIsTold
  <2> QED
    BY <2>2, <2>3 DEF SystemTypes
<1>4. ASSUME NEW id \in MatchID, GameServerEnds(id) PROVE SystemTypes'
  BY <1>4 DEF SystemTypes, GameServerEnds
<1> QED
  BY <1>1, <1>2, <1>3, <1>4 DEF SystemNext, allVars, systemVars, IsCreate

LEMMA SystemTypesInit == SystemInit => SystemTypes
  BY DEF SystemInit, SystemTypes

LEMMA Restricts == SystemSpec => Spec /\ []SystemTypes
<1>1. SystemInit => Init /\ SystemTypes
  BY SystemTypesInit DEF SystemInit
<1>2. SystemInit => TypeInv
  BY InitTypes DEF SystemInit
<1>3. TypeInv /\ SystemTypes /\ [SystemNext]_allVars => [Next]_vars /\ SystemTypes'
  BY SystemSteps, SystemTypesStep DEF TypeInv
<1>4. TypeInv /\ [Next]_vars => TypeInv'
  BY TypesStep
<1> QED
  BY <1>1, <1>2, <1>3, <1>4, PTL DEF SystemSpec, Spec

-----------------------------------------------------------------------------
(***************************************************************************)
(* The inductive invariant.  A match on the game server is one it was      *)
(* asked for, so what Matchmaking keeps about CREATE_MATCH holds of it;    *)
(* MATCH_UNIQUE is only said of matches that are there; and what was sent  *)
(* to players about a match is so on the game server.                      *)
(***************************************************************************)
MatchesAsked ==
  \A id \in MatchID : Has(id) => Asked(matches[id]) /\ matches[id].matchID = id

AnswersHonest == \A a \in answers : a[1] = "MATCH_UNIQUE" => Has(a[2])

FoundIsSo(e) ==
  Has(e.matchID) /\ e.seat \in DOMAIN matches[e.matchID].players
    /\ matches[e.matchID].players[e.seat] = e.to

FoundKnown == \A e \in sent : ~IsCreate(e) => FoundIsSo(e)

SystemInv == MatchesAsked /\ AnswersHonest /\ FoundKnown /\ SessionsAreKnown /\ SeatsAgree

MatchmakingInv == TypeInv /\ IdInv /\ GroupInv

LEMMA SessionsKnownParts ==
  SessionsAreKnown <=>
    \A j \in DOMAIN pendingSessions : Agrees(SessionID(j), Players(pendingSessions[j]))
  BY DEF SessionsAreKnown, Agrees, Has, SessionID

\* A step that leaves the creations alone knows its sessions as sessions.
LEMMA StillKnown ==
  ASSUME MatchmakingInv, SystemInv, UNCHANGED <<pendingMatchCreations, matches>>, IdInv',
         KeepsSessions
  PROVE  SessionsAreKnown'
<1>1. SUFFICES ASSUME NEW j \in DOMAIN pendingSessions'
               PROVE  Agrees(pendingSessions'[j].matchID, Players(pendingSessions'[j]))
  BY DEF SessionsAreKnown, Agrees, Has, Players
<1>2. \A i \in DOMAIN pendingMatchCreations : CreationID(i) # pendingSessions'[j].matchID
  BY DEF IdInv, MatchIDsAreUnique, CreationID
<1>3. PICK k \in DOMAIN pendingSessions :
        /\ SessionID(k) = pendingSessions'[j].matchID
        /\ Players(pendingSessions[k]) = Players(pendingSessions'[j])
  BY <1>2 DEF KeepsSessions, Known
<1> QED
  BY <1>3, SessionsKnownParts DEF SystemInv

\* What a step tells of a match that is no creation is so.
LEMMA ToldIsSo ==
  ASSUME SystemInv, NEW e, Tells(e), UNCHANGED pendingMatchCreations
  PROVE  FoundIsSo(e)
<1>1. PICK p : Known(e.matchID, p) /\ e.seat \in DOMAIN p /\ e.to = p[e.seat]
  BY DEF Tells
<1>2. \A i \in DOMAIN pendingMatchCreations : CreationID(i) # e.matchID
  BY DEF Tells, CreationID
<1>3. Agrees(e.matchID, p)
  BY <1>1, <1>2, SessionsKnownParts DEF Known, SystemInv
<1> QED
  BY <1>1, <1>3 DEF Agrees, FoundIsSo

\* Nothing that was sent is taken back.
LEMMA SentGrows ==
  ASSUME [Next]_vars
  PROVE  sent \subseteq sent'
<1>1. CASE DispatchThread
  BY <1>1 DEF DispatchThread, FindMatch, CancelSearch, AckMatchFound, MatchUnique, MatchUsed,
     BadMatchID, LookInVain
<1>2. CASE MainLoop
  BY <1>2 DEF MainLoop, Tick, FormMatch, NoMatch, SkipCreation, GiveUpCreation, SendCreation,
     CreationsDone, AwaitAcks, GiveUpSession, Resend, Requeue, StartMatch, SessionsDone
<1> QED
  BY <1>1, <1>2 DEF Next, Leave, Over, vars

-----------------------------------------------------------------------------
\* A step of the service keeps the invariant if its sessions are known and
\* what it tells players is so.
LEMMA ServiceKeeps ==
  ASSUME SystemInv, UNCHANGED systemVars, sent \subseteq sent', SessionsAreKnown',
         \A d \in sent' : d \in sent \/ IsCreate(d) \/ FoundIsSo(d)
  PROVE  SystemInv'
<1>1. MatchesAsked'
  BY DEF SystemInv, MatchesAsked, Asked, Has, systemVars
<1>2. AnswersHonest'
  BY DEF SystemInv, AnswersHonest, Has, systemVars
<1>3. FoundKnown'
  BY DEF SystemInv, FoundKnown, FoundIsSo, Has, IsCreate, systemVars
<1>4. SeatsAgree'
  BY DEF SystemInv, SeatsAgree, systemVars
<1> QED
  BY <1>1, <1>2, <1>3, <1>4 DEF SystemInv

\* The match the game server calls unique is the creation that is accepted.
LEMMA AcceptedIsKnown ==
  ASSUME MatchmakingInv, SystemTypes, SystemInv, NEW i \in DOMAIN pendingMatchCreations,
         NEW id \in MatchID, Has(id), MatchUnique(i, id), UNCHANGED systemVars
  PROVE  /\ SessionsAreKnown'
         /\ \A d \in sent' : d \in sent \/ IsCreate(d) \/ FoundIsSo(d)
<1> DEFINE data == pendingMatchCreations[i].matchData
<1>1. data \in StartMatchData /\ data.matchID = id
  BY CreationTypes DEF MatchmakingInv, TypeInv, MatchUnique, IsCreation
<1>2. data = matches[id]
  <2>1. CreateMatch(matches[id]) \in sent /\ matches[id].matchID = id
    BY DEF SystemInv, MatchesAsked, Asked
  <2>2. IsCreate(CreateMatch(matches[id])) /\ CreateMatch(matches[id]).data = matches[id]
    BY DEF IsCreate, CreateMatch
  <2> QED
    BY <1>1, <2>1, <2>2 DEF MatchmakingInv, GroupInv, CreatesAgree, CreationID, Data
<1>3. SessionsAreKnown'
  <2>1. SUFFICES ASSUME NEW j \in DOMAIN pendingSessions'
                 PROVE  Agrees(pendingSessions'[j].matchID, Players(pendingSessions'[j]))
    BY DEF SessionsAreKnown, Agrees, Has, Players, systemVars
  <2>2. PICK n \in Nat : n = Len(pendingSessions) /\ DOMAIN pendingSessions = 1..n
    BY Indices DEF MatchmakingInv, TypeInv
  <2>3. /\ DOMAIN pendingSessions' = 1..(n + 1)
        /\ \A k \in 1..n : pendingSessions'[k] = pendingSessions[k]
        /\ pendingSessions'[n + 1] = NewSession(data)
    BY <2>2, Accepted DEF MatchmakingInv, TypeInv
  <2>4. CASE j \in 1..n
    BY <2>2, <2>3, <2>4, SessionsKnownParts DEF SystemInv, SessionID
  <2>5. CASE j = n + 1
    <3> HIDE DEF data
    <3> QED
      BY <1>1, <1>2, <2>3, <2>5, NewPlayers DEF Agrees
  <2> QED
    BY <2>1, <2>2, <2>3, <2>4, <2>5
<1>4. ASSUME NEW d \in sent', d \notin sent PROVE FoundIsSo(d)
  <2>1. PICK s \in DOMAIN data.players :
          d = Found("MATCH_FOUND", data.players[s], data.matchID, s)
    BY <1>4 DEF MatchUnique, MatchFoundTo
  <2>2. d.to = data.players[s] /\ d.matchID = data.matchID /\ d.seat = s
    BY <2>1 DEF Found
  <2> QED
    BY <1>1, <1>2, <2>1, <2>2 DEF FoundIsSo
<1> QED
  BY <1>3, <1>4

LEMMA ServiceStep ==
  ASSUME MatchmakingInv, SystemTypes, SystemInv, Service, UNCHANGED systemVars
  PROVE  SystemInv'
<1>1. [Next]_vars /\ IdInv' /\ sent \subseteq sent'
  BY ServiceSteps, IdsStep, SentGrows DEF MatchmakingInv
<1>2. ASSUME UNCHANGED pendingSessions, \A d \in sent' : d \in sent \/ IsCreate(d)
      PROVE  SystemInv'
  <2>1. SessionsAreKnown'
    BY <1>2 DEF SystemInv, SessionsAreKnown, Players, systemVars
  <2> QED
    BY <1>1, <1>2, <2>1, ServiceKeeps
<1>3. ASSUME KeepsSessions, UNCHANGED pendingMatchCreations,
             \A d \in sent' : d \in sent \/ Tells(d)
      PROVE  SystemInv'
  <2>1. SessionsAreKnown'
    BY <1>1, <1>3, StillKnown DEF systemVars
  <2>2. \A d \in sent' : d \in sent \/ FoundIsSo(d)
    BY <1>3, ToldIsSo
  <2> QED
    BY <1>1, <2>1, <2>2, ServiceKeeps
<1>4. CASE Delivered
  <2>1. CASE \E c \in Endpoint : (\E t \in Searched : FindMatch(c, t)) \/ CancelSearch(c)
    BY <1>2, <2>1 DEF FindMatch, CancelSearch, listVars
  <2>2. CASE \E c \in acks : AckMatchFound(c)
    <3>1. PICK c \in acks : AckMatchFound(c)
      BY <2>2
    <3>2. KeepsSessions
      BY <3>1, AckedSessions DEF MatchmakingInv
    <3> QED
      BY <1>3, <3>1, <3>2 DEF AckMatchFound
  <2>3. CASE \E a \in answers : \E i \in DOMAIN pendingMatchCreations :
               \/ a[1] = "MATCH_UNIQUE" /\ MatchUnique(i, a[2])
               \/ a[1] = "MATCH_USED" /\ MatchUsed(i, a[2])
    <3>1. PICK a \in answers, i \in DOMAIN pendingMatchCreations :
            \/ a[1] = "MATCH_UNIQUE" /\ MatchUnique(i, a[2])
            \/ MatchUsed(i, a[2])
      BY <2>3
    <3>2. PICK id \in MatchID : id = a[2]
      BY DEF SystemTypes
    <3>3. CASE a[1] = "MATCH_UNIQUE" /\ MatchUnique(i, id)
      <4>1. Has(id)
        BY <3>2, <3>3 DEF SystemInv, AnswersHonest
      <4> QED
        BY <1>1, <3>3, <4>1, AcceptedIsKnown, ServiceKeeps
    <3>4. CASE MatchUsed(i, id)
      BY <1>2, <3>4 DEF MatchUsed
    <3> QED
      BY <3>1, <3>2, <3>3, <3>4
  <2>4. CASE \E a \in answers : LookInVain(a[2])
    BY <1>2, <2>4 DEF LookInVain, listVars
  <2> QED
    BY <1>4, <2>1, <2>2, <2>3, <2>4 DEF Delivered
<1>5. CASE MainLoop
  <2>1. CASE \/ Tick \/ CreationsDone \/ SessionsDone \/ SkipCreation \/ GiveUpCreation
             \/ \E t \in MatchType : FormMatch(t) \/ NoMatch(t)
    BY <1>2, <2>1 DEF Tick, CreationsDone, SessionsDone, SkipCreation, GiveUpCreation, FormMatch,
       NoMatch, listVars
  <2>2. CASE SendCreation
    <3>1. \A d \in sent' : d \in sent \/ IsCreate(d)
      BY <2>2 DEF SendCreation, CreateMatch, IsCreate
    <3> QED
      BY <1>2, <2>2, <3>1 DEF SendCreation
  <2>3. ASSUME NEW due, AtSession, due \subseteq Waiting(pendingSessions[cursor]),
               Resend(pendingSessions[cursor], due), UNCHANGED pendingMatchCreations
        PROVE  SystemInv'
    BY <1>3, <2>3, ResentSessions, ResentTells DEF MatchmakingInv
  <2>4. CASE \E due \in SUBSET (1..PlayersPerMatch) : AwaitAcks(due)
    <3>1. PICK due : AwaitAcks(due)
      BY <2>4
    <3> QED
      BY <2>3, <3>1 DEF AwaitAcks
  <2>5. CASE \E due \in SUBSET (1..PlayersPerMatch), last \in 1..PlayersPerMatch :
               GiveUpSession(due, last)
    <3>1. PICK due, last : GiveUpSession(due, last)
      BY <2>5
    <3> QED
      BY <2>3, <3>1 DEF GiveUpSession
  <2>6. CASE Requeue \/ StartMatch
    <3>1. /\ cursor \in DOMAIN pendingSessions
          /\ pendingSessions' = RemoveAt(pendingSessions, cursor)
          /\ UNCHANGED <<pendingMatchCreations, sent>>
      BY <2>6 DEF Requeue, StartMatch, AtSession, Main, MatchmakingInv, TypeInv
    <3> QED
      BY <1>3, <3>1, SessionsErased DEF MatchmakingInv
  <2> QED
    BY <1>5, <2>1, <2>2, <2>4, <2>5, <2>6 DEF MainLoop
<1>6. CASE Leave \/ Over
  BY <1>2, <1>6 DEF Leave, Over, listVars, vars
<1> QED
  BY <1>4, <1>5, <1>6 DEF Service

LEMMA SystemStep ==
  ASSUME MatchmakingInv, SystemTypes, SystemInv, [SystemNext]_allVars
  PROVE  SystemInv'
<1>1. CASE UNCHANGED allVars
  BY <1>1 DEF allVars, vars, systemVars, SystemInv, MatchesAsked, Asked, AnswersHonest, FoundKnown,
     FoundIsSo, Has, IsCreate, SessionsAreKnown, Players, SeatsAgree
<1>2. ASSUME NEW d \in sent, IsCreate(d), GameServerCreates(d.data) PROVE SystemInv'
  <2> DEFINE id == d.data.matchID
  <2>1. id \in MatchID /\ d.data \in StartMatchData
    BY <1>2, SentTypes DEF MatchmakingInv, TypeInv
  <2>2. /\ Asked(d.data) /\ ~Has(id)
        /\ matches' = [matches EXCEPT ![id] = d.data]
        /\ answers' = answers \cup {<<"MATCH_UNIQUE", id>>}
        /\ UNCHANGED <<sent, told, pendingSessions>>
    BY <1>2 DEF GameServerCreates, Has, vars
  <2>3. Has(id)'
    BY <2>1, <2>2, NoneAssumption, EarlierAssumption DEF Has, SystemTypes
  <2>4. \A n \in MatchID : Has(n) => n # id /\ Has(n)' /\ matches'[n] = matches[n]
    BY <2>1, <2>2 DEF Has, SystemTypes
  <2> HIDE DEF id
  <2>5. MatchesAsked'
    <3>1. matches'[id] = d.data /\ matches'[id].matchID = id
      BY <2>1, <2>2 DEF id, SystemTypes
    <3>2. \A n \in MatchID : n # id => matches'[n] = matches[n]
      BY <2>2 DEF SystemTypes
    <3> QED
      BY <2>2, <3>1, <3>2 DEF MatchesAsked, SystemInv, Asked, Has
  <2>6. AnswersHonest'
    BY <2>2, <2>3, <2>4 DEF AnswersHonest, SystemInv, SystemTypes
  <2>7. FoundKnown'
    <3>1. \A e \in sent : ~IsCreate(e) => e.matchID \in MatchID
      BY SentTypes DEF MatchmakingInv, TypeInv
    <3> QED
      BY <2>2, <2>4, <3>1 DEF FoundKnown, FoundIsSo, SystemInv, Has, IsCreate
  <2>8. SessionsAreKnown'
    <3>1. \A j \in DOMAIN pendingSessions : pendingSessions[j].matchID \in MatchID
      BY SessionTypes DEF MatchmakingInv, TypeInv
    <3> QED
      BY <2>2, <2>4, <3>1 DEF SessionsAreKnown, SystemInv, Has, Players
  <2>9. SeatsAgree'
    <3>1. \A c \in Endpoint : \A place \in told[c] : place[1] \in MatchID
      BY DEF SystemTypes
    <3> QED
      BY <2>2, <2>4, <3>1 DEF SeatsAgree, SystemInv, Has
  <2> QED
    BY <2>5, <2>6, <2>7, <2>8, <2>9 DEF SystemInv
<1>3. ASSUME NEW d \in sent, IsCreate(d), GameServerKnows(d.data) PROVE SystemInv'
  <2>1. d.data.matchID \in MatchID /\ d.data \in StartMatchData
    BY <1>3, SentTypes DEF MatchmakingInv, TypeInv
  <2>2. UNCHANGED <<matches, sent, told, pendingSessions>>
    BY <1>3 DEF GameServerKnows, vars
  <2>3. matches[d.data.matchID] = d.data => Has(d.data.matchID)
    BY <2>1, NoneAssumption, EarlierAssumption DEF Has
  <2>4. AnswersHonest'
    BY <1>3, <2>2, <2>3 DEF GameServerKnows, AnswersHonest, SystemInv, Has
  <2> QED
    BY <2>2, <2>4 DEF SystemInv, MatchesAsked, Asked, FoundKnown, FoundIsSo, Has, IsCreate,
       SessionsAreKnown, Players, SeatsAgree
<1>4. ASSUME NEW d \in sent, ~IsCreate(d), PlayerIsTold(d) PROVE SystemInv'
  <2>1. /\ UNCHANGED <<matches, answers, sent, pendingSessions>>
        /\ told' = [told EXCEPT ![d.to] = @ \cup {<<d.matchID, d.seat>>}]
    BY <1>4 DEF PlayerIsTold, vars
  <2>2. FoundIsSo(d)
    BY <1>4 DEF SystemInv, FoundKnown
  <2>3. SeatsAgree'
    BY <2>1, <2>2 DEF SeatsAgree, SystemInv, SystemTypes, FoundIsSo, Has
  <2> QED
    BY <2>1, <2>3 DEF SystemInv, MatchesAsked, Asked, AnswersHonest, FoundKnown, FoundIsSo, Has,
       IsCreate, SessionsAreKnown, Players
<1>5. ASSUME NEW id \in MatchID, GameServerEnds(id) PROVE SystemInv'
  <2>1. /\ UNCHANGED <<answers, sent, told, pendingSessions>>
        /\ matches' = [matches EXCEPT ![id] = None]
        /\ ~Has(id)
    BY <1>5 DEF GameServerEnds, Has, vars
  <2>2. \A n : Has(n) => matches'[n] = matches[n]
    BY <2>1 DEF Has, SystemTypes
  <2>3. \A n \in MatchID : Has(n)' => Has(n)
    BY <2>1 DEF Has, SystemTypes
  <2>4. \A n : Has(n) => Has(n)'
    BY <2>2 DEF Has
  <2>5. MatchesAsked'
    BY <2>1, <2>2, <2>3 DEF MatchesAsked, SystemInv, Asked
  <2>6. AnswersHonest' /\ FoundKnown'
    BY <2>1, <2>2, <2>4 DEF AnswersHonest, SystemInv, FoundKnown, FoundIsSo, IsCreate
  <2>7. SessionsAreKnown' /\ SeatsAgree'
    BY <2>1, <2>2, <2>4 DEF SessionsAreKnown, SeatsAgree, SystemInv, Has, Players
  <2> QED
    BY <2>5, <2>6, <2>7 DEF SystemInv
<1> QED
  BY <1>1, <1>2, <1>3, <1>4, <1>5, ServiceStep DEF SystemNext, IsCreate

LEMMA SystemInvariance == SystemSpec => []SystemInv
<1>1. SystemInit => SystemInv
  BY DEF SystemInit, Init, SystemInv, MatchesAsked, AnswersHonest, FoundKnown, SessionsAreKnown,
     SeatsAgree, Has
<1>2. MatchmakingInv /\ SystemTypes /\ SystemInv /\ [SystemNext]_allVars => SystemInv'
  BY SystemStep
<1> QED
  BY <1>1, <1>2, Restricts, TypeInvariance, IdInvariance, GroupInvariance, PTL
     DEF SystemSpec, MatchmakingInv

\* SeatsAgree: in every order in which the network delivers, repeats and loses
\* what the three parties send, a player is only told of a match and a seat
\* that the game server has for it.
THEOREM SystemSeats == SystemSpec => []SeatsAgree
  BY SystemInvariance, PTL DEF SystemInv

\* SessionsAreKnown: a session waits for the players of a match that the game
\* server has under the same id.
THEOREM SystemSessions == SystemSpec => []SessionsAreKnown
  BY SystemInvariance, PTL DEF SystemInv
=============================================================================

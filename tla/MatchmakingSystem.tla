-------------------------- MODULE MatchmakingSystem --------------------------
(***************************************************************************)
(* Matchmaking composed with those it talks to: players, the game server,  *)
(* and the network between them.  Players and the game server are programs *)
(* of their own, and here they do what the packets of MatchmakingServer    *)
(* expect of them.                                                         *)
(*                                                                         *)
(* UDP loses, repeats, delays and reorders.  So what was sent once may     *)
(* arrive at any later time, any number of times, or never: sent, answers  *)
(* and acks only grow, and each delivery looks into them.  A player may    *)
(* search and cancel at any time.                                          *)
(***************************************************************************)
EXTENDS Matchmaking

CONSTANTS
  Searched,  \* the kinds of match the players search
  None,      \* no match
  Earlier    \* a match from before the service server was started, when its
             \* counter of match ids was the same

ASSUME SearchedAssumption == Searched \subseteq MatchType
ASSUME NoneAssumption == None \notin StartMatchData
ASSUME EarlierAssumption == Earlier \notin StartMatchData \cup {None}

VARIABLES
  matches,  \* the match the game server has for each id
  answers,  \* every MATCH_UNIQUE and MATCH_USED sent by the game server
  told,     \* the matches each player has heard of: its id and the player's seat
  acks      \* the players that have sent an ACK_MATCH_FOUND

systemVars == <<matches, answers, told, acks>>
allVars == <<vars, systemVars>>

SystemInit ==
  /\ Init
  /\ matches \in [MatchID -> {None, Earlier}]
  /\ answers = {}
  /\ told = [c \in Endpoint |-> {}]
  /\ acks = {}

-----------------------------------------------------------------------------
(* The game server.  An id it does not have yet becomes a match.  For an   *)
(* id it has it answers MATCH_USED; when the match is the one it is asked  *)
(* for, it may also say once more that it is unique.                       *)

Asked(data) == CreateMatch(data) \in sent

GameServerCreates(data) ==
  /\ Asked(data)
  /\ matches[data.matchID] = None
  /\ matches' = [matches EXCEPT ![data.matchID] = data]
  /\ answers' = answers \cup {<<"MATCH_UNIQUE", data.matchID>>}
  /\ UNCHANGED <<vars, told, acks>>

GameServerKnows(data) ==
  /\ Asked(data)
  /\ matches[data.matchID] # None
  /\ \/ answers' = answers \cup {<<"MATCH_USED", data.matchID>>}
     \/ /\ matches[data.matchID] = data
        /\ answers' = answers \cup {<<"MATCH_UNIQUE", data.matchID>>}
  /\ UNCHANGED <<vars, matches, told, acks>>

\* A match ends, and its id is free again.
GameServerEnds(id) ==
  /\ matches[id] = Earlier
  /\ matches' = [matches EXCEPT ![id] = None]
  /\ UNCHANGED <<vars, answers, told, acks>>

\* A player reads MATCH_FOUND, and acknowledges it.
PlayerIsTold(d) ==
  /\ d \in sent /\ d.packet = "MATCH_FOUND"
  /\ told' = [told EXCEPT ![d.to] = @ \cup {<<d.matchID, d.seat>>}]
  /\ acks' = acks \cup {d.to}
  /\ UNCHANGED <<vars, matches, answers>>

-----------------------------------------------------------------------------
(* Deliveries to the service: the handlers, with what others have sent.    *)

Delivered ==
  \/ \E c \in Endpoint, t \in Searched : FindMatch(c, t)
  \/ \E c \in Endpoint : CancelSearch(c)
  \/ \E c \in acks : AckMatchFound(c)
  \/ \E a \in answers : \E i \in DOMAIN pendingMatchCreations :
       \/ a[1] = "MATCH_UNIQUE" /\ MatchUnique(i, a[2])
       \/ a[1] = "MATCH_USED" /\ MatchUsed(i, a[2])
  \/ \E a \in answers : LookInVain(a[2])

Service == Delivered \/ MainLoop \/ Leave \/ Over

SystemNext ==
  \/ Service /\ UNCHANGED systemVars
  \/ \E d \in sent :
       IF d.packet = "CREATE_MATCH"
       THEN GameServerCreates(d.data) \/ GameServerKnows(d.data)
       ELSE PlayerIsTold(d)
  \/ \E id \in MatchID : GameServerEnds(id)

SystemSpec == SystemInit /\ [][SystemNext]_allVars

-----------------------------------------------------------------------------
(* Properties. *)

\* A player that was told of a match and its seat finds it so: the game server
\* has the match with that id, with this player in that seat, however late the
\* datagrams of renamed, repeated and abandoned creations arrive.
SeatsAgree ==
  \A c \in Endpoint : \A place \in told[c] :
    /\ matches[place[1]] \notin {None, Earlier}
    /\ place[2] \in DOMAIN matches[place[1]].players
    /\ matches[place[1]].players[place[2]] = c

\* Every session is a match the game server has: the same players in the same
\* seats, so all of its players can join when the last one acknowledges.
SessionsAreKnown ==
  \A i \in DOMAIN pendingSessions :
    /\ matches[pendingSessions[i].matchID] \notin {None, Earlier}
    /\ matches[pendingSessions[i].matchID].players = Players(pendingSessions[i])

\* What RemoveSessionAndReQueue is for: "If any player in your match
\* disconnects / does not reply ACK" the match does not start, so all players
\* of a match that starts have heard of it.
StartsAcknowledged ==
  [][StartMatch =>
       \A s \in DOMAIN pendingSessions[cursor].players :
         \E place \in told[pendingSessions[cursor].players[s].player] :
           place[1] = pendingSessions[cursor].matchID]_allVars
=============================================================================

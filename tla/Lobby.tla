-------------------------------- MODULE Lobby --------------------------------
(***************************************************************************)
(* What matchmaking promises to players, without match ids, datagrams,     *)
(* clocks, retries or threads.  Players wait in one queue per kind of      *)
(* match.  Groups are taken from its head and proposed to the game server; *)
(* a proposed group is announced to its players or dissolved back into the *)
(* queue it came from; an announced group starts, or it is disbanded and   *)
(* the players it keeps return to that queue.  Nothing else moves anybody. *)
(***************************************************************************)
EXTENDS Naturals, Sequences, FiniteSets, SequencesExt

CONSTANTS
  Endpoint,         \* the players
  MatchType,        \* the kinds of match
  PlayersPerMatch

VARIABLES
  waiting,    \* the queue of each kind of match
  proposed,   \* the groups that are proposed, the oldest first
  announced   \* the groups that are announced, the oldest first

lobbyVars == <<waiting, proposed, announced>>

LobbyInit ==
  /\ waiting = [t \in MatchType |-> <<>>]
  /\ proposed = <<>>
  /\ announced = <<>>

Join(c, t) ==
  /\ waiting' = [waiting EXCEPT ![t] = Append(@, c)]
  /\ UNCHANGED <<proposed, announced>>

\* The entries of s at the positions in kept, in their order.
At(s, kept) ==
  LET Nth(n) == CHOOSE i \in kept : Cardinality({k \in kept : k <= i}) = n
  IN [n \in 1..Cardinality(kept) |-> s[Nth(n)]]

\* All places of a player in the queues are given up, and no other player's.
Withdraw(c) ==
  /\ waiting' = [t \in MatchType |->
                   At(waiting[t], {i \in DOMAIN waiting[t] : waiting[t][i] # c})]
  /\ UNCHANGED <<proposed, announced>>

Propose(t) ==
  /\ Len(waiting[t]) >= PlayersPerMatch
  /\ proposed' = Append(proposed,
                   [type |-> t, players |-> SubSeq(waiting[t], 1, PlayersPerMatch)])
  /\ waiting' = [waiting EXCEPT ![t] = SubSeq(@, PlayersPerMatch + 1, Len(@))]
  /\ UNCHANGED announced

Announce(i) ==
  /\ announced' = Append(announced, proposed[i])
  /\ proposed' = RemoveAt(proposed, i)
  /\ UNCHANGED waiting

Dissolve(i) ==
  /\ waiting' = [waiting EXCEPT ![proposed[i].type] = @ \o proposed[i].players]
  /\ proposed' = RemoveAt(proposed, i)
  /\ UNCHANGED announced

Start(i) ==
  /\ announced' = RemoveAt(announced, i)
  /\ UNCHANGED <<waiting, proposed>>

Disband(i) ==
  /\ \E kept \in SUBSET (DOMAIN announced[i].players) :
       waiting' = [waiting EXCEPT ![announced[i].type] =
                     @ \o At(announced[i].players, kept)]
  /\ announced' = RemoveAt(announced, i)
  /\ UNCHANGED proposed

LobbyNext ==
  \/ \E c \in Endpoint, t \in MatchType : Join(c, t)
  \/ \E c \in Endpoint : Withdraw(c)
  \/ \E t \in MatchType : Propose(t)
  \/ \E i \in DOMAIN proposed : Announce(i) \/ Dissolve(i)
  \/ \E i \in DOMAIN announced : Start(i) \/ Disband(i)

LobbySpec == LobbyInit /\ [][LobbyNext]_lobbyVars
=============================================================================

------------------------- MODULE MatchmakingProofs -------------------------
(***************************************************************************)
(* Matchmaking is type correct, never gives one match id to two matches    *)
(* and never tells two stories about one match id, for any number of       *)
(* clients, players per match, attempts and retries.                       *)
(***************************************************************************)
EXTENDS Matchmaking, SequenceTheorems, FiniteSetTheorems, WellFoundedInduction, TLAPS

-----------------------------------------------------------------------------
(* Lemmas about the operators on sequences. *)

\* Induction over the natural numbers, for a set instead of a predicate.
LEMMA SetInduction ==
  ASSUME NEW S \in SUBSET Nat, 0 \in S, \A n \in S : n + 1 \in S
  PROVE  S = Nat
<1> DEFINE T == Nat \ S
<1> SUFFICES ASSUME T # {} PROVE FALSE
  OBVIOUS
<1>1. PICK x \in T : \A y \in T : <<y, x>> \notin OpToRel(<, Nat)
  BY WFMin, NatLessThanWellFounded
<1>2. x - 1 \in Nat /\ x - 1 < x
  OBVIOUS
<1>3. x - 1 \in S
  BY <1>1, <1>2 DEF OpToRel
<1> QED
  BY <1>2, <1>3

\* The k-th smallest element of a finite set of numbers exists.
LEMMA Ranked ==
  ASSUME NEW N \in Nat, NEW K, \A k \in K : k \in Nat /\ 1 <= k /\ k <= N
  PROVE  \A n \in 1..Cardinality(K) : \E i \in K : Cardinality({k \in K : k <= i}) = n
<1> DEFINE Below(i) == {k \in K : k <= i}
           Reached == {m \in Nat : \A n \in 1..Cardinality(Below(m)) :
                                     \E i \in K : Cardinality(Below(i)) = n}
<1>1. \A m \in Nat : IsFiniteSet(Below(m)) /\ Cardinality(Below(m)) \in Nat
  <2>1. IsFiniteSet(1..N)
    BY FS_Interval
  <2>2. \A m \in Nat : Below(m) \in SUBSET (1..N)
    OBVIOUS
  <2> QED
    BY <2>1, <2>2, FS_Subset, FS_CardinalityType
<1>2. 0 \in Reached
  <2>1. Below(0) = {}
    OBVIOUS
  <2>2. Cardinality(Below(0)) = 0
    BY <2>1, FS_EmptySet
  <2> HIDE DEF Below
  <2> QED
    BY <2>2
<1>3. ASSUME NEW m \in Reached PROVE m + 1 \in Reached
  <2>1. CASE m + 1 \in K
    <3>1. Below(m + 1) = Below(m) \cup {m + 1} /\ m + 1 \notin Below(m)
      BY <2>1
    <3>2. Cardinality(Below(m + 1)) = Cardinality(Below(m)) + 1
      BY <3>1, <1>1, FS_AddElement
    <3> HIDE DEF Below
    <3>3. \A n \in 1..Cardinality(Below(m + 1)) :
            n \in 1..Cardinality(Below(m)) \/ n = Cardinality(Below(m + 1))
      BY <3>2, <1>1
    <3> QED
      BY <3>3, <2>1, <1>3
  <2>2. CASE m + 1 \notin K
    <3>1. Below(m + 1) = Below(m)
      BY <2>2
    <3> QED
      BY <3>1
  <2> QED
    BY <2>1, <2>2
<1>4. N \in Reached
  BY <1>2, <1>3, SetInduction
<1>5. Below(N) = K
  OBVIOUS
<1> QED
  BY <1>4, <1>5

\* Keeping some positions of a sequence keeps its type.
LEMMA AtType ==
  ASSUME NEW S, NEW q \in Seq(S), NEW kept \in SUBSET DOMAIN q
  PROVE  At(q, kept) \in Seq(S)
<1> DEFINE Nth(n) == CHOOSE i \in kept : Cardinality({k \in kept : k <= i}) = n
<1>1. kept \in SUBSET (1..Len(q)) /\ Len(q) \in Nat
  BY LenProperties
<1>2. Cardinality(kept) \in Nat
  <2>1. IsFiniteSet(1..Len(q))
    BY <1>1, FS_Interval
  <2> QED
    BY <1>1, <2>1, FS_Subset, FS_CardinalityType
<1>3. \A n \in 1..Cardinality(kept) : Nth(n) \in kept
  <2>1. \A k \in kept : k \in Nat /\ 1 <= k /\ k <= Len(q)
    BY <1>1
  <2> QED
    BY <1>1, <2>1, Ranked
<1>4. \A n \in 1..Cardinality(kept) : q[Nth(n)] \in S
  BY <1>3, ElementOfSeq, LenProperties
<1> HIDE DEF Nth
<1>5. [n \in 1..Cardinality(kept) |-> q[Nth(n)]] \in Seq(S)
  BY <1>2, <1>4, IsASeq
<1> QED
  BY <1>5 DEF At, Nth


\* Erasing an element: the ones behind it move up.
LEMMA RemoveAtShifts ==
  ASSUME NEW S, NEW s \in Seq(S), NEW i \in DOMAIN s
  PROVE  /\ RemoveAt(s, i) \in Seq(S)
         /\ Len(RemoveAt(s, i)) = Len(s) - 1
         /\ \A k \in 1..(Len(s) - 1) :
              RemoveAt(s, i)[k] = s[IF k < i THEN k ELSE k + 1]
<1>1. Len(s) \in Nat /\ DOMAIN s = 1..Len(s) /\ i \in Nat /\ 1 <= i /\ i <= Len(s)
  BY LenProperties
<1> DEFINE n == Len(s)
           front == SubSeq(s, 1, i - 1)
           back == SubSeq(s, i + 1, n)
<1>2. /\ front \in Seq(S)
      /\ Len(front) = i - 1
      /\ \A k \in Int : 1 <= k /\ k < i => front[k] = s[k]
  <2>1. \A k \in 1..(i - 1) : s[k] \in S
    BY <1>1, ElementOfSeq
  <2> QED
    BY <1>1, <2>1, SubSeqProperties
<1>3. back \in Seq(S) /\ Len(back) = n - i
  <2>1. \A k \in (i + 1)..n : s[k] \in S
    BY <1>1, ElementOfSeq
  <2> QED
    BY <2>1, <1>1, SubSeqProperties
<1>4. \A k \in Int : 1 <= k /\ k <= n - i => back[k] = s[i + k]
  <2>1. \A k \in (i + 1)..n : s[k] \in S
    BY <1>1, ElementOfSeq
  <2>2. \A k \in 1..(n - (i + 1) + 1) : back[k] = s[i + 1 + k - 1]
    BY <2>1, <1>1, SubSeqProperties
  <2> HIDE DEF back, n
  <2> SUFFICES ASSUME NEW k \in Int, 1 <= k, k <= n - i PROVE back[k] = s[i + k]
    OBVIOUS
  <2>3. k \in 1..(n - (i + 1) + 1) /\ i + 1 + k - 1 = i + k
    BY <1>1 DEF n
  <2> QED
    BY <2>2, <2>3
<1> HIDE DEF n, front, back
<1>5. /\ front \o back \in Seq(S)
      /\ Len(front \o back) = Len(front) + Len(back)
      /\ \A k \in 1..(Len(front) + Len(back)) :
           (front \o back)[k] = IF k <= Len(front) THEN front[k] ELSE back[k - Len(front)]
  BY <1>2, <1>3, ConcatProperties
<1>6. n \in Nat /\ Len(front) + Len(back) = n - 1
  BY <1>1, <1>2, <1>3 DEF n
<1>7. ASSUME NEW k \in 1..(n - 1)
      PROVE  (front \o back)[k] = s[IF k < i THEN k ELSE k + 1]
  <2>1. (front \o back)[k] = IF k <= i - 1 THEN front[k] ELSE back[k - (i - 1)]
    BY <1>2, <1>5, <1>6
  <2>2. CASE k < i
    BY <2>1, <2>2, <1>1, <1>2
  <2>3. CASE k >= i
    <3>1. k - (i - 1) \in Int /\ 1 <= k - (i - 1) /\ k - (i - 1) <= n - i
          /\ i + (k - (i - 1)) = k + 1 /\ ~(k <= i - 1) /\ ~(k < i)
      BY <2>3, <1>1, <1>6
    <3> QED
      BY <3>1, <2>1, <1>4
  <2> QED
    BY <2>2, <2>3, <1>1, <1>6
<1> QED
  BY <1>5, <1>6, <1>7 DEF RemoveAt, front, back, n

-----------------------------------------------------------------------------
(***************************************************************************)
(* Type correctness.  The inductive invariant adds that a session that is  *)
(* being given up is still there: no handler shortens the sessions.        *)
(***************************************************************************)
TypeInv ==
  /\ TypeOK
  /\ mainPc = "requeue" => cursor \in DOMAIN pendingSessions

LEMMA InitTypes == Init => TypeInv
<1> SUFFICES ASSUME Init PROVE TypeInv
  OBVIOUS
<1>1. /\ queue \in [MatchType -> Seq(Endpoint)]
      /\ pendingMatchCreations \in Seq(PendingMatchCreation)
      /\ pendingSessions \in Seq(MatchSession)
  BY EmptySeq DEF Init
<1> QED
  BY <1>1, MaxMatchIDAssumption DEF Init, TypeInv, TypeOK

\* What one more match adds is well typed.
LEMMA NewCreationType ==
  ASSUME NEW id \in MatchID, NEW t \in MatchType, NEW group \in Seq(Endpoint)
  PROVE  [matchData |-> [matchID |-> id, type |-> t, players |-> group],
          serialized |-> [matchID |-> id, type |-> t, players |-> group],
          attempts |-> 0] \in PendingMatchCreation
  BY MaxAttemptsAssumption DEF PendingMatchCreation, StartMatchData

LEMMA NewSessionType ==
  ASSUME NEW data \in StartMatchData
  PROVE  NewSession(data) \in MatchSession
<1>1. DOMAIN data.players = 1..Len(data.players) /\ Len(data.players) \in Nat
  BY LenProperties DEF StartMatchData
<1>2. \A s \in 1..Len(data.players) :
        [player |-> data.players[s], retries |-> 0, ackRecieved |-> FALSE] \in PendingMatch
  BY ElementOfSeq, MaxRetriesAssumption DEF StartMatchData, PendingMatch
<1>3. [s \in DOMAIN data.players |->
         [player |-> data.players[s], retries |-> 0, ackRecieved |-> FALSE]]
           \in Seq(PendingMatch)
  BY <1>1, <1>2, IsASeq
<1> QED
  BY <1>3 DEF NewSession, MatchSession, StartMatchData

LEMMA MatchFoundType ==
  ASSUME NEW data \in StartMatchData
  PROVE  MatchFoundTo(data) \subseteq Datagram
<1>1. \A s \in DOMAIN data.players : s \in Nat /\ data.players[s] \in Endpoint
  BY LenProperties, ElementOfSeq DEF StartMatchData
<1> QED
  BY <1>1 DEF MatchFoundTo, Found, Datagram, StartMatchData

LEMMA PlayersType ==
  ASSUME NEW session \in MatchSession
  PROVE  /\ Players(session) \in Seq(Endpoint)
         /\ DOMAIN Players(session) = DOMAIN session.players
<1>1. DOMAIN session.players = 1..Len(session.players) /\ Len(session.players) \in Nat
  BY LenProperties DEF MatchSession
<1>2. \A s \in 1..Len(session.players) : session.players[s].player \in Endpoint
  <2>1. session.players \in Seq(PendingMatch)
    BY DEF MatchSession
  <2>2. \A s \in 1..Len(session.players) : session.players[s] \in PendingMatch
    BY <2>1, ElementOfSeq
  <2> QED
    BY <2>2 DEF PendingMatch
<1>3. [s \in DOMAIN session.players |-> session.players[s].player] \in Seq(Endpoint)
  BY <1>1, <1>2, IsASeq
<1> QED
  BY <1>3 DEF Players

LEMMA MarkType ==
  ASSUME NEW p \in PendingMatch, NEW c
  PROVE  Marked(p, c) \in PendingMatch
  BY DEF Marked, PendingMatch

\* The elements of the two lists are well typed.
LEMMA CreationTypes ==
  ASSUME TypeOK, NEW i \in DOMAIN pendingMatchCreations
  PROVE  /\ pendingMatchCreations[i] \in PendingMatchCreation
         /\ pendingMatchCreations[i].matchData \in StartMatchData
         /\ pendingMatchCreations[i].serialized \in StartMatchData
<1>1. pendingMatchCreations \in Seq(PendingMatchCreation)
  BY DEF TypeOK
<1>2. pendingMatchCreations[i] \in PendingMatchCreation
  BY <1>1, ElementOfSeq, LenProperties
<1> QED
  BY <1>2 DEF PendingMatchCreation

LEMMA SessionTypes ==
  ASSUME TypeOK, NEW i \in DOMAIN pendingSessions
  PROVE  /\ pendingSessions[i] \in MatchSession
         /\ pendingSessions[i].players \in Seq(PendingMatch)
         /\ pendingSessions[i].matchID \in MatchID
         /\ pendingSessions[i].type \in MatchType
<1>1. pendingSessions \in Seq(MatchSession)
  BY DEF TypeOK
<1>2. pendingSessions[i] \in MatchSession
  BY <1>1, ElementOfSeq, LenProperties
<1> QED
  BY <1>2 DEF MatchSession

\* The handlers leave the types alone.
LEMMA HandlerTypes ==
  ASSUME TypeInv, DispatchThread
  PROVE  TypeInv'
<1> USE DEF TypeInv, TypeOK, Handler, listVars
<1>1. ASSUME NEW c \in Endpoint, NEW t \in MatchType, FindMatch(c, t)
      PROVE  TypeInv'
  <2>1. Append(queue[t], c) \in Seq(Endpoint)
    BY AppendProperties
  <2>2. queue' \in [MatchType -> Seq(Endpoint)]
    BY <1>1, <2>1 DEF FindMatch, Raced
  <2> QED
    BY <1>1, <2>2 DEF FindMatch, Raced
<1>2. ASSUME NEW c \in Endpoint, CancelSearch(c)
      PROVE  TypeInv'
  <2>1. \A t \in MatchType : Without(queue[t], c) \in Seq(Endpoint)
    <3>1. \A t \in MatchType : {i \in DOMAIN queue[t] : queue[t][i] # c} \subseteq DOMAIN queue[t]
      OBVIOUS
    <3> QED
      BY <3>1, AtType DEF Without
  <2> QED
    BY <1>2, <2>1 DEF CancelSearch, Raced
<1>3. ASSUME NEW c \in Endpoint, AckMatchFound(c)
      PROVE  TypeInv'
  <2>1. DOMAIN pendingSessions = 1..Len(pendingSessions) /\ Len(pendingSessions) \in Nat
    BY LenProperties
  <2> DEFINE acked(i) == [pendingSessions[i] EXCEPT !.players =
                [s \in DOMAIN @ |-> Marked(@[s], c)]]
  <2>2. ASSUME NEW i \in DOMAIN pendingSessions
        PROVE  acked(i) \in MatchSession
    <3> DEFINE ps == pendingSessions[i].players
    <3>1. pendingSessions[i] \in MatchSession /\ ps \in Seq(PendingMatch)
      BY SessionTypes
    <3>2. DOMAIN ps = 1..Len(ps) /\ Len(ps) \in Nat /\ \A s \in 1..Len(ps) : ps[s] \in PendingMatch
      BY <3>1, LenProperties, ElementOfSeq
    <3> DEFINE qs == [s \in DOMAIN ps |-> Marked(ps[s], c)]
    <3>3. \A s \in 1..Len(ps) : qs[s] \in PendingMatch
      BY <3>2, MarkType
    <3>4. qs \in Seq(PendingMatch)
      <4>1. [s \in 1..Len(ps) |-> qs[s]] \in Seq(PendingMatch)
        <5> HIDE DEF ps, qs
        <5> QED
          BY <3>2, <3>3, IsASeq
      <4>2. qs = [s \in 1..Len(ps) |-> qs[s]]
        BY <3>2
      <4> QED
        BY <4>1, <4>2
    <3>5. acked(i) = [pendingSessions[i] EXCEPT !.players = qs]
      OBVIOUS
    <3> HIDE DEF qs, acked
    <3> QED
      BY <3>1, <3>4, <3>5 DEF MatchSession
  <2> HIDE DEF acked
  <2>3. [i \in 1..Len(pendingSessions) |-> acked(i)] \in Seq(MatchSession)
    BY <2>1, <2>2, IsASeq
  <2>4. pendingSessions' = [i \in 1..Len(pendingSessions) |-> acked(i)]
    BY <1>3, <2>1 DEF AckMatchFound, acked
  <2>5. DOMAIN pendingSessions' = DOMAIN pendingSessions
    BY <2>1, <2>4
  <2> QED
    BY <1>3, <2>3, <2>4, <2>5 DEF AckMatchFound, Raced
<1>4. ASSUME NEW id \in MatchID, NEW i \in DOMAIN pendingMatchCreations, MatchUnique(i, id)
      PROVE  TypeInv'
  <2> DEFINE data == pendingMatchCreations[i].matchData
  <2>1. data \in StartMatchData
    BY CreationTypes
  <2>2. pendingMatchCreations' \in Seq(PendingMatchCreation)
    BY <1>4, RemoveAtShifts DEF MatchUnique
  <2>3. sent' \subseteq Datagram
    BY <1>4, <2>1, MatchFoundType DEF MatchUnique
  <2>4. NewSession(data) \in MatchSession
    BY <2>1, NewSessionType
  <2>5. pendingSessions' = Append(pendingSessions, NewSession(data))
    BY <1>4 DEF MatchUnique
  <2>6. /\ pendingSessions' \in Seq(MatchSession)
        /\ Len(pendingSessions') = Len(pendingSessions) + 1
    BY <2>4, <2>5, AppendProperties
  <2>7. DOMAIN pendingSessions \subseteq DOMAIN pendingSessions'
    BY <2>6, LenProperties
  <2>8. fate' \in {"running", "undefined"}
    BY <1>4 DEF MatchUnique, Fates, Raced
  <2> QED
    BY <1>4, <2>2, <2>3, <2>6, <2>7, <2>8 DEF MatchUnique
<1>5. ASSUME NEW id \in MatchID, NEW i \in DOMAIN pendingMatchCreations, MatchUsed(i, id)
      PROVE  TypeInv'
  <2> DEFINE data == [pendingMatchCreations[i].matchData EXCEPT !.matchID = lastMatchID']
             fresh == [matchData |-> data, serialized |-> data, attempts |-> 0]
  <2>1. lastMatchID' \in MatchID
    BY <1>5, MaxMatchIDAssumption DEF MatchUsed, MatchID
  <2>2. pendingMatchCreations[i].matchData \in StartMatchData
    BY CreationTypes
  <2>3. data \in StartMatchData
    BY <2>1, <2>2 DEF StartMatchData
  <2>4. fresh \in PendingMatchCreation
    BY <2>3, MaxAttemptsAssumption DEF PendingMatchCreation
  <2>5. pendingMatchCreations' = [pendingMatchCreations EXCEPT ![i] = fresh]
    BY <1>5 DEF MatchUsed
  <2>6. pendingMatchCreations' \in Seq(PendingMatchCreation)
    BY <2>4, <2>5, ExceptSeq, LenProperties
  <2> QED
    BY <1>5, <2>1, <2>6 DEF MatchUsed, Raced, MatchID
<1>6. CASE BadMatchID \/ \E id \in MatchID : LookInVain(id)
  BY <1>6 DEF BadMatchID, LookInVain, Raced
<1> QED
  BY <1>1, <1>2, <1>3, <1>4, <1>5, <1>6 DEF DispatchThread

\* Counting a retry, for seats that have retries left.
LEMMA ResendTypes ==
  ASSUME TypeInv, AtSession, NEW seats,
         seats \subseteq Waiting(pendingSessions[cursor]) \ Exhausted(pendingSessions[cursor]),
         Resend(pendingSessions[cursor], seats)
  PROVE  /\ sent' \subseteq Datagram
         /\ pendingSessions' \in Seq(MatchSession)
         /\ DOMAIN pendingSessions' = DOMAIN pendingSessions
<1> DEFINE session == pendingSessions[cursor]
           ps == session.players
<1>1. session \in MatchSession /\ ps \in Seq(PendingMatch) /\ session.matchID \in MatchID
  BY SessionTypes DEF AtSession, TypeInv
<1>2. DOMAIN ps = 1..Len(ps) /\ Len(ps) \in Nat /\ \A s \in 1..Len(ps) : ps[s] \in PendingMatch
  BY <1>1, LenProperties, ElementOfSeq
<1>3. \A s \in seats : s \in 1..Len(ps) /\ ~(ps[s].retries >= MAX_RETRIES)
  BY <1>2 DEF Waiting, Exhausted
<1> DEFINE qs == [s \in DOMAIN ps |->
                    IF s \in seats THEN Retried(ps[s]) ELSE ps[s]]
<1>4. ASSUME NEW s \in 1..Len(ps) PROVE qs[s] \in PendingMatch
  <2>1. qs[s] = IF s \in seats THEN Retried(ps[s]) ELSE ps[s]
    BY <1>2
  <2>2. ps[s] \in PendingMatch
    BY <1>2
  <2>3. CASE s \in seats
    <3>1. ps[s].retries \in 0..MAX_RETRIES /\ ~(ps[s].retries >= MAX_RETRIES)
      BY <1>3, <2>2, <2>3 DEF PendingMatch
    <3>2. ps[s].retries + 1 \in 0..MAX_RETRIES
      BY <3>1, MaxRetriesAssumption, SMTT(30)
    <3> HIDE DEF ps, qs
    <3> QED
      BY <2>1, <2>2, <2>3, <3>2 DEF Retried, PendingMatch
  <2> QED
    BY <2>1, <2>2, <2>3
<1>5. qs \in Seq(PendingMatch)
  <2>1. DOMAIN ps = 1..Len(ps) /\ Len(ps) \in Nat
    BY <1>2
  <2>2. [s \in 1..Len(ps) |-> qs[s]] \in Seq(PendingMatch)
    <3> HIDE DEF ps, qs
    <3> QED
      BY <1>4, <2>1, IsASeq
  <2>3. qs = [s \in 1..Len(ps) |-> qs[s]]
    BY <2>1
  <2> QED
    BY <2>2, <2>3
<1>6. pendingSessions' = [pendingSessions EXCEPT ![cursor] = [session EXCEPT !.players = qs]]
  BY DEF Resend
<1>7. [session EXCEPT !.players = qs] \in MatchSession
  <2> HIDE DEF qs, session
  <2> QED
    BY <1>1, <1>5 DEF MatchSession
<1>8. \A s \in seats : Found("untyped", ps[s].player, session.matchID, s) \in Datagram
  <2>1. \A s \in seats : s \in Nat /\ ps[s].player \in Endpoint
    BY <1>2, <1>3 DEF PendingMatch
  <2> QED
    BY <1>1, <2>1 DEF Found, Datagram
<1>9. sent' \subseteq Datagram
  BY <1>8 DEF Resend, TypeInv, TypeOK
<1> HIDE DEF qs, session
<1>10. cursor \in DOMAIN pendingSessions /\ pendingSessions \in Seq(MatchSession)
  BY DEF AtSession, TypeInv, TypeOK
<1> QED
  BY <1>6, <1>7, <1>9, <1>10, ExceptSeq, LenProperties

\* A group leaves its queue and becomes a creation with a new id.
LEMMA NewMatch ==
  ASSUME TypeOK, NEW t \in MatchType, FormMatch(t)
  PROVE  /\ lastMatchID' \in 0..MaxMatchID
         /\ queue' \in [MatchType -> Seq(Endpoint)]
         /\ \E c \in PendingMatchCreation :
              /\ pendingMatchCreations' = Append(pendingMatchCreations, c)
              /\ c.matchData.matchID = lastMatchID'
              /\ c.serialized = c.matchData
<1> USE DEF TypeOK
<1> DEFINE group == SubSeq(queue[t], 1, PlayersPerMatch)
           rest == SubSeq(queue[t], PlayersPerMatch + 1, Len(queue[t]))
<1>1. /\ queue[t] \in Seq(Endpoint) /\ Len(queue[t]) \in Nat
      /\ \A i \in 1..Len(queue[t]) : queue[t][i] \in Endpoint
      /\ PlayersPerMatch \in Nat /\ PlayersPerMatch <= Len(queue[t])
  BY LenProperties, ElementOfSeq, PlayersPerMatchAssumption DEF FormMatch, GroupReady
<1>2. group \in Seq(Endpoint) /\ rest \in Seq(Endpoint)
  BY <1>1, SubSeqProperties
<1>3. queue' = [queue EXCEPT ![t] = rest]
  BY DEF FormMatch
<1>4. lastMatchID' \in MatchID
  BY MaxMatchIDAssumption DEF FormMatch, MatchID
<1> DEFINE data == [matchID |-> lastMatchID', type |-> t, players |-> group]
           fresh == [matchData |-> data, serialized |-> data, attempts |-> 0]
<1>5. pendingMatchCreations' = Append(pendingMatchCreations, fresh)
  BY DEF FormMatch
<1> HIDE DEF group, rest
<1>6. fresh \in PendingMatchCreation
  BY <1>2, <1>4, NewCreationType
<1>7. fresh.matchData.matchID = lastMatchID' /\ fresh.serialized = fresh.matchData
  OBVIOUS
<1> HIDE DEF fresh
<1>8. queue' \in [MatchType -> Seq(Endpoint)]
  BY <1>2, <1>3
<1> QED
  BY <1>4, <1>5, <1>6, <1>7, <1>8 DEF MatchID

\* The main thread leaves the types alone.
LEMMA MainTypes ==
  ASSUME TypeInv, MainLoop
  PROVE  TypeInv'
<1> USE DEF TypeInv, TypeOK, Main, mainVars, listVars
<1>1. CASE Tick
  BY <1>1 DEF Tick, MatchType
<1>2. ASSUME NEW t \in MatchType, FormMatch(t)
      PROVE  TypeInv'
  <2>1. PICK c \in PendingMatchCreation :
          pendingMatchCreations' = Append(pendingMatchCreations, c)
    BY <1>2, NewMatch
  <2>2. pendingMatchCreations' \in Seq(PendingMatchCreation)
    BY <2>1, AppendProperties
  <2> QED
    BY <1>2, <2>2, NewMatch DEF FormMatch
<1>3. ASSUME NEW t \in MatchType, NoMatch(t)
      PROVE  TypeInv'
  BY <1>3 DEF NoMatch, MatchType
<1>4. CASE SkipCreation
  BY <1>4 DEF SkipCreation
<1>5. CASE GiveUpCreation
  <2> DEFINE data == pendingMatchCreations[cursor].matchData
  <2>1. data \in StartMatchData /\ cursor \in 1..Len(pendingMatchCreations)
    BY <1>5, CreationTypes, LenProperties DEF GiveUpCreation, AtCreation
  <2>2. queue[data.type] \o data.players \in Seq(Endpoint)
    BY <2>1, ConcatProperties DEF StartMatchData
  <2>3. queue' = [queue EXCEPT ![data.type] = queue[data.type] \o data.players]
    BY <1>5 DEF GiveUpCreation
  <2>4. queue' \in [MatchType -> Seq(Endpoint)]
    BY <2>2, <2>3
  <2>5. pendingMatchCreations' \in Seq(PendingMatchCreation)
    BY <1>5, <2>1, RemoveAtShifts, LenProperties DEF GiveUpCreation
  <2> QED
    BY <1>5, <2>4, <2>5 DEF GiveUpCreation
<1>6. CASE SendCreation
  <2> DEFINE creation == pendingMatchCreations[cursor]
  <2>1. /\ creation \in PendingMatchCreation /\ creation.serialized \in StartMatchData
        /\ cursor \in DOMAIN pendingMatchCreations
    BY <1>6, CreationTypes DEF SendCreation, AtCreation
  <2>2. creation.attempts + 1 \in 0..MaxAttempts
    BY <1>6, <2>1, MaxAttemptsAssumption DEF SendCreation, PendingMatchCreation
  <2>3. pendingMatchCreations' = [pendingMatchCreations EXCEPT ![cursor] =
                                    [creation EXCEPT !.attempts = creation.attempts + 1]]
    BY <1>6 DEF SendCreation
  <2>4. sent' \subseteq Datagram
    BY <1>6, <2>1 DEF SendCreation, CreateMatch, Datagram
  <2> HIDE DEF creation
  <2>5. [creation EXCEPT !.attempts = creation.attempts + 1] \in PendingMatchCreation
    BY <2>1, <2>2 DEF PendingMatchCreation
  <2>6. pendingMatchCreations' \in Seq(PendingMatchCreation)
    BY <2>1, <2>3, <2>5, ExceptSeq, LenProperties
  <2> QED
    BY <1>6, <2>4, <2>6 DEF SendCreation
<1>7. CASE CreationsDone
  BY <1>7 DEF CreationsDone
<1>8. ASSUME NEW due, AwaitAcks(due)
      PROVE  TypeInv'
  <2>1. sent' \subseteq Datagram /\ pendingSessions' \in Seq(MatchSession)
    BY <1>8, ResendTypes DEF AwaitAcks
  <2> QED
    BY <1>8, <2>1 DEF AwaitAcks
<1>9. ASSUME NEW due, NEW last, GiveUpSession(due, last)
      PROVE  TypeInv'
  <2>1. due \subseteq Waiting(pendingSessions[cursor]) \ Exhausted(pendingSessions[cursor])
    BY <1>9 DEF GiveUpSession
  <2>2. /\ sent' \subseteq Datagram /\ pendingSessions' \in Seq(MatchSession)
        /\ DOMAIN pendingSessions' = DOMAIN pendingSessions
    BY <1>9, <2>1, ResendTypes DEF GiveUpSession
  <2> QED
    BY <1>9, <2>2 DEF GiveUpSession, AtSession
<1>10. CASE Requeue
  <2> DEFINE session == pendingSessions[cursor]
             returning == At(Players(session), Acked(session))
  <2>1. cursor \in DOMAIN pendingSessions /\ cursor \in 1..Len(pendingSessions)
    BY <1>10, LenProperties DEF Requeue
  <2>2. session \in MatchSession /\ session.type \in MatchType
    BY <2>1, SessionTypes
  <2>3. returning \in Seq(Endpoint)
    <3>1. Acked(session) \subseteq DOMAIN session.players
      BY DEF Acked
    <3> HIDE DEF session
    <3>2. Players(session) \in Seq(Endpoint) /\ Acked(session) \subseteq DOMAIN Players(session)
      BY <2>2, <3>1, PlayersType
    <3> QED
      BY <3>2, AtType
  <2>4. queue' = [queue EXCEPT ![session.type] = queue[session.type] \o returning]
    BY <1>10 DEF Requeue
  <2>5. queue[session.type] \o returning \in Seq(Endpoint)
    <3> HIDE DEF returning, session
    <3> QED
      BY <2>2, <2>3, ConcatProperties
  <2>6. queue' \in [MatchType -> Seq(Endpoint)]
    <3> HIDE DEF returning, session
    <3> QED
      BY <2>2, <2>4, <2>5
  <2>7. pendingSessions' \in Seq(MatchSession)
    BY <1>10, <2>1, RemoveAtShifts DEF Requeue
  <2> QED
    BY <1>10, <2>6, <2>7 DEF Requeue
<1>11. CASE StartMatch
  <2>1. pendingSessions' \in Seq(MatchSession)
    BY <1>11, RemoveAtShifts, LenProperties DEF StartMatch, AtSession
  <2> QED
    BY <1>11, <2>1 DEF StartMatch
<1>12. CASE SessionsDone
  BY <1>12 DEF SessionsDone
<1> QED
  BY <1>1, <1>2, <1>3, <1>4, <1>5, <1>6, <1>7, <1>8, <1>9, <1>10, <1>11, <1>12
     DEF MainLoop

LEMMA TypesStep ==
  ASSUME TypeInv, [Next]_vars
  PROVE  TypeInv'
<1>1. CASE UNCHANGED vars
  BY <1>1 DEF vars, TypeInv, TypeOK
<1>2. CASE Leave
  BY <1>2 DEF Leave, Main, listVars, TypeInv, TypeOK
<1> QED
  BY <1>1, <1>2, HandlerTypes, MainTypes DEF Next, Over

LEMMA TypeInvariance == Spec => []TypeInv
  BY InitTypes, TypesStep, PTL DEF Spec

\* TypeOK of Matchmaking: the queues hold clients, the lists hold creations and
\* sessions within their attempts and retries, the ids stay in range.
THEOREM TypeCorrect == Spec => []TypeOK
  BY TypeInvariance, PTL DEF TypeInv

-----------------------------------------------------------------------------
(***************************************************************************)
(* Match ids.  They are unique because every new one is above _lastMatchID *)
(* and none in use is.                                                     *)
(***************************************************************************)
CreationID(i) == pendingMatchCreations[i].matchData.matchID
SessionID(i) == pendingSessions[i].matchID

IdInv ==
  /\ MatchIDsAreUnique
  /\ \A i \in DOMAIN pendingMatchCreations : CreationID(i) <= lastMatchID
  /\ \A i \in DOMAIN pendingSessions : SessionID(i) <= lastMatchID

\* IdInv in the words of CreationID and SessionID.
LEMMA IdParts ==
  ASSUME IdInv
  PROVE  /\ \A i, j \in DOMAIN pendingMatchCreations : CreationID(i) = CreationID(j) => i = j
         /\ \A i, j \in DOMAIN pendingSessions : SessionID(i) = SessionID(j) => i = j
         /\ \A i \in DOMAIN pendingMatchCreations, j \in DOMAIN pendingSessions :
              CreationID(i) # SessionID(j)
         /\ \A i \in DOMAIN pendingMatchCreations : CreationID(i) <= lastMatchID
         /\ \A i \in DOMAIN pendingSessions : SessionID(i) <= lastMatchID
  BY DEF IdInv, MatchIDsAreUnique, CreationID, SessionID

LEMMA IdPartsNext ==
  ASSUME \A i, j \in DOMAIN pendingMatchCreations' : CreationID(i)' = CreationID(j)' => i = j,
         \A i, j \in DOMAIN pendingSessions' : SessionID(i)' = SessionID(j)' => i = j,
         \A i \in DOMAIN pendingMatchCreations', j \in DOMAIN pendingSessions' :
           CreationID(i)' # SessionID(j)',
         \A i \in DOMAIN pendingMatchCreations' : CreationID(i)' <= lastMatchID',
         \A i \in DOMAIN pendingSessions' : SessionID(i)' <= lastMatchID'
  PROVE  IdInv'
  BY DEF IdInv, MatchIDsAreUnique, CreationID, SessionID

\* The lists as the proofs below see them.
LEMMA Indices ==
  ASSUME TypeOK
  PROVE  /\ Len(pendingMatchCreations) \in Nat
         /\ DOMAIN pendingMatchCreations = 1..Len(pendingMatchCreations)
         /\ Len(pendingSessions) \in Nat
         /\ DOMAIN pendingSessions = 1..Len(pendingSessions)
         /\ lastMatchID \in Nat
         /\ \A i \in DOMAIN pendingMatchCreations : CreationID(i) \in Nat
         /\ \A i \in DOMAIN pendingSessions : SessionID(i) \in Nat
<1>1. \A i \in DOMAIN pendingMatchCreations : CreationID(i) \in Nat
  BY CreationTypes DEF CreationID, StartMatchData, MatchID
<1>2. \A i \in DOMAIN pendingSessions : SessionID(i) \in Nat
  BY SessionTypes DEF SessionID, MatchID
<1> QED
  BY <1>1, <1>2, LenProperties DEF TypeOK

\* Where the element at k was before the one at i was erased.
Shift(i, k) == IF k < i THEN k ELSE k + 1

LEMMA Shifting ==
  ASSUME NEW n \in Nat, NEW i \in 1..n
  PROVE  /\ \A k \in 1..(n - 1) : Shift(i, k) \in 1..n /\ Shift(i, k) # i
         /\ \A k, l \in 1..(n - 1) : Shift(i, k) = Shift(i, l) => k = l
  BY DEF Shift

\* What a step does to the ids: nothing, ...
LEMMA IdsKept ==
  ASSUME TypeOK, IdInv, lastMatchID' = lastMatchID,
         DOMAIN pendingMatchCreations' = DOMAIN pendingMatchCreations,
         \A i \in DOMAIN pendingMatchCreations : CreationID(i)' = CreationID(i),
         DOMAIN pendingSessions' = DOMAIN pendingSessions,
         \A i \in DOMAIN pendingSessions : SessionID(i)' = SessionID(i)
  PROVE  IdInv'
  BY DEF IdInv, MatchIDsAreUnique, CreationID, SessionID

\* ... a creation with a new id at the end, ...
LEMMA CreationAppended ==
  ASSUME TypeOK, IdInv, NEW c \in PendingMatchCreation,
         pendingMatchCreations' = Append(pendingMatchCreations, c),
         lastMatchID' = lastMatchID + 1, c.matchData.matchID = lastMatchID',
         UNCHANGED pendingSessions
  PROVE  IdInv'
<1>1. pendingMatchCreations \in Seq(PendingMatchCreation)
  BY DEF TypeOK
<1>2. /\ pendingMatchCreations' \in Seq(PendingMatchCreation)
      /\ Len(pendingMatchCreations') = Len(pendingMatchCreations) + 1
      /\ \A i \in 1..Len(pendingMatchCreations) :
           pendingMatchCreations'[i] = pendingMatchCreations[i]
      /\ pendingMatchCreations'[Len(pendingMatchCreations) + 1] = c
  BY <1>1, AppendProperties
<1>3. PICK n \in Nat : n = Len(pendingMatchCreations)
  BY Indices
<1>4. DOMAIN pendingMatchCreations' = 1..(n + 1)
  BY <1>2, <1>3, LenProperties
<1>5. \A i \in 1..n : CreationID(i)' = CreationID(i)
  BY <1>2, <1>3 DEF CreationID
<1>6. CreationID(n + 1)' = lastMatchID'
  BY <1>2, <1>3 DEF CreationID
<1>7. /\ DOMAIN pendingSessions' = DOMAIN pendingSessions
      /\ \A i \in DOMAIN pendingSessions : SessionID(i)' = SessionID(i)
  BY DEF SessionID
<1>8. /\ DOMAIN pendingMatchCreations = 1..n /\ lastMatchID \in Nat
      /\ \A i \in 1..n : CreationID(i) \in Nat
      /\ \A i \in DOMAIN pendingSessions : SessionID(i) \in Nat
  BY <1>3, Indices
<1>9. \A i, j \in DOMAIN pendingMatchCreations' : CreationID(i)' = CreationID(j)' => i = j
  BY <1>4, <1>5, <1>6, <1>8, IdParts
<1>10. \A i \in DOMAIN pendingMatchCreations', j \in DOMAIN pendingSessions' :
         CreationID(i)' # SessionID(j)'
  BY <1>4, <1>5, <1>6, <1>7, <1>8, IdParts
<1>11. /\ \A i \in DOMAIN pendingMatchCreations' : CreationID(i)' <= lastMatchID'
       /\ \A i \in DOMAIN pendingSessions' : SessionID(i)' <= lastMatchID'
  BY <1>4, <1>5, <1>6, <1>7, <1>8, IdParts
<1> QED
  BY <1>7, <1>9, <1>10, <1>11, IdParts, IdPartsNext

\* ... a creation with a new id in the place of one, ...
LEMMA CreationRenamed ==
  ASSUME TypeOK, IdInv, NEW i \in DOMAIN pendingMatchCreations, NEW c,
         pendingMatchCreations' = [pendingMatchCreations EXCEPT ![i] = c],
         lastMatchID' = lastMatchID + 1, c.matchData.matchID = lastMatchID',
         UNCHANGED pendingSessions
  PROVE  IdInv'
<1>1. /\ DOMAIN pendingMatchCreations' = DOMAIN pendingMatchCreations
      /\ \A k \in DOMAIN pendingMatchCreations :
           CreationID(k)' = IF k = i THEN lastMatchID' ELSE CreationID(k)
  BY DEF CreationID
<1> QED
  BY <1>1, Indices DEF IdInv, MatchIDsAreUnique, CreationID, SessionID

\* ... a creation erased, ...
LEMMA CreationErased ==
  ASSUME TypeOK, NEW i \in DOMAIN pendingMatchCreations,
         pendingMatchCreations' = RemoveAt(pendingMatchCreations, i)
  PROVE  /\ DOMAIN pendingMatchCreations' = 1..(Len(pendingMatchCreations) - 1)
         /\ \A k \in 1..(Len(pendingMatchCreations) - 1) :
              pendingMatchCreations'[k] = pendingMatchCreations[Shift(i, k)]
<1>1. i \in 1..Len(pendingMatchCreations)
  BY Indices
<1>2. pendingMatchCreations \in Seq(PendingMatchCreation)
  BY DEF TypeOK
<1> QED
  BY <1>1, <1>2, RemoveAtShifts, SMTT(30) DEF Shift

\* ... or a session erased.
LEMMA SessionErased ==
  ASSUME TypeOK, NEW i \in DOMAIN pendingSessions,
         pendingSessions' = RemoveAt(pendingSessions, i)
  PROVE  /\ DOMAIN pendingSessions' = 1..(Len(pendingSessions) - 1)
         /\ \A k \in 1..(Len(pendingSessions) - 1) :
              pendingSessions'[k] = pendingSessions[Shift(i, k)]
<1>1. i \in 1..Len(pendingSessions)
  BY Indices
<1>2. pendingSessions \in Seq(MatchSession)
  BY DEF TypeOK
<1> QED
  BY <1>1, <1>2, RemoveAtShifts, SMTT(30) DEF Shift

\* A creation becomes a session.
LEMMA Accepted ==
  ASSUME TypeOK, NEW i \in DOMAIN pendingMatchCreations, NEW id, MatchUnique(i, id)
  PROVE  /\ DOMAIN pendingSessions' = 1..(Len(pendingSessions) + 1)
         /\ \A k \in 1..Len(pendingSessions) : pendingSessions'[k] = pendingSessions[k]
         /\ pendingSessions'[Len(pendingSessions) + 1] =
              NewSession(pendingMatchCreations[i].matchData)
<1> DEFINE new == NewSession(pendingMatchCreations[i].matchData)
<1>1. new \in MatchSession /\ pendingSessions \in Seq(MatchSession)
  BY CreationTypes, NewSessionType DEF TypeOK
<1>2. pendingSessions' = Append(pendingSessions, new)
  BY DEF MatchUnique
<1> HIDE DEF new
<1>3. /\ pendingSessions' \in Seq(MatchSession)
      /\ Len(pendingSessions') = Len(pendingSessions) + 1
      /\ \A k \in 1..Len(pendingSessions) : pendingSessions'[k] = pendingSessions[k]
      /\ pendingSessions'[Len(pendingSessions) + 1] = new
  BY <1>1, <1>2, AppendProperties
<1> QED
  BY <1>3, LenProperties DEF new

\* An acknowledgement or a resend changes no session's id or players.
LEMMA Acknowledged ==
  ASSUME TypeOK, NEW c, AckMatchFound(c)
  PROVE  /\ DOMAIN pendingSessions' = DOMAIN pendingSessions
         /\ \A i \in DOMAIN pendingSessions : SessionID(i)' = SessionID(i)
<1>1. DOMAIN pendingSessions' = DOMAIN pendingSessions
  BY DEF AckMatchFound
<1>2. ASSUME NEW i \in DOMAIN pendingSessions PROVE SessionID(i)' = SessionID(i)
  <2>1. PICK ps : pendingSessions'[i] = [pendingSessions[i] EXCEPT !.players = ps]
    BY DEF AckMatchFound
  <2>2. pendingSessions[i] \in MatchSession
    BY SessionTypes
  <2> QED
    BY <2>1, <2>2 DEF MatchSession, SessionID
<1> QED
  BY <1>1, <1>2

LEMMA Resent ==
  ASSUME NEW seats, Resend(pendingSessions[cursor], seats)
  PROVE  /\ DOMAIN pendingSessions' = DOMAIN pendingSessions
         /\ \A i \in DOMAIN pendingSessions : SessionID(i)' = SessionID(i)
  BY DEF Resend, SessionID

LEMMA IdsStep ==
  ASSUME TypeInv, IdInv, [Next]_vars
  PROVE  IdInv'
<1> USE DEF TypeInv
<1>1. ASSUME UNCHANGED listVars PROVE IdInv'
  BY <1>1 DEF listVars, IdInv, MatchIDsAreUnique, CreationID, SessionID
<1>2. ASSUME NEW c \in Endpoint, AckMatchFound(c) PROVE IdInv'
  BY <1>2, IdsKept, Acknowledged DEF AckMatchFound, CreationID
<1>3. ASSUME NEW i \in DOMAIN pendingMatchCreations, NEW id, MatchUnique(i, id)
      PROVE  IdInv'
  <2>1. /\ DOMAIN pendingMatchCreations' = 1..(Len(pendingMatchCreations) - 1)
        /\ \A k \in 1..(Len(pendingMatchCreations) - 1) :
             CreationID(k)' = CreationID(Shift(i, k))
    BY <1>3, CreationErased DEF MatchUnique, CreationID
  <2>2. PICK n \in Nat : n = Len(pendingSessions)
    BY Indices
  <2>3. DOMAIN pendingSessions' = 1..(n + 1)
    BY <1>3, <2>2, Accepted
  <2>4. \A k \in 1..n : SessionID(k)' = SessionID(k)
    BY <1>3, <2>2, Accepted DEF SessionID
  <2>5. SessionID(n + 1)' = CreationID(i)
    <3>1. pendingSessions'[n + 1] = NewSession(pendingMatchCreations[i].matchData)
      BY <1>3, <2>2, Accepted
    <3>2. NewSession(pendingMatchCreations[i].matchData).matchID =
            pendingMatchCreations[i].matchData.matchID
      BY DEF NewSession
    <3> QED
      BY <3>1, <3>2 DEF SessionID, CreationID
  <2>6. lastMatchID' = lastMatchID
    BY <1>3 DEF MatchUnique
  <2>7. i \in 1..Len(pendingMatchCreations) /\ DOMAIN pendingSessions = 1..n
    BY <2>2, Indices
  <2>8. /\ \A k \in DOMAIN pendingMatchCreations' :
             Shift(i, k) \in DOMAIN pendingMatchCreations /\ Shift(i, k) # i
        /\ \A k, l \in DOMAIN pendingMatchCreations' : Shift(i, k) = Shift(i, l) => k = l
    BY <2>1, <2>7, Indices, Shifting
  <2>9. \A k \in DOMAIN pendingMatchCreations' : CreationID(k)' = CreationID(Shift(i, k))
    BY <2>1
  <2>10. \A k \in DOMAIN pendingMatchCreations', l \in DOMAIN pendingSessions' :
           CreationID(k)' # SessionID(l)'
    BY <2>3, <2>4, <2>5, <2>7, <2>8, <2>9, IdParts
  <2>11. \A k, l \in DOMAIN pendingSessions' : SessionID(k)' = SessionID(l)' => k = l
    BY <2>3, <2>4, <2>5, <2>7, IdParts
  <2>12. \A k, l \in DOMAIN pendingMatchCreations' : CreationID(k)' = CreationID(l)' => k = l
    BY <2>8, <2>9, IdParts
  <2>13. \A k \in DOMAIN pendingMatchCreations' : CreationID(k)' <= lastMatchID'
    BY <2>6, <2>8, <2>9, IdParts
  <2>14. \A k \in DOMAIN pendingSessions' : SessionID(k)' <= lastMatchID'
    BY <2>3, <2>4, <2>5, <2>6, <2>7, IdParts
  <2> QED
    BY <2>10, <2>11, <2>12, <2>13, <2>14, IdPartsNext
<1>4. ASSUME NEW i \in DOMAIN pendingMatchCreations, NEW id, MatchUsed(i, id)
      PROVE  IdInv'
  <2> DEFINE data == [pendingMatchCreations[i].matchData EXCEPT !.matchID = lastMatchID']
             c == [matchData |-> data, serialized |-> data, attempts |-> 0]
  <2>1. c.matchData.matchID = lastMatchID'
    BY CreationTypes DEF StartMatchData
  <2>2. pendingMatchCreations' = [pendingMatchCreations EXCEPT ![i] = c]
    BY <1>4 DEF MatchUsed
  <2> HIDE DEF c
  <2> QED
    BY <1>4, <2>1, <2>2, CreationRenamed DEF MatchUsed
<1>5. ASSUME NEW t \in MatchType, FormMatch(t) PROVE IdInv'
  BY <1>5, NewMatch, CreationAppended DEF FormMatch
<1>6. CASE GiveUpCreation
  <2>1. /\ cursor \in DOMAIN pendingMatchCreations
        /\ pendingMatchCreations' = RemoveAt(pendingMatchCreations, cursor)
        /\ UNCHANGED <<lastMatchID, pendingSessions>>
    BY <1>6 DEF GiveUpCreation, AtCreation
  <2>2. /\ DOMAIN pendingMatchCreations' = 1..(Len(pendingMatchCreations) - 1)
        /\ \A k \in 1..(Len(pendingMatchCreations) - 1) :
             CreationID(k)' = CreationID(Shift(cursor, k))
    BY <2>1, CreationErased DEF CreationID
  <2>3. cursor \in 1..Len(pendingMatchCreations)
    BY <2>1, Indices
  <2>4. /\ \A k \in DOMAIN pendingMatchCreations' :
             Shift(cursor, k) \in DOMAIN pendingMatchCreations /\ Shift(cursor, k) # cursor
        /\ \A k, l \in DOMAIN pendingMatchCreations' :
             Shift(cursor, k) = Shift(cursor, l) => k = l
    BY <2>2, <2>3, Indices, Shifting
  <2>5. \A k \in DOMAIN pendingMatchCreations' : CreationID(k)' = CreationID(Shift(cursor, k))
    BY <2>2
  <2>6. /\ DOMAIN pendingSessions' = DOMAIN pendingSessions
        /\ \A k \in DOMAIN pendingSessions : SessionID(k)' = SessionID(k)
        /\ lastMatchID' = lastMatchID
    BY <2>1 DEF SessionID
  <2> QED
    BY <2>4, <2>5, <2>6, IdParts, IdPartsNext
<1>7. CASE SendCreation
  <2>1. /\ DOMAIN pendingMatchCreations' = DOMAIN pendingMatchCreations
        /\ \A i \in DOMAIN pendingMatchCreations : CreationID(i)' = CreationID(i)
    BY <1>7 DEF SendCreation, CreationID
  <2> QED
    BY <1>7, <2>1, IdsKept DEF SendCreation, SessionID
<1>8. ASSUME NEW due, AwaitAcks(due) PROVE IdInv'
  BY <1>8, IdsKept, Resent DEF AwaitAcks, CreationID
<1>9. ASSUME NEW due, NEW last, GiveUpSession(due, last) PROVE IdInv'
  BY <1>9, IdsKept, Resent DEF GiveUpSession, CreationID
<1>10. CASE Requeue \/ StartMatch
  <2>1. /\ cursor \in DOMAIN pendingSessions
        /\ pendingSessions' = RemoveAt(pendingSessions, cursor)
        /\ UNCHANGED <<lastMatchID, pendingMatchCreations>>
    BY <1>10 DEF Requeue, StartMatch, AtSession, Main
  <2>2. /\ DOMAIN pendingSessions' = 1..(Len(pendingSessions) - 1)
        /\ \A k \in 1..(Len(pendingSessions) - 1) :
             SessionID(k)' = SessionID(Shift(cursor, k))
    BY <2>1, SessionErased DEF SessionID
  <2>3. cursor \in 1..Len(pendingSessions)
    BY <2>1, Indices
  <2>4. /\ \A k \in DOMAIN pendingSessions' :
             Shift(cursor, k) \in DOMAIN pendingSessions /\ Shift(cursor, k) # cursor
        /\ \A k, l \in DOMAIN pendingSessions' :
             Shift(cursor, k) = Shift(cursor, l) => k = l
    BY <2>2, <2>3, Indices, Shifting
  <2>5. \A k \in DOMAIN pendingSessions' : SessionID(k)' = SessionID(Shift(cursor, k))
    BY <2>2
  <2>6. /\ DOMAIN pendingMatchCreations' = DOMAIN pendingMatchCreations
        /\ \A k \in DOMAIN pendingMatchCreations : CreationID(k)' = CreationID(k)
        /\ lastMatchID' = lastMatchID
    BY <2>1 DEF CreationID
  <2> QED
    BY <2>4, <2>5, <2>6, IdParts, IdPartsNext
<1>11. CASE DispatchThread
  BY <1>11, <1>1, <1>2, <1>3, <1>4
     DEF DispatchThread, FindMatch, CancelSearch, BadMatchID, LookInVain, listVars
<1>12. CASE MainLoop
  <2>1. CASE Tick \/ (\E t \in MatchType : NoMatch(t)) \/ SkipCreation \/ CreationsDone \/ SessionsDone
    BY <2>1, <1>1 DEF Tick, NoMatch, SkipCreation, CreationsDone, SessionsDone, listVars
  <2> QED
    BY <1>12, <2>1, <1>5, <1>6, <1>7, <1>8, <1>9, <1>10 DEF MainLoop
<1>13. CASE Leave \/ UNCHANGED vars
  BY <1>13, <1>1 DEF Leave, vars, listVars
<1> QED
  BY <1>11, <1>12, <1>13 DEF Next, Over

LEMMA IdInvariance == Spec => []IdInv
<1>1. Init => IdInv
  BY DEF Init, IdInv, MatchIDsAreUnique
<1> QED
  BY <1>1, IdsStep, TypeInvariance, PTL DEF Spec

\* MatchIDsAreUnique: however MATCH_UNIQUE, MATCH_USED, new groups and given up
\* matches interleave, no two matches have the same id at the same time.
THEOREM UniqueMatchIDs == Spec => []MatchIDsAreUnique
  BY IdInvariance, PTL DEF IdInv
-----------------------------------------------------------------------------
(***************************************************************************)
(* The walks of the main thread through creations and sessions.  What a    *)
(* step does to the ids of a list and to the iterator: it stays, moves on, *)
(* erases at the iterator or behind it, appends or renames.                *)
(***************************************************************************)
Distinct(ids) == \A k, l \in DOMAIN ids : ids[k] = ids[l] => k = l

LEMMA WalkStays == \A ids, at : Walks(ids, at, ids, at)
  BY DEF Walks

LEMMA WalkMovesOn ==
  ASSUME NEW n \in Nat, NEW ids, DOMAIN ids = 1..n, NEW at \in 1..n
  PROVE  Walks(ids, at, ids, at + 1)
<1>1. \A k \in 1..n : k >= at => k = at \/ k >= at + 1
  OBVIOUS
<1>2. \A k \in 1..n : k >= at + 1 => k >= at
  OBVIOUS
<1> QED
  BY <1>1, <1>2 DEF Walks, Ahead

LEMMA WalkErases ==
  ASSUME NEW n \in Nat, NEW ids, DOMAIN ids = 1..n, Distinct(ids),
         NEW at \in Nat \ {0}, NEW i \in 1..n, i >= at,
         NEW after, DOMAIN after = 1..(n - 1),
         \A k \in 1..(n - 1) : after[k] = ids[Shift(i, k)]
  PROVE  Walks(ids, at, after, at)
<1>1. \A k \in 1..(n - 1) : Shift(i, k) \in 1..n /\ Shift(i, k) # i
  BY Shifting
<1>2. ids[i] \notin Ahead(after, 1)
  BY <1>1 DEF Ahead, Distinct
<1>3. ASSUME NEW k \in 1..n, k >= at, k # i PROVE ids[k] \in Ahead(after, at)
  <2>1. PICK m \in 1..(n - 1) : m >= at /\ Shift(i, m) = k
    <3>1. CASE k < i
      <4>1. k \in 1..(n - 1) /\ Shift(i, k) = k
        BY <3>1 DEF Shift
      <4> QED
        BY <1>3, <4>1
    <3>2. CASE k > i
      <4>1. k - 1 \in 1..(n - 1) /\ k - 1 >= at /\ Shift(i, k - 1) = k
        BY <3>2 DEF Shift
      <4> QED
        BY <4>1
    <3> QED
      BY <1>3, <3>1, <3>2
  <2> QED
    BY <2>1 DEF Ahead
<1>4. ASSUME NEW m \in 1..(n - 1), m >= at PROVE after[m] \in Ahead(ids, at)
  <2>1. Shift(i, m) >= at
    BY <1>4 DEF Shift
  <2> QED
    BY <1>1, <2>1 DEF Ahead
<1>5. ASSUME NEW id \in Ahead(ids, at), id \notin Ahead(after, at)
      PROVE  id = ids[at] \/ id \notin Ahead(after, 1)
  <2>1. PICK k \in 1..n : k >= at /\ id = ids[k]
    BY DEF Ahead
  <2>2. k = i
    BY <1>3, <1>5, <2>1
  <2> QED
    BY <1>2, <2>1, <2>2
<1>6. ASSUME NEW id \in Ahead(after, at) PROVE id \in Ahead(ids, at)
  BY <1>4 DEF Ahead
<1> QED
  BY <1>5, <1>6 DEF Walks

LEMMA WalkAppends ==
  ASSUME NEW n \in Nat, NEW ids, DOMAIN ids = 1..n, NEW at \in Nat \ {0},
         NEW after, DOMAIN after = 1..(n + 1), \A k \in 1..n : after[k] = ids[k],
         after[n + 1] \notin Ahead(ids, 1)
  PROVE  Walks(ids, at, after, at)
<1>1. \A k \in 1..n : k \in 1..(n + 1)
  OBVIOUS
<1>2. \A k \in 1..(n + 1) : k \in 1..n \/ k = n + 1
  OBVIOUS
<1>3. \A id \in Ahead(ids, at) : id \in Ahead(after, at)
  BY <1>1 DEF Ahead
<1>4. ASSUME NEW id \in Ahead(after, at), id \notin Ahead(ids, at) PROVE id \notin Ahead(ids, 1)
  <2>1. PICK k \in 1..(n + 1) : k >= at /\ id = after[k]
    BY DEF Ahead
  <2>2. k = n + 1
    BY <1>2, <1>4, <2>1 DEF Ahead
  <2> QED
    BY <2>1, <2>2
<1> QED
  BY <1>3, <1>4 DEF Walks

LEMMA WalkRenames ==
  ASSUME NEW n \in Nat, NEW ids, DOMAIN ids = 1..n, Distinct(ids), NEW at \in Nat \ {0},
         NEW i \in 1..n, NEW after, DOMAIN after = 1..n,
         \A k \in 1..n : k # i => after[k] = ids[k],
         after[i] \notin Ahead(ids, 1)
  PROVE  Walks(ids, at, after, at)
<1>0. \A k \in 1..n : k >= 1 /\ ids[k] \in Ahead(ids, 1)
  BY DEF Ahead
<1>1. ids[i] \notin Ahead(after, 1)
  BY <1>0 DEF Ahead, Distinct
<1>2. ASSUME NEW id \in Ahead(ids, at), id \notin Ahead(after, at)
      PROVE  id \notin Ahead(after, 1)
  BY <1>1, <1>2 DEF Ahead
<1>3. ASSUME NEW id \in Ahead(after, at), id \notin Ahead(ids, at) PROVE id \notin Ahead(ids, 1)
  BY <1>3 DEF Ahead
<1> QED
  BY <1>2, <1>3 DEF Walks

\* An iterator that is at no element has passed them all.
LEMMA WalkEnds ==
  ASSUME NEW n \in Nat, NEW ids, DOMAIN ids = 1..n, NEW at \in Nat \ {0}, at \notin 1..n
  PROVE  Ahead(ids, at) = {}
<1>1. \A k \in 1..n : ~(k >= at)
  OBVIOUS
<1> QED
  BY <1>1 DEF Ahead

\* The two lists as walks see them.
LEMMA CreationIDsAre ==
  ASSUME TypeInv, IdInv
  PROVE  /\ Len(pendingMatchCreations) \in Nat
         /\ DOMAIN CreationIDs = 1..Len(pendingMatchCreations)
         /\ DOMAIN pendingMatchCreations = 1..Len(pendingMatchCreations)
         /\ \A k \in DOMAIN CreationIDs : CreationIDs[k] = CreationID(k)
         /\ Distinct(CreationIDs)
<1>1. DOMAIN CreationIDs = DOMAIN pendingMatchCreations
  BY DEF CreationIDs
<1>2. \A k \in DOMAIN CreationIDs : CreationIDs[k] = CreationID(k)
  BY DEF CreationIDs, CreationID
<1> QED
  BY <1>1, <1>2, Indices, IdParts DEF TypeInv, Distinct

LEMMA SessionIDsAre ==
  ASSUME TypeInv, IdInv
  PROVE  /\ Len(pendingSessions) \in Nat
         /\ DOMAIN SessionIDs = 1..Len(pendingSessions)
         /\ DOMAIN pendingSessions = 1..Len(pendingSessions)
         /\ \A k \in DOMAIN SessionIDs : SessionIDs[k] = SessionID(k)
         /\ Distinct(SessionIDs)
<1>1. DOMAIN SessionIDs = DOMAIN pendingSessions
  BY DEF SessionIDs
<1>2. \A k \in DOMAIN SessionIDs : SessionIDs[k] = SessionID(k)
  BY DEF SessionIDs, SessionID
<1> QED
  BY <1>1, <1>2, Indices, IdParts DEF TypeInv, Distinct

LEMMA CreationIDsErased ==
  ASSUME TypeInv, IdInv, NEW i \in DOMAIN pendingMatchCreations, i >= cursor,
         pendingMatchCreations' = RemoveAt(pendingMatchCreations, i)
  PROVE  Walks(CreationIDs, cursor, CreationIDs', cursor)
<1>1. PICK n \in Nat : n = Len(pendingMatchCreations)
  BY CreationIDsAre
<1>2. DOMAIN CreationIDs = 1..n /\ Distinct(CreationIDs) /\ i \in 1..n /\ cursor \in Nat \ {0}
  BY <1>1, CreationIDsAre DEF TypeInv, TypeOK
<1>3. /\ DOMAIN pendingMatchCreations' = 1..(n - 1)
      /\ \A k \in 1..(n - 1) :
           pendingMatchCreations'[k] = pendingMatchCreations[Shift(i, k)]
  BY <1>1, CreationErased DEF TypeInv
<1>4. \A k \in 1..(n - 1) : Shift(i, k) \in 1..n
  BY <1>2, Shifting
<1>5. DOMAIN CreationIDs' = 1..(n - 1)
  BY <1>3 DEF CreationIDs
<1>6. \A k \in 1..(n - 1) : CreationIDs'[k] = CreationIDs[Shift(i, k)]
  BY <1>1, <1>3, <1>4, CreationIDsAre DEF CreationIDs
<1> QED
  BY <1>2, <1>5, <1>6, WalkErases

LEMMA SessionIDsErased ==
  ASSUME TypeInv, IdInv, cursor \in DOMAIN pendingSessions,
         pendingSessions' = RemoveAt(pendingSessions, cursor)
  PROVE  Walks(SessionIDs, cursor, SessionIDs', cursor)
<1>1. PICK n \in Nat : n = Len(pendingSessions)
  BY SessionIDsAre
<1>2. /\ DOMAIN SessionIDs = 1..n /\ Distinct(SessionIDs)
      /\ cursor \in 1..n /\ cursor \in Nat \ {0} /\ cursor >= cursor
  BY <1>1, SessionIDsAre DEF TypeInv, TypeOK
<1>3. /\ DOMAIN pendingSessions' = 1..(n - 1)
      /\ \A k \in 1..(n - 1) : pendingSessions'[k] = pendingSessions[Shift(cursor, k)]
  BY <1>1, SessionErased DEF TypeInv
<1>4. \A k \in 1..(n - 1) : Shift(cursor, k) \in 1..n
  BY <1>2, Shifting
<1>5. DOMAIN SessionIDs' = 1..(n - 1)
  BY <1>3 DEF SessionIDs
<1>6. \A k \in 1..(n - 1) : SessionIDs'[k] = SessionIDs[Shift(cursor, k)]
  BY <1>1, <1>3, <1>4, SessionIDsAre DEF SessionIDs
<1> QED
  BY <1>2, <1>5, <1>6, WalkErases

\* An accepted creation is a session that was not there.
LEMMA SessionIDsAppended ==
  ASSUME TypeInv, IdInv, NEW i \in DOMAIN pendingMatchCreations, NEW id, MatchUnique(i, id)
  PROVE  Walks(SessionIDs, cursor, SessionIDs', cursor)
<1>1. PICK n \in Nat : n = Len(pendingSessions)
  BY SessionIDsAre
<1>2. DOMAIN SessionIDs = 1..n /\ DOMAIN pendingSessions = 1..n /\ cursor \in Nat \ {0}
  BY <1>1, SessionIDsAre DEF TypeInv, TypeOK
<1>3. /\ DOMAIN pendingSessions' = 1..(n + 1)
      /\ \A k \in 1..n : pendingSessions'[k] = pendingSessions[k]
      /\ pendingSessions'[n + 1] = NewSession(pendingMatchCreations[i].matchData)
  BY <1>1, Accepted DEF TypeInv
<1>4. DOMAIN SessionIDs' = 1..(n + 1) /\ n + 1 \in 1..(n + 1)
  BY <1>3 DEF SessionIDs
<1>5. \A k \in 1..n : SessionIDs'[k] = SessionIDs[k]
  <2>1. \A k \in 1..n : k \in 1..(n + 1)
    OBVIOUS
  <2> QED
    BY <1>2, <1>3, <2>1 DEF SessionIDs
<1>6. SessionIDs'[n + 1] = CreationID(i)
  BY <1>3, <1>4 DEF SessionIDs, NewSession, CreationID
<1>7. CreationID(i) \notin Ahead(SessionIDs, 1)
  BY <1>2, SessionIDsAre, IdParts DEF Ahead
<1> QED
  BY <1>2, <1>4, <1>5, <1>6, <1>7, WalkAppends

\* A fresh id is above all that are in use.
LEMMA CreationIDsRenamed ==
  ASSUME TypeInv, IdInv, NEW i \in DOMAIN pendingMatchCreations, NEW id, MatchUsed(i, id)
  PROVE  Walks(CreationIDs, cursor, CreationIDs', cursor)
<1>1. PICK n \in Nat : n = Len(pendingMatchCreations)
  BY CreationIDsAre
<1>2. /\ DOMAIN CreationIDs = 1..n /\ DOMAIN pendingMatchCreations = 1..n
      /\ Distinct(CreationIDs) /\ i \in 1..n /\ cursor \in Nat \ {0}
  BY <1>1, CreationIDsAre DEF TypeInv, TypeOK
<1> DEFINE data == [pendingMatchCreations[i].matchData EXCEPT !.matchID = lastMatchID']
           c == [matchData |-> data, serialized |-> data, attempts |-> 0]
<1>3. c.matchData.matchID = lastMatchID'
  BY CreationTypes DEF StartMatchData, TypeInv
<1>4. pendingMatchCreations' = [pendingMatchCreations EXCEPT ![i] = c] /\ lastMatchID' = lastMatchID + 1
  BY DEF MatchUsed
<1> HIDE DEF c
<1>5. DOMAIN CreationIDs' = 1..n
  BY <1>2, <1>4 DEF CreationIDs
<1>6. \A k \in 1..n : k # i => CreationIDs'[k] = CreationIDs[k]
  BY <1>2, <1>4 DEF CreationIDs
<1>7. CreationIDs'[i] = lastMatchID + 1
  BY <1>2, <1>3, <1>4 DEF CreationIDs
<1>8. lastMatchID + 1 \notin Ahead(CreationIDs, 1)
  <2>1. \A k \in 1..n : CreationIDs[k] = CreationID(k) /\ CreationID(k) <= lastMatchID
                         /\ CreationID(k) \in Nat
    BY <1>2, CreationIDsAre, IdParts, Indices DEF TypeInv
  <2>2. lastMatchID \in Nat
    BY Indices DEF TypeInv
  <2> QED
    BY <1>2, <2>1, <2>2 DEF Ahead
<1> QED
  BY <1>2, <1>5, <1>6, <1>7, <1>8, WalkRenames

\* What happens while the creations are walked through.
LEMMA CreationsWalk ==
  ASSUME TypeInv, IdInv, Next, fate' = "running", mainPc = "creations"
  PROVE  \/ mainPc' = "creations" /\ Walks(CreationIDs, cursor, CreationIDs', cursor')
         \/ mainPc' = "acks" /\ Ahead(CreationIDs, cursor) = {}
<1> DEFINE Goal == \/ mainPc' = "creations" /\ Walks(CreationIDs, cursor, CreationIDs', cursor')
                   \/ mainPc' = "acks" /\ Ahead(CreationIDs, cursor) = {}
<1>1. ASSUME CreationIDs' = CreationIDs, UNCHANGED <<mainPc, cursor>> PROVE Goal
  BY <1>1, WalkStays
<1>2. ASSUME NEW i \in DOMAIN pendingMatchCreations, NEW id, MatchUnique(i, id) PROVE Goal
  <2>1. i \in Nat /\ cursor \in Nat
    BY CreationIDsAre DEF TypeInv, TypeOK
  <2>2. i >= cursor
    BY <1>2, <2>1 DEF MatchUnique, Fates
  <2> QED
    BY <1>2, <2>2, CreationIDsErased DEF MatchUnique, Handler
<1>3. ASSUME NEW i \in DOMAIN pendingMatchCreations, NEW id, MatchUsed(i, id) PROVE Goal
  BY <1>3, CreationIDsRenamed DEF MatchUsed, Handler
<1>4. CASE DispatchThread
  BY <1>1, <1>2, <1>3, <1>4
     DEF DispatchThread, FindMatch, CancelSearch, AckMatchFound, BadMatchID, LookInVain,
         Handler, listVars, CreationIDs
<1>5. CASE SkipCreation \/ SendCreation
  <2>1. cursor \in DOMAIN pendingMatchCreations /\ cursor' = cursor + 1 /\ mainPc' = mainPc
    BY <1>5 DEF SkipCreation, SendCreation, AtCreation
  <2>2. CreationIDs' = CreationIDs
    <3>1. CASE SkipCreation
      BY <3>1 DEF SkipCreation, listVars, CreationIDs
    <3>2. CASE SendCreation
      <4>1. DOMAIN pendingMatchCreations' = DOMAIN pendingMatchCreations
        BY <3>2 DEF SendCreation
      <4>2. \A k \in DOMAIN pendingMatchCreations :
              pendingMatchCreations'[k].matchData.matchID = pendingMatchCreations[k].matchData.matchID
        BY <3>2 DEF SendCreation
      <4> QED
        BY <4>1, <4>2 DEF CreationIDs
    <3> QED
      BY <1>5, <3>1, <3>2
  <2> QED
    BY <2>1, <2>2, CreationIDsAre, WalkMovesOn
<1>6. CASE GiveUpCreation
  <2>1. /\ cursor \in DOMAIN pendingMatchCreations /\ UNCHANGED <<mainPc, cursor>>
        /\ pendingMatchCreations' = RemoveAt(pendingMatchCreations, cursor)
    BY <1>6 DEF GiveUpCreation, AtCreation, mainVars
  <2>2. cursor >= cursor
    BY DEF TypeInv, TypeOK
  <2> QED
    BY <2>1, <2>2, CreationIDsErased
<1>7. CASE CreationsDone
  <2>1. cursor \notin DOMAIN pendingMatchCreations /\ mainPc' = "acks" /\ cursor \in Nat \ {0}
    BY <1>7 DEF CreationsDone, TypeInv, TypeOK
  <2> QED
    BY <2>1, CreationIDsAre, WalkEnds
<1>8. CASE MainLoop
  BY <1>5, <1>6, <1>7, <1>8
     DEF MainLoop, Tick, FormMatch, NoMatch, AwaitAcks, GiveUpSession, Requeue, StartMatch,
         SessionsDone, Main, MatchType
<1>9. CASE Leave \/ Over
  BY <1>1, <1>9 DEF Leave, Over, Main, vars, CreationIDs
<1> QED
  BY <1>4, <1>8, <1>9 DEF Next

\* And while the sessions are, whose give-up takes two steps.
LEMMA SessionsWalk ==
  ASSUME TypeInv, IdInv, Next, fate' = "running", mainPc \in {"acks", "requeue"}
  PROVE  \/ /\ mainPc' \in {"acks", "requeue"}
            /\ Walks(SessionIDs, cursor, SessionIDs', cursor')
         \/ mainPc' = "receive" /\ Ahead(SessionIDs, cursor) = {}
<1> DEFINE Goal == \/ /\ mainPc' \in {"acks", "requeue"}
                      /\ Walks(SessionIDs, cursor, SessionIDs', cursor')
                   \/ mainPc' = "receive" /\ Ahead(SessionIDs, cursor) = {}
<1>1. ASSUME SessionIDs' = SessionIDs, mainPc' \in {"acks", "requeue"}, UNCHANGED cursor PROVE Goal
  BY <1>1, WalkStays
<1>2. ASSUME DOMAIN pendingSessions' = DOMAIN pendingSessions,
             \A i \in DOMAIN pendingSessions : SessionID(i)' = SessionID(i)
      PROVE  SessionIDs' = SessionIDs
  BY <1>2 DEF SessionIDs, SessionID
<1>3. ASSUME NEW i \in DOMAIN pendingMatchCreations, NEW id, MatchUnique(i, id) PROVE Goal
  BY <1>3, SessionIDsAppended DEF MatchUnique, Handler
<1>4. ASSUME NEW c \in Endpoint, AckMatchFound(c) PROVE Goal
  BY <1>1, <1>2, <1>4, Acknowledged DEF AckMatchFound, Handler, TypeInv
<1>5. CASE DispatchThread
  BY <1>1, <1>3, <1>4, <1>5
     DEF DispatchThread, FindMatch, CancelSearch, MatchUsed, BadMatchID, LookInVain,
         Handler, listVars, SessionIDs
<1>6. ASSUME NEW due, AwaitAcks(due) PROVE Goal
  <2>1. cursor \in DOMAIN pendingSessions /\ cursor' = cursor + 1 /\ mainPc' = mainPc
    BY <1>6 DEF AwaitAcks, AtSession
  <2>2. SessionIDs' = SessionIDs
    BY <1>2, <1>6, Resent DEF AwaitAcks
  <2> QED
    BY <2>1, <2>2, SessionIDsAre, WalkMovesOn
<1>7. ASSUME NEW due, NEW last, GiveUpSession(due, last) PROVE Goal
  BY <1>1, <1>2, <1>7, Resent DEF GiveUpSession
<1>8. CASE Requeue \/ StartMatch
  <2>1. /\ cursor \in DOMAIN pendingSessions
        /\ pendingSessions' = RemoveAt(pendingSessions, cursor)
        /\ mainPc' = "acks" /\ UNCHANGED cursor
    BY <1>8 DEF Requeue, StartMatch, AtSession, Main, TypeInv, mainVars
  <2> QED
    BY <2>1, SessionIDsErased
<1>9. CASE SessionsDone
  <2>1. cursor \notin DOMAIN pendingSessions /\ mainPc' = "receive" /\ cursor \in Nat \ {0}
    BY <1>9 DEF SessionsDone, TypeInv, TypeOK
  <2> QED
    BY <2>1, SessionIDsAre, WalkEnds
<1>10. CASE MainLoop
  BY <1>6, <1>7, <1>8, <1>9, <1>10
     DEF MainLoop, Tick, FormMatch, NoMatch, SkipCreation, GiveUpCreation, SendCreation,
         CreationsDone, Main, MatchType
<1>11. CASE Leave \/ Over
  BY <1>1, <1>11 DEF Leave, Over, Main, vars, SessionIDs
<1> QED
  BY <1>5, <1>10, <1>11 DEF Next

\* NonePassedOver: the loops that erase under their own iterator look at every
\* creation and every session once, whatever handlers do to the lists meanwhile
\* that leaves the behaviour defined.
THEOREM NobodyPassedOver == Spec => NonePassedOver
<1>1. ASSUME TypeInv, IdInv, Next, fate' = "running"
      PROVE  /\ mainPc = "creations" =>
                  IF mainPc' = "creations" THEN Walks(CreationIDs, cursor, CreationIDs', cursor')
                  ELSE Ahead(CreationIDs, cursor) = {}
             /\ mainPc \in {"acks", "requeue"} =>
                  IF mainPc' \in {"acks", "requeue"}
                  THEN Walks(SessionIDs, cursor, SessionIDs', cursor')
                  ELSE Ahead(SessionIDs, cursor) = {}
  BY <1>1, CreationsWalk, SessionsWalk
<1> QED
  BY <1>1, TypeInvariance, IdInvariance, PTL DEF Spec, NonePassedOver

-----------------------------------------------------------------------------
(***************************************************************************)
(* One group for one match id.  Whatever the server sends about a match id *)
(* is about one group of players.                                          *)
(***************************************************************************)

Data(i) == pendingMatchCreations[i].matchData
IsCreate(d) == d.packet = "CREATE_MATCH"

\* The players of the pending match with a certain id.
Known(id, players) ==
  \/ \E k \in DOMAIN pendingMatchCreations :
       CreationID(k) = id /\ Data(k).players = players
  \/ \E k \in DOMAIN pendingSessions :
       SessionID(k) = id /\ Players(pendingSessions[k]) = players

(***************************************************************************)
(* The inductive invariant: the text of a creation is that of its data;    *)
(* what was sent has ids that were given out; a match that is pending has  *)
(* the players its CREATE_MATCH names; and nobody was told of a match that *)
(* is not yet accepted.                                                    *)
(***************************************************************************)
Serialized ==
  \A i \in DOMAIN pendingMatchCreations : pendingMatchCreations[i].serialized = Data(i)

CreatesAgree ==
  \A d \in sent : IsCreate(d) =>
    /\ d.data.matchID <= lastMatchID
    /\ \A i \in DOMAIN pendingMatchCreations :
         CreationID(i) = d.data.matchID => Data(i) = d.data
    /\ \A j \in DOMAIN pendingSessions :
         SessionID(j) = d.data.matchID => Players(pendingSessions[j]) = d.data.players

FoundAgree ==
  \A e \in sent : ~IsCreate(e) =>
    /\ e.matchID <= lastMatchID
    /\ \A i \in DOMAIN pendingMatchCreations : CreationID(i) # e.matchID

GroupInv == Serialized /\ CreatesAgree /\ FoundAgree /\ OneGroupPerMatchID

\* A pending match has one group, which its CREATE_MATCH names.
LEMMA KnownFacts ==
  ASSUME TypeInv, IdInv, GroupInv
  PROVE  /\ \A id, p, q : Known(id, p) /\ Known(id, q) => p = q
         /\ \A id, p : Known(id, p) => id <= lastMatchID
         /\ \A id, p : Known(id, p) =>
              \A d \in sent : IsCreate(d) /\ d.data.matchID = id => d.data.players = p
<1>1. \A id, p, q : Known(id, p) /\ Known(id, q) => p = q
  BY IdParts DEF Known
<1>2. \A id, p : Known(id, p) => id <= lastMatchID
  BY IdParts DEF Known
<1>3. \A id, p : Known(id, p) =>
        \A d \in sent : IsCreate(d) /\ d.data.matchID = id => d.data.players = p
  BY DEF Known, GroupInv, CreatesAgree
<1> QED
  BY <1>1, <1>2, <1>3

(***************************************************************************)
(* What a step may do: keep creations or add one with a new id, keep       *)
(* sessions or make one of a creation, announce a creation, and tell       *)
(* players of a match that is no longer a creation.                        *)
(***************************************************************************)
KeepsCreations ==
  \A i \in DOMAIN pendingMatchCreations' :
    /\ pendingMatchCreations'[i].serialized = pendingMatchCreations'[i].matchData
    /\ \/ pendingMatchCreations'[i].matchData.matchID > lastMatchID
       \/ \E k \in DOMAIN pendingMatchCreations :
            pendingMatchCreations'[i].matchData = Data(k)

KeepsSessions ==
  \A j \in DOMAIN pendingSessions' :
    Known(pendingSessions'[j].matchID, Players(pendingSessions'[j]))

Announces(d) ==
  IsCreate(d) /\ \E k \in DOMAIN pendingMatchCreations : d.data = Data(k)

Tells(e) ==
  /\ ~IsCreate(e)
  /\ \E p : Known(e.matchID, p) /\ e.seat \in DOMAIN p /\ e.to = p[e.seat]
  /\ \A i \in DOMAIN pendingMatchCreations' :
       pendingMatchCreations'[i].matchData.matchID # e.matchID

LEMMA GroupStep ==
  ASSUME TypeInv, IdInv, GroupInv, lastMatchID' \in Nat, lastMatchID <= lastMatchID',
         KeepsCreations, KeepsSessions,
         \A d \in sent' : d \in sent \/ Announces(d) \/ Tells(d)
  PROVE  GroupInv'
<1>1. /\ lastMatchID \in Nat
      /\ \A i \in DOMAIN pendingMatchCreations : CreationID(i) \in Nat
      /\ \A i \in DOMAIN pendingSessions : SessionID(i) \in Nat
  BY Indices DEF TypeInv
<1>2. \A d \in sent : IsCreate(d) => d.data.matchID \in Nat
  BY DEF TypeInv, TypeOK, Datagram, IsCreate, StartMatchData, MatchID
<1>3. \A d \in sent : ~IsCreate(d) => d.matchID \in Nat
  BY DEF TypeInv, TypeOK, Datagram, IsCreate, MatchID
<1>4. \A id, p : Known(id, p) => id \in Nat
  BY <1>1 DEF Known
<1>5. Serialized'
  BY DEF Serialized, KeepsCreations, Data
<1>6. ASSUME NEW d \in sent', IsCreate(d), NEW i \in DOMAIN pendingMatchCreations',
             pendingMatchCreations'[i].matchData.matchID = d.data.matchID
      PROVE  pendingMatchCreations'[i].matchData = d.data
  <2>1. d \in sent \/ Announces(d)
    BY <1>6 DEF Tells
  <2>2. d.data.matchID \in Nat /\ d.data.matchID <= lastMatchID
    BY <1>1, <1>2, <1>6, <2>1, IdParts
       DEF GroupInv, CreatesAgree, Announces, CreationID, Data
  <2>3. PICK k \in DOMAIN pendingMatchCreations : pendingMatchCreations'[i].matchData = Data(k)
    BY <1>1, <1>6, <2>2 DEF KeepsCreations
  <2>4. CreationID(k) = d.data.matchID
    BY <1>6, <2>3 DEF CreationID, Data
  <2>5. CASE d \in sent
    BY <1>6, <2>3, <2>4, <2>5 DEF GroupInv, CreatesAgree
  <2>6. CASE Announces(d)
    <3>1. PICK l \in DOMAIN pendingMatchCreations : d.data = Data(l)
      BY <2>6 DEF Announces
    <3>2. CreationID(l) = CreationID(k)
      BY <2>4, <3>1 DEF CreationID, Data
    <3> QED
      BY <2>3, <3>1, <3>2, IdParts
  <2> QED
    BY <2>1, <2>5, <2>6
<1>7. \A d \in sent' : IsCreate(d) =>
        (d \in sent \/ \E k \in DOMAIN pendingMatchCreations : d.data = Data(k))
  BY DEF Announces, Tells
<1>8. \A d : Announces(d) => Known(d.data.matchID, d.data.players)
  BY DEF Announces, Known, CreationID, Data
<1>9. \A d \in sent' : \A p : IsCreate(d) /\ Known(d.data.matchID, p) => d.data.players = p
  BY <1>7, <1>8, KnownFacts DEF Announces
<1>10. CreatesAgree'
  <2>1. \A d \in sent' : IsCreate(d) => d.data.matchID <= lastMatchID'
    BY <1>1, <1>2, <1>4, <1>7, <1>8, KnownFacts DEF Announces, GroupInv, CreatesAgree
  <2>2. \A d \in sent' : IsCreate(d) =>
          \A j \in DOMAIN pendingSessions' :
            pendingSessions'[j].matchID = d.data.matchID =>
              Players(pendingSessions'[j]) = d.data.players
    BY <1>9 DEF KeepsSessions
  <2> QED
    BY <1>6, <2>1, <2>2 DEF CreatesAgree, CreationID, SessionID, Data, IsCreate, Players
<1>11. FoundAgree'
  <2>1. ASSUME NEW e \in sent', ~IsCreate(e)
        PROVE  /\ e.matchID <= lastMatchID'
               /\ \A i \in DOMAIN pendingMatchCreations' :
                    pendingMatchCreations'[i].matchData.matchID # e.matchID
    <3>1. CASE e \in sent
      <4>1. /\ e.matchID \in Nat /\ e.matchID <= lastMatchID
            /\ \A i \in DOMAIN pendingMatchCreations : CreationID(i) # e.matchID
        BY <1>3, <2>1, <3>1 DEF GroupInv, FoundAgree
      <4> QED
        BY <1>1, <4>1 DEF KeepsCreations, CreationID, Data
    <3>2. CASE Tells(e)
      <4>1. e.matchID \in Nat /\ e.matchID <= lastMatchID
        BY <1>4, <3>2, KnownFacts DEF Tells
      <4> QED
        BY <1>1, <3>2, <4>1 DEF Tells
    <3> QED
      BY <2>1, <3>1, <3>2 DEF Announces
  <2> QED
    BY <2>1 DEF FoundAgree, CreationID, IsCreate
<1>12. OneGroupPerMatchID'
  <2> SUFFICES ASSUME NEW d \in sent', IsCreate(d), NEW e \in sent'
               PROVE  /\ IsCreate(e) /\ e.data.matchID = d.data.matchID => e.data = d.data
                      /\ ~IsCreate(e) /\ e.matchID = d.data.matchID =>
                           e.seat \in DOMAIN d.data.players /\ e.to = d.data.players[e.seat]
    BY DEF OneGroupPerMatchID, IsCreate
  <2>1. ASSUME IsCreate(e), e.data.matchID = d.data.matchID PROVE e.data = d.data
    <3>1. CASE d \in sent /\ e \in sent
      BY <2>1, <3>1 DEF GroupInv, OneGroupPerMatchID, IsCreate
    <3>2. CASE d \in sent /\ Announces(e)
      BY <2>1, <3>2 DEF Announces, GroupInv, CreatesAgree, CreationID, Data
    <3>3. CASE e \in sent /\ Announces(d)
      BY <2>1, <3>3 DEF Announces, GroupInv, CreatesAgree, CreationID, Data
    <3>4. CASE Announces(d) /\ Announces(e)
      <4>1. PICK k \in DOMAIN pendingMatchCreations : d.data = Data(k)
        BY <3>4 DEF Announces
      <4>2. PICK l \in DOMAIN pendingMatchCreations : e.data = Data(l)
        BY <3>4 DEF Announces
      <4>3. CreationID(k) = CreationID(l)
        BY <2>1, <4>1, <4>2 DEF CreationID, Data
      <4> QED
        BY <4>1, <4>2, <4>3, IdParts
    <3> QED
      BY <2>1, <3>1, <3>2, <3>3, <3>4 DEF Tells
  <2>2. ASSUME ~IsCreate(e), e.matchID = d.data.matchID
        PROVE  e.seat \in DOMAIN d.data.players /\ e.to = d.data.players[e.seat]
    <3>1. CASE Tells(e)
      BY <1>9, <2>2, <3>1 DEF Tells
    <3>2. CASE e \in sent /\ d \in sent
      <4>1. e.packet \in {"MATCH_FOUND", "untyped"}
        BY <2>2, <3>2 DEF TypeInv, TypeOK, Datagram, IsCreate
      <4> QED
        BY <2>2, <3>2, <4>1 DEF GroupInv, OneGroupPerMatchID, IsCreate
    <3>3. CASE e \in sent /\ Announces(d)
      BY <2>2, <3>3 DEF Announces, GroupInv, FoundAgree, CreationID, Data
    <3> QED
      BY <2>2, <3>1, <3>2, <3>3 DEF Announces, Tells
  <2> QED
    BY <2>1, <2>2
<1> QED
  BY <1>5, <1>10, <1>11, <1>12 DEF GroupInv

-----------------------------------------------------------------------------
\* Steps that move creations and sessions without making any.
LEMMA CreationsMoved ==
  ASSUME GroupInv,
         \A i \in DOMAIN pendingMatchCreations' : \E k \in DOMAIN pendingMatchCreations :
           /\ pendingMatchCreations'[i].matchData = Data(k)
           /\ pendingMatchCreations'[i].serialized = pendingMatchCreations[k].serialized
  PROVE  KeepsCreations
  BY DEF GroupInv, Serialized, KeepsCreations, Data

LEMMA SessionsMoved ==
  ASSUME \A j \in DOMAIN pendingSessions' : \E k \in DOMAIN pendingSessions :
           /\ pendingSessions'[j].matchID = SessionID(k)
           /\ Players(pendingSessions'[j]) = Players(pendingSessions[k])
  PROVE  KeepsSessions
  BY DEF KeepsSessions, Known

LEMMA CreationsSame ==
  ASSUME GroupInv, UNCHANGED pendingMatchCreations
  PROVE  KeepsCreations
<1>1. \A i \in DOMAIN pendingMatchCreations : pendingMatchCreations'[i] = pendingMatchCreations[i]
  OBVIOUS
<1> QED
  BY <1>1, CreationsMoved DEF Data

LEMMA SessionsSame ==
  ASSUME UNCHANGED pendingSessions
  PROVE  KeepsSessions
<1>1. \A j \in DOMAIN pendingSessions : pendingSessions'[j] = pendingSessions[j]
  OBVIOUS
<1> QED
  BY <1>1, SessionsMoved DEF SessionID

\* Erasing moves what is behind.
LEMMA CreationsErased ==
  ASSUME TypeInv, GroupInv, NEW i \in DOMAIN pendingMatchCreations,
         pendingMatchCreations' = RemoveAt(pendingMatchCreations, i)
  PROVE  KeepsCreations
<1>1. i \in 1..Len(pendingMatchCreations)
  BY Indices DEF TypeInv
<1>2. \A k \in DOMAIN pendingMatchCreations' :
        /\ Shift(i, k) \in DOMAIN pendingMatchCreations
        /\ pendingMatchCreations'[k] = pendingMatchCreations[Shift(i, k)]
  BY <1>1, CreationErased, Indices, Shifting, ZenonT(30) DEF TypeInv
<1> QED
  BY <1>2, CreationsMoved DEF Data

LEMMA SessionsErased ==
  ASSUME TypeInv, NEW i \in DOMAIN pendingSessions,
         pendingSessions' = RemoveAt(pendingSessions, i)
  PROVE  KeepsSessions
<1>1. i \in 1..Len(pendingSessions)
  BY Indices DEF TypeInv
<1>2. \A k \in DOMAIN pendingSessions' :
        /\ Shift(i, k) \in DOMAIN pendingSessions
        /\ pendingSessions'[k] = pendingSessions[Shift(i, k)]
  BY <1>1, SessionErased, Indices, Shifting, ZenonT(30) DEF TypeInv
<1> QED
  BY <1>2, SessionsMoved DEF SessionID

\* Acknowledgements and retries change no player.
LEMMA SamePlayers ==
  ASSUME NEW session \in MatchSession, NEW qs, DOMAIN qs = DOMAIN session.players,
         \A s \in DOMAIN session.players : qs[s].player = session.players[s].player
  PROVE  /\ [session EXCEPT !.players = qs].matchID = session.matchID
         /\ Players([session EXCEPT !.players = qs]) = Players(session)
<1>1. [session EXCEPT !.players = qs].players = qs
  BY DEF MatchSession
<1> QED
  BY <1>1 DEF Players, MatchSession

LEMMA AckedSessions ==
  ASSUME TypeInv, NEW c, AckMatchFound(c)
  PROVE  KeepsSessions
<1>1. DOMAIN pendingSessions' = DOMAIN pendingSessions
  BY DEF AckMatchFound
<1>2. ASSUME NEW j \in DOMAIN pendingSessions
      PROVE  /\ pendingSessions'[j].matchID = SessionID(j)
             /\ Players(pendingSessions'[j]) = Players(pendingSessions[j])
  <2> DEFINE session == pendingSessions[j]
             qs == [s \in DOMAIN session.players |-> Marked(session.players[s], c)]
  <2>1. pendingSessions'[j] = [session EXCEPT !.players = qs]
    BY DEF AckMatchFound
  <2>2. session \in MatchSession
    BY SessionTypes DEF TypeInv
  <2>3. \A s \in DOMAIN session.players : session.players[s] \in PendingMatch
    BY <2>2, ElementOfSeq, LenProperties DEF MatchSession
  <2>4. \A s \in DOMAIN session.players : qs[s].player = session.players[s].player
    BY <2>3 DEF Marked, PendingMatch
  <2>5. DOMAIN qs = DOMAIN session.players
    OBVIOUS
  <2> HIDE DEF qs
  <2> QED
    BY <2>1, <2>2, <2>4, <2>5, SamePlayers DEF SessionID
<1> QED
  BY <1>1, <1>2, SessionsMoved

LEMMA ResentSessions ==
  ASSUME TypeInv, AtSession, NEW seats, Resend(pendingSessions[cursor], seats)
  PROVE  KeepsSessions
<1> DEFINE session == pendingSessions[cursor]
           qs == [s \in DOMAIN session.players |->
                    IF s \in seats THEN Retried(session.players[s]) ELSE session.players[s]]
<1>1. cursor \in DOMAIN pendingSessions /\ session \in MatchSession
  BY SessionTypes DEF AtSession, TypeInv
<1>2. pendingSessions' = [pendingSessions EXCEPT ![cursor] = [session EXCEPT !.players = qs]]
  BY DEF Resend
<1>3. \A s \in DOMAIN session.players : session.players[s] \in PendingMatch
  BY <1>1, ElementOfSeq, LenProperties DEF MatchSession
<1>4. \A s \in DOMAIN session.players : qs[s].player = session.players[s].player
  BY <1>3 DEF Retried, PendingMatch
<1>5. DOMAIN qs = DOMAIN session.players
  OBVIOUS
<1> HIDE DEF qs
<1>6. /\ [session EXCEPT !.players = qs].matchID = session.matchID
      /\ Players([session EXCEPT !.players = qs]) = Players(session)
  BY <1>1, <1>4, <1>5, SamePlayers
<1>7. ASSUME NEW j \in DOMAIN pendingSessions
      PROVE  /\ pendingSessions'[j].matchID = SessionID(j)
             /\ Players(pendingSessions'[j]) = Players(pendingSessions[j])
  BY <1>1, <1>2, <1>6 DEF SessionID
<1>8. DOMAIN pendingSessions' = DOMAIN pendingSessions
  BY <1>2
<1> QED
  BY <1>7, <1>8, SessionsMoved

\* A resent message is about the session it belongs to.
LEMMA ResentTells ==
  ASSUME TypeInv, IdInv, AtSession, NEW seats, seats \subseteq Waiting(pendingSessions[cursor]),
         Resend(pendingSessions[cursor], seats), UNCHANGED pendingMatchCreations,
         NEW d \in sent'
  PROVE  d \in sent \/ Tells(d)
<1> DEFINE session == pendingSessions[cursor]
<1>1. cursor \in DOMAIN pendingSessions
  BY DEF AtSession
<1>2. SUFFICES ASSUME d \notin sent PROVE Tells(d)
  OBVIOUS
<1>3. PICK s \in seats : d = Found("untyped", session.players[s].player, session.matchID, s)
  BY <1>2 DEF Resend
<1>4. s \in DOMAIN session.players
  BY <1>3 DEF Waiting
<1>5. /\ d.packet = "untyped" /\ d.to = session.players[s].player
      /\ d.matchID = session.matchID /\ d.seat = s
  BY <1>3 DEF Found
<1>6. ~IsCreate(d)
  BY <1>5 DEF IsCreate
<1>7. Known(d.matchID, Players(session))
  BY <1>1, <1>5 DEF Known, SessionID
<1>8. d.seat \in DOMAIN Players(session) /\ d.to = Players(session)[d.seat]
  BY <1>4, <1>5 DEF Players
<1>9. \A i \in DOMAIN pendingMatchCreations' :
        pendingMatchCreations'[i].matchData.matchID # d.matchID
  <2>1. \A i \in DOMAIN pendingMatchCreations : CreationID(i) # SessionID(cursor)
    BY <1>1, IdParts
  <2> QED
    BY <1>5, <2>1 DEF CreationID, SessionID
<1> QED
  BY <1>6, <1>7, <1>8, <1>9 DEF Tells

\* A new session has the players of its creation.
LEMMA NewPlayers ==
  ASSUME NEW data \in StartMatchData
  PROVE  NewSession(data).matchID = data.matchID /\ Players(NewSession(data)) = data.players
<1>1. DOMAIN data.players = 1..Len(data.players) /\ data.players \in Seq(Endpoint)
  BY LenProperties DEF StartMatchData
<1>2. Players(NewSession(data)) = [s \in DOMAIN data.players |-> data.players[s]]
  BY DEF Players, NewSession
<1>3. data.players = [s \in 1..Len(data.players) |-> data.players[s]]
  BY <1>1
<1> QED
  BY <1>1, <1>2, <1>3 DEF NewSession

\* The accepted creation becomes the session, and its players are told.
LEMMA AcceptedGroup ==
  ASSUME TypeInv, IdInv, GroupInv, NEW i \in DOMAIN pendingMatchCreations, NEW id,
         MatchUnique(i, id)
  PROVE  GroupInv'
<1> DEFINE data == pendingMatchCreations[i].matchData
<1>1. i \in 1..Len(pendingMatchCreations) /\ data \in StartMatchData
  BY Indices, CreationTypes DEF TypeInv
<1>2. KeepsCreations
  BY CreationsErased DEF MatchUnique
<1>3. Known(data.matchID, data.players)
  BY DEF Known, CreationID, Data
<1>4. NewSession(data).matchID = data.matchID /\ Players(NewSession(data)) = data.players
  BY <1>1, NewPlayers
<1>5. KeepsSessions
  <2>1. PICK n \in Nat : n = Len(pendingSessions)
    BY Indices DEF TypeInv
  <2>2. /\ DOMAIN pendingSessions' = 1..(n + 1)
        /\ \A k \in 1..n : pendingSessions'[k] = pendingSessions[k]
        /\ pendingSessions'[n + 1] = NewSession(data)
    BY <2>1, Accepted DEF TypeInv
  <2>3. DOMAIN pendingSessions = 1..n
    BY <2>1, Indices DEF TypeInv
  <2>4. \A k \in 1..n : Known(pendingSessions'[k].matchID, Players(pendingSessions'[k]))
    BY <2>2, <2>3 DEF Known, SessionID
  <2>5. Known(pendingSessions'[n + 1].matchID, Players(pendingSessions'[n + 1]))
    BY <1>3, <1>4, <2>2
  <2> QED
    BY <2>2, <2>4, <2>5 DEF KeepsSessions
<1>6. ASSUME NEW d \in sent' PROVE d \in sent \/ Tells(d)
  <2>1. SUFFICES ASSUME d \notin sent PROVE Tells(d)
    OBVIOUS
  <2>2. PICK s \in DOMAIN data.players :
          d = Found("MATCH_FOUND", data.players[s], data.matchID, s)
    BY <2>1 DEF MatchUnique, MatchFoundTo
  <2>3. /\ d.packet = "MATCH_FOUND" /\ d.to = data.players[s]
        /\ d.matchID = data.matchID /\ d.seat = s
    BY <2>2 DEF Found
  <2>4. \A k \in DOMAIN pendingMatchCreations' :
          /\ Shift(i, k) \in DOMAIN pendingMatchCreations /\ Shift(i, k) # i
          /\ pendingMatchCreations'[k] = pendingMatchCreations[Shift(i, k)]
    BY <1>1, CreationErased, Indices, Shifting, ZenonT(30) DEF TypeInv, MatchUnique
  <2>5. \A k \in DOMAIN pendingMatchCreations' :
          pendingMatchCreations'[k].matchData.matchID # d.matchID
    BY <2>3, <2>4, IdParts DEF CreationID
  <2> QED
    BY <1>3, <2>2, <2>3, <2>5 DEF Tells, IsCreate
<1>7. lastMatchID' \in Nat /\ lastMatchID <= lastMatchID'
  BY Indices DEF TypeInv, MatchUnique
<1> QED
  BY <1>2, <1>5, <1>6, <1>7, GroupStep

\* A creation is announced with its own data.
LEMMA SentGroup ==
  ASSUME TypeInv, IdInv, GroupInv, SendCreation
  PROVE  GroupInv'
<1>1. cursor \in DOMAIN pendingMatchCreations
  BY DEF SendCreation, AtCreation
<1>2. \A k \in DOMAIN pendingMatchCreations' :
        /\ k \in DOMAIN pendingMatchCreations
        /\ pendingMatchCreations'[k].matchData = Data(k)
        /\ pendingMatchCreations'[k].serialized = pendingMatchCreations[k].serialized
  <2>1. pendingMatchCreations[cursor] \in PendingMatchCreation
    BY <1>1, CreationTypes DEF TypeInv
  <2> QED
    BY <1>1, <2>1 DEF SendCreation, Data, PendingMatchCreation
<1>3. KeepsCreations
  BY <1>2, CreationsMoved
<1>4. KeepsSessions
  BY SessionsSame DEF SendCreation
<1>5. ASSUME NEW d \in sent' PROVE d \in sent \/ Announces(d)
  <2>1. d \in sent \/ d = CreateMatch(pendingMatchCreations[cursor].serialized)
    BY DEF SendCreation
  <2>2. pendingMatchCreations[cursor].serialized = Data(cursor)
    BY <1>1 DEF GroupInv, Serialized
  <2> QED
    BY <1>1, <2>1, <2>2 DEF CreateMatch, Announces, IsCreate
<1>6. lastMatchID' \in Nat /\ lastMatchID <= lastMatchID'
  BY Indices DEF TypeInv, SendCreation
<1> QED
  BY <1>3, <1>4, <1>5, <1>6, GroupStep

\* A creation with a fresh id, at the end or in the place of one.
LEMMA FreshGroup ==
  ASSUME TypeInv, IdInv, GroupInv, NEW i, NEW c,
         \A k \in DOMAIN pendingMatchCreations' :
           IF k = i THEN pendingMatchCreations'[k] = c
                    ELSE /\ k \in DOMAIN pendingMatchCreations
                         /\ pendingMatchCreations'[k] = pendingMatchCreations[k],
         c.serialized = c.matchData, c.matchData.matchID = lastMatchID',
         lastMatchID' = lastMatchID + 1, UNCHANGED <<pendingSessions, sent>>
  PROVE  GroupInv'
<1>1. lastMatchID \in Nat
  BY Indices DEF TypeInv
<1>2. KeepsCreations
  BY <1>1 DEF KeepsCreations, GroupInv, Serialized, Data
<1>3. KeepsSessions
  BY SessionsSame
<1>4. lastMatchID' \in Nat /\ lastMatchID <= lastMatchID'
  BY <1>1
<1> QED
  BY <1>2, <1>3, <1>4, GroupStep

LEMMA GroupsStep ==
  ASSUME TypeInv, IdInv, GroupInv, [Next]_vars
  PROVE  GroupInv'
<1>0. lastMatchID \in Nat
  BY Indices DEF TypeInv
<1>1. ASSUME UNCHANGED <<listVars, sent>> PROVE GroupInv'
  <2>1. KeepsCreations /\ KeepsSessions
    BY <1>1, CreationsSame, SessionsSame DEF listVars
  <2> QED
    BY <1>0, <1>1, <2>1, GroupStep DEF listVars
<1>2. ASSUME NEW c \in Endpoint, AckMatchFound(c) PROVE GroupInv'
  <2>1. KeepsCreations /\ KeepsSessions
    BY <1>2, CreationsSame, AckedSessions DEF AckMatchFound
  <2> QED
    BY <1>0, <1>2, <2>1, GroupStep DEF AckMatchFound
<1>3. ASSUME NEW i \in DOMAIN pendingMatchCreations, NEW id, MatchUnique(i, id)
      PROVE  GroupInv'
  BY <1>3, AcceptedGroup
<1>4. ASSUME NEW i \in DOMAIN pendingMatchCreations, NEW id, MatchUsed(i, id)
      PROVE  GroupInv'
  <2> DEFINE data == [pendingMatchCreations[i].matchData EXCEPT !.matchID = lastMatchID']
             c == [matchData |-> data, serialized |-> data, attempts |-> 0]
  <2>1. c.matchData.matchID = lastMatchID' /\ c.serialized = c.matchData
    BY CreationTypes DEF StartMatchData, TypeInv
  <2>2. pendingMatchCreations' = [pendingMatchCreations EXCEPT ![i] = c]
    BY <1>4 DEF MatchUsed
  <2> HIDE DEF c
  <2>3. \A k \in DOMAIN pendingMatchCreations' :
           IF k = i THEN pendingMatchCreations'[k] = c
                    ELSE /\ k \in DOMAIN pendingMatchCreations
                         /\ pendingMatchCreations'[k] = pendingMatchCreations[k]
    BY <2>2
  <2>4. lastMatchID' = lastMatchID + 1 /\ UNCHANGED <<pendingSessions, sent>>
    BY <1>4 DEF MatchUsed
  <2> QED
    BY <2>1, <2>3, <2>4, FreshGroup
<1>5. ASSUME NEW t \in MatchType, FormMatch(t) PROVE GroupInv'
  <2>1. PICK c \in PendingMatchCreation :
          /\ pendingMatchCreations' = Append(pendingMatchCreations, c)
          /\ c.matchData.matchID = lastMatchID' /\ c.serialized = c.matchData
    BY <1>5, NewMatch DEF TypeInv
  <2>2. PICK n \in Nat : n = Len(pendingMatchCreations)
    BY Indices DEF TypeInv
  <2>3. pendingMatchCreations \in Seq(PendingMatchCreation) /\ DOMAIN pendingMatchCreations = 1..n
    BY <2>2, Indices DEF TypeInv, TypeOK
  <2>4. /\ DOMAIN pendingMatchCreations' = 1..(n + 1)
        /\ \A k \in 1..n : pendingMatchCreations'[k] = pendingMatchCreations[k]
        /\ pendingMatchCreations'[n + 1] = c
    BY <2>1, <2>2, <2>3, AppendProperties, LenProperties
  <2>5. \A k \in DOMAIN pendingMatchCreations' :
           IF k = n + 1 THEN pendingMatchCreations'[k] = c
                        ELSE /\ k \in DOMAIN pendingMatchCreations
                             /\ pendingMatchCreations'[k] = pendingMatchCreations[k]
    BY <2>3, <2>4
  <2>6. lastMatchID' = lastMatchID + 1 /\ UNCHANGED <<pendingSessions, sent>>
    BY <1>5 DEF FormMatch
  <2>7. c.matchData.matchID = lastMatchID' /\ c.serialized = c.matchData
    BY <2>1
  <2> QED
    BY <2>5, <2>6, <2>7, FreshGroup
<1>6. CASE GiveUpCreation
  <2>1. KeepsCreations /\ KeepsSessions
    BY <1>6, CreationsErased, SessionsSame DEF GiveUpCreation, AtCreation
  <2> QED
    BY <1>0, <1>6, <2>1, GroupStep DEF GiveUpCreation
<1>7. ASSUME NEW due, AwaitAcks(due) PROVE GroupInv'
  <2>1. /\ AtSession /\ due \subseteq Waiting(pendingSessions[cursor])
        /\ Resend(pendingSessions[cursor], due)
        /\ UNCHANGED <<lastMatchID, pendingMatchCreations>>
    BY <1>7 DEF AwaitAcks
  <2> QED
    BY <1>0, <2>1, CreationsSame, ResentSessions, ResentTells, GroupStep
<1>8. ASSUME NEW due, NEW last, GiveUpSession(due, last) PROVE GroupInv'
  <2>1. /\ AtSession /\ due \subseteq Waiting(pendingSessions[cursor])
        /\ Resend(pendingSessions[cursor], due)
        /\ UNCHANGED <<lastMatchID, pendingMatchCreations>>
    BY <1>8 DEF GiveUpSession
  <2> QED
    BY <1>0, <2>1, CreationsSame, ResentSessions, ResentTells, GroupStep
<1>9. CASE Requeue \/ StartMatch
  <2>1. /\ cursor \in DOMAIN pendingSessions
        /\ pendingSessions' = RemoveAt(pendingSessions, cursor)
        /\ UNCHANGED <<lastMatchID, pendingMatchCreations, sent>>
    BY <1>9 DEF Requeue, StartMatch, AtSession, Main, TypeInv
  <2>2. KeepsCreations /\ KeepsSessions
    BY <2>1, CreationsSame, SessionsErased
  <2> QED
    BY <1>0, <2>1, <2>2, GroupStep
<1>10. CASE DispatchThread
  BY <1>10, <1>1, <1>2, <1>3, <1>4
     DEF DispatchThread, FindMatch, CancelSearch, BadMatchID, LookInVain
<1>11. CASE MainLoop
  <2>1. CASE Tick \/ (\E t \in MatchType : NoMatch(t)) \/ SkipCreation \/ CreationsDone \/ SessionsDone
    BY <2>1, <1>1 DEF Tick, NoMatch, SkipCreation, CreationsDone, SessionsDone
  <2> QED
    BY <1>11, <2>1, <1>5, <1>6, <1>7, <1>8, <1>9, SentGroup DEF MainLoop
<1>12. CASE Leave \/ UNCHANGED vars
  BY <1>12, <1>1 DEF Leave, vars, listVars
<1> QED
  BY <1>10, <1>11, <1>12 DEF Next, Over

LEMMA GroupInvariance == Spec => []GroupInv
<1>1. Init => GroupInv
  BY DEF Init, GroupInv, Serialized, CreatesAgree, FoundAgree, OneGroupPerMatchID
<1> QED
  BY <1>1, GroupsStep, TypeInvariance, IdInvariance, PTL DEF Spec

\* OneGroupPerMatchID: whatever order creations are renamed, accepted, given up
\* and announced in, all datagrams about one match id are about one group.
THEOREM OneGroup == Spec => []OneGroupPerMatchID
  BY GroupInvariance, PTL DEF GroupInv
=============================================================================

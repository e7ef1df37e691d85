------------------------------ MODULE Accounts ------------------------------
(***************************************************************************)
(* What login and register promise to clients, without sockets, threads or *)
(* hashes.  There is one table of accounts, which nothing that happens to  *)
(* the server takes back.  The commands of a connection are taken in the   *)
(* order in which they were given; each is decided in one step against the *)
(* table and answered at most once.  A connection may be lost with what    *)
(* was asked on it, decided or not, and an answer that is cut off makes    *)
(* those behind it illegible.                                              *)
(***************************************************************************)
EXTENDS Naturals, Sequences

CONSTANTS
  Connection,  \* the connections clients make, one after the other or at once
  Nickname,    \* nicknames, Empty aside
  Password,    \* passwords, Empty aside
  Empty,       \* the empty string
  Offered,     \* what clients may give, commands or not
  None         \* no account, no decision

Unreadable == [command |-> "unreadable"]
Command ==
  [command : {"REGISTER", "LOGIN"},
   nick : Nickname \cup {Empty}, pass : Password \cup {Empty}]
Answer == {"REGISTER_OK", "REGISTER_FAIL", "LOGIN_OK", "LOGIN_FAIL"}

\* fault: the table could not be asked.
Decision == [of : Command, answer : Answer, fault : BOOLEAN]

VARIABLES
  accounts,  \* the password of each nickname, or None
  asked,     \* the commands of each connection that are not decided
  decided,   \* the decision of each connection that it was not told
  told,      \* the decisions each connection was told
  legible    \* whether what is said on each connection can be read

accountVars == <<accounts, asked, decided, told, legible>>

AccountsInit ==
  /\ accounts = [n \in Nickname |-> None]
  /\ asked = [c \in Connection |-> <<>>]
  /\ decided = [c \in Connection |-> None]
  /\ told = [c \in Connection |-> <<>>]
  /\ legible = [c \in Connection |-> TRUE]

Ask(c, m) ==
  /\ asked' = [asked EXCEPT ![c] = Append(@, m)]
  /\ UNCHANGED <<accounts, decided, told, legible>>

\* A command with both fields filled in.
Complete(m) == m.nick \in Nickname /\ m.pass \in Password

\* A free nickname is refused only by a fault, and then the account may have
\* been made all the same.
Register(m, answer, fault) ==
  \/ /\ Complete(m) /\ accounts[m.nick] = None
     /\ answer = IF fault THEN "REGISTER_FAIL" ELSE "REGISTER_OK"
     /\ accounts' = [accounts EXCEPT ![m.nick] = m.pass]
  \/ /\ Complete(m) /\ ~fault => accounts[m.nick] # None
     /\ answer = "REGISTER_FAIL"
     /\ UNCHANGED accounts

Login(m, answer, fault) ==
  /\ answer = IF Complete(m) /\ ~fault /\ accounts[m.nick] = m.pass
              THEN "LOGIN_OK" ELSE "LOGIN_FAIL"
  /\ UNCHANGED accounts

Decide(c, answer, fault) ==
  /\ decided[c] = None /\ asked[c] # <<>>
  /\ LET m == Head(asked[c])
     IN /\ \/ m.command = "REGISTER" /\ Register(m, answer, fault)
           \/ m.command = "LOGIN" /\ Login(m, answer, fault)
        /\ decided' = [decided EXCEPT ![c] = [of |-> m, answer |-> answer, fault |-> fault]]
  /\ asked' = [asked EXCEPT ![c] = Tail(@)]
  /\ UNCHANGED <<told, legible>>

\* What is no command is dropped, and nobody is told.
Ignore(c) ==
  /\ decided[c] = None /\ asked[c] # <<>>
  /\ Head(asked[c]) = Unreadable
  /\ asked' = [asked EXCEPT ![c] = Tail(@)]
  /\ UNCHANGED <<accounts, decided, told, legible>>

\* The client misses an answer: none of it is said, or a part, or it comes
\* behind such a part.
Miss(c) ==
  /\ decided[c] # None
  /\ decided' = [decided EXCEPT ![c] = None]
  /\ \E after \in BOOLEAN : legible' = [legible EXCEPT ![c] = after]
  /\ UNCHANGED <<accounts, asked, told>>

Tell(c) ==
  /\ decided[c] # None /\ legible[c]
  /\ told' = [told EXCEPT ![c] = Append(@, decided[c])]
  /\ decided' = [decided EXCEPT ![c] = None]
  /\ UNCHANGED <<accounts, asked, legible>>

\* The connection breaks and takes with it what was asked last on it.
Lose(c) ==
  /\ \E n \in 0..Len(asked[c]) : asked' = [asked EXCEPT ![c] = SubSeq(@, 1, n)]
  /\ UNCHANGED <<accounts, decided, told, legible>>

\* The server starts again: all connections are gone.
Restart ==
  /\ asked' = [c \in Connection |-> <<>>]
  /\ decided' = [c \in Connection |-> None]
  /\ UNCHANGED <<accounts, told, legible>>

AccountsNext ==
  \/ \E c \in Connection, m \in Offered : Ask(c, m)
  \/ \E c \in Connection, answer \in Answer, fault \in BOOLEAN : Decide(c, answer, fault)
  \/ \E c \in Connection : Ignore(c) \/ Miss(c) \/ Tell(c) \/ Lose(c)
  \/ Restart

AccountsSpec == AccountsInit /\ [][AccountsNext]_accountVars
=============================================================================

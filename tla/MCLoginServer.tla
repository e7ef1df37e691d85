--------------------------- MODULE MCLoginServer ---------------------------
(***************************************************************************)
(* Instances of LoginServer for TLC.                                       *)
(***************************************************************************)
EXTENDS LoginServer, TLC

CONSTANTS nick, pass, other

Register(p) == [command |-> "REGISTER", nick |-> nick, pass |-> p]
Login == [command |-> "LOGIN", nick |-> nick, pass |-> pass]

\* Two passwords for one nickname.
Commands == {Register(pass), Register(other), Login}

\* Among others an empty field and a packet that is no command.
OddCommands == {Login, Register(Empty), Unreadable}

Symmetry == Permutations(Connection)
=============================================================================

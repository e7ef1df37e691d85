--------------------------- MODULE MCMatchmaking ---------------------------
(***************************************************************************)
(* Instances of Matchmaking for TLC, and what a comment says of the server *)
(* and the code does not keep.                                             *)
(***************************************************************************)
EXTENDS Matchmaking

Clients == Permutations(Endpoint)

\* The comment on ProcessMatchSessionsACKS: it is "resending the matchfound",
\* so a client reads every datagram about its match as a MATCH_FOUND.
ResendsMatchFound ==
  \A d \in sent : d.packet \in {"CREATE_MATCH", "MATCH_FOUND"}
=============================================================================

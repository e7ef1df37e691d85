------------------------- MODULE MCMatchmakingSystem -------------------------
(* An instance of MatchmakingSystem for TLC. *)
EXTENDS MatchmakingSystem

Players2 == Permutations(Endpoint)
=============================================================================

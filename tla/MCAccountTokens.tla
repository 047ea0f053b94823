--------------------------- MODULE MCAccountTokens ---------------------------
(* A small instance of AccountTokens for TLC. *)
EXTENDS AccountTokens

CONSTANTS r1, r2, r3, r4
=============================================================================

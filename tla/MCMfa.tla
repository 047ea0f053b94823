-------------------------------- MODULE MCMfa --------------------------------
(* Small instances of Mfa for TLC. *)
EXTENDS Mfa, TLC

CONSTANTS r1, r2, r3, e1, e2

\* Requests are interchangeable, and so are the rows of the start.
Symmetry == Permutations(Request) \cup Permutations(Earlier)
=============================================================================

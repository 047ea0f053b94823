----------------------------- MODULE MCSessions -----------------------------
(* Small instances of Sessions for TLC. *)
EXTENDS Sessions, TLC

CONSTANTS r1, r2, r3, r4, p1, p2


\* Requests are interchangeable, and so are passwords.
Symmetry == Permutations(Request) \cup Permutations(Password)
=============================================================================

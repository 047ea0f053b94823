------------------------------- MODULE MCLimits -------------------------------
(* Small instances of Limits for TLC. *)
EXTENDS Limits, TLC

CONSTANTS r1, r2, r3, p1, p2

\* Requests are interchangeable, and so are replicas.  That is sound for the
\* liveness property as well: neither it nor the fairness names one of them.
Symmetry == Permutations(Request) \cup Permutations(Replica)
=============================================================================

----------------------------- MODULE MCEmailOutbox -----------------------------
(* Small instances of EmailOutbox for TLC.                                   *)
EXTENDS EmailOutbox

CONSTANTS m1, m2, s1, s2, w1, w2
=============================================================================

-------------------------------- MODULE Lists --------------------------------
(***************************************************************************)
(* Functions and sequences, as @@, SetToSortSeq and SelectSeq have them,   *)
(* which the provers do not know.                                          *)
(***************************************************************************)
EXTENDS Integers, FiniteSets

\* The values of the first function, and of the second where it has none.
Overlay(f, g) == [x \in DOMAIN f \cup DOMAIN g |-> IF x \in DOMAIN f THEN f[x] ELSE g[x]]

\* The numbers of a set in ascending order.
InOrder(S) ==
    [n \in 1 .. Cardinality(S) |-> CHOOSE i \in S : Cardinality({j \in S : j <= i}) = n]

\* The elements of a sequence that are in a set, in their order.
Only(s, S) ==
    LET at == InOrder({k \in DOMAIN s : s[k] \in S})
    IN [n \in DOMAIN at |-> s[at[n]]]
=============================================================================

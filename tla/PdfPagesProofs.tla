--------------------------- MODULE PdfPagesProofs ---------------------------
(***************************************************************************)
(* Proofs about PdfPages, for any documents and however deep their trees   *)
(* are: what the operators on sequences, trees and numberings give; from   *)
(* it that each operation hands back a sound document; and what of a page  *)
(* is shown as it was when objects are renumbered or left out.  Induction  *)
(* is by sets: one of numbers with 0 and every successor has all, and so   *)
(* for sequences.                                                          *)
(***************************************************************************)
EXTENDS PdfPages, FiniteSetTheorems, SequenceTheorems, NaturalsInduction,
        WellFoundedInduction, TLAPS

-----------------------------------------------------------------------------
(* Induction and recursion *)

Less == {pair \in Nat \X Nat : pair[1] < pair[2]}

\* The order of the natural numbers is well-founded.
LEMMA NoDescent == IsWellFoundedOn(Less, Nat)
BY NatLessThanWellFounded DEF OpToRel, Less

\* A set of natural numbers that is not empty has a smallest one.
LEMMA Smallest ==
    ASSUME NEW T, T \subseteq Nat, T # {}
    PROVE  \E n \in T : \A m \in T : n <= m
<1>1. PICK n \in T : \A m \in T : <<m, n>> \notin Less
  BY NoDescent, WFMin
<1>2. ASSUME NEW m \in T PROVE n <= m
  <2>1. <<m, n>> \in Nat \X Nat /\ <<m, n>>[1] = m /\ <<m, n>>[2] = n
    OBVIOUS
  <2>2. ~(m < n)
    BY <1>1, <2>1 DEF Less
  <2>. QED
    BY <2>2
<1>. QED
  BY <1>2

\* Induction: a set with 0 and the successor of each of its numbers has all.
LEMMA NatSetInduction ==
    ASSUME NEW S, 0 \in S, \A n \in Nat : n \in S => n + 1 \in S
    PROVE  \A n \in Nat : n \in S
<1>. DEFINE T == Nat \ S
<1>. SUFFICES ASSUME T # {} PROVE FALSE
  OBVIOUS
<1>1. PICK n \in T : \A m \in T : n <= m
  BY Smallest
<1>2. n # 0 /\ n - 1 \in Nat
  OBVIOUS
<1>3. n - 1 \notin T
  BY <1>1, <1>2
<1>. QED
  BY <1>2, <1>3

\* A finite set of natural numbers has an upper bound.
LEMMA Bounded ==
    ASSUME NEW T, T \subseteq Nat, IsFiniteSet(T)
    PROVE  \E b \in Nat : \A m \in T : m <= b
<1>. DEFINE S == {n \in Nat : \A U \in SUBSET Nat :
                     IsFiniteSet(U) /\ Cardinality(U) = n => \E b \in Nat : \A m \in U : m <= b}
<1>1. 0 \in S
  BY FS_EmptySet
<1>2. ASSUME NEW n \in Nat, n \in S PROVE n + 1 \in S
  <2>. SUFFICES ASSUME NEW U \in SUBSET Nat, IsFiniteSet(U), Cardinality(U) = n + 1
                PROVE  \E b \in Nat : \A m \in U : m <= b
    OBVIOUS
  <2>1. PICK x \in U : TRUE
    <3>1. U # {}
      BY FS_EmptySet, n + 1 # 0
    <3>. QED
      BY <3>1
  <2>2. IsFiniteSet(U \ {x}) /\ Cardinality(U \ {x}) = n
    BY <2>1, FS_RemoveElement, (n + 1) - 1 = n
  <2>3. PICK b \in Nat : \A m \in U \ {x} : m <= b
    BY <1>2, <2>2
  <2>4. \A m \in U : m <= b + x
    BY <2>3
  <2>. QED
    BY <2>4, b + x \in Nat
<1>3. Cardinality(T) \in S
  <2>1. Cardinality(T) \in Nat
    BY FS_CardinalityType
  <2>. HIDE DEF S
  <2>. QED
    BY <1>1, <1>2, <2>1, NatSetInduction
<1>. QED
  BY <1>3

\* A finite set of natural numbers that is not empty has a largest one.
LEMMA Largest ==
    ASSUME NEW T, T \subseteq Nat, IsFiniteSet(T), T # {}
    PROVE  Max(T) \in T /\ \A m \in T : m <= Max(T)
<1>1. PICK b \in Nat : \A m \in T : m <= b
  BY Bounded
<1>. DEFINE B == {c \in Nat : \A m \in T : m <= c}
<1>2. PICK c \in B : \A d \in B : c <= d
  <2>1. b \in B /\ B \subseteq Nat
    BY <1>1
  <2>. HIDE DEF B
  <2>. QED
    BY <2>1, Smallest
<1>3. c \in T
  <2>. SUFFICES ASSUME c \notin T PROVE FALSE
    OBVIOUS
  <2>1. c \in Nat /\ \A m \in T : m \in Nat /\ m <= c /\ m # c
    BY <1>2
  <2>2. PICK k \in T : TRUE
    OBVIOUS
  <2>3. c - 1 \in Nat /\ \A m \in T : m <= c - 1
    BY <2>1, <2>2
  <2>4. c - 1 \in B
    BY <2>3
  <2>. QED
    BY <1>2, <2>4
<1>. QED
  BY <1>2, <1>3 DEF Max

\* What functions iterate, one for each step.
Iterates(f, V, a, G) ==
    /\ f \in [Nat -> V] /\ f[0] = a
    /\ \A n \in Nat : f[n + 1] = G[n][f[n]]

\* There is a function that starts at a value and goes on by a step of its own
\* at each number: what recursive functions of the model denote.
LEMMA IterationBy ==
    ASSUME NEW V, NEW a \in V, NEW G \in [Nat -> [V -> V]]
    PROVE  \E f : Iterates(f, V, a, G)
<1>. DEFINE Good(f, n) == /\ f \in [0 .. n -> V] /\ f[0] = a
                          /\ \A k \in 1 .. n : f[k] = G[k - 1][f[k - 1]]
            S == {n \in Nat : \E f : Good(f, n)}
<1>1. 0 \in S
  <2>1. Good([k \in 0 .. 0 |-> a], 0)
    OBVIOUS
  <2>. QED
    BY <2>1
<1>2. ASSUME NEW n \in Nat, n \in S PROVE n + 1 \in S
  <2>1. PICK f : Good(f, n)
    BY <1>2
  <2>. DEFINE g == [k \in 0 .. n + 1 |-> IF k = n + 1 THEN G[n][f[n]] ELSE f[k]]
  <2>2. Good(g, n + 1)
    BY <2>1
  <2>. HIDE DEF Good, g
  <2>. QED
    BY <2>2
<1>3. \A n \in Nat : n \in S
  <2>. HIDE DEF S
  <2>. QED
    BY <1>1, <1>2, NatSetInduction
<1>4. ASSUME NEW n \in Nat, NEW f, NEW g, Good(f, n), Good(g, n + 1)
      PROVE  f[n] = g[n]
  <2>. DEFINE E == {k \in Nat : k <= n => f[k] = g[k]}
  <2>1. 0 \in E
    BY <1>4
  <2>2. ASSUME NEW k \in Nat, k \in E PROVE k + 1 \in E
    BY <1>4, <2>2
  <2>3. n \in E
    <3>. HIDE DEF E
    <3>. QED
      BY <2>1, <2>2, NatSetInduction
  <2>. QED
    BY <2>3
<1>. DEFINE F(n) == CHOOSE f : Good(f, n)
            h == [n \in Nat |-> F(n)[n]]
<1>5. \A n \in Nat : Good(F(n), n)
  <2>. SUFFICES ASSUME NEW n \in Nat PROVE Good(F(n), n)
    OBVIOUS
  <2>1. \E f : Good(f, n)
    BY <1>3
  <2>. HIDE DEF Good
  <2>. QED
    BY <2>1
<1>6. h \in [Nat -> V] /\ h[0] = a
  <2>. HIDE DEF F
  <2>. QED
    BY <1>5
<1>7. ASSUME NEW n \in Nat PROVE h[n + 1] = G[n][h[n]]
  <2>1. Good(F(n), n) /\ Good(F(n + 1), n + 1)
    <3>. HIDE DEF F, Good
    <3>. QED
      BY <1>5, n + 1 \in Nat
  <2>2. F(n)[n] = F(n + 1)[n]
    <3>. HIDE DEF F, Good
    <3>. QED
      BY <1>4, <2>1
  <2>3. F(n + 1)[n + 1] = G[n][F(n + 1)[n]]
    <3>. HIDE DEF F
    <3>. QED
      BY <2>1
  <2>. HIDE DEF F, Good
  <2>. QED
    BY <2>2, <2>3
<1>8. Iterates(h, V, a, G)
  <2>. HIDE DEF h
  <2>. QED
    BY <1>6, <1>7 DEF Iterates
<1>. QED
  BY <1>8

\* The same with one step for all numbers.
LEMMA Iteration ==
    ASSUME NEW V, NEW a \in V, NEW G \in [V -> V]
    PROVE  \E f \in [Nat -> V] : f[0] = a /\ \A n \in Nat : f[n + 1] = G[f[n]]
<1>. DEFINE H == [n \in Nat |-> G]
<1>1. H \in [Nat -> [V -> V]] /\ \A n \in Nat : H[n] = G
  OBVIOUS
<1>. HIDE DEF H
<1>2. PICK f : Iterates(f, V, a, H)
  BY <1>1, IterationBy
<1>. QED
  BY <1>1, <1>2 DEF Iterates

-----------------------------------------------------------------------------
(* The way up *)

\* A set of objects with the parents of all of them but 0.
Upwards(objects, K) ==
    /\ 0 \notin K
    /\ \A i \in K : objects[i].parent \in K \cup {0}

\* What is some levels above an object, by recursion on the levels.
LEMMA AboveRec ==
    ASSUME NEW objects, NEW K, Upwards(objects, K), NEW i \in K
    PROVE  /\ Above(objects, i, 0) = i
           /\ \A n \in Nat :
                 /\ Above(objects, i, n) \in K \cup {0}
                 /\ Above(objects, i, n + 1) =
                       IF Above(objects, i, n) = 0 THEN 0
                       ELSE objects[Above(objects, i, n)].parent
<1>. DEFINE V == K \cup {0}
            G == [x \in V |-> IF x = 0 THEN 0 ELSE objects[x].parent]
            Rec(f) == f = [n \in Nat |-> IF n = 0 THEN i
                                         ELSE LET below == f[n - 1]
                                              IN IF below = 0 THEN 0 ELSE objects[below].parent]
            up == CHOOSE f : Rec(f)
<1>1. PICK g \in [Nat -> V] : g[0] = i /\ \A n \in Nat : g[n + 1] = G[g[n]]
  <2>1. G \in [V -> V] /\ i \in V
    BY DEF Upwards
  <2>. HIDE DEF G, V
  <2>. QED
    BY <2>1, Iteration
<1>2. Rec(g)
  <2>1. ASSUME NEW n \in Nat, n # 0
        PROVE  g[n] = LET below == g[n - 1] IN IF below = 0 THEN 0 ELSE objects[below].parent
    BY <1>1, <2>1, n - 1 \in Nat, g[n - 1] \in V, g[(n - 1) + 1] = G[g[n - 1]]
  <2>. QED
    BY <1>1, <2>1
<1>3. Rec(up)
  <2>. HIDE DEF Rec
  <2>. QED
    BY <1>2
<1>4. \A n \in Nat : Above(objects, i, n) = up[n]
  BY DEF Above
<1>5. up[0] = i
  BY <1>3
<1>6. \A n \in Nat : up[n + 1] = IF up[n] = 0 THEN 0 ELSE objects[up[n]].parent
  <2>. SUFFICES ASSUME NEW n \in Nat
                PROVE  up[n + 1] = IF up[n] = 0 THEN 0 ELSE objects[up[n]].parent
    OBVIOUS
  <2>. HIDE DEF up
  <2>. QED
    BY <1>3, n + 1 \in Nat, (n + 1) - 1 = n
<1>7. \A n \in Nat : up[n] \in V
  <2>. DEFINE S == {n \in Nat : up[n] \in V}
  <2>1. 0 \in S
    BY <1>5
  <2>2. ASSUME NEW n \in Nat, n \in S PROVE n + 1 \in S
    BY <1>6, <2>2 DEF Upwards
  <2>3. \A n \in Nat : n \in S
    <3>. HIDE DEF S
    <3>. QED
      BY <2>1, <2>2, NatSetInduction
  <2>. QED
    BY <2>3
<1>. HIDE DEF up
<1>. QED
  BY <1>4, <1>5, <1>6, <1>7

-----------------------------------------------------------------------------
(* Ranks *)

\* The members of a set up to one of them.
UpTo(S, key, i) == {j \in S : key[j] <= key[i]}

\* How many those are tells the members apart and orders them by their keys.
Ranked(S, key) ==
    /\ \A i \in S : Cardinality(UpTo(S, key, i)) \in 1 .. Cardinality(S)
    /\ \A i, k \in S :
          key[i] < key[k] => Cardinality(UpTo(S, key, i)) < Cardinality(UpTo(S, key, k))
    /\ \A i, k \in S :
          Cardinality(UpTo(S, key, i)) = Cardinality(UpTo(S, key, k)) => i = k
    /\ \A n \in 1 .. Cardinality(S) : \E i \in S : Cardinality(UpTo(S, key, i)) = n

\* Counting the members up to each numbers a finite set's members from 1 on.
LEMMA Ranks ==
    ASSUME NEW S, IsFiniteSet(S), NEW key \in [S -> Int],
           \A i, j \in S : key[i] = key[j] => i = j
    PROVE  Ranked(S, key)
<1>. DEFINE C(i) == Cardinality(UpTo(S, key, i))
<1>0. Cardinality(S) \in Nat
  BY FS_CardinalityType
<1>1. ASSUME NEW i \in S
      PROVE  IsFiniteSet(UpTo(S, key, i)) /\ C(i) \in Nat /\ C(i) \in 1 .. Cardinality(S)
  <2>1. UpTo(S, key, i) \in SUBSET S /\ i \in UpTo(S, key, i)
    BY DEF UpTo
  <2>2. IsFiniteSet(UpTo(S, key, i)) /\ C(i) <= Cardinality(S)
    BY <2>1, FS_Subset
  <2>3. C(i) \in Nat /\ C(i) # 0
    BY <2>1, <2>2, FS_CardinalityType, FS_EmptySet
  <2>. QED
    BY <1>0, <2>2, <2>3
<1>2. ASSUME NEW i \in S, NEW k \in S, key[i] < key[k] PROVE C(i) < C(k)
  <2>1. UpTo(S, key, i) \in SUBSET (UpTo(S, key, k) \ {k}) /\ k \in UpTo(S, key, k)
    BY <1>2 DEF UpTo
  <2>2. /\ IsFiniteSet(UpTo(S, key, k) \ {k})
        /\ Cardinality(UpTo(S, key, k) \ {k}) = C(k) - 1
    BY <1>1, <2>1, FS_RemoveElement
  <2>3. C(i) <= C(k) - 1
    BY <2>1, <2>2, FS_Subset
  <2>. HIDE DEF C
  <2>. QED
    BY <1>1, <2>3
<1>3. ASSUME NEW i \in S, NEW k \in S, C(i) = C(k) PROVE i = k
  <2>. HIDE DEF C
  <2>1. ~(key[i] < key[k]) /\ ~(key[k] < key[i])
    BY <1>1, <1>2, <1>3
  <2>. QED
    BY <2>1
<1>4. \A n \in 1 .. Cardinality(S) : \E i \in S : C(i) = n
  <2>. DEFINE T == 1 .. Cardinality(S)
              f == [i \in S |-> C(i)]
  <2>1. IsFiniteSet(T) /\ Cardinality(T) = Cardinality(S)
    BY <1>0, FS_Interval
  <2>2. f \in Injection(S, T)
    <3>. HIDE DEF C
    <3>. QED
      BY <1>1, <1>3 DEF Injection, IsInjective
  <2>3. f \in Surjection(S, T)
    <3>. HIDE DEF f, T
    <3>. QED
      BY <2>1, <2>2, FS_Injection
  <2>. HIDE DEF C
  <2>. QED
    BY <2>3 DEF Surjection
<1>. QED
  BY <1>1, <1>2, <1>3, <1>4 DEF Ranked

\* The numbers of a finite set in ascending order are each there once.
LEMMA InOrderFacts ==
    ASSUME NEW S, S \subseteq Nat, IsFiniteSet(S)
    PROVE  /\ Cardinality(S) \in Nat
           /\ InOrder(S) \in [1 .. Cardinality(S) -> S]
           /\ ToSet(InOrder(S)) = S
           /\ IsInjective(InOrder(S))
           /\ \A m, n \in 1 .. Cardinality(S) : m < n => InOrder(S)[m] < InOrder(S)[n]
<1>. DEFINE key == [i \in S |-> i]
            C(i) == Cardinality({j \in S : j <= i})
            N == Cardinality(S)
            at(n) == CHOOSE i \in S : C(i) = n
<1>0. N \in Nat
  BY FS_CardinalityType
<1>1. ASSUME NEW i \in S PROVE UpTo(S, key, i) = {j \in S : j <= i}
  BY DEF UpTo
<1>2. /\ \A i \in S : C(i) \in 1 .. N
      /\ \A i, k \in S : i < k => C(i) < C(k)
      /\ \A i, k \in S : C(i) = C(k) => i = k
      /\ \A n \in 1 .. N : \E i \in S : C(i) = n
  <2>1. key \in [S -> Int] /\ \A i, j \in S : key[i] = key[j] => i = j
    OBVIOUS
  <2>2. Ranked(S, key)
    <3>. HIDE DEF key
    <3>. QED
      BY <2>1, Ranks
  <2>3. \A i \in S : Cardinality(UpTo(S, key, i)) = C(i)
    BY <1>1
  <2>4. \A i \in S : key[i] = i
    OBVIOUS
  <2>5. \A i \in S : C(i) \in 1 .. N
    <3>. HIDE DEF key, C, N
    <3>. QED
      BY <2>2, <2>3 DEF Ranked, N
  <2>6. \A i, k \in S : i < k => C(i) < C(k)
    <3>. HIDE DEF key, C
    <3>. QED
      BY <2>2, <2>3, <2>4 DEF Ranked
  <2>7. \A i, k \in S : C(i) = C(k) => i = k
    <3>. HIDE DEF key, C
    <3>. QED
      BY <2>2, <2>3 DEF Ranked
  <2>8. \A n \in 1 .. N : \E i \in S : C(i) = n
    <3>. HIDE DEF key, C
    <3>. QED
      BY <2>2, <2>3 DEF Ranked
  <2>. HIDE DEF C, N
  <2>. QED
    BY <2>5, <2>6, <2>7, <2>8
<1>3. InOrder(S) = [n \in 1 .. N |-> at(n)]
  BY DEF InOrder
<1>4. ASSUME NEW n \in 1 .. N PROVE at(n) \in S /\ C(at(n)) = n
  <2>1. \E i \in S : C(i) = n
    BY <1>2
  <2>. HIDE DEF C
  <2>. QED
    BY <2>1
<1>. HIDE DEF C, at
<1>5. InOrder(S) \in [1 .. N -> S]
  BY <1>3, <1>4
<1>6. ASSUME NEW m \in 1 .. N, NEW n \in 1 .. N, m < n
      PROVE  InOrder(S)[m] < InOrder(S)[n]
  <2>1. at(m) \in S /\ C(at(m)) = m /\ at(n) \in S /\ C(at(n)) = n
    BY <1>4
  <2>2. m \in Int /\ n \in Int /\ m # n /\ ~(n < m)
    BY <1>6
  <2>3. ASSUME NEW a \in S, NEW b \in S, C(a) = m, C(b) = n PROVE a < b
    <3>1. ~(b < a)
      BY <1>2, <2>2, <2>3
    <3>2. a # b
      BY <2>2, <2>3
    <3>3. a \in Nat /\ b \in Nat
      OBVIOUS
    <3>. QED
      BY <3>1, <3>2, <3>3
  <2>4. at(m) < at(n)
    BY <2>1, <2>3
  <2>. QED
    BY <1>3, <2>4
<1>7. IsInjective(InOrder(S))
  BY <1>3, <1>4 DEF IsInjective
<1>8. ToSet(InOrder(S)) = S
  <2>1. ASSUME NEW i \in S PROVE i \in ToSet(InOrder(S))
    <3>1. C(i) \in 1 .. N /\ at(C(i)) = i
      BY <1>2, <1>4
    <3>. QED
      BY <1>3, <3>1 DEF ToSet
  <2>2. ToSet(InOrder(S)) \subseteq S
    BY <1>5 DEF ToSet
  <2>. QED
    BY <2>1, <2>2
<1>. QED
  BY <1>0, <1>5, <1>6, <1>7, <1>8

\* What is in a sequence and in the set is in what is left of the sequence.
LEMMA OnlyFacts ==
    ASSUME NEW U, NEW s \in Seq(U), NEW S
    PROVE  /\ Only(s, S) \in Seq(U \cap S)
           /\ ToSet(Only(s, S)) = ToSet(s) \cap S
           /\ IsInjective(s) => IsInjective(Only(s, S))
<1>. DEFINE K == {k \in DOMAIN s : s[k] \in S}
            at == InOrder(K)
<1>1. K \subseteq Nat /\ IsFiniteSet(K)
  <2>1. IsFiniteSet(1 .. Len(s)) /\ K \in SUBSET (1 .. Len(s))
    BY FS_Interval
  <2>. QED
    BY <2>1, FS_Subset
<1>. HIDE DEF K
<1>2. /\ Cardinality(K) \in Nat /\ at \in [1 .. Cardinality(K) -> K]
      /\ ToSet(at) = K /\ IsInjective(at)
  BY <1>1, InOrderFacts
<1>3. Only(s, S) = [n \in 1 .. Cardinality(K) |-> s[at[n]]]
  BY <1>2 DEF Only, K
<1>4. \A n \in 1 .. Cardinality(K) : at[n] \in DOMAIN s /\ s[at[n]] \in U \cap S
  BY <1>2 DEF K
<1>. HIDE DEF at
<1>5. Only(s, S) \in Seq(U \cap S)
  BY <1>2, <1>3, <1>4
<1>6. ToSet(Only(s, S)) = ToSet(s) \cap S
  <2>1. ASSUME NEW x \in ToSet(s) \cap S PROVE x \in ToSet(Only(s, S))
    <3>1. PICK k \in K : s[k] = x
      BY DEF ToSet, K
    <3>2. PICK n \in 1 .. Cardinality(K) : at[n] = k
      BY <1>2 DEF ToSet
    <3>. QED
      BY <1>3, <3>1, <3>2 DEF ToSet
  <2>2. ToSet(Only(s, S)) \subseteq ToSet(s) \cap S
    BY <1>3, <1>4 DEF ToSet
  <2>. QED
    BY <2>1, <2>2
<1>7. IsInjective(s) => IsInjective(Only(s, S))
  BY <1>2, <1>3, <1>4 DEF IsInjective
<1>. QED
  BY <1>5, <1>6, <1>7

-----------------------------------------------------------------------------
(* Sequences of sequences *)

\* Concatenation keeps elements, and repeats none when it joins disjoint ones.
LEMMA ConcatFacts ==
    ASSUME NEW S, NEW s \in Seq(S), NEW t \in Seq(S)
    PROVE  /\ s \o t \in Seq(S)
           /\ ToSet(s \o t) = ToSet(s) \cup ToSet(t)
           /\ IsInjective(s) /\ IsInjective(t) /\ ToSet(s) \cap ToSet(t) = {}
                 => IsInjective(s \o t)
<1>1. /\ s \o t \in Seq(S) /\ DOMAIN (s \o t) = 1 .. Len(s) + Len(t)
      /\ \A k \in 1 .. Len(s) : (s \o t)[k] = s[k]
      /\ \A k \in 1 .. Len(t) : (s \o t)[Len(s) + k] = t[k]
      /\ DOMAIN s = 1 .. Len(s) /\ DOMAIN t = 1 .. Len(t)
      /\ Len(s) \in Nat /\ Len(t) \in Nat
  OBVIOUS
<1>2. \A k \in DOMAIN (s \o t) :
         \/ k \in 1 .. Len(s) /\ (s \o t)[k] = s[k]
         \/ k - Len(s) \in 1 .. Len(t) /\ (s \o t)[k] = t[k - Len(s)]
  BY <1>1
<1>3. ToSet(s \o t) = ToSet(s) \cup ToSet(t)
  <2>1. ToSet(s \o t) \subseteq ToSet(s) \cup ToSet(t)
    BY <1>1, <1>2 DEF ToSet
  <2>2. ToSet(s) \subseteq ToSet(s \o t)
    <3>1. \A k \in DOMAIN s : k \in DOMAIN (s \o t)
      BY <1>1
    <3>. QED
      BY <1>1, <3>1 DEF ToSet
  <2>3. ToSet(t) \subseteq ToSet(s \o t)
    <3>1. \A k \in DOMAIN t : Len(s) + k \in DOMAIN (s \o t)
      BY <1>1
    <3>. QED
      BY <1>1, <3>1 DEF ToSet
  <2>. QED
    BY <2>1, <2>2, <2>3
<1>4. ASSUME IsInjective(s), IsInjective(t), ToSet(s) \cap ToSet(t) = {},
             NEW a \in DOMAIN (s \o t), NEW b \in DOMAIN (s \o t),
             (s \o t)[a] = (s \o t)[b]
      PROVE  a = b
  <2>1. \A k \in 1 .. Len(s), m \in 1 .. Len(t) : s[k] # t[m]
    BY <1>1, <1>4 DEF ToSet
  <2>2. \A k, m \in 1 .. Len(s) : s[k] = s[m] => k = m
    BY <1>1, <1>4 DEF IsInjective
  <2>3. \A k, m \in 1 .. Len(t) : t[k] = t[m] => k = m
    BY <1>1, <1>4 DEF IsInjective
  <2>4. a \in Int /\ b \in Int
    BY <1>1
  <2>. QED
    BY <1>1, <1>2, <1>4, <2>1, <2>2, <2>3, <2>4
<1>. QED
  BY <1>1, <1>3, <1>4 DEF IsInjective

\* A sequence with a function applied to its elements.
Mapped(f, s) == [k \in DOMAIN s |-> f[s[k]]]

\* So does applying a function to each element, when it is injective.
LEMMA MappedFacts ==
    ASSUME NEW S, NEW U, NEW s \in Seq(S), NEW f \in [S -> U]
    PROVE  /\ Mapped(f, s) \in Seq(U)
           /\ ToSet(Mapped(f, s)) = {f[x] : x \in ToSet(s)}
           /\ IsInjective(s) /\ IsInjective(f) => IsInjective(Mapped(f, s))
<1>1. DOMAIN s = 1 .. Len(s) /\ Len(s) \in Nat /\ \A k \in DOMAIN s : s[k] \in S
  OBVIOUS
<1>2. Mapped(f, s) \in [1 .. Len(s) -> U]
  BY <1>1 DEF Mapped
<1>3. ASSUME NEW t \in [1 .. Len(s) -> U] PROVE t \in Seq(U)
  BY <1>1
<1>4. Mapped(f, s) \in Seq(U)
  BY <1>2, <1>3
<1>5. ToSet(Mapped(f, s)) = {f[x] : x \in ToSet(s)}
  BY <1>1 DEF ToSet, Mapped
<1>6. IsInjective(s) /\ IsInjective(f) => IsInjective(Mapped(f, s))
  BY <1>1 DEF IsInjective, Mapped
<1>. QED
  BY <1>4, <1>5, <1>6

\* What FlattenSeq has put together after each of the sequences.
LEMMA FlattenRec ==
    ASSUME NEW S, NEW ss \in Seq(Seq(S)), ss # <<>>
    PROVE  \E f \in [1 .. Len(ss) -> Seq(S)] :
              /\ f[1] = ss[1]
              /\ \A i \in 2 .. Len(ss) : f[i] = f[i - 1] \o ss[i]
              /\ FlattenSeq(ss) = f[Len(ss)]
<1>. DEFINE V == Seq(S)
            N == Len(ss)
            G == [n \in Nat |-> [v \in V |-> IF n + 1 \in 1 .. N THEN v \o ss[n + 1] ELSE v]]
<1>0. N \in Nat /\ N >= 1 /\ \A i \in 1 .. N : ss[i] \in Seq(S)
  BY EmptySeq, LenProperties
<1>. HIDE DEF N
<1>1. PICK g : Iterates(g, V, <<>>, G)
  <2>1. <<>> \in V
    OBVIOUS
  <2>2. \A n \in Nat : [v \in V |-> IF n + 1 \in 1 .. N THEN v \o ss[n + 1] ELSE v] \in [V -> V]
    BY <1>0
  <2>3. G \in [Nat -> [V -> V]]
    BY <2>2
  <2>. HIDE DEF G, V
  <2>. QED
    BY <2>1, <2>3, IterationBy
<1>. DEFINE Rec(f) == f = [i \in 1 .. N |-> IF i = 1 THEN ss[i] ELSE f[i - 1] \o ss[i]]
            h == [i \in 1 .. N |-> g[i]]
<1>2. h \in [1 .. N -> Seq(S)]
  BY <1>1 DEF Iterates
<1>3. ASSUME NEW i \in 1 .. N PROVE g[i] = g[i - 1] \o ss[i]
  <2>1. i - 1 \in Nat /\ (i - 1) + 1 = i
    OBVIOUS
  <2>2. g[i] = G[i - 1][g[i - 1]] /\ g[i - 1] \in V
    BY <1>1, <2>1 DEF Iterates
  <2>. QED
    BY <2>1, <2>2
<1>4. h[1] = ss[1]
  <2>1. 1 \in 1 .. N /\ ss[1] \in Seq(S)
    BY <1>0
  <2>0. 1 - 1 = 0
    OBVIOUS
  <2>2. g[1] = g[0] \o ss[1]
    BY <1>3, <2>0, <2>1
  <2>. QED
    BY <1>1, <2>1, <2>2 DEF Iterates
<1>5. \A i \in 2 .. N : h[i] = h[i - 1] \o ss[i]
  <2>. SUFFICES ASSUME NEW i \in 2 .. N PROVE h[i] = h[i - 1] \o ss[i]
    OBVIOUS
  <2>1. i \in 1 .. N /\ i - 1 \in 1 .. N
    BY <1>0
  <2>. QED
    BY <1>3, <2>1
<1>6. Rec(h)
  <2>1. h = [i \in 1 .. N |-> h[i]]
    OBVIOUS
  <2>2. ASSUME NEW i \in 1 .. N PROVE h[i] = IF i = 1 THEN ss[i] ELSE h[i - 1] \o ss[i]
    <3>1. i # 1 => i \in 2 .. N
      BY <1>0
    <3>. HIDE DEF h
    <3>. QED
      BY <1>4, <1>5, <3>1
  <2>. HIDE DEF h
  <2>. QED
    BY <2>1, <2>2
<1>. DEFINE f == CHOOSE e : Rec(e)
<1>7. Rec(f)
  <2>. HIDE DEF Rec, h
  <2>. QED
    BY <1>6
<1>. HIDE DEF f, h
<1>8. ASSUME NEW i \in 1 .. N PROVE f[i] = h[i]
  <2>. DEFINE T == {n \in Nat : n + 1 \in 1 .. N => f[n + 1] = h[n + 1]}
  <2>1. 0 \in T
    BY <1>4, <1>7
  <2>2. ASSUME NEW n \in Nat, n \in T PROVE n + 1 \in T
    <3>. SUFFICES ASSUME (n + 1) + 1 \in 1 .. N PROVE f[(n + 1) + 1] = h[(n + 1) + 1]
      OBVIOUS
    <3>. DEFINE m == (n + 1) + 1
    <3>1. m \in 2 .. N /\ m - 1 = n + 1 /\ n + 1 \in 1 .. N /\ m # 1 /\ m \in 1 .. N
      BY <1>0
    <3>2. f[n + 1] = h[n + 1]
      BY <2>2, <3>1
    <3>. HIDE DEF m
    <3>3. h[m] = h[m - 1] \o ss[m]
      BY <1>5, <3>1
    <3>4. f[m] = f[m - 1] \o ss[m]
      BY <1>7, <3>1
    <3>5. f[m] = h[m]
      BY <3>1, <3>2, <3>3, <3>4
    <3>. QED
      BY <3>5 DEF m
  <2>3. i - 1 \in T
    <3>1. i - 1 \in Nat
      OBVIOUS
    <3>. HIDE DEF T
    <3>. QED
      BY <2>1, <2>2, <3>1, NatSetInduction
  <2>. QED
    BY <2>3
<1>9. f = h
  <2>1. f = [i \in 1 .. N |-> f[i]]
    BY <1>7
  <2>2. h = [i \in 1 .. N |-> h[i]]
    BY <1>2
  <2>. QED
    BY <1>8, <2>1, <2>2
<1>10. FlattenSeq(ss) = f[N]
  BY <1>0 DEF FlattenSeq, N, f
<1>. QED
  BY <1>2, <1>4, <1>5, <1>9, <1>10 DEF N

\* Flattening a sequence of sequences keeps the elements of each, and repeats
\* none when they are disjoint.
LEMMA FlattenFacts ==
    ASSUME NEW S, NEW ss \in Seq(Seq(S))
    PROVE  /\ FlattenSeq(ss) \in Seq(S)
           /\ ToSet(FlattenSeq(ss)) = UNION {ToSet(ss[k]) : k \in DOMAIN ss}
           /\ /\ \A k \in DOMAIN ss : IsInjective(ss[k])
              /\ \A k, m \in DOMAIN ss : k # m => ToSet(ss[k]) \cap ToSet(ss[m]) = {}
              => IsInjective(FlattenSeq(ss))
<1>1. CASE ss = <<>>
  <2>1. FlattenSeq(ss) = <<>> /\ DOMAIN ss = {}
    BY <1>1 DEF FlattenSeq
  <2>2. ToSet(<<>>) = {} /\ IsInjective(<<>>) /\ <<>> \in Seq(S)
    BY DEF ToSet, IsInjective
  <2>. QED
    BY <2>1, <2>2
<1>2. CASE ss # <<>>
  <2>. DEFINE N == Len(ss)
  <2>0. N \in Nat /\ N >= 1 /\ DOMAIN ss = 1 .. N /\ \A k \in 1 .. N : ss[k] \in Seq(S)
    BY <1>2
  <2>. HIDE DEF N
  <2>1. PICK f \in [1 .. N -> Seq(S)] :
           /\ f[1] = ss[1]
           /\ \A i \in 2 .. N : f[i] = f[i - 1] \o ss[i]
           /\ FlattenSeq(ss) = f[N]
    BY <1>2, FlattenRec DEF N
  <2>. DEFINE Apart == /\ \A k \in 1 .. N : IsInjective(ss[k])
                       /\ \A k, m \in 1 .. N : k # m => ToSet(ss[k]) \cap ToSet(ss[m]) = {}
              All(i) == UNION {ToSet(ss[k]) : k \in 1 .. i}
              T == {n \in Nat : n + 1 \in 1 .. N =>
                       ToSet(f[n + 1]) = All(n + 1) /\ (Apart => IsInjective(f[n + 1]))}
  <2>2. 0 \in T
    <3>1. All(1) = ToSet(ss[1])
      BY <2>0
    <3>. QED
      BY <2>0, <2>1, <3>1
  <2>3. ASSUME NEW n \in Nat, n \in T PROVE n + 1 \in T
    <3>. DEFINE m == (n + 1) + 1
    <3>. SUFFICES ASSUME m \in 1 .. N
                  PROVE  ToSet(f[m]) = All(m) /\ (Apart => IsInjective(f[m]))
      <4>1. n + 1 \in Nat
        OBVIOUS
      <4>. HIDE DEF All, Apart
      <4>. QED
        BY <4>1
    <3>0. n + 1 \in 1 .. N /\ m \in 2 .. N /\ m - 1 = n + 1
      BY <2>0
    <3>2. ToSet(f[n + 1]) = All(n + 1) /\ (Apart => IsInjective(f[n + 1]))
      BY <2>3, <3>0
    <3>3. All(m) = All(n + 1) \cup ToSet(ss[m])
      <4>1. 1 .. m = (1 .. n + 1) \cup {m}
        OBVIOUS
      <4>. HIDE DEF m
      <4>. QED
        BY <4>1
    <3>. HIDE DEF m
    <3>1. f[m] = f[n + 1] \o ss[m]
      BY <2>1, <3>0
    <3>4. Apart => All(n + 1) \cap ToSet(ss[m]) = {}
      <4>. SUFFICES ASSUME Apart, NEW k \in 1 .. n + 1 PROVE ToSet(ss[k]) \cap ToSet(ss[m]) = {}
        OBVIOUS
      <4>1. k \in 1 .. N /\ k # m
        BY <2>0, <3>0
      <4>. QED
        BY <4>1
    <3>5. f[n + 1] \in Seq(S) /\ ss[m] \in Seq(S)
      BY <2>0, <2>1, <3>0
    <3>6. Apart => IsInjective(ss[m])
      OBVIOUS
    <3>. HIDE DEF All, Apart
    <3>7. ToSet(f[m]) = All(m)
      BY <3>1, <3>2, <3>3, <3>5, ConcatFacts
    <3>8. Apart => IsInjective(f[m])
      BY <3>1, <3>2, <3>4, <3>5, <3>6, ConcatFacts
    <3>. QED
      BY <3>7, <3>8
  <2>4. N - 1 \in T
    <3>1. N - 1 \in Nat
      BY <2>0
    <3>. HIDE DEF T
    <3>. QED
      BY <2>2, <2>3, <3>1, NatSetInduction
  <2>5. ToSet(f[N]) = All(N) /\ (Apart => IsInjective(f[N]))
    <3>1. (N - 1) + 1 = N /\ N \in 1 .. N
      BY <2>0
    <3>. HIDE DEF All, Apart
    <3>. QED
      BY <2>4, <3>1
  <2>6. f[N] \in Seq(S)
    BY <2>0, <2>1
  <2>. QED
    BY <2>0, <2>1, <2>5, <2>6
<1>. QED
  BY <1>1, <1>2

-----------------------------------------------------------------------------
(* A web of objects: each refers to what it should, and the tree reads the *)
(* same downwards and upwards.  K is the part that is looked at.           *)

In(o, K, kinds) == {i \in K : o[i].kind \in kinds}

Shaped(x, K) ==
    /\ DOMAIN x = DOMAIN Object("page")
    /\ x.kind \in Kinds
    /\ x.parent \in K \cup {0}
    /\ x.kids \in Seq(K) /\ x.contents \in Seq(K) /\ x.annots \in Seq(K)
    /\ IsInjective(x.kids)
    /\ Proper(x.attributes)

Refers(o, K, x) ==
    /\ x.kids # <<>> => x.kind = "pages"
    /\ ToSet(x.kids) \subseteq In(o, K, {"page", "pages"})
    /\ ToSet(x.contents) \subseteq In(o, K, {"content"})
    /\ ToSet(x.annots) \subseteq In(o, K, Annotations)
    /\ x.appearance \in In(o, K, {"form"}) \cup {0}
    /\ \A name \in DOMAIN Named(x.attributes) :
          Named(x.attributes)[name] \in In(o, K, {"state", "form"})

Web(o, K) ==
    /\ K \subseteq Nat \ {0}
    /\ IsFiniteSet(K)
    /\ \A i \in K : Shaped(o[i], K) /\ Refers(o, K, o[i])
    /\ \A i, j \in K : i \in ToSet(o[j].kids) <=> o[i].parent = j

\* The root of the pages, and one catalog.
Rooted(o, root, K) ==
    /\ root \in In(o, K, {"pages"}) /\ o[root].parent = 0
    /\ In(o, K, {"page"}) # {}
    /\ \A p \in In(o, K, {"page"}) : \E n \in 0 .. MaxLevels : Above(o, p, n) = root
    /\ Cardinality(In(o, K, {"catalog"})) = 1

Woven(o, root, K) == Web(o, K) /\ Rooted(o, root, K)

\* In a web the way up does not leave it.
LEMMA WebUpwards ==
    ASSUME NEW o, NEW K, Web(o, K)
    PROVE  Upwards(o, K)
BY DEF Web, Shaped, Upwards

-----------------------------------------------------------------------------
(* The way down *)

\* The pages below an object are a sequence of objects.
LEMMA LeavesFromType ==
    ASSUME NEW o, Web(o, DOMAIN o), NEW i \in DOMAIN o, NEW v \in [DOMAIN o -> Seq(DOMAIN o)]
    PROVE  LeavesFrom(o, i, v) \in Seq(DOMAIN o)
<1>. DEFINE D == DOMAIN o
            ss == [k \in DOMAIN o[i].kids |-> v[o[i].kids[k]]]
<1>1. o[i].kids \in Seq(D)
  BY DEF Web, Shaped
<1>2. ss \in Seq(Seq(D))
  <2>1. ss = Mapped(v, o[i].kids)
    BY DEF Mapped
  <2>. HIDE DEF D
  <2>2. Mapped(v, o[i].kids) \in Seq(Seq(D))
    BY <1>1, MappedFacts DEF D
  <2>. QED
    BY <2>1, <2>2
<1>3. FlattenSeq(ss) \in Seq(D)
  <2>. HIDE DEF ss
  <2>. QED
    BY <1>2, FlattenFacts
<1>4. <<i>> \in Seq(D) /\ <<>> \in Seq(D)
  OBVIOUS
<1>. QED
  BY <1>3, <1>4 DEF LeavesFrom

\* The walk down, by recursion on the levels.
LEMMA LeavesRec ==
    ASSUME NEW o, Web(o, DOMAIN o)
    PROVE  /\ \A n \in Nat : Leaves(o, n) \in [DOMAIN o -> Seq(DOMAIN o)]
           /\ \A i \in DOMAIN o : Leaves(o, 0)[i] = LeavesFrom(o, i, [j \in DOMAIN o |-> <<>>])
           /\ \A n \in Nat, i \in DOMAIN o : Leaves(o, n + 1)[i] = LeavesFrom(o, i, Leaves(o, n))
<1>. DEFINE D == DOMAIN o
            V == [D -> Seq(D)]
            none == [i \in DOMAIN o |-> <<>>]
            From(v) == [i \in DOMAIN o |-> LeavesFrom(o, i, v)]
            G == [n \in Nat |-> [v \in V |-> From(v)]]
            Rec(f) == f = [n \in Nat |->
                              LET below == IF n = 0 THEN none ELSE f[n - 1]
                              IN [i \in DOMAIN o |-> LeavesFrom(o, i, below)]]
            down == CHOOSE f : Rec(f)
<1>0. none \in V /\ \A v \in V : From(v) \in V
  <2>1. none \in V
    OBVIOUS
  <2>2. \A v \in V : From(v) \in V
    BY LeavesFromType
  <2>. QED
    BY <2>1, <2>2
<1>. HIDE DEF V
<1>1. PICK g : Iterates(g, V, From(none), G)
  <2>1. From(none) \in V
    BY <1>0
  <2>2. G \in [Nat -> [V -> V]]
    BY <1>0
  <2>. HIDE DEF G, none, From
  <2>. QED
    BY <2>1, <2>2, IterationBy
<1>2. g \in [Nat -> V] /\ g[0] = From(none) /\ \A n \in Nat : g[n + 1] = From(g[n])
  <2>1. \A n \in Nat, v \in V : G[n][v] = From(v)
    OBVIOUS
  <2>. HIDE DEF G, none, From
  <2>. QED
    BY <1>1, <2>1 DEF Iterates
<1>3. \A n \in Nat : Leaves(o, n) = down[n]
  BY DEF Leaves
<1>4. Rec(g)
  <2>1. g = [n \in Nat |-> g[n]]
    BY <1>2
  <2>2. ASSUME NEW n \in Nat PROVE g[n] = From(IF n = 0 THEN none ELSE g[n - 1])
    <3>1. n # 0 => n - 1 \in Nat /\ (n - 1) + 1 = n
      OBVIOUS
    <3>. HIDE DEF none, From
    <3>. QED
      BY <1>2, <3>1
  <2>. QED
    BY <2>1, <2>2
<1>5. Rec(down)
  <2>. HIDE DEF Rec
  <2>. QED
    BY <1>4
<1>6. ASSUME NEW n \in Nat PROVE down[n] = From(IF n = 0 THEN none ELSE down[n - 1])
  <2>. HIDE DEF down
  <2>. QED
    BY <1>5
<1>. HIDE DEF down, Rec, none, From
<1>7. down[0] = From(none)
  BY <1>6
<1>8. ASSUME NEW n \in Nat PROVE down[n + 1] = From(down[n])
  <2>1. n + 1 \in Nat /\ n + 1 # 0 /\ (n + 1) - 1 = n
    OBVIOUS
  <2>. QED
    BY <1>6, <2>1
<1>9. \A n \in Nat : down[n] \in V
  <2>. DEFINE S == {n \in Nat : down[n] \in V}
  <2>1. 0 \in S
    BY <1>0, <1>7
  <2>2. ASSUME NEW n \in Nat, n \in S PROVE n + 1 \in S
    BY <1>0, <1>8, <2>2
  <2>3. \A n \in Nat : n \in S
    <3>. HIDE DEF S
    <3>. QED
      BY <2>1, <2>2, NatSetInduction
  <2>. QED
    BY <2>3
<1>10. \A n \in Nat : Leaves(o, n) \in V
  BY <1>3, <1>9
<1>11. Leaves(o, 0) = From(none) /\ \A n \in Nat : Leaves(o, n + 1) = From(Leaves(o, n))
  BY <1>3, <1>7, <1>8
<1>. QED
  BY <1>10, <1>11 DEF V, From, none

\* What is below an object is what is below its kids, each once if no page is
\* below two of them.
LEMMA LeavesFromFacts ==
    ASSUME NEW o, Web(o, DOMAIN o), NEW i \in DOMAIN o, NEW v \in [DOMAIN o -> Seq(DOMAIN o)]
    PROVE  /\ ToSet(LeavesFrom(o, i, v)) =
                 IF o[i].kind = "page" THEN {i} ELSE UNION {ToSet(v[c]) : c \in ToSet(o[i].kids)}
           /\ /\ \A c \in ToSet(o[i].kids) : IsInjective(v[c])
              /\ \A c, e \in ToSet(o[i].kids) : c # e => ToSet(v[c]) \cap ToSet(v[e]) = {}
              => IsInjective(LeavesFrom(o, i, v))
<1>. DEFINE D == DOMAIN o
            kids == o[i].kids
            ss == Mapped(v, kids)
<1>1. kids \in Seq(D) /\ IsInjective(kids) /\ (kids # <<>> => o[i].kind = "pages")
  BY DEF Web, Shaped, Refers
<1>2. ss \in Seq(Seq(D)) /\ ToSet(ss) = {v[c] : c \in ToSet(kids)}
  <2>. HIDE DEF D, kids
  <2>. QED
    BY <1>1, MappedFacts DEF D
<1>3. DOMAIN ss = DOMAIN kids /\ \A k \in DOMAIN kids : ss[k] = v[kids[k]] /\ kids[k] \in ToSet(kids)
  BY <1>1 DEF Mapped, ToSet
<1>4. CASE o[i].kind = "page"
  <2>1. LeavesFrom(o, i, v) = <<i>> /\ ToSet(<<i>>) = {i} /\ IsInjective(<<i>>)
    BY <1>4 DEF LeavesFrom, ToSet, IsInjective
  <2>. QED
    BY <1>4, <2>1
<1>5. CASE o[i].kind = "pages"
  <2>1. LeavesFrom(o, i, v) = FlattenSeq(ss)
    BY <1>5 DEF LeavesFrom, Mapped
  <2>2. /\ ToSet(FlattenSeq(ss)) = UNION {ToSet(ss[k]) : k \in DOMAIN ss}
        /\ /\ \A k \in DOMAIN ss : IsInjective(ss[k])
           /\ \A k, m \in DOMAIN ss : k # m => ToSet(ss[k]) \cap ToSet(ss[m]) = {}
           => IsInjective(FlattenSeq(ss))
    <3>. HIDE DEF ss, D
    <3>. QED
      BY <1>2, FlattenFacts
  <2>3. UNION {ToSet(ss[k]) : k \in DOMAIN ss} = UNION {ToSet(v[c]) : c \in ToSet(kids)}
    <3>. HIDE DEF ss, kids
    <3>. QED
      BY SMTT(60), <1>3 DEF ToSet
  <2>4. ASSUME NEW k \in DOMAIN ss, NEW m \in DOMAIN ss, k # m PROVE kids[k] # kids[m]
    <3>. HIDE DEF ss, kids
    <3>. QED
      BY <1>1, <1>3, <2>4 DEF IsInjective
  <2>5. o[i].kind # "page"
    BY <1>5
  <2>. HIDE DEF ss, kids
  <2>6. /\ \A c \in ToSet(kids) : IsInjective(v[c])
        /\ \A c, e \in ToSet(kids) : c # e => ToSet(v[c]) \cap ToSet(v[e]) = {}
        => /\ \A k \in DOMAIN ss : IsInjective(ss[k])
           /\ \A k, m \in DOMAIN ss : k # m => ToSet(ss[k]) \cap ToSet(ss[m]) = {}
    BY ZenonT(60), <1>3, <2>4
  <2>. QED
    BY <2>1, <2>2, <2>3, <2>5, <2>6 DEF kids
<1>6. CASE o[i].kind \notin {"page", "pages"}
  <2>1. LeavesFrom(o, i, v) = <<>> /\ kids = <<>> /\ ToSet(<<>>) = {} /\ IsInjective(<<>>)
    BY <1>1, <1>6 DEF LeavesFrom, ToSet, IsInjective
  <2>. QED
    BY <1>6, <2>1
<1>. QED
  BY <1>4, <1>5, <1>6

\* The pages that climb to an object in so many steps or fewer.
Below(o, i, n) == {p \in In(o, DOMAIN o, {"page"}) : \E m \in 0 .. n : Above(o, p, m) = i}

\* The pages below an object are those below its kids, one level less.
LEMMA BelowRec ==
    ASSUME NEW o, Web(o, DOMAIN o), NEW i \in DOMAIN o
    PROVE  /\ Below(o, i, 0) = IF o[i].kind = "page" THEN {i} ELSE {}
           /\ \A n \in Nat :
                 Below(o, i, n + 1) =
                    IF o[i].kind = "page" THEN {i}
                    ELSE UNION {Below(o, c, n) : c \in ToSet(o[i].kids)}
<1>. DEFINE D == DOMAIN o
            P == In(o, D, {"page"})
<1>1. /\ D \subseteq Nat \ {0} /\ P \subseteq D /\ o[i].kids \in Seq(D)
      /\ o[i].kids # <<>> => o[i].kind = "pages"
      /\ \A c \in D : c \in ToSet(o[i].kids) <=> o[c].parent = i
  BY DEF Web, Shaped, Refers, In
<1>2. \A p \in P : Above(o, p, 0) = p
  BY <1>1, WebUpwards, AboveRec
<1>3. \A p \in P, n \in Nat :
         /\ Above(o, p, n) \in D \cup {0}
         /\ Above(o, p, n + 1) = IF Above(o, p, n) = 0 THEN 0 ELSE o[Above(o, p, n)].parent
  BY <1>1, WebUpwards, AboveRec
<1>4. Below(o, i, 0) = IF o[i].kind = "page" THEN {i} ELSE {}
  <2>1. \A m \in 0 .. 0 : m = 0
    OBVIOUS
  <2>. QED
    BY <1>2, <2>1 DEF Below, In
<1>5. ToSet(o[i].kids) \subseteq D /\ (ToSet(o[i].kids) # {} => o[i].kind = "pages")
  BY <1>1 DEF ToSet
<1>6. ASSUME NEW n \in Nat
      PROVE  Below(o, i, n + 1) = IF o[i].kind = "page" THEN {i}
                                  ELSE UNION {Below(o, c, n) : c \in ToSet(o[i].kids)}
  <2>1. ASSUME NEW p \in P, NEW m \in 0 .. n + 1, Above(o, p, m) = i, m # 0
        PROVE  \E c \in ToSet(o[i].kids) : p \in Below(o, c, n)
    <3>1. m - 1 \in 0 .. n /\ (m - 1) + 1 = m
      BY <2>1
    <3>. DEFINE c == Above(o, p, m - 1)
    <3>5. m - 1 \in Nat /\ i # 0 /\ i \in D
      BY <1>1, <3>1
    <3>6. c \in D \cup {0} /\ Above(o, p, (m - 1) + 1) = IF c = 0 THEN 0 ELSE o[c].parent
      BY <1>3, <3>5
    <3>. HIDE DEF c
    <3>2. c \in D /\ o[c].parent = i
      BY <2>1, <3>1, <3>5, <3>6
    <3>3. c \in ToSet(o[i].kids)
      BY <1>1, <3>2
    <3>4. p \in Below(o, c, n)
      BY <3>1 DEF Below, c
    <3>. QED
      BY <3>3, <3>4
  <2>2. ASSUME NEW p \in P, NEW c \in ToSet(o[i].kids), p \in Below(o, c, n)
        PROVE  p \in Below(o, i, n + 1)
    <3>1. PICK m \in 0 .. n : Above(o, p, m) = c
      BY <2>2 DEF Below
    <3>2. m \in Nat /\ m + 1 \in 0 .. n + 1 /\ c \in D /\ c # 0 /\ o[c].parent = i
      BY <1>1, <1>5
    <3>3. Above(o, p, m + 1) = i
      BY <1>3, <3>1, <3>2
    <3>. QED
      BY <3>2, <3>3 DEF Below
  <2>3. CASE o[i].kind = "page"
    <3>1. ToSet(o[i].kids) = {}
      BY <1>5, <2>3
    <3>2. Below(o, i, n + 1) \subseteq {i}
      BY <1>2, <2>1, <3>1 DEF Below
    <3>3. i \in P /\ 0 \in 0 .. n + 1
      BY <2>3 DEF In
    <3>4. i \in Below(o, i, n + 1)
      BY <1>2, <3>3 DEF Below
    <3>. QED
      BY <2>3, <3>2, <3>4
  <2>4. CASE o[i].kind # "page"
    <3>1. ASSUME NEW p \in Below(o, i, n + 1)
          PROVE  p \in UNION {Below(o, c, n) : c \in ToSet(o[i].kids)}
      <4>1. PICK m \in 0 .. n + 1 : p \in P /\ Above(o, p, m) = i
        BY DEF Below
      <4>2. m # 0
        BY <1>2, <2>4, <4>1 DEF In
      <4>. QED
        BY <2>1, <4>1, <4>2
    <3>2. \A c \in ToSet(o[i].kids) : Below(o, c, n) \subseteq Below(o, i, n + 1)
      BY <2>2 DEF Below
    <3>. QED
      BY <2>4, <3>1, <3>2
  <2>. QED
    BY <2>3, <2>4
<1>. QED
  BY <1>4, <1>6

\* Walking down finds the pages that climb to where it began.
LEMMA Walk ==
    ASSUME NEW o, Web(o, DOMAIN o)
    PROVE  \A n \in Nat : \A i \in DOMAIN o : ToSet(Leaves(o, n)[i]) = Below(o, i, n)
<1>. DEFINE D == DOMAIN o
            S == {n \in Nat : \A i \in D : ToSet(Leaves(o, n)[i]) = Below(o, i, n)}
            none == [j \in D |-> <<>>]
<1>0. \A i \in D : ToSet(o[i].kids) \subseteq D
  BY DEF Web, Shaped, ToSet
<1>1. 0 \in S
  <2>. SUFFICES ASSUME NEW i \in D PROVE ToSet(Leaves(o, 0)[i]) = Below(o, i, 0)
    OBVIOUS
  <2>1. none \in [D -> Seq(D)] /\ \A c \in D : ToSet(none[c]) = {}
    BY DEF ToSet
  <2>2. Leaves(o, 0)[i] = LeavesFrom(o, i, none)
    BY LeavesRec
  <2>. HIDE DEF none
  <2>3. ToSet(LeavesFrom(o, i, none)) =
           IF o[i].kind = "page" THEN {i} ELSE UNION {ToSet(none[c]) : c \in ToSet(o[i].kids)}
    BY <2>1, LeavesFromFacts
  <2>4. UNION {ToSet(none[c]) : c \in ToSet(o[i].kids)} = {}
    BY <1>0, <2>1
  <2>. QED
    BY <2>2, <2>3, <2>4, BelowRec
<1>2. ASSUME NEW n \in Nat, n \in S PROVE n + 1 \in S
  <2>. SUFFICES ASSUME NEW i \in D PROVE ToSet(Leaves(o, n + 1)[i]) = Below(o, i, n + 1)
    BY n + 1 \in Nat
  <2>1. Leaves(o, n) \in [D -> Seq(D)] /\ Leaves(o, n + 1)[i] = LeavesFrom(o, i, Leaves(o, n))
    BY LeavesRec
  <2>2. ToSet(LeavesFrom(o, i, Leaves(o, n))) =
           IF o[i].kind = "page" THEN {i}
           ELSE UNION {ToSet(Leaves(o, n)[c]) : c \in ToSet(o[i].kids)}
    BY <2>1, LeavesFromFacts
  <2>3. \A c \in ToSet(o[i].kids) : ToSet(Leaves(o, n)[c]) = Below(o, c, n)
    BY <1>0, <1>2
  <2>4. UNION {ToSet(Leaves(o, n)[c]) : c \in ToSet(o[i].kids)}
           = UNION {Below(o, c, n) : c \in ToSet(o[i].kids)}
    BY <2>3
  <2>. QED
    BY <2>1, <2>2, <2>4, BelowRec
<1>3. \A n \in Nat : n \in S
  <2>. HIDE DEF S
  <2>. QED
    BY <1>1, <1>2, NatSetInduction
<1>. QED
  BY <1>3

\* An object that climbs out of the tree does not meet another twice.
LEMMA NoCycle ==
    ASSUME NEW o, NEW K, Upwards(o, K), NEW i \in K, NEW x \in Nat, NEW y \in Nat, x < y,
           Above(o, i, x) = Above(o, i, y), Above(o, i, x) # 0,
           NEW z \in Nat, Above(o, i, z) = 0
    PROVE  FALSE
<1>. DEFINE up(n) == Above(o, i, n)
            S == {k \in Nat : up(x + k) = up(y + k)}
            Z == {n \in Nat : up(n) = 0}
<1>1. \A n \in Nat : up(n + 1) = IF up(n) = 0 THEN 0 ELSE o[up(n)].parent
  BY AboveRec
<1>. HIDE DEF up
<1>2. up(x) = up(y) /\ up(x) # 0 /\ z \in Z
  BY DEF up
<1>3. \A k \in Nat : k \in S
  <2>1. 0 \in S
    BY <1>2, x + 0 = x, y + 0 = y
  <2>2. ASSUME NEW k \in Nat, k \in S PROVE k + 1 \in S
    <3>1. x + k \in Nat /\ y + k \in Nat /\ x + (k + 1) = (x + k) + 1 /\ y + (k + 1) = (y + k) + 1
      OBVIOUS
    <3>. QED
      BY <1>1, <2>2, <3>1
  <2>. HIDE DEF S
  <2>. QED
    BY <2>1, <2>2, NatSetInduction
<1>4. PICK first \in Z : \A n \in Z : first <= n
  <2>. HIDE DEF Z
  <2>. QED
    BY <1>2, Smallest DEF Z
<1>5. first \in Nat /\ up(first) = 0
  BY <1>4
<1>6. y < first
  <2>. SUFFICES ASSUME first <= y PROVE FALSE
    BY <1>5
  <2>. DEFINE T == {k \in Nat : up(first + k) = 0}
  <2>1. 0 \in T
    BY <1>5, first + 0 = first
  <2>2. ASSUME NEW k \in Nat, k \in T PROVE k + 1 \in T
    <3>1. first + k \in Nat /\ first + (k + 1) = (first + k) + 1
      BY <1>5
    <3>. QED
      BY <1>1, <2>2, <3>1
  <2>3. \A k \in Nat : k \in T
    <3>. HIDE DEF T
    <3>. QED
      BY <2>1, <2>2, NatSetInduction
  <2>4. y - first \in Nat /\ first + (y - first) = y
    BY <1>5
  <2>5. up(y) = 0
    BY <2>3, <2>4
  <2>. QED
    BY <1>2, <2>5
<1>7. first - y \in Nat /\ y + (first - y) = first /\ x + (first - y) \in Nat
      /\ x + (first - y) < first
  BY <1>5, <1>6
<1>8. up(x + (first - y)) = 0
  BY <1>3, <1>5, <1>7
<1>9. x + (first - y) \in Z
  BY <1>7, <1>8
<1>. HIDE DEF Z
<1>. QED
  BY <1>4, <1>5, <1>7, <1>9

\* Every page climbs out of the tree.
Ends(o) == \A p \in In(o, DOMAIN o, {"page"}) : \E z \in Nat : Above(o, p, z) = 0

\* No page is below two kids of one object.
LEMMA BelowApart ==
    ASSUME NEW o, Web(o, DOMAIN o), Ends(o), NEW n \in Nat, NEW i \in DOMAIN o,
           NEW c \in ToSet(o[i].kids), NEW e \in ToSet(o[i].kids), c # e
    PROVE  Below(o, c, n) \cap Below(o, e, n) = {}
<1>. DEFINE D == DOMAIN o
<1>. SUFFICES ASSUME NEW p \in Below(o, c, n), p \in Below(o, e, n) PROVE FALSE
  OBVIOUS
<1>1. PICK x \in 0 .. n : Above(o, p, x) = c
  BY DEF Below
<1>2. PICK y \in 0 .. n : Above(o, p, y) = e
  BY DEF Below
<1>3. p \in D /\ Upwards(o, D) /\ \E z \in Nat : Above(o, p, z) = 0
  BY WebUpwards DEF Below, Ends, In
<1>4. x \in Nat /\ y \in Nat /\ x # y
  BY <1>1, <1>2
<1>8. c \in D /\ e \in D
  <2>1. o[i].kids \in Seq(D)
    BY DEF Web, Shaped
  <2>. QED
    BY <2>1 DEF ToSet
<1>5. /\ c \in D /\ c # 0 /\ o[c].parent = i
      /\ e \in D /\ e # 0 /\ o[e].parent = i
      /\ i # 0
  BY <1>8 DEF Web
<1>6. Above(o, p, x + 1) = i /\ Above(o, p, y + 1) = i
  BY <1>1, <1>2, <1>3, <1>4, <1>5, AboveRec
<1>7. x + 1 \in Nat /\ y + 1 \in Nat /\ (x + 1 < y + 1 \/ y + 1 < x + 1)
  BY <1>4
<1>. QED
  BY <1>3, <1>5, <1>6, <1>7, NoCycle

\* The walk down meets no page twice.
LEMMA EachOnce ==
    ASSUME NEW o, Web(o, DOMAIN o), Ends(o)
    PROVE  \A n \in Nat : \A i \in DOMAIN o : IsInjective(Leaves(o, n)[i])
<1>. DEFINE D == DOMAIN o
            S == {n \in Nat : \A i \in D : IsInjective(Leaves(o, n)[i])}
            none == [j \in D |-> <<>>]
<1>0. \A i \in D : ToSet(o[i].kids) \subseteq D
  BY DEF Web, Shaped, ToSet
<1>1. 0 \in S
  <2>. SUFFICES ASSUME NEW i \in D PROVE IsInjective(Leaves(o, 0)[i])
    OBVIOUS
  <2>1. none \in [D -> Seq(D)] /\ \A c \in D : ToSet(none[c]) = {} /\ IsInjective(none[c])
    BY DEF ToSet, IsInjective
  <2>2. Leaves(o, 0)[i] = LeavesFrom(o, i, none)
    BY LeavesRec
  <2>. HIDE DEF none
  <2>3. /\ \A c \in ToSet(o[i].kids) : IsInjective(none[c])
        /\ \A c, e \in ToSet(o[i].kids) : c # e => ToSet(none[c]) \cap ToSet(none[e]) = {}
    BY <1>0, <2>1
  <2>4. IsInjective(LeavesFrom(o, i, none))
    BY <2>1, <2>3, LeavesFromFacts
  <2>. QED
    BY <2>2, <2>4
<1>2. ASSUME NEW n \in Nat, n \in S PROVE n + 1 \in S
  <2>. SUFFICES ASSUME NEW i \in D PROVE IsInjective(Leaves(o, n + 1)[i])
    BY n + 1 \in Nat
  <2>1. Leaves(o, n) \in [D -> Seq(D)] /\ Leaves(o, n + 1)[i] = LeavesFrom(o, i, Leaves(o, n))
    BY LeavesRec
  <2>2. \A c \in ToSet(o[i].kids) : IsInjective(Leaves(o, n)[c])
    BY <1>0, <1>2
  <2>3. \A c, e \in ToSet(o[i].kids) :
           c # e => ToSet(Leaves(o, n)[c]) \cap ToSet(Leaves(o, n)[e]) = {}
    BY <1>0, Walk, BelowApart
  <2>4. IsInjective(LeavesFrom(o, i, Leaves(o, n)))
    BY <2>1, <2>2, <2>3, LeavesFromFacts
  <2>. QED
    BY <2>1, <2>4
<1>3. \A n \in Nat : n \in S
  <2>. HIDE DEF S
  <2>. QED
    BY <1>1, <1>2, NatSetInduction
<1>. QED
  BY <1>3

-----------------------------------------------------------------------------
(* What is sound is woven, and what is woven is sound *)

\* In a woven document get_pages gives each page once.
THEOREM WovenPages ==
    ASSUME NEW d, Woven(d.objects, d.root, DOMAIN d.objects)
    PROVE  /\ PageIds(d) \in Seq(DOMAIN d.objects)
           /\ IsInjective(PageIds(d))
           /\ ToSet(PageIds(d)) = OfKind(d.objects, "page")
<1>. DEFINE o == d.objects
            D == DOMAIN o
<1>1. MaxLevels \in Nat
  BY LevelsAssumption
<1>2. Web(o, D) /\ Rooted(o, d.root, D) /\ d.root \in D
  BY DEF Woven, Rooted, In
<1>3. Ends(o)
  <2>. SUFFICES ASSUME NEW p \in In(o, D, {"page"}) PROVE \E z \in Nat : Above(o, p, z) = 0
    BY DEF Ends
  <2>1. PICK n \in 0 .. MaxLevels : Above(o, p, n) = d.root
    BY <1>2 DEF Rooted
  <2>2. n \in Nat /\ n + 1 \in Nat
    BY <1>1
  <2>3. Above(o, p, n + 1) = IF d.root = 0 THEN 0 ELSE o[d.root].parent
    BY <1>2, <2>1, <2>2, WebUpwards, AboveRec DEF In
  <2>4. Above(o, p, n + 1) = 0
    BY <1>2, <2>3 DEF Rooted
  <2>. QED
    BY <2>2, <2>4
<1>4. PageIds(d) \in Seq(D) /\ IsInjective(PageIds(d)) /\ ToSet(PageIds(d)) = Below(o, d.root, MaxLevels)
  BY <1>1, <1>2, <1>3, LeavesRec, EachOnce, Walk DEF PageIds
<1>5. Below(o, d.root, MaxLevels) = OfKind(o, "page")
  BY <1>2 DEF Below, Rooted, In, OfKind
<1>. QED
  BY <1>4, <1>5

\* Sound's Linked is Refers for a whole document.
LEMMA LinkedRefers ==
    ASSUME NEW o, NEW i \in DOMAIN o
    PROVE  Linked(o, i) <=> Refers(o, DOMAIN o, o[i])
<1>1. \A kinds : UNION {OfKind(o, kind) : kind \in kinds} = In(o, DOMAIN o, kinds)
  BY DEF OfKind, In
<1>. QED
  BY <1>1 DEF Linked, Refers

\* A sound document is a web.
LEMMA SoundWeb ==
    ASSUME NEW d, Typed(d), Sound(d)
    PROVE  Web(d.objects, DOMAIN d.objects)
<1>. DEFINE o == d.objects
            D == DOMAIN o
<1>1. D \subseteq Nat \ {0} /\ IsFiniteSet(D)
  BY DEF Typed, Sound
<1>2. ASSUME NEW i \in D PROVE Shaped(o[i], D)
  <2>1. IsInjective(o[i].kids)
    BY DEF Sound
  <2>2. /\ DOMAIN o[i] = DOMAIN Object("page")
        /\ o[i].kind \in Kinds
        /\ o[i].parent \in D \cup {0}
        /\ {o[i].kids, o[i].contents, o[i].annots} \subseteq Seq(D)
        /\ Proper(o[i].attributes)
    BY DEF Typed
  <2>. QED
    BY <2>1, <2>2 DEF Shaped
<1>3. \A i \in D : Refers(o, D, o[i])
  BY LinkedRefers DEF Sound
<1>4. \A i, j \in D : i \in ToSet(o[j].kids) <=> o[i].parent = j
  BY DEF Sound
<1>. QED
  BY <1>1, <1>2, <1>3, <1>4 DEF Web

\* It is woven: from each page its tree's root is met on the way up.
LEMMA SoundWoven ==
    ASSUME NEW d, Typed(d), Sound(d)
    PROVE  Woven(d.objects, d.root, DOMAIN d.objects)
<1>. DEFINE o == d.objects
            D == DOMAIN o
<1>1. Web(o, D)
  BY SoundWeb
<1>2. \A kind : OfKind(o, kind) = In(o, D, {kind})
  BY DEF OfKind, In
<1>3. d.root \in In(o, D, {"pages"}) /\ o[d.root].parent = 0 /\ d.root \in D
  BY <1>2 DEF Sound, In
<1>4. Cardinality(In(o, D, {"catalog"})) = 1
  BY <1>2 DEF Sound
<1>5. PageIds(d) \in Seq(D) /\ ToSet(PageIds(d)) = Below(o, d.root, MaxLevels)
  BY <1>1, <1>3, LevelsAssumption, LeavesRec, Walk DEF PageIds
<1>6. ToSet(PageIds(d)) = In(o, D, {"page"}) /\ PageIds(d) # <<>>
  BY <1>2 DEF Sound
<1>7. ToSet(PageIds(d)) # {}
  <2>1. 1 \in DOMAIN PageIds(d)
    BY <1>5, <1>6
  <2>. QED
    BY <2>1 DEF ToSet
<1>8. \A p \in In(o, D, {"page"}) : \E n \in 0 .. MaxLevels : Above(o, p, n) = d.root
  BY <1>5, <1>6 DEF Below
<1>. QED
  BY <1>1, <1>3, <1>4, <1>6, <1>7, <1>8 DEF Woven, Rooted

\* And the converse, when the objects are numbered from 1 on: this is how each
\* operation's output is shown to be sound.
LEMMA WovenSound ==
    ASSUME NEW d, d = [objects |-> d.objects, root |-> d.root],
           Woven(d.objects, d.root, DOMAIN d.objects),
           DOMAIN d.objects = 1 .. Cardinality(DOMAIN d.objects)
    PROVE  Typed(d) /\ Sound(d)
<1>. DEFINE o == d.objects
            D == DOMAIN o
<1>1. Web(o, D) /\ Rooted(o, d.root, D)
  BY DEF Woven
<1>2. \A kind : OfKind(o, kind) = In(o, D, {kind})
  BY DEF OfKind, In
<1>3. d.root \in In(o, D, {"pages"}) /\ d.root \in D /\ o[d.root].parent = 0
  BY <1>1 DEF Rooted, In
<1>4. D \subseteq Nat \ {0} /\ IsFiniteSet(D)
  BY <1>1 DEF Web
<1>5. ASSUME NEW i \in D
      PROVE  /\ DOMAIN o[i] = DOMAIN Object("page")
             /\ o[i].kind \in Kinds
             /\ o[i].parent \in D \cup {0}
             /\ {o[i].kids, o[i].contents, o[i].annots} \subseteq Seq(D)
             /\ Proper(o[i].attributes)
  <2>1. Shaped(o[i], D)
    BY <1>1 DEF Web
  <2>. QED
    BY <2>1 DEF Shaped
<1>6. Typed(d)
  BY <1>3, <1>4, <1>5 DEF Typed
<1>7. \A i \in D : IsInjective(o[i].kids) /\ Linked(o, i)
  BY <1>1, LinkedRefers DEF Web, Shaped
<1>8. \A i, j \in D : i \in ToSet(o[j].kids) <=> o[i].parent = j
  BY <1>1 DEF Web
<1>9. IsInjective(PageIds(d)) /\ ToSet(PageIds(d)) = OfKind(o, "page")
  BY WovenPages
<1>10. PageIds(d) # <<>>
  <2>1. OfKind(o, "page") # {}
    BY <1>1, <1>2 DEF Rooted
  <2>2. ToSet(<<>>) = {}
    BY DEF ToSet
  <2>. QED
    BY <1>9, <2>1, <2>2
<1>11. Cardinality(OfKind(o, "catalog")) = 1
  BY <1>1, <1>2 DEF Rooted
<1>12. Sound(d)
  BY <1>2, <1>3, <1>4, <1>7, <1>8, <1>9, <1>10, <1>11 DEF Sound
<1>. QED
  BY <1>6, <1>12

-----------------------------------------------------------------------------
(* Changes that leave the tree as it is *)

\* What is above an object depends on parents only.
LEMMA SameAbove ==
    ASSUME NEW o, NEW K, Upwards(o, K), NEW o2, \A i \in K : o2[i].parent = o[i].parent
    PROVE  \A i \in K, n \in Nat : Above(o2, i, n) = Above(o, i, n)
<1>. SUFFICES ASSUME NEW i \in K, NEW n \in Nat PROVE Above(o2, i, n) = Above(o, i, n)
  OBVIOUS
<1>0. Upwards(o2, K)
  BY DEF Upwards
<1>. DEFINE S == {m \in Nat : Above(o2, i, m) = Above(o, i, m)}
<1>1. 0 \in S
  BY <1>0, AboveRec
<1>2. ASSUME NEW m \in Nat, m \in S PROVE m + 1 \in S
  <2>1. /\ Above(o, i, m) \in K \cup {0}
        /\ Above(o, i, m + 1) = IF Above(o, i, m) = 0 THEN 0 ELSE o[Above(o, i, m)].parent
    BY AboveRec
  <2>2. Above(o2, i, m + 1) = IF Above(o2, i, m) = 0 THEN 0 ELSE o2[Above(o2, i, m)].parent
    BY <1>0, AboveRec
  <2>. QED
    BY <1>2, <2>1, <2>2
<1>3. n \in S
  <2>. HIDE DEF S
  <2>. QED
    BY <1>1, <1>2, NatSetInduction
<1>. QED
  BY <1>3

\* More objects, and those there were of the same kinds.
Within(o, K, o2, K2) == K \subseteq K2 /\ \A i \in K : o2[i].kind = o[i].kind

\* What fits among some objects fits among more of the same kinds.
LEMMA Wider ==
    ASSUME NEW o, NEW K, NEW o2, NEW K2, Within(o, K, o2, K2),
           NEW x, Shaped(x, K), Refers(o, K, x)
    PROVE  Shaped(x, K2) /\ Refers(o2, K2, x)
<1>1. \A kinds : In(o, K, kinds) \subseteq In(o2, K2, kinds)
  BY DEF Within, In
<1>2. Seq(K) \subseteq Seq(K2)
  BY DEF Within
<1>3. Shaped(x, K2)
  BY <1>2 DEF Shaped, Within
<1>4. Refers(o2, K2, x)
  BY <1>1 DEF Refers
<1>. QED
  BY <1>3, <1>4

\* An object that has the same place in the tree.
Stays(x, y) == x.kind = y.kind /\ x.parent = y.parent /\ x.kids = y.kids

\* New objects outside the tree leave it woven.
LEMMA Extended ==
    ASSUME NEW o, NEW root, NEW K, Woven(o, root, K),
           NEW o2, NEW K2, K2 \subseteq Nat \ {0}, IsFiniteSet(K2), K \subseteq K2,
           \A i \in K : Stays(o2[i], o[i]),
           \A i \in K2 \ K : /\ o2[i].kind \in {"content", "state"}
                             /\ o2[i].parent = 0 /\ o2[i].kids = <<>>,
           \A i \in K2 : Shaped(o2[i], K2) /\ Refers(o2, K2, o2[i])
    PROVE  Woven(o2, root, K2)
<1>1. Web(o, K) /\ Rooted(o, root, K) /\ Upwards(o, K)
  BY WebUpwards DEF Woven
<1>2. ASSUME NEW i \in K2, NEW j \in K2 PROVE i \in ToSet(o2[j].kids) <=> o2[i].parent = j
  <2>1. CASE i \in K /\ j \in K
    BY <1>1, <2>1 DEF Web, Stays
  <2>2. CASE i \in K /\ j \notin K
    <3>1. ToSet(o2[j].kids) = {}
      BY <2>2 DEF ToSet
    <3>2. o2[i].parent \in K \cup {0} /\ j # 0
      BY <1>1, <2>2 DEF Web, Shaped, Stays
    <3>. QED
      BY <2>2, <3>1, <3>2
  <2>3. CASE i \notin K
    <3>1. o2[i].parent = 0 /\ j # 0 /\ o2[i].kind \notin {"page", "pages"}
      BY <2>3
    <3>2. i \notin ToSet(o2[j].kids)
      <4>1. ToSet(o2[j].kids) \subseteq In(o2, K2, {"page", "pages"})
        BY DEF Refers
      <4>. QED
        BY <3>1, <4>1 DEF In
    <3>. QED
      BY <3>1, <3>2
  <2>. QED
    BY <2>1, <2>2, <2>3
<1>3. Web(o2, K2)
  BY <1>2 DEF Web
<1>4. /\ In(o2, K2, {"pages"}) = In(o, K, {"pages"})
      /\ In(o2, K2, {"page"}) = In(o, K, {"page"})
      /\ In(o2, K2, {"catalog"}) = In(o, K, {"catalog"})
  BY DEF In, Stays
<1>5. \A i \in K, n \in Nat : Above(o2, i, n) = Above(o, i, n)
  BY <1>1, SameAbove DEF Stays
<1>6. Rooted(o2, root, K2)
  <2>1. root \in K /\ o2[root].parent = 0
    BY <1>1 DEF Rooted, In, Stays
  <2>2. ASSUME NEW p \in In(o, K, {"page"}) PROVE \E n \in 0 .. MaxLevels : Above(o2, p, n) = root
    <3>1. PICK n \in 0 .. MaxLevels : Above(o, p, n) = root
      BY <1>1 DEF Rooted
    <3>2. n \in Nat /\ p \in K
      BY DEF In
    <3>. QED
      BY <1>5, <3>1, <3>2
  <2>. QED
    BY <1>1, <1>4, <2>1, <2>2 DEF Rooted
<1>. QED
  BY <1>3, <1>6 DEF Woven

-----------------------------------------------------------------------------
(* Attributes *)

\* What an object has or inherits, some object of the document has.
LEMMA InheritedFacts ==
    ASSUME NEW o, NEW K, Upwards(o, K), NEW i \in K, NEW levels \in Nat
    PROVE  LET found == Inherited(o, i, levels)
           IN /\ DOMAIN found \subseteq Attributes
              /\ \A key \in DOMAIN found :
                    \E a \in K : /\ key \in DOMAIN o[a].attributes
                                 /\ found[key] = o[a].attributes[key]
<1>. DEFINE found == Inherited(o, i, levels)
<1>1. DOMAIN found \subseteq Attributes
  BY DEF Inherited
<1>2. ASSUME NEW key \in DOMAIN found
      PROVE  \E a \in K : /\ key \in DOMAIN o[a].attributes
                          /\ found[key] = o[a].attributes[key]
  <2>. DEFINE set == LevelsWith(o, i, key, levels)
              a == Above(o, i, Min(set))
  <2>1. set # {} /\ found[key] = o[a].attributes[key]
    BY DEF Inherited
  <2>2. set \subseteq Nat
    BY DEF LevelsWith
  <2>3. Min(set) \in set
    <3>1. \E n \in set : \A m \in set : n <= m
      BY <2>1, <2>2, Smallest
    <3>. HIDE DEF set
    <3>. QED
      BY <3>1 DEF Min
  <2>4. Min(set) \in Nat /\ a # 0 /\ key \in DOMAIN o[a].attributes
    BY <2>2, <2>3 DEF LevelsWith
  <2>. HIDE DEF set
  <2>5. a \in K
    BY <2>4, AboveRec
  <2>. QED
    BY <2>1, <2>4, <2>5
<1>. QED
  BY <1>1, <1>2

\* It is as proper, and names what is there.
LEMMA InheritedProper ==
    ASSUME NEW o, NEW K, Web(o, K), NEW i \in K, NEW levels \in Nat
    PROVE  LET found == Inherited(o, i, levels)
           IN /\ Proper(found)
              /\ \A name \in DOMAIN Named(found) : Named(found)[name] \in In(o, K, {"state", "form"})
<1>. DEFINE found == Inherited(o, i, levels)
<1>1. /\ DOMAIN found \subseteq Attributes
      /\ \A key \in DOMAIN found : \E a \in K : /\ key \in DOMAIN o[a].attributes
                                               /\ found[key] = o[a].attributes[key]
  BY WebUpwards, InheritedFacts
<1>2. \A a \in K : /\ Proper(o[a].attributes)
                   /\ \A name \in DOMAIN Named(o[a].attributes) :
                         Named(o[a].attributes)[name] \in In(o, K, {"state", "form"})
  BY DEF Web, Shaped, Refers
<1>. HIDE DEF found
<1>3. Proper(found)
  BY <1>1, <1>2 DEF Proper
<1>4. ASSUME NEW name \in DOMAIN Named(found)
      PROVE  Named(found)[name] \in In(o, K, {"state", "form"})
  <2>1. "resources" \in DOMAIN found
    BY DEF Named
  <2>2. PICK a \in K : /\ "resources" \in DOMAIN o[a].attributes
                       /\ found["resources"] = o[a].attributes["resources"]
    BY <1>1, <2>1
  <2>3. Named(found) = Named(o[a].attributes)
    BY <2>1, <2>2 DEF Named
  <2>. QED
    BY <1>2, <2>3
<1>. QED
  BY <1>3, <1>4 DEF found

\* What differs from an object by its attributes alone.
Restyled(y, x) ==
    /\ DOMAIN y = DOMAIN x
    /\ y.kind = x.kind /\ y.parent = x.parent /\ y.kids = x.kids /\ y.contents = x.contents
    /\ y.annots = x.annots /\ y.appearance = x.appearance /\ y.draws = x.draws
    /\ y.label = x.label

\* It fits where that object does if its attributes do.
LEMMA RestyledFits ==
    ASSUME NEW o, NEW K, NEW x, Shaped(x, K), Refers(o, K, x), NEW y, Restyled(y, x),
           Proper(y.attributes),
           \A name \in DOMAIN Named(y.attributes) :
              Named(y.attributes)[name] \in In(o, K, {"state", "form"})
    PROVE  Shaped(y, K) /\ Refers(o, K, y) /\ Stays(y, x)
<1>1. Shaped(y, K)
  BY DEF Restyled, Shaped
<1>2. Refers(o, K, y)
  BY DEF Restyled, Refers
<1>. QED
  BY <1>1, <1>2 DEF Restyled, Stays

\* Setting the attributes sets nothing else.
LEMMA Restyling ==
    ASSUME NEW x, NEW K, Shaped(x, K), NEW attributes
    PROVE  LET y == [x EXCEPT !.attributes = attributes]
           IN Restyled(y, x) /\ y.attributes = attributes
<1>1. DOMAIN x = {"kind", "parent", "kids", "contents", "draws", "annots", "appearance",
                  "label", "attributes"}
  BY DEF Shaped, Object
<1>. QED
  BY <1>1 DEF Restyled

\* A materialized page is what it was but for attributes it inherits.
LEMMA MaterializeFacts ==
    ASSUME NEW o, NEW K, Web(o, K), NEW i \in K
    PROVE  LET x == Materialize(o, i)
           IN /\ Shaped(x, K) /\ Refers(o, K, x) /\ Stays(x, o[i])
              /\ Restyled(x, o[i]) /\ x.attributes = Inherited(o, i, MaxLevels)
<1>. DEFINE found == Inherited(o, i, MaxLevels)
            x == Materialize(o, i)
<1>1. Shaped(o[i], K) /\ Refers(o, K, o[i])
  BY DEF Web
<1>2. Restyled(x, o[i]) /\ x.attributes = found
  <2>. HIDE DEF found
  <2>. QED
    BY <1>1, Restyling DEF Materialize, found
<1>3. /\ Proper(found)
      /\ \A name \in DOMAIN Named(found) : Named(found)[name] \in In(o, K, {"state", "form"})
  BY LevelsAssumption, InheritedProper
<1>. HIDE DEF found, x
<1>4. Shaped(x, K) /\ Refers(o, K, x) /\ Stays(x, o[i])
  BY <1>1, <1>2, <1>3, RestyledFits
<1>. QED
  BY <1>2, <1>4 DEF x, found

\* Overlay has the values of the first function over those of the second.
LEMMA OverlayFacts ==
    ASSUME NEW f, NEW g
    PROVE  /\ DOMAIN Overlay(f, g) = DOMAIN f \cup DOMAIN g
           /\ \A x \in DOMAIN f : Overlay(f, g)[x] = f[x]
           /\ \A x \in DOMAIN g \ DOMAIN f : Overlay(f, g)[x] = g[x]
BY DEF Overlay

\* With an attribute an object differs by that alone.
LEMMA WithAttributeFacts ==
    ASSUME NEW x, NEW K, Shaped(x, K), NEW key, NEW value
    PROVE  LET y == WithAttribute(x, key, value)
           IN /\ Restyled(y, x)
              /\ DOMAIN y.attributes = DOMAIN x.attributes \cup {key}
              /\ y.attributes[key] = value
              /\ \A k \in DOMAIN x.attributes \ {key} : y.attributes[k] = x.attributes[k]
<1>. DEFINE y == WithAttribute(x, key, value)
            one == [k \in {key} |-> value]
            more == Overlay(one, x.attributes)
<1>1. y = [x EXCEPT !.attributes = more]
  BY DEF WithAttribute
<1>2. /\ DOMAIN more = DOMAIN one \cup DOMAIN x.attributes
      /\ \A k \in DOMAIN one : more[k] = one[k]
      /\ \A k \in DOMAIN x.attributes \ DOMAIN one : more[k] = x.attributes[k]
  <2>. HIDE DEF one
  <2>. QED
    BY OverlayFacts
<1>3. DOMAIN one = {key} /\ one[key] = value
  OBVIOUS
<1>. HIDE DEF more, one, y
<1>4. Restyled(y, x) /\ y.attributes = more
  BY <1>1, Restyling
<1>. QED
  BY <1>2, <1>3, <1>4 DEF y

\* A quarter turn or a rectangle fits wherever the object does.
LEMMA WithAttributeFits ==
    ASSUME NEW o, NEW K, NEW x, Shaped(x, K), Refers(o, K, x), NEW key, NEW value,
           \/ key = "rotate" /\ value \in {-90, 0} \cup Angles
           \/ key = "crop" /\ value \in Boxes
    PROVE  LET y == WithAttribute(x, key, value)
           IN Shaped(y, K) /\ Refers(o, K, y) /\ Stays(y, x)
<1>. DEFINE y == WithAttribute(x, key, value)
<1>1. /\ Restyled(y, x)
      /\ DOMAIN y.attributes = DOMAIN x.attributes \cup {key}
      /\ y.attributes[key] = value
      /\ \A k \in DOMAIN x.attributes \ {key} : y.attributes[k] = x.attributes[k]
  BY WithAttributeFacts
<1>. HIDE DEF y
<1>2. Proper(y.attributes)
  <2>1. Proper(x.attributes)
    BY DEF Shaped
  <2>. DEFINE a == x.attributes
              b == y.attributes
  <2>. HIDE DEF a, b
  <2>2. /\ DOMAIN b = DOMAIN a \cup {key} /\ b[key] = value
        /\ \A k \in DOMAIN a \ {key} : b[k] = a[k]
    BY <1>1 DEF a, b
  <2>3. DOMAIN b \subseteq Attributes
    BY <2>1, <2>2 DEF a, Proper, Attributes
  <2>4. "rotate" \in DOMAIN b => b["rotate"] \in {-90, 0} \cup Angles
    <3>1. "rotate" \in DOMAIN a => a["rotate"] \in {-90, 0} \cup Angles
      BY <2>1 DEF a, Proper
    <3>. QED
      BY <2>2, <3>1
  <2>5. "crop" \in DOMAIN b => b["crop"] \in Boxes
    <3>1. "crop" \in DOMAIN a => a["crop"] \in Boxes
      BY <2>1 DEF a, Proper
    <3>. QED
      BY <2>2, <3>1
  <2>. QED
    BY <2>3, <2>4, <2>5 DEF b, Proper
<1>3. Named(y.attributes) = Named(x.attributes)
  BY <1>1 DEF Named
<1>4. \A name \in DOMAIN Named(y.attributes) :
         Named(y.attributes)[name] \in In(o, K, {"state", "form"})
  BY <1>3 DEF Refers
<1>. QED
  BY <1>1, <1>2, <1>4, RestyledFits DEF y

-----------------------------------------------------------------------------
(* Rotate and crop *)

Good(d) == Typed(d) /\ Sound(d)

\* What the operations' proofs use of a good document.
LEMMA GoodFacts ==
    ASSUME NEW d, Good(d)
    PROVE  /\ d = [objects |-> d.objects, root |-> d.root]
           /\ Woven(d.objects, d.root, DOMAIN d.objects)
           /\ Web(d.objects, DOMAIN d.objects)
           /\ Cardinality(DOMAIN d.objects) \in Nat \ {0}
           /\ DOMAIN d.objects = 1 .. Cardinality(DOMAIN d.objects)
<1>1. Woven(d.objects, d.root, DOMAIN d.objects) /\ Web(d.objects, DOMAIN d.objects)
  BY SoundWoven DEF Good, Woven
<1>2. Cardinality(DOMAIN d.objects) \in Nat \ {0}
  <2>1. IsFiniteSet(DOMAIN d.objects) /\ d.root \in DOMAIN d.objects
    BY DEF Good, Sound, Typed
  <2>. QED
    BY <2>1, FS_CardinalityType, FS_EmptySet
<1>. QED
  BY <1>1, <1>2 DEF Good, Typed, Sound

\* Its largest number is how many objects it has.
LEMMA LastNumber ==
    ASSUME NEW d, Good(d)
    PROVE  Max(DOMAIN d.objects) = Cardinality(DOMAIN d.objects)
<1>. DEFINE D == DOMAIN d.objects
            N == Cardinality(D)
<1>1. N \in Nat \ {0} /\ D = 1 .. N /\ IsFiniteSet(D)
  BY GoodFacts DEF Web
<1>. HIDE DEF D, N
<1>2. Max(D) \in D /\ \A m \in D : m <= Max(D)
  <2>1. D \subseteq Nat /\ D # {}
    BY <1>1
  <2>. QED
    BY <1>1, <2>1, Largest
<1>3. Max(D) = N
  BY <1>1, <1>2
<1>. QED
  BY <1>3 DEF D, N

\* Valid ranges select pages.
LEMMA SelectedFacts ==
    ASSUME Woven(doc.objects, doc.root, DOMAIN doc.objects),
           NEW ranges \in SeqOf(Ranges, 2), \A i \in DOMAIN ranges : ValidRange(ranges[i])
    PROVE  SelectedPages(ranges) \subseteq OfKind(doc.objects, "page")
<1>. DEFINE pages == PageIds(doc)
<1>1. pages \in Seq(DOMAIN doc.objects) /\ ToSet(pages) = OfKind(doc.objects, "page")
  BY WovenPages
<1>2. ASSUME NEW i \in DOMAIN ranges, NEW p \in ranges[i].start .. ranges[i].end
      PROVE  p \in DOMAIN pages
  <2>1. ranges[i] \in Ranges
    BY DEF SeqOf
  <2>2. ranges[i].start \in Nat /\ ranges[i].end \in Nat
    BY <2>1, RangesAssumption
  <2>3. ranges[i].start # 0 /\ ranges[i].end <= Len(pages)
    BY DEF ValidRange
  <2>. HIDE DEF pages
  <2>4. Len(pages) \in Nat /\ DOMAIN pages = 1 .. Len(pages)
    BY <1>1
  <2>. QED
    BY <2>2, <2>3, <2>4
<1>3. \A p \in DOMAIN pages : pages[p] \in ToSet(pages)
  BY DEF ToSet
<1>. HIDE DEF pages
<1>. QED
  BY <1>1, <1>2, <1>3 DEF SelectedPages, pages

\* Objects that stay where they are in the tree and fit there.
LEMMA Retouched ==
    ASSUME Good(doc), NEW o2, DOMAIN o2 = DOMAIN doc.objects,
           \A i \in DOMAIN o2 : /\ Stays(o2[i], doc.objects[i])
                                /\ Shaped(o2[i], DOMAIN o2) /\ Refers(doc.objects, DOMAIN o2, o2[i])
    PROVE  Good([objects |-> o2, root |-> doc.root])
<1>. DEFINE o == doc.objects
            D == DOMAIN o
            d == [objects |-> o2, root |-> doc.root]
<1>1. Woven(o, doc.root, D) /\ D = 1 .. Cardinality(D)
  BY GoodFacts
<1>2. D \subseteq Nat \ {0} /\ IsFiniteSet(D)
  BY <1>1 DEF Woven, Web
<1>3. \A x : Refers(o, D, x) => Refers(o2, D, x)
  <2>1. \A kinds : In(o, D, kinds) = In(o2, D, kinds)
    BY DEF In, Stays
  <2>. QED
    BY <2>1 DEF Refers
<1>4. Woven(o2, doc.root, D)
  BY <1>1, <1>2, <1>3, Extended
<1>5. d.objects = o2 /\ d.root = doc.root /\ d = [objects |-> d.objects, root |-> d.root]
  OBVIOUS
<1>. HIDE DEF d
<1>. QED
  BY <1>1, <1>4, <1>5, WovenSound DEF Good, d

\* A page that is rotated fits where it was, by a quarter turn.
LEMMA Rotations ==
    ASSUME NEW o, NEW K, Web(o, K), NEW i \in K, NEW angle \in Angles
    PROVE  LET x == RotatedPage(o, i, angle)
           IN Shaped(x, K) /\ Refers(o, K, x) /\ Stays(x, o[i])
<1>. DEFINE found == Inherited(o, i, MaxLevels - 1)
            turned == (InheritedRotation(o, i) + angle) % 360
<1>1. Shaped(o[i], K) /\ Refers(o, K, o[i])
  BY DEF Web
<1>2. Proper(found)
  BY LevelsAssumption, InheritedProper
<1>. HIDE DEF found
<1>3. InheritedRotation(o, i) \in {-90, 0, 90, 180, 270}
  BY <1>2 DEF InheritedRotation, Angles, Proper, found
<1>4. turned \in {-90, 0} \cup Angles
  BY <1>3 DEF Angles
<1>. HIDE DEF turned
<1>. QED
  BY <1>1, <1>4, WithAttributeFits DEF RotatedPage, turned

\* rotate.rs hands back a good document.
LEMMA RotateGood ==
    ASSUME Good(doc), NEW ranges \in SeqOf(Ranges, 2), NEW angle \in Angles, Rotate(ranges, angle)
    PROVE  Good(doc')
<1>. DEFINE o == doc.objects
            D == DOMAIN o
            selected == SelectedPages(ranges)
            o2 == [i \in D |-> IF i \in selected THEN RotatedPage(o, i, angle) ELSE o[i]]
<1>1. doc = [objects |-> o, root |-> doc.root] /\ Web(o, D)
  BY GoodFacts
<1>2. doc' = [doc EXCEPT !.objects = o2]
  BY DEF Rotate, Answer
<1>3. doc' = [objects |-> o2, root |-> doc.root]
  <2>. HIDE DEF o2, o
  <2>. QED
    BY <1>1, <1>2
<1>4. ASSUME NEW i \in D PROVE Stays(o2[i], o[i]) /\ Shaped(o2[i], D) /\ Refers(o, D, o2[i])
  <2>1. CASE i \in selected
    BY <1>1, <2>1, Rotations
  <2>2. CASE i \notin selected
    BY <1>1, <2>2 DEF Web, Stays
  <2>. QED
    BY <2>1, <2>2
<1>5. DOMAIN o2 = D
  OBVIOUS
<1>. HIDE DEF o2
<1>6. Good([objects |-> o2, root |-> doc.root])
  BY <1>4, <1>5, Retouched
<1>. QED
  BY <1>3, <1>6

\* crop.rs hands back a good document.
LEMMA CropGood ==
    ASSUME Good(doc), NEW ranges \in SeqOf(Ranges, 2), NEW box \in Boxes, Crop(ranges, box)
    PROVE  Good(doc')
<1>. DEFINE o == doc.objects
            D == DOMAIN o
            selected == SelectedPages(ranges)
            page(i) == WithAttribute(Materialize(o, i), "crop", box)
            o2 == [i \in D |-> IF i \in selected THEN page(i) ELSE o[i]]
<1>1. doc = [objects |-> o, root |-> doc.root] /\ Web(o, D)
  BY GoodFacts
<1>2. doc' = [doc EXCEPT !.objects = o2]
  BY DEF Crop, Answer
<1>3. doc' = [objects |-> o2, root |-> doc.root]
  <2>. HIDE DEF o2, o
  <2>. QED
    BY <1>1, <1>2
<1>4. ASSUME NEW i \in D PROVE Stays(page(i), o[i]) /\ Shaped(page(i), D) /\ Refers(o, D, page(i))
  <2>. DEFINE x == Materialize(o, i)
  <2>1. Shaped(x, D) /\ Refers(o, D, x) /\ Stays(x, o[i])
    BY <1>1, MaterializeFacts
  <2>. HIDE DEF x
  <2>2. Shaped(page(i), D) /\ Refers(o, D, page(i)) /\ Stays(page(i), x)
    BY <2>1, WithAttributeFits DEF x
  <2>. QED
    BY <2>1, <2>2 DEF Stays
<1>5. ASSUME NEW i \in D PROVE Stays(o2[i], o[i]) /\ Shaped(o2[i], D) /\ Refers(o, D, o2[i])
  <2>. HIDE DEF page
  <2>1. CASE i \in selected
    BY <1>4, <2>1
  <2>2. CASE i \notin selected
    BY <1>1, <2>2 DEF Web, Stays
  <2>. QED
    BY <2>1, <2>2
<1>6. DOMAIN o2 = D
  OBVIOUS
<1>. HIDE DEF o2
<1>7. Good([objects |-> o2, root |-> doc.root])
  BY <1>5, <1>6, Retouched
<1>. QED
  BY <1>3, <1>7

-----------------------------------------------------------------------------
(* Watermark: new objects, and pages that refer to them *)

\* An object that refers to nothing and is not in the tree.
Plain(x, kind) ==
    /\ DOMAIN x = DOMAIN Object("page")
    /\ x.kind = kind /\ x.parent = 0 /\ x.kids = <<>> /\ x.contents = <<>> /\ x.annots = <<>>
    /\ x.appearance = 0 /\ x.attributes = <<>>

\* New content streams and graphics states are plain.
LEMMA PlainObject ==
    ASSUME NEW kind
    PROVE  /\ Plain(Object(kind), kind)
           /\ \A draws : Plain([Object(kind) EXCEPT !.draws = draws], kind)
           /\ \A label : Plain([Object(kind) EXCEPT !.label = label], kind)
BY DEF Plain, Object

\* Without attributes nothing is named.
LEMMA NoAttributes == Proper(<<>>) /\ DOMAIN Named(<<>>) = {}
<1>1. DOMAIN <<>> = {}
  OBVIOUS
<1>. QED
  BY <1>1 DEF Proper, Named

\* A plain object fits anywhere.
LEMMA PlainFits ==
    ASSUME NEW x, NEW kind \in Kinds, Plain(x, kind), NEW o, NEW K
    PROVE  Shaped(x, K) /\ Refers(o, K, x)
<1>1. ToSet(<<>>) = {} /\ IsInjective(<<>>) /\ <<>> \in Seq(K)
  BY DEF ToSet, IsInjective
<1>2. Shaped(x, K)
  BY <1>1, NoAttributes DEF Plain, Shaped
<1>3. Refers(o, K, x)
  BY <1>1, NoAttributes DEF Plain, Refers
<1>. QED
  BY <1>2, <1>3

\* A page that names more and has one more content stream.
LEMMA PaintedFacts ==
    ASSUME NEW x, NEW K, Shaped(x, K), NEW f, NEW s \in K
    PROVE  LET y == Painted(x, f, s)
           IN /\ DOMAIN y = DOMAIN x
              /\ y.kind = x.kind /\ y.parent = x.parent /\ y.kids = x.kids
              /\ y.annots = x.annots /\ y.appearance = x.appearance
              /\ y.draws = x.draws /\ y.label = x.label
              /\ y.contents = Append(x.contents, s)
              /\ DOMAIN y.attributes = DOMAIN x.attributes \cup {"resources"}
              /\ Named(y.attributes) = Overlay(f, Named(x.attributes))
              /\ \A k \in DOMAIN x.attributes \ {"resources"} : y.attributes[k] = x.attributes[k]
<1>. DEFINE y == Painted(x, f, s)
            names == Overlay(f, Named(x.attributes))
            z == WithAttribute(x, "resources", names)
            c == Append(x.contents, s)
<1>1. y = [z EXCEPT !.contents = Append(z.contents, s)]
  BY DEF Painted
<1>. HIDE DEF names, c, y
<1>2. /\ Restyled(z, x)
      /\ DOMAIN z.attributes = DOMAIN x.attributes \cup {"resources"}
      /\ z.attributes["resources"] = names
      /\ \A k \in DOMAIN x.attributes \ {"resources"} : z.attributes[k] = x.attributes[k]
  BY WithAttributeFacts
<1>. HIDE DEF z
<1>3. DOMAIN z = {"kind", "parent", "kids", "contents", "draws", "annots", "appearance",
                  "label", "attributes"}
  BY <1>2 DEF Shaped, Object, Restyled
<1>4. /\ DOMAIN y = DOMAIN z
      /\ y.kind = z.kind /\ y.parent = z.parent /\ y.kids = z.kids
      /\ y.annots = z.annots /\ y.appearance = z.appearance
      /\ y.draws = z.draws /\ y.label = z.label /\ y.attributes = z.attributes
      /\ y.contents = Append(z.contents, s)
  BY <1>1, <1>3
<1>5. Named(y.attributes) = names
  <2>1. "resources" \in DOMAIN y.attributes /\ y.attributes["resources"] = names
    BY <1>2, <1>4
  <2>. QED
    BY <2>1 DEF Named
<1>. QED
  BY <1>2, <1>4, <1>5 DEF Restyled, names, y

\* It fits where the page does, if what it names and draws is there.
LEMMA PaintedFits ==
    ASSUME NEW o, NEW K, NEW x, Shaped(x, K), Refers(o, K, x),
           NEW f, \A name \in DOMAIN f : f[name] \in In(o, K, {"state", "form"}),
           NEW s \in In(o, K, {"content"}),
           NEW annots \in Seq(K), ToSet(annots) \subseteq In(o, K, Annotations),
           NEW y, \/ y = Painted(x, f, s) /\ annots = x.annots
                  \/ y = [Painted(x, f, s) EXCEPT !.annots = annots]
    PROVE  Shaped(y, K) /\ Refers(o, K, y) /\ Stays(y, x)
<1>. DEFINE r == Overlay(f, Named(x.attributes))
            c == Append(x.contents, s)
            z == Painted(x, f, s)
<1>1. \A name \in DOMAIN r : r[name] \in In(o, K, {"state", "form"})
  <2>1. \A name \in DOMAIN Named(x.attributes) :
           Named(x.attributes)[name] \in In(o, K, {"state", "form"})
    BY DEF Refers
  <2>2. /\ DOMAIN r = DOMAIN f \cup DOMAIN Named(x.attributes)
        /\ \A name \in DOMAIN f : r[name] = f[name]
        /\ \A name \in DOMAIN Named(x.attributes) \ DOMAIN f : r[name] = Named(x.attributes)[name]
    <3>. DEFINE g == Named(x.attributes)
    <3>1. r = Overlay(f, g)
      OBVIOUS
    <3>. HIDE DEF r, g
    <3>2. /\ DOMAIN r = DOMAIN f \cup DOMAIN g
          /\ \A name \in DOMAIN f : r[name] = f[name]
          /\ \A name \in DOMAIN g \ DOMAIN f : r[name] = g[name]
      BY <3>1 DEF Overlay
    <3>. QED
      BY <3>2 DEF g
  <2>. HIDE DEF r
  <2>. QED
    BY <2>1, <2>2
<1>2. c \in Seq(K) /\ ToSet(c) = ToSet(x.contents) \cup {s}
  <2>1. x.contents \in Seq(K) /\ s \in K
    BY DEF Shaped, In
  <2>2. /\ c \in Seq(K) /\ DOMAIN c = DOMAIN x.contents \cup {Len(x.contents) + 1}
        /\ \A k \in DOMAIN x.contents : c[k] = x.contents[k]
        /\ c[Len(x.contents) + 1] = s
    BY <2>1
  <2>. HIDE DEF c
  <2>. QED
    BY <2>2 DEF ToSet
<1>. HIDE DEF r, c
<1>3. /\ DOMAIN z = DOMAIN x
      /\ z.kind = x.kind /\ z.parent = x.parent /\ z.kids = x.kids
      /\ z.annots = x.annots /\ z.appearance = x.appearance /\ z.contents = c
      /\ DOMAIN z.attributes = DOMAIN x.attributes \cup {"resources"}
      /\ Named(z.attributes) = r
      /\ \A k \in DOMAIN x.attributes \ {"resources"} : z.attributes[k] = x.attributes[k]
  <2>1. s \in K
    BY DEF In
  <2>. QED
    BY <2>1, PaintedFacts DEF r, c
<1>4. /\ DOMAIN y = DOMAIN x
      /\ y.kind = x.kind /\ y.parent = x.parent /\ y.kids = x.kids
      /\ y.annots = annots /\ y.appearance = x.appearance /\ y.contents = c
      /\ y.attributes = z.attributes
  <2>. HIDE DEF z
  <2>1. DOMAIN z = {"kind", "parent", "kids", "contents", "draws", "annots", "appearance",
                    "label", "attributes"}
    BY <1>3 DEF Shaped, Object
  <2>2. (y = z /\ annots = x.annots) \/ y = [z EXCEPT !.annots = annots]
    BY DEF z
  <2>. QED
    BY <1>3, <2>1, <2>2
<1>. HIDE DEF z
<1>5. Proper(y.attributes)
  <2>. DEFINE a == x.attributes
              b == y.attributes
  <2>1. Proper(a)
    BY DEF Shaped
  <2>2. /\ DOMAIN b = DOMAIN a \cup {"resources"}
        /\ \A k \in DOMAIN a \ {"resources"} : b[k] = a[k]
    BY <1>3, <1>4
  <2>. HIDE DEF a, b
  <2>3. DOMAIN b \subseteq Attributes
    BY <2>1, <2>2 DEF Proper, Attributes
  <2>4. "rotate" \in DOMAIN b => b["rotate"] \in {-90, 0} \cup Angles
    BY <2>1, <2>2 DEF Proper
  <2>5. "crop" \in DOMAIN b => b["crop"] \in Boxes
    BY <2>1, <2>2 DEF Proper
  <2>. QED
    BY <2>3, <2>4, <2>5 DEF b, Proper
<1>6. Shaped(y, K)
  BY <1>2, <1>4, <1>5 DEF Shaped
<1>7. Refers(o, K, y)
  BY <1>1, <1>2, <1>3, <1>4 DEF Refers
<1>. QED
  BY <1>4, <1>6, <1>7 DEF Stays

\* The new streams have the numbers after the last one, each page its own.
LEMMA StreamFacts ==
    ASSUME Woven(doc.objects, doc.root, DOMAIN doc.objects),
           NEW pages, pages \subseteq OfKind(doc.objects, "page"), NEW after \in Nat,
           NEW draws, DOMAIN draws = pages
    PROVE  /\ Cardinality(pages) \in Nat
           /\ DOMAIN Streams(after, draws) = after + 1 .. after + Cardinality(pages)
           /\ \A i \in pages : StreamOf(after, pages, i) \in DOMAIN Streams(after, draws)
           /\ \A s \in DOMAIN Streams(after, draws) : Plain(Streams(after, draws)[s], "content")
           /\ \A i \in pages : Streams(after, draws)[StreamOf(after, pages, i)].draws = draws[i]
<1>. DEFINE key == [i \in pages |-> PageAt(doc, i)]
            C(i) == Cardinality(UpTo(pages, key, i))
            N == Cardinality(pages)
            ids == PageIds(doc)
<1>1. ids \in Seq(DOMAIN doc.objects) /\ ToSet(ids) = OfKind(doc.objects, "page")
  BY WovenPages
<1>2. ASSUME NEW i \in pages PROVE key[i] \in DOMAIN ids /\ ids[key[i]] = i
  <2>1. \E p \in DOMAIN ids : ids[p] = i
    <3>1. i \in ToSet(ids)
      BY <1>1
    <3>. QED
      BY <3>1 DEF ToSet
  <2>2. key[i] = CHOOSE p \in DOMAIN ids : ids[p] = i
    BY DEF PageAt
  <2>. HIDE DEF ids, key
  <2>. QED
    BY <2>1, <2>2
<1>3. IsFiniteSet(pages)
  <2>1. IsFiniteSet(DOMAIN doc.objects) /\ pages \in SUBSET DOMAIN doc.objects
    BY DEF Woven, Web, OfKind
  <2>. QED
    BY <2>1, FS_Subset
<1>4. N \in Nat
  BY <1>3, FS_CardinalityType
<1>5. Ranked(pages, key)
  <2>1. key = [i \in pages |-> key[i]]
    OBVIOUS
  <2>. HIDE DEF key
  <2>2. DOMAIN ids \subseteq Int
    BY <1>1
  <2>3. key \in [pages -> Int]
    BY <1>2, <2>1, <2>2
  <2>4. \A i, j \in pages : key[i] = key[j] => i = j
    BY <1>2
  <2>. QED
    BY <1>3, <2>3, <2>4, Ranks
<1>6. \A i \in pages : StreamOf(after, pages, i) = after + C(i)
  <2>1. ASSUME NEW i \in pages
        PROVE  {j \in pages : PageAt(doc, j) <= PageAt(doc, i)} = UpTo(pages, key, i)
    BY DEF UpTo
  <2>. QED
    BY <2>1 DEF StreamOf
<1>7. /\ \A i \in pages : C(i) \in 1 .. N
      /\ \A n \in 1 .. N : \E i \in pages : C(i) = n
      /\ \A i, j \in pages : C(i) = C(j) => i = j
  BY <1>5 DEF Ranked
<1>. HIDE DEF C, N
<1>8. {StreamOf(after, pages, i) : i \in pages} = after + 1 .. after + N
  <2>1. ASSUME NEW i \in pages PROVE StreamOf(after, pages, i) \in after + 1 .. after + N
    BY <1>4, <1>6, <1>7
  <2>2. ASSUME NEW s \in after + 1 .. after + N
        PROVE  \E i \in pages : StreamOf(after, pages, i) = s
    <3>1. s - after \in 1 .. N /\ after + (s - after) = s
      BY <1>4
    <3>. QED
      BY <1>6, <1>7, <3>1
  <2>. QED
    BY <2>1, <2>2
<1>9. DOMAIN Streams(after, draws) = {StreamOf(after, pages, i) : i \in pages}
  BY DEF Streams
<1>10. ASSUME NEW s \in DOMAIN Streams(after, draws) PROVE Plain(Streams(after, draws)[s], "content")
  <2>1. \E x : Streams(after, draws)[s] = [Object("content") EXCEPT !.draws = x]
    BY DEF Streams
  <2>. QED
    BY <2>1, PlainObject
<1>11. ASSUME NEW i \in pages
       PROVE  Streams(after, draws)[StreamOf(after, pages, i)].draws = draws[i]
  <2>. DEFINE s == StreamOf(after, pages, i)
  <2>1. \A j \in pages : StreamOf(after, pages, j) = s => j = i
    BY <1>4, <1>6, <1>7
  <2>2. Streams(after, draws)[s]
           = [Object("content") EXCEPT
                 !.draws = draws[CHOOSE j \in pages : StreamOf(after, pages, j) = s]]
    BY DEF Streams
  <2>. HIDE DEF s
  <2>3. (CHOOSE j \in pages : StreamOf(after, pages, j) = s) = i
    BY <2>1 DEF s
  <2>. QED
    BY <2>2, <2>3 DEF Object, s
<1>. QED
  BY <1>4, <1>8, <1>9, <1>10, <1>11 DEF N

Drawing(after, pages, draws) ==
    \A i \in pages : Streams(after, draws)[StreamOf(after, pages, i)].draws = draws[i]

\* The content streams made for some pages are numbered past the document's
\* objects, one for each page, and draw what was asked for that page.
LEMMA StreamDraws ==
    ASSUME Woven(doc.objects, doc.root, DOMAIN doc.objects),
           NEW pages, pages \subseteq OfKind(doc.objects, "page"), NEW after \in Nat,
           NEW draws, DOMAIN draws = pages
    PROVE  Drawing(after, pages, draws)
  BY StreamFacts DEF Drawing

\* A document that has the tree of another, whose pages may be worked on, and
\* more objects beside it.
Touched(o2, o) ==
    /\ Web(o, DOMAIN o) /\ Web(o2, DOMAIN o2) /\ DOMAIN o \subseteq DOMAIN o2
    /\ \A j \in DOMAIN o : Stays(o2[j], o[j])
    /\ \A j \in DOMAIN o : o[j].kind \notin {"page", "catalog"} => o2[j] = o[j]

\* A document that is worked on in place and handed back.
InPlace(o2) ==
    /\ doc' = [objects |-> o2, root |-> doc.root] /\ Good(doc') /\ Touched(o2, doc.objects)

\* What a page calls the mark, and what the new document says of it.
MarkName(o, i) == UniqueName(Named(Materialize(o, i).attributes), <<"state", 0>>)

MarkedWith(o2, o, selected, mark, state) ==
    /\ state \in DOMAIN o2 /\ o2[state].label = mark
    /\ \A i \in OfKind(o, "page") \ selected : o2[i] = o[i]
    /\ \A i \in selected :
          LET s == StreamOf(state, selected, i)
          IN /\ s \in DOMAIN o2 /\ o2[s].draws = <<Use(MarkName(o, i))>>
             /\ o2[i] = Painted(Materialize(o, i), [n \in {MarkName(o, i)} |-> state], s)

\* watermark.rs hands back a good document, worked on in place: its new objects
\* have new numbers, and each page selected draws the mark by a name.
LEMMA WatermarkInPlace ==
    ASSUME Good(doc), NEW ranges \in SeqOf(Ranges, 2), NEW mark, Watermark(ranges, mark)
    PROVE  \E o2, state : /\ InPlace(o2)
                          /\ MarkedWith(o2, doc.objects, SelectedPages(ranges), mark, state)
<1>. DEFINE o == doc.objects
            D == DOMAIN o
            N == Cardinality(D)
            selected == SelectedPages(ranges)
            state == Max(D) + 1
            page(i) == Materialize(o, i)
            name(i) == UniqueName(Named(page(i).attributes), <<"state", 0>>)
            marked == [i \in selected |-> Painted(page(i), [n \in {name(i)} |-> state],
                                                   StreamOf(state, selected, i))]
            states == [i \in {state} |-> [Object("state") EXCEPT !.label = mark]]
            draws == [i \in selected |-> <<Use(name(i))>>]
            streams == Streams(state, draws)
            o1 == Overlay(states, Overlay(streams, o))
            o2 == Overlay(marked, o1)
            M == Cardinality(selected)
            K == 1 .. N + 1 + M
<1>1. /\ doc = [objects |-> o, root |-> doc.root] /\ Woven(o, doc.root, D) /\ Web(o, D)
      /\ N \in Nat \ {0} /\ D = 1 .. N
  BY GoodFacts
<1>2. \A i \in DOMAIN ranges : ValidRange(ranges[i])
  BY DEF Watermark
<1>3. selected \subseteq OfKind(o, "page") /\ selected \subseteq D
  <2>1. selected \subseteq OfKind(o, "page")
    BY <1>1, <1>2, SelectedFacts
  <2>. QED
    BY <2>1 DEF OfKind
<1>4. doc' = [doc EXCEPT !.objects = o2]
  BY DEF Watermark, Answer
<1>5. doc' = [objects |-> o2, root |-> doc.root]
  <2>. HIDE DEF o2, o
  <2>. QED
    BY <1>1, <1>4
<1>6. state = N + 1 /\ state \in Nat
  BY <1>1, LastNumber
<1>. HIDE DEF state, selected, N
<1>7. /\ M \in Nat /\ DOMAIN streams = state + 1 .. state + M
      /\ \A i \in selected : StreamOf(state, selected, i) \in DOMAIN streams
      /\ \A s \in DOMAIN streams : Plain(streams[s], "content")
      /\ \A i \in selected : streams[StreamOf(state, selected, i)].draws = draws[i]
  <2>1. DOMAIN draws = selected
    OBVIOUS
  <2>. HIDE DEF draws
  <2>. QED
    <3>. HIDE DEF o
    <3>1. Woven(doc.objects, doc.root, DOMAIN doc.objects) /\ selected \subseteq OfKind(doc.objects, "page")
      BY <1>1, <1>3 DEF o
    <3>2. \A i \in selected : Streams(state, draws)[StreamOf(state, selected, i)].draws = draws[i]
      BY <1>6, <2>1, <3>1, StreamFacts
    <3>3. /\ M \in Nat /\ DOMAIN streams = state + 1 .. state + M
          /\ \A i \in selected : StreamOf(state, selected, i) \in DOMAIN streams
          /\ \A s \in DOMAIN streams : Plain(streams[s], "content")
      BY <1>6, <2>1, <3>1, StreamFacts
    <3>. QED
      BY <3>2, <3>3
<1>8. DOMAIN states = {state} /\ Plain(states[state], "state") /\ states[state].label = mark
  <2>1. states[state].label = mark
    BY DEF Object
  <2>. QED
    BY <2>1, PlainObject
<1>9. DOMAIN marked = selected
  OBVIOUS
<1>. HIDE DEF streams, states, M, K
<1>10. /\ DOMAIN o1 = K
       /\ \A i \in D : o1[i] = o[i]
       /\ \A i \in K \ D : Plain(o1[i], "state") \/ Plain(o1[i], "content")
       /\ o1[state].kind = "state" /\ state \in K
       /\ \A s \in DOMAIN streams : o1[s].kind = "content" /\ s \in K /\ s \notin D
       /\ \A s \in DOMAIN streams : o1[s] = streams[s]
       /\ o1[state] = states[state] /\ state \notin D
  <2>1. /\ state \notin D /\ DOMAIN streams \cap D = {} /\ state \notin DOMAIN streams
        /\ D \cup {state} \cup DOMAIN streams = K
    BY <1>1, <1>6, <1>7 DEF K
  <2>2. /\ DOMAIN o1 = {state} \cup (DOMAIN streams \cup D)
        /\ o1[state] = states[state]
        /\ \A s \in DOMAIN streams : o1[s] = streams[s]
        /\ \A i \in D : o1[i] = o[i]
    <3>1. /\ DOMAIN Overlay(streams, o) = DOMAIN streams \cup D
          /\ \A s \in DOMAIN streams : Overlay(streams, o)[s] = streams[s]
          /\ \A i \in D : Overlay(streams, o)[i] = o[i]
      <4>1. \A i \in D : i \notin DOMAIN streams
        BY <2>1
      <4>. QED
        BY <4>1 DEF Overlay
    <3>2. DOMAIN states = {state}
      BY <1>8
    <3>3. /\ DOMAIN o1 = DOMAIN states \cup DOMAIN Overlay(streams, o)
          /\ \A x \in DOMAIN states : o1[x] = states[x]
          /\ \A x \in DOMAIN Overlay(streams, o) \ DOMAIN states : o1[x] = Overlay(streams, o)[x]
      BY OverlayFacts
    <3>. HIDE DEF o1
    <3>. QED
      BY <2>1, <3>1, <3>2, <3>3
  <2>. HIDE DEF o1
  <2>3. \A i \in K \ D : i = state \/ i \in DOMAIN streams
    BY <2>1
  <2>4. \A i \in K \ D : Plain(o1[i], "state") \/ Plain(o1[i], "content")
    BY <1>7, <1>8, <2>2, <2>3
  <2>5. o1[state].kind = "state" /\ \A s \in DOMAIN streams : o1[s].kind = "content"
    BY <1>7, <1>8, <2>2 DEF Plain
  <2>. QED
    BY <2>1, <2>2, <2>4, <2>5
<1>. HIDE DEF o1, marked
<1>11. /\ DOMAIN o2 = K
       /\ \A i \in selected : o2[i] = marked[i]
       /\ \A i \in K \ selected : o2[i] = o1[i]
  <2>1. D \subseteq K
    BY <1>1, <1>6, <1>7 DEF K
  <2>2. selected \subseteq K /\ DOMAIN o1 = K
    BY <1>3, <1>10, <2>1
  <2>3. /\ DOMAIN o2 = DOMAIN marked \cup DOMAIN o1
        /\ \A i \in DOMAIN marked : o2[i] = marked[i]
        /\ \A i \in DOMAIN o1 \ DOMAIN marked : o2[i] = o1[i]
    BY OverlayFacts
  <2>. HIDE DEF o2
  <2>. QED
    BY <1>9, <2>2, <2>3
<1>. HIDE DEF o2
<1>12. K \subseteq Nat \ {0} /\ IsFiniteSet(K) /\ D \subseteq K /\ K = 1 .. Cardinality(K)
  <2>2. N + 1 + M \in Nat /\ N + 1 + M - 1 + 1 = N + 1 + M
    BY <1>1, <1>7
  <2>1. N + 1 + M \in Nat /\ IsFiniteSet(K) /\ Cardinality(K) = N + 1 + M
    <3>. DEFINE L == N + 1 + M
    <3>1. L \in Nat
      BY <2>2
    <3>. HIDE DEF L
    <3>2. IsFiniteSet(1 .. L) /\ Cardinality(1 .. L) = L
      BY <3>1, FS_Interval
    <3>. QED
      BY <3>1, <3>2 DEF K, L
  <2>. QED
    BY <1>1, <1>7, <2>1 DEF K
<1>13. ASSUME NEW i \in selected
       PROVE  Stays(marked[i], o[i]) /\ Shaped(marked[i], K) /\ Refers(o1, K, marked[i])
  <2>. DEFINE x == Materialize(o, i)
              f == [n \in {name(i)} |-> state]
              s == StreamOf(state, selected, i)
  <2>1. Shaped(x, D) /\ Refers(o, D, x) /\ Stays(x, o[i])
    BY <1>1, <1>3, MaterializeFacts
  <2>2. Within(o, D, o1, K)
    BY <1>10, <1>12 DEF Within
  <2>3. marked[i] = Painted(x, f, s)
    BY DEF marked
  <2>. HIDE DEF x
  <2>4. Shaped(x, K) /\ Refers(o1, K, x)
    BY <2>1, <2>2, Wider
  <2>5. \A n \in DOMAIN f : f[n] \in In(o1, K, {"state", "form"})
    BY <1>10 DEF In
  <2>6. s \in In(o1, K, {"content"})
    BY <1>7, <1>10 DEF In
  <2>7. x.annots \in Seq(K) /\ ToSet(x.annots) \subseteq In(o1, K, Annotations)
    BY <2>4 DEF Shaped, Refers
  <2>. HIDE DEF f, s
  <2>8. Shaped(marked[i], K) /\ Refers(o1, K, marked[i]) /\ Stays(marked[i], x)
    BY <2>3, <2>4, <2>5, <2>6, <2>7, PaintedFits
  <2>. QED
    BY <2>1, <2>8 DEF Stays
<1>14. ASSUME NEW i \in K PROVE Shaped(o1[i], K) /\ Refers(o1, K, o1[i])
  <2>1. CASE i \in D
    <3>1. Within(o, D, o1, K) /\ Shaped(o[i], D) /\ Refers(o, D, o[i])
      BY <1>1, <1>10, <1>12, <2>1 DEF Within, Web
    <3>. QED
      BY <1>10, <2>1, <3>1, Wider
  <2>2. CASE i \notin D
    <3>1. "state" \in Kinds /\ "content" \in Kinds
      BY DEF Kinds
    <3>. QED
      BY <1>10, <2>2, <3>1, PlainFits
  <2>. QED
    BY <2>1, <2>2
<1>15. \A i \in K : o2[i].kind = o1[i].kind
  BY <1>3, <1>10, <1>11, <1>13 DEF Stays
<1>16. \A x : Refers(o1, K, x) => Refers(o2, K, x)
  <2>1. \A kinds : In(o1, K, kinds) = In(o2, K, kinds)
    BY <1>15 DEF In
  <2>. QED
    BY <2>1 DEF Refers
<1>17. \A i \in K : Shaped(o2[i], K) /\ Refers(o2, K, o2[i])
  BY <1>11, <1>13, <1>14, <1>16
<1>18. \A i \in D : Stays(o2[i], o[i])
  BY <1>10, <1>11, <1>12, <1>13 DEF Stays
<1>19. \A i \in K \ D : o2[i].kind \in {"content", "state"} /\ o2[i].parent = 0 /\ o2[i].kids = <<>>
  BY <1>3, <1>10, <1>11 DEF Plain
<1>20. Woven(o2, doc.root, K)
  BY <1>1, <1>12, <1>17, <1>18, <1>19, Extended
<1>. DEFINE d == [objects |-> o2, root |-> doc.root]
<1>21. d.objects = o2 /\ d.root = doc.root /\ d = [objects |-> d.objects, root |-> d.root]
  OBVIOUS
<1>. HIDE DEF d
<1>22. Typed(d) /\ Sound(d)
  BY <1>11, <1>12, <1>20, <1>21, WovenSound
<1>23. \A i \in D : o[i].kind # "page" => o2[i] = o[i]
  BY <1>3, <1>10, <1>11, <1>12 DEF OfKind
<1>24. Web(o2, DOMAIN o2)
  BY <1>11, <1>20 DEF Woven
<1>25. InPlace(o2)
  BY <1>1, <1>5, <1>11, <1>12, <1>18, <1>22, <1>23, <1>24 DEF InPlace, Good, d, Touched
<1>26. MarkedWith(o2, o, selected, mark, state)
  <2>1. state \in DOMAIN o2 /\ o2[state].label = mark
    BY <1>3, <1>8, <1>10, <1>11
  <2>2. \A i \in OfKind(o, "page") \ selected : o2[i] = o[i]
    BY <1>10, <1>11, <1>12 DEF OfKind
  <2>3. ASSUME NEW i \in selected
        PROVE  LET s == StreamOf(state, selected, i)
               IN /\ s \in DOMAIN o2 /\ o2[s].draws = <<Use(MarkName(o, i))>>
                  /\ o2[i] = Painted(Materialize(o, i), [n \in {MarkName(o, i)} |-> state], s)
    <3>. DEFINE s == StreamOf(state, selected, i)
    <3>1. s \in DOMAIN o2 /\ o2[s] = streams[s]
      BY <1>3, <1>7, <1>10, <1>11
    <3>2. streams[s].draws = <<Use(MarkName(o, i))>>
      BY <1>7 DEF MarkName
    <3>3. o2[i] = Painted(Materialize(o, i), [n \in {MarkName(o, i)} |-> state], s)
      BY <1>11 DEF marked, MarkName
    <3>. QED
      BY <3>1, <3>2, <3>3
  <2>. QED
    BY <2>1, <2>2, <2>3 DEF MarkedWith
<1>. QED
  BY <1>25, <1>26 DEF selected

\* watermark.rs hands back a good document.
LEMMA WatermarkGood ==
    ASSUME Good(doc), NEW ranges \in SeqOf(Ranges, 2), NEW mark, Watermark(ranges, mark)
    PROVE  Good(doc')
  BY WatermarkInPlace DEF InPlace

-----------------------------------------------------------------------------
(* What is reached *)

\* It is closed under references, lies in each closed set with the roots, and
\* has nothing that is not a root or referred to.
Closed(o, S) == \A i \in S : Refs(o[i]) \subseteq S

\* What is reached from some roots stays within a closed part that has them.
LEMMA ReachedFacts ==
    ASSUME NEW o, IsFiniteSet(DOMAIN o), NEW L \in SUBSET DOMAIN o, Closed(o, L),
           NEW roots \in SUBSET L, roots # {}
    PROVE  LET R == Reached(o, roots)
           IN /\ roots \subseteq R /\ R \subseteq L /\ Closed(o, R)
              /\ \A i \in R : i \in roots \/ \E j \in R : i \in Refs(o[j])
<1>. DEFINE V == SUBSET L
            N == Cardinality(DOMAIN o)
            step(S) == S \cup UNION {Refs(o[i]) : i \in S}
            G == [n \in Nat |-> [S \in V |-> step(S)]]
            Rec(f) == f = [n \in Nat |->
                              IF n = 0 THEN roots
                              ELSE LET before == f[n - 1]
                                   IN before \cup UNION {Refs(o[i]) : i \in before}]
            r == CHOOSE f : Rec(f)
<1>0. N \in Nat
  BY FS_CardinalityType
<1>1. \A S \in V : step(S) \in V
  BY DEF Closed
<1>2. PICK g : Iterates(g, V, roots, G)
  <2>1. roots \in V
    OBVIOUS
  <2>2. G \in [Nat -> [V -> V]]
    <3>. HIDE DEF V, step
    <3>. QED
      BY <1>1
  <2>. HIDE DEF G, V
  <2>. QED
    BY <2>1, <2>2, IterationBy
<1>3. g \in [Nat -> V] /\ g[0] = roots /\ \A n \in Nat : g[n + 1] = step(g[n])
  <2>. HIDE DEF step
  <2>1. \A n \in Nat, S \in V : G[n][S] = step(S)
    OBVIOUS
  <2>. HIDE DEF G, V
  <2>. QED
    BY <1>2, <2>1 DEF Iterates
<1>4. Reached(o, roots) = r[N]
  BY DEF Reached
<1>5. Rec(g)
  <2>1. g = [n \in Nat |-> g[n]]
    <3>. HIDE DEF V
    <3>. QED
      BY <1>3
  <2>2. ASSUME NEW n \in Nat PROVE g[n] = IF n = 0 THEN roots ELSE step(g[n - 1])
    <3>1. n # 0 => n - 1 \in Nat /\ (n - 1) + 1 = n
      OBVIOUS
    <3>. HIDE DEF step, V
    <3>. QED
      BY <1>3, <3>1
  <2>. QED
    BY <2>1, <2>2
<1>6. Rec(r)
  <2>. HIDE DEF Rec
  <2>. QED
    BY <1>5
<1>7. r[0] = roots /\ \A n \in Nat : r[n + 1] = step(r[n])
  <2>1. r[0] = roots
    <3>. HIDE DEF r
    <3>. QED
      BY <1>6
  <2>2. ASSUME NEW n \in Nat PROVE r[n + 1] = step(r[n])
    <3>1. n + 1 \in Nat /\ n + 1 # 0 /\ (n + 1) - 1 = n
      OBVIOUS
    <3>. HIDE DEF r
    <3>. QED
      BY <1>6, <3>1
  <2>. QED
    BY <2>1, <2>2
<1>. HIDE DEF r, Rec, G
<1>8. \A n \in Nat : /\ roots \subseteq r[n] /\ r[n] \subseteq L
                     /\ \A i \in r[n] : i \in roots \/ \E j \in r[n] : i \in Refs(o[j])
  <2>. DEFINE Fine(S) == /\ roots \subseteq S /\ S \subseteq L
                         /\ \A i \in S : i \in roots \/ \E j \in S : i \in Refs(o[j])
              T == {n \in Nat : Fine(r[n])}
  <2>1. 0 \in T
    BY <1>7
  <2>2. ASSUME NEW n \in Nat, n \in T PROVE n + 1 \in T
    <3>1. ASSUME NEW S, Fine(S) PROVE Fine(step(S))
      BY <1>1, <3>1
    <3>. HIDE DEF Fine, step
    <3>. QED
      BY <1>7, <2>2, <3>1, n + 1 \in Nat
  <2>3. \A n \in Nat : n \in T
    <3>. HIDE DEF T
    <3>. QED
      BY <2>1, <2>2, NatSetInduction
  <2>. QED
    BY <2>3
<1>9. \A n \in Nat : step(r[n]) = r[n] \/ Cardinality(r[n]) >= n + 1
  <2>. DEFINE Done(n) == step(r[n]) = r[n] \/ Cardinality(r[n]) >= n + 1
              T == {n \in Nat : Done(n)}
  <2>1. ASSUME NEW n \in Nat PROVE IsFiniteSet(r[n]) /\ Cardinality(r[n]) \in Nat
    <3>1. r[n] \in SUBSET DOMAIN o
      BY <1>8
    <3>. QED
      BY <3>1, FS_Subset, FS_CardinalityType
  <2>2. 0 \in T
    <3>1. Cardinality(r[0]) # 0 /\ Cardinality(r[0]) \in Nat
      BY <1>7, <2>1, FS_EmptySet
    <3>. HIDE DEF step
    <3>. QED
      BY <3>1
  <2>3. ASSUME NEW n \in Nat, n \in T PROVE n + 1 \in T
    <3>1. Done(n) /\ n + 1 \in Nat
      BY <2>3
    <3>2. CASE step(r[n]) = r[n]
      <4>. HIDE DEF step
      <4>. QED
        BY <1>7, <3>1, <3>2
    <3>3. CASE step(r[n]) # r[n]
      <4>1. r[n + 1] = step(r[n]) /\ r[n] \in SUBSET r[n + 1] /\ r[n] # r[n + 1]
        <5>1. r[n] \subseteq step(r[n])
          OBVIOUS
        <5>. HIDE DEF step
        <5>. QED
          BY <1>7, <3>3, <5>1
      <4>2. Cardinality(r[n]) >= n + 1
        BY <3>1, <3>3
      <4>3. Cardinality(r[n]) <= Cardinality(r[n + 1]) /\ Cardinality(r[n]) # Cardinality(r[n + 1])
        BY <2>1, <3>1, <4>1, FS_Subset
      <4>4. Cardinality(r[n]) \in Nat /\ Cardinality(r[n + 1]) \in Nat
        BY <2>1, <3>1
      <4>. HIDE DEF step
      <4>. QED
        BY <4>2, <4>3, <4>4
    <3>. QED
      BY <3>2, <3>3
  <2>4. \A n \in Nat : n \in T
    <3>. HIDE DEF T
    <3>. QED
      BY <2>2, <2>3, NatSetInduction
  <2>. HIDE DEF step
  <2>. QED
    BY <2>4
<1>10. step(r[N]) = r[N]
  <2>1. r[N] \in SUBSET DOMAIN o
    BY <1>0, <1>8
  <2>2. Cardinality(r[N]) <= N /\ Cardinality(r[N]) \in Nat
    BY <2>1, FS_Subset, FS_CardinalityType
  <2>. HIDE DEF step, N
  <2>. QED
    BY <1>0, <1>9, <2>2
<1>11. Closed(o, r[N])
  BY <1>10 DEF Closed
<1>. QED
  BY <1>0, <1>4, <1>8, <1>11

\* A sequence is one over any set that has its elements.
LEMMA SeqNarrowed ==
    ASSUME NEW K, NEW s \in Seq(K), NEW R, ToSet(s) \subseteq R
    PROVE  s \in Seq(R)
BY DEF ToSet

\* An object refers to objects, and to one of the tree only by its kids.
LEMMA RefsWithin ==
    ASSUME NEW o, NEW K, NEW x, Shaped(x, K), Refers(o, K, x)
    PROVE  /\ Refs(x) \subseteq K
           /\ \A i \in Refs(x) : o[i].kind \in {"page", "pages"} => i \in ToSet(x.kids)
<1>1. /\ ToSet(x.kids) \subseteq In(o, K, {"page", "pages"})
      /\ ToSet(x.contents) \subseteq In(o, K, {"content"})
      /\ ToSet(x.annots) \subseteq In(o, K, Annotations)
      /\ x.appearance \in In(o, K, {"form"}) \cup {0}
      /\ \A name \in DOMAIN Named(x.attributes) :
            Named(x.attributes)[name] \in In(o, K, {"state", "form"})
  BY DEF Refers
<1>2. \A i \in Refs(x) :
         \/ i \in ToSet(x.kids) \/ i \in ToSet(x.contents) \/ i \in ToSet(x.annots)
         \/ i = x.appearance /\ i # 0
         \/ \E name \in DOMAIN Named(x.attributes) : i = Named(x.attributes)[name]
  BY DEF Refs
<1>3. \A i \in Refs(x) : \/ i \in ToSet(x.kids) /\ i \in K
                         \/ i \in In(o, K, {"content", "state", "form"} \cup Annotations)
  BY <1>1, <1>2 DEF In
<1>. QED
  BY <1>3 DEF In, Annotations

\* Pruning leaves a woven document of the part of one that is woven, though the
\* objects outside that part, which nothing in it refers to, may be anything.
THEOREM PrunedWoven ==
    ASSUME NEW o, IsFiniteSet(DOMAIN o), NEW K \in SUBSET DOMAIN o, NEW root, Woven(o, root, K),
           OfKind(o, "catalog") \cup OfKind(o, "info") \subseteq K, NEW trailer \in BOOLEAN
    PROVE  LET R == Reached(o, {root} \cup OfKind(o, "catalog")
                                  \cup (IF trailer THEN OfKind(o, "info") ELSE {}))
           IN R \subseteq K /\ Woven([i \in R |-> o[i]], root, R)
<1>. DEFINE roots == {root} \cup OfKind(o, "catalog")
                        \cup (IF trailer THEN OfKind(o, "info") ELSE {})
            R == Reached(o, roots)
            e == [i \in R |-> o[i]]
<1>1. Web(o, K) /\ Rooted(o, root, K) /\ root \in K /\ o[root].parent = 0 /\ K \subseteq Nat \ {0}
  BY DEF Woven, Web, Rooted, In
<1>2. \A i \in K : Shaped(o[i], K) /\ Refers(o, K, o[i])
  BY <1>1 DEF Web
<1>3. Closed(o, K)
  BY <1>2, RefsWithin DEF Closed
<1>4. roots \in SUBSET K /\ roots # {}
  BY <1>1
<1>5. /\ roots \subseteq R /\ R \subseteq K /\ Closed(o, R)
      /\ \A i \in R : i \in roots \/ \E j \in R : i \in Refs(o[j])
  <2>. HIDE DEF roots
  <2>. QED
    BY <1>3, <1>4, ReachedFacts
<1>. HIDE DEF R
<1>6. ASSUME NEW i \in R PROVE o[i].parent \in R \cup {0}
  <2>. DEFINE j == o[i].parent
  <2>. SUFFICES ASSUME j # 0 PROVE j \in R
    OBVIOUS
  <2>1. i \in K /\ j \in K
    BY <1>2, <1>5 DEF Shaped
  <2>2. i \in ToSet(o[j].kids)
    BY <1>1, <2>1 DEF Web
  <2>3. o[i].kind \in {"page", "pages"}
    BY <1>2, <2>1, <2>2 DEF Refers, In
  <2>4. i \notin roots
    BY <1>1, <2>3 DEF OfKind
  <2>5. PICK m \in R : i \in Refs(o[m])
    BY <1>5, <2>4
  <2>6. m \in K /\ i \in ToSet(o[m].kids)
    BY <1>2, <1>5, <2>3, <2>5, RefsWithin
  <2>7. j = m
    BY <1>1, <2>1, <2>6 DEF Web
  <2>. QED
    BY <2>7
<1>7. \A kinds : In(e, R, kinds) = In(o, K, kinds) \cap R
  BY <1>5 DEF In
<1>8. ASSUME NEW i \in R
      PROVE  /\ ToSet(o[i].kids) \cup ToSet(o[i].contents) \cup ToSet(o[i].annots) \subseteq R
             /\ o[i].appearance \in R \cup {0}
             /\ \A name \in DOMAIN Named(o[i].attributes) : Named(o[i].attributes)[name] \in R
  <2>1. Refs(o[i]) \subseteq R
    BY <1>5 DEF Closed
  <2>. QED
    BY <2>1 DEF Refs
<1>9. ASSUME NEW i \in R PROVE Shaped(o[i], R) /\ Refers(e, R, o[i])
  <2>1. Shaped(o[i], K) /\ Refers(o, K, o[i])
    BY <1>2, <1>5
  <2>2. Shaped(o[i], R)
    <3>1. o[i].kids \in Seq(R) /\ o[i].contents \in Seq(R) /\ o[i].annots \in Seq(R)
      <4>1. /\ o[i].kids \in Seq(K) /\ o[i].contents \in Seq(K) /\ o[i].annots \in Seq(K)
            /\ ToSet(o[i].kids) \subseteq R /\ ToSet(o[i].contents) \subseteq R
            /\ ToSet(o[i].annots) \subseteq R
        BY <1>8, <2>1 DEF Shaped
      <4>. QED
        BY <4>1, SeqNarrowed
    <3>. QED
      BY <1>6, <2>1, <3>1 DEF Shaped
  <2>3. Refers(e, R, o[i])
    <3>1. /\ ToSet(o[i].kids) \subseteq In(e, R, {"page", "pages"})
          /\ ToSet(o[i].contents) \subseteq In(e, R, {"content"})
          /\ ToSet(o[i].annots) \subseteq In(e, R, Annotations)
      <4>. HIDE DEF e
      <4>. QED
        BY <1>7, <1>8, <2>1 DEF Refers
    <3>2. o[i].appearance \in In(e, R, {"form"}) \cup {0}
      <4>1. o[i].appearance \in In(o, K, {"form"}) \cup {0}
        BY <2>1 DEF Refers
      <4>. HIDE DEF e
      <4>. QED
        BY <1>7, <1>8, <4>1
    <3>3. \A name \in DOMAIN Named(o[i].attributes) :
             Named(o[i].attributes)[name] \in In(e, R, {"state", "form"})
      <4>1. \A name \in DOMAIN Named(o[i].attributes) :
               Named(o[i].attributes)[name] \in In(o, K, {"state", "form"})
        BY <2>1 DEF Refers
      <4>. HIDE DEF e
      <4>. QED
        BY <1>7, <1>8, <4>1
    <3>4. o[i].kids # <<>> => o[i].kind = "pages"
      BY <2>1 DEF Refers
    <3>. HIDE DEF e
    <3>. QED
      BY <3>1, <3>2, <3>3, <3>4 DEF Refers
  <2>. QED
    BY <2>2, <2>3
<1>10. \A i \in R : e[i] = o[i]
  OBVIOUS
<1>. HIDE DEF e
<1>11. Web(e, R)
  <2>1. R \subseteq Nat \ {0} /\ IsFiniteSet(R)
    <3>1. R \in SUBSET DOMAIN o
      BY <1>5
    <3>. QED
      BY <1>1, <1>5, <3>1, FS_Subset
  <2>2. \A i, j \in R : i \in ToSet(e[j].kids) <=> e[i].parent = j
    BY <1>1, <1>5, <1>10 DEF Web
  <2>. QED
    BY <1>9, <1>10, <2>1, <2>2 DEF Web
<1>12. \A p \in In(o, K, {"page"}) : p \in R
  <2>. SUFFICES ASSUME NEW p \in In(o, K, {"page"}) PROVE p \in R
    OBVIOUS
  <2>1. PICK n \in 0 .. MaxLevels : Above(o, p, n) = root
    BY <1>1 DEF Rooted
  <2>2. n \in Nat /\ p \in K /\ Upwards(o, K)
    BY <1>1, WebUpwards DEF In
  <2>. DEFINE T == {k \in Nat : k <= n => Above(o, p, n - k) \in R}
  <2>3. 0 \in T
    BY <1>5, <2>1, <2>2, n - 0 = n
  <2>4. ASSUME NEW k \in Nat, k \in T PROVE k + 1 \in T
    <3>. SUFFICES ASSUME k + 1 <= n PROVE Above(o, p, n - (k + 1)) \in R
      BY k + 1 \in Nat
    <3>. DEFINE m == n - (k + 1)
                y == Above(o, p, m)
    <3>1. m \in Nat /\ m + 1 = n - k /\ k <= n
      BY <2>2
    <3>2. Above(o, p, m + 1) \in R
      BY <2>4, <3>1
    <3>. HIDE DEF m
    <3>3. y \in K \cup {0} /\ Above(o, p, m + 1) = IF y = 0 THEN 0 ELSE o[y].parent
      BY <2>2, <3>1, AboveRec
    <3>4. Above(o, p, m + 1) \in K /\ Above(o, p, m + 1) # 0
      BY <1>1, <1>5, <3>2
    <3>. HIDE DEF y
    <3>5. y \in K /\ o[y].parent = Above(o, p, m + 1)
      BY <3>3, <3>4
    <3>6. y \in ToSet(o[Above(o, p, m + 1)].kids)
      BY <1>1, <3>4, <3>5 DEF Web
    <3>7. y \in R
      BY <1>8, <3>2, <3>6
    <3>. QED
      BY <3>7 DEF y, m
  <2>5. \A k \in Nat : k \in T
    <3>. HIDE DEF T
    <3>. QED
      BY <2>3, <2>4, NatSetInduction
  <2>6. Above(o, p, 0) \in R
    BY <2>2, <2>5, n - n = 0
  <2>. QED
    BY <2>2, <2>6, AboveRec
<1>13. Rooted(e, root, R)
  <2>1. In(e, R, {"page"}) = In(o, K, {"page"}) /\ In(e, R, {"catalog"}) = In(o, K, {"catalog"})
    <3>1. In(o, K, {"catalog"}) \subseteq R
      BY <1>5 DEF In, OfKind
    <3>. QED
      BY <1>7, <1>12, <3>1
  <2>2. root \in In(e, R, {"pages"}) /\ e[root].parent = 0
    <3>1. root \in R
      BY <1>5
    <3>. QED
      BY <1>1, <1>7, <1>10, <3>1 DEF Rooted
  <2>3. Upwards(o, R) /\ \A i \in R : e[i].parent = o[i].parent
    BY <1>1, <1>5, <1>6, <1>10 DEF Upwards
  <2>4. \A i \in R, n \in Nat : Above(e, i, n) = Above(o, i, n)
    BY <2>3, SameAbove
  <2>5. ASSUME NEW p \in In(o, K, {"page"}) PROVE \E n \in 0 .. MaxLevels : Above(e, p, n) = root
    <3>1. PICK n \in 0 .. MaxLevels : Above(o, p, n) = root
      BY <1>1 DEF Rooted
    <3>2. n \in Nat /\ p \in R
      BY <1>12
    <3>. QED
      BY <2>4, <3>1, <3>2
  <2>. QED
    BY <1>1, <2>1, <2>2, <2>5 DEF Rooted
<1>. QED
  BY <1>5, <1>11, <1>13 DEF Woven, e, R

-----------------------------------------------------------------------------
(* Other numbers *)

Numbering(number, D) ==
    number \in [D -> Nat \ {0}] /\ \A i, j \in D : number[i] = number[j] => i = j

\* A reference under new numbers.
Ref(number, i) == IF i = 0 THEN 0 ELSE number[i]

\* y is x under new numbers.
MovedTo(x, y, number) ==
    /\ DOMAIN y = DOMAIN x
    /\ y.kind = x.kind /\ y.draws = x.draws /\ y.label = x.label
    /\ y.parent = Ref(number, x.parent) /\ y.appearance = Ref(number, x.appearance)
    /\ y.kids = Mapped(number, x.kids) /\ y.contents = Mapped(number, x.contents)
    /\ y.annots = Mapped(number, x.annots)
    /\ DOMAIN y.attributes = DOMAIN x.attributes
    /\ \A key \in DOMAIN x.attributes \ {"resources"} : y.attributes[key] = x.attributes[key]
    /\ Named(y.attributes) = Mapped(number, Named(x.attributes))

\* Moving an object to new numbers moves each of its references.
LEMMA MovedFacts ==
    ASSUME NEW o, NEW D, D \subseteq Nat \ {0}, NEW x, Shaped(x, D), Refers(o, D, x),
           NEW number, Numbering(number, D)
    PROVE  MovedTo(x, Moved(x, number), number)
<1>. DEFINE ref(i) == IF i = 0 THEN 0 ELSE number[i]
            refs(list) == [k \in DOMAIN list |-> ref(list[k])]
            a == x.attributes
            b == [key \in DOMAIN a |-> IF key = "resources" THEN refs(a[key]) ELSE a[key]]
            y == Moved(x, number)
<1>1. DOMAIN x = {"kind", "parent", "kids", "contents", "draws", "annots", "appearance",
                  "label", "attributes"}
  BY DEF Shaped, Object
<1>2. y = [x EXCEPT !.parent = ref(x.parent), !.appearance = ref(x.appearance),
                    !.kids = refs(x.kids), !.contents = refs(x.contents),
                    !.annots = refs(x.annots), !.attributes = b]
  BY DEF Moved
<1>3. ASSUME NEW s \in Seq(D) PROVE refs(s) = Mapped(number, s)
  <2>1. \A k \in DOMAIN s : s[k] # 0
    OBVIOUS
  <2>. QED
    BY <2>1 DEF Mapped
<1>4. /\ DOMAIN b = DOMAIN a
      /\ \A key \in DOMAIN a \ {"resources"} : b[key] = a[key]
      /\ Named(b) = Mapped(number, Named(a))
  <2>1. DOMAIN b = DOMAIN a /\ \A key \in DOMAIN a \ {"resources"} : b[key] = a[key]
    OBVIOUS
  <2>2. CASE "resources" \in DOMAIN a
    <3>. DEFINE names == a["resources"]
    <3>1. Named(a) = names
      BY <2>2 DEF Named
    <3>2. b["resources"] = refs(names)
      BY <2>2
    <3>3. Named(b) = refs(names)
      <4>. HIDE DEF refs, b
      <4>. QED
        BY <2>1, <2>2, <3>2 DEF Named
    <3>4. \A name \in DOMAIN names : names[name] # 0
      BY <3>1 DEF Refers, In
    <3>5. refs(names) = Mapped(number, names)
      <4>. HIDE DEF names
      <4>. QED
        BY <3>4 DEF Mapped
    <3>. QED
      BY <3>1, <3>3, <3>5
  <2>3. CASE "resources" \notin DOMAIN a
    <3>1. Named(a) = <<>> /\ Named(b) = <<>>
      <4>. HIDE DEF b
      <4>. QED
        BY <2>1, <2>3 DEF Named
    <3>2. Mapped(number, <<>>) = <<>>
      BY DEF Mapped
    <3>. QED
      BY <3>1, <3>2
  <2>. QED
    BY <2>1, <2>2, <2>3
<1>5. ref(x.parent) = Ref(number, x.parent) /\ ref(x.appearance) = Ref(number, x.appearance)
  BY DEF Ref
<1>. HIDE DEF b, y, ref, refs
<1>6. /\ DOMAIN y = DOMAIN x
      /\ y.kind = x.kind /\ y.draws = x.draws /\ y.label = x.label
      /\ y.parent = ref(x.parent) /\ y.appearance = ref(x.appearance)
      /\ y.kids = refs(x.kids) /\ y.contents = refs(x.contents)
      /\ y.annots = refs(x.annots) /\ y.attributes = b
  BY <1>1, <1>2
<1>7. x.kids \in Seq(D) /\ x.contents \in Seq(D) /\ x.annots \in Seq(D)
  BY DEF Shaped
<1>. QED
  BY <1>3, <1>4, <1>5, <1>6, <1>7 DEF y, MovedTo

\* Relabelling puts each object under its number, with its references moved.
LEMMA RelabelledFacts ==
    ASSUME NEW d, NEW number, Numbering(number, DOMAIN d.objects)
    PROVE  LET e == Relabelled(d, number)
           IN /\ e = [objects |-> e.objects, root |-> e.root]
              /\ e.root = number[d.root]
              /\ DOMAIN e.objects = {number[i] : i \in DOMAIN d.objects}
              /\ \A i \in DOMAIN d.objects : e.objects[number[i]] = Moved(d.objects[i], number)
<1>. DEFINE D == DOMAIN d.objects
            at(n) == CHOOSE i \in DOMAIN number : number[i] = n
            f == [n \in {number[i] : i \in DOMAIN number} |-> Moved(d.objects[at(n)], number)]
<1>1. DOMAIN number = D
  BY DEF Numbering
<1>2. Relabelled(d, number) = [objects |-> f, root |-> number[d.root]]
  BY DEF Relabelled
<1>3. \A i \in D : at(number[i]) = i
  <2>. SUFFICES ASSUME NEW i \in D PROVE at(number[i]) = i
    OBVIOUS
  <2>1. \E j \in DOMAIN number : number[j] = number[i]
    BY <1>1
  <2>2. at(number[i]) \in D /\ number[at(number[i])] = number[i]
    BY <1>1, <2>1
  <2>. HIDE DEF at
  <2>. QED
    BY <2>2 DEF Numbering
<1>4. DOMAIN f = {number[i] : i \in D} /\ \A i \in D : f[number[i]] = Moved(d.objects[i], number)
  <2>. HIDE DEF at
  <2>. QED
    BY <1>1, <1>3
<1>. HIDE DEF f
<1>. QED
  BY <1>2, <1>4

\* A woven document stays woven under any injective numbering.
LEMMA RelabelledWoven ==
    ASSUME NEW d, Woven(d.objects, d.root, DOMAIN d.objects),
           NEW number, Numbering(number, DOMAIN d.objects)
    PROVE  LET e == Relabelled(d, number)
           IN Woven(e.objects, e.root, DOMAIN e.objects)
<1>. DEFINE o == d.objects
            D == DOMAIN o
            e == Relabelled(d, number)
            p == e.objects
            T == {number[i] : i \in D}
<1>1. /\ e.root = number[d.root] /\ DOMAIN p = T
      /\ \A i \in D : p[number[i]] = Moved(o[i], number)
  BY RelabelledFacts
<1>2. Web(o, D) /\ Rooted(o, d.root, D) /\ d.root \in D /\ D \subseteq Nat \ {0}
      /\ \A i \in D : Shaped(o[i], D) /\ Refers(o, D, o[i])
  BY DEF Woven, Web, Rooted, In
<1>3. /\ number \in [D -> T] /\ IsInjective(number)
      /\ \A i \in D : number[i] \in T /\ number[i] # 0
      /\ \A i, j \in D : number[i] = number[j] => i = j
  <2>1. number \in [D -> Nat \ {0}] /\ \A i, j \in D : number[i] = number[j] => i = j
    BY DEF Numbering
  <2>2. number \in [D -> T]
    BY <2>1
  <2>. QED
    BY <2>1, <2>2 DEF IsInjective
<1>4. ASSUME NEW i \in D PROVE MovedTo(o[i], p[number[i]], number)
  <2>1. Shaped(o[i], D) /\ Refers(o, D, o[i]) /\ p[number[i]] = Moved(o[i], number)
    BY <1>1, <1>2
  <2>. HIDE DEF D
  <2>. QED
    BY <1>2, <2>1, MovedFacts DEF D
<1>. HIDE DEF p
<1>5. \A kinds : In(p, T, kinds) = {number[i] : i \in In(o, D, kinds)}
  <2>1. \A i \in D : p[number[i]].kind = o[i].kind
    BY <1>4 DEF MovedTo
  <2>. QED
    BY <2>1 DEF In
<1>. HIDE DEF T
<1>6. ASSUME NEW s \in Seq(D)
      PROVE  /\ Mapped(number, s) \in Seq(T)
             /\ ToSet(Mapped(number, s)) = {number[i] : i \in ToSet(s)}
             /\ IsInjective(s) => IsInjective(Mapped(number, s))
             /\ s = <<>> => Mapped(number, s) = <<>>
  <2>. DEFINE E == D
  <2>1. number \in [E -> T] /\ s \in Seq(E) /\ IsInjective(number)
    BY <1>3
  <2>. HIDE DEF E
  <2>2. /\ Mapped(number, s) \in Seq(T)
        /\ IsInjective(s) => IsInjective(Mapped(number, s))
    BY <2>1, MappedFacts
  <2>3. ToSet(Mapped(number, s)) = {number[i] : i \in ToSet(s)}
    <3>1. /\ DOMAIN Mapped(number, s) = DOMAIN s
          /\ \A k \in DOMAIN s : Mapped(number, s)[k] = number[s[k]]
      BY DEF Mapped
    <3>. QED
      BY <3>1 DEF ToSet
  <2>4. s = <<>> => Mapped(number, s) = <<>>
    BY <2>2 DEF Mapped
  <2>. QED
    BY <2>2, <2>3, <2>4
<1>7. ASSUME NEW i \in D PROVE Shaped(p[number[i]], T) /\ Refers(p, T, p[number[i]])
  <2>. DEFINE x == o[i]
              y == p[number[i]]
  <2>1. Shaped(x, D) /\ Refers(o, D, x)
    BY <1>2
  <2>2. Shaped(y, T)
    <3>1. y.kids \in Seq(T) /\ y.contents \in Seq(T) /\ y.annots \in Seq(T) /\ IsInjective(y.kids)
      BY <1>4, <1>6, <2>1 DEF Shaped, MovedTo
    <3>2. y.parent \in T \cup {0}
      BY <1>3, <1>4, <2>1 DEF Shaped, Ref, MovedTo
    <3>3. DOMAIN y = DOMAIN Object("page") /\ y.kind \in Kinds
      BY <1>4, <2>1 DEF Shaped, MovedTo
    <3>4. Proper(y.attributes)
      BY <1>4, <2>1 DEF Shaped, MovedTo, Proper
    <3>. QED
      BY <3>1, <3>2, <3>3, <3>4 DEF Shaped
  <2>3. Refers(p, T, y)
    <3>1. x.kids \in Seq(D) /\ x.contents \in Seq(D) /\ x.annots \in Seq(D)
      BY <2>1 DEF Shaped
    <3>2. /\ ToSet(y.kids) = {number[k] : k \in ToSet(x.kids)}
          /\ ToSet(y.contents) = {number[k] : k \in ToSet(x.contents)}
          /\ ToSet(y.annots) = {number[k] : k \in ToSet(x.annots)}
      BY <1>4, <1>6, <3>1 DEF MovedTo
    <3>3. /\ ToSet(x.kids) \subseteq In(o, D, {"page", "pages"})
          /\ ToSet(x.contents) \subseteq In(o, D, {"content"})
          /\ ToSet(x.annots) \subseteq In(o, D, Annotations)
      BY <2>1 DEF Refers
    <3>4. /\ ToSet(y.kids) \subseteq In(p, T, {"page", "pages"})
          /\ ToSet(y.contents) \subseteq In(p, T, {"content"})
          /\ ToSet(y.annots) \subseteq In(p, T, Annotations)
      BY <1>5, <3>2, <3>3
    <3>5. y.kids # <<>> => y.kind = "pages"
      <4>1. x.kids = <<>> => y.kids = <<>>
        BY <1>4, <1>6, <3>1 DEF MovedTo
      <4>. QED
        BY <1>4, <2>1, <4>1 DEF Refers, MovedTo
    <3>6. y.appearance \in In(p, T, {"form"}) \cup {0}
      <4>1. y.appearance = IF x.appearance = 0 THEN 0 ELSE number[x.appearance]
        BY <1>4 DEF Ref, MovedTo
      <4>2. x.appearance \in In(o, D, {"form"}) \cup {0}
        BY <2>1 DEF Refers
      <4>. QED
        BY <1>5, <4>1, <4>2
    <3>7. \A name \in DOMAIN Named(y.attributes) :
             Named(y.attributes)[name] \in In(p, T, {"state", "form"})
      <4>. DEFINE a == Named(x.attributes)
      <4>1. \A name \in DOMAIN a : a[name] \in In(o, D, {"state", "form"})
        BY <2>1 DEF Refers
      <4>2. Named(y.attributes) = Mapped(number, a)
        BY <1>4 DEF MovedTo
      <4>. HIDE DEF a
      <4>3. DOMAIN Mapped(number, a) = DOMAIN a
            /\ \A name \in DOMAIN a : Mapped(number, a)[name] = number[a[name]]
        BY DEF Mapped
      <4>. QED
        BY <1>5, <4>1, <4>2, <4>3
    <3>. QED
      BY <3>4, <3>5, <3>6, <3>7 DEF Refers
  <2>. QED
    BY <2>2, <2>3
<1>8. \A t \in T : \E i \in D : t = number[i]
  BY DEF T
<1>9. Web(p, T)
  <2>1. T \subseteq Nat \ {0}
    BY <1>8 DEF Numbering
  <2>2. IsFiniteSet(T)
    <3>1. number \in Surjection(D, T)
      BY <1>3, <1>8 DEF Surjection
    <3>2. number \in Injection(D, T)
      BY <1>3 DEF Injection
    <3>3. IsFiniteSet(D) /\ ExistsBijection(D, T)
      BY <1>2, <3>1, <3>2 DEF Web, Bijection, ExistsBijection
    <3>. QED
      BY <3>3, FS_Bijection
  <2>3. \A t \in T : Shaped(p[t], T) /\ Refers(p, T, p[t])
    BY <1>7, <1>8
  <2>4. ASSUME NEW i \in D, NEW j \in D
        PROVE  number[i] \in ToSet(p[number[j]].kids) <=> p[number[i]].parent = number[j]
    <3>1. o[j].kids \in Seq(D)
      BY <1>2 DEF Shaped
    <3>8. ToSet(o[j].kids) \subseteq D
      BY <3>1 DEF ToSet
    <3>9. ToSet(p[number[j]].kids) = {number[k] : k \in ToSet(o[j].kids)}
      BY <1>4, <1>6, <3>1 DEF MovedTo
    <3>2. ToSet(p[number[j]].kids) = {number[k] : k \in ToSet(o[j].kids)} /\ ToSet(o[j].kids) \subseteq D
      BY <3>8, <3>9
    <3>3. number[i] \in ToSet(p[number[j]].kids) <=> i \in ToSet(o[j].kids)
      BY <1>3, <3>2
    <3>4. i \in ToSet(o[j].kids) <=> o[i].parent = j
      BY <1>2 DEF Web
    <3>5. p[number[i]].parent = IF o[i].parent = 0 THEN 0 ELSE number[o[i].parent]
      BY <1>4 DEF Ref, MovedTo
    <3>6. o[i].parent \in D \cup {0} /\ 0 \notin D
      BY <1>2 DEF Shaped
    <3>7. p[number[i]].parent = number[j] <=> o[i].parent = j
      BY <1>3, <3>5, <3>6
    <3>. QED
      BY <3>3, <3>4, <3>7
  <2>5. \A t, u \in T : t \in ToSet(p[u].kids) <=> p[t].parent = u
    BY <1>8, <2>4
  <2>. QED
    BY <2>1, <2>2, <2>3, <2>5 DEF Web
<1>10. ASSUME NEW i \in D
       PROVE  \A n \in Nat : Above(p, number[i], n) = Ref(number, Above(o, i, n))
  <2>. DEFINE S == {n \in Nat : Above(p, number[i], n) = Ref(number, Above(o, i, n))}
  <2>1. Upwards(o, D) /\ Upwards(p, T) /\ number[i] \in T
    BY <1>2, <1>3, <1>9, WebUpwards
  <2>2. 0 \in S
    <3>1. Above(p, number[i], 0) = number[i] /\ Above(o, i, 0) = i /\ i # 0
      BY <1>2, <2>1, AboveRec
    <3>. QED
      BY <3>1 DEF Ref
  <2>3. ASSUME NEW n \in Nat, n \in S PROVE n + 1 \in S
    <3>. DEFINE a == Above(o, i, n)
    <3>1. a \in D \cup {0} /\ Above(o, i, n + 1) = IF a = 0 THEN 0 ELSE o[a].parent
      BY <2>1, AboveRec
    <3>2. Above(p, number[i], n + 1) =
             IF Ref(number, a) = 0 THEN 0 ELSE p[Ref(number, a)].parent
      BY <2>1, <2>3, AboveRec
    <3>. HIDE DEF a
    <3>3. Above(p, number[i], n + 1) = Ref(number, Above(o, i, n + 1))
      <4>1. CASE a = 0
        BY <3>1, <3>2, <4>1 DEF Ref
      <4>2. CASE a # 0
        <5>1. a \in D /\ Ref(number, a) = number[a] /\ number[a] # 0
          BY <1>3, <3>1, <4>2 DEF Ref
        <5>2. p[number[a]].parent = Ref(number, o[a].parent)
          BY <1>4, <5>1 DEF MovedTo
        <5>. QED
          BY <3>1, <3>2, <4>2, <5>1, <5>2
      <4>. QED
        BY <4>1, <4>2
    <3>. QED
      BY <3>3, n + 1 \in Nat
  <2>. HIDE DEF S
  <2>4. \A n \in Nat : n \in S
    BY <2>2, <2>3, NatSetInduction
  <2>. QED
    BY <2>4 DEF S
<1>11. Rooted(p, e.root, T)
  <2>. DEFINE root == number[d.root]
  <2>1. root \in In(p, T, {"pages"}) /\ p[root].parent = 0
    <3>1. d.root \in In(o, D, {"pages"}) /\ o[d.root].parent = 0
      BY <1>2 DEF Rooted
    <3>2. p[root].parent = Ref(number, o[d.root].parent)
      BY <1>2, <1>4 DEF MovedTo
    <3>. QED
      BY <1>5, <3>1, <3>2 DEF Ref
  <2>2. In(p, T, {"page"}) # {}
    <3>1. PICK i : i \in In(o, D, {"page"})
      BY <1>2 DEF Rooted
    <3>2. number[i] \in In(p, T, {"page"})
      BY <1>5, <3>1
    <3>. QED
      BY <3>2
  <2>3. ASSUME NEW i \in In(o, D, {"page"})
        PROVE  \E n \in 0 .. MaxLevels : Above(p, number[i], n) = root
    <3>1. PICK n \in 0 .. MaxLevels : Above(o, i, n) = d.root
      BY <1>2 DEF Rooted
    <3>2. n \in Nat /\ i \in D /\ d.root # 0
      BY <1>2 DEF In
    <3>3. Above(p, number[i], n) = Ref(number, d.root)
      BY <1>10, <3>1, <3>2
    <3>. QED
      BY <3>2, <3>3 DEF Ref
  <2>4. \A t \in In(p, T, {"page"}) : \E n \in 0 .. MaxLevels : Above(p, t, n) = root
    <3>1. \A t \in In(p, T, {"page"}) : \E i \in In(o, D, {"page"}) : t = number[i]
      BY <1>5
    <3>. HIDE DEF root
    <3>. QED
      BY <2>3, <3>1
  <2>5. Cardinality(In(p, T, {"catalog"})) = 1
    <3>1. IsFiniteSet(In(o, D, {"catalog"}))
      <4>1. In(o, D, {"catalog"}) \in SUBSET D /\ IsFiniteSet(D)
        BY <1>2 DEF In, Web
      <4>. QED
        BY <4>1, FS_Subset
    <3>2. PICK c : In(o, D, {"catalog"}) = {c}
      BY <1>2, <3>1, FS_Singleton DEF Rooted
    <3>3. In(p, T, {"catalog"}) = {number[c]}
      BY <1>5, <3>2
    <3>. QED
      BY <3>3, FS_Singleton
  <2>6. e.root = root
    BY <1>1
  <2>. HIDE DEF root, e
  <2>. QED
    BY <2>1, <2>2, <2>4, <2>5, <2>6 DEF Rooted
<1>12. p = e.objects /\ DOMAIN p = T
  BY <1>1 DEF p
<1>. QED
  BY <1>9, <1>11, <1>12 DEF Woven

\* The numbers that are drawn are consecutive, one for each object.
LEMMA NumbersFacts ==
    ASSUME NEW d, Woven(d.objects, d.root, DOMAIN d.objects), NEW start \in Nat \ {0}
    PROVE  LET N == Cardinality(DOMAIN d.objects)
               number == Numbers(d, start)
           IN /\ N \in Nat
              /\ Numbering(number, DOMAIN d.objects)
              /\ {number[i] : i \in DOMAIN d.objects} = start .. start + N - 1
              /\ \A p, q \in DOMAIN PageIds(d) :
                    p < q => number[PageIds(d)[p]] < number[PageIds(d)[q]]
<1>. DEFINE D == DOMAIN d.objects
            N == Cardinality(D)
            T == start .. start + N - 1
            ids == PageIds(d)
            P == ToSet(ids)
            sorted == InOrder(P)
            rank(i) == start + Cardinality({j \in D : j < i})
            pos(i) == CHOOSE p \in DOMAIN ids : ids[p] = i
            perm(i) == IF i \in P THEN sorted[pos(i)] ELSE i
            number == Numbers(d, start)
<1>1. D \subseteq Nat \ {0} /\ IsFiniteSet(D) /\ N \in Nat
  BY FS_CardinalityType DEF Woven, Web
<1>2. ids \in Seq(D) /\ IsInjective(ids) /\ P \subseteq D
  <2>1. ids \in Seq(D) /\ IsInjective(ids)
    BY WovenPages
  <2>. QED
    BY <2>1 DEF ToSet
<1>3. number = [i \in D |-> rank(perm(i))]
  <2>1. number = [i \in D |-> IF i \in P THEN rank(sorted[pos(i)]) ELSE rank(i)]
    BY DEF Numbers
  <2>. HIDE DEF rank, sorted, pos, P, number
  <2>. QED
    BY <2>1
<1>4. /\ \A i \in D : rank(i) \in T
      /\ \A i, j \in D : rank(i) = rank(j) => i = j
      /\ \A i, j \in D : i < j => rank(i) < rank(j)
  <2>. DEFINE key == [i \in D |-> i]
              C(i) == Cardinality(UpTo(D, key, i))
  <2>1. Ranked(D, key)
    <3>1. key \in [D -> Int] /\ \A i, j \in D : key[i] = key[j] => i = j
      BY <1>1
    <3>. HIDE DEF key, D
    <3>. QED
      BY <1>1, <3>1, Ranks
  <2>2. ASSUME NEW i \in D PROVE rank(i) = start + (C(i) - 1) /\ C(i) \in 1 .. N
    <3>1. C(i) \in 1 .. N
      BY <2>1 DEF Ranked
    <3>2. {j \in D : j < i} = UpTo(D, key, i) \ {i} /\ i \in UpTo(D, key, i)
      BY <1>1 DEF UpTo
    <3>3. IsFiniteSet(UpTo(D, key, i))
      <4>1. UpTo(D, key, i) \in SUBSET D
        BY DEF UpTo
      <4>. QED
        BY <1>1, <4>1, FS_Subset
    <3>4. Cardinality(UpTo(D, key, i) \ {i}) = C(i) - 1
      BY <3>2, <3>3, FS_RemoveElement
    <3>. QED
      BY <3>1, <3>2, <3>4
  <2>3. \A i, j \in D : C(i) = C(j) => i = j
    BY <2>1 DEF Ranked
  <2>6. \A i, j \in D : i < j => C(i) < C(j)
    <3>1. \A i \in D : key[i] = i
      OBVIOUS
    <3>. HIDE DEF key
    <3>. QED
      BY <2>1, <3>1 DEF Ranked
  <2>. HIDE DEF C, rank, N
  <2>4. \A i \in D : rank(i) \in T
    BY <1>1, <2>2
  <2>5. \A i, j \in D : rank(i) = rank(j) => i = j
    BY <1>1, <2>2, <2>3
  <2>7. ASSUME NEW i \in D, NEW j \in D, i < j PROVE rank(i) < rank(j)
    <3>1. rank(i) = start + (C(i) - 1) /\ C(i) \in 1 .. N /\ rank(j) = start + (C(j) - 1) /\ C(j) \in 1 .. N
      BY <2>2
    <3>2. C(i) < C(j)
      BY <2>6, <2>7
    <3>. QED
      BY <1>1, <3>1, <3>2
  <2>. QED
    BY <2>4, <2>5, <2>7
<1>5. Len(ids) = Cardinality(P) /\ IsFiniteSet(P)
  <2>1. DOMAIN ids = 1 .. Len(ids) /\ Len(ids) \in Nat
    BY <1>2
  <2>2. ids \in Bijection(1 .. Len(ids), P)
    <3>1. ids \in [1 .. Len(ids) -> P] /\ \A x \in P : \E k \in 1 .. Len(ids) : ids[k] = x
      BY <1>2, <2>1 DEF ToSet
    <3>. HIDE DEF ids, P
    <3>. QED
      BY <1>2, <3>1 DEF Bijection, Injection, Surjection
  <2>3. IsFiniteSet(1 .. Len(ids)) /\ Cardinality(1 .. Len(ids)) = Len(ids)
    <3>. DEFINE L == Len(ids)
    <3>1. L \in Nat
      BY <2>1
    <3>. HIDE DEF L
    <3>2. IsFiniteSet(1 .. L) /\ Cardinality(1 .. L) = L
      BY <3>1, FS_Interval
    <3>. QED
      BY <3>2 DEF L
  <2>4. ExistsBijection(1 .. Len(ids), P)
    BY <2>2 DEF ExistsBijection
  <2>. HIDE DEF ids, P
  <2>. QED
    BY <2>3, <2>4, FS_Bijection
<1>6. /\ sorted \in [1 .. Cardinality(P) -> P] /\ IsInjective(sorted)
      /\ \A m, n \in 1 .. Cardinality(P) : m < n => sorted[m] < sorted[n]
  <2>. HIDE DEF P
  <2>1. P \subseteq Nat
    BY <1>1, <1>2
  <2>. QED
    BY <1>5, <2>1, InOrderFacts
<1>7. ASSUME NEW i \in P PROVE pos(i) \in 1 .. Cardinality(P) /\ ids[pos(i)] = i
  <2>1. \E p \in DOMAIN ids : ids[p] = i
    BY DEF ToSet
  <2>2. pos(i) \in DOMAIN ids /\ ids[pos(i)] = i
    BY <2>1
  <2>3. DOMAIN ids = 1 .. Cardinality(P)
    BY <1>2, <1>5
  <2>. HIDE DEF ids, P, pos
  <2>. QED
    BY <2>2, <2>3
<1>. HIDE DEF ids, P, sorted, pos, rank, number
<1>17. ASSUME NEW p \in DOMAIN ids, NEW q \in DOMAIN ids, p < q
       PROVE  number[ids[p]] < number[ids[q]]
  <2>1. ids[p] \in P /\ ids[q] \in P /\ ids[p] \in D /\ ids[q] \in D
    BY <1>2 DEF P, ToSet
  <2>2. pos(ids[p]) = p /\ pos(ids[q]) = q
    <3>1. \A i \in P : pos(i) \in DOMAIN ids /\ ids[pos(i)] = i
      BY <1>2, <1>5, <1>7
    <3>. QED
      BY <1>2, <2>1, <3>1 DEF IsInjective
  <2>3. p \in 1 .. Cardinality(P) /\ q \in 1 .. Cardinality(P)
    BY <1>7, <2>1, <2>2
  <2>4. sorted[p] < sorted[q] /\ sorted[p] \in D /\ sorted[q] \in D
    BY <1>2, <1>6, <1>17, <2>3
  <2>5. rank(sorted[p]) < rank(sorted[q])
    BY <1>4, <2>4
  <2>6. number[ids[p]] = rank(perm(ids[p])) /\ number[ids[q]] = rank(perm(ids[q]))
    <3>. HIDE DEF perm
    <3>. QED
      BY <1>3, <2>1
  <2>. QED
    BY <2>1, <2>2, <2>5, <2>6
<1>8. \A i \in D : perm(i) \in D
  BY <1>2, <1>6, <1>7
<1>9. ASSUME NEW i \in D, NEW j \in D, perm(i) = perm(j) PROVE i = j
  <2>1. CASE i \in P /\ j \in P
    <3>1. sorted[pos(i)] = sorted[pos(j)]
      BY <1>9, <2>1
    <3>2. pos(i) = pos(j)
      BY <1>6, <1>7, <2>1, <3>1 DEF IsInjective
    <3>. QED
      BY <1>7, <2>1, <3>2
  <2>2. CASE i \in P /\ j \notin P
    BY <1>6, <1>7, <1>9, <2>2
  <2>3. CASE i \notin P /\ j \in P
    BY <1>6, <1>7, <1>9, <2>3
  <2>4. CASE i \notin P /\ j \notin P
    BY <1>9, <2>4
  <2>. QED
    BY <2>1, <2>2, <2>3, <2>4
<1>. HIDE DEF perm
<1>10. /\ \A i \in D : number[i] \in T
       /\ \A i, j \in D : number[i] = number[j] => i = j
       /\ number = [i \in D |-> number[i]]
  BY <1>3, <1>4, <1>8, <1>9
<1>11. T \subseteq Nat \ {0}
  OBVIOUS
<1>. HIDE DEF T
<1>12. number \in Injection(D, T)
  BY <1>10 DEF Injection, IsInjective
<1>13. IsFiniteSet(T) /\ Cardinality(T) = N
  <2>. DEFINE L == start + N - 1
  <2>1. L \in Int /\ start \in Int /\ (start > L => N = 0) /\ L - start + 1 = N
    BY <1>1
  <2>. HIDE DEF L, N
  <2>2. IsFiniteSet(start .. L) /\ Cardinality(start .. L) = IF start > L THEN 0 ELSE L - start + 1
    BY <2>1, FS_Interval
  <2>3. T = start .. L
    BY DEF T, L
  <2>. QED
    BY <2>1, <2>2, <2>3
<1>14. number \in Surjection(D, T)
  <2>. HIDE DEF N
  <2>1. IsFiniteSet(T) /\ Cardinality(D) = Cardinality(T)
    BY <1>13 DEF N
  <2>. HIDE DEF D
  <2>. QED
    BY <1>12, <2>1, FS_Injection
<1>15. {number[i] : i \in D} = T
  <2>1. \A t \in T : \E i \in D : number[i] = t
    BY <1>14 DEF Surjection
  <2>. QED
    BY <1>10, <2>1
<1>16. Numbering(number, D)
  BY <1>10, <1>11 DEF Numbering
<1>. QED
  BY <1>1, <1>15, <1>16, <1>17 DEF T, number, ids

\* Renumbering from a start numbers a woven document consecutively.
LEMMA RenumberedWoven ==
    ASSUME NEW d, Woven(d.objects, d.root, DOMAIN d.objects), NEW start \in Nat \ {0}
    PROVE  LET e == Renumbered(d, start)
               N == Cardinality(DOMAIN d.objects)
           IN /\ N \in Nat
              /\ e = [objects |-> e.objects, root |-> e.root]
              /\ Woven(e.objects, e.root, DOMAIN e.objects)
              /\ DOMAIN e.objects = start .. start + N - 1
<1>. DEFINE number == Numbers(d, start)
            e == Renumbered(d, start)
            D == DOMAIN d.objects
            N == Cardinality(D)
<1>1. N \in Nat /\ Numbering(number, D) /\ {number[i] : i \in D} = start .. start + N - 1
  BY NumbersFacts
<1>. HIDE DEF number
<1>2. e = Relabelled(d, number)
  BY DEF Renumbered, number
<1>3. Woven(Relabelled(d, number).objects, Relabelled(d, number).root,
            DOMAIN Relabelled(d, number).objects)
  BY <1>1, RelabelledWoven
<1>4. /\ Relabelled(d, number) = [objects |-> Relabelled(d, number).objects,
                                  root |-> Relabelled(d, number).root]
      /\ DOMAIN Relabelled(d, number).objects = {number[i] : i \in D}
  BY <1>1, RelabelledFacts
<1>. QED
  BY <1>1, <1>2, <1>3, <1>4

\* Renumbering a woven document from 1 on makes it a good one: every object has
\* a number of its own and every reference is carried along.
THEOREM RenumberedGood ==
    ASSUME NEW d, Woven(d.objects, d.root, DOMAIN d.objects)
    PROVE  Good(Renumbered(d, 1))
<1>. DEFINE e == Renumbered(d, 1)
            N == Cardinality(DOMAIN d.objects)
<1>1. /\ N \in Nat
      /\ e = [objects |-> e.objects, root |-> e.root]
      /\ Woven(e.objects, e.root, DOMAIN e.objects)
      /\ DOMAIN e.objects = 1 .. 1 + N - 1
  BY RenumberedWoven, 1 \in Nat \ {0}
<1>. HIDE DEF e, N
<1>2. DOMAIN e.objects = 1 .. Cardinality(DOMAIN e.objects)
  <2>1. DOMAIN e.objects = 1 .. N
    BY <1>1
  <2>2. Cardinality(1 .. N) = N
    <3>1. N \in Int /\ 1 \in Int /\ (1 > N => N = 0) /\ N - 1 + 1 = N
      BY <1>1
    <3>. QED
      BY <3>1, FS_Interval
  <2>. QED
    BY <2>1, <2>2
<1>3. Typed(e) /\ Sound(e)
  BY <1>1, <1>2, WovenSound
<1>. QED
  BY <1>3 DEF Good, e

\* What an operation hands back when it prunes and renumbers.
LEMMA TidiedGood ==
    ASSUME NEW o, IsFiniteSet(DOMAIN o), NEW K \in SUBSET DOMAIN o, NEW root, Woven(o, root, K),
           OfKind(o, "catalog") \cup OfKind(o, "info") \subseteq K, NEW trailer \in BOOLEAN
    PROVE  Good(Renumbered(Pruned([objects |-> o, root |-> root], trailer), 1))
<1>. DEFINE d == [objects |-> o, root |-> root]
            R == Reached(o, {root} \cup OfKind(o, "catalog")
                               \cup (IF trailer THEN OfKind(o, "info") ELSE {}))
            e == Pruned(d, trailer)
            p == [i \in R |-> o[i]]
<1>1. Woven(p, root, R)
  BY PrunedWoven
<1>2. e.objects = p /\ e.root = root
  BY DEF Pruned
<1>3. DOMAIN p = R
  OBVIOUS
<1>. HIDE DEF e, p, R
<1>4. Woven(e.objects, e.root, DOMAIN e.objects)
  BY <1>1, <1>2, <1>3
<1>5. Good(Renumbered(e, 1))
  BY <1>4, RenumberedGood
<1>. QED
  BY <1>5 DEF e

\* A document that is handed back pruned and renumbered.
Tidied(e, o, root, K, trailer) ==
    /\ e = Renumbered(Pruned([objects |-> o, root |-> root], trailer), 1) /\ trailer \in BOOLEAN
    /\ IsFiniteSet(DOMAIN o) /\ K \in SUBSET DOMAIN o /\ Woven(o, root, K)
    /\ OfKind(o, "catalog") \cup OfKind(o, "info") \subseteq K

\* What is pruned and renumbered is handed back good.
LEMMA TidiedHands ==
    ASSUME NEW e, NEW o, NEW root, NEW K, NEW trailer, Tidied(e, o, root, K, trailer)
    PROVE  Good(e)
  BY TidiedGood DEF Tidied

-----------------------------------------------------------------------------
(* Flatten *)

\* A flattened page fits where it was: its widgets' appearances are its forms.
LEMMA FlatPageFits ==
    ASSUME NEW o, NEW D, D = DOMAIN o, Web(o, D), NEW i \in D,
           \A w \in ToSet(WidgetsOf(o, i)) : o[w].appearance # 0,
           NEW o1, NEW K, Within(o, D, o1, K), NEW s \in In(o1, K, {"content"})
    PROVE  LET x == FlatPage(o, i, s)
           IN Stays(x, o[i]) /\ Shaped(x, K) /\ Refers(o1, K, x)
<1>. DEFINE widgets == WidgetsOf(o, i)
            names == FormNames(o, i)
            first(name) == CHOOSE w \in DOMAIN names : names[w] = name
            f == [name \in ToSet(names) |-> o[widgets[first(name)]].appearance]
            x == Materialize(o, i)
            rest == Only(x.annots, D \ OfKind(o, "widget"))
            y == [Painted(x, f, s) EXCEPT !.annots = rest]
<1>1. FlatPage(o, i, s) = y
  <2>1. Painted(x, f, s).annots = x.annots
    <3>1. Shaped(x, D \cup {s})
      <4>1. Shaped(x, D) /\ Refers(o, D, x)
        BY MaterializeFacts
      <4>2. Within(o, D, o, D \cup {s})
        BY DEF Within
      <4>. QED
        BY <4>1, <4>2, Wider
    <3>. HIDE DEF x, f
    <3>. QED
      BY <3>1, PaintedFacts
  <2>. QED
    BY <2>1 DEF FlatPage
<1>2. Shaped(x, D) /\ Refers(o, D, x) /\ Stays(x, o[i])
  BY MaterializeFacts
<1>3. Shaped(x, K) /\ Refers(o1, K, x)
  BY <1>2, Wider
<1>4. widgets \in Seq(D)
  <2>1. o[i].annots \in Seq(D)
    BY DEF Web, Shaped
  <2>2. widgets \in Seq(D \cap OfKind(o, "widget"))
    BY <2>1, OnlyFacts DEF WidgetsOf
  <2>. QED
    BY <2>2
<1>5. DOMAIN names = DOMAIN widgets
  BY DEF FormNames
<1>6. ASSUME NEW name \in ToSet(names) PROVE f[name] \in In(o1, K, {"state", "form"})
  <2>1. \E w \in DOMAIN names : names[w] = name
    BY DEF ToSet
  <2>2. first(name) \in DOMAIN widgets
    BY <1>5, <2>1
  <2>. DEFINE w == widgets[first(name)]
  <2>3. w \in D /\ w \in ToSet(widgets)
    <3>. HIDE DEF widgets, names, first
    <3>. QED
      BY <1>4, <2>2 DEF ToSet
  <2>4. f[name] = o[w].appearance
    OBVIOUS
  <2>. HIDE DEF w, f, widgets, names
  <2>5. o[w].appearance # 0
    BY <2>3 DEF widgets
  <2>6. o[w].appearance \in In(o, D, {"form"}) \cup {0}
    BY <2>3 DEF Web, Refers
  <2>. QED
    BY <2>4, <2>5, <2>6 DEF In, Within
<1>7. DOMAIN f = ToSet(names)
  OBVIOUS
<1>8. rest \in Seq(K) /\ ToSet(rest) \subseteq In(o1, K, Annotations)
  <2>. HIDE DEF x
  <2>1. x.annots \in Seq(K) /\ ToSet(x.annots) \subseteq In(o1, K, Annotations)
    BY <1>3 DEF Shaped, Refers
  <2>. DEFINE S == D \ OfKind(o, "widget")
              a == x.annots
  <2>. HIDE DEF S, a
  <2>2. Only(a, S) \in Seq(K \cap S) /\ ToSet(Only(a, S)) = ToSet(a) \cap S
    BY <2>1, OnlyFacts DEF a
  <2>3. Only(a, S) \in Seq(K)
    BY <2>2
  <2>. QED
    BY <2>1, <2>2, <2>3 DEF S, a
<1>. HIDE DEF f, rest, x
<1>9. Shaped(y, K) /\ Refers(o1, K, y) /\ Stays(y, x)
  BY <1>3, <1>6, <1>7, <1>8, PaintedFits
<1>. HIDE DEF y
<1>. QED
  BY <1>1, <1>2, <1>9 DEF Stays

\* The document that is flattened, before it is pruned: each page with widgets
\* has a stream that draws their forms.
FormUses(o, i) == LET names == FormNames(o, i) IN [w \in DOMAIN names |-> Use(names[w])]

Flattened(o2, o, flat, last) ==
    /\ o2 = [i \in DOMAIN o2 |-> o2[i]]
    /\ flat = {i \in OfKind(o, "page") : WidgetsOf(o, i) # <<>>}
    /\ \A i \in OfKind(o, "page") \ flat : o2[i] = o[i]
    /\ \A i \in flat :
          LET s == StreamOf(last, flat, i)
          IN s \in DOMAIN o2 /\ o2[s].draws = FormUses(o, i) /\ o2[i] = FlatPage(o, i, s)
    /\ \A i \in flat : \A w \in ToSet(WidgetsOf(o, i)) : o[w].appearance # 0

\* flatten.rs leaves a document without widgets as it is, and prunes another
\* once it is flattened.
LEMMA FlattenBuilt ==
    ASSUME Good(doc), Flatten
    PROVE  \/ doc' = doc /\ \A i \in OfKind(doc.objects, "page") : WidgetsOf(doc.objects, i) = <<>>
           \/ \E o2, flat, last :
                 /\ Tidied(doc', o2, doc.root, DOMAIN o2, TRUE) /\ Touched(o2, doc.objects)
                 /\ Flattened(o2, doc.objects, flat, last)
<1>. DEFINE o == doc.objects
            D == DOMAIN o
            N == Cardinality(D)
            flat == {i \in ToSet(PageIds(doc)) : WidgetsOf(o, i) # <<>>}
            last == Max(D)
            pages == [i \in flat |-> FlatPage(o, i, StreamOf(last, flat, i))]
            draws == [i \in flat |-> LET names == FormNames(o, i)
                                     IN [w \in DOMAIN names |-> Use(names[w])]]
            streams == Streams(last, draws)
            noForm == [i \in OfKind(o, "catalog") |-> [o[i] EXCEPT !.annots = <<>>]]
            o1 == Overlay(streams, o)
            o2 == Overlay(noForm, o1)
            o3 == Overlay(pages, o2)
            M == Cardinality(flat)
            K == 1 .. N + M
<1>1. /\ doc = [objects |-> o, root |-> doc.root] /\ Woven(o, doc.root, D) /\ Web(o, D)
      /\ N \in Nat \ {0} /\ D = 1 .. N /\ last = N
  BY GoodFacts, LastNumber
<1>2. /\ flat \subseteq OfKind(o, "page") /\ flat \subseteq D
      /\ flat = {i \in OfKind(o, "page") : WidgetsOf(o, i) # <<>>}
  <2>1. ToSet(PageIds(doc)) = OfKind(o, "page")
    BY <1>1, WovenPages
  <2>. QED
    BY <2>1 DEF OfKind
<1>3. \A i \in flat : \A w \in ToSet(WidgetsOf(o, i)) : o[w].appearance # 0
  BY DEF Flatten
<1>4. doc' = IF flat = {} THEN doc
             ELSE Renumbered(Pruned([doc EXCEPT !.objects = o3], TRUE), 1)
  BY DEF Flatten, Answer
<1>. HIDE DEF last, flat, N
<1>5. [doc EXCEPT !.objects = o3] = [objects |-> o3, root |-> doc.root]
  <2>. HIDE DEF o3, o
  <2>. QED
    BY <1>1
<1>6. /\ M \in Nat /\ DOMAIN streams = last + 1 .. last + M
      /\ \A i \in flat : StreamOf(last, flat, i) \in DOMAIN streams
      /\ \A s \in DOMAIN streams : Plain(streams[s], "content")
      /\ \A i \in flat : streams[StreamOf(last, flat, i)].draws = FormUses(o, i)
  <2>0. \A i \in flat : draws[i] = FormUses(o, i)
    BY DEF FormUses
  <2>1. DOMAIN draws = flat /\ last \in Nat
    BY <1>1
  <2>. HIDE DEF draws
  <2>2. /\ M \in Nat /\ DOMAIN streams = last + 1 .. last + M
        /\ \A i \in flat : StreamOf(last, flat, i) \in DOMAIN streams
        /\ \A s \in DOMAIN streams : Plain(streams[s], "content")
        /\ \A i \in flat : streams[StreamOf(last, flat, i)].draws = draws[i]
    <3>. HIDE DEF o
    <3>1. Woven(doc.objects, doc.root, DOMAIN doc.objects) /\ flat \subseteq OfKind(doc.objects, "page")
      BY <1>1, <1>2 DEF o
    <3>2. \A i \in flat : Streams(last, draws)[StreamOf(last, flat, i)].draws = draws[i]
      BY <2>1, <3>1, StreamDraws DEF Drawing
    <3>3. /\ M \in Nat /\ DOMAIN streams = last + 1 .. last + M
          /\ \A i \in flat : StreamOf(last, flat, i) \in DOMAIN streams
          /\ \A s \in DOMAIN streams : Plain(streams[s], "content")
      BY <2>1, <3>1, StreamFacts
    <3>. QED
      BY <3>2, <3>3
  <2>. QED
    BY <2>0, <2>2
<1>7. DOMAIN pages = flat /\ DOMAIN noForm = OfKind(o, "catalog")
  OBVIOUS
<1>. HIDE DEF streams, M, K, pages
<1>8. /\ DOMAIN o1 = K
      /\ \A i \in D : o1[i] = o[i]
      /\ \A i \in K \ D : Plain(o1[i], "content") /\ i \in DOMAIN streams
      /\ \A s \in DOMAIN streams : s \in K /\ s \notin D /\ o1[s] = streams[s]
  <2>1. DOMAIN streams \cap D = {} /\ D \cup DOMAIN streams = K
    BY <1>1, <1>6 DEF K
  <2>2. /\ DOMAIN o1 = DOMAIN streams \cup D
        /\ \A s \in DOMAIN streams : o1[s] = streams[s]
        /\ \A i \in D : o1[i] = o[i]
    <3>1. \A i \in D : i \notin DOMAIN streams
      BY <2>1
    <3>. QED
      BY <3>1 DEF Overlay
  <2>. HIDE DEF o1
  <2>3. \A i \in K \ D : i \in DOMAIN streams
    BY <2>1
  <2>4. \A i \in K \ D : Plain(o1[i], "content")
    BY <1>6, <2>2, <2>3
  <2>. QED
    BY <2>1, <2>2, <2>3, <2>4
<1>. HIDE DEF o1, noForm
<1>9. K \subseteq Nat \ {0} /\ IsFiniteSet(K) /\ D \subseteq K
  <2>. DEFINE L == N + M
  <2>1. L \in Nat /\ N <= L
    BY <1>1, <1>6
  <2>2. K = 1 .. L
    BY DEF K
  <2>. HIDE DEF L
  <2>3. IsFiniteSet(1 .. L)
    BY <2>1, FS_Interval
  <2>. QED
    BY <1>1, <2>1, <2>2, <2>3
<1>10. Within(o, D, o1, K)
  BY <1>8, <1>9 DEF Within
<1>11. ASSUME NEW i \in OfKind(o, "catalog")
       PROVE  Stays(noForm[i], o[i]) /\ Shaped(noForm[i], K) /\ Refers(o1, K, noForm[i])
  <2>. DEFINE x == o[i]
              y == noForm[i]
  <2>1. Shaped(x, D) /\ Refers(o, D, x)
    BY <1>1 DEF Web, OfKind
  <2>. HIDE DEF x
  <2>2. Shaped(x, K) /\ Refers(o1, K, x)
    BY <1>10, <2>1, Wider
  <2>3. y = [x EXCEPT !.annots = <<>>]
    BY DEF noForm, x
  <2>4. DOMAIN x = {"kind", "parent", "kids", "contents", "draws", "annots", "appearance",
                    "label", "attributes"}
    BY <2>2 DEF Shaped, Object
  <2>. HIDE DEF y
  <2>5. /\ DOMAIN y = DOMAIN x
        /\ y.kind = x.kind /\ y.parent = x.parent /\ y.kids = x.kids
        /\ y.contents = x.contents /\ y.annots = <<>> /\ y.appearance = x.appearance
        /\ y.attributes = x.attributes
    BY <2>3, <2>4
  <2>6. ToSet(<<>>) = {} /\ <<>> \in Seq(K)
    BY DEF ToSet
  <2>7. Shaped(y, K)
    BY <2>2, <2>5, <2>6 DEF Shaped
  <2>8. Refers(o1, K, y)
    BY <2>2, <2>5, <2>6 DEF Refers
  <2>. QED
    BY <2>5, <2>7, <2>8 DEF Stays, x, y
<1>12. ASSUME NEW i \in flat
       PROVE  Stays(pages[i], o[i]) /\ Shaped(pages[i], K) /\ Refers(o1, K, pages[i])
  <2>. DEFINE s == StreamOf(last, flat, i)
  <2>1. s \in In(o1, K, {"content"})
    BY <1>6, <1>8 DEF In, Plain
  <2>2. pages[i] = FlatPage(o, i, s)
    BY DEF pages
  <2>. HIDE DEF s
  <2>. QED
    BY <1>1, <1>2, <1>3, <1>10, <2>1, <2>2, FlatPageFits
<1>13. ASSUME NEW i \in K PROVE Shaped(o1[i], K) /\ Refers(o1, K, o1[i])
  <2>1. CASE i \in D
    <3>1. Shaped(o[i], D) /\ Refers(o, D, o[i])
      BY <1>1, <2>1 DEF Web
    <3>. QED
      BY <1>8, <1>10, <2>1, <3>1, Wider
  <2>2. CASE i \notin D
    <3>1. "content" \in Kinds
      BY DEF Kinds
    <3>. QED
      BY <1>8, <2>2, <3>1, PlainFits
  <2>. QED
    BY <2>1, <2>2
<1>14. /\ DOMAIN o3 = K
       /\ \A i \in flat : o3[i] = pages[i]
       /\ \A i \in OfKind(o, "catalog") : o3[i] = noForm[i]
       /\ \A i \in K \ (flat \cup OfKind(o, "catalog")) : o3[i] = o1[i]
  <2>1. /\ DOMAIN o2 = OfKind(o, "catalog") \cup K
        /\ \A i \in OfKind(o, "catalog") : o2[i] = noForm[i]
        /\ \A i \in K \ OfKind(o, "catalog") : o2[i] = o1[i]
    <3>1. DOMAIN noForm = OfKind(o, "catalog") /\ DOMAIN o1 = K
      BY <1>7, <1>8
    <3>. QED
      BY <3>1 DEF Overlay
  <2>. HIDE DEF o2
  <2>2. /\ DOMAIN o3 = flat \cup DOMAIN o2
        /\ \A i \in flat : o3[i] = pages[i]
        /\ \A i \in DOMAIN o2 \ flat : o3[i] = o2[i]
    <3>1. DOMAIN pages = flat
      BY <1>7
    <3>. QED
      BY <3>1 DEF Overlay
  <2>3. flat \cap OfKind(o, "catalog") = {} /\ flat \subseteq K /\ OfKind(o, "catalog") \subseteq K
    BY <1>2, <1>9 DEF OfKind
  <2>. HIDE DEF o3
  <2>. QED
    BY <2>1, <2>2, <2>3
<1>. HIDE DEF o3
<1>15. \A i \in K : /\ i \in D => Stays(o3[i], o[i])
                    /\ Shaped(o3[i], K) /\ Refers(o1, K, o3[i])
                    /\ i \notin D => Plain(o3[i], "content")
  <2>. SUFFICES ASSUME NEW i \in K
                PROVE  /\ i \in D => Stays(o3[i], o[i])
                       /\ Shaped(o3[i], K) /\ Refers(o1, K, o3[i])
                       /\ i \notin D => Plain(o3[i], "content")
    OBVIOUS
  <2>1. CASE i \in flat
    BY <1>2, <1>12, <1>14, <2>1
  <2>2. CASE i \in OfKind(o, "catalog")
    BY <1>11, <1>14, <2>2 DEF OfKind
  <2>3. CASE i \notin flat \cup OfKind(o, "catalog")
    BY <1>8, <1>13, <1>14, <2>3 DEF Stays
  <2>. QED
    BY <2>1, <2>2, <2>3
<1>16. \A x : Refers(o1, K, x) => Refers(o3, K, x)
  <2>1. \A i \in K : o3[i].kind = o1[i].kind
    BY <1>8, <1>15 DEF Stays, Plain
  <2>2. \A kinds : In(o1, K, kinds) = In(o3, K, kinds)
    BY <2>1 DEF In
  <2>. QED
    BY <2>2 DEF Refers
<1>17. Woven(o3, doc.root, K)
  <2>1. \A i \in K \ D : o3[i].kind \in {"content", "state"} /\ o3[i].parent = 0 /\ o3[i].kids = <<>>
    BY <1>15 DEF Plain
  <2>. HIDE DEF o, D
  <2>. QED
    BY <1>1, <1>9, <1>15, <1>16, <2>1, Extended
<1>18. CASE flat # {}
  <2>1. IsFiniteSet(DOMAIN o3) /\ K \in SUBSET DOMAIN o3 /\ K = DOMAIN o3
        /\ OfKind(o3, "catalog") \cup OfKind(o3, "info") \subseteq K
    BY <1>9, <1>14 DEF OfKind
  <2>2. Tidied(doc', o3, doc.root, DOMAIN o3, TRUE)
    BY <1>4, <1>5, <1>17, <1>18, <2>1 DEF Tidied
  <2>3. Touched(o3, o)
    <3>1. \A j \in D : o[j].kind \notin {"page", "catalog"} => o3[j] = o[j]
      BY <1>2, <1>8, <1>9, <1>14 DEF OfKind
    <3>. QED
      BY <1>1, <1>9, <1>14, <1>15, <1>17, <3>1 DEF Touched, Woven
  <2>4. Flattened(o3, o, flat, last)
    <3>1. o3 = [i \in DOMAIN o3 |-> o3[i]]
      BY DEF o3, Overlay
    <3>2. \A i \in OfKind(o, "page") \ flat : o3[i] = o[i]
      BY <1>8, <1>9, <1>14 DEF OfKind
    <3>3. ASSUME NEW i \in flat
          PROVE  LET s == StreamOf(last, flat, i)
                 IN s \in DOMAIN o3 /\ o3[s].draws = FormUses(o, i) /\ o3[i] = FlatPage(o, i, s)
      <4>. DEFINE s == StreamOf(last, flat, i)
      <4>1. s \in DOMAIN streams /\ streams[s].draws = FormUses(o, i)
        BY <1>6
      <4>2. s \in K /\ s \notin D /\ o1[s] = streams[s]
        BY <1>8, <4>1
      <4>3. o3[s] = o1[s]
        BY <1>2, <1>14, <4>2 DEF OfKind
      <4>4. o3[i] = FlatPage(o, i, s)
        BY <1>14 DEF pages
      <4>. QED
        BY <1>14, <4>1, <4>2, <4>3, <4>4
    <3>. QED
      BY <1>2, <1>3, <3>1, <3>2, <3>3 DEF Flattened
  <2>. QED
    BY <2>2, <2>3, <2>4
<1>19. CASE flat = {}
  BY <1>2, <1>4, <1>19
<1>. QED
  BY <1>18, <1>19

\* flatten.rs hands back a good document.
LEMMA FlattenGood ==
    ASSUME Good(doc), Flatten
    PROVE  Good(doc')
  BY FlattenBuilt, TidiedHands

-----------------------------------------------------------------------------
(* A new and flat tree *)

\* One node that lists all pages, which have it as parent, makes a woven tree.
LEMMA FlatWoven ==
    ASSUME NEW o, NEW K, K \subseteq Nat \ {0}, IsFiniteSet(K), NEW tree \in K,
           \A i \in K : Shaped(o[i], K) /\ Refers(o, K, o[i]),
           o[tree].kind = "pages", o[tree].parent = 0,
           ToSet(o[tree].kids) = In(o, K, {"page"}), In(o, K, {"page"}) # {},
           \A i \in K \ {tree} : o[i].kind # "pages",
           \A i \in K \ {tree} : o[i].parent = IF o[i].kind = "page" THEN tree ELSE 0,
           Cardinality(In(o, K, {"catalog"})) = 1
    PROVE  Woven(o, tree, K)
<1>1. ASSUME NEW i \in K, NEW j \in K PROVE i \in ToSet(o[j].kids) <=> o[i].parent = j
  <2>0. j # 0
    OBVIOUS
  <2>1. CASE j = tree
    BY <2>0, <2>1 DEF In
  <2>2. CASE j # tree
    <3>1. o[j].kids = <<>>
      BY <2>2 DEF Refers
    <3>2. i \notin ToSet(o[j].kids)
      BY <3>1 DEF ToSet
    <3>3. o[i].parent \in {tree, 0}
      BY <2>0
    <3>. QED
      BY <2>0, <2>2, <3>2, <3>3
  <2>. QED
    BY <2>1, <2>2
<1>2. Web(o, K)
  BY <1>1 DEF Web
<1>3. ASSUME NEW p \in In(o, K, {"page"}) PROVE \E n \in 0 .. MaxLevels : Above(o, p, n) = tree
  <2>1. Upwards(o, K) /\ p \in K /\ p # 0 /\ p # tree /\ o[p].kind = "page"
    BY <1>2, WebUpwards DEF In
  <2>2. Above(o, p, 0) = p /\ Above(o, p, 0 + 1) = o[p].parent
    <3>1. 0 \in Nat
      OBVIOUS
    <3>. QED
      BY <2>1, <3>1, AboveRec
  <2>3. Above(o, p, 1) = tree
    BY <2>1, <2>2
  <2>4. 1 \in 0 .. MaxLevels
    BY LevelsAssumption
  <2>. QED
    BY <2>3, <2>4
<1>4. Rooted(o, tree, K)
  BY <1>3 DEF Rooted, In
<1>. QED
  BY <1>2, <1>4 DEF Woven

\* The same object elsewhere in the tree.
Elsewhere(y, x) ==
    /\ DOMAIN y = DOMAIN x
    /\ y.kind = x.kind /\ y.kids = x.kids /\ y.contents = x.contents /\ y.annots = x.annots
    /\ y.appearance = x.appearance /\ y.draws = x.draws /\ y.label = x.label
    /\ y.attributes = x.attributes

\* A page under a new tree differs by its parent.
LEMMA UnderTreeFacts ==
    ASSUME NEW x, NEW K, Shaped(x, K), NEW tree
    PROVE  Elsewhere(UnderTree(x, tree), x) /\ UnderTree(x, tree).parent = tree
<1>1. DOMAIN x = {"kind", "parent", "kids", "contents", "draws", "annots", "appearance",
                  "label", "attributes"}
  BY DEF Shaped, Object
<1>2. UnderTree(x, tree) = [x EXCEPT !.parent = tree]
  BY DEF UnderTree
<1>. QED
  BY <1>1, <1>2 DEF Elsewhere

\* What does not list anything fits where everything it refers to is.
LEMMA Replanted ==
    ASSUME NEW o, NEW D, NEW x, Shaped(x, D), Refers(o, D, x), x.kind # "pages",
           NEW o2, NEW K, \A j \in D : o[j].kind \notin {"catalog", "page", "pages"} =>
                                          j \in K /\ o2[j].kind = o[j].kind,
           NEW y, Elsewhere(y, x), y.parent \in K \cup {0}
    PROVE  Shaped(y, K) /\ Refers(o2, K, y)
<1>1. /\ In(o, D, {"content"}) \subseteq In(o2, K, {"content"})
      /\ In(o, D, Annotations) \subseteq In(o2, K, Annotations)
      /\ In(o, D, {"form"}) \subseteq In(o2, K, {"form"})
      /\ In(o, D, {"state", "form"}) \subseteq In(o2, K, {"state", "form"})
  BY DEF In, Annotations
<1>2. x.kids = <<>> /\ ToSet(<<>>) = {} /\ <<>> \in Seq(K)
  BY DEF Refers, ToSet
<1>3. x.contents \in Seq(K) /\ x.annots \in Seq(K)
  <2>1. ToSet(x.contents) \subseteq K /\ ToSet(x.annots) \subseteq K
    BY <1>1 DEF Refers, In
  <2>2. x.contents \in Seq(D) /\ x.annots \in Seq(D)
    BY DEF Shaped
  <2>. QED
    BY <2>1, <2>2, SeqNarrowed
<1>4. Shaped(y, K)
  BY <1>2, <1>3 DEF Shaped, Elsewhere
<1>5. Refers(o2, K, y)
  BY <1>1, <1>2 DEF Refers, Elsewhere
<1>. QED
  BY <1>4, <1>5

\* Only what the tree lists has a parent.
LEMMA NoParent ==
    ASSUME NEW o, NEW K, Web(o, K), NEW i \in K, o[i].kind \notin {"page", "pages"}
    PROVE  o[i].parent = 0
<1>1. o[i].parent \in K \cup {0}
  BY DEF Web, Shaped
<1>2. \A j \in K : i \notin ToSet(o[j].kids)
  BY DEF Web, Refers, In
<1>3. \A j \in K : o[i].parent # j
  BY <1>2 DEF Web
<1>. QED
  BY <1>1, <1>3

-----------------------------------------------------------------------------
(* Reorder *)

\* As many different positions as there are are all of them.
LEMMA Permuted ==
    ASSUME NEW S, NEW s \in Seq(S), IsInjective(s), NEW order \in Seq(Int), Len(order) = Len(s),
           Cardinality(ToSet(order)) = Len(order), ToSet(order) \subseteq 1 .. Len(s)
    PROVE  LET kids == [p \in DOMAIN order |-> s[order[p]]]
           IN kids \in Seq(S) /\ IsInjective(kids) /\ ToSet(kids) = ToSet(s)
<1>. DEFINE L == Len(s)
            T == 1 .. L
            kids == [p \in DOMAIN order |-> s[order[p]]]
<1>1. L \in Nat /\ DOMAIN s = T /\ DOMAIN order = T /\ \A p \in T : s[p] \in S
  OBVIOUS
<1>. HIDE DEF L
<1>2. IsFiniteSet(T) /\ Cardinality(T) = L
  BY <1>1, FS_Interval
<1>3. ToSet(order) = T
  <2>1. ToSet(order) \in SUBSET T /\ Cardinality(ToSet(order)) = L
    BY DEF L
  <2>. QED
    BY <1>2, <2>1, FS_Subset
<1>. HIDE DEF T
<1>4. order \in Surjection(T, T)
  <2>1. order \in [T -> T]
    <3>1. \A p \in T : order[p] \in T
      BY <1>1, <1>3 DEF ToSet
    <3>2. order = [p \in DOMAIN order |-> order[p]]
      OBVIOUS
    <3>. QED
      BY <1>1, <3>1, <3>2
  <2>. QED
    BY <1>1, <1>3, <2>1 DEF Surjection, ToSet
<1>5. IsInjective(order)
  BY <1>2, <1>4, FS_Surjection DEF Injection
<1>6. \A p \in T : order[p] \in T /\ kids[p] = s[order[p]]
  BY <1>1, <1>3 DEF ToSet
<1>7. DOMAIN kids = T
  BY <1>1
<1>8. kids \in Seq(S)
  BY <1>1, <1>6 DEF T
<1>9. IsInjective(kids)
  BY <1>1, <1>5, <1>6, <1>7 DEF IsInjective
<1>10. ToSet(kids) = ToSet(s)
  <2>1. ASSUME NEW x \in ToSet(s) PROVE x \in ToSet(kids)
    <3>1. PICK p \in T : s[p] = x
      BY <1>1 DEF ToSet
    <3>2. PICK q \in T : order[q] = p
      BY <1>1, <1>3 DEF ToSet
    <3>. QED
      BY <1>6, <1>7, <3>1, <3>2 DEF ToSet
  <2>2. ToSet(kids) \subseteq ToSet(s)
    BY <1>1, <1>6, <1>7 DEF ToSet
  <2>. QED
    BY <2>1, <2>2
<1>. QED
  BY <1>8, <1>9, <1>10

\* A node of the tree that lists pages.
LEMMA TreeFacts ==
    ASSUME NEW kids
    PROVE  LET x == [Object("pages") EXCEPT !.kids = kids]
           IN /\ DOMAIN x = DOMAIN Object("page")
              /\ x.kind = "pages" /\ x.parent = 0 /\ x.kids = kids
              /\ x.contents = <<>> /\ x.annots = <<>> /\ x.appearance = 0
              /\ x.attributes = <<>>
BY DEF Object

\* A new node fits where the pages it lists are.
LEMMA TreeFits ==
    ASSUME NEW o, NEW K, NEW kids \in Seq(K), IsInjective(kids),
           ToSet(kids) \subseteq In(o, K, {"page", "pages"}),
           NEW x, x = [Object("pages") EXCEPT !.kids = kids]
    PROVE  Shaped(x, K) /\ Refers(o, K, x) /\ x.kind = "pages" /\ x.parent = 0 /\ x.kids = kids
<1>1. /\ DOMAIN x = DOMAIN Object("page")
      /\ x.kind = "pages" /\ x.parent = 0 /\ x.kids = kids
      /\ x.contents = <<>> /\ x.annots = <<>> /\ x.appearance = 0
      /\ x.attributes = <<>>
  BY TreeFacts
<1>2. <<>> \in Seq(K) /\ ToSet(<<>>) = {} /\ "pages" \in Kinds
  BY DEF ToSet, Kinds
<1>3. Shaped(x, K)
  BY <1>1, <1>2, NoAttributes DEF Shaped
<1>4. Refers(o, K, x)
  BY <1>1, <1>2, NoAttributes DEF Refers
<1>. QED
  BY <1>1, <1>3, <1>4

\* validate_order: a valid order lists each page once.
LEMMA OrderOfPages ==
    ASSUME Woven(doc.objects, doc.root, DOMAIN doc.objects),
           NEW order \in SeqOf(0 .. MaxPages, MaxPages), ValidOrder(order)
    PROVE  LET pages == PageIds(doc)
               kids == [p \in DOMAIN order |-> pages[order[p]]]
               P == OfKind(doc.objects, "page")
           IN kids \in Seq(P) /\ IsInjective(kids) /\ ToSet(kids) = P
<1>. DEFINE pages == PageIds(doc)
            P == OfKind(doc.objects, "page")
<1>1. pages \in Seq(DOMAIN doc.objects) /\ IsInjective(pages) /\ ToSet(pages) = P
  BY WovenPages
<1>2. order \in Seq(Int)
  <2>1. PICK m \in 0 .. MaxPages : order \in [1 .. m -> 0 .. MaxPages]
    BY DEF SeqOf
  <2>. QED
    BY <2>1
<1>. HIDE DEF pages, P
<1>3. pages \in Seq(P)
  BY <1>1, SeqNarrowed
<1>4. /\ Len(order) = Len(pages) /\ Cardinality(ToSet(order)) = Len(order)
      /\ ToSet(order) \subseteq 1 .. Len(pages)
  BY DEF ValidOrder, pages
<1>5. LET kids == [p \in DOMAIN order |-> pages[order[p]]]
      IN kids \in Seq(P) /\ IsInjective(kids) /\ ToSet(kids) = ToSet(pages)
  BY <1>1, <1>2, <1>3, <1>4, Permuted
<1>. QED
  BY <1>1, <1>5 DEF pages, P

\* The pages of a document, with what they inherit, and what they refer to,
\* under a tree that is one node.
Planted(o2, K, o, tree) ==
    /\ tree \in K /\ o2[tree].kind = "pages" /\ o2[tree].attributes = <<>>
    /\ \A i \in K \ {tree} : o2[i].kind # "pages"
    /\ \A i \in OfKind(o, "page") : i \in K /\ Elsewhere(o2[i], Materialize(o, i))
    /\ \A j \in DOMAIN o : o[j].kind \notin {"catalog", "page", "pages"} => j \in K /\ o2[j] = o[j]

InOrderOf(order) == [p \in DOMAIN order |-> PageIds(doc)[order[p]]]

\* reorder.rs hands back a document in which a new and flat tree lists the pages
\* in the order asked for.
LEMMA ReorderBuilt ==
    ASSUME Good(doc), NEW order \in SeqOf(0 .. MaxPages, MaxPages), Reorder(order)
    PROVE  \E o2, K, tree : /\ Tidied(doc', o2, tree, K, TRUE)
                            /\ Planted(o2, K, doc.objects, tree)
                            /\ o2[tree].kids = InOrderOf(order)
                            /\ In(o2, K, {"page"}) = OfKind(doc.objects, "page")
<1>. DEFINE o == doc.objects
            D == DOMAIN o
            N == Cardinality(D)
            P == OfKind(o, "page")
            tree == Max(D) + 1
            kids == [p \in DOMAIN order |-> PageIds(doc)[order[p]]]
            moved == [i \in ToSet(kids) |-> UnderTree(Materialize(o, i), tree)]
            top == [i \in {tree} |-> [Object("pages") EXCEPT !.kids = kids]]
            o1 == Overlay(moved, o)
            o2 == Overlay(top, o1)
            K == (D \ OfKind(o, "pages")) \cup {tree}
<1>1. /\ Woven(o, doc.root, D) /\ Web(o, D) /\ Rooted(o, doc.root, D)
      /\ N \in Nat \ {0} /\ D = 1 .. N /\ tree = N + 1
  BY GoodFacts, LastNumber DEF Woven
<1>2. kids \in Seq(P) /\ IsInjective(kids) /\ ToSet(kids) = P
  BY <1>1, OrderOfPages DEF Reorder
<1>3. doc' = Renumbered(Pruned([objects |-> o2, root |-> tree], TRUE), 1)
  BY DEF Reorder, Answer
<1>. HIDE DEF N, tree, kids
<1>4. tree \in Nat \ {0} /\ tree \notin D /\ P \subseteq D
  BY <1>1 DEF OfKind
<1>5. /\ DOMAIN o2 = D \cup {tree}
      /\ o2[tree] = [Object("pages") EXCEPT !.kids = kids]
      /\ \A i \in P : o2[i] = UnderTree(Materialize(o, i), tree)
      /\ \A i \in D \ P : o2[i] = o[i]
  <2>1. /\ DOMAIN o1 = P \cup D
        /\ \A i \in P : o1[i] = UnderTree(Materialize(o, i), tree)
        /\ \A i \in D \ P : o1[i] = o[i]
    <3>1. DOMAIN moved = P /\ \A i \in P : moved[i] = UnderTree(Materialize(o, i), tree)
      BY <1>2
    <3>. HIDE DEF moved, P
    <3>. QED
      BY <3>1 DEF Overlay
  <2>2. DOMAIN top = {tree} /\ top[tree] = [Object("pages") EXCEPT !.kids = kids]
    OBVIOUS
  <2>. HIDE DEF o1, top, P
  <2>3. /\ DOMAIN o2 = {tree} \cup DOMAIN o1
        /\ o2[tree] = top[tree]
        /\ \A i \in DOMAIN o1 \ {tree} : o2[i] = o1[i]
    BY <2>2 DEF Overlay
  <2>. HIDE DEF o2
  <2>. QED
    BY <1>4, <2>1, <2>2, <2>3
<1>. HIDE DEF o2, moved, top
<1>6. ASSUME NEW i \in P
      PROVE  LET x == Materialize(o, i)
             IN /\ Shaped(x, D) /\ Refers(o, D, x) /\ x.kind = "page"
                /\ Elsewhere(o2[i], x) /\ o2[i].parent = tree
  <2>. DEFINE x == Materialize(o, i)
  <2>1. Shaped(x, D) /\ Refers(o, D, x) /\ Stays(x, o[i])
    BY <1>1, <1>4, MaterializeFacts
  <2>2. x.kind = "page"
    BY <2>1 DEF Stays, OfKind
  <2>. HIDE DEF x
  <2>3. Elsewhere(UnderTree(x, tree), x) /\ UnderTree(x, tree).parent = tree
    BY <2>1, UnderTreeFacts
  <2>. QED
    BY <1>5, <2>1, <2>2, <2>3 DEF x
<1>7. ASSUME NEW i \in D \ (P \cup OfKind(o, "pages"))
      PROVE  /\ Shaped(o[i], D) /\ Refers(o, D, o[i])
             /\ o[i].kind \notin {"page", "pages"} /\ o[i].parent = 0
             /\ o2[i] = o[i]
  <2>1. o[i].kind \notin {"page", "pages"}
    BY DEF OfKind
  <2>2. o[i].parent = 0
    BY <1>1, <2>1, NoParent
  <2>. QED
    BY <1>1, <1>5, <2>1, <2>2 DEF Web
<1>8. tree \in K /\ P \subseteq K /\ K \subseteq D \cup {tree}
      /\ \A i \in K : i = tree \/ i \in P \/ i \in D \ (P \cup OfKind(o, "pages"))
  BY <1>4 DEF OfKind
<1>9. \A j \in D : o[j].kind # "pages" => j \in K /\ o2[j].kind = o[j].kind
  <2>1. \A j \in P : o2[j].kind = o[j].kind
    BY <1>6 DEF Elsewhere, OfKind
  <2>. QED
    BY <1>5, <2>1 DEF OfKind
<1>10. o2[tree].kind = "pages"
  BY <1>5, TreeFacts
<1>11. /\ In(o2, K, {"page"}) = P
       /\ In(o2, K, {"catalog"}) = In(o, D, {"catalog"})
  <2>1. \A i \in K \ {tree} : o2[i].kind = o[i].kind /\ i \in D
    BY <1>8, <1>9 DEF OfKind
  <2>2. \A i \in D : o[i].kind \in {"page", "catalog"} => i \in K \ {tree}
    BY <1>4, <1>9
  <2>. HIDE DEF K
  <2>. QED
    BY <1>10, <2>1, <2>2 DEF In, OfKind
<1>12. IsFiniteSet(D \cup {tree}) /\ K \subseteq Nat \ {0} /\ IsFiniteSet(K)
  <2>1. IsFiniteSet(D)
    BY <1>1 DEF Web
  <2>2. IsFiniteSet(D \cup {tree})
    BY <2>1, FS_AddElement
  <2>3. K \in SUBSET (D \cup {tree}) /\ D \subseteq Nat \ {0}
    BY <1>1, <1>8 DEF Web
  <2>. QED
    BY <1>4, <2>2, <2>3, FS_Subset
<1>. HIDE DEF K, P
<1>13. ASSUME NEW i \in K
       PROVE  Shaped(o2[i], K) /\ Refers(o2, K, o2[i])
  <2>1. CASE i = tree
    <3>1. kids \in Seq(K)
      BY <1>2, <1>8
    <3>2. ToSet(kids) \subseteq In(o2, K, {"page", "pages"})
      BY <1>2, <1>11 DEF In
    <3>. QED
      BY <1>2, <1>5, <2>1, <3>1, <3>2, TreeFits
  <2>2. CASE i \in P
    <3>. DEFINE x == Materialize(o, i)
    <3>1. /\ Shaped(x, D) /\ Refers(o, D, x) /\ x.kind # "pages"
          /\ Elsewhere(o2[i], x) /\ o2[i].parent \in K \cup {0}
      BY <1>6, <1>8, <2>2
    <3>2. \A j \in D : o[j].kind \notin {"catalog", "page", "pages"} =>
                         j \in K /\ o2[j].kind = o[j].kind
      BY <1>9
    <3>. HIDE DEF x, o, D
    <3>. QED
      BY <3>1, <3>2, Replanted
  <2>3. CASE i \in D \ (P \cup OfKind(o, "pages"))
    <3>. DEFINE x == o[i]
    <3>1. /\ Shaped(x, D) /\ Refers(o, D, x) /\ x.kind # "pages"
          /\ Elsewhere(o2[i], x) /\ o2[i].parent \in K \cup {0}
      BY <1>7, <2>3 DEF Elsewhere
    <3>2. \A j \in D : o[j].kind \notin {"catalog", "page", "pages"} =>
                         j \in K /\ o2[j].kind = o[j].kind
      BY <1>9
    <3>. HIDE DEF x, o, D
    <3>. QED
      BY <3>1, <3>2, Replanted
  <2>. QED
    BY <1>8, <2>1, <2>2, <2>3
<1>14. Woven(o2, tree, K)
  <2>1. o2[tree].kind = "pages" /\ o2[tree].parent = 0 /\ ToSet(o2[tree].kids) = In(o2, K, {"page"})
    BY <1>2, <1>5, <1>11, TreeFacts
  <2>2. In(o2, K, {"page"}) # {} /\ Cardinality(In(o2, K, {"catalog"})) = 1
    BY <1>1, <1>11 DEF Rooted, In, OfKind, P
  <2>3. ASSUME NEW i \in K \ {tree}
        PROVE  o2[i].kind # "pages" /\ o2[i].parent = IF o2[i].kind = "page" THEN tree ELSE 0
    <3>1. CASE i \in P
      BY <1>6, <3>1 DEF Elsewhere
    <3>2. CASE i \notin P
      BY <1>7, <1>8, <3>2
    <3>. QED
      BY <3>1, <3>2
  <2>. QED
    BY <1>8, <1>12, <1>13, <2>1, <2>2, <2>3, FlatWoven
<1>15. OfKind(o2, "catalog") \cup OfKind(o2, "info") \subseteq K
  <2>1. \A i \in D : i \notin K => o2[i].kind = "pages"
    <3>1. \A i \in D : i \notin K => i \in D \ P /\ o[i].kind = "pages"
      BY <1>8, <1>9 DEF OfKind
    <3>. QED
      BY <1>5, <3>1
  <2>. QED
    BY <1>5, <1>8, <2>1 DEF OfKind
<1>16. Tidied(doc', o2, tree, K, TRUE)
  <2>1. IsFiniteSet(DOMAIN o2) /\ K \in SUBSET DOMAIN o2
    BY <1>5, <1>8, <1>12
  <2>. QED
    BY <1>3, <1>14, <1>15, <2>1 DEF Tidied
<1>17. Planted(o2, K, o, tree)
  <2>1. o2[tree].kind = "pages" /\ o2[tree].attributes = <<>>
    BY <1>5, TreeFacts
  <2>2. ASSUME NEW i \in K \ {tree} PROVE o2[i].kind # "pages"
    <3>1. CASE i \in P
      BY <1>6, <3>1 DEF Elsewhere
    <3>2. CASE i \notin P
      BY <1>7, <1>8, <3>2
    <3>. QED
      BY <3>1, <3>2
  <2>3. \A i \in OfKind(o, "page") : i \in K /\ Elsewhere(o2[i], Materialize(o, i))
    BY <1>6, <1>8 DEF P
  <2>4. \A j \in D : o[j].kind \notin {"catalog", "page", "pages"} => j \in K /\ o2[j] = o[j]
    BY <1>5, <1>9 DEF P, OfKind
  <2>. QED
    BY <1>8, <2>1, <2>2, <2>3, <2>4 DEF Planted
<1>18. o2[tree].kids = InOrderOf(order) /\ In(o2, K, {"page"}) = OfKind(o, "page")
  BY <1>5, <1>11, TreeFacts DEF kids, InOrderOf, P
<1>. QED
  BY <1>16, <1>17, <1>18

\* reorder.rs hands back a good document: the old tree is not reached any more.
LEMMA ReorderGood ==
    ASSUME Good(doc), NEW order \in SeqOf(0 .. MaxPages, MaxPages), Reorder(order)
    PROVE  Good(doc')
  BY ReorderBuilt, TidiedHands

-----------------------------------------------------------------------------
(* Split *)

\* A page of the range is left.
LEMMA SomePageLeft ==
    ASSUME Woven(doc.objects, doc.root, DOMAIN doc.objects), NEW range \in Ranges, ValidRange(range)
    PROVE  LET pages == PageIds(doc)
               gone == {pages[p] : p \in DOMAIN pages \ (range.start .. range.end)}
               P == OfKind(doc.objects, "page")
           IN gone \subseteq P /\ P \ gone # {}
<1>. DEFINE pages == PageIds(doc)
            a == range.start
            b == range.end
            gone == {pages[p] : p \in DOMAIN pages \ (a .. b)}
            P == OfKind(doc.objects, "page")
<1>1. pages \in Seq(DOMAIN doc.objects) /\ IsInjective(pages) /\ ToSet(pages) = P
  BY WovenPages
<1>2. a \in Nat /\ b \in Nat /\ a # 0 /\ a <= b /\ b <= Len(pages)
  BY RangesAssumption DEF ValidRange
<1>. HIDE DEF pages, a, b, P
<1>3. DOMAIN pages = 1 .. Len(pages) /\ Len(pages) \in Nat
  BY <1>1
<1>4. a \in DOMAIN pages /\ a \in a .. b
  BY <1>2, <1>3
<1>5. pages[a] \in P /\ pages[a] \notin gone
  BY <1>1, <1>4 DEF IsInjective, ToSet
<1>6. gone \subseteq P
  BY <1>1 DEF ToSet
<1>. QED
  BY <1>5, <1>6 DEF pages, a, b, P

\* The pages outside a range, and a document whose nodes only list what is left.
Gone(range) == {PageIds(doc)[p] : p \in DOMAIN PageIds(doc) \ (range.start .. range.end)}

Relisted(y, x, K) ==
    /\ y.kind = x.kind /\ y.parent = x.parent /\ y.contents = x.contents /\ y.annots = x.annots
    /\ y.appearance = x.appearance /\ y.draws = x.draws /\ y.label = x.label
    /\ y.attributes = x.attributes /\ y.kids = Only(x.kids, K)

LeftOf(left, o, K) ==
    /\ K \subseteq DOMAIN o /\ \A i \in DOMAIN o : o[i].kind # "page" => i \in K
    /\ \A i \in K : Relisted(left[i], o[i], K)

\* split.rs hands back what is left without the pages outside the range.
LEMMA SplitBuilt ==
    ASSUME Good(doc), NEW range \in Ranges, Split(range)
    PROVE  \E left : LET K == DOMAIN doc.objects \ Gone(range)
                     IN Tidied(doc', left, doc.root, K, TRUE) /\ LeftOf(left, doc.objects, K)
<1>. DEFINE o == doc.objects
            D == DOMAIN o
            P == OfKind(o, "page")
            gone == Gone(range)
            K == D \ gone
            left == [i \in K |-> [o[i] EXCEPT !.kids = Only(@, K)]]
<1>1. /\ doc = [objects |-> o, root |-> doc.root]
      /\ Woven(o, doc.root, D) /\ Web(o, D) /\ Rooted(o, doc.root, D)
  BY GoodFacts DEF Woven
<1>2. gone \subseteq P /\ P \ gone # {}
  BY <1>1, SomePageLeft DEF Split, Gone
<1>3. doc' = Renumbered(Pruned([objects |-> left, root |-> doc.root], TRUE), 1)
  <2>1. doc' = Renumbered(Pruned([doc EXCEPT !.objects = left], TRUE), 1)
    BY DEF Split, Answer, Gone
  <2>2. [doc EXCEPT !.objects = left] = [objects |-> left, root |-> doc.root]
    <3>. HIDE DEF left, o
    <3>. QED
      BY <1>1
  <2>. QED
    BY <2>1, <2>2
<1>. HIDE DEF gone
<1>4. /\ K \subseteq D /\ K \subseteq Nat \ {0} /\ IsFiniteSet(K)
      /\ \A i \in D : o[i].kind # "page" => i \in K
  <2>1. K \in SUBSET D /\ IsFiniteSet(D) /\ D \subseteq Nat \ {0}
    BY <1>1 DEF Web
  <2>2. IsFiniteSet(K)
    BY <2>1, FS_Subset
  <2>3. \A i \in D : o[i].kind # "page" => i \notin gone
    BY <1>2 DEF OfKind
  <2>. QED
    BY <2>1, <2>2, <2>3
<1>5. DOMAIN left = K
  OBVIOUS
<1>6. ASSUME NEW i \in K
      PROVE  LET x == o[i]
                 y == left[i]
             IN /\ DOMAIN y = DOMAIN x
                /\ y.kind = x.kind /\ y.parent = x.parent /\ y.contents = x.contents
                /\ y.annots = x.annots /\ y.appearance = x.appearance /\ y.draws = x.draws
                /\ y.label = x.label /\ y.attributes = x.attributes
                /\ y.kids = Only(x.kids, K)
  <2>. DEFINE x == o[i]
              y == left[i]
  <2>1. Shaped(x, D)
    BY <1>1, <1>4 DEF Web
  <2>. HIDE DEF x
  <2>2. DOMAIN x = {"kind", "parent", "kids", "contents", "draws", "annots", "appearance",
                    "label", "attributes"}
    BY <2>1 DEF Shaped, Object
  <2>3. y = [x EXCEPT !.kids = Only(x.kids, K)]
    BY DEF x
  <2>. HIDE DEF K, y
  <2>. QED
    BY <2>2, <2>3 DEF Elsewhere, x, y
<1>. HIDE DEF left
<1>7. ASSUME NEW i \in K
      PROVE  /\ Only(o[i].kids, K) \in Seq(K)
             /\ ToSet(Only(o[i].kids, K)) = ToSet(o[i].kids) \cap K
             /\ IsInjective(Only(o[i].kids, K))
  <2>. DEFINE s == o[i].kids
  <2>1. s \in Seq(D) /\ IsInjective(s) /\ D \cap K = K
    BY <1>1, <1>4 DEF Web, Shaped
  <2>. HIDE DEF s, D, K
  <2>2. /\ Only(s, K) \in Seq(D \cap K) /\ ToSet(Only(s, K)) = ToSet(s) \cap K
        /\ IsInjective(s) => IsInjective(Only(s, K))
    BY <2>1, OnlyFacts
  <2>. QED
    BY <2>1, <2>2 DEF s
<1>8. \A i \in K : o[i].parent \in K \cup {0}
  <2>. SUFFICES ASSUME NEW i \in K, o[i].parent # 0 PROVE o[i].parent \in K
    OBVIOUS
  <2>. DEFINE j == o[i].parent
  <2>1. i \in D /\ j \in D
    BY <1>1, <1>4 DEF Web, Shaped
  <2>2. i \in ToSet(o[j].kids)
    BY <1>1, <2>1 DEF Web
  <2>3. o[j].kids # <<>>
    BY <2>2 DEF ToSet
  <2>4. o[j].kind = "pages"
    BY <1>1, <2>1, <2>3 DEF Web, Refers
  <2>. QED
    BY <1>4, <2>1, <2>4
<1>. HIDE DEF K
<1>9. \A kinds : In(left, K, kinds) = In(o, D, kinds) \cap K
  BY <1>4, <1>6 DEF In
<1>10. \A kinds : "page" \notin kinds => In(left, K, kinds) = In(o, D, kinds)
  <2>1. \A i \in K : left[i].kind = o[i].kind
    BY <1>6
  <2>. QED
    BY <1>4, <2>1 DEF In
<1>11. ASSUME NEW i \in K PROVE Shaped(left[i], K) /\ Refers(left, K, left[i])
  <2>. DEFINE x == o[i]
              y == left[i]
  <2>1. /\ DOMAIN y = DOMAIN x
        /\ y.kind = x.kind /\ y.parent = x.parent /\ y.contents = x.contents
        /\ y.annots = x.annots /\ y.appearance = x.appearance /\ y.draws = x.draws
        /\ y.label = x.label /\ y.attributes = x.attributes
        /\ y.kids = Only(x.kids, K)
    BY <1>6
  <2>2. Shaped(x, D) /\ Refers(o, D, x)
    BY <1>1, <1>4 DEF Web
  <2>3. /\ y.kids \in Seq(K) /\ ToSet(y.kids) = ToSet(x.kids) \cap K /\ IsInjective(y.kids)
        /\ y.parent \in K \cup {0}
    BY <1>7, <1>8, <2>1
  <2>. HIDE DEF x, y
  <2>4. /\ In(left, K, {"content"}) = In(o, D, {"content"})
        /\ In(left, K, Annotations) = In(o, D, Annotations)
        /\ In(left, K, {"form"}) = In(o, D, {"form"})
        /\ In(left, K, {"state", "form"}) = In(o, D, {"state", "form"})
        /\ In(left, K, {"page", "pages"}) = In(o, D, {"page", "pages"}) \cap K
    <3>1. "page" \notin Annotations
      BY DEF Annotations
    <3>. QED
      BY <1>9, <1>10, <3>1
  <2>5. y.contents \in Seq(K) /\ y.annots \in Seq(K)
    <3>1. x.contents \in Seq(D) /\ x.annots \in Seq(D)
      BY <2>2 DEF Shaped
    <3>2. ToSet(x.contents) \subseteq K /\ ToSet(x.annots) \subseteq K
      <4>1. In(left, K, {"content"}) \subseteq K /\ In(left, K, Annotations) \subseteq K
        BY DEF In
      <4>. QED
        BY <2>2, <2>4, <4>1 DEF Refers
    <3>. QED
      BY <2>1, <3>1, <3>2, SeqNarrowed
  <2>6. Shaped(y, K)
    BY <2>1, <2>2, <2>3, <2>5 DEF Shaped
  <2>7. y.kids # <<>> => y.kind = "pages"
    <3>1. y.kids # <<>> => ToSet(y.kids) # {}
      <4>. DEFINE s == y.kids
      <4>1. s \in Seq(K)
        BY <2>3
      <4>. HIDE DEF s
      <4>2. s # <<>> => 1 \in DOMAIN s
        BY <4>1, EmptySeq, LenProperties
      <4>. QED
        BY <4>2 DEF ToSet, s
    <3>2. ToSet(x.kids) # {} => x.kids # <<>>
      BY DEF ToSet
    <3>. QED
      BY <2>1, <2>2, <2>3, <3>1, <3>2 DEF Refers
  <2>8. Refers(left, K, y)
    BY <2>1, <2>2, <2>3, <2>4, <2>7 DEF Refers
  <2>. QED
    BY <2>6, <2>8 DEF y
<1>12. Web(left, K)
  <2>1. ASSUME NEW i \in K, NEW j \in K PROVE i \in ToSet(left[j].kids) <=> left[i].parent = j
    <3>1. i \in ToSet(o[j].kids) <=> o[i].parent = j
      BY <1>1, <1>4 DEF Web
    <3>2. ToSet(left[j].kids) = ToSet(o[j].kids) \cap K /\ left[i].parent = o[i].parent
      BY <1>6, <1>7
    <3>. QED
      BY <3>1, <3>2
  <2>. QED
    BY <1>4, <1>11, <2>1 DEF Web
<1>13. \A i \in K, n \in Nat : Above(left, i, n) = Above(o, i, n)
  <2>1. Upwards(left, K) /\ \A i \in K : o[i].parent = left[i].parent
    BY <1>6, <1>12, WebUpwards
  <2>. HIDE DEF o
  <2>2. \A i \in K, n \in Nat : Above(o, i, n) = Above(left, i, n)
    BY <2>1, SameAbove
  <2>. QED
    BY <2>2
<1>14. Rooted(left, doc.root, K)
  <2>1. In(left, K, {"pages"}) = In(o, D, {"pages"}) /\ In(left, K, {"catalog"}) = In(o, D, {"catalog"})
    BY <1>10
  <2>2. In(left, K, {"page"}) = In(o, D, {"page"}) \cap K /\ In(left, K, {"page"}) # {}
    <3>1. In(o, D, {"page"}) = P /\ \A i \in P \ gone : i \in K
      BY DEF In, OfKind, K
    <3>. QED
      BY <1>2, <1>9, <3>1
  <2>3. left[doc.root].parent = 0
    <3>1. doc.root \in K
      BY <1>1, <2>1 DEF Rooted, In
    <3>. QED
      BY <1>1, <1>6, <3>1 DEF Rooted
  <2>4. ASSUME NEW p \in In(left, K, {"page"})
        PROVE  \E n \in 0 .. MaxLevels : Above(left, p, n) = doc.root
    <3>1. PICK n \in 0 .. MaxLevels : Above(o, p, n) = doc.root
      BY <1>1, <2>2 DEF Rooted
    <3>2. n \in Nat /\ p \in K
      BY DEF In
    <3>. QED
      BY <1>13, <3>1, <3>2
  <2>. QED
    BY <1>1, <2>1, <2>2, <2>3, <2>4 DEF Rooted
<1>15. Tidied(doc', left, doc.root, K, TRUE)
  <2>1. Woven(left, doc.root, K) /\ IsFiniteSet(DOMAIN left) /\ K \in SUBSET DOMAIN left
        /\ OfKind(left, "catalog") \cup OfKind(left, "info") \subseteq K
    BY <1>4, <1>5, <1>12, <1>14 DEF Woven, OfKind
  <2>. QED
    BY <1>3, <2>1 DEF Tidied
<1>16. LeftOf(left, o, K)
  BY <1>4, <1>6 DEF LeftOf, Relisted
<1>17. LET L == DOMAIN doc.objects \ Gone(range)
       IN Tidied(doc', left, doc.root, L, TRUE) /\ LeftOf(left, doc.objects, L)
  BY <1>15, <1>16 DEF K, gone
<1>. QED
  BY <1>17

\* split.rs hands back a good document: no node lists a page that is gone.
LEMMA SplitGood ==
    ASSUME Good(doc), NEW range \in Ranges, Split(range)
    PROVE  Good(doc')
  BY SplitBuilt, TidiedHands

-----------------------------------------------------------------------------
(* Merge *)

\* The objects of documents that share no number.
Apart(source) ==
    /\ DOMAIN source \subseteq Nat /\ IsFiniteSet(DOMAIN source) /\ DOMAIN source # {}
    /\ IsFiniteSet(UNION {DOMAIN source[n] : n \in DOMAIN source})
    /\ \A n \in DOMAIN source : \E root : Woven(source[n], root, DOMAIN source[n])
    /\ \A m, n \in DOMAIN source : m # n => DOMAIN source[m] \cap DOMAIN source[n] = {}

\* Parts that share no number are all in the whole, unchanged.
LEMMA AllOfFacts ==
    ASSUME NEW parts, DOMAIN parts \subseteq Nat, IsFiniteSet(DOMAIN parts),
           \A m, n \in DOMAIN parts : m # n => DOMAIN parts[m] \cap DOMAIN parts[n] = {}
    PROVE  /\ \A i : i \in DOMAIN AllOf(parts) <=> \E n \in DOMAIN parts : i \in DOMAIN parts[n]
           /\ \A n \in DOMAIN parts : \A i \in DOMAIN parts[n] : AllOf(parts)[i] = parts[n][i]
<1>1. ASSUME NEW n \in DOMAIN parts, NEW i \in DOMAIN parts[n]
      PROVE  Max({m \in DOMAIN parts : i \in DOMAIN parts[m]}) = n
  <2>. DEFINE T == {m \in DOMAIN parts : i \in DOMAIN parts[m]}
  <2>1. T = {n}
    OBVIOUS
  <2>2. T \in SUBSET DOMAIN parts /\ T \subseteq Nat /\ T # {}
    BY <2>1
  <2>3. IsFiniteSet(T)
    BY <2>2, FS_Subset
  <2>. HIDE DEF T
  <2>4. Max(T) \in T
    BY <2>2, <2>3, Largest
  <2>. QED
    BY <2>1, <2>4 DEF T
<1>2. \A i : i \in DOMAIN AllOf(parts) <=> \E n \in DOMAIN parts : i \in DOMAIN parts[n]
  BY DEF AllOf
<1>3. ASSUME NEW n \in DOMAIN parts, NEW i \in DOMAIN parts[n]
      PROVE  AllOf(parts)[i] = parts[n][i]
  <2>1. AllOf(parts)[i] = parts[Max({m \in DOMAIN parts : i \in DOMAIN parts[m]})][i]
    BY DEF AllOf
  <2>. QED
    BY <1>1, <2>1
<1>. QED
  BY <1>2, <1>3

\* The pages of the documents, with their attributes.
MovedOf(source) == AllOf([n \in DOMAIN source |-> Materialized(source[n])])
\* Their other objects.
OthersOf(source) == AllOf([n \in DOMAIN source |-> Kept(source[n])])

\* merge.rs: which objects of the documents become pages, which are kept, and
\* that these share no number.
LEMMA PartsFacts ==
    ASSUME NEW source, Apart(source)
    PROVE  LET All == UNION {DOMAIN source[n] : n \in DOMAIN source}
               moved == MovedOf(source)
               others == OthersOf(source)
           IN /\ DOMAIN moved \subseteq All /\ DOMAIN others \subseteq All
              /\ DOMAIN moved \cap DOMAIN others = {}
              /\ \A i \in DOMAIN moved : \E n \in DOMAIN source :
                    i \in OfKind(source[n], "page") /\ moved[i] = Materialize(source[n], i)
              /\ \A i \in DOMAIN others : \E n \in DOMAIN source :
                    i \in DOMAIN source[n] /\ others[i] = source[n][i]
              /\ \A n \in DOMAIN source : \A i \in DOMAIN source[n] :
                    /\ source[n][i].kind = "page" => i \in DOMAIN moved
                    /\ source[n][i].kind \notin {"catalog", "pages", "page"}
                          => i \in DOMAIN others /\ others[i] = source[n][i]
                    /\ source[n][i].kind \in {"catalog", "pages", "page"} => i \notin DOMAIN others
<1>. DEFINE T == DOMAIN source
            ms == [n \in T |-> Materialized(source[n])]
            ks == [n \in T |-> Kept(source[n])]
            moved == AllOf(ms)
            others == AllOf(ks)
<1>1. /\ T \subseteq Nat /\ IsFiniteSet(T)
      /\ \A m, n \in T : m # n => DOMAIN source[m] \cap DOMAIN source[n] = {}
  BY DEF Apart
<1>2. ASSUME NEW n \in T
      PROVE  /\ DOMAIN ms[n] = OfKind(source[n], "page")
             /\ \A i \in DOMAIN ms[n] : ms[n][i] = Materialize(source[n], i)
             /\ DOMAIN ms[n] \subseteq DOMAIN source[n]
  <2>1. ms[n] = [i \in OfKind(source[n], "page") |-> Materialize(source[n], i)]
    BY DEF Materialized
  <2>. HIDE DEF ms
  <2>. QED
    BY <2>1 DEF OfKind
<1>3. ASSUME NEW n \in T
      PROVE  /\ DOMAIN ks[n] = {i \in DOMAIN source[n] :
                                   source[n][i].kind \notin {"catalog", "pages", "page"}}
             /\ \A i \in DOMAIN ks[n] : ks[n][i] = source[n][i]
             /\ DOMAIN ks[n] \subseteq DOMAIN source[n]
  BY DEF Kept
<1>4. DOMAIN ms = T /\ DOMAIN ks = T
  OBVIOUS
<1>. HIDE DEF ms, ks
<1>5. /\ \A i : i \in DOMAIN moved <=> \E n \in T : i \in DOMAIN ms[n]
      /\ \A n \in T : \A i \in DOMAIN ms[n] : moved[i] = ms[n][i]
  <2>1. \A m, n \in DOMAIN ms : m # n => DOMAIN ms[m] \cap DOMAIN ms[n] = {}
    BY <1>1, <1>2, <1>4
  <2>. QED
    BY <1>1, <1>4, <2>1, AllOfFacts
<1>6. /\ \A i : i \in DOMAIN others <=> \E n \in T : i \in DOMAIN ks[n]
      /\ \A n \in T : \A i \in DOMAIN ks[n] : others[i] = ks[n][i]
  <2>1. \A m, n \in DOMAIN ks : m # n => DOMAIN ks[m] \cap DOMAIN ks[n] = {}
    BY <1>1, <1>3, <1>4
  <2>. QED
    BY <1>1, <1>4, <2>1, AllOfFacts
<1>7. MovedOf(source) = moved /\ OthersOf(source) = others
  BY DEF MovedOf, OthersOf, ms, ks
<1>. HIDE DEF moved, others
<1>8. \A i \in DOMAIN moved : \E n \in T :
         i \in OfKind(source[n], "page") /\ moved[i] = Materialize(source[n], i)
  BY <1>2, <1>5
<1>9. \A i \in DOMAIN others : \E n \in T :
         /\ i \in DOMAIN source[n] /\ others[i] = source[n][i]
         /\ source[n][i].kind \notin {"catalog", "pages", "page"}
  BY <1>3, <1>6
<1>10. ASSUME NEW n \in T, NEW i \in DOMAIN source[n]
       PROVE  /\ source[n][i].kind = "page" => i \in DOMAIN moved
              /\ source[n][i].kind \notin {"catalog", "pages", "page"}
                    => i \in DOMAIN others /\ others[i] = source[n][i]
              /\ source[n][i].kind \in {"catalog", "pages", "page"} => i \notin DOMAIN others
  <2>1. \A m \in T : i \in DOMAIN source[m] => m = n
    BY <1>1
  <2>2. source[n][i].kind = "page" => i \in DOMAIN moved
    BY <1>2, <1>5 DEF OfKind
  <2>3. source[n][i].kind \notin {"catalog", "pages", "page"}
           => i \in DOMAIN others /\ others[i] = source[n][i]
    BY <1>3, <1>6
  <2>4. source[n][i].kind \in {"catalog", "pages", "page"} => i \notin DOMAIN others
    BY <1>9, <2>1
  <2>. QED
    BY <2>2, <2>3, <2>4
<1>11. DOMAIN moved \cap DOMAIN others = {}
  <2>. SUFFICES ASSUME NEW i \in DOMAIN moved PROVE i \notin DOMAIN others
    OBVIOUS
  <2>1. PICK n \in T : i \in OfKind(source[n], "page")
    BY <1>8
  <2>. QED
    BY <1>10, <2>1 DEF OfKind
<1>12. /\ DOMAIN moved \subseteq UNION {DOMAIN source[n] : n \in T}
       /\ DOMAIN others \subseteq UNION {DOMAIN source[n] : n \in T}
  BY <1>8, <1>9 DEF OfKind
<1>. QED
  BY <1>7, <1>8, <1>9, <1>10, <1>11, <1>12

\* An interval's end, past a finite set of numbers.
LEMMA PastAll ==
    ASSUME NEW S, S \subseteq Nat \ {0}, IsFiniteSet(S)
    PROVE  LET tree == Max(S \cup {0}) + 1
           IN tree \in Nat \ {0} /\ tree + 1 \in Nat \ {0} /\ tree # tree + 1
              /\ \A i \in S : i # tree /\ i # tree + 1
<1>. DEFINE T == S \cup {0}
            m == Max(T)
<1>1. T \subseteq Nat /\ IsFiniteSet(T) /\ T # {}
  BY FS_AddElement
<1>2. m \in Nat /\ \A i \in S : i \in Nat /\ i <= m
  <2>1. m \in T /\ \A i \in T : i <= m
    <3>. HIDE DEF T
    <3>. QED
      BY <1>1, Largest
  <2>. HIDE DEF m
  <2>. QED
    BY <1>1, <2>1
<1>. HIDE DEF m
<1>3. m + 1 \in Nat \ {0} /\ (m + 1) + 1 \in Nat \ {0} /\ m + 1 # (m + 1) + 1
  BY <1>2
<1>4. \A i \in S : i # m + 1 /\ i # (m + 1) + 1
  BY <1>2
<1>. QED
  BY <1>3, <1>4 DEF m, T

\* The output has the pages of all documents under its tree, in the order of
\* their numbers.
Assembled(o, K, source, tree) ==
    /\ \A n \in DOMAIN source : Planted(o, K, source[n], tree)
    /\ o[tree].kids = InOrder(In(o, K, {"page"}))
    /\ \A i : i \in In(o, K, {"page"}) <=> \E n \in DOMAIN source : i \in OfKind(source[n], "page")

\* The output: every object has its shape, and when no page lost its number
\* they are a sound web.
LEMMA OutputFacts ==
    ASSUME NEW source, Apart(source)
    PROVE  LET moved == MovedOf(source)
               others == OthersOf(source)
               tree == Max(DOMAIN others \cup {0}) + 1
               d == UnderNewTree(moved, others, tree)
               K == DOMAIN d.objects
           IN /\ d = [objects |-> d.objects, root |-> d.root]
              /\ K \subseteq Nat \ {0} /\ IsFiniteSet(K) /\ d.root \in K
              /\ \A i \in K : Shaped(d.objects[i], K)
              /\ DOMAIN moved \cap {tree, tree + 1} = {} =>
                    Woven(d.objects, d.root, K) /\ Assembled(d.objects, K, source, d.root)
<1>. DEFINE T == DOMAIN source
            All == UNION {DOMAIN source[n] : n \in T}
            moved == MovedOf(source)
            others == OthersOf(source)
            tree == Max(DOMAIN others \cup {0}) + 1
            P == DOMAIN moved
            Q == DOMAIN others
            kids == InOrder(P)
            pages == [i \in P |-> UnderTree(moved[i], tree)]
            top == [i \in {tree, tree + 1} |->
                       IF i = tree THEN [Object("pages") EXCEPT !.kids = kids]
                                   ELSE Object("catalog")]
            o == Overlay(top, Overlay(pages, others))
            K == P \cup Q \cup {tree, tree + 1}
            d == UnderNewTree(moved, others, tree)
<1>1. d = [objects |-> o, root |-> tree]
  BY DEF UnderNewTree
<1>2. /\ P \subseteq All /\ Q \subseteq All /\ P \cap Q = {}
      /\ \A i \in P : \E n \in T :
            i \in OfKind(source[n], "page") /\ moved[i] = Materialize(source[n], i)
      /\ \A i \in Q : \E n \in T : i \in DOMAIN source[n] /\ others[i] = source[n][i]
      /\ \A n \in T : \A i \in DOMAIN source[n] :
            /\ source[n][i].kind = "page" => i \in P
            /\ source[n][i].kind \notin {"catalog", "pages", "page"}
                  => i \in Q /\ others[i] = source[n][i]
            /\ source[n][i].kind \in {"catalog", "pages", "page"} => i \notin Q
  BY PartsFacts
<1>3. /\ \A n \in T : Web(source[n], DOMAIN source[n])
      /\ \A n \in T : \E i \in DOMAIN source[n] : source[n][i].kind = "page"
      /\ T # {}
  <2>1. T # {} /\ \A n \in T : \E root : Woven(source[n], root, DOMAIN source[n])
    BY DEF Apart
  <2>. QED
    BY <2>1 DEF Woven, Rooted, In
<1>4. All \subseteq Nat \ {0} /\ IsFiniteSet(All)
  BY <1>3 DEF Apart, Web
<1>. HIDE DEF T, All, moved, others
<1>5. /\ P \subseteq Nat \ {0} /\ IsFiniteSet(P) /\ Q \subseteq Nat \ {0} /\ IsFiniteSet(Q)
  BY <1>2, <1>4, FS_Subset
<1>6. /\ tree \in Nat \ {0} /\ tree + 1 \in Nat \ {0} /\ tree # tree + 1
      /\ \A i \in Q : i # tree /\ i # tree + 1
  BY <1>5, PastAll
<1>7. kids \in Seq(P) /\ IsInjective(kids) /\ ToSet(kids) = P
  BY <1>5, InOrderFacts
<1>. HIDE DEF tree, kids
<1>. DEFINE over == tree + 1
<1>8. /\ DOMAIN o = K
      /\ o[tree] = [Object("pages") EXCEPT !.kids = kids] /\ o[over] = Object("catalog")
      /\ \A i \in P \ {tree, over} : o[i] = UnderTree(moved[i], tree)
      /\ \A i \in Q : o[i] = others[i]
  <2>1. /\ DOMAIN Overlay(pages, others) = P \cup Q
        /\ \A i \in P : Overlay(pages, others)[i] = UnderTree(moved[i], tree)
        /\ \A i \in Q : Overlay(pages, others)[i] = others[i]
    <3>1. DOMAIN pages = P /\ \A i \in P : pages[i] = UnderTree(moved[i], tree)
      OBVIOUS
    <3>. HIDE DEF pages
    <3>. QED
      BY <1>2, <3>1 DEF Overlay
  <2>2. /\ DOMAIN top = {tree, over} /\ top[over] = Object("catalog")
        /\ top[tree] = [Object("pages") EXCEPT !.kids = kids]
    BY <1>6
  <2>. DEFINE rest == Overlay(pages, others)
  <2>. HIDE DEF top, rest
  <2>3. /\ DOMAIN o = DOMAIN top \cup DOMAIN rest
        /\ \A i \in DOMAIN top : o[i] = top[i]
        /\ \A i \in DOMAIN rest \ DOMAIN top : o[i] = rest[i]
    <3>1. o = Overlay(top, rest)
      BY DEF rest
    <3>. HIDE DEF o
    <3>. QED
      BY <3>1 DEF Overlay
  <2>. HIDE DEF o, over
  <2>4. /\ DOMAIN rest = P \cup Q
        /\ \A i \in P : rest[i] = UnderTree(moved[i], tree)
        /\ \A i \in Q : rest[i] = others[i]
    BY <2>1 DEF rest
  <2>5. \A i \in Q : i # tree /\ i # over
    BY <1>6 DEF over
  <2>. QED
    BY <2>2, <2>3, <2>4, <2>5 DEF over
<1>9. K \subseteq Nat \ {0} /\ IsFiniteSet(K) /\ tree \in K /\ over \in K /\ P \subseteq K
  <2>1. IsFiniteSet(P \cup Q)
    BY <1>5, FS_Union
  <2>2. IsFiniteSet(((P \cup Q) \cup {tree}) \cup {over})
    BY <2>1, FS_AddElement
  <2>3. ((P \cup Q) \cup {tree}) \cup {over} = K
    OBVIOUS
  <2>. QED
    BY <1>5, <1>6, <2>2, <2>3
<1>. HIDE DEF o, over, pages, top
<1>10. \A n \in T : \A j \in DOMAIN source[n] :
          source[n][j].kind \notin {"catalog", "page", "pages"} =>
             j \in K /\ o[j].kind = source[n][j].kind
  BY <1>2, <1>8
<1>. HIDE DEF K, d
<1>11. ASSUME NEW i \in P
       PROVE  \E n \in T :
                 LET x == moved[i]
                 IN /\ Shaped(x, DOMAIN source[n]) /\ Refers(source[n], DOMAIN source[n], x)
                    /\ x.kind = "page"
  <2>1. PICK n \in T : i \in OfKind(source[n], "page") /\ moved[i] = Materialize(source[n], i)
    BY <1>2
  <2>. DEFINE s == source[n]
              D == DOMAIN s
  <2>2. Web(s, D) /\ i \in D /\ s[i].kind = "page"
    BY <1>3, <2>1 DEF OfKind
  <2>. HIDE DEF s
  <2>3. LET x == Materialize(s, i) IN Shaped(x, D) /\ Refers(s, D, x) /\ Stays(x, s[i])
    BY <2>2, MaterializeFacts
  <2>4. Shaped(moved[i], D) /\ Refers(s, D, moved[i]) /\ moved[i].kind = "page"
    BY <2>1, <2>2, <2>3 DEF Stays, s
  <2>. QED
    BY <2>4 DEF s
<1>12. ASSUME NEW i \in P \ {tree, over}
       PROVE  /\ Shaped(o[i], K) /\ Refers(o, K, o[i])
              /\ o[i].kind = "page" /\ o[i].parent = tree
  <2>. DEFINE x == moved[i]
  <2>1. PICK n \in T : /\ Shaped(x, DOMAIN source[n]) /\ Refers(source[n], DOMAIN source[n], x)
                       /\ x.kind = "page"
    BY <1>11
  <2>. DEFINE s == source[n]
              D == DOMAIN s
  <2>2. Shaped(x, D) /\ Refers(s, D, x) /\ x.kind # "pages"
    BY <2>1
  <2>3. \A j \in D : s[j].kind \notin {"catalog", "page", "pages"} =>
                        j \in K /\ o[j].kind = s[j].kind
    BY <1>10
  <2>. HIDE DEF x, s, D
  <2>4. Elsewhere(UnderTree(x, tree), x) /\ UnderTree(x, tree).parent = tree
    BY <2>2, UnderTreeFacts
  <2>5. Elsewhere(o[i], x) /\ o[i].parent = tree
    BY <1>8, <2>4 DEF x
  <2>6. Shaped(o[i], K) /\ Refers(o, K, o[i])
    BY <1>9, <2>2, <2>3, <2>5, Replanted
  <2>. QED
    BY <2>1, <2>5, <2>6 DEF Elsewhere
<1>13. ASSUME NEW i \in Q
       PROVE  /\ Shaped(o[i], K) /\ Refers(o, K, o[i])
              /\ o[i].kind \notin {"catalog", "page", "pages"} /\ o[i].parent = 0
  <2>1. PICK n \in T : i \in DOMAIN source[n] /\ others[i] = source[n][i]
    BY <1>2
  <2>. DEFINE s == source[n]
              D == DOMAIN s
              x == s[i]
  <2>2. i \in D /\ Web(s, D) /\ x.kind \notin {"catalog", "page", "pages"} /\ o[i] = x
    BY <1>2, <1>3, <1>8, <2>1
  <2>3. \A j \in D : s[j].kind \notin {"catalog", "page", "pages"} =>
                        j \in K /\ o[j].kind = s[j].kind
    BY <1>10
  <2>. HIDE DEF s, D
  <2>4. Shaped(x, D) /\ Refers(s, D, x) /\ x.parent = 0
    BY <2>2, NoParent DEF Web
  <2>. HIDE DEF x
  <2>5. Elsewhere(o[i], x) /\ o[i].parent \in K \cup {0} /\ x.kind # "pages"
    BY <2>2, <2>4 DEF Elsewhere
  <2>6. Shaped(o[i], K) /\ Refers(o, K, o[i])
    BY <2>2, <2>3, <2>4, <2>5, Replanted
  <2>. QED
    BY <2>2, <2>4, <2>6
<1>14. Shaped(o[over], K) /\ Refers(o, K, o[over]) /\ o[over].kind = "catalog" /\ o[over].parent = 0
  <2>1. Plain(o[over], "catalog") /\ "catalog" \in Kinds
    BY <1>8, PlainObject DEF Kinds
  <2>. QED
    BY <2>1, PlainFits DEF Plain
<1>15. Shaped(o[tree], K) /\ o[tree].kind = "pages" /\ o[tree].parent = 0 /\ o[tree].kids = kids
  <2>. DEFINE x == o[tree]
  <2>1. /\ DOMAIN x = DOMAIN Object("page")
        /\ x.kind = "pages" /\ x.parent = 0 /\ x.kids = kids
        /\ x.contents = <<>> /\ x.annots = <<>> /\ x.appearance = 0
        /\ x.attributes = <<>>
    BY <1>8, TreeFacts
  <2>2. kids \in Seq(K) /\ <<>> \in Seq(K) /\ "pages" \in Kinds
    BY <1>7, <1>9 DEF Kinds
  <2>. HIDE DEF x
  <2>3. Shaped(x, K)
    BY <1>7, <2>1, <2>2, NoAttributes DEF Shaped
  <2>. QED
    BY <2>1, <2>3 DEF x
<1>16. \A i \in K : i = tree \/ i = over \/ i \in P \ {tree, over} \/ i \in Q
  BY DEF K, over
<1>17. \A i \in K : Shaped(o[i], K)
  BY <1>12, <1>13, <1>14, <1>15, <1>16
<1>18. ASSUME P \cap {tree, over} = {}
       PROVE  Woven(o, tree, K) /\ Assembled(o, K, source, tree)
  <2>1. In(o, K, {"page"}) = P /\ In(o, K, {"catalog"}) = {over}
    <3>1. \A i \in K : /\ o[i].kind = "page" <=> i \in P
                       /\ o[i].kind = "catalog" <=> i = over
      <4>. SUFFICES ASSUME NEW i \in K
                    PROVE  /\ o[i].kind = "page" <=> i \in P
                           /\ o[i].kind = "catalog" <=> i = over
        OBVIOUS
      <4>1. over \notin Q /\ tree \notin Q /\ tree # over /\ P \cap Q = {}
        BY <1>2, <1>6 DEF over
      <4>2. CASE i = tree
        BY <1>15, <1>18, <4>1, <4>2
      <4>3. CASE i = over
        BY <1>14, <1>18, <4>3
      <4>4. CASE i \in P
        BY <1>12, <1>18, <4>4
      <4>5. CASE i \in Q
        BY <1>13, <4>1, <4>5
      <4>. QED
        BY <1>16, <4>2, <4>3, <4>4, <4>5
    <3>. QED
      BY <1>9, <3>1 DEF In
  <2>2. P # {}
    BY <1>2, <1>3
  <2>3. Refers(o, K, o[tree])
    <3>1. kids \in Seq(K) /\ ToSet(kids) \subseteq In(o, K, {"page", "pages"})
      BY <1>7, <1>9, <2>1 DEF In
    <3>. QED
      BY <1>7, <1>8, <3>1, TreeFits
  <2>4. \A i \in K : Shaped(o[i], K) /\ Refers(o, K, o[i])
    BY <1>12, <1>13, <1>14, <1>15, <1>16, <2>3
  <2>5. \A i \in K \ {tree} : /\ o[i].kind # "pages"
                              /\ o[i].parent = IF o[i].kind = "page" THEN tree ELSE 0
    BY <1>12, <1>13, <1>14, <1>16
  <2>6. Cardinality(In(o, K, {"catalog"})) = 1
    BY <2>1, FS_Singleton
  <2>7. ToSet(o[tree].kids) = In(o, K, {"page"})
    BY <1>7, <1>15, <2>1
  <2>8. Woven(o, tree, K)
    BY <1>9, <1>15, <2>1, <2>2, <2>4, <2>5, <2>6, <2>7, FlatWoven
  <2>9. \A i : i \in P <=> \E n \in T : i \in OfKind(source[n], "page")
    BY <1>2 DEF OfKind
  <2>10. ASSUME NEW n \in T PROVE Planted(o, K, source[n], tree)
    <3>. DEFINE s == source[n]
    <3>1. \A i \in K \ {tree} : o[i].kind # "pages"
      BY <2>5
    <3>2. ASSUME NEW i \in OfKind(s, "page") PROVE i \in K /\ Elsewhere(o[i], Materialize(s, i))
      <4>1. i \in P /\ i \in DOMAIN s
        BY <2>9 DEF OfKind
      <4>2. moved[i] = Materialize(s, i)
        <5>1. PICK m \in T : i \in OfKind(source[m], "page") /\ moved[i] = Materialize(source[m], i)
          BY <1>2, <4>1
        <5>2. m = n
          BY <4>1, <5>1 DEF Apart, OfKind, T
        <5>. QED
          BY <5>1, <5>2
      <4>3. o[i] = UnderTree(moved[i], tree) /\ i \in K
        BY <1>8, <1>9, <1>18, <4>1
      <4>4. PICK D : Shaped(moved[i], D)
        BY <1>11, <4>1
      <4>. QED
        BY <4>2, <4>3, <4>4, UnderTreeFacts
    <3>3. \A j \in DOMAIN s : s[j].kind \notin {"catalog", "page", "pages"} => j \in K /\ o[j] = s[j]
      BY <1>2, <1>8, <1>9, <1>10
    <3>4. tree \in K /\ o[tree].kind = "pages" /\ o[tree].attributes = <<>>
      <4>1. o[tree].attributes = <<>>
        BY <1>8, TreeFacts
      <4>. QED
        BY <1>9, <1>15, <4>1
    <3>. QED
      BY <3>1, <3>2, <3>3, <3>4 DEF Planted
  <2>11. Assembled(o, K, source, tree)
    BY <1>15, <2>1, <2>9, <2>10 DEF Assembled, kids, T
  <2>. QED
    BY <2>8, <2>11
<1>19. d.objects = o /\ d.root = tree /\ DOMAIN o = K /\ d = [objects |-> d.objects, root |-> d.root]
  BY <1>1, <1>8
<1>. QED
  <2>1. LET L == DOMAIN d.objects
        IN /\ d = [objects |-> d.objects, root |-> d.root]
           /\ L \subseteq Nat \ {0} /\ IsFiniteSet(L) /\ d.root \in L
           /\ \A i \in L : Shaped(d.objects[i], L)
           /\ DOMAIN moved \cap {tree, tree + 1} = {} =>
                 Woven(d.objects, d.root, L) /\ Assembled(d.objects, L, source, d.root)
    BY <1>9, <1>17, <1>18, <1>19 DEF over
  <2>. QED
    BY <2>1 DEF d, moved, others, tree

\* What a step hands back, and in which state.
Handed == Typed(doc') /\ damaged' \in BOOLEAN /\ (~damaged' => Sound(doc'))

\* Objects of the right shape make a typed document.
LEMMA ShapedTyped ==
    ASSUME NEW d, d = [objects |-> d.objects, root |-> d.root],
           DOMAIN d.objects \subseteq Nat \ {0}, d.root \in DOMAIN d.objects,
           \A i \in DOMAIN d.objects : Shaped(d.objects[i], DOMAIN d.objects)
    PROVE  Typed(d)
<1>. DEFINE o == d.objects
            D == DOMAIN o
<1>1. ASSUME NEW i \in D
      PROVE  /\ DOMAIN o[i] = DOMAIN Object("page")
             /\ o[i].kind \in Kinds
             /\ o[i].parent \in D \cup {0}
             /\ {o[i].kids, o[i].contents, o[i].annots} \subseteq Seq(D)
             /\ Proper(o[i].attributes)
  BY DEF Shaped
<1>. QED
  BY <1>1 DEF Typed

\* A merge hands back a typed document, and a sound one unless it harmed it.
LEMMA MergeOfHands ==
    ASSUME NEW source, Apart(source), NEW r, MergeOf(source, r)
    PROVE  /\ Handed
           /\ request' = r /\ shown' = View(doc')
           /\ ~damaged' => \E o, tree : /\ Tidied(doc', o, tree, DOMAIN o, FALSE)
                                      /\ Assembled(o, DOMAIN o, source, tree)
<1>. DEFINE moved == MovedOf(source)
            others == OthersOf(source)
            tree == Max(DOMAIN others \cup {0}) + 1
            merged == UnderNewTree(moved, others, tree)
            harmed == DOMAIN moved \cap {tree, tree + 1} # {}
            o == merged.objects
            K == DOMAIN o
<1>1. /\ doc' = IF harmed THEN merged ELSE Renumbered(Pruned(merged, FALSE), 1)
      /\ damaged' = harmed /\ request' = r /\ shown' = View(doc')
  BY DEF MergeOf, Combine, Output, Answer, MovedOf, OthersOf
<1>2. /\ merged = [objects |-> o, root |-> merged.root]
      /\ K \subseteq Nat \ {0} /\ IsFiniteSet(K) /\ merged.root \in K
      /\ \A i \in K : Shaped(o[i], K)
      /\ ~harmed => Woven(o, merged.root, K) /\ Assembled(o, K, source, merged.root)
  BY OutputFacts
<1>. HIDE DEF moved, others, tree, merged, harmed
<1>3. CASE harmed
  <2>1. Typed(merged)
    BY <1>2, ShapedTyped
  <2>2. harmed = TRUE
    BY <1>3 DEF harmed
  <2>3. Handed
    BY <1>1, <1>3, <2>1, <2>2 DEF Handed
  <2>. QED
    BY <1>1, <1>3, <2>3
<1>4. CASE ~harmed
  <2>. DEFINE root == merged.root
  <2>1. OfKind(o, "catalog") \cup OfKind(o, "info") \subseteq K /\ K \in SUBSET DOMAIN o
    BY DEF OfKind
  <2>2. /\ Woven(o, root, K) /\ Assembled(o, K, source, root)
        /\ IsFiniteSet(DOMAIN o) /\ merged = [objects |-> o, root |-> root]
    BY <1>2, <1>4
  <2>. HIDE DEF o, root
  <2>3. Tidied(doc', o, root, K, FALSE)
    BY <1>1, <1>4, <2>1, <2>2 DEF Tidied
  <2>4. Good(doc')
    BY <2>3, TidiedHands
  <2>5. harmed = FALSE
    BY <1>4 DEF harmed
  <2>6. Handed
    BY <1>1, <2>4, <2>5 DEF Handed, Good
  <2>. QED
    BY <1>1, <2>2, <2>3, <2>6
<1>. QED
  BY <1>3, <1>4

\* The first document is numbered from 1 on,
LEMMA FirstNumbers ==
    ASSUME NEW docs
    PROVE  NextObjectId(docs, 1) = 1
<1>. DEFINE Rec(f) == f = [i \in 1 .. 1 |-> IF i = 1 THEN 1
                                  ELSE f[i - 1] + Cardinality(DOMAIN docs[i - 1].objects)]
            start == CHOOSE f : Rec(f)
            g == [i \in 1 .. 1 |-> 1]
<1>1. Rec(g)
  OBVIOUS
<1>2. Rec(start)
  <2>. HIDE DEF Rec
  <2>. QED
    BY <1>1
<1>3. start[1] = 1
  <2>. HIDE DEF start
  <2>. QED
    BY <1>2
<1>4. NextObjectId(docs, 1) = start[1]
  BY DEF NextObjectId
<1>. QED
  BY <1>3, <1>4

\* and the second one past it.
LEMMA NextNumbers ==
    ASSUME NEW docs, Cardinality(DOMAIN docs[1].objects) \in Nat
    PROVE  /\ NextObjectId(docs, 1) = 1
           /\ NextObjectId(docs, 2) = 1 + Cardinality(DOMAIN docs[1].objects)
<1>. DEFINE C(i) == Cardinality(DOMAIN docs[i].objects)
            Rec(f) == f = [i \in 1 .. 2 |-> IF i = 1 THEN 1 ELSE f[i - 1] + C(i - 1)]
            start == CHOOSE f : Rec(f)
            g == [i \in 1 .. 2 |-> IF i = 1 THEN 1 ELSE 1 + C(1)]
<1>1. Rec(g)
  <2>1. g[1] = 1 /\ g[2] = 1 + C(1) /\ DOMAIN g = 1 .. 2
    OBVIOUS
  <2>. HIDE DEF C
  <2>2. \A i \in 1 .. 2 : g[i] = IF i = 1 THEN 1 ELSE g[i - 1] + C(i - 1)
    <3>1. \A i \in 1 .. 2 : i = 1 \/ (i = 2 /\ i - 1 = 1)
      OBVIOUS
    <3>. HIDE DEF g
    <3>. QED
      BY <2>1, <3>1
  <2>. QED
    BY <2>2
<1>2. Rec(start)
  <2>. HIDE DEF Rec
  <2>. QED
    BY <1>1
<1>3. start[2] = 1 + C(1)
  <2>. HIDE DEF start, C
  <2>. QED
    BY <1>2
<1>4. NextObjectId(docs, 2) = start[2]
  BY DEF NextObjectId
<1>. QED
  BY <1>3, <1>4, FirstNumbers

\* The objects of each document, numbered past those of the ones before.
SourcesOf(docs) == [n \in DOMAIN docs |-> Renumbered(docs[n], NextObjectId(docs, n)).objects]

\* One document is merged,
LEMMA AloneApart ==
    ASSUME NEW d, Good(d)
    PROVE  LET source == SourcesOf(<<d>>)
           IN Apart(source) /\ DOMAIN source = {1} /\ source[1] = Renumbered(d, 1).objects
<1>. DEFINE docs == <<d>>
            source == SourcesOf(docs)
            e == Renumbered(d, 1)
<1>1. DOMAIN source = {1} /\ source[1] = e.objects
  <2>1. DOMAIN docs = {1} /\ docs[1] = d
    OBVIOUS
  <2>. HIDE DEF docs
  <2>. QED
    BY <2>1, FirstNumbers DEF SourcesOf
<1>2. Woven(e.objects, e.root, DOMAIN e.objects)
  BY RenumberedGood, GoodFacts
<1>. HIDE DEF source, e
<1>4. Apart(source)
  <2>1. IsFiniteSet(DOMAIN source)
    BY <1>1, FS_Singleton
  <2>2. UNION {DOMAIN source[n] : n \in DOMAIN source} = DOMAIN e.objects
    BY <1>1
  <2>3. IsFiniteSet(DOMAIN e.objects)
    BY <1>2 DEF Woven, Web
  <2>. QED
    BY <1>1, <1>2, <2>1, <2>2, <2>3 DEF Apart
<1>. QED
  BY <1>1, <1>4 DEF source, e

\* or two, with no number in common.
LEMMA BothApart ==
    ASSUME NEW a, Good(a), NEW b, Good(b)
    PROVE  LET source == SourcesOf(<<a, b>>)
               M == Cardinality(DOMAIN a.objects)
               e == Renumbered(a, 1)
               f == Renumbered(b, 1 + M)
           IN /\ Apart(source) /\ DOMAIN source = {1, 2}
              /\ source[1] = e.objects /\ source[2] = f.objects
              /\ M \in Nat
              /\ \A i \in DOMAIN e.objects, j \in DOMAIN f.objects : i < j
<1>. DEFINE docs == <<a, b>>
            source == SourcesOf(docs)
            M == Cardinality(DOMAIN a.objects)
            N == Cardinality(DOMAIN b.objects)
            e == Renumbered(a, 1)
            f == Renumbered(b, 1 + M)
<1>1. M \in Nat /\ N \in Nat
  BY GoodFacts
<1>2. DOMAIN source = {1, 2} /\ source[1] = e.objects /\ source[2] = f.objects
  <2>1. DOMAIN docs = {1, 2} /\ docs[1] = a /\ docs[2] = b
    OBVIOUS
  <2>. HIDE DEF docs
  <2>2. NextObjectId(docs, 1) = 1 /\ NextObjectId(docs, 2) = 1 + M
    BY <1>1, <2>1, NextNumbers
  <2>. QED
    BY <2>1, <2>2 DEF SourcesOf
<1>3. Woven(e.objects, e.root, DOMAIN e.objects) /\ DOMAIN e.objects = 1 .. 1 + M - 1
  <2>1. Woven(a.objects, a.root, DOMAIN a.objects) /\ 1 \in Nat \ {0}
    BY GoodFacts
  <2>. QED
    BY <2>1, RenumberedWoven
<1>4. Woven(f.objects, f.root, DOMAIN f.objects) /\ DOMAIN f.objects = 1 + M .. 1 + M + N - 1
  <2>1. Woven(b.objects, b.root, DOMAIN b.objects) /\ 1 + M \in Nat \ {0}
    BY <1>1, GoodFacts
  <2>. HIDE DEF M
  <2>. QED
    BY <2>1, RenumberedWoven
<1>. HIDE DEF source, e, f, M, N
<1>5. \A i \in DOMAIN e.objects, j \in DOMAIN f.objects : i < j
  <2>. SUFFICES ASSUME NEW i \in 1 .. 1 + M - 1, NEW j \in 1 + M .. 1 + M + N - 1 PROVE i < j
    BY <1>3, <1>4
  <2>. QED
    BY <1>1
<1>6. Apart(source)
  <2>1. DOMAIN e.objects \cap DOMAIN f.objects = {}
    BY <1>1, <1>3, <1>4
  <2>2. IsFiniteSet(DOMAIN source)
    <3>1. IsFiniteSet({1} \cup {2}) /\ {1} \cup {2} = {1, 2}
      BY FS_Singleton, FS_AddElement
    <3>. QED
      BY <1>2, <3>1
  <2>3. UNION {DOMAIN source[n] : n \in DOMAIN source} = DOMAIN e.objects \cup DOMAIN f.objects
    BY <1>2
  <2>4. IsFiniteSet(DOMAIN e.objects \cup DOMAIN f.objects)
    BY <1>3, <1>4, FS_Union DEF Woven, Web
  <2>5. \A m, n \in DOMAIN source : m # n => DOMAIN source[m] \cap DOMAIN source[n] = {}
    BY <1>2, <2>1
  <2>6. DOMAIN source \subseteq Nat /\ DOMAIN source # {}
    BY <1>2
  <2>7. \A n \in DOMAIN source : \E root : Woven(source[n], root, DOMAIN source[n])
    <3>1. \E root : Woven(source[1], root, DOMAIN source[1])
      BY <1>2, <1>3
    <3>2. \E root : Woven(source[2], root, DOMAIN source[2])
      BY <1>2, <1>4
    <3>. QED
      BY <1>2, <3>1, <3>2
  <2>. QED
    BY <2>2, <2>3, <2>4, <2>5, <2>6, <2>7 DEF Apart
<1>. QED
  BY <1>1, <1>2, <1>5, <1>6 DEF source, e, f, M

\* merge.rs hands back what it should of one document,
LEMMA AloneHands ==
    ASSUME NEW d, Good(d), NEW r, Merge(<<d>>, r)
    PROVE  Handed
<1>1. MergeOf(SourcesOf(<<d>>), r)
  BY DEF Merge, SourcesOf
<1>. QED
  BY <1>1, AloneApart, MergeOfHands

\* and of two.
LEMMA BothHand ==
    ASSUME NEW a, Good(a), NEW b, Good(b), NEW r, Merge(<<a, b>>, r)
    PROVE  Handed
<1>1. MergeOf(SourcesOf(<<a, b>>), r)
  BY DEF Merge, SourcesOf
<1>. QED
  BY <1>1, BothApart, MergeOfHands

-----------------------------------------------------------------------------
(* The specification *)

\* And for which request.
Answered ==
    /\ request'.op \in {"rotate", "crop", "reorder", "split", "merge", "watermark", "flatten"}
    /\ requests' = requests + 1

\* An operation that cannot harm hands back a good document.
LEMMA GoodHanded ==
    ASSUME Good(doc'), damaged' = FALSE PROVE Handed
BY DEF Good, Handed

\* So do the edits,
LEMMA EditHands ==
    ASSUME Good(doc), Edit
    PROVE  Handed /\ Answered
<1>1. ASSUME NEW ranges \in SeqOf(Ranges, 2), NEW angle \in Angles, Rotate(ranges, angle)
      PROVE  Handed /\ Answered
  <2>1. Good(doc')
    BY <1>1, RotateGood
  <2>2. /\ damaged' = FALSE /\ requests' = requests + 1
        /\ request' = [op |-> "rotate", ranges |-> ranges, angle |-> angle]
    BY <1>1 DEF Rotate, Answer
  <2>3. Answered
    BY <2>2 DEF Answered
  <2>. QED
    BY <2>1, <2>2, <2>3, GoodHanded
<1>2. ASSUME NEW ranges \in SeqOf(Ranges, 2), NEW box \in Boxes, Crop(ranges, box)
      PROVE  Handed /\ Answered
  <2>1. Good(doc')
    BY <1>2, CropGood
  <2>2. /\ damaged' = FALSE /\ requests' = requests + 1
        /\ request' = [op |-> "crop", ranges |-> ranges, box |-> box]
    BY <1>2 DEF Crop, Answer
  <2>3. Answered
    BY <2>2 DEF Answered
  <2>. QED
    BY <2>1, <2>2, <2>3, GoodHanded
<1>3. ASSUME NEW ranges \in SeqOf(Ranges, 2), NEW mark \in Marks, Watermark(ranges, mark)
      PROVE  Handed /\ Answered
  <2>1. Good(doc')
    BY <1>3, WatermarkGood
  <2>2. /\ damaged' = FALSE /\ requests' = requests + 1
        /\ request' = [op |-> "watermark", ranges |-> ranges, mark |-> mark]
    BY <1>3 DEF Watermark, Answer
  <2>3. Answered
    BY <2>2 DEF Answered
  <2>. QED
    BY <2>1, <2>2, <2>3, GoodHanded
<1>4. ASSUME Flatten PROVE Handed /\ Answered
  <2>1. Good(doc')
    BY <1>4, FlattenGood
  <2>2. /\ damaged' = FALSE /\ requests' = requests + 1
        /\ request' = [op |-> "flatten"]
    BY <1>4 DEF Flatten, Answer
  <2>3. Answered
    BY <2>2 DEF Answered
  <2>. QED
    BY <2>1, <2>2, <2>3, GoodHanded
<1>5. ASSUME NEW order \in SeqOf(0 .. MaxPages, MaxPages), Reorder(order)
      PROVE  Handed /\ Answered
  <2>1. Good(doc')
    BY <1>5, ReorderGood
  <2>2. /\ damaged' = FALSE /\ requests' = requests + 1
        /\ request' = [op |-> "reorder", order |-> order]
    BY <1>5 DEF Reorder, Answer
  <2>3. Answered
    BY <2>2 DEF Answered
  <2>. QED
    BY <2>1, <2>2, <2>3, GoodHanded
<1>. QED
  BY <1>1, <1>2, <1>3, <1>4, <1>5 DEF Edit

\* splitting,
LEMMA SplitHands ==
    ASSUME Good(doc), NEW range \in Ranges, Split(range)
    PROVE  Handed /\ Answered
<1>1. damaged' = FALSE /\ requests' = requests + 1 /\ request' = [op |-> "split", range |-> range]
  BY DEF Split, Answer
<1>2. Answered
  BY <1>1 DEF Answered
<1>. QED
  BY <1>1, <1>2, SplitGood, GoodHanded

\* A merge answers its request,
LEMMA MergeAnswers ==
    ASSUME NEW docs, NEW r, Merge(docs, r), r.op = "merge"
    PROVE  Answered
<1>1. request' = r /\ requests' = requests + 1
  BY DEF Merge, MergeOf, Combine, Output, Answer
<1>. QED
  BY <1>1 DEF Answered

\* and hands back what it should, with any documents.
LEMMA MergeHands ==
    ASSUME Good(doc)
    PROVE  /\ MergeAlone => Handed /\ Answered
           /\ \A other \in Documents, before \in BOOLEAN :
                 MergeWith(other, before) => Handed /\ Answered
<1>1. ASSUME MergeAlone PROVE Handed /\ Answered
  <2>. DEFINE r == [op |-> "merge", with |-> <<>>, before |-> FALSE]
  <2>1. Merge(<<doc>>, r) /\ r.op = "merge"
    BY <1>1 DEF MergeAlone
  <2>. HIDE DEF r
  <2>. QED
    BY <2>1, AloneHands, MergeAnswers
<1>2. ASSUME NEW other \in Documents, NEW before \in BOOLEAN, MergeWith(other, before)
      PROVE  Handed /\ Answered
  <2>. DEFINE r == [op |-> "merge", with |-> View(other), before |-> before]
  <2>1. Merge(IF before THEN <<other, doc>> ELSE <<doc, other>>, r) /\ r.op = "merge"
    BY <1>2 DEF MergeWith
  <2>2. Good(other)
    BY DocumentsAssumption DEF Good
  <2>. HIDE DEF r
  <2>3. CASE before
    <3>1. Merge(<<other, doc>>, r)
      BY <2>1, <2>3
    <3>. QED
      BY <2>1, <2>2, <3>1, BothHand, MergeAnswers
  <2>4. CASE ~before
    <3>1. Merge(<<doc, other>>, r)
      BY <2>1, <2>4
    <3>. QED
      BY <2>1, <2>2, <3>1, BothHand, MergeAnswers
  <2>. QED
    BY <2>3, <2>4
<1>. QED
  BY <1>1, <1>2

\* What every operation finds when it starts.
Held == TypeOK /\ StaysSound

\* It holds at the start,
LEMMA InitHeld == Init => Held
<1>. SUFFICES ASSUME Init PROVE Held
  OBVIOUS
<1>1. Typed(doc) /\ Sound(doc)
  BY DocumentsAssumption DEF Init
<1>2. request.op = "none" /\ requests = 0 /\ damaged = FALSE
  BY DEF Init, NoRequest
<1>3. 0 \in 0 .. MaxRequests
  BY RequestsAssumption
<1>. QED
  BY <1>1, <1>2, <1>3 DEF Held, TypeOK, StaysSound

\* A document in use is good, and an operation on it hands back what is held.
LEMMA UsefulGood ==
    ASSUME Held, Useful
    PROVE  Good(doc)
BY DEF Held, TypeOK, StaysSound, Useful, Good

\* An operation's answer is counted within the bound.
LEMMA HandedHeld ==
    ASSUME Held, Useful, Handed, Answered
    PROVE  Held'
<1>1. requests' \in 0 .. MaxRequests
  BY RequestsAssumption DEF Held, TypeOK, Useful, Answered
<1>2. TypeOK'
  BY <1>1 DEF TypeOK, Handed, Answered, Typed
<1>. QED
  BY <1>2 DEF Held, StaysSound, Handed

\* Every operation keeps it,
LEMMA NextHeld ==
    ASSUME Held, Next
    PROVE  Held'
<1>1. Good(doc) /\ Useful
  BY UsefulGood DEF Next
<1>2. Handed /\ Answered
  <2>1. CASE Edit
    BY <1>1, <2>1, EditHands
  <2>2. ASSUME NEW range \in Ranges, Split(range) PROVE Handed /\ Answered
    BY <1>1, <2>2, SplitHands
  <2>. QED
    BY <1>1, <2>1, <2>2, MergeHands DEF Next
<1>. QED
  BY <1>1, <1>2, HandedHeld

\* and so does a step that changes nothing.
LEMMA StillHeld ==
    ASSUME Held, UNCHANGED vars
    PROVE  Held'
BY DEF Held, TypeOK, StaysSound, vars

\* However operations follow each other, and whatever documents are merged in,
\* references name objects, rotations are quarter turns, and every object has
\* its fields, the output of a merge that lost a page included.
THEOREM PagesTyped == Spec => []TypeOK
<1>1. ASSUME Held, [Next]_vars PROVE Held'
  BY <1>1, NextHeld, StillHeld
<1>2. Held => TypeOK
  BY DEF Held
<1>. QED
  BY <1>1, <1>2, InitHeld, PTL DEF Spec

\* However operations follow each other, what is handed back is sound, unless
\* a merge gave a page's number away: the pages are found downwards once each,
\* and upwards what they inherit is found at the node that lists them.
THEOREM PagesSound == Spec => []StaysSound
<1>1. ASSUME Held, [Next]_vars PROVE Held'
  BY <1>1, NextHeld, StillHeld
<1>2. Held => StaysSound
  BY DEF Held
<1>. QED
  BY <1>1, <1>2, InitHeld, PTL DEF Spec
-----------------------------------------------------------------------------
(* Sequences, element by element *)

\* What holds of the empty sequence and of each that is appended to, holds.
LEMMA SequenceInduction ==
    ASSUME NEW S, NEW T, <<>> \in T, \A s \in Seq(S), x \in S : s \in T => Append(s, x) \in T
    PROVE  \A s \in Seq(S) : s \in T
<1>. DEFINE G == {n \in Nat : \A s \in Seq(S) : Len(s) = n => s \in T}
<1>1. 0 \in G
  BY EmptySeq
<1>2. ASSUME NEW n \in Nat, n \in G PROVE n + 1 \in G
  <2>. SUFFICES ASSUME NEW s \in Seq(S), Len(s) = n + 1 PROVE s \in T
    OBVIOUS
  <2>. DEFINE t == SubSeq(s, 1, n)
              x == s[n + 1]
  <2>1. t \in Seq(S) /\ Len(t) = n /\ x \in S
    OBVIOUS
  <2>2. s = Append(t, x)
    <3>1. Append(t, x) \in Seq(S) /\ Len(Append(t, x)) = n + 1
      BY <2>1
    <3>2. \A k \in 1 .. n + 1 : Append(t, x)[k] = s[k]
      <4>. SUFFICES ASSUME NEW k \in 1 .. n + 1 PROVE Append(t, x)[k] = s[k]
        OBVIOUS
      <4>1. CASE k = n + 1
        BY <2>1, <4>1
      <4>2. CASE k # n + 1
        <5>1. k \in 1 .. n
          BY <4>2
        <5>2. t[k] = s[k]
          BY <5>1
        <5>. HIDE DEF t
        <5>. QED
          BY <2>1, <5>1, <5>2
      <4>. QED
        BY <4>1, <4>2
    <3>. HIDE DEF t, x
    <3>. QED
      BY <3>1, <3>2, SeqEqual
  <2>3. t \in T
    BY <1>2, <2>1
  <2>. HIDE DEF t, x
  <2>. QED
    BY <2>1, <2>2, <2>3
<1>. SUFFICES ASSUME NEW s \in Seq(S) PROVE s \in T
  OBVIOUS
<1>3. Len(s) \in Nat
  OBVIOUS
<1>4. Len(s) \in G
  <2>. HIDE DEF G
  <2>. QED
    BY <1>1, <1>2, <1>3, NatSetInduction
<1>. QED
  BY <1>4

\* Whatever lists a set in ascending order lists it as InOrder does.
LEMMA InOrderUnique ==
    ASSUME NEW S, S \subseteq Nat, IsFiniteSet(S), NEW n \in Nat, NEW s \in [1 .. n -> S],
           ToSet(s) = S, \A a, b \in 1 .. n : a < b => s[a] < s[b]
    PROVE  s = InOrder(S) /\ Cardinality(S) = n
<1>. DEFINE C(i) == Cardinality({j \in S : j <= i})
<1>1. \A a, b \in 1 .. n : s[a] <= s[b] => a <= b
  <2>. SUFFICES ASSUME NEW a \in 1 .. n, NEW b \in 1 .. n, ~(a <= b) PROVE ~(s[a] <= s[b])
    OBVIOUS
  <2>1. b < a
    OBVIOUS
  <2>2. s[b] < s[a]
    BY <2>1
  <2>3. s[a] \in Nat /\ s[b] \in Nat
    OBVIOUS
  <2>. QED
    BY <2>2, <2>3
<1>2. \A a, b \in 1 .. n : a <= b => s[a] <= s[b]
  <2>. SUFFICES ASSUME NEW a \in 1 .. n, NEW b \in 1 .. n, a <= b PROVE s[a] <= s[b]
    OBVIOUS
  <2>1. s[a] \in Nat /\ s[b] \in Nat
    OBVIOUS
  <2>2. a = b \/ a < b
    OBVIOUS
  <2>. QED
    BY <2>1, <2>2
<1>3. \A i \in S : \E a \in 1 .. n : s[a] = i
  BY DEF ToSet
<1>4. ASSUME NEW k \in 1 .. n PROVE C(s[k]) = k
  <2>. DEFINE T == {j \in S : j <= s[k]}
              f == [a \in 1 .. k |-> s[a]]
  <2>1. \A a \in 1 .. k : a \in 1 .. n /\ a <= k
    OBVIOUS
  <2>2. f \in [1 .. k -> T]
    BY <1>2, <2>1
  <2>3. \A a, b \in 1 .. k : f[a] = f[b] => a = b
    <3>. SUFFICES ASSUME NEW a \in 1 .. k, NEW b \in 1 .. k, s[a] = s[b] PROVE a = b
      OBVIOUS
    <3>1. a \in 1 .. n /\ b \in 1 .. n /\ s[a] \in Nat /\ s[b] \in Nat
      BY <2>1
    <3>2. a <= b /\ b <= a
      BY <1>1, <3>1
    <3>. QED
      BY <3>2
  <2>4. \A j \in T : \E a \in 1 .. k : f[a] = j
    <3>. SUFFICES ASSUME NEW j \in T PROVE \E a \in 1 .. k : s[a] = j
      OBVIOUS
    <3>1. PICK a \in 1 .. n : s[a] = j
      BY <1>3
    <3>2. a <= k
      BY <1>1, <3>1
    <3>. QED
      BY <3>1, <3>2
  <2>5. f \in Bijection(1 .. k, T)
    <3>. HIDE DEF f, T
    <3>. QED
      BY <2>2, <2>3, <2>4 DEF Bijection, Injection, Surjection, IsInjective
  <2>6. IsFiniteSet(1 .. k) /\ Cardinality(1 .. k) = k
    BY FS_Interval
  <2>. HIDE DEF f, T
  <2>7. Cardinality(T) = k
    BY <2>5, <2>6, FS_Bijection DEF ExistsBijection
  <2>. QED
    BY <2>7 DEF T
<1>5. Cardinality(S) = n
  <2>1. s \in Bijection(1 .. n, S)
    <3>1. \A a, b \in 1 .. n : s[a] = s[b] => a = b
      <4>. SUFFICES ASSUME NEW a \in 1 .. n, NEW b \in 1 .. n, s[a] = s[b] PROVE a = b
        OBVIOUS
      <4>1. s[a] \in Nat /\ s[b] \in Nat
        OBVIOUS
      <4>2. a <= b /\ b <= a
        BY <1>1, <4>1
      <4>. QED
        BY <4>2
    <3>. QED
      BY <1>3, <3>1 DEF Bijection, Injection, Surjection, IsInjective
  <2>2. IsFiniteSet(1 .. n) /\ Cardinality(1 .. n) = n
    BY FS_Interval
  <2>. QED
    BY <2>1, <2>2, FS_Bijection DEF ExistsBijection
<1>6. InOrder(S) = [k \in 1 .. n |-> CHOOSE i \in S : C(i) = k]
  BY <1>5 DEF InOrder
<1>. HIDE DEF C
<1>7. ASSUME NEW k \in 1 .. n PROVE (CHOOSE i \in S : C(i) = k) = s[k]
  <2>1. s[k] \in S /\ C(s[k]) = k
    BY <1>4
  <2>2. ASSUME NEW i \in S, C(i) = k PROVE i = s[k]
    <3>1. PICK a \in 1 .. n : s[a] = i
      BY <1>3
    <3>. QED
      BY <1>4, <2>2, <3>1
  <2>. QED
    BY <2>1, <2>2
<1>8. s = InOrder(S)
  BY <1>6, <1>7
<1>. QED
  BY <1>5, <1>8

\* Appending to a sequence appends to what is kept of it.
LEMMA OnlyAppend ==
    ASSUME NEW U, NEW s \in Seq(U), NEW x \in U, NEW S
    PROVE  Only(Append(s, x), S) = IF x \in S THEN Append(Only(s, S), x) ELSE Only(s, S)
<1>. DEFINE t == Append(s, x)
            N == Len(s)
            K == {k \in DOMAIN s : s[k] \in S}
            L == {k \in DOMAIN t : t[k] \in S}
            C == Cardinality(K)
<1>1. /\ N \in Nat /\ DOMAIN s = 1 .. N /\ DOMAIN t = 1 .. N + 1
      /\ \A k \in 1 .. N : t[k] = s[k]
      /\ t[N + 1] = x
  OBVIOUS
<1>. HIDE DEF N, t
<1>2. K \subseteq Nat /\ IsFiniteSet(K) /\ K \subseteq 1 .. N
  <2>1. IsFiniteSet(1 .. N) /\ K \in SUBSET (1 .. N)
    BY <1>1, FS_Interval
  <2>. HIDE DEF K
  <2>2. IsFiniteSet(K)
    BY <2>1, FS_Subset
  <2>3. K \subseteq Nat
    BY <1>1, <2>1
  <2>. QED
    BY <2>1, <2>2, <2>3
<1>3. /\ C \in Nat /\ InOrder(K) \in [1 .. C -> K] /\ ToSet(InOrder(K)) = K
      /\ \A m, n \in 1 .. C : m < n => InOrder(K)[m] < InOrder(K)[n]
  <2>. HIDE DEF K
  <2>. QED
    BY <1>2, InOrderFacts
<1>4. Only(s, S) = [n \in 1 .. C |-> s[InOrder(K)[n]]]
  BY <1>3 DEF Only
<1>5. CASE x \notin S
  <2>1. L = K
    BY <1>1, <1>5
  <2>2. Only(t, S) = [n \in 1 .. C |-> t[InOrder(K)[n]]]
    BY <1>3, <2>1 DEF Only
  <2>3. \A n \in 1 .. C : t[InOrder(K)[n]] = s[InOrder(K)[n]]
    BY <1>1, <1>2, <1>3
  <2>. HIDE DEF K, C
  <2>. QED
    BY <1>4, <1>5, <2>2, <2>3 DEF t
<1>6. CASE x \in S
  <2>1. L = K \cup {N + 1}
    BY <1>1, <1>6
  <2>. DEFINE at == [n \in 1 .. C + 1 |-> IF n = C + 1 THEN N + 1 ELSE InOrder(K)[n]]
  <2>. HIDE DEF K, C, L
  <2>2. \A n \in 1 .. C + 1 : n = C + 1 \/ n \in 1 .. C
    BY <1>3
  <2>3. at \in [1 .. C + 1 -> L]
    BY <1>3, <2>1, <2>2
  <2>4. ToSet(at) = L
    <3>1. ASSUME NEW i \in L PROVE \E n \in 1 .. C + 1 : at[n] = i
      <4>1. CASE i = N + 1
        BY <1>3, <4>1
      <4>2. CASE i \in K
        <5>1. PICK n \in 1 .. C : InOrder(K)[n] = i
          BY <1>3, <4>2 DEF ToSet
        <5>2. n \in 1 .. C + 1 /\ n # C + 1
          BY <1>3
        <5>. QED
          BY <5>1, <5>2
      <4>. QED
        BY <2>1, <4>1, <4>2
    <3>. HIDE DEF at
    <3>. QED
      BY <2>3, <3>1 DEF ToSet
  <2>5. ASSUME NEW m \in 1 .. C + 1, NEW n \in 1 .. C + 1, m < n PROVE at[m] < at[n]
    <3>1. m \in 1 .. C /\ m # C + 1
      BY <1>3, <2>5
    <3>2. at[m] = InOrder(K)[m] /\ at[m] \in 1 .. N
      BY <1>2, <1>3, <3>1
    <3>3. CASE n = C + 1
      BY <1>1, <3>2, <3>3
    <3>4. CASE n \in 1 .. C
      BY <1>3, <2>5, <3>1, <3>4
    <3>. QED
      BY <2>2, <3>3, <3>4
  <2>6. L \subseteq Nat /\ IsFiniteSet(L) /\ C + 1 \in Nat
    BY <1>1, <1>2, <1>3, <2>1, FS_AddElement
  <2>. HIDE DEF at
  <2>7. at = InOrder(L) /\ Cardinality(L) = C + 1
    BY <2>3, <2>4, <2>5, <2>6, InOrderUnique
  <2>8. Only(t, S) = [n \in 1 .. C + 1 |-> t[at[n]]]
    BY <2>3, <2>7 DEF Only, L
  <2>9. [n \in 1 .. C |-> s[InOrder(K)[n]]] \in Seq(U)
    <3>1. \A n \in 1 .. C : s[InOrder(K)[n]] \in U
      BY <1>1, <1>2, <1>3
    <3>. QED
      BY <1>3, <3>1
  <2>10. ASSUME NEW n \in 1 .. C + 1 PROVE t[at[n]] = Append(Only(s, S), x)[n]
    <3>. DEFINE r == [m \in 1 .. C |-> s[InOrder(K)[m]]]
    <3>1. r \in Seq(U) /\ Len(r) = C /\ r = Only(s, S) /\ \A m \in 1 .. C : r[m] = s[InOrder(K)[m]]
      BY <1>3, <1>4, <2>9
    <3>. HIDE DEF r
    <3>2. CASE n = C + 1
      <4>1. t[at[n]] = x
        BY <1>1, <3>2 DEF at
      <4>. QED
        BY <3>1, <3>2, <4>1
    <3>3. CASE n \in 1 .. C
      <4>0. n # C + 1
        BY <1>3, <3>3
      <4>1. n # C + 1 /\ InOrder(K)[n] \in 1 .. N
        <5>1. InOrder(K)[n] \in K
          BY <1>3, <3>3
        <5>. QED
          BY <1>2, <4>0, <5>1
      <4>2. at[n] = InOrder(K)[n]
        BY <4>1 DEF at
      <4>3. t[at[n]] = s[InOrder(K)[n]]
        BY <1>1, <4>1, <4>2
      <4>. QED
        BY <3>1, <3>3, <4>3
    <3>. QED
      BY <2>2, <3>2, <3>3
  <2>11. /\ Append(Only(s, S), x) \in Seq(U) /\ Len(Append(Only(s, S), x)) = C + 1
    BY <1>3, <1>4, <2>9
  <2>12. Only(t, S) = Append(Only(s, S), x)
    <3>. DEFINE r == Append(Only(s, S), x)
    <3>1. r \in Seq(U) /\ Len(r) = C + 1
      BY <2>11
    <3>2. r = [n \in 1 .. C + 1 |-> r[n]]
      <4>. HIDE DEF r
      <4>. QED
        BY <1>3, <3>1
    <3>. HIDE DEF r
    <3>. QED
      BY <2>8, <2>10, <3>2 DEF r
  <2>. QED
    BY <1>6, <2>12 DEF t
<1>. QED
  BY <1>5, <1>6

\* Nothing is kept of nothing.
LEMMA OnlyNothing == \A S : Only(<<>>, S) = <<>>
<1>. SUFFICES ASSUME NEW S PROVE Only(<<>>, S) = <<>>
  OBVIOUS
<1>1. {k \in DOMAIN <<>> : <<>>[k] \in S} = {}
  OBVIOUS
<1>2. DOMAIN InOrder({}) = {}
  BY FS_EmptySet DEF InOrder
<1>. DEFINE r == Only(<<>>, S)
<1>3. r = [n \in {} |-> <<>>[InOrder({})[n]]]
  BY <1>1, <1>2 DEF Only
<1>. QED
  BY <1>3

\* Appending to a sequence.
LEMMA Appending ==
    ASSUME NEW S, NEW s \in Seq(S), NEW x \in S
    PROVE  /\ Append(s, x) \in Seq(S) /\ Len(Append(s, x)) = Len(s) + 1 /\ Append(s, x) # <<>>
           /\ Len(s) \in Nat
           /\ \A i \in 1 .. Len(s) : Append(s, x)[i] = s[i]
           /\ Append(s, x)[Len(s) + 1] = x
  OBVIOUS

\* What is kept of two sequences is what is kept of each.
LEMMA OnlyConcat ==
    ASSUME NEW U, NEW s \in Seq(U), NEW t \in Seq(U), NEW S
    PROVE  Only(s \o t, S) = Only(s, S) \o Only(t, S)
<1>. DEFINE T == {x \in Seq(U) : Only(s \o x, S) = Only(s, S) \o Only(x, S)}
<1>1. \A x \in Seq(U) : Only(x, S) \in Seq(U)
  <2>1. Seq(U \cap S) \subseteq Seq(U)
    OBVIOUS
  <2>. QED
    BY <2>1, OnlyFacts
<1>2. <<>> \in T
  <2>1. s \o <<>> = s /\ Only(s, S) \o <<>> = Only(s, S) /\ <<>> \in Seq(U)
    BY <1>1
  <2>. QED
    BY <2>1, OnlyNothing
<1>3. ASSUME NEW x \in Seq(U), NEW y \in U, x \in T PROVE Append(x, y) \in T
  <2>1. s \o Append(x, y) = Append(s \o x, y) /\ s \o x \in Seq(U) /\ Append(x, y) \in Seq(U)
    OBVIOUS
  <2>2. Only(Append(s \o x, y), S) = IF y \in S THEN Append(Only(s \o x, S), y) ELSE Only(s \o x, S)
    BY <2>1, OnlyAppend
  <2>3. Only(Append(x, y), S) = IF y \in S THEN Append(Only(x, S), y) ELSE Only(x, S)
    BY OnlyAppend
  <2>4. Only(s, S) \o Append(Only(x, S), y) = Append(Only(s, S) \o Only(x, S), y)
    <3>1. Only(s, S) \in Seq(U) /\ Only(x, S) \in Seq(U)
      BY <1>1
    <3>. QED
      BY <3>1
  <2>5. Only(s \o x, S) = Only(s, S) \o Only(x, S)
    BY <1>3
  <2>. QED
    BY <2>1, <2>2, <2>3, <2>4, <2>5
<1>. HIDE DEF T
<1>4. t \in T
  BY <1>2, <1>3, SequenceInduction
<1>. QED
  BY <1>4 DEF T

\* Appending a sequence to those that are joined joins it to them.
LEMMA FlattenAppend ==
    ASSUME NEW S, NEW ss \in Seq(Seq(S)), NEW s \in Seq(S)
    PROVE  FlattenSeq(Append(ss, s)) = FlattenSeq(ss) \o s
<1>. DEFINE tt == Append(ss, s)
            N == Len(ss)
<1>1. /\ tt \in Seq(Seq(S)) /\ Len(tt) = N + 1 /\ tt # <<>> /\ N \in Nat
      /\ \A i \in 1 .. N : tt[i] = ss[i]
      /\ tt[N + 1] = s
  BY Appending
<1>. HIDE DEF tt, N
<1>2. PICK f \in [1 .. N + 1 -> Seq(S)] :
         /\ f[1] = tt[1]
         /\ \A i \in 2 .. N + 1 : f[i] = f[i - 1] \o tt[i]
         /\ FlattenSeq(tt) = f[N + 1]
  <2>. DEFINE M == N + 1
  <2>1. Len(tt) = M
    BY <1>1
  <2>. HIDE DEF M
  <2>2. \E f \in [1 .. M -> Seq(S)] :
           /\ f[1] = tt[1]
           /\ \A i \in 2 .. M : f[i] = f[i - 1] \o tt[i]
           /\ FlattenSeq(tt) = f[M]
    BY <1>1, <2>1, FlattenRec
  <2>. QED
    BY <2>2 DEF M
<1>3. CASE ss = <<>>
  <2>2. FlattenSeq(ss) = <<>>
    BY <1>3 DEF FlattenSeq
  <2>3. N = 0 /\ FlattenSeq(tt) = s
    BY <1>1, <1>2, <1>3 DEF N
  <2>. QED
    BY <2>2, <2>3 DEF tt
<1>4. CASE ss # <<>>
  <2>1. PICK g \in [1 .. N -> Seq(S)] :
           /\ g[1] = ss[1]
           /\ \A i \in 2 .. N : g[i] = g[i - 1] \o ss[i]
           /\ FlattenSeq(ss) = g[N]
    BY <1>4, FlattenRec DEF N
  <2>2. N >= 1
    BY <1>1, <1>4 DEF N
  <2>. DEFINE G == {n \in Nat : n + 1 \in 1 .. N => f[n + 1] = g[n + 1]}
  <2>3. 0 \in G
    BY <1>1, <1>2, <2>1, <2>2
  <2>4. ASSUME NEW n \in Nat, n \in G PROVE n + 1 \in G
    <3>. DEFINE m == (n + 1) + 1
    <3>. SUFFICES ASSUME m \in 1 .. N PROVE f[m] = g[m]
      OBVIOUS
    <3>1. n + 1 \in 1 .. N /\ m \in 2 .. N /\ m \in 2 .. N + 1 /\ m - 1 = n + 1
      BY <1>1
    <3>2. f[n + 1] = g[n + 1]
      BY <2>4, <3>1
    <3>. HIDE DEF m
    <3>3. f[m] = f[n + 1] \o tt[m]
      BY <1>2, <3>1
    <3>4. g[m] = g[n + 1] \o ss[m]
      BY <2>1, <3>1
    <3>. QED
      BY <1>1, <3>2, <3>3, <3>4
  <2>5. N - 1 \in Nat /\ N - 1 + 1 = N /\ N \in 1 .. N
    BY <1>1, <2>2
  <2>6. N - 1 \in G
    <3>. HIDE DEF G
    <3>. QED
      BY <2>3, <2>4, <2>5, NatSetInduction
  <2>7. f[N] = g[N]
    BY <2>5, <2>6
  <2>8. f[N + 1] = f[N] \o tt[N + 1]
    <3>. DEFINE m == N + 1
    <3>1. m \in 2 .. N + 1 /\ m - 1 = N
      BY <1>1, <2>2
    <3>. HIDE DEF m
    <3>2. f[m] = f[N] \o tt[m]
      BY <1>2, <3>1
    <3>. QED
      BY <3>2 DEF m
  <2>. QED
    BY <1>1, <1>2, <2>1, <2>7, <2>8 DEF tt
<1>. QED
  BY <1>3, <1>4

\* Joining no sequences.
LEMMA FlattenNothing == FlattenSeq(<<>>) = <<>>
  BY DEF FlattenSeq

\* Applying a function to what is joined or appended.
LEMMA MappedConcat ==
    ASSUME NEW S, NEW f, NEW s \in Seq(S)
    PROVE  /\ \A t \in Seq(S) : Mapped(f, s \o t) = Mapped(f, s) \o Mapped(f, t)
           /\ \A x \in S : Mapped(f, Append(s, x)) = Append(Mapped(f, s), f[x])
           /\ Mapped(f, <<>>) = <<>>
<1>. DEFINE U == {f[x] : x \in S}
<1>0. \A t \in Seq(S) : Mapped(f, t) \in Seq(U) /\ Len(Mapped(f, t)) = Len(t)
  <2>. SUFFICES ASSUME NEW t \in Seq(S) PROVE Mapped(f, t) \in Seq(U) /\ Len(Mapped(f, t)) = Len(t)
    OBVIOUS
  <2>1. Len(t) \in Nat /\ DOMAIN t = 1 .. Len(t) /\ \A k \in 1 .. Len(t) : f[t[k]] \in U
    OBVIOUS
  <2>2. Mapped(f, t) = [k \in 1 .. Len(t) |-> f[t[k]]]
    BY <2>1 DEF Mapped
  <2>. HIDE DEF U
  <2>. QED
    BY <2>1, <2>2
<1>1. ASSUME NEW t \in Seq(S) PROVE Mapped(f, s \o t) = Mapped(f, s) \o Mapped(f, t)
  <2>1. s \o t \in Seq(S) /\ Len(s \o t) = Len(s) + Len(t) /\ Len(s) \in Nat /\ Len(t) \in Nat
        /\ \A k \in 1 .. Len(s) + Len(t) :
              (s \o t)[k] = IF k <= Len(s) THEN s[k] ELSE t[k - Len(s)]
    OBVIOUS
  <2>. DEFINE a == Mapped(f, s \o t)
              ms == Mapped(f, s)
              mt == Mapped(f, t)
              b == ms \o mt
  <2>2. /\ ms \in Seq(U) /\ Len(ms) = Len(s) /\ mt \in Seq(U) /\ Len(mt) = Len(t)
        /\ a \in Seq(U) /\ Len(a) = Len(s) + Len(t)
    <3>. HIDE DEF U
    <3>. QED
      BY <1>0, <2>1
  <2>3. \A k \in 1 .. Len(s) + Len(t) : a[k] = b[k]
    <3>. SUFFICES ASSUME NEW k \in 1 .. Len(s) + Len(t) PROVE a[k] = b[k]
      OBVIOUS
    <3>1. a[k] = f[(s \o t)[k]]
      BY <2>1 DEF Mapped
    <3>3. k <= Len(s) => ms[k] = f[s[k]]
      BY <2>1 DEF Mapped
    <3>4. ~(k <= Len(s)) => mt[k - Len(s)] = f[t[k - Len(s)]]
      BY <2>1 DEF Mapped
    <3>. HIDE DEF ms, mt, a, U
    <3>2. b[k] = IF k <= Len(s) THEN ms[k] ELSE mt[k - Len(s)]
      BY <2>1, <2>2
    <3>. QED
      BY <2>1, <3>1, <3>2, <3>3, <3>4
  <2>. HIDE DEF a, ms, mt, U
  <2>4. b \in Seq(U) /\ Len(b) = Len(a) /\ Len(a) \in Nat
    <3>1. b \in Seq(U) /\ Len(b) = Len(ms) + Len(mt)
      BY <2>2
    <3>. HIDE DEF b
    <3>. QED
      BY <2>1, <2>2, <3>1
  <2>. HIDE DEF b
  <2>5. a = b
    BY <2>1, <2>2, <2>3, <2>4, SeqEqual
  <2>. QED
    BY <2>5 DEF a, b, ms, mt
<1>2. ASSUME NEW x \in S PROVE Mapped(f, Append(s, x)) = Append(Mapped(f, s), f[x])
  <2>1. Append(s, x) = s \o <<x>> /\ <<x>> \in Seq(S)
    OBVIOUS
  <2>2. Mapped(f, <<x>>) = <<f[x]>>
    BY DEF Mapped
  <2>3. Mapped(f, s) \in Seq(U)
    BY <1>0
  <2>4. Mapped(f, s) \o <<f[x]>> = Append(Mapped(f, s), f[x])
    BY <2>3
  <2>. QED
    BY <1>1, <2>1, <2>2, <2>4
<1>3. Mapped(f, <<>>) = <<>>
  BY DEF Mapped
<1>. QED
  BY <1>1, <1>2, <1>3

\* Joining the images is the image of what is joined.
LEMMA FlattenMapped ==
    ASSUME NEW S, NEW U, NEW f \in [S -> U], NEW ss \in Seq(Seq(S))
    PROVE  FlattenSeq([k \in DOMAIN ss |-> Mapped(f, ss[k])]) = Mapped(f, FlattenSeq(ss))
<1>. DEFINE m == [s \in Seq(S) |-> Mapped(f, s)]
            T == {tt \in Seq(Seq(S)) : FlattenSeq(Mapped(m, tt)) = Mapped(f, FlattenSeq(tt))}
<1>1. m \in [Seq(S) -> Seq(U)]
  BY MappedFacts
<1>2. <<>> \in T
  <2>1. Mapped(m, <<>>) = <<>> /\ Mapped(f, <<>>) = <<>> /\ <<>> \in Seq(Seq(S))
    BY DEF Mapped
  <2>. QED
    BY <2>1, FlattenNothing
<1>3. ASSUME NEW tt \in Seq(Seq(S)), NEW s \in Seq(S), tt \in T PROVE Append(tt, s) \in T
  <2>. HIDE DEF m
  <2>1. Mapped(m, Append(tt, s)) = Append(Mapped(m, tt), m[s])
    BY <1>1, MappedConcat
  <2>2. Mapped(m, tt) \in Seq(Seq(U)) /\ m[s] \in Seq(U)
    BY <1>1, MappedFacts
  <2>3. FlattenSeq(Mapped(m, Append(tt, s))) = FlattenSeq(Mapped(m, tt)) \o m[s]
    BY <2>1, <2>2, FlattenAppend
  <2>4. FlattenSeq(Append(tt, s)) = FlattenSeq(tt) \o s /\ FlattenSeq(tt) \in Seq(S)
    BY FlattenAppend, FlattenFacts
  <2>5. Mapped(f, FlattenSeq(tt) \o s) = Mapped(f, FlattenSeq(tt)) \o Mapped(f, s)
    BY <2>4, MappedConcat
  <2>6. m[s] = Mapped(f, s)
    BY DEF m
  <2>7. FlattenSeq(Mapped(m, tt)) = Mapped(f, FlattenSeq(tt))
    BY <1>3
  <2>8. FlattenSeq(Mapped(m, Append(tt, s))) = Mapped(f, FlattenSeq(Append(tt, s)))
    BY <2>3, <2>4, <2>5, <2>6, <2>7
  <2>9. Append(tt, s) \in Seq(Seq(S))
    BY Appending
  <2>. QED
    BY <2>8, <2>9
<1>4. ss \in T
  <2>. HIDE DEF T, m
  <2>. QED
    BY <1>2, <1>3, SequenceInduction
<1>5. Mapped(m, ss) = [k \in DOMAIN ss |-> Mapped(f, ss[k])]
  <2>1. \A k \in DOMAIN ss : ss[k] \in Seq(S)
    OBVIOUS
  <2>. QED
    BY <2>1 DEF Mapped
<1>. QED
  BY <1>4, <1>5

\* Joining a sequence's elements, one by one.
LEMMA FlattenSingles ==
    ASSUME NEW S, NEW s \in Seq(S), NEW f, f = [x \in S |-> <<x>>]
    PROVE  FlattenSeq(Mapped(f, s)) = s
<1>. DEFINE T == {t \in Seq(S) : FlattenSeq(Mapped(f, t)) = t}
<1>1. f \in [S -> Seq(S)]
  OBVIOUS
<1>2. <<>> \in T
  <2>1. Mapped(f, <<>>) = <<>> /\ <<>> \in Seq(S)
    BY DEF Mapped
  <2>. QED
    BY <2>1, FlattenNothing
<1>3. ASSUME NEW t \in Seq(S), NEW x \in S, t \in T PROVE Append(t, x) \in T
  <2>1. Mapped(f, Append(t, x)) = Append(Mapped(f, t), f[x])
    BY <1>1, MappedConcat
  <2>2. Mapped(f, t) \in Seq(Seq(S)) /\ f[x] \in Seq(S)
    BY <1>1, MappedFacts
  <2>3. FlattenSeq(Mapped(f, Append(t, x))) = FlattenSeq(Mapped(f, t)) \o f[x]
    BY <2>1, <2>2, FlattenAppend
  <2>4. t \o <<x>> = Append(t, x)
    OBVIOUS
  <2>5. FlattenSeq(Mapped(f, t)) = t /\ f[x] = <<x>> /\ Append(t, x) \in Seq(S)
    BY <1>3, Appending
  <2>6. FlattenSeq(Mapped(f, Append(t, x))) = Append(t, x)
    BY <2>3, <2>4, <2>5
  <2>. QED
    BY <2>5, <2>6
<1>4. s \in T
  <2>. HIDE DEF T
  <2>. QED
    BY <1>2, <1>3, SequenceInduction
<1>. QED
  BY <1>4

\* What is kept of what is joined, when nothing is kept of what is left out.
Sifted(w, R, v, D, S, U) ==
    /\ R \subseteq D /\ v \in [D -> Seq(U)] /\ w \in [R -> Seq(U)]
    /\ \A c \in R : Only(v[c], S) = w[c]
    /\ \A c \in D \ R : Only(v[c], S) = <<>>

\* Sifting a flattened sequence is flattening what is sifted of its parts.
LEMMA FlattenOnly ==
    ASSUME NEW w, NEW R, NEW v, NEW D, NEW S, NEW U, Sifted(w, R, v, D, S, U)
    PROVE  \A s \in Seq(D) : Only(FlattenSeq(Mapped(v, s)), S) = FlattenSeq(Mapped(w, Only(s, R)))
<1>. USE DEF Sifted
<1>. DEFINE T == {t \in Seq(D) : Only(FlattenSeq(Mapped(v, t)), S) = FlattenSeq(Mapped(w, Only(t, R)))}
<1>1. <<>> \in T
  <2>1. Mapped(v, <<>>) = <<>> /\ Mapped(w, <<>>) = <<>> /\ <<>> \in Seq(D)
    BY DEF Mapped
  <2>. QED
    BY <2>1, FlattenNothing, OnlyNothing
<1>2. ASSUME NEW t \in Seq(D), NEW c \in D, t \in T PROVE Append(t, c) \in T
  <2>1. Mapped(v, Append(t, c)) = Append(Mapped(v, t), v[c])
    BY MappedConcat
  <2>2. Mapped(v, t) \in Seq(Seq(U)) /\ v[c] \in Seq(U)
    BY MappedFacts
  <2>3. /\ FlattenSeq(Mapped(v, Append(t, c))) = FlattenSeq(Mapped(v, t)) \o v[c]
        /\ FlattenSeq(Mapped(v, t)) \in Seq(U)
    BY <2>1, <2>2, FlattenAppend, FlattenFacts
  <2>4. Only(FlattenSeq(Mapped(v, Append(t, c))), S)
           = Only(FlattenSeq(Mapped(v, t)), S) \o Only(v[c], S)
    BY <2>2, <2>3, OnlyConcat
  <2>5. Only(t, R) \in Seq(R)
    <3>1. Only(t, R) \in Seq(D \cap R) /\ D \cap R = R
      BY OnlyFacts
    <3>. QED
      BY <3>1
  <2>6. Mapped(w, Only(t, R)) \in Seq(Seq(U))
    BY <2>5, MappedFacts
  <2>7. FlattenSeq(Mapped(w, Only(t, R))) \in Seq(U)
    BY <2>6, FlattenFacts
  <2>8. CASE c \in R
    <3>1. Only(Append(t, c), R) = Append(Only(t, R), c)
      BY <2>8, OnlyAppend
    <3>2. Mapped(w, Append(Only(t, R), c)) = Append(Mapped(w, Only(t, R)), w[c])
      BY <2>5, <2>8, MappedConcat
    <3>3. w[c] \in Seq(U)
      BY <2>8
    <3>4. FlattenSeq(Append(Mapped(w, Only(t, R)), w[c])) = FlattenSeq(Mapped(w, Only(t, R))) \o w[c]
      BY <2>6, <3>3, FlattenAppend
    <3>5. Only(v[c], S) = w[c]
      BY <2>8
    <3>6. Only(FlattenSeq(Mapped(v, t)), S) = FlattenSeq(Mapped(w, Only(t, R)))
      BY <1>2
    <3>7. Only(FlattenSeq(Mapped(v, Append(t, c))), S) = FlattenSeq(Mapped(w, Only(Append(t, c), R)))
      BY <2>4, <3>1, <3>2, <3>4, <3>5, <3>6
    <3>8. Append(t, c) \in Seq(D)
      BY Appending
    <3>. QED
      BY <3>7, <3>8
  <2>9. CASE c \notin R
    <3>1. Only(Append(t, c), R) = Only(t, R)
      BY <2>9, OnlyAppend
    <3>2. Only(v[c], S) = <<>>
      BY <2>9
    <3>3. FlattenSeq(Mapped(w, Only(t, R))) \o <<>> = FlattenSeq(Mapped(w, Only(t, R)))
      BY <2>7
    <3>. QED
      BY <1>2, <2>4, <3>1, <3>2, <3>3
  <2>. QED
    BY <2>8, <2>9
<1>3. \A s \in Seq(D) : s \in T
  <2>. HIDE DEF T
  <2>. QED
    BY <1>1, <1>2, SequenceInduction
<1>. QED
  BY <1>3

-----------------------------------------------------------------------------
(* What is inherited *)

\* The least of some levels.
LEMMA Least ==
    ASSUME NEW T, T \subseteq Nat, T # {}
    PROVE  Min(T) \in T /\ \A n \in T : Min(T) <= n
<1>1. \E n \in T : \A m \in T : n <= m
  BY Smallest
<1>. QED
  BY <1>1 DEF Min

\* Above nothing there is nothing.
LEMMA NothingAbove ==
    ASSUME NEW o, NEW K, Upwards(o, K), NEW i \in K, NEW m \in Nat, Above(o, i, m) = 0
    PROVE  \A n \in Nat : m <= n => Above(o, i, n) = 0
<1>. DEFINE T == {k \in Nat : Above(o, i, m + k) = 0}
<1>1. 0 \in T
  BY m + 0 = m
<1>2. ASSUME NEW k \in Nat, k \in T PROVE k + 1 \in T
  <2>1. m + k \in Nat /\ m + (k + 1) = (m + k) + 1
    OBVIOUS
  <2>2. Above(o, i, (m + k) + 1) = 0
    BY <1>2, <2>1, AboveRec
  <2>. QED
    BY <2>1, <2>2
<1>3. \A k \in Nat : k \in T
  <2>. HIDE DEF T
  <2>. QED
    BY <1>1, <1>2, NatSetInduction
<1>. SUFFICES ASSUME NEW n \in Nat, m <= n PROVE Above(o, i, n) = 0
  OBVIOUS
<1>4. n - m \in Nat /\ m + (n - m) = n
  OBVIOUS
<1>. QED
  BY <1>3, <1>4

\* The way up from a page of a woven document is over nodes of the tree, of
\* which there are no more than are climbed, and then ends.
LEMMA WayUp ==
    ASSUME NEW o, NEW root, Woven(o, root, DOMAIN o), NEW i \in OfKind(o, "page")
    PROVE  /\ Cardinality(OfKind(o, "pages")) \in Nat
           /\ \A n \in Nat \ {0} : Above(o, i, n) = 0 \/ Above(o, i, n) \in OfKind(o, "pages")
           /\ \A n \in Nat : n > MaxLevels => Above(o, i, n) = 0
           /\ \A n \in Nat : n > Cardinality(OfKind(o, "pages")) => Above(o, i, n) = 0
<1>. DEFINE up(n) == Above(o, i, n)
            P == OfKind(o, "pages")
            C == Cardinality(P)
<1>1. Web(o, DOMAIN o) /\ Upwards(o, DOMAIN o) /\ i \in DOMAIN o /\ 0 \notin DOMAIN o
  BY WebUpwards DEF Woven, OfKind, Upwards
<1>2. /\ up(0) = i
      /\ \A n \in Nat : up(n) \in DOMAIN o \cup {0}
      /\ \A n \in Nat : up(n + 1) = IF up(n) = 0 THEN 0 ELSE o[up(n)].parent
  BY <1>1, AboveRec
<1>3. IsFiniteSet(P) /\ C \in Nat
  <2>1. P \in SUBSET DOMAIN o /\ IsFiniteSet(DOMAIN o)
    BY <1>1 DEF OfKind, Web
  <2>. HIDE DEF P
  <2>. QED
    BY <2>1, FS_Subset, FS_CardinalityType
<1>4. ASSUME NEW n \in Nat \ {0}, up(n) # 0 PROVE up(n) \in P
  <2>1. n - 1 \in Nat /\ (n - 1) + 1 = n
    OBVIOUS
  <2>. DEFINE a == up(n)
              b == up(n - 1)
  <2>2. a = IF b = 0 THEN 0 ELSE o[b].parent
    BY <1>2, <2>1
  <2>3. a \in DOMAIN o /\ b \in DOMAIN o \cup {0}
    BY <1>2, <1>4, <2>1
  <2>. HIDE DEF a, b
  <2>4. a # 0 /\ b \in DOMAIN o /\ o[b].parent = a
    BY <1>1, <2>2, <2>3
  <2>5. b \in ToSet(o[a].kids)
    BY <1>1, <2>3, <2>4 DEF Web
  <2>6. o[a].kids # <<>>
    BY <2>5 DEF ToSet
  <2>7. o[a].kind = "pages"
    BY <1>1, <2>3, <2>6 DEF Web, Refers
  <2>8. a \in P
    BY <2>3, <2>7 DEF OfKind
  <2>. QED
    BY <2>8 DEF a
<1>5. up(MaxLevels + 1) = 0 /\ MaxLevels + 1 \in Nat
  <2>1. PICK n \in 0 .. MaxLevels : Above(o, i, n) = root
    BY <1>1 DEF Woven, Rooted, In, OfKind
  <2>2. n \in Nat /\ n + 1 <= MaxLevels + 1 /\ MaxLevels + 1 \in Nat /\ n + 1 \in Nat
    BY <2>1, LevelsAssumption
  <2>3. Above(o, i, n + 1) = 0
    <3>1. o[root].parent = 0
      BY DEF Woven, Rooted
    <3>. QED
      BY <1>2, <2>1, <2>2, <3>1
  <2>. QED
    BY <1>1, <2>2, <2>3, NothingAbove
<1>6. \A n \in Nat : n > MaxLevels => up(n) = 0
  <2>. SUFFICES ASSUME NEW n \in Nat, n > MaxLevels PROVE Above(o, i, n) = 0
    OBVIOUS
  <2>1. MaxLevels + 1 <= n
    BY LevelsAssumption
  <2>. QED
    BY <1>1, <1>5, <2>1, NothingAbove
<1>7. up(C + 1) = 0
  <2>. SUFFICES ASSUME up(C + 1) # 0 PROVE FALSE
    OBVIOUS
  <2>. HIDE DEF P
  <2>. DEFINE S == 1 .. C + 1
              f == [n \in S |-> up(n)]
  <2>1. IsFiniteSet(S) /\ Cardinality(S) = C + 1
    <3>1. C + 1 \in Nat
      BY <1>3
    <3>. QED
      BY <3>1, FS_Interval
  <2>2. ASSUME NEW n \in S PROVE up(n) \in P
    <3>1. n \in Nat \ {0} /\ n <= C + 1 /\ C + 1 \in Nat
      BY <1>3
    <3>2. up(n) # 0
      BY <1>1, <3>1, NothingAbove
    <3>. QED
      BY <1>4, <3>1, <3>2
  <2>3. f \in [S -> P]
    BY <2>2
  <2>. HIDE DEF S, f
  <2>4. PICK x \in S, y \in S : x # y /\ f[x] = f[y]
    <3>1. C < C + 1
      BY <1>3
    <3>. QED
      BY <1>3, <2>1, <2>3, <3>1, FS_PigeonHole
  <2>5. x \in Nat /\ y \in Nat
    BY <1>3 DEF S
  <2>6. Above(o, i, x) = Above(o, i, y) /\ Above(o, i, x) # 0
    BY <1>1, <2>2, <2>4 DEF f, P, OfKind
  <2>7. x < y \/ y < x
    BY <2>4, <2>5
  <2>. QED
    BY <1>1, <1>5, <2>5, <2>6, <2>7, NoCycle
<1>8. \A n \in Nat : n > C => up(n) = 0
  <2>. SUFFICES ASSUME NEW n \in Nat, n > C PROVE Above(o, i, n) = 0
    OBVIOUS
  <2>. HIDE DEF C
  <2>1. C + 1 <= n /\ C + 1 \in Nat
    BY <1>3
  <2>. QED
    BY <1>1, <1>7, <2>1, NothingAbove
<1>. QED
  BY <1>3, <1>4, <1>6, <1>8

\* What is inherited is what the levels hold, the nearest first.
LEMMA InheritedLevels ==
    ASSUME NEW o, NEW i, NEW L \in Nat
    PROVE  \A key \in DOMAIN Inherited(o, i, L) :
              /\ Min(LevelsWith(o, i, key, L)) \in LevelsWith(o, i, key, L)
              /\ Min(LevelsWith(o, i, key, L)) \in 0 .. L
              /\ \A m \in LevelsWith(o, i, key, L) : Min(LevelsWith(o, i, key, L)) <= m
              /\ Inherited(o, i, L)[key]
                    = o[Above(o, i, Min(LevelsWith(o, i, key, L)))].attributes[key]
<1>. SUFFICES ASSUME NEW key \in DOMAIN Inherited(o, i, L)
              PROVE  /\ Min(LevelsWith(o, i, key, L)) \in LevelsWith(o, i, key, L)
                     /\ Min(LevelsWith(o, i, key, L)) \in 0 .. L
                     /\ \A m \in LevelsWith(o, i, key, L) : Min(LevelsWith(o, i, key, L)) <= m
                     /\ Inherited(o, i, L)[key]
                           = o[Above(o, i, Min(LevelsWith(o, i, key, L)))].attributes[key]
  OBVIOUS
<1>. DEFINE T == LevelsWith(o, i, key, L)
<1>1. T # {} /\ T \subseteq 0 .. L /\ T \subseteq Nat
  BY DEF Inherited, LevelsWith
<1>2. Inherited(o, i, L)[key] = o[Above(o, i, Min(T))].attributes[key]
  BY DEF Inherited
<1>. HIDE DEF T
<1>3. Min(T) \in T /\ \A n \in T : Min(T) <= n
  BY <1>1, Least
<1>. QED
  BY <1>1, <1>2, <1>3 DEF T

\* When the way up has ended it does not matter how much further one looks.
LEMMA InheritedSettled ==
    ASSUME NEW o, NEW root, Woven(o, root, DOMAIN o), NEW i \in OfKind(o, "page")
    PROVE  Inherited(o, i, Cardinality(OfKind(o, "pages"))) = Inherited(o, i, MaxLevels)
<1>. DEFINE C == Cardinality(OfKind(o, "pages"))
<1>1. /\ C \in Nat /\ MaxLevels \in Nat
      /\ \A n \in Nat : n > MaxLevels => Above(o, i, n) = 0
      /\ \A n \in Nat : n > C => Above(o, i, n) = 0
  BY WayUp, LevelsAssumption
<1>. HIDE DEF C
<1>2. ASSUME NEW key PROVE LevelsWith(o, i, key, C) = LevelsWith(o, i, key, MaxLevels)
  <2>1. \A n \in Nat : Above(o, i, n) # 0 => (n \in 0 .. C <=> n \in 0 .. MaxLevels)
    BY <1>1
  <2>2. \A n \in 0 .. C : n \in Nat
    BY <1>1
  <2>3. \A n \in 0 .. MaxLevels : n \in Nat
    BY <1>1
  <2>. QED
    BY <2>1, <2>2, <2>3 DEF LevelsWith
<1>. QED
  BY <1>2 DEF Inherited, C

\* Attributes of its own go over what a page inherits.
GivesMore(o2, o, i, L) ==
    /\ i # 0 /\ L \in Nat /\ Above(o, i, 0) = i
    /\ \A n \in 0 .. L : Above(o2, i, n) = Above(o, i, n)
    /\ \A n \in 1 .. L : LET a == Above(o, i, n) IN a # 0 => o2[a].attributes = o[a].attributes
    /\ DOMAIN o[i].attributes \subseteq DOMAIN o2[i].attributes
    /\ DOMAIN o2[i].attributes \subseteq Attributes

\* What is found is what there is, over what was found.
FoundOver(found, own, before) ==
    /\ DOMAIN found = DOMAIN own \cup DOMAIN before
    /\ \A key \in DOMAIN own : found[key] = own[key]
    /\ \A key \in DOMAIN before \ DOMAIN own : found[key] = before[key]

\* An object that has attributes of its own, over those it had or inherited,
\* has or inherits these over those.
LEMMA InheritedOver ==
    ASSUME NEW o, NEW o2, NEW i, NEW L, GivesMore(o2, o, i, L)
    PROVE  FoundOver(Inherited(o2, i, L), o2[i].attributes, Inherited(o, i, L))
<1>. DEFINE found == Inherited(o2, i, L)
            own == o2[i].attributes
            before == Inherited(o, i, L)
            W(key) == LevelsWith(o, i, key, L)
            W2(key) == LevelsWith(o2, i, key, L)
<1>. USE DEF GivesMore
<1>0. 0 \in 0 .. L /\ Above(o2, i, 0) = i /\ \A n \in 0 .. L : n # 0 => n \in 1 .. L
  OBVIOUS
<1>1. /\ DOMAIN found = {key \in Attributes : W2(key) # {}}
      /\ DOMAIN before = {key \in Attributes : W(key) # {}}
      /\ \A key \in DOMAIN found : /\ Min(W2(key)) \in W2(key) /\ Min(W2(key)) \in 0 .. L
                                   /\ \A m \in W2(key) : Min(W2(key)) <= m
                                   /\ found[key] = o2[Above(o2, i, Min(W2(key)))].attributes[key]
      /\ \A key \in DOMAIN before : /\ Min(W(key)) \in W(key) /\ Min(W(key)) \in 0 .. L
                                    /\ before[key] = o[Above(o, i, Min(W(key)))].attributes[key]
  <2>1. /\ DOMAIN found = {key \in Attributes : W2(key) # {}}
        /\ DOMAIN before = {key \in Attributes : W(key) # {}}
    BY DEF Inherited
  <2>2. ASSUME NEW key \in DOMAIN found
        PROVE  /\ Min(W2(key)) \in W2(key) /\ Min(W2(key)) \in 0 .. L
               /\ \A m \in W2(key) : Min(W2(key)) <= m
               /\ found[key] = o2[Above(o2, i, Min(W2(key)))].attributes[key]
    BY InheritedLevels
  <2>3. ASSUME NEW key \in DOMAIN before
        PROVE  /\ Min(W(key)) \in W(key) /\ Min(W(key)) \in 0 .. L
               /\ before[key] = o[Above(o, i, Min(W(key)))].attributes[key]
    BY InheritedLevels
  <2>. HIDE DEF found, before, W, W2
  <2>. QED
    BY <2>1, <2>2, <2>3
<1>2. ASSUME NEW key \in DOMAIN own PROVE key \in DOMAIN found /\ found[key] = own[key]
  <2>1. 0 \in W2(key) /\ key \in Attributes
    BY <1>0 DEF LevelsWith
  <2>2. key \in DOMAIN found
    BY <1>1, <2>1
  <2>. HIDE DEF found, W2
  <2>3. Min(W2(key)) <= 0 /\ Min(W2(key)) \in 0 .. L
    BY <1>1, <2>1, <2>2
  <2>4. Min(W2(key)) = 0
    BY <2>3
  <2>5. found[key] = o2[Above(o2, i, 0)].attributes[key]
    BY <1>1, <2>2, <2>4
  <2>. QED
    BY <1>0, <2>2, <2>5
<1>3. ASSUME NEW key, key \notin DOMAIN own
      PROVE  /\ key \in DOMAIN found <=> key \in DOMAIN before
             /\ key \in DOMAIN before => found[key] = before[key]
  <2>1. W2(key) = W(key)
    <3>. SUFFICES ASSUME NEW n \in 0 .. L PROVE n \in W2(key) <=> n \in W(key)
      BY DEF LevelsWith
    <3>1. CASE n = 0
      BY <1>0, <1>3, <3>1 DEF LevelsWith
    <3>2. CASE n \in 1 .. L
      BY <3>2 DEF LevelsWith
    <3>. QED
      BY <1>0, <3>1, <3>2
  <2>. DEFINE n == Min(W(key))
  <2>2. ASSUME key \in DOMAIN before PROVE found[key] = before[key]
    <3>1. /\ key \in DOMAIN found /\ n \in W(key) /\ n \in 0 .. L
          /\ found[key] = o2[Above(o2, i, n)].attributes[key]
          /\ before[key] = o[Above(o, i, n)].attributes[key]
      <4>1. key \in DOMAIN found
        BY <1>1, <2>1, <2>2
      <4>. HIDE DEF found, before, W, W2
      <4>. QED
        BY <1>1, <2>1, <2>2, <4>1
    <3>2. Above(o, i, n) # 0 /\ key \in DOMAIN o[Above(o, i, n)].attributes
      BY <3>1 DEF LevelsWith
    <3>3. n # 0
      BY <1>3, <3>2
    <3>. HIDE DEF n
    <3>4. n \in 1 .. L
      BY <1>0, <3>1, <3>3
    <3>. QED
      BY <3>1, <3>2, <3>4
  <2>. QED
    BY <1>1, <2>1, <2>2
<1>. QED
  BY <1>2, <1>3 DEF FoundOver
\* What is inherited, with nothing changed on the way up.
LEMMA InheritedSame ==
    ASSUME NEW o, NEW o2, NEW i, NEW L \in Nat,
           \A n \in 0 .. L : /\ Above(o2, i, n) = Above(o, i, n)
                             /\ Above(o, i, n) # 0 =>
                                   o2[Above(o, i, n)].attributes = o[Above(o, i, n)].attributes
    PROVE  Inherited(o2, i, L) = Inherited(o, i, L)
<1>1. ASSUME NEW key PROVE LevelsWith(o2, i, key, L) = LevelsWith(o, i, key, L)
  BY DEF LevelsWith
<1>. DEFINE D == {k \in Attributes : LevelsWith(o, i, k, L) # {}}
            least(key) == Min(LevelsWith(o, i, key, L))
<1>2. /\ Inherited(o, i, L) = [key \in D |-> o[Above(o, i, least(key))].attributes[key]]
      /\ Inherited(o2, i, L) = [key \in D |-> o2[Above(o2, i, least(key))].attributes[key]]
  BY <1>1 DEF Inherited
<1>3. ASSUME NEW key \in D
      PROVE  o2[Above(o2, i, least(key))].attributes[key] = o[Above(o, i, least(key))].attributes[key]
  <2>1. key \in DOMAIN Inherited(o, i, L)
    BY <1>2
  <2>2. least(key) \in LevelsWith(o, i, key, L) /\ least(key) \in 0 .. L
    BY <2>1, InheritedLevels
  <2>. HIDE DEF least
  <2>3. Above(o, i, least(key)) # 0
    BY <2>2 DEF LevelsWith
  <2>. QED
    BY <2>2, <2>3
<1>. HIDE DEF D, least
<1>. QED
  BY <1>2, <1>3

Agree(f, g) == DOMAIN f = DOMAIN g /\ \A key \in DOMAIN f : f[key] = g[key]

\* A page that has all that the nodes above it have inherits nothing.
LEMMA InheritedOwn ==
    ASSUME NEW o, NEW i, i # 0, NEW L \in Nat, Above(o, i, 0) = i,
           DOMAIN o[i].attributes \subseteq Attributes,
           \A n \in 1 .. L : Above(o, i, n) # 0 =>
              DOMAIN o[Above(o, i, n)].attributes \subseteq DOMAIN o[i].attributes
    PROVE  Agree(Inherited(o, i, L), o[i].attributes)
<1>. DEFINE own == o[i].attributes
            found == Inherited(o, i, L)
<1>0. 0 \in 0 .. L /\ \A n \in 0 .. L : n # 0 => n \in 1 .. L
  OBVIOUS
<1>1. ASSUME NEW key \in DOMAIN own PROVE key \in DOMAIN found /\ found[key] = own[key]
  <2>. DEFINE T == LevelsWith(o, i, key, L)
  <2>1. 0 \in T /\ key \in Attributes
    BY <1>0 DEF LevelsWith
  <2>2. key \in DOMAIN found
    BY <2>1 DEF Inherited
  <2>3. /\ Min(T) \in 0 .. L /\ \A m \in T : Min(T) <= m
        /\ found[key] = o[Above(o, i, Min(T))].attributes[key]
    BY <2>2, InheritedLevels
  <2>. HIDE DEF T, found
  <2>4. Min(T) = 0
    BY <2>1, <2>3
  <2>. QED
    BY <2>2, <2>3, <2>4
<1>2. ASSUME NEW key \in DOMAIN found PROVE key \in DOMAIN own
  <2>1. PICK n \in 0 .. L : Above(o, i, n) # 0 /\ key \in DOMAIN o[Above(o, i, n)].attributes
    BY DEF Inherited, LevelsWith
  <2>2. CASE n = 0
    BY <2>1, <2>2
  <2>3. CASE n # 0
    BY <1>0, <2>1, <2>3
  <2>. QED
    BY <2>2, <2>3
<1>. HIDE DEF own, found
<1>3. DOMAIN found = DOMAIN own
  BY <1>1, <1>2
<1>. QED
  BY <1>1, <1>3 DEF own, found, Agree

\* When the rotation is known, it is the one that is inherited.
LEMMA RotationFound ==
    ASSUME NEW o, NEW i, RotationKnown(o, i)
    PROVE  InheritedRotation(o, i) = LET found == Inherited(o, i, MaxLevels)
                                     IN IF "rotate" \in DOMAIN found THEN found.rotate ELSE 0
<1>. DEFINE L == MaxLevels - 1
            found == Inherited(o, i, MaxLevels)
            near == Inherited(o, i, L)
            T == LevelsWith(o, i, "rotate", L)
            W == LevelsWith(o, i, "rotate", MaxLevels)
<1>0. L \in Nat /\ MaxLevels \in Nat /\ L <= MaxLevels /\ "rotate" \in Attributes
      /\ (\A n \in 0 .. MaxLevels : n \in 0 .. L \/ n = MaxLevels)
      /\ \A n \in 0 .. L : n \in 0 .. MaxLevels
  BY LevelsAssumption DEF Attributes
<1>1. T \subseteq W /\ \A n \in W : n \in 0 .. L => n \in T
  BY <1>0 DEF LevelsWith
<1>2. /\ "rotate" \in DOMAIN near <=> T # {}
      /\ "rotate" \in DOMAIN found <=> W # {}
  BY <1>0 DEF Inherited
<1>3. InheritedRotation(o, i) = IF "rotate" \in DOMAIN near THEN near.rotate ELSE 0
  BY DEF InheritedRotation
<1>4. CASE "rotate" \in DOMAIN near
  <2>1. "rotate" \in DOMAIN found
    BY <1>1, <1>2, <1>4
  <2>2. /\ Min(T) \in T /\ Min(T) \in 0 .. L /\ \A m \in T : Min(T) <= m
        /\ near["rotate"] = o[Above(o, i, Min(T))].attributes["rotate"]
    BY <1>0, <1>4, InheritedLevels
  <2>3. /\ Min(W) \in W /\ Min(W) \in 0 .. MaxLevels /\ \A m \in W : Min(W) <= m
        /\ found["rotate"] = o[Above(o, i, Min(W))].attributes["rotate"]
    BY <1>0, <2>1, InheritedLevels
  <2>. HIDE DEF T, W, near, found, L
  <2>4. Min(W) <= Min(T)
    BY <1>1, <2>2, <2>3
  <2>5. Min(W) \in 0 .. L
    BY <1>0, <2>2, <2>3, <2>4
  <2>6. Min(T) <= Min(W)
    BY <1>1, <2>2, <2>3, <2>5
  <2>7. Min(W) = Min(T)
    BY <1>0, <2>2, <2>3, <2>4, <2>6
  <2>. QED
    BY <1>3, <1>4, <2>1, <2>2, <2>3, <2>7 DEF found
<1>5. CASE "rotate" \notin DOMAIN near
  <2>1. Above(o, i, MaxLevels) = 0
    BY <1>5 DEF RotationKnown
  <2>2. T = {}
    BY <1>2, <1>5
  <2>3. W = {}
    <3>1. MaxLevels \notin W
      BY <2>1 DEF LevelsWith
    <3>2. W \subseteq 0 .. MaxLevels
      BY DEF LevelsWith
    <3>. HIDE DEF W, T
    <3>. QED
      BY <1>0, <1>1, <2>2, <3>1, <3>2
  <2>. QED
    BY <1>2, <1>3, <1>5, <2>3
<1>. QED
  BY <1>4, <1>5

-----------------------------------------------------------------------------
(* What a page shows *)

\* What some content streams draw by some names.
Ink(o, names, contents) == FlattenSeq([k \in DOMAIN contents |-> Drawn(o, names, contents[k])])

\* Content that draws the same, by names that look the same,
InkedAlike(o2, names2, contents2, o, names, contents) ==
    /\ DOMAIN contents2 = DOMAIN contents
    /\ \A k \in DOMAIN contents : o2[contents2[k]].draws = o[contents[k]].draws
    /\ \A k \in DOMAIN contents : \A j \in DOMAIN o[contents[k]].draws :
          LET item == o[contents[k]].draws[j]
          IN "own" \in DOMAIN item \/ o2[names2[item.name]].label = o[names[item.name]].label

\* looks the same.
LEMMA SameInk ==
    ASSUME NEW o, NEW names, NEW contents, NEW o2, NEW names2, NEW contents2,
           InkedAlike(o2, names2, contents2, o, names, contents)
    PROVE  Ink(o2, names2, contents2) = Ink(o, names, contents)
<1>1. ASSUME NEW k \in DOMAIN contents
      PROVE  Drawn(o2, names2, contents2[k]) = Drawn(o, names, contents[k])
  BY DEF Drawn, InkedAlike
<1>2. DOMAIN contents2 = DOMAIN contents
  BY DEF InkedAlike
<1>. QED
  BY <1>1, <1>2 DEF Ink

\* One more content stream draws after the others.
LEMMA InkAppended ==
    ASSUME NEW o, NEW names, NEW K, NEW contents \in Seq(K), NEW c \in K,
           \A s \in ToSet(contents) \cup {c} : o[s].draws \in Seq(ToSet(o[s].draws))
    PROVE  /\ Ink(o, names, Append(contents, c)) = Ink(o, names, contents) \o Drawn(o, names, c)
           /\ \E U : Ink(o, names, contents) \in Seq(U) /\ Drawn(o, names, c) \in Seq(U)
<1>. DEFINE C == ToSet(contents) \cup {c}
            v == [s \in C |-> Drawn(o, names, s)]
            U == UNION {{Drawn(o, names, s)[k] : k \in DOMAIN o[s].draws} : s \in C}
<1>1. contents \in Seq(C) /\ c \in C
  BY SeqNarrowed
<1>2. ASSUME NEW s \in C PROVE Drawn(o, names, s) \in Seq(U)
  <2>. DEFINE draws == o[s].draws
              N == Len(draws)
  <2>1. N \in Nat /\ DOMAIN draws = 1 .. N
    <3>1. draws \in Seq(ToSet(draws))
      OBVIOUS
    <3>. HIDE DEF draws
    <3>. QED
      BY <3>1
  <2>2. DOMAIN Drawn(o, names, s) = 1 .. N
    BY <2>1 DEF Drawn
  <2>3. \A k \in 1 .. N : Drawn(o, names, s)[k] \in U
    BY <2>1
  <2>4. Drawn(o, names, s) = [k \in 1 .. N |-> Drawn(o, names, s)[k]]
    BY <2>1 DEF Drawn
  <2>. HIDE DEF N, draws, U
  <2>. QED
    BY <2>1, <2>3, <2>4
<1>3. v \in [C -> Seq(U)]
  <2>. HIDE DEF U, C
  <2>. QED
    BY <1>2
<1>. HIDE DEF C, U
<1>4. \A list \in Seq(C) : Ink(o, names, list) = FlattenSeq(Mapped(v, list))
  <2>. SUFFICES ASSUME NEW list \in Seq(C) PROVE Ink(o, names, list) = FlattenSeq(Mapped(v, list))
    OBVIOUS
  <2>1. \A k \in DOMAIN list : list[k] \in C
    OBVIOUS
  <2>2. [k \in DOMAIN list |-> Drawn(o, names, list[k])] = Mapped(v, list)
    BY <2>1 DEF Mapped
  <2>. QED
    BY <2>2 DEF Ink
<1>5. Append(contents, c) \in Seq(C)
  BY <1>1
<1>6. Mapped(v, contents) \in Seq(Seq(U)) /\ v[c] \in Seq(U) /\ v[c] = Drawn(o, names, c)
  <2>1. v[c] \in Seq(U) /\ v[c] = Drawn(o, names, c)
    BY <1>1, <1>3
  <2>. HIDE DEF v
  <2>. QED
    BY <1>1, <1>3, <2>1, MappedFacts
<1>7. Mapped(v, Append(contents, c)) = Append(Mapped(v, contents), v[c])
  <2>. HIDE DEF v
  <2>. QED
    BY <1>1, MappedConcat
<1>. HIDE DEF v
<1>8. FlattenSeq(Append(Mapped(v, contents), v[c])) = FlattenSeq(Mapped(v, contents)) \o v[c]
  BY <1>6, FlattenAppend
<1>9. FlattenSeq(Mapped(v, contents)) \in Seq(U)
  BY <1>6, FlattenFacts
<1>10. Ink(o, names, contents) \in Seq(U) /\ Drawn(o, names, c) \in Seq(U)
  BY <1>1, <1>4, <1>6, <1>9
<1>. QED
  BY <1>1, <1>4, <1>5, <1>6, <1>7, <1>8, <1>10

\* What is looked up the same.
Likewise(f, g, key) == (key \in DOMAIN f <=> key \in DOMAIN g) /\ (key \in DOMAIN f => f[key] = g[key])

\* A page reads as another in its document: it draws the same, names what
\* looks the same, is annotated the same and has the same attributes.
Reads(o2, x2, f2, o, x, f) ==
    /\ DOMAIN x2.contents = DOMAIN x.contents
    /\ \A k \in DOMAIN x.contents : o2[x2.contents[k]].draws = o[x.contents[k]].draws
    /\ DOMAIN Named(f2) = DOMAIN Named(f)
    /\ \A name \in DOMAIN Named(f) : o2[Named(f2)[name]].label = o[Named(f)[name]].label
    /\ DOMAIN x2.annots = DOMAIN x.annots
    /\ \A k \in DOMAIN x.annots : Note(o2, x2.annots[k]) = Note(o, x.annots[k])
    /\ \A key \in {"rotate", "crop", "media"} : Likewise(f2, f, key)

\* What is drawn goes on being drawn when there are more names.
Draws(o2, names2, contents2, o, names, contents) ==
    /\ DOMAIN contents2 = DOMAIN contents
    /\ \A k \in DOMAIN contents : o2[contents2[k]].draws = o[contents[k]].draws
    /\ DOMAIN names \subseteq DOMAIN names2
    /\ \A name \in DOMAIN names : o2[names2[name]].label = o[names[name]].label

\* Content that draws by other numbers, but the same for each name, looks the same
\* and is as readable.
LEMMA DrawsSame ==
    ASSUME NEW o, NEW x, NEW f, NEW o2, NEW names2, NEW contents2,
           Readable(o, x, f), Draws(o2, names2, contents2, o, Named(f), x.contents)
    PROVE  /\ Ink(o2, names2, contents2) = Ink(o, Named(f), x.contents)
           /\ \A c \in ToSet(contents2) :
                 /\ o2[c].draws \in Seq(ToSet(o2[c].draws))
                 /\ \A item \in ToSet(o2[c].draws) : "own" \in DOMAIN item \/ item.name \in DOMAIN names2
<1>1. ASSUME NEW k \in DOMAIN x.contents, NEW j \in DOMAIN o[x.contents[k]].draws
      PROVE  LET item == o[x.contents[k]].draws[j]
             IN "own" \in DOMAIN item \/ item.name \in DOMAIN Named(f)
  BY DEF Readable, ToSet
<1>2. Ink(o2, names2, contents2) = Ink(o, Named(f), x.contents)
  <2>1. /\ DOMAIN contents2 = DOMAIN x.contents
        /\ \A k \in DOMAIN x.contents : o2[contents2[k]].draws = o[x.contents[k]].draws
    BY DEF Draws
  <2>2. \A k \in DOMAIN x.contents : \A j \in DOMAIN o[x.contents[k]].draws :
           LET item == o[x.contents[k]].draws[j]
           IN \/ "own" \in DOMAIN item
              \/ o2[names2[item.name]].label = o[Named(f)[item.name]].label
    BY <1>1 DEF Draws
  <2>3. InkedAlike(o2, names2, contents2, o, Named(f), x.contents)
    BY <2>1, <2>2 DEF InkedAlike
  <2>. QED
    BY <2>3, SameInk
<1>3. ASSUME NEW c \in ToSet(contents2)
      PROVE  /\ o2[c].draws \in Seq(ToSet(o2[c].draws))
             /\ \A item \in ToSet(o2[c].draws) : "own" \in DOMAIN item \/ item.name \in DOMAIN names2
  <2>1. PICK k \in DOMAIN contents2 : contents2[k] = c
    BY DEF ToSet
  <2>2. k \in DOMAIN x.contents /\ o2[c].draws = o[x.contents[k]].draws
    BY <2>1 DEF Draws
  <2>3. x.contents[k] \in ToSet(x.contents)
    BY <2>2 DEF ToSet
  <2>. QED
    BY <2>2, <2>3 DEF Draws, Readable
<1>. QED
  BY <1>2, <1>3

\* The parts of a view.
Notes(o, annots) == [k \in DOMAIN annots |-> Note(o, annots[k])]
Value(f, key, missing) == IF key \in DOMAIN f THEN f[key] ELSE missing

\* What a page shows, part by part.
LEMMA PageViewParts ==
    ASSUME NEW o, NEW x, NEW f
    PROVE  PageView(o, x, f) = [drawn |-> Ink(o, Named(f), x.contents), annots |-> Notes(o, x.annots),
                                rotate |-> Value(f, "rotate", 0) % 360, crop |-> Value(f, "crop", None),
                                media |-> Value(f, "media", None)]
  BY DEF PageView, Ink, Notes, Value

\* A page that reads alike shows the same and is as readable.
LEMMA ReadsSame ==
    ASSUME NEW o, NEW x, NEW f, NEW o2, NEW x2, NEW f2,
           Readable(o, x, f), Reads(o2, x2, f2, o, x, f)
    PROVE  PageView(o2, x2, f2) = PageView(o, x, f) /\ Readable(o2, x2, f2)
<1>1. Draws(o2, Named(f2), x2.contents, o, Named(f), x.contents)
  BY DEF Reads, Draws
<1>2. /\ Ink(o2, Named(f2), x2.contents) = Ink(o, Named(f), x.contents)
      /\ \A c \in ToSet(x2.contents) :
            /\ o2[c].draws \in Seq(ToSet(o2[c].draws))
            /\ \A item \in ToSet(o2[c].draws) : "own" \in DOMAIN item \/ item.name \in DOMAIN Named(f2)
  BY <1>1, DrawsSame
<1>3. Notes(o2, x2.annots) = Notes(o, x.annots)
  BY DEF Reads, Notes
<1>4. /\ Value(f2, "rotate", 0) = Value(f, "rotate", 0)
      /\ Value(f2, "crop", None) = Value(f, "crop", None)
      /\ Value(f2, "media", None) = Value(f, "media", None)
  <2>1. /\ Likewise(f2, f, "rotate")
        /\ Likewise(f2, f, "crop")
        /\ Likewise(f2, f, "media")
    BY DEF Reads
  <2>. QED
    BY <2>1 DEF Likewise, Value
<1>5. IsFiniteSet(DOMAIN Named(f2))
  BY DEF Reads, Readable
<1>6. PageView(o2, x2, f2) = PageView(o, x, f)
  BY <1>2, <1>3, <1>4, PageViewParts
<1>. QED
  BY <1>2, <1>5, <1>6 DEF Readable
-----------------------------------------------------------------------------
(* Objects that are given other numbers, or that others are dropped from *)

\* The objects of a web, each found in another under its new number.
Carried(o2, o, number) ==
    /\ Web(o, DOMAIN o) /\ Web(o2, DOMAIN o2) /\ Numbering(number, DOMAIN o)
    /\ \A j \in DOMAIN o : number[j] \in DOMAIN o2 /\ MovedTo(o[j], o2[number[j]], number)

\* Where objects are given other numbers, what is above an object is given them
\* as well.
LEMMA AboveCarried ==
    ASSUME NEW o, NEW o2, NEW number, Carried(o2, o, number), NEW i \in DOMAIN o
    PROVE  \A n \in Nat : Above(o2, number[i], n) = Ref(number, Above(o, i, n))
<1>. DEFINE T == {n \in Nat : Above(o2, number[i], n) = Ref(number, Above(o, i, n))}
<1>1. /\ Upwards(o, DOMAIN o) /\ Upwards(o2, DOMAIN o2) /\ number[i] \in DOMAIN o2
      /\ \A j \in DOMAIN o : /\ number[j] \in DOMAIN o2 /\ j # 0 /\ number[j] # 0
                             /\ o2[number[j]].parent = Ref(number, o[j].parent)
  BY WebUpwards DEF Carried, MovedTo, Numbering, Upwards
<1>2. 0 \in T
  BY <1>1, AboveRec DEF Ref
<1>3. ASSUME NEW n \in Nat, n \in T PROVE n + 1 \in T
  <2>. DEFINE a == Above(o, i, n)
              b == Above(o2, number[i], n)
  <2>1. b = Ref(number, a) /\ a \in DOMAIN o \cup {0}
    BY <1>1, <1>3, AboveRec
  <2>2. /\ Above(o, i, n + 1) = IF a = 0 THEN 0 ELSE o[a].parent
        /\ Above(o2, number[i], n + 1) = IF b = 0 THEN 0 ELSE o2[b].parent
    BY <1>1, AboveRec
  <2>. HIDE DEF a, b
  <2>3. Above(o2, number[i], n + 1) = Ref(number, Above(o, i, n + 1))
    BY <1>1, <2>1, <2>2 DEF Ref
  <2>. QED
    BY <2>3
<1>4. \A n \in Nat : n \in T
  <2>. HIDE DEF T
  <2>. QED
    BY <1>2, <1>3, NatSetInduction
<1>. QED
  BY <1>4

\* What is inherited moves with it.
LEMMA InheritedCarried ==
    ASSUME NEW o, NEW o2, NEW number, Carried(o2, o, number), NEW i \in DOMAIN o, NEW L \in Nat
    PROVE  LET found2 == Inherited(o2, number[i], L)
               found == Inherited(o, i, L)
           IN /\ DOMAIN found2 = DOMAIN found
              /\ \A key \in DOMAIN found \ {"resources"} : found2[key] = found[key]
              /\ Named(found2) = Mapped(number, Named(found))
<1>. DEFINE found2 == Inherited(o2, number[i], L)
            found == Inherited(o, i, L)
            T(key) == LevelsWith(o, i, key, L)
            up(n) == Above(o, i, n)
<1>1. \A n \in Nat : /\ Above(o2, number[i], n) = Ref(number, up(n))
                     /\ up(n) \in DOMAIN o \cup {0}
  BY AboveCarried, AboveRec, WebUpwards DEF Carried
<1>2. \A j \in DOMAIN o : /\ j # 0 /\ number[j] # 0 /\ MovedTo(o[j], o2[number[j]], number)
                          /\ DOMAIN o2[number[j]].attributes = DOMAIN o[j].attributes
  BY DEF Carried, Numbering, Web, MovedTo
<1>. HIDE DEF up
<1>3. ASSUME NEW n \in Nat
      PROVE  /\ Above(o2, number[i], n) # 0 <=> up(n) # 0
             /\ up(n) # 0 => /\ Above(o2, number[i], n) = number[up(n)] /\ up(n) \in DOMAIN o
                             /\ DOMAIN o2[number[up(n)]].attributes = DOMAIN o[up(n)].attributes
  BY <1>1, <1>2 DEF Ref
<1>4. ASSUME NEW key PROVE LevelsWith(o2, number[i], key, L) = T(key)
  <2>1. \A n \in 0 .. L : n \in Nat
    OBVIOUS
  <2>. QED
    BY <1>3, <2>1 DEF LevelsWith, up
<1>5. DOMAIN found2 = DOMAIN found
  BY <1>4 DEF Inherited
<1>6. ASSUME NEW key \in DOMAIN found
      PROVE  \E j \in DOMAIN o : /\ key \in DOMAIN o[j].attributes
                                 /\ found[key] = o[j].attributes[key]
                                 /\ found2[key] = o2[number[j]].attributes[key]
  <2>1. /\ Min(T(key)) \in T(key) /\ Min(T(key)) \in 0 .. L
        /\ found[key] = o[Above(o, i, Min(T(key)))].attributes[key]
    BY InheritedLevels
  <2>2. found2[key] = o2[Above(o2, number[i], Min(T(key)))].attributes[key]
    BY <1>4, <1>5, InheritedLevels
  <2>3. up(Min(T(key))) # 0 /\ key \in DOMAIN o[up(Min(T(key)))].attributes
    BY <2>1 DEF LevelsWith, up
  <2>. DEFINE n == Min(T(key))
  <2>4. n \in Nat
    BY <2>1
  <2>. HIDE DEF n
  <2>. QED
    BY <1>3, <2>1, <2>2, <2>3, <2>4 DEF n, up
<1>. HIDE DEF found, found2
<1>7. ASSUME NEW key \in DOMAIN found \ {"resources"} PROVE found2[key] = found[key]
  BY <1>2, <1>6 DEF MovedTo
<1>8. Named(found2) = Mapped(number, Named(found))
  <2>1. CASE "resources" \in DOMAIN found
    <3>1. PICK j \in DOMAIN o : /\ "resources" \in DOMAIN o[j].attributes
                                /\ found["resources"] = o[j].attributes["resources"]
                                /\ found2["resources"] = o2[number[j]].attributes["resources"]
      BY <1>6, <2>1
    <3>2. /\ Named(o2[number[j]].attributes) = Mapped(number, Named(o[j].attributes))
          /\ "resources" \in DOMAIN o2[number[j]].attributes
      BY <1>2, <3>1 DEF MovedTo
    <3>. QED
      BY <1>5, <2>1, <3>1, <3>2 DEF Named
  <2>2. CASE "resources" \notin DOMAIN found
    <3>1. Named(found) = <<>> /\ Named(found2) = <<>>
      BY <1>5, <2>2 DEF Named
    <3>. QED
      BY <3>1 DEF Mapped
  <2>. QED
    BY <2>1, <2>2
<1>. QED
  BY <1>5, <1>7, <1>8 DEF found, found2

\* A page reads the same under its new number.
LEMMA CarriedReads ==
    ASSUME NEW o, NEW o2, NEW number, Carried(o2, o, number), NEW i \in DOMAIN o, NEW L \in Nat
    PROVE  Reads(o2, o2[number[i]], Inherited(o2, number[i], L), o, o[i], Inherited(o, i, L))
<1>. DEFINE x == o[i]
            x2 == o2[number[i]]
            f == Inherited(o, i, L)
            f2 == Inherited(o2, number[i], L)
            D == DOMAIN o
<1>1. /\ Web(o, D) /\ Shaped(x, D) /\ Refers(o, D, x) /\ MovedTo(x, x2, number)
      /\ \A j \in D : o2[number[j]].draws = o[j].draws /\ o2[number[j]].label = o[j].label
      /\ \A j \in D : o2[number[j]].kind = o[j].kind
      /\ \A j \in D : o2[number[j]].appearance = Ref(number, o[j].appearance)
      /\ \A j \in D : o[j].appearance \in D \cup {0}
      /\ \A j \in D : j # 0 /\ number[j] # 0
  <2>1. Web(o, D) /\ Shaped(x, D) /\ Refers(o, D, x) /\ MovedTo(x, x2, number)
    BY DEF Carried, Web
  <2>2. \A j \in D : MovedTo(o[j], o2[number[j]], number)
    BY DEF Carried
  <2>3. \A j \in D : o[j].appearance \in D \cup {0}
    BY DEF Carried, Web, Refers, In
  <2>4. \A j \in D : j # 0 /\ number[j] # 0
    BY DEF Carried, Web, Numbering
  <2>. QED
    BY <2>1, <2>2, <2>3, <2>4 DEF MovedTo
<1>2. /\ DOMAIN f2 = DOMAIN f
      /\ \A key \in DOMAIN f \ {"resources"} : f2[key] = f[key]
      /\ Named(f2) = Mapped(number, Named(f))
  BY InheritedCarried
<1>3. \A name \in DOMAIN Named(f) : Named(f)[name] \in In(o, D, {"state", "form"})
  BY <1>1, InheritedProper
<1>. HIDE DEF f, f2
<1>4. /\ DOMAIN x2.contents = DOMAIN x.contents
      /\ \A k \in DOMAIN x.contents : x2.contents[k] = number[x.contents[k]] /\ x.contents[k] \in D
  BY <1>1 DEF MovedTo, Mapped, Shaped
<1>5. /\ DOMAIN x2.annots = DOMAIN x.annots
      /\ \A k \in DOMAIN x.annots : x2.annots[k] = number[x.annots[k]] /\ x.annots[k] \in D
  BY <1>1 DEF MovedTo, Mapped, Shaped
<1>6. ASSUME NEW a \in D PROVE Note(o2, number[a]) = Note(o, a)
  <2>1. o2[number[a]].appearance = 0 <=> o[a].appearance = 0
    BY <1>1 DEF Ref
  <2>2. o[a].appearance # 0 => o2[o2[number[a]].appearance].label = o[o[a].appearance].label
    BY <1>1 DEF Ref
  <2>. QED
    BY <1>1, <2>1, <2>2 DEF Note
<1>7. DOMAIN Named(f2) = DOMAIN Named(f)
  BY <1>2 DEF Mapped
<1>8. ASSUME NEW name \in DOMAIN Named(f) PROVE o2[Named(f2)[name]].label = o[Named(f)[name]].label
  BY <1>1, <1>2, <1>3 DEF Mapped, In
<1>9. \A key \in {"rotate", "crop", "media"} : Likewise(f2, f, key)
  BY <1>2 DEF Likewise
<1>. QED
  BY <1>1, <1>4, <1>5, <1>6, <1>7, <1>8, <1>9 DEF Reads, f, f2

\* The pages in page order are the same pages.
Follows(o2, o, f) ==
    /\ Web(o, DOMAIN o) /\ Web(o2, DOMAIN o2) /\ f \in [DOMAIN o -> DOMAIN o2]
    /\ \A i \in DOMAIN o : o2[f[i]].kind = o[i].kind /\ o2[f[i]].kids = Mapped(f, o[i].kids)

\* Lists of an object's numbers, and of those they became.
Lists2(o2, o, f, v2, v) ==
    /\ v \in [DOMAIN o -> Seq(DOMAIN o)] /\ v2 \in [DOMAIN o2 -> Seq(DOMAIN o2)]
    /\ \A c \in DOMAIN o : v2[f[c]] = Mapped(f, v[c])

\* The pages below an object are those it had, by their new numbers, when those
\* below its kids are,
LEMMA LeavesFromCarried ==
    ASSUME NEW o, NEW o2, NEW f, Follows(o2, o, f), NEW v, NEW v2, Lists2(o2, o, f, v2, v)
    PROVE  \A i \in DOMAIN o : LeavesFrom(o2, f[i], v2) = Mapped(f, LeavesFrom(o, i, v))
<1>. SUFFICES ASSUME NEW i \in DOMAIN o
              PROVE  LeavesFrom(o2, f[i], v2) = Mapped(f, LeavesFrom(o, i, v))
  OBVIOUS
<1>0. /\ f \in [DOMAIN o -> DOMAIN o2] /\ Web(o, DOMAIN o) /\ Web(o2, DOMAIN o2)
      /\ o2[f[i]].kind = o[i].kind /\ o2[f[i]].kids = Mapped(f, o[i].kids)
      /\ v \in [DOMAIN o -> Seq(DOMAIN o)] /\ v2 \in [DOMAIN o2 -> Seq(DOMAIN o2)]
      /\ \A c \in DOMAIN o : v2[f[c]] = Mapped(f, v[c])
  BY DEF Follows, Lists2
<1>. USE <1>0
<1>. DEFINE kids == o[i].kids
            ss == Mapped(v, kids)
<1>1. kids \in Seq(DOMAIN o)
  BY DEF Web, Shaped
<1>2. CASE o[i].kind = "page"
  BY <1>2 DEF LeavesFrom, Mapped
<1>3. CASE o[i].kind = "pages"
  <2>1. LeavesFrom(o, i, v) = FlattenSeq(ss)
    BY <1>3 DEF LeavesFrom, Mapped
  <2>2. LeavesFrom(o2, f[i], v2) = FlattenSeq([k \in DOMAIN kids |-> v2[f[kids[k]]]])
    <3>1. DOMAIN o2[f[i]].kids = DOMAIN kids /\ \A k \in DOMAIN kids : o2[f[i]].kids[k] = f[kids[k]]
      BY DEF Mapped
    <3>2. LeavesFrom(o2, f[i], v2) = FlattenSeq([k \in DOMAIN o2[f[i]].kids |-> v2[o2[f[i]].kids[k]]])
      BY <1>3 DEF LeavesFrom
    <3>3. [k \in DOMAIN o2[f[i]].kids |-> v2[o2[f[i]].kids[k]]] = [k \in DOMAIN kids |-> v2[f[kids[k]]]]
      <4>. HIDE DEF kids
      <4>. QED
        BY <3>1
    <3>. QED
      BY <3>2, <3>3
  <2>3. \A k \in DOMAIN kids : v2[f[kids[k]]] = Mapped(f, ss[k]) /\ DOMAIN ss = DOMAIN kids
    <3>1. \A k \in DOMAIN kids : kids[k] \in DOMAIN o
      BY <1>1
    <3>2. \A k \in DOMAIN kids : ss[k] = v[kids[k]] /\ DOMAIN ss = DOMAIN kids
      BY DEF Mapped
    <3>. HIDE DEF kids, ss
    <3>. QED
      BY <3>1, <3>2
  <2>4. DOMAIN ss = DOMAIN kids
    BY DEF Mapped
  <2>5. [k \in DOMAIN kids |-> v2[f[kids[k]]]] = [k \in DOMAIN ss |-> Mapped(f, ss[k])]
    <3>. HIDE DEF ss, kids
    <3>. QED
      BY <2>3, <2>4
  <2>6. ss \in Seq(Seq(DOMAIN o))
    <3>. HIDE DEF kids
    <3>. QED
      BY <1>1, MappedFacts
  <2>. HIDE DEF ss
  <2>7. FlattenSeq([k \in DOMAIN ss |-> Mapped(f, ss[k])]) = Mapped(f, FlattenSeq(ss))
    <3>1. f \in [DOMAIN o -> DOMAIN o2]
      OBVIOUS
    <3>. HIDE <1>0
    <3>. QED
      BY <2>6, <3>1, FlattenMapped
  <2>. QED
    BY <2>1, <2>2, <2>5, <2>7
<1>4. CASE o[i].kind \notin {"page", "pages"}
  <2>1. LeavesFrom(o, i, v) = <<>> /\ LeavesFrom(o2, f[i], v2) = <<>>
    BY <1>4 DEF LeavesFrom
  <2>. QED
    BY <2>1 DEF Mapped
<1>. QED
  BY <1>2, <1>3, <1>4

\* and so at every level.
LEMMA LeavesCarried ==
    ASSUME NEW o, NEW o2, NEW f, Follows(o2, o, f)
    PROVE  \A n \in Nat : \A i \in DOMAIN o : Leaves(o2, n)[f[i]] = Mapped(f, Leaves(o, n)[i])
<1>. DEFINE T == {n \in Nat : \A i \in DOMAIN o : Leaves(o2, n)[f[i]] = Mapped(f, Leaves(o, n)[i])}
            none == [j \in DOMAIN o |-> <<>>]
            none2 == [j \in DOMAIN o2 |-> <<>>]
<1>0. Web(o, DOMAIN o) /\ Web(o2, DOMAIN o2) /\ f \in [DOMAIN o -> DOMAIN o2]
  BY DEF Follows
<1>1. 0 \in T
  <2>1. none \in [DOMAIN o -> Seq(DOMAIN o)] /\ none2 \in [DOMAIN o2 -> Seq(DOMAIN o2)]
    OBVIOUS
  <2>2. Lists2(o2, o, f, none2, none)
    <3>1. \A c \in DOMAIN o : none2[f[c]] = Mapped(f, none[c])
      BY <1>0 DEF Mapped
    <3>. HIDE DEF none, none2
    <3>. QED
      BY <2>1, <3>1 DEF Lists2
  <2>. HIDE DEF none, none2
  <2>3. \A i \in DOMAIN o : LeavesFrom(o2, f[i], none2) = Mapped(f, LeavesFrom(o, i, none))
    BY <2>2, LeavesFromCarried
  <2>4. \A i \in DOMAIN o : /\ Leaves(o, 0)[i] = LeavesFrom(o, i, none)
                            /\ Leaves(o2, 0)[f[i]] = LeavesFrom(o2, f[i], none2)
    BY <1>0, LeavesRec DEF none, none2
  <2>. QED
    BY <2>3, <2>4
<1>2. ASSUME NEW n \in Nat, n \in T PROVE n + 1 \in T
  <2>1. Leaves(o, n) \in [DOMAIN o -> Seq(DOMAIN o)] /\ Leaves(o2, n) \in [DOMAIN o2 -> Seq(DOMAIN o2)]
    BY <1>0, LeavesRec
  <2>2. Lists2(o2, o, f, Leaves(o2, n), Leaves(o, n))
    BY <1>2, <2>1 DEF Lists2
  <2>3. \A i \in DOMAIN o :
           LeavesFrom(o2, f[i], Leaves(o2, n)) = Mapped(f, LeavesFrom(o, i, Leaves(o, n)))
    BY <2>2, LeavesFromCarried
  <2>4. \A i \in DOMAIN o : /\ Leaves(o, n + 1)[i] = LeavesFrom(o, i, Leaves(o, n))
                            /\ Leaves(o2, n + 1)[f[i]] = LeavesFrom(o2, f[i], Leaves(o2, n))
    BY <1>0, LeavesRec
  <2>. QED
    BY <2>3, <2>4
<1>. HIDE DEF T
<1>3. \A n \in Nat : n \in T
  BY <1>1, <1>2, NatSetInduction
<1>. QED
  BY <1>3 DEF T

\* Objects that are added, or dropped, beside the tree leave its pages.
LEMMA LeavesSame ==
    ASSUME NEW o, NEW o2, Web(o, DOMAIN o), Web(o2, DOMAIN o2), DOMAIN o \subseteq DOMAIN o2,
           \A i \in DOMAIN o : o2[i].kind = o[i].kind /\ o2[i].kids = o[i].kids
    PROVE  \A n \in Nat : \A i \in DOMAIN o : Leaves(o2, n)[i] = Leaves(o, n)[i]
<1>. DEFINE f == [i \in DOMAIN o |-> i]
<1>1. f \in [DOMAIN o -> DOMAIN o2] /\ \A i \in DOMAIN o : f[i] = i
  OBVIOUS
<1>. HIDE DEF f
<1>2. ASSUME NEW s \in Seq(DOMAIN o) PROVE Mapped(f, s) = s
  <2>1. \A k \in DOMAIN s : f[s[k]] = s[k]
    BY <1>1
  <2>2. s = [k \in DOMAIN s |-> s[k]]
    OBVIOUS
  <2>. QED
    BY <2>1, <2>2 DEF Mapped
<1>3. \A i \in DOMAIN o : o2[f[i]].kind = o[i].kind /\ o2[f[i]].kids = Mapped(f, o[i].kids)
  <2>1. \A i \in DOMAIN o : o[i].kids \in Seq(DOMAIN o)
    BY DEF Web, Shaped
  <2>. QED
    BY <1>1, <1>2, <2>1
<1>4. \A n \in Nat : \A i \in DOMAIN o : Leaves(o2, n)[f[i]] = Mapped(f, Leaves(o, n)[i])
  <2>1. Follows(o2, o, f)
    BY <1>1, <1>3 DEF Follows
  <2>. QED
    BY <2>1, LeavesCarried
<1>5. \A n \in Nat : \A i \in DOMAIN o : Leaves(o, n)[i] \in Seq(DOMAIN o)
  BY LeavesRec
<1>. QED
  BY <1>1, <1>2, <1>4, <1>5


\* What the pages are where some are deleted: they are taken out of every list.
Thinned(o2, o, S) ==
    /\ Web(o, DOMAIN o) /\ Web(o2, DOMAIN o2) /\ DOMAIN o2 = S /\ S \subseteq DOMAIN o
    /\ \A i \in DOMAIN o \ S : o[i].kind = "page"
    /\ \A i \in S : o2[i].kind = o[i].kind /\ o2[i].kids = Only(o[i].kids, S)

ListsThinned(o2, o, S, w, v) ==
    /\ v \in [DOMAIN o -> Seq(DOMAIN o)] /\ w \in [S -> Seq(S)]
    /\ \A c \in DOMAIN o : Only(v[c], S) = IF c \in S THEN w[c] ELSE <<>>

\* A sequence of one is kept or is not.
LEMMA OnlyOne ==
    ASSUME NEW x, NEW S
    PROVE  Only(<<x>>, S) = IF x \in S THEN <<x>> ELSE <<>>
<1>1. Append(<<>>, x) = <<x>> /\ <<>> \in Seq({x}) /\ x \in {x}
  OBVIOUS
<1>2. Only(Append(<<>>, x), S) = IF x \in S THEN Append(Only(<<>>, S), x) ELSE Only(<<>>, S)
  BY <1>1, OnlyAppend
<1>. QED
  BY <1>1, <1>2, OnlyNothing

\* Where objects are dropped, the pages below one that stays are those it had that
\* stay, when those below its kids are,
LEMMA LeavesFromThinned ==
    ASSUME NEW o, NEW o2, NEW S, Thinned(o2, o, S), NEW w, NEW v, ListsThinned(o2, o, S, w, v)
    PROVE  \A i \in DOMAIN o :
              Only(LeavesFrom(o, i, v), S) = IF i \in S THEN LeavesFrom(o2, i, w) ELSE <<>>
<1>. SUFFICES ASSUME NEW i \in DOMAIN o
              PROVE  Only(LeavesFrom(o, i, v), S) = IF i \in S THEN LeavesFrom(o2, i, w) ELSE <<>>
  OBVIOUS
<1>. DEFINE kids == o[i].kids
            D == DOMAIN o
<1>1. CASE o[i].kind = "page"
  <2>1. LeavesFrom(o, i, v) = <<i>>
    BY <1>1 DEF LeavesFrom
  <2>2. i \in S => LeavesFrom(o2, i, w) = <<i>>
    BY <1>1 DEF LeavesFrom, Thinned
  <2>. QED
    BY <2>1, <2>2, OnlyOne
<1>2. CASE o[i].kind = "pages"
  <2>1. i \in S /\ o2[i].kind = "pages" /\ o2[i].kids = Only(kids, S)
    BY <1>2 DEF Thinned
  <2>2. LeavesFrom(o, i, v) = FlattenSeq(Mapped(v, kids))
    BY <1>2 DEF LeavesFrom, Mapped
  <2>3. LeavesFrom(o2, i, w) = FlattenSeq(Mapped(w, Only(kids, S)))
    BY <2>1 DEF LeavesFrom, Mapped
  <2>4. kids \in Seq(D)
    BY DEF Thinned, Web, Shaped
  <2>5. /\ v \in [D -> Seq(D)] /\ S \subseteq D /\ w \in [S -> Seq(S)]
        /\ \A c \in S : Only(v[c], S) = w[c]
        /\ \A c \in D \ S : Only(v[c], S) = <<>>
    BY DEF Thinned, ListsThinned
  <2>6. w \in [S -> Seq(D)]
    BY <2>5
  <2>. HIDE DEF kids, D
  <2>7. Only(FlattenSeq(Mapped(v, kids)), S) = FlattenSeq(Mapped(w, Only(kids, S)))
    <3>1. \A s \in Seq(D) : Only(FlattenSeq(Mapped(v, s)), S) = FlattenSeq(Mapped(w, Only(s, S)))
      <4>1. Sifted(w, S, v, D, S, D)
        BY <2>5, <2>6 DEF Sifted
      <4>. QED
        BY <4>1, FlattenOnly
    <3>. QED
      BY <2>4, <3>1
  <2>. QED
    BY <2>1, <2>2, <2>3, <2>7
<1>3. CASE o[i].kind \notin {"page", "pages"}
  <2>1. i \in S /\ o2[i].kind = o[i].kind
    BY <1>3 DEF Thinned
  <2>2. LeavesFrom(o, i, v) = <<>> /\ LeavesFrom(o2, i, w) = <<>>
    BY <1>3, <2>1 DEF LeavesFrom
  <2>. QED
    BY <2>1, <2>2, OnlyNothing
<1>. QED
  BY <1>1, <1>2, <1>3

\* and so at every level.
LEMMA LeavesThinned ==
    ASSUME NEW o, NEW o2, NEW S, Thinned(o2, o, S)
    PROVE  \A n \in Nat : \A i \in S : Leaves(o2, n)[i] = Only(Leaves(o, n)[i], S)
<1>. DEFINE T == {n \in Nat : ListsThinned(o2, o, S, Leaves(o2, n), Leaves(o, n))}
            none == [j \in DOMAIN o |-> <<>>]
            none2 == [j \in DOMAIN o2 |-> <<>>]
<1>0. Web(o, DOMAIN o) /\ Web(o2, DOMAIN o2) /\ DOMAIN o2 = S /\ S \subseteq DOMAIN o
  BY DEF Thinned
<1>1. \A n \in Nat : /\ Leaves(o, n) \in [DOMAIN o -> Seq(DOMAIN o)]
                     /\ Leaves(o2, n) \in [S -> Seq(S)]
  BY <1>0, LeavesRec
<1>2. 0 \in T
  <2>1. ListsThinned(o2, o, S, none2, none)
    BY <1>0, OnlyNothing DEF ListsThinned
  <2>. HIDE DEF none, none2
  <2>2. \A i \in DOMAIN o :
           Only(LeavesFrom(o, i, none), S) = IF i \in S THEN LeavesFrom(o2, i, none2) ELSE <<>>
    BY <2>1, LeavesFromThinned
  <2>3. \A i \in DOMAIN o : Leaves(o, 0)[i] = LeavesFrom(o, i, none)
    BY <1>0, LeavesRec DEF none
  <2>4. \A i \in S : Leaves(o2, 0)[i] = LeavesFrom(o2, i, none2)
    BY <1>0, LeavesRec DEF none2
  <2>. QED
    BY <1>1, <2>2, <2>3, <2>4 DEF ListsThinned
<1>3. ASSUME NEW n \in Nat, n \in T PROVE n + 1 \in T
  <2>1. \A i \in DOMAIN o :
           Only(LeavesFrom(o, i, Leaves(o, n)), S)
              = IF i \in S THEN LeavesFrom(o2, i, Leaves(o2, n)) ELSE <<>>
    BY <1>3, LeavesFromThinned
  <2>2. \A i \in DOMAIN o : Leaves(o, n + 1)[i] = LeavesFrom(o, i, Leaves(o, n))
    BY <1>0, LeavesRec
  <2>3. \A i \in S : Leaves(o2, n + 1)[i] = LeavesFrom(o2, i, Leaves(o2, n))
    BY <1>0, LeavesRec
  <2>. DEFINE m == n + 1
  <2>4. m \in Nat
    OBVIOUS
  <2>5. /\ Leaves(o, m) \in [DOMAIN o -> Seq(DOMAIN o)]
        /\ Leaves(o2, m) \in [S -> Seq(S)]
    BY <1>1, <2>4
  <2>. QED
    BY <2>1, <2>2, <2>3, <2>4, <2>5 DEF ListsThinned
<1>. HIDE DEF T
<1>4. \A n \in Nat : n \in T
  BY <1>2, <1>3, NatSetInduction
<1>. QED
  BY <1>0, <1>4 DEF T, ListsThinned

\* Under a flat tree the pages are what its root lists.
LEMMA FlatLeaves ==
    ASSUME NEW o, Web(o, DOMAIN o), NEW root \in DOMAIN o, o[root].kind = "pages",
           \A c \in ToSet(o[root].kids) : o[c].kind = "page"
    PROVE  \A n \in Nat \ {0} : Leaves(o, n)[root] = o[root].kids
<1>. DEFINE kids == o[root].kids
            P == ToSet(kids)
            single == [x \in P |-> <<x>>]
<1>1. kids \in Seq(DOMAIN o)
  BY DEF Web, Shaped
<1>2. ASSUME NEW c \in P, NEW n \in Nat PROVE Leaves(o, n)[c] = <<c>>
  <2>0. c \in DOMAIN o /\ o[c].kind = "page"
    BY <1>1 DEF ToSet
  <2>1. \A v : LeavesFrom(o, c, v) = <<c>>
    BY <2>0 DEF LeavesFrom
  <2>2. CASE n = 0
    <3>. DEFINE none == [j \in DOMAIN o |-> <<>>]
    <3>1. Leaves(o, 0)[c] = LeavesFrom(o, c, none)
      BY <2>0, LeavesRec
    <3>. HIDE DEF none
    <3>. QED
      BY <2>1, <2>2, <3>1
  <2>3. CASE n # 0
    <3>1. PICK m \in Nat : n = m + 1
      <4>1. n - 1 \in Nat /\ n = (n - 1) + 1
        BY <2>3
      <4>. QED
        BY <4>1
    <3>2. Leaves(o, m + 1)[c] = LeavesFrom(o, c, Leaves(o, m))
      BY <2>0, LeavesRec
    <3>. QED
      BY <2>1, <3>1, <3>2
  <2>. QED
    BY <2>2, <2>3
<1>. SUFFICES ASSUME NEW n \in Nat \ {0} PROVE Leaves(o, n)[root] = kids
  OBVIOUS
<1>3. PICK m \in Nat : n = m + 1
  <2>1. n - 1 \in Nat /\ n = (n - 1) + 1
    OBVIOUS
  <2>. QED
    BY <2>1
<1>4. Leaves(o, n)[root] = LeavesFrom(o, root, Leaves(o, m))
  BY <1>3, LeavesRec
<1>5. LeavesFrom(o, root, Leaves(o, m)) = FlattenSeq([k \in DOMAIN kids |-> Leaves(o, m)[kids[k]]])
  BY DEF LeavesFrom
<1>6. [k \in DOMAIN kids |-> Leaves(o, m)[kids[k]]] = Mapped(single, kids)
  <2>1. \A k \in DOMAIN kids : kids[k] \in P
    BY DEF ToSet
  <2>2. \A k \in DOMAIN kids : Leaves(o, m)[kids[k]] = single[kids[k]]
    BY <1>2, <2>1
  <2>. HIDE DEF kids, single
  <2>. QED
    BY <2>2 DEF Mapped
<1>7. kids \in Seq(P)
  BY <1>1, SeqNarrowed
<1>8. FlattenSeq(Mapped(single, kids)) = kids
  <2>. HIDE DEF kids, P
  <2>. QED
    BY <1>7, FlattenSingles
<1>. QED
  BY <1>4, <1>5, <1>6, <1>8

-----------------------------------------------------------------------------
(* What is shown *)

\* What a page looks like, and a list of pages.
Look(o, i) == PageView(o, o[i], Inherited(o, i, MaxLevels))
Looks(o, ids) == [p \in DOMAIN ids |-> Look(o, ids[p])]

\* A viewer that looks to the top of the tree finds what the climbing finds.
LEMMA ViewOf ==
    ASSUME NEW d, Woven(d.objects, d.root, DOMAIN d.objects)
    PROVE  View(d) = Looks(d.objects, PageIds(d))
<1>. DEFINE o == d.objects
            ids == PageIds(d)
<1>1. ids \in Seq(DOMAIN o) /\ ToSet(ids) = OfKind(o, "page")
  BY WovenPages
<1>. HIDE DEF ids
<1>2. ASSUME NEW p \in DOMAIN ids PROVE Shown(o, ids[p]) = Look(o, ids[p])
  <2>1. ids[p] \in OfKind(o, "page")
    BY <1>1 DEF ToSet
  <2>2. Inherited(o, ids[p], Cardinality(OfKind(o, "pages"))) = Inherited(o, ids[p], MaxLevels)
    BY <2>1, InheritedSettled
  <2>. QED
    BY <2>2 DEF Shown, Look
<1>3. View(d) = [p \in DOMAIN ids |-> Shown(o, ids[p])]
  BY DEF View, ids
<1>. QED
  BY <1>2, <1>3 DEF Looks, ids

\* Reading alike goes both ways.
LEMMA ReadsBack ==
    ASSUME NEW o2, NEW x2, NEW f2, NEW o, NEW x, NEW f, Reads(o2, x2, f2, o, x, f)
    PROVE  Reads(o, x, f, o2, x2, f2)
  BY DEF Reads, Likewise

\* A page that is carried over looks the same, either way.
LEMMA CarriedLook ==
    ASSUME NEW o, NEW o2, NEW number, Carried(o2, o, number), NEW i \in DOMAIN o
    PROVE  LET f2 == Inherited(o2, number[i], MaxLevels)
               f == Inherited(o, i, MaxLevels)
           IN /\ Readable(o, o[i], f) => Look(o2, number[i]) = Look(o, i) /\ Readable(o2, o2[number[i]], f2)
              /\ Readable(o2, o2[number[i]], f2) => Look(o2, number[i]) = Look(o, i) /\ Readable(o, o[i], f)
<1>. DEFINE f2 == Inherited(o2, number[i], MaxLevels)
            f == Inherited(o, i, MaxLevels)
<1>1. Reads(o2, o2[number[i]], f2, o, o[i], f)
  <2>1. MaxLevels \in Nat
    BY LevelsAssumption
  <2>. QED
    BY <2>1, CarriedReads
<1>2. Reads(o, o[i], f, o2, o2[number[i]], f2)
  BY <1>1, ReadsBack
<1>3. Look(o2, number[i]) = PageView(o2, o2[number[i]], f2) /\ Look(o, i) = PageView(o, o[i], f)
  BY DEF Look
<1>. HIDE DEF f, f2
<1>4. Readable(o, o[i], f) => Look(o2, number[i]) = Look(o, i) /\ Readable(o2, o2[number[i]], f2)
  BY <1>1, <1>3, ReadsSame
<1>5. Readable(o2, o2[number[i]], f2) => Look(o2, number[i]) = Look(o, i) /\ Readable(o, o[i], f)
  BY <1>2, <1>3, ReadsSame
<1>. QED
  BY <1>4, <1>5 DEF f, f2

\* So do the pages of a document that is renumbered.
LEMMA RenumberedView ==
    ASSUME NEW d, Woven(d.objects, d.root, DOMAIN d.objects), NEW start \in Nat \ {0}
    PROVE  LET e == Renumbered(d, start)
               number == Numbers(d, start)
           IN /\ Carried(e.objects, d.objects, number)
              /\ DOMAIN e.objects = {number[i] : i \in DOMAIN d.objects}
              /\ PageIds(e) = Mapped(number, PageIds(d))
              /\ Legible(d.objects) => View(e) = View(d) /\ Legible(e.objects)
<1>. DEFINE o == d.objects
            e == Renumbered(d, start)
            o2 == e.objects
            number == Numbers(d, start)
            ids == PageIds(d)
<1>1. Numbering(number, DOMAIN o)
  BY NumbersFacts
<1>. HIDE DEF number
<1>2. e = Relabelled(d, number)
  BY DEF Renumbered, number
<1>3. /\ e.root = number[d.root] /\ DOMAIN o2 = {number[i] : i \in DOMAIN o}
      /\ \A i \in DOMAIN o : o2[number[i]] = Moved(o[i], number)
  BY <1>1, <1>2, RelabelledFacts
<1>4. Woven(o2, e.root, DOMAIN o2)
  BY RenumberedWoven
<1>. HIDE DEF e
<1>5. Web(o, DOMAIN o) /\ Web(o2, DOMAIN o2) /\ d.root \in DOMAIN o
  BY <1>4 DEF Woven, Rooted, In
<1>6. \A i \in DOMAIN o : MovedTo(o[i], Moved(o[i], number), number)
  <2>1. \A i \in DOMAIN o : Shaped(o[i], DOMAIN o) /\ Refers(o, DOMAIN o, o[i])
    BY <1>5 DEF Web
  <2>2. DOMAIN o \subseteq Nat \ {0}
    BY <1>5 DEF Web
  <2>. HIDE DEF o
  <2>. QED
    BY <1>1, <2>1, <2>2, MovedFacts
<1>7. Carried(o2, o, number)
  BY <1>1, <1>3, <1>5, <1>6 DEF Carried
<1>8. Follows(o2, o, number)
  <2>1. number \in [DOMAIN o -> DOMAIN o2]
    <3>1. number \in [DOMAIN o -> Nat \ {0}]
      BY <1>1 DEF Numbering
    <3>. QED
      BY <1>3, <3>1
  <2>2. \A i \in DOMAIN o : o2[number[i]].kind = o[i].kind /\ o2[number[i]].kids = Mapped(number, o[i].kids)
    BY <1>3, <1>6 DEF MovedTo
  <2>. QED
    BY <1>5, <2>1, <2>2 DEF Follows
<1>9. PageIds(e) = Mapped(number, ids)
  <2>1. MaxLevels \in Nat
    BY LevelsAssumption
  <2>2. Leaves(o2, MaxLevels)[number[d.root]] = Mapped(number, Leaves(o, MaxLevels)[d.root])
    BY <1>5, <1>8, <2>1, LeavesCarried
  <2>. QED
    BY <1>3, <2>2 DEF PageIds
<1>10. ASSUME Legible(o) PROVE View(e) = View(d) /\ Legible(o2)
  <2>1. \A i \in OfKind(o, "page") : i \in DOMAIN o /\ Readable(o, o[i], Inherited(o, i, MaxLevels))
    BY <1>10 DEF Legible, OfKind
  <2>2. \A i \in OfKind(o, "page") :
           /\ Look(o2, number[i]) = Look(o, i)
           /\ Readable(o2, o2[number[i]], Inherited(o2, number[i], MaxLevels))
    BY <1>7, <2>1, CarriedLook
  <2>3. \A j \in OfKind(o2, "page") : \E i \in OfKind(o, "page") : j = number[i]
    BY <1>3, <1>8 DEF OfKind, Follows
  <2>4. Legible(o2)
    BY <2>2, <2>3 DEF Legible
  <2>5. ids \in Seq(DOMAIN o) /\ ToSet(ids) = OfKind(o, "page")
    BY WovenPages
  <2>6. View(e) = Looks(o2, Mapped(number, ids)) /\ View(d) = Looks(o, ids)
    BY <1>4, <1>9, ViewOf
  <2>. HIDE DEF ids
  <2>7. Looks(o2, Mapped(number, ids)) = Looks(o, ids)
    <3>1. \A p \in DOMAIN ids : ids[p] \in OfKind(o, "page")
      BY <2>5 DEF ToSet
    <3>2. DOMAIN Mapped(number, ids) = DOMAIN ids
          /\ \A p \in DOMAIN ids : Mapped(number, ids)[p] = number[ids[p]]
      BY DEF Mapped
    <3>. QED
      BY <2>2, <3>1, <3>2 DEF Looks
  <2>. QED
    BY <2>4, <2>6, <2>7
<1>. QED
  BY <1>3, <1>7, <1>9, <1>10 DEF e, number

-----------------------------------------------------------------------------
(* What is shown of a document that is tidied *)

\* Some of the objects of a document.
Narrow(o, K) == [i \in K |-> o[i]]

\* A part of a web is a web when it is looked at by itself,
LEMMA NarrowWeb ==
    ASSUME NEW o, NEW K, Web(o, K)
    PROVE  Web(Narrow(o, K), DOMAIN Narrow(o, K)) /\ DOMAIN Narrow(o, K) = K
           /\ \A i \in K : Narrow(o, K)[i] = o[i]
<1>. DEFINE e == Narrow(o, K)
<1>1. DOMAIN e = K /\ \A i \in K : e[i] = o[i]
  BY DEF Narrow
<1>. HIDE DEF e
<1>2. \A i \in K : Shaped(e[i], K) /\ Refers(e, K, e[i])
  <2>1. \A i \in K : Shaped(o[i], K) /\ Refers(o, K, o[i])
    BY DEF Web
  <2>2. Within(o, K, e, K)
    BY <1>1 DEF Within
  <2>3. \A i \in K : Shaped(o[i], K) /\ Refers(e, K, o[i])
    BY <2>1, <2>2, Wider
  <2>. QED
    BY <1>1, <2>3
<1>3. Web(e, K)
  BY <1>1, <1>2 DEF Web
<1>. QED
  BY <1>1, <1>3 DEF e

\* and woven when the part is.
LEMMA NarrowWoven ==
    ASSUME NEW o, NEW root, NEW K, Woven(o, root, K)
    PROVE  Woven(Narrow(o, K), root, DOMAIN Narrow(o, K))
<1>. DEFINE e == Narrow(o, K)
<1>1. Web(o, K) /\ Rooted(o, root, K) /\ Upwards(o, K)
  BY WebUpwards DEF Woven
<1>2. Web(e, DOMAIN e) /\ DOMAIN e = K /\ \A i \in K : e[i] = o[i]
  BY <1>1, NarrowWeb
<1>. HIDE DEF e
<1>3. \A i \in K, n \in Nat : Above(e, i, n) = Above(o, i, n)
  BY <1>1, <1>2, SameAbove
<1>4. \A kinds : In(e, K, kinds) = In(o, K, kinds)
  BY <1>2 DEF In
<1>5. Rooted(e, root, K)
  <2>1. \A p \in In(e, K, {"page"}) : \E n \in 0 .. MaxLevels : Above(e, p, n) = root
    <3>1. SUFFICES ASSUME NEW p \in In(e, K, {"page"})
                   PROVE  \E n \in 0 .. MaxLevels : Above(e, p, n) = root
      OBVIOUS
    <3>2. PICK n \in 0 .. MaxLevels : Above(o, p, n) = root
      BY <1>1, <1>4 DEF Rooted
    <3>3. p \in K
      BY DEF In
    <3>. QED
      BY <1>3, <3>2, <3>3, LevelsAssumption
  <2>2. root \in K
    BY <1>1 DEF Rooted, In
  <2>. QED
    BY <1>1, <1>2, <1>4, <2>1, <2>2 DEF Rooted
<1>. QED
  BY <1>2, <1>5 DEF Woven, e

\* A document whose objects are all in another one, which says the same of them.
Part(e, o) ==
    /\ Web(o, DOMAIN o) /\ Web(e, DOMAIN e) /\ DOMAIN e \subseteq DOMAIN o
    /\ \A i \in DOMAIN e : e[i] = o[i]

\* A part that misses nothing of what it shows shows what the whole shows: its
\* pages are found in the same order and look the same.
LEMMA PartLooks ==
    ASSUME NEW e, NEW o, Part(e, o)
    PROVE  /\ \A n \in Nat : \A i \in DOMAIN e : Leaves(e, n)[i] = Leaves(o, n)[i]
           /\ \A i \in DOMAIN e :
                 LET f2 == Inherited(o, i, MaxLevels)
                     f == Inherited(e, i, MaxLevels)
                 IN /\ Readable(e, e[i], f) <=> Readable(o, o[i], f2)
                    /\ Readable(o, o[i], f2) => Look(e, i) = Look(o, i)
<1>1. \A n \in Nat : \A i \in DOMAIN e : Leaves(e, n)[i] = Leaves(o, n)[i]
  <2>1. \A n \in Nat : \A i \in DOMAIN e : Leaves(o, n)[i] = Leaves(e, n)[i]
    BY LeavesSame DEF Part
  <2>. QED
    BY <2>1
<1>2. ASSUME NEW i \in DOMAIN e
      PROVE  LET f2 == Inherited(o, i, MaxLevels)
                 f == Inherited(e, i, MaxLevels)
             IN /\ Readable(e, e[i], f) <=> Readable(o, o[i], f2)
                /\ Readable(o, o[i], f2) => Look(e, i) = Look(o, i)
  <2>. DEFINE f == Inherited(e, i, MaxLevels)
  <2>1. MaxLevels \in Nat
    BY LevelsAssumption
  <2>2. Inherited(o, i, MaxLevels) = f
    <3>1. Upwards(e, DOMAIN e)
      BY WebUpwards DEF Part
    <3>2. \A n \in Nat : Above(o, i, n) = Above(e, i, n)
      BY <3>1, SameAbove DEF Part
    <3>3. \A n \in Nat : Above(e, i, n) \in DOMAIN e \cup {0}
      BY <3>1, AboveRec
    <3>4. \A n \in 0 .. MaxLevels :
             /\ Above(o, i, n) = Above(e, i, n)
             /\ Above(e, i, n) # 0 => o[Above(e, i, n)].attributes = e[Above(e, i, n)].attributes
      BY <2>1, <3>2, <3>3 DEF Part
    <3>. QED
      BY <2>1, <3>4, InheritedSame
  <2>3. \A name \in DOMAIN Named(f) : Named(f)[name] \in DOMAIN e
    <3>1. Web(e, DOMAIN e)
      BY DEF Part
    <3>2. \A name \in DOMAIN Named(f) : Named(f)[name] \in In(e, DOMAIN e, {"state", "form"})
      BY <2>1, <3>1, InheritedProper
    <3>. QED
      BY <3>2 DEF In
  <2>4. /\ o[i] = e[i] /\ Shaped(e[i], DOMAIN e) /\ Refers(e, DOMAIN e, e[i])
        /\ \A j \in DOMAIN e : o[j] = e[j] /\ e[j].appearance \in DOMAIN e \cup {0}
    BY DEF Part, Web, Refers, In
  <2>5. /\ \A k \in DOMAIN e[i].contents : e[i].contents[k] \in DOMAIN e
        /\ \A k \in DOMAIN e[i].annots : e[i].annots[k] \in DOMAIN e
    BY <2>4 DEF Shaped
  <2>6. \A k \in DOMAIN e[i].annots : Note(o, o[i].annots[k]) = Note(e, e[i].annots[k])
    BY <2>4, <2>5 DEF Note
  <2>. HIDE DEF f
  <2>7. Reads(o, o[i], f, e, e[i], f)
    BY <2>3, <2>4, <2>5, <2>6 DEF Reads, Likewise
  <2>8. Reads(e, e[i], f, o, o[i], f)
    BY <2>7, ReadsBack
  <2>9. Look(e, i) = PageView(e, e[i], f) /\ Look(o, i) = PageView(o, o[i], f)
    BY <2>2 DEF Look, f
  <2>10. Readable(e, e[i], f) => Readable(o, o[i], f)
    BY <2>7, ReadsSame
  <2>11. Readable(o, o[i], f) => PageView(e, e[i], f) = PageView(o, o[i], f) /\ Readable(e, e[i], f)
    BY <2>8, ReadsSame
  <2>. QED
    BY <2>2, <2>9, <2>10, <2>11 DEF f
<1>. QED
  BY <1>1, <1>2

\* A document that is pruned and renumbered shows the pages it had.
LEMMA TidiedView ==
    ASSUME NEW o, IsFiniteSet(DOMAIN o), NEW K \in SUBSET DOMAIN o, NEW root, Woven(o, root, K),
           OfKind(o, "catalog") \cup OfKind(o, "info") \subseteq K, NEW trailer \in BOOLEAN,
           Legible(Narrow(o, K))
    PROVE  LET d == Renumbered(Pruned([objects |-> o, root |-> root], trailer), 1)
           IN /\ Legible(d.objects)
              /\ View(d) = Looks(Narrow(o, K), Leaves(Narrow(o, K), MaxLevels)[root])
<1>. DEFINE d == [objects |-> o, root |-> root]
            R == Reached(o, {root} \cup OfKind(o, "catalog")
                               \cup (IF trailer THEN OfKind(o, "info") ELSE {}))
            e == Pruned(d, trailer)
            p == Narrow(o, R)
            q == Narrow(o, K)
<1>1. R \subseteq K /\ Woven(p, root, R)
  BY PrunedWoven DEF Narrow
<1>2. e.objects = p /\ e.root = root
  BY DEF Pruned, Narrow
<1>3. DOMAIN p = R /\ DOMAIN q = K /\ (\A i \in K : q[i] = o[i]) /\ (\A i \in R : p[i] = o[i])
  BY DEF Narrow
<1>4. Woven(q, root, DOMAIN q)
  BY NarrowWoven
<1>. HIDE DEF p, q, R, e
<1>5. Part(p, q)
  BY <1>1, <1>3, <1>4 DEF Part, Woven
<1>6. Woven(e.objects, e.root, DOMAIN e.objects) /\ root \in R
  BY <1>1, <1>2, <1>3 DEF Woven, Rooted, In
<1>7. MaxLevels \in Nat
  BY LevelsAssumption
<1>. DEFINE ids == Leaves(q, MaxLevels)[root]
<1>8. PageIds(e) = ids
  BY <1>2, <1>3, <1>5, <1>6, <1>7, PartLooks DEF PageIds
<1>9. /\ \A i \in DOMAIN p : /\ Readable(p, p[i], Inherited(p, i, MaxLevels))
                                  <=> Readable(q, q[i], Inherited(q, i, MaxLevels))
                             /\ Readable(q, q[i], Inherited(q, i, MaxLevels)) => Look(p, i) = Look(q, i)
  BY <1>5, PartLooks
<1>10. \A i \in OfKind(p, "page") :
          /\ i \in DOMAIN p
          /\ Readable(q, q[i], Inherited(q, i, MaxLevels))
  <2>1. Legible(q)
    BY DEF q
  <2>2. \A i \in OfKind(p, "page") : i \in DOMAIN p /\ i \in OfKind(q, "page")
    BY <1>1, <1>3 DEF OfKind
  <2>. QED
    BY <2>1, <2>2 DEF Legible
<1>11. Legible(p)
  BY <1>9, <1>10 DEF Legible
<1>12. View(Renumbered(e, 1)) = View(e) /\ Legible(Renumbered(e, 1).objects)
  BY <1>2, <1>6, <1>11, RenumberedView, 1 \in Nat \ {0}
<1>13. View(e) = Looks(p, ids)
  BY <1>2, <1>6, <1>8, ViewOf
<1>14. Looks(p, ids) = Looks(q, ids)
  <2>1. ToSet(ids) = OfKind(p, "page")
    BY <1>2, <1>6, <1>8, WovenPages
  <2>. HIDE DEF ids
  <2>2. \A k \in DOMAIN ids : ids[k] \in OfKind(p, "page")
    BY <2>1 DEF ToSet
  <2>3. \A k \in DOMAIN ids : Look(p, ids[k]) = Look(q, ids[k])
    BY <1>9, <1>10, <2>2
  <2>. QED
    BY <2>3 DEF Looks
<1>. QED
  BY <1>12, <1>13, <1>14 DEF e, q
=============================================================================

------------------------------ MODULE Induction ------------------------------
(***************************************************************************)
(* Induction over data in the form that the installed provers can use:     *)
(* over a set of the numbers that have a property, where the library's     *)
(* theorems have a predicate parameter.  The recursive functions that the  *)
(* components are built from are shown to exist with it.                   *)
(***************************************************************************)
EXTENDS Integers, FiniteSets, FiniteSetTheorems, WellFoundedInduction, TLAPS

\* A non-empty set of natural numbers has a least element.
LEMMA LeastNatural ==
    ASSUME NEW T \in SUBSET Nat, T # {}
    PROVE  \E m \in T : \A n \in T : m <= n
<1> DEFINE R == {ss \in Nat \X Nat : ss[1] < ss[2]}
<1>1. IsWellFoundedOn(R, Nat)
  BY NatLessThanWellFounded, Zenon DEF OpToRel
<1>2. \E m \in T : \A n \in T : <<n, m>> \notin R
  <2> HIDE DEF R
  <2> QED BY <1>1, WFMin
<1>3. PICK m \in T : \A n \in T : <<n, m>> \notin R
  BY <1>2
<1>4. ASSUME NEW n \in T PROVE m <= n
  <2>1. n \in Nat /\ m \in Nat
    OBVIOUS
  <2>2. <<n, m>> \notin R
    BY <1>3
  <2>3. ~(n < m)
    BY <2>1, <2>2
  <2> QED BY <2>1, <2>3
<1> QED BY <1>4

\* A bounded one has a greatest.
LEMMA GreatestNatural ==
    ASSUME NEW T \in SUBSET Nat, T # {}, NEW b \in Nat, \A n \in T : n <= b
    PROVE  \E m \in T : \A n \in T : n <= m
<1> DEFINE U == {b - n : n \in T}
<1>1. U \in SUBSET Nat /\ U # {}
  <2>1. ASSUME NEW n \in T PROVE b - n \in Nat
    <3>1. n \in Nat /\ n <= b
      OBVIOUS
    <3> QED BY <3>1
  <2>2. PICK n \in T : TRUE
    OBVIOUS
  <2>3. b - n \in U
    OBVIOUS
  <2> QED BY <2>1, <2>3
<1>2. PICK u \in U : \A v \in U : u <= v
  <2> HIDE DEF U
  <2> QED BY <1>1, LeastNatural
<1>3. PICK m \in T : u = b - m
  OBVIOUS
<1>4. ASSUME NEW n \in T PROVE n <= m
  <2>1. b - m <= b - n
    BY <1>2, <1>3
  <2>2. m \in Nat /\ n \in Nat
    OBVIOUS
  <2> QED BY <2>1, <2>2
<1> QED BY <1>4

\* What a CHOOSE of the least or the greatest picks.
LEMMA LeastIs ==
    ASSUME NEW T \in SUBSET Nat, NEW x \in T, \A j \in T : x <= j
    PROVE  (CHOOSE i \in T : \A j \in T : i <= j) = x
<1> DEFINE c == CHOOSE i \in T : \A j \in T : i <= j
<1>1. c \in T /\ \A j \in T : c <= j
  OBVIOUS
<1>2. c \in Nat /\ x \in Nat /\ c <= x /\ x <= c
  BY <1>1
<1> QED BY <1>2

LEMMA GreatestIs ==
    ASSUME NEW T \in SUBSET Nat, NEW x \in T, \A j \in T : j <= x
    PROVE  (CHOOSE i \in T : \A j \in T : j <= i) = x
<1> DEFINE c == CHOOSE i \in T : \A j \in T : j <= i
<1>1. c \in T /\ \A j \in T : j <= c
  OBVIOUS
<1>2. c \in Nat /\ x \in Nat /\ c <= x /\ x <= c
  BY <1>1
<1> QED BY <1>2

\* A set of numbers that has 0, and the successor of each number it has, has them all.
LEMMA NatSetInduction ==
    ASSUME NEW S \in SUBSET Nat, 0 \in S, \A n \in S : n + 1 \in S
    PROVE  S = Nat
<1> SUFFICES ASSUME Nat \ S # {} PROVE FALSE
  OBVIOUS
<1>1. PICK m \in Nat \ S : \A n \in Nat \ S : m <= n
  BY LeastNatural
<1>2. m # 0 /\ m - 1 \in Nat /\ m - 1 \notin Nat \ S
  BY <1>1
<1> QED BY <1>1, <1>2

\* Finite induction: up to n.
LEMMA BoundedInduction ==
    ASSUME NEW n \in Nat, NEW S, 0 \in S, \A i \in 1..n : i - 1 \in S => i \in S
    PROVE  0..n \subseteq S
<1> SUFFICES ASSUME (0..n) \ S # {} PROVE FALSE
  OBVIOUS
<1>1. PICK m \in (0..n) \ S : \A i \in (0..n) \ S : m <= i
  <2>1. (0..n) \ S \in SUBSET Nat
    OBVIOUS
  <2> QED BY <2>1, LeastNatural
<1>2. m # 0 /\ m - 1 \in 0..n /\ m - 1 \notin (0..n) \ S
  BY <1>1
<1> QED BY <1>1, <1>2

\* A function on 0..n is given by its first value and a step.
StepsOn(F, n, S) == F \in [1..n -> [S -> S]]
RunOf(f, n, S, a, F) ==
    /\ f \in [0..n -> S]
    /\ f[0] = a
    /\ \A i \in 1..n : f[i] = F[i][f[i - 1]]

LEMMA FiniteRecursion ==
    ASSUME NEW n, NEW S, NEW a, NEW F, n \in Nat, a \in S, StepsOn(F, n, S)
    PROVE  \E f : RunOf(f, n, S, a, F)
<1>0. F \in [1..n -> [S -> S]]
  BY DEF StepsOn
<1> DEFINE Upto(m) == \E f \in [0..m -> S] :
                         f[0] = a /\ \A i \in 1..m : f[i] = F[i][f[i - 1]]
           Good == {m \in 0..n : Upto(m)}
<1>1. 0 \in Good
  <2> DEFINE f == [i \in 0..0 |-> a]
  <2>1. f \in [0..0 -> S] /\ f[0] = a
    OBVIOUS
  <2>2. \A i \in 1..0 : f[i] = F[i][f[i - 1]]
    OBVIOUS
  <2>3. Upto(0)
    <3> HIDE DEF f
    <3> QED BY <2>1, <2>2
  <2> QED BY <2>3
<1>2. ASSUME NEW m \in 1..n, m - 1 \in Good PROVE m \in Good
  <2>1. PICK f \in [0..m - 1 -> S] :
          f[0] = a /\ \A i \in 1..m - 1 : f[i] = F[i][f[i - 1]]
    BY <1>2
  <2> DEFINE v == F[m][f[m - 1]]
             g == [i \in 0..m |-> IF i = m THEN v ELSE f[i]]
  <2>2. v \in S
    <3>1. m - 1 \in 0..m - 1 /\ f[m - 1] \in S
      OBVIOUS
    <3> QED BY <1>0, <3>1
  <2>3. g \in [0..m -> S]
    <3>1. ASSUME NEW i \in 0..m PROVE g[i] \in S
      <4>1. i # m => i \in 0..m - 1
        OBVIOUS
      <4> QED BY <4>1, <2>2
    <3> HIDE DEF v
    <3> QED BY <3>1
  <2>4. g[0] = a
    BY <2>1
  <2>5. ASSUME NEW i \in 1..m PROVE g[i] = F[i][g[i - 1]]
    <3>1. i - 1 \in 0..m - 1 /\ i \in 0..m
      OBVIOUS
    <3>2. g[i - 1] = f[i - 1]
      BY <3>1
    <3>3. CASE i = m
      BY <3>1, <3>2, <3>3
    <3>4. CASE i # m
      <4>1. i \in 1..m - 1
        BY <3>4
      <4>2. g[i] = f[i]
        BY <3>1, <3>4
      <4> QED BY <4>1, <4>2, <3>2, <2>1
    <3> QED BY <3>3, <3>4
  <2> HIDE DEF g
  <2>6. Upto(m)
    BY <2>3, <2>4, <2>5
  <2>7. m \in 0..n
    OBVIOUS
  <2> HIDE DEF Upto
  <2> QED BY <2>6, <2>7
<1>3. 0..n \subseteq Good
  <2> HIDE DEF Good
  <2> QED BY <1>1, <1>2, BoundedInduction
<1>4. Upto(n)
  BY <1>3
<1> QED BY <1>4 DEF RunOf

-----------------------------------------------------------------------------
(* Sums of a function over a finite set.                                   *)

\* Induction over the subsets of a finite set.
LEMMA SubsetInduction ==
    ASSUME NEW D, IsFiniteSet(D), NEW P,
           \A s \in SUBSET D : (\A x \in s : s \ {x} \in P) => s \in P
    PROVE  SUBSET D \subseteq P
<1> DEFINE n == Cardinality(D)
           Good == {m \in Nat : \A s \in SUBSET D : Cardinality(s) = m => s \in P}
<1>1. n \in Nat
  BY FS_CardinalityType
<1>2. ASSUME NEW s \in SUBSET D
      PROVE  /\ IsFiniteSet(s) /\ Cardinality(s) \in Nat /\ Cardinality(s) <= n
             /\ Cardinality(s) = 0 => s = {}
  <2>1. IsFiniteSet(s) /\ Cardinality(s) <= n
    BY FS_Subset
  <2>2. Cardinality(s) \in Nat /\ (Cardinality(s) = 0 => s = {})
    BY <2>1, FS_CardinalityType, FS_EmptySet
  <2> QED BY <2>1, <2>2
<1>3. 0 \in Good
  <2>1. {} \in P
    OBVIOUS
  <2> QED BY <1>2, <2>1
<1>4. ASSUME NEW m \in 1..n, m - 1 \in Good PROVE m \in Good
  <2>1. ASSUME NEW s \in SUBSET D, Cardinality(s) = m PROVE s \in P
    <3>1. ASSUME NEW x \in s PROVE s \ {x} \in P
      <4>1. Cardinality(s \ {x}) = m - 1
        BY <2>1, <1>2, FS_RemoveElement
      <4> QED BY <4>1, <1>4
    <3> QED BY <3>1
  <2> QED BY <2>1
<1>5. 0..n \subseteq Good
  <2> HIDE DEF n, Good
  <2> QED BY <1>1, <1>3, <1>4, BoundedInduction
<1>6. ASSUME NEW s \in SUBSET D PROVE s \in P
  <2>1. Cardinality(s) \in 0..n
    BY <1>2, <1>1
  <2> QED BY <2>1, <1>5
<1> QED BY <1>6

\* What the fold that sums f computes on the way: the element it takes of each set.
Taken(s) == CHOOSE x \in s : TRUE
SumStep(f, it, s) == IF s = {} THEN 0 ELSE f[Taken(s)] + it[s \ {Taken(s)}]
Sums(f, D) == CHOOSE it : it = [s \in SUBSET D |-> SumStep(f, it, s)]

LEMMA SumIsSums ==
    ASSUME NEW f, NEW D
    PROVE  SumFunctionOnSet(f, D) = Sums(f, D)[D]
BY DEF SumFunctionOnSet, FoldFunctionOnSet, MapThenFoldSet, Sums, SumStep, Taken

\* The recursive function of the fold exists.
LEMMA SumsExists ==
    ASSUME NEW D, IsFiniteSet(D), NEW f, \A x \in D : f[x] \in Nat
    PROVE  /\ Sums(f, D) \in [SUBSET D -> Nat]
           /\ \A s \in SUBSET D : Sums(f, D)[s] = SumStep(f, Sums(f, D), s)
<1> DEFINE n == Cardinality(D)
           S == [SUBSET D -> Nat]
           Level(g) == [s \in SUBSET D |-> SumStep(f, g, s)]
           F == [i \in 1..n |-> [g \in S |-> Level(g)]]
           zero == [s \in SUBSET D |-> 0]
<1>1. n \in Nat
  BY FS_CardinalityType
<1>2. ASSUME NEW s \in SUBSET D, s # {}
      PROVE  /\ Taken(s) \in s
             /\ s \ {Taken(s)} \in SUBSET D
             /\ f[Taken(s)] \in Nat
  BY <1>2 DEF Taken
<1>3. StepsOn(F, n, S)
  <2>1. ASSUME NEW g \in S PROVE Level(g) \in S
    <3>1. ASSUME NEW s \in SUBSET D PROVE SumStep(f, g, s) \in Nat
      BY <1>2 DEF SumStep
    <3> QED BY <3>1
  <2> HIDE DEF Level, S
  <2> QED BY <2>1 DEF StepsOn
<1>4. zero \in S
  OBVIOUS
<1>5. PICK h : h \in [0..n -> S] /\ h[0] = zero /\ \A i \in 1..n : h[i] = F[i][h[i - 1]]
  <2> HIDE DEF n, S, F, zero
  <2>1. PICK h : RunOf(h, n, S, zero, F)
    BY <1>1, <1>3, <1>4, FiniteRecursion
  <2> QED BY <2>1 DEF RunOf
<1>6. ASSUME NEW s \in SUBSET D
      PROVE  /\ Cardinality(s) \in 0..n
             /\ s = {} => Cardinality(s) = 0
             /\ \A x \in s : /\ Cardinality(s \ {x}) = Cardinality(s) - 1
                             /\ Cardinality(s) \in 1..n
  <2>1. IsFiniteSet(s) /\ Cardinality(s) <= n
    BY FS_Subset
  <2>2. Cardinality(s) \in Nat /\ (Cardinality(s) = 0 <=> s = {})
    BY <2>1, FS_CardinalityType, FS_EmptySet
  <2>3. ASSUME NEW x \in s PROVE Cardinality(s \ {x}) = Cardinality(s) - 1
    BY <2>1, FS_RemoveElement
  <2> QED BY <2>1, <2>2, <2>3, <1>1
<1> DEFINE it == [s \in SUBSET D |-> h[Cardinality(s)][s]]
<1>7. ASSUME NEW s \in SUBSET D PROVE it[s] = SumStep(f, it, s) /\ it[s] \in Nat
  <2>0. it[s] \in Nat
    <3>1. h[Cardinality(s)] \in S
      BY <1>6, <1>5
    <3> QED BY <3>1
  <2>1. CASE s = {}
    BY <2>1, <1>6, <1>5, <2>0 DEF SumStep
  <2>2. CASE s # {}
    <3>1. Taken(s) \in s
      BY <2>2, <1>2
    <3> DEFINE m == Cardinality(s)
               r == s \ {Taken(s)}
    <3>2. m \in 1..n /\ Cardinality(r) = m - 1 /\ r \in SUBSET D
      BY <3>1, <1>6
    <3>3. h[m] = F[m][h[m - 1]] /\ h[m - 1] \in S
      <4>1. m - 1 \in 0..n
        BY <3>2, <1>1
      <4> HIDE DEF S, F, m
      <4> QED BY <3>2, <4>1, <1>5
    <3>4. h[m] = Level(h[m - 1])
      <4> HIDE DEF Level, S, m
      <4> QED BY <3>2, <3>3
    <3>5. h[m][s] = SumStep(f, h[m - 1], s)
      BY <3>4
    <3>6. it[r] = h[m - 1][r]
      BY <3>2
    <3> QED BY <3>5, <3>6, <2>2, <2>0 DEF SumStep
  <2> QED BY <2>1, <2>2
<1>8. it = [s \in SUBSET D |-> SumStep(f, it, s)]
  <2>1. ASSUME NEW s \in SUBSET D PROVE it[s] = SumStep(f, it, s)
    BY <1>7
  <2>2. it = [s \in SUBSET D |-> it[s]]
    OBVIOUS
  <2> HIDE DEF it
  <2> QED BY <2>1, <2>2
<1>9. Sums(f, D) = [s \in SUBSET D |-> SumStep(f, Sums(f, D), s)]
  <2> HIDE DEF it
  <2> QED BY <1>8 DEF Sums
<1>10. \A s \in SUBSET D : Sums(f, D)[s] = SumStep(f, Sums(f, D), s)
  BY <1>9
<1>11. ASSUME NEW s \in SUBSET D PROVE Sums(f, D)[s] \in Nat
  <2> DEFINE P == {t \in SUBSET D : Sums(f, D)[t] \in Nat}
  <2>1. ASSUME NEW t \in SUBSET D, \A x \in t : t \ {x} \in P PROVE t \in P
    <3>1. Sums(f, D)[t] = SumStep(f, Sums(f, D), t)
      BY <1>10
    <3>2. CASE t = {}
      BY <3>1, <3>2 DEF SumStep
    <3>3. CASE t # {}
      <4>1. Taken(t) \in t /\ f[Taken(t)] \in Nat
        BY <3>3, <1>2
      <4>2. Sums(f, D)[t \ {Taken(t)}] \in Nat
        BY <4>1, <2>1
      <4>3. SumStep(f, Sums(f, D), t) \in Nat
        BY <3>3, <4>1, <4>2 DEF SumStep
      <4> QED BY <3>1, <4>3
    <3> QED BY <3>2, <3>3
  <2>2. SUBSET D \subseteq P
    <3> HIDE DEF P
    <3> QED BY <2>1, SubsetInduction
  <2> QED BY <2>2
<1> QED BY <1>9, <1>10, <1>11

\* The order in which the fold takes the elements does not matter.
LEMMA SumsAnyOrder ==
    ASSUME NEW D, IsFiniteSet(D), NEW f, \A x \in D : f[x] \in Nat
    PROVE  \A s \in SUBSET D : \A x \in s : Sums(f, D)[s] = f[x] + Sums(f, D)[s \ {x}]
<1> DEFINE it == Sums(f, D)
           P == {s \in SUBSET D : \A x \in s : it[s] = f[x] + it[s \ {x}]}
<1>1. it \in [SUBSET D -> Nat] /\ \A s \in SUBSET D : it[s] = SumStep(f, it, s)
  BY SumsExists
<1>2. ASSUME NEW s \in SUBSET D, \A x \in s : s \ {x} \in P PROVE s \in P
  <2>1. ASSUME NEW x \in s PROVE it[s] = f[x] + it[s \ {x}]
    <3> DEFINE c == Taken(s)
    <3>1. c \in s /\ it[s] = f[c] + it[s \ {c}]
      <4>1. Taken(s) \in s
        BY DEF Taken
      <4>2. it[s] = SumStep(f, it, s) /\ s # {}
        BY <1>1
      <4> HIDE DEF it
      <4> QED BY <4>1, <4>2 DEF SumStep
    <3>2. CASE x = c
      BY <3>1, <3>2
    <3>3. CASE x # c
      <4> DEFINE r == s \ {c, x}
      <4>1. (s \ {c}) \ {x} = r /\ (s \ {x}) \ {c} = r /\ r \in SUBSET D
        OBVIOUS
      <4>2. it[s \ {c}] = f[x] + it[r]
        <5>1. s \ {c} \in P /\ x \in s \ {c}
          BY <3>1, <3>3, <1>2
        <5> HIDE DEF c, it, r
        <5> QED BY <5>1, <4>1
      <4>3. it[s \ {x}] = f[c] + it[r]
        <5>1. s \ {x} \in P /\ c \in s \ {x}
          BY <3>1, <3>3, <1>2
        <5> HIDE DEF c, it, r
        <5> QED BY <5>1, <4>1
      <4>4. it[r] \in Nat /\ f[x] \in Nat /\ f[c] \in Nat
        BY <1>1, <3>1
      <4> HIDE DEF it, c, r
      <4> QED BY <3>1, <4>2, <4>3, <4>4
    <3> QED BY <3>2, <3>3
  <2> QED BY <2>1
<1>3. SUBSET D \subseteq P
  <2> HIDE DEF P
  <2> QED BY <1>2, SubsetInduction
<1> QED BY <1>3

\* Sums over the subsets agree with sums over the set.
LEMMA SumsAgree ==
    ASSUME NEW D, IsFiniteSet(D), NEW E \in SUBSET D,
           NEW f, \A x \in D : f[x] \in Nat,
           NEW g, \A x \in E : g[x] = f[x]
    PROVE  \A s \in SUBSET E : Sums(g, E)[s] = Sums(f, D)[s]
<1> DEFINE P == {s \in SUBSET E : Sums(g, E)[s] = Sums(f, D)[s]}
<1>1. IsFiniteSet(E) /\ \A x \in E : g[x] \in Nat
  BY FS_Subset
<1>2. \A s \in SUBSET D : Sums(f, D)[s] = SumStep(f, Sums(f, D), s)
  BY SumsExists
<1>3. \A s \in SUBSET E : Sums(g, E)[s] = SumStep(g, Sums(g, E), s)
  BY <1>1, SumsExists
<1>4. ASSUME NEW s \in SUBSET E, \A x \in s : s \ {x} \in P PROVE s \in P
  <2>1. s # {} => Taken(s) \in s
    BY DEF Taken
  <2>2. Sums(f, D)[s] = SumStep(f, Sums(f, D), s) /\ Sums(g, E)[s] = SumStep(g, Sums(g, E), s)
    BY <1>2, <1>3
  <2>3. SumStep(f, Sums(f, D), s) = SumStep(g, Sums(g, E), s)
    BY <2>1, <1>4 DEF SumStep
  <2> QED BY <2>2, <2>3
<1>5. SUBSET E \subseteq P
  <2> HIDE DEF P
  <2> QED BY <1>1, <1>4, SubsetInduction
<1> QED BY <1>5

\* The sum of f over a finite set: its type, what one element contributes, and that it
\* depends on the values of f on the set alone.
LEMMA SumType ==
    ASSUME NEW D, IsFiniteSet(D), NEW f, \A x \in D : f[x] \in Nat
    PROVE  /\ SumFunctionOnSet(f, D) \in Nat
           /\ D = {} => SumFunctionOnSet(f, D) = 0
<1>1. Sums(f, D)[D] \in Nat /\ Sums(f, D)[D] = SumStep(f, Sums(f, D), D)
  BY SumsExists
<1> QED BY <1>1, SumIsSums DEF SumStep

LEMMA SumSame ==
    ASSUME NEW D, IsFiniteSet(D), NEW f, \A x \in D : f[x] \in Nat,
           NEW g, \A x \in D : g[x] = f[x]
    PROVE  SumFunctionOnSet(g, D) = SumFunctionOnSet(f, D)
<1>1. D \in SUBSET D
  OBVIOUS
<1>2. Sums(g, D)[D] = Sums(f, D)[D]
  BY <1>1, SumsAgree
<1> QED BY <1>2, SumIsSums

LEMMA SumSplit ==
    ASSUME NEW D, IsFiniteSet(D), NEW f, \A x \in D : f[x] \in Nat, NEW x \in D
    PROVE  SumFunctionOnSet(f, D) = f[x] + SumFunctionOnSet(f, D \ {x})
<1>1. Sums(f, D)[D] = f[x] + Sums(f, D)[D \ {x}]
  BY SumsAnyOrder
<1>2. Sums(f, D \ {x})[D \ {x}] = Sums(f, D)[D \ {x}]
  BY SumsAgree
<1> QED BY <1>1, <1>2, SumIsSums
==============================================================================

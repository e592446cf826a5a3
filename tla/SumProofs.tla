------------------------------ MODULE SumProofs ------------------------------
(***************************************************************************)
(* What the proofs need of the community modules' Max and SumFunction.     *)
(* Both take their induction over a set G of the things it holds of.       *)
(***************************************************************************)
EXTENDS Integers, FiniteSetsExt, FiniteSetTheorems, WellFoundedInduction, TLAPS

-----------------------------------------------------------------------------
(* Induction on numbers *)

LEMMA LessIn ==
    ASSUME NEW u \in Nat, NEW t \in Nat, u < t
    PROVE  <<u, t>> \in OpToRel(<, Nat)
BY Zenon DEF OpToRel

LEMMA NatInductive ==
    ASSUME NEW G, G \subseteq Nat, 0 \in G, \A n \in G : n + 1 \in G
    PROVE  G = Nat
<1> DEFINE T == Nat \ G
           R == OpToRel(<, Nat)
<1>1. IsWellFoundedOn(R, Nat)
  BY NatLessThanWellFounded
<1>2. \A u, t \in Nat : u < t => <<u, t>> \in R
  BY LessIn
<1>3. SUFFICES ASSUME T # {} PROVE FALSE
  OBVIOUS
<1>4. PICK t \in T : \A u \in T : ~(<<u, t>> \in R)
  <2> HIDE DEF R
  <2>1. T \subseteq Nat
    OBVIOUS
  <2> HIDE DEF T
  <2> QED
    BY <1>1, <1>3, <2>1, WFMin
<1>5. t \in Nat /\ t # 0 /\ t - 1 \in Nat /\ t - 1 < t
  OBVIOUS
<1>6. t - 1 \in G
  BY <1>2, <1>4, <1>5
<1>7. (t - 1) + 1 = t
  BY <1>5
<1> QED
  BY <1>4, <1>6, <1>7

LEMMA HasMax ==
    ASSUME NEW n \in Nat, NEW S, S \subseteq 0 .. n, S # {}
    PROVE  Max(S) \in S /\ \A i \in S : i <= Max(S)
<1> DEFINE T == {n - i : i \in S}
           R == OpToRel(<, Nat)
<1>1. \A i \in S : i \in Nat /\ i <= n /\ n - i \in Nat
  OBVIOUS
<1>2. T \subseteq Nat /\ T # {}
  BY <1>1
<1>3. IsWellFoundedOn(R, Nat)
  BY NatLessThanWellFounded
<1>4. \A u, t \in Nat : u < t => <<u, t>> \in R
  BY LessIn
<1>5. PICK m \in S : \A i \in S : m >= i
  <2> HIDE DEF R
  <2>1. PICK t \in T : \A u \in T : ~(<<u, t>> \in R)
    <3> HIDE DEF T
    <3> QED
      BY <1>2, <1>3, WFMin
  <2>2. PICK m \in S : t = n - m
    BY <2>1
  <2>3. ASSUME NEW i \in S PROVE m >= i
    <3>1. n - i \in T /\ n - i \in Nat /\ n - m \in Nat
      BY <1>1
    <3>2. ~(n - i < n - m)
      BY <1>4, <2>1, <2>2, <3>1
    <3> QED
      BY <1>1, <3>2
  <2> QED
    BY <2>3
<1>6. Max(S) \in S /\ \A i \in S : Max(S) >= i
  BY <1>5 DEF Max
<1> QED
  BY <1>1, <1>6

-----------------------------------------------------------------------------
(* Induction over a finite set, one element at a time *)

\* The element the folds take next.
First(s) == CHOOSE x \in s : TRUE
Rest(s)  == s \ {First(s)}

LEMMA RestIs ==
    ASSUME NEW s, IsFiniteSet(s), s # {}
    PROVE  /\ First(s) \in s
           /\ IsFiniteSet(Rest(s))
           /\ Cardinality(s) \in Nat
           /\ Cardinality(Rest(s)) \in Nat
           /\ Cardinality(Rest(s)) + 1 = Cardinality(s)
<1>1. First(s) \in s
  BY DEF First
<1>2. IsFiniteSet(Rest(s)) /\ Cardinality(Rest(s)) = Cardinality(s) - 1
  BY <1>1, FS_RemoveElement DEF Rest
<1>3. Cardinality(s) \in Nat /\ Cardinality(Rest(s)) \in Nat
  BY <1>2, FS_CardinalityType
<1> QED
  BY <1>1, <1>2, <1>3

LEMMA SetInductive ==
    ASSUME NEW S, IsFiniteSet(S), NEW G, {} \in G,
           \A s \in SUBSET S : s # {} /\ Rest(s) \in G => s \in G
    PROVE  \A s \in SUBSET S : s \in G
<1> DEFINE N == {n \in Nat : \A s \in SUBSET S : Cardinality(s) = n => s \in G}
<1>1. \A s \in SUBSET S : IsFiniteSet(s) /\ Cardinality(s) \in Nat
  BY FS_Subset, FS_CardinalityType
<1>2. 0 \in N
  BY <1>1, FS_EmptySet
<1>3. ASSUME NEW n \in N PROVE n + 1 \in N
  <2>1. SUFFICES ASSUME NEW s \in SUBSET S, Cardinality(s) = n + 1 PROVE s \in G
    OBVIOUS
  <2>2. s # {}
    BY <2>1, FS_EmptySet
  <2>3. Rest(s) \in SUBSET S /\ Cardinality(Rest(s)) = n
    BY <1>1, <2>1, <2>2, RestIs DEF Rest
  <2> QED
    BY <2>2, <2>3
<1>4. N = Nat
  <2>1. N \subseteq Nat
    OBVIOUS
  <2> HIDE DEF N
  <2> QED
    BY <1>2, <1>3, <2>1, NatInductive
<1> QED
  BY <1>1, <1>4

-----------------------------------------------------------------------------
(* Sums *)

\* g computes, over each subset of S, what a fold computes of f.
Solves(S, f, g) ==
    g = [s \in SUBSET S |-> IF s = {} THEN 0 ELSE f[First(s)] + g[Rest(s)]]

Sums(S, f) == CHOOSE g : Solves(S, f, g)

LEMMA SumIs ==
    ASSUME NEW f
    PROVE  SumFunction(f) = Sums(DOMAIN f, f)[DOMAIN f]
BY DEF SumFunction, SumFunctionOnSet, FoldFunctionOnSet, MapThenFoldSet,
       Sums, Solves, First, Rest

\* The equation that defines Sums has a solution: over the sets of at most n
\* elements for every n, hence over all of them.
LEMMA SumsExist ==
    ASSUME NEW S, IsFiniteSet(S), NEW f \in [S -> Int]
    PROVE  \E g : Solves(S, f, g)
<1> DEFINE Next1(g, s) == IF s = {} THEN 0 ELSE f[First(s)] + g[Rest(s)]
           Upto(n) == {s \in SUBSET S : Cardinality(s) <= n}
           N == {n \in Nat : \E g \in [SUBSET S -> Int] :
                                 \A s \in Upto(n) : g[s] = Next1(g, s)}
<1>1. \A s \in SUBSET S : IsFiniteSet(s) /\ Cardinality(s) \in Nat
  BY FS_Subset, FS_CardinalityType
<1>2. ASSUME NEW s \in SUBSET S, s # {}
      PROVE  /\ First(s) \in S /\ Rest(s) \in SUBSET S
             /\ Cardinality(Rest(s)) + 1 = Cardinality(s)
  BY <1>1, <1>2, RestIs DEF Rest
<1>3. 0 \in N
  <2> DEFINE g == [s \in SUBSET S |-> 0]
  <2>1. g \in [SUBSET S -> Int]
    OBVIOUS
  <2>2. \A s \in Upto(0) : s = {}
    BY <1>1, FS_EmptySet
  <2>3. \A s \in Upto(0) : g[s] = Next1(g, s)
    BY <2>2
  <2> QED
    BY <2>1, <2>3
<1>4. ASSUME NEW n \in N PROVE n + 1 \in N
  <2>1. PICK g \in [SUBSET S -> Int] : \A s \in Upto(n) : g[s] = Next1(g, s)
    OBVIOUS
  <2> DEFINE h == [s \in SUBSET S |-> Next1(g, s)]
  <2>2. h \in [SUBSET S -> Int]
    BY <1>2
  <2>3. \A s \in Upto(n) : h[s] = g[s]
    BY <2>1
  <2>4. ASSUME NEW s \in Upto(n + 1) PROVE h[s] = Next1(h, s)
    <3>1. CASE s = {}
      BY <3>1
    <3>2. CASE s # {}
      <4>1. Rest(s) \in Upto(n)
        BY <1>1, <1>2, <3>2
      <4> QED
        BY <2>3, <3>2, <4>1
    <3> QED
      BY <3>1, <3>2
  <2> HIDE DEF h
  <2> QED
    BY <2>2, <2>4
<1>5. N = Nat
  <2>1. N \subseteq Nat
    OBVIOUS
  <2> HIDE DEF N
  <2> QED
    BY <1>3, <1>4, <2>1, NatInductive
<1>6. Cardinality(S) \in N /\ \A s \in SUBSET S : s \in Upto(Cardinality(S))
  BY <1>1, <1>5, FS_Subset
<1>7. PICK g \in [SUBSET S -> Int] : \A s \in SUBSET S : g[s] = Next1(g, s)
  BY <1>6
<1>8. g = [s \in SUBSET S |-> Next1(g, s)]
  BY <1>7
<1> QED
  BY <1>8 DEF Solves

\* Sums computes integers, from the empty set up.
LEMMA SumsAre ==
    ASSUME NEW S, IsFiniteSet(S), NEW f \in [S -> Int]
    PROVE  /\ Sums(S, f)[{}] = 0
           /\ \A s \in SUBSET S : s # {} =>
                  Sums(S, f)[s] = f[First(s)] + Sums(S, f)[Rest(s)]
           /\ \A s \in SUBSET S : Sums(S, f)[s] \in Int
           /\ SumFunction(f) = Sums(S, f)[S]
           /\ SumFunction(f) \in Int
<1> DEFINE g == Sums(S, f)
           G == {s \in SUBSET S : g[s] \in Int}
<1>1. DOMAIN f = S
  OBVIOUS
<1>2. g = [s \in SUBSET S |->
              IF s = {} THEN 0 ELSE f[First(s)] + g[Rest(s)]]
  <2>1. Solves(S, f, g)
    BY SumsExist DEF Sums
  <2> QED
    BY <2>1 DEF Solves
<1> HIDE DEF g
<1>3. g[{}] = 0 /\ \A s \in SUBSET S : s # {} => g[s] = f[First(s)] + g[Rest(s)]
  BY <1>2
<1>4. {} \in G
  BY <1>3
<1>5. ASSUME NEW s \in SUBSET S, s # {}, Rest(s) \in G PROVE s \in G
  <2>1. IsFiniteSet(s)
    BY FS_Subset
  <2>2. First(s) \in S
    BY <1>5, <2>1, RestIs
  <2> QED
    BY <1>3, <1>5, <2>2
<1>6. \A s \in SUBSET S : g[s] \in Int
  <2> HIDE DEF G
  <2>1. \A s \in SUBSET S : s \in G
    BY <1>4, <1>5, SetInductive
  <2> QED
    BY <2>1 DEF G
<1>7. SumFunction(f) = g[S]
  BY <1>1, SumIs DEF g
<1> QED
  BY <1>3, <1>6, <1>7 DEF g

\* Changing one value changes the sum by the difference.
LEMMA SumChanges ==
    ASSUME NEW S, IsFiniteSet(S), NEW f \in [S -> Int], NEW h \in [S -> Int],
           NEW k \in S, \A x \in S : x # k => h[x] = f[x]
    PROVE  SumFunction(h) = SumFunction(f) + h[k] - f[k]
<1> DEFINE G == {s \in SUBSET S :
                   Sums(S, h)[s] = Sums(S, f)[s] + (IF k \in s THEN h[k] - f[k] ELSE 0)}
<1>2. {} \in G
  BY SumsAre
<1>3. ASSUME NEW s \in SUBSET S, s # {}, Rest(s) \in G PROVE s \in G
  <2>1. First(s) \in s /\ First(s) \in S
    BY <1>3, FS_Subset, RestIs
  <2>2. Sums(S, h)[s] = h[First(s)] + Sums(S, h)[Rest(s)]
    BY <1>3, SumsAre
  <2>3. Sums(S, f)[s] = f[First(s)] + Sums(S, f)[Rest(s)]
    BY <1>3, SumsAre
  <2>4. Rest(s) \in SUBSET S /\ Sums(S, f)[Rest(s)] \in Int
    BY <1>3, SumsAre
  <2>5. k \in Rest(s) <=> k \in s /\ k # First(s)
    BY DEF Rest
  <2>6. f[First(s)] \in Int /\ f[k] \in Int /\ h[First(s)] \in Int /\ h[k] \in Int
    BY <2>1
  <2>7. CASE First(s) = k
    BY <1>3, <2>1, <2>2, <2>3, <2>4, <2>5, <2>6, <2>7
  <2>8. CASE First(s) # k
    BY <1>3, <2>1, <2>2, <2>3, <2>4, <2>5, <2>6, <2>8
  <2> QED
    BY <2>7, <2>8
<1>4. S \in G
  <2> HIDE DEF G
  <2> QED
    BY <1>2, <1>3, SetInductive
<1>5. Sums(S, h)[S] = Sums(S, f)[S] + (h[k] - f[k])
  BY <1>4
<1>6. SumFunction(h) = Sums(S, h)[S] /\ SumFunction(f) = Sums(S, f)[S]
      /\ SumFunction(f) \in Int /\ f[k] \in Int /\ h[k] \in Int
  BY SumsAre
<1> QED
  BY <1>5, <1>6

\* A sum grows with its terms.
LEMMA SumAtMost ==
    ASSUME NEW S, IsFiniteSet(S), NEW f \in [S -> Int], NEW g \in [S -> Int],
           \A x \in S : f[x] <= g[x]
    PROVE  SumFunction(f) <= SumFunction(g)
<1> DEFINE G == {s \in SUBSET S : Sums(S, f)[s] <= Sums(S, g)[s]}
<1>1. {} \in G
  BY SumsAre
<1>2. ASSUME NEW s \in SUBSET S, s # {}, Rest(s) \in G PROVE s \in G
  <2>1. First(s) \in S
    BY <1>2, FS_Subset, RestIs
  <2>2. Sums(S, f)[s] = f[First(s)] + Sums(S, f)[Rest(s)]
        /\ Sums(S, g)[s] = g[First(s)] + Sums(S, g)[Rest(s)]
    BY <1>2, SumsAre
  <2>3. Sums(S, f)[Rest(s)] \in Int /\ Sums(S, g)[Rest(s)] \in Int
    BY <1>2, SumsAre
  <2>4. f[First(s)] \in Int /\ g[First(s)] \in Int /\ f[First(s)] <= g[First(s)]
    BY <2>1
  <2> QED
    BY <1>2, <2>2, <2>3, <2>4
<1>3. S \in G
  <2> HIDE DEF G
  <2> QED
    BY <1>1, <1>2, SetInductive
<1> QED
  BY <1>3, SumsAre

\* The sum of a constant.
LEMMA SumOfConstant ==
    ASSUME NEW S, IsFiniteSet(S), NEW c \in Int, NEW f \in [S -> Int],
           \A x \in S : f[x] = c
    PROVE  SumFunction(f) = Cardinality(S) * c
<1> DEFINE G == {s \in SUBSET S : Sums(S, f)[s] = Cardinality(s) * c}
<1>2. {} \in G
  BY SumsAre, FS_EmptySet
<1>3. ASSUME NEW s \in SUBSET S, s # {}, Rest(s) \in G PROVE s \in G
  <2>1. IsFiniteSet(s)
    BY FS_Subset
  <2> DEFINE n == Cardinality(Rest(s))
  <2>2. First(s) \in S /\ n \in Nat /\ Cardinality(s) = n + 1
    BY <1>3, <2>1, RestIs
  <2>3. Sums(S, f)[s] = c + Sums(S, f)[Rest(s)]
    BY <1>3, <2>2, SumsAre
  <2>4. Sums(S, f)[Rest(s)] = n * c
    BY <1>3
  <2> HIDE DEF n
  <2>5. (n + 1) * c = c + n * c
    BY <2>2
  <2> QED
    BY <2>2, <2>3, <2>4, <2>5
<1>4. S \in G
  <2> HIDE DEF G
  <2> QED
    BY <1>2, <1>3, SetInductive
<1> QED
  BY <1>4, SumsAre
=============================================================================

------------------------------ MODULE SumProofs ------------------------------
(* Induction as a fact about sets of numbers, and sums over finite sets as the *)
(* models write them: a fold takes an element out, by CHOOSE, until none is    *)
(* left.  What is proved here is that any element may be taken, and what that  *)
(* says of sums of two sets or two functions.                                  *)
EXTENDS Integers, FiniteSetsExt, FiniteSetTheorems, WellFoundedInduction, TLAPS

-----------------------------------------------------------------------------
(* Induction over the naturals, for a set of them. *)

LEMMA NatMin ==
    ASSUME NEW T, T \subseteq Nat, T # {}
    PROVE  \E n \in T : \A m \in T : n <= m
<1> DEFINE R == OpToRel(<, Nat)
<1>1. IsWellFoundedOn(R, Nat) BY NatLessThanWellFounded
<1>2. PICK n \in T : \A m \in T : ~(<<m, n>> \in R)
  <2> HIDE DEF R
  <2> QED BY <1>1, WFMin
<1>3. ASSUME NEW m \in T PROVE n <= m
  <2>1. SUFFICES ASSUME m < n PROVE FALSE OBVIOUS
  <2>2. <<m, n>> \in {ss \in Nat \X Nat : ss[1] < ss[2]}
    <3>1. <<m, n>> \in Nat \X Nat OBVIOUS
    <3> QED BY <2>1, <3>1
  <2> QED BY <1>2, <2>2 DEF OpToRel
<1> QED BY <1>3

LEMMA SetInduction ==
    ASSUME NEW P, 0 \in P, \A n \in Nat : n \in P => n + 1 \in P
    PROVE  Nat \subseteq P
<1>1. SUFFICES ASSUME Nat \ P # {} PROVE FALSE OBVIOUS
<1>2. PICK n \in Nat \ P : \A m \in Nat \ P : n <= m BY <1>1, NatMin
<1>3. n # 0 /\ n - 1 \in Nat BY <1>2
<1>4. n - 1 \in P BY <1>2, <1>3
<1> QED BY <1>2, <1>3, <1>4

-----------------------------------------------------------------------------
(* The recursive function behind a sum. *)

Some(s) == CHOOSE e \in s : TRUE

\* One more turn of the recursion over the subsets of S, from what g has.
NextSum(g, f, S) == [s \in SUBSET S |-> IF s = {} THEN 0 ELSE f[Some(s)] + g[s \ {Some(s)}]]

\* g sums f over each subset of S.
IsSum(g, f, S) == g = NextSum(g, f, S)

\* The sum of f over S, as the community modules have it.
SumOver(f, S) ==
    MapThenFoldSet(+, 0, LAMBDA i : f[i], LAMBDA s : CHOOSE x \in s : TRUE, S)

\* A set has one element more than without the one taken out.
LEMMA TakenOut ==
    ASSUME NEW s, IsFiniteSet(s), NEW x \in s
    PROVE  /\ IsFiniteSet(s \ {x}) /\ Cardinality(s) \in Nat /\ Cardinality(s \ {x}) \in Nat
           /\ Cardinality(s) = Cardinality(s \ {x}) + 1
<1>1. IsFiniteSet(s \ {x}) BY FS_Subset
<1>2. Cardinality(s) \in Nat /\ Cardinality(s \ {x}) \in Nat BY <1>1, FS_CardinalityType
<1>3. (s \ {x}) \union {x} = s OBVIOUS
<1>4. Cardinality((s \ {x}) \union {x}) = Cardinality(s \ {x}) + 1 BY <1>1, FS_AddElement
<1> QED BY <1>1, <1>2, <1>3, <1>4

LEMMA SomeIn == ASSUME NEW s, s # {} PROVE Some(s) \in s BY DEF Some

\* A property of all sizes of subsets is one of all subsets.
LEMMA BySize ==
    ASSUME NEW S, IsFiniteSet(S), NEW P, P \subseteq SUBSET S, {} \in P,
           \A s \in SUBSET S : (s # {} /\ \A x \in s : s \ {x} \in P) => s \in P
    PROVE  SUBSET S \subseteq P
<1> DEFINE Q == {n \in Nat : \A s \in SUBSET S : Cardinality(s) = n => s \in P}
<1>1. \A s \in SUBSET S : IsFiniteSet(s) /\ Cardinality(s) \in Nat
  BY FS_Subset, FS_CardinalityType
<1>2. 0 \in Q
  <2>1. \A s \in SUBSET S : Cardinality(s) = 0 => s = {} BY <1>1, FS_EmptySet
  <2> QED BY <2>1
<1>3. ASSUME NEW n \in Nat, n \in Q PROVE n + 1 \in Q
  <2>1. SUFFICES ASSUME NEW s \in SUBSET S, Cardinality(s) = n + 1 PROVE s \in P OBVIOUS
  <2>2. s # {} BY <2>1, FS_EmptySet
  <2>3. ASSUME NEW x \in s PROVE s \ {x} \in P
    <3>1. Cardinality(s \ {x}) = n BY <1>1, <2>1, TakenOut
    <3> QED BY <1>3, <3>1
  <2> QED BY <2>2, <2>3
<1>4. Nat \subseteq Q
  <2> HIDE DEF Q
  <2> QED BY <1>2, <1>3, SetInduction
<1> QED BY <1>1, <1>4

LEMMA SumExists ==
    ASSUME NEW f, NEW S, IsFiniteSet(S)
    PROVE  \E g : IsSum(g, f, S)
<1> DEFINE Until(g, n) ==
        /\ DOMAIN g = SUBSET S
        /\ g = [s \in SUBSET S |-> g[s]]
        /\ \A s \in SUBSET S : Cardinality(s) <= n => g[s] = NextSum(g, f, S)[s]
    P == {n \in Nat : \E g : Until(g, n)}
<1>1. \A s \in SUBSET S : IsFiniteSet(s) /\ Cardinality(s) \in Nat
  BY FS_Subset, FS_CardinalityType
<1>2. 0 \in P
  <2> DEFINE g == [s \in SUBSET S |-> 0]
  <2>1. \A s \in SUBSET S : Cardinality(s) <= 0 => s = {} BY <1>1, FS_EmptySet
  <2>2. Until(g, 0) BY <2>1 DEF NextSum
  <2> QED BY <2>2
<1>3. ASSUME NEW n \in Nat, n \in P PROVE n + 1 \in P
  <2>1. PICK g : Until(g, n) BY <1>3
  <2> DEFINE h == NextSum(g, f, S)
  <2>2. DOMAIN h = SUBSET S /\ h = [s \in SUBSET S |-> h[s]] BY DEF NextSum
  <2>3. ASSUME NEW s \in SUBSET S, Cardinality(s) <= n + 1 PROVE h[s] = NextSum(h, f, S)[s]
    <3>1. CASE s = {} BY <3>1 DEF NextSum
    <3>2. CASE s # {}
      <4> DEFINE t == s \ {Some(s)}
      <4>1. t \in SUBSET S /\ Cardinality(t) <= n
        <5>1. Some(s) \in s BY <3>2, SomeIn
        <5>2. Cardinality(s) = Cardinality(t) + 1 /\ Cardinality(t) \in Nat
          BY <1>1, <5>1, TakenOut
        <5> QED BY <2>3, <5>2
      <4>2. g[t] = h[t] BY <2>1, <4>1
      <4>3. h[s] = f[Some(s)] + g[t] BY <3>2 DEF NextSum
      <4>4. NextSum(h, f, S)[s] = f[Some(s)] + h[t] BY <3>2 DEF NextSum
      <4> QED BY <4>2, <4>3, <4>4
    <3> QED BY <3>1, <3>2
  <2>4. Until(h, n + 1) BY <2>2, <2>3
  <2>5. \E k : Until(k, n + 1)
    <3> HIDE DEF h, Until
    <3> QED BY <2>4
  <2>6. n + 1 \in Nat OBVIOUS
  <2> HIDE DEF Until
  <2> QED BY <2>5, <2>6
<1>4. Nat \subseteq P
  <2> HIDE DEF P
  <2> QED BY <1>2, <1>3, SetInduction
<1>5. Cardinality(S) \in P BY <1>1, <1>4
<1>6. PICK g : Until(g, Cardinality(S)) BY <1>5
<1>7. ASSUME NEW s \in SUBSET S PROVE g[s] = NextSum(g, f, S)[s]
  <2>1. Cardinality(s) <= Cardinality(S) BY FS_Subset
  <2> QED BY <1>6, <2>1
<1>8. g = NextSum(g, f, S)
  <2>1. NextSum(g, f, S) = [s \in SUBSET S |-> NextSum(g, f, S)[s]] BY DEF NextSum
  <2> QED BY <1>6, <1>7, <2>1
<1> QED BY <1>8 DEF IsSum

\* The sum depends on the values only, and on no set around.
LEMMA SumUnique ==
    ASSUME NEW f, NEW h, NEW S, NEW T, NEW U, IsFiniteSet(U), U \subseteq S, U \subseteq T,
           \A i \in U : f[i] = h[i],
           NEW g, IsSum(g, f, S), NEW k, IsSum(k, h, T)
    PROVE  \A s \in SUBSET U : g[s] = k[s]
<1> DEFINE P == {s \in SUBSET U : g[s] = k[s]}
<1>1. {} \in P BY DEF IsSum, NextSum
<1>2. ASSUME NEW s \in SUBSET U, s # {}, \A x \in s : s \ {x} \in P PROVE s \in P
  <2>1. Some(s) \in s BY <1>2, SomeIn
  <2>2. g[s] = f[Some(s)] + g[s \ {Some(s)}] BY <1>2 DEF IsSum, NextSum
  <2>3. k[s] = h[Some(s)] + k[s \ {Some(s)}] BY <1>2 DEF IsSum, NextSum
  <2>4. g[s \ {Some(s)}] = k[s \ {Some(s)}] BY <1>2, <2>1
  <2> QED BY <2>1, <2>2, <2>3, <2>4
<1>3. SUBSET U \subseteq P
  <2>1. P \subseteq SUBSET U OBVIOUS
  <2> HIDE DEF P
  <2> QED BY <1>1, <1>2, <2>1, BySize
<1> QED BY <1>3

\* The value of a sum, with any function that sums over a larger set.
LEMMA SumIs ==
    ASSUME NEW f, NEW S, NEW T, IsFiniteSet(T), S \subseteq T, NEW g, IsSum(g, f, T)
    PROVE  SumOver(f, S) = g[S]
<1>1. IsFiniteSet(S) BY FS_Subset
<1> DEFINE k == CHOOSE k : IsSum(k, f, S)
<1>2. IsSum(k, f, S) BY <1>1, SumExists
<1>3. SumOver(f, S) = k[S] BY DEF SumOver, MapThenFoldSet, IsSum, NextSum, Some
<1>4. k[S] = g[S]
  <2> HIDE DEF k
  <2>1. \A s \in SUBSET S : k[s] = g[s] BY <1>1, <1>2, SumUnique
  <2> QED BY <2>1
<1> QED BY <1>3, <1>4

-----------------------------------------------------------------------------
(* What a sum is. *)

LEMMA SumEmpty == ASSUME NEW f PROVE SumOver(f, {}) = 0
<1>1. IsFiniteSet({}) BY FS_EmptySet
<1>2. PICK g : IsSum(g, f, {}) BY <1>1, SumExists
<1>3. SumOver(f, {}) = g[{}] BY <1>1, <1>2, SumIs
<1>4. g[{}] = 0 BY <1>2 DEF IsSum, NextSum
<1> QED BY <1>3, <1>4

LEMMA SumInts ==
    ASSUME NEW f, NEW S, IsFiniteSet(S), NEW D, 0 \in D, \A i \in S : \A n \in D : f[i] + n \in D,
           NEW g, IsSum(g, f, S)
    PROVE  \A s \in SUBSET S : g[s] \in D
<1> DEFINE P == {s \in SUBSET S : g[s] \in D}
<1>1. {} \in P BY DEF IsSum, NextSum
<1>2. ASSUME NEW s \in SUBSET S, s # {}, \A x \in s : s \ {x} \in P PROVE s \in P
  <2>1. Some(s) \in s BY <1>2, SomeIn
  <2>2. g[s] = f[Some(s)] + g[s \ {Some(s)}] BY <1>2 DEF IsSum, NextSum
  <2>3. g[s \ {Some(s)}] \in D BY <1>2, <2>1
  <2> QED BY <2>1, <2>2, <2>3
<1>3. SUBSET S \subseteq P
  <2>1. P \subseteq SUBSET S OBVIOUS
  <2> HIDE DEF P
  <2> QED BY <1>1, <1>2, <2>1, BySize
<1> QED BY <1>3

LEMMA SumAny ==
    ASSUME NEW f, NEW S, IsFiniteSet(S), \A i \in S : f[i] \in Int, NEW g, IsSum(g, f, S)
    PROVE  \A s \in SUBSET S : \A x \in s : g[s] = f[x] + g[s \ {x}]
<1>0. \A s \in SUBSET S : g[s] \in Int
  <2>1. \A i \in S : \A n \in Int : f[i] + n \in Int OBVIOUS
  <2>2. 0 \in Int OBVIOUS
  <2> QED BY <2>1, <2>2, SumInts
<1> DEFINE Good(s) == \A x \in s : g[s] = f[x] + g[s \ {x}]
           P == {s \in SUBSET S : Good(s)}
<1>1. {} \in P OBVIOUS
<1>2. ASSUME NEW s \in SUBSET S, s # {}, \A x \in s : s \ {x} \in P PROVE s \in P
  <2> DEFINE c == Some(s)
  <2>1. c \in s BY <1>2, SomeIn
  <2>2. g[s] = f[c] + g[s \ {c}] BY <1>2 DEF IsSum, NextSum
  <2> HIDE DEF c
  <2>4. ASSUME NEW x \in s, x # c PROVE g[s] = f[x] + g[s \ {x}]
    <3> DEFINE t == (s \ {c}) \ {x}
    <3>1. g[s \ {c}] = f[x] + g[t] BY <1>2, <2>1, <2>4
    <3>2. g[s \ {x}] = f[c] + g[(s \ {x}) \ {c}] BY <1>2, <2>1, <2>4
    <3>3. t = (s \ {x}) \ {c} OBVIOUS
    <3>4. g[t] \in Int /\ f[c] \in Int /\ f[x] \in Int
      <4>1. t \in SUBSET S OBVIOUS
      <4> QED BY <1>0, <2>1, <4>1
    <3> HIDE DEF t
    <3> QED BY <2>2, <3>1, <3>2, <3>3, <3>4
  <2>5. Good(s) BY <2>2, <2>4
  <2> QED BY <2>5
<1>3. SUBSET S \subseteq P
  <2>1. P \subseteq SUBSET S OBVIOUS
  <2> HIDE DEF P
  <2> QED BY <1>1, <1>2, <2>1, BySize
<1> QED BY <1>3

LEMMA SumNat ==
    ASSUME NEW f, NEW S, IsFiniteSet(S), \A i \in S : f[i] \in Nat
    PROVE  SumOver(f, S) \in Nat
<1>1. PICK g : IsSum(g, f, S) BY SumExists
<1>2. \A i \in S : \A n \in Nat : f[i] + n \in Nat OBVIOUS
<1>3. g[S] \in Nat BY <1>1, <1>2, SumInts
<1>4. SumOver(f, S) = g[S] BY <1>1, SumIs
<1> QED BY <1>3, <1>4

LEMMA SumInt ==
    ASSUME NEW f, NEW S, IsFiniteSet(S), \A i \in S : f[i] \in Int
    PROVE  SumOver(f, S) \in Int
<1>1. PICK g : IsSum(g, f, S) BY SumExists
<1>2. \A i \in S : \A n \in Int : f[i] + n \in Int OBVIOUS
<1>3. \A s \in SUBSET S : g[s] \in Int
  <2>1. \A D : (0 \in D /\ \A i \in S : \A n \in D : f[i] + n \in D) => \A s \in SUBSET S : g[s] \in D
    BY <1>1, SumInts, Zenon
  <2>2. 0 \in Int OBVIOUS
  <2> QED BY <1>2, <2>1, <2>2, Zenon
<1>4. SumOver(f, S) = g[S] BY <1>1, SumIs
<1> QED BY <1>3, <1>4

\* Any element may be taken out.
LEMMA SumTake ==
    ASSUME NEW f, NEW S, IsFiniteSet(S), \A i \in S : f[i] \in Int, NEW x \in S
    PROVE  SumOver(f, S) = f[x] + SumOver(f, S \ {x})
<1>1. PICK g : IsSum(g, f, S) BY SumExists
<1>2. SumOver(f, S) = g[S] BY <1>1, SumIs
<1>3. SumOver(f, S \ {x}) = g[S \ {x}]
  <2>1. S \ {x} \subseteq S OBVIOUS
  <2> QED BY <1>1, <2>1, SumIs
<1>4. g[S] = f[x] + g[S \ {x}] BY <1>1, SumAny
<1> QED BY <1>2, <1>3, <1>4

LEMMA SumAdd ==
    ASSUME NEW f, NEW S, IsFiniteSet(S), NEW x, x \notin S, \A i \in S \union {x} : f[i] \in Int
    PROVE  SumOver(f, S \union {x}) = f[x] + SumOver(f, S)
<1> DEFINE T == S \union {x}
<1>1. IsFiniteSet(T) /\ x \in T BY FS_AddElement
<1>2. T \ {x} = S OBVIOUS
<1>3. \A i \in T : f[i] \in Int OBVIOUS
<1> HIDE DEF T
<1>4. SumOver(f, T) = f[x] + SumOver(f, T \ {x}) BY <1>1, <1>3, SumTake
<1> QED BY <1>2, <1>4 DEF T

LEMMA SumSame ==
    ASSUME NEW f, NEW h, NEW S, IsFiniteSet(S), \A i \in S : f[i] = h[i]
    PROVE  SumOver(f, S) = SumOver(h, S)
<1>1. PICK g : IsSum(g, f, S) BY SumExists
<1>2. PICK k : IsSum(k, h, S) BY SumExists
<1>3. SumOver(f, S) = g[S] /\ SumOver(h, S) = k[S] BY <1>1, <1>2, SumIs
<1>4. \A s \in SUBSET S : g[s] = k[s] BY <1>1, <1>2, SumUnique
<1> QED BY <1>3, <1>4

\* A relation between the values of two functions that sums keep.
LEMMA SumLeq ==
    ASSUME NEW f, NEW h, NEW S, IsFiniteSet(S),
           \A i \in S : f[i] \in Int /\ h[i] \in Int /\ f[i] <= h[i]
    PROVE  SumOver(f, S) <= SumOver(h, S)
<1> DEFINE P == {s \in SUBSET S : SumOver(f, s) <= SumOver(h, s)}
<1>1. {} \in P BY SumEmpty
<1>2. ASSUME NEW s \in SUBSET S, s # {}, \A x \in s : s \ {x} \in P PROVE s \in P
  <2>1. PICK x \in s : TRUE BY <1>2
  <2>2. IsFiniteSet(s) /\ IsFiniteSet(s \ {x}) BY FS_Subset
  <2>3. SumOver(f, s) = f[x] + SumOver(f, s \ {x}) BY <2>2, SumTake
  <2>4. SumOver(h, s) = h[x] + SumOver(h, s \ {x}) BY <2>2, SumTake
  <2>5. SumOver(f, s \ {x}) \in Int /\ SumOver(h, s \ {x}) \in Int BY <2>2, SumInt
  <2>6. SumOver(f, s \ {x}) <= SumOver(h, s \ {x}) BY <1>2
  <2>7. SumOver(f, s) <= SumOver(h, s) BY <2>3, <2>4, <2>5, <2>6
  <2> QED BY <2>7
<1>3. SUBSET S \subseteq P
  <2>1. P \subseteq SUBSET S OBVIOUS
  <2> HIDE DEF P
  <2> QED BY <1>1, <1>2, <2>1, BySize
<1> QED BY <1>3

\* The sum of two functions.
LEMMA SumPlus ==
    ASSUME NEW f, NEW h, NEW k, NEW S, IsFiniteSet(S),
           \A i \in S : f[i] \in Int /\ h[i] \in Int /\ k[i] = f[i] + h[i]
    PROVE  SumOver(k, S) = SumOver(f, S) + SumOver(h, S)
<1> DEFINE P == {s \in SUBSET S : SumOver(k, s) = SumOver(f, s) + SumOver(h, s)}
<1>1. {} \in P
  <2>1. SumOver(k, {}) = 0 /\ SumOver(f, {}) = 0 /\ SumOver(h, {}) = 0 BY SumEmpty
  <2> QED BY <2>1
<1>2. ASSUME NEW s \in SUBSET S, s # {}, \A x \in s : s \ {x} \in P PROVE s \in P
  <2>1. PICK x \in s : TRUE BY <1>2
  <2>2. IsFiniteSet(s) /\ IsFiniteSet(s \ {x}) BY FS_Subset
  <2>3. SumOver(f, s) = f[x] + SumOver(f, s \ {x}) BY <2>2, SumTake
  <2>4. SumOver(h, s) = h[x] + SumOver(h, s \ {x}) BY <2>2, SumTake
  <2>5. SumOver(f, s \ {x}) \in Int /\ SumOver(h, s \ {x}) \in Int BY <2>2, SumInt
  <2>6. SumOver(k, s) = k[x] + SumOver(k, s \ {x}) BY <2>2, SumTake
  <2>7. SumOver(k, s \ {x}) = SumOver(f, s \ {x}) + SumOver(h, s \ {x}) BY <1>2
  <2>8. SumOver(k, s) = SumOver(f, s) + SumOver(h, s)
    BY <2>3, <2>4, <2>5, <2>6, <2>7
  <2> QED BY <2>8
<1>3. SUBSET S \subseteq P
  <2>1. P \subseteq SUBSET S OBVIOUS
  <2> HIDE DEF P
  <2> QED BY <1>1, <1>2, <2>1, BySize
<1> QED BY <1>3

\* Two sets without a common element.
LEMMA SumUnion ==
    ASSUME NEW f, NEW S, NEW T, IsFiniteSet(S), IsFiniteSet(T), S \intersect T = {},
           \A i \in S \union T : f[i] \in Int
    PROVE  SumOver(f, S \union T) = SumOver(f, S) + SumOver(f, T)
<1> DEFINE P == {s \in SUBSET T : SumOver(f, S \union s) = SumOver(f, S) + SumOver(f, s)}
<1>0. SumOver(f, S) \in Int BY SumInt
<1>1. {} \in P
  <2>1. SumOver(f, {}) = 0 /\ S \union {} = S BY SumEmpty
  <2> QED BY <1>0, <2>1
<1>2. ASSUME NEW s \in SUBSET T, s # {}, \A x \in s : s \ {x} \in P PROVE s \in P
  <2>1. PICK x \in s : TRUE BY <1>2
  <2>2. IsFiniteSet(s) /\ IsFiniteSet(s \ {x}) BY FS_Subset
  <2>3. SumOver(f, s) = f[x] + SumOver(f, s \ {x}) BY <2>2, SumTake
  <2>4. IsFiniteSet(S \union s) BY <2>2, FS_Union
  <2>5. (S \union s) \ {x} = S \union (s \ {x}) /\ x \in S \union s BY <2>1
  <2>6. \A i \in S \union s : f[i] \in Int OBVIOUS
  <2>7. SumOver(f, S \union s) = f[x] + SumOver(f, (S \union s) \ {x})
    BY <2>4, <2>5, <2>6, SumTake
  <2>8. SumOver(f, S \union (s \ {x})) = SumOver(f, S) + SumOver(f, s \ {x}) BY <1>2, <2>1
  <2>9. SumOver(f, s \ {x}) \in Int /\ f[x] \in Int
    <3>1. \A i \in s \ {x} : f[i] \in Int OBVIOUS
    <3> QED BY <2>1, <2>2, <3>1, SumInt
  <2>10. SumOver(f, S \union s) = f[x] + SumOver(f, S \union (s \ {x})) BY <2>5, <2>7
  <2> DEFINE a == SumOver(f, S)
             b == SumOver(f, s \ {x})
  <2>11. SumOver(f, S \union s) = f[x] + (a + b) /\ SumOver(f, s) = f[x] + b
    BY <2>3, <2>8, <2>10
  <2>12. a \in Int /\ b \in Int BY <1>0, <2>9
  <2> HIDE DEF a, b
  <2>13. SumOver(f, S \union s) = a + SumOver(f, s) BY <2>9, <2>11, <2>12
  <2> QED BY <2>13 DEF a
<1>3. SUBSET T \subseteq P
  <2>1. P \subseteq SUBSET T OBVIOUS
  <2> HIDE DEF P
  <2> QED BY <1>1, <1>2, <2>1, BySize
<1> QED BY <1>3

\* A part of a sum of naturals.
LEMMA SumSubset ==
    ASSUME NEW f, NEW S, NEW T, IsFiniteSet(T), S \subseteq T, \A i \in T : f[i] \in Nat
    PROVE  SumOver(f, S) <= SumOver(f, T)
<1>1. IsFiniteSet(S) /\ IsFiniteSet(T \ S) BY FS_Subset
<1>2. S \union (T \ S) = T /\ S \intersect (T \ S) = {} OBVIOUS
<1>3. SumOver(f, S) \in Nat /\ SumOver(f, T \ S) \in Nat BY <1>1, SumNat
<1>4. \A i \in S \union (T \ S) : f[i] \in Int OBVIOUS
<1>5. SumOver(f, S \union (T \ S)) = SumOver(f, S) + SumOver(f, T \ S)
  BY <1>1, <1>2, <1>4, SumUnion
<1>6. SumOver(f, T) = SumOver(f, S) + SumOver(f, T \ S) BY <1>2, <1>5
<1> QED BY <1>3, <1>6

-----------------------------------------------------------------------------
(* The first numbers. *)

\* A constant as often as the set has elements.
LEMMA SumConst ==
    ASSUME NEW S, IsFiniteSet(S), NEW c \in Int, NEW f, \A i \in S : f[i] = c
    PROVE  SumOver(f, S) = c * Cardinality(S) /\ Cardinality(S) \in Nat
<1> DEFINE P == {s \in SUBSET S : SumOver(f, s) = c * Cardinality(s)}
<1>1. {} \in P BY SumEmpty, FS_EmptySet
<1>2. ASSUME NEW s \in SUBSET S, s # {}, \A x \in s : s \ {x} \in P PROVE s \in P
  <2>1. PICK x \in s : TRUE BY <1>2
  <2>2. IsFiniteSet(s) BY FS_Subset
  <2>3. SumOver(f, s) = f[x] + SumOver(f, s \ {x}) BY <2>1, <2>2, SumTake
  <2>4. SumOver(f, s \ {x}) = c * Cardinality(s \ {x}) BY <1>2, <2>1
  <2>5. /\ Cardinality(s) \in Nat /\ Cardinality(s \ {x}) \in Nat
        /\ Cardinality(s) = Cardinality(s \ {x}) + 1
    BY <2>1, <2>2, TakenOut
  <2>6. f[x] = c BY <2>1
  <2> QED BY <2>3, <2>4, <2>5, <2>6
<1>3. P \subseteq SUBSET S OBVIOUS
<1> HIDE DEF P
<1>4. SUBSET S \subseteq P BY <1>1, <1>2, <1>3, BySize
<1>5. S \in P BY <1>4
<1>6. Cardinality(S) \in Nat BY FS_CardinalityType
<1> QED BY <1>5, <1>6 DEF P

LEMMA UpToIsFinite == ASSUME NEW n \in Nat PROVE IsFiniteSet(1..n)
BY FS_Interval

LEMMA SumUpTo ==
    ASSUME NEW f, NEW n \in Nat, \A i \in 1..(n + 1) : f[i] \in Int
    PROVE  SumOver(f, 1..(n + 1)) = f[n + 1] + SumOver(f, 1..n)
<1>1. 1..(n + 1) = (1..n) \union {n + 1} /\ n + 1 \notin 1..n OBVIOUS
<1>2. IsFiniteSet(1..n) BY UpToIsFinite
<1>3. \A i \in (1..n) \union {n + 1} : f[i] \in Int OBVIOUS
<1> QED BY <1>1, <1>2, <1>3, SumAdd

LEMMA MaxIn ==
    ASSUME NEW s, IsFiniteSet(s), s \subseteq Int, s # {}
    PROVE  Max(s) \in s /\ \A y \in s : Max(s) >= y
<1> DEFINE P == {r \in SUBSET s : r # {} => \E x \in r : \A y \in r : x >= y}
<1>1. {} \in P OBVIOUS
<1>2. ASSUME NEW r \in SUBSET s, r # {}, \A x \in r : r \ {x} \in P PROVE r \in P
  <2>1. PICK x \in r : TRUE BY <1>2
  <2>2. CASE r \ {x} = {} BY <2>1, <2>2
  <2>3. CASE r \ {x} # {}
    <3>1. PICK w \in r \ {x} : \A y \in r \ {x} : w >= y BY <1>2, <2>3
    <3>2. x \in Int /\ w \in Int OBVIOUS
    <3>3. CASE x >= w
      <4>1. \A y \in r : x >= y BY <3>1, <3>2, <3>3
      <4> QED BY <4>1
    <3>4. CASE ~(x >= w)
      <4>1. \A y \in r : w >= y BY <3>1, <3>2, <3>4
      <4> QED BY <4>1
    <3> QED BY <3>3, <3>4
  <2> QED BY <2>2, <2>3
<1>3. SUBSET s \subseteq P
  <2>1. P \subseteq SUBSET s OBVIOUS
  <2> HIDE DEF P
  <2> QED BY <1>1, <1>2, <2>1, BySize
<1>4. \E x \in s : \A y \in s : x >= y BY <1>3
<1> QED BY <1>4 DEF Max

LEMMA MaxUpTo == ASSUME NEW n \in Nat \ {0} PROVE Max(1..n) = n
<1>1. IsFiniteSet(1..n) /\ 1..n \subseteq Int /\ 1..n # {} BY UpToIsFinite
<1>2. n \in 1..n /\ \A i \in 1..n : n >= i OBVIOUS
<1>3. \A x \in 1..n : (\A i \in 1..n : x >= i) => x = n OBVIOUS
<1> QED BY <1>2, <1>3 DEF Max

-----------------------------------------------------------------------------
(* Products and quotients. *)

\* Multiplication keeps an order.
LEMMA TimesLeq ==
    ASSUME NEW a \in Int, NEW b \in Int, a <= b, NEW n \in Nat
    PROVE  a * n <= b * n
<1>1. (b - a) * n >= 0 OBVIOUS
<1>2. (b - a) * n = b * n - a * n OBVIOUS
<1>3. a * n \in Int /\ b * n \in Int OBVIOUS
<1> QED BY <1>1, <1>2, <1>3

\* A quotient is on the same side of c as its dividend of c times the divisor.
LEMMA DivSide ==
    ASSUME NEW a \in Int, NEW n \in Nat \ {0}, NEW c \in Int
    PROVE  /\ a \div n \in Int
           /\ c * n <= a => c <= a \div n
           /\ a < c * n => a \div n < c
<1> DEFINE q == a \div n
           r == a % n
<1>1. q \in Int /\ r \in 0..(n - 1) /\ a = n * q + r OBVIOUS
<1> HIDE DEF q, r
<1>2. ASSUME c * n <= a, q < c PROVE FALSE
  <2>1. (q + 1) * n <= c * n BY <1>1, <1>2, TimesLeq
  <2>2. (q + 1) * n = n * q + n BY <1>1
  <2>3. n * q \in Int /\ c * n \in Int BY <1>1
  <2> QED BY <1>1, <1>2, <2>1, <2>2, <2>3
<1>3. ASSUME a < c * n, c <= q PROVE FALSE
  <2>1. c * n <= q * n BY <1>1, <1>3, TimesLeq
  <2>2. q * n = n * q /\ n * q \in Int /\ c * n \in Int BY <1>1
  <2> QED BY <1>1, <1>3, <2>1, <2>2
<1>4. c <= q \/ q < c BY <1>1
<1> QED BY <1>1, <1>2, <1>3, <1>4 DEF q
=============================================================================

---------------------------- MODULE SessionProofs ----------------------------
EXTENDS Session, SumProofs, SequenceTheorems, TLAPS

-----------------------------------------------------------------------------
(* Sums of sequences. *)

LEMMA TotalIs == ASSUME NEW s PROVE Total(s) = SumOver(s, DOMAIN s)
BY DEF Total, FoldSeq, FoldFunction, FoldFunctionOnSet, SumOver, MapThenFoldSet

LEMMA TotalInt == ASSUME NEW s \in Seq(Int) PROVE Total(s) \in Int
<1>1. DOMAIN s = 1..Len(s) /\ Len(s) \in Nat /\ \A i \in 1..Len(s) : s[i] \in Int
  BY LenProperties, ElementOfSeq
<1>2. IsFiniteSet(1..Len(s)) BY <1>1, UpToIsFinite
<1> QED BY <1>1, <1>2, SumInt, TotalIs

LEMMA TotalEmpty == Total(<<>>) = 0
<1>1. DOMAIN <<>> = {} OBVIOUS
<1> QED BY <1>1, TotalIs, SumEmpty

LEMMA TotalConcat ==
    ASSUME NEW s \in Seq(Int), NEW r \in Seq(Int)
    PROVE  s \o r \in Seq(Int) /\ Total(s \o r) = Total(s) + Total(r)
<1> DEFINE c == s \o r
           P == {n \in Nat : n <= Len(r) =>
                    SumOver(c, 1..(Len(s) + n)) = Total(s) + SumOver(r, 1..n)}
<1>1. /\ DOMAIN s = 1..Len(s) /\ Len(s) \in Nat
      /\ DOMAIN r = 1..Len(r) /\ Len(r) \in Nat
      /\ \A i \in 1..Len(s) : s[i] \in Int
      /\ \A i \in 1..Len(r) : r[i] \in Int
  BY LenProperties, ElementOfSeq
<1>2. /\ c \in Seq(Int) /\ Len(c) = Len(s) + Len(r)
      /\ \A i \in 1..(Len(s) + Len(r)) : c[i] = IF i <= Len(s) THEN s[i] ELSE r[i - Len(s)]
  BY ConcatProperties
<1>3. DOMAIN c = 1..(Len(s) + Len(r)) /\ \A i \in 1..(Len(s) + Len(r)) : c[i] \in Int
  BY <1>2, LenProperties, ElementOfSeq
<1> HIDE DEF c
<1>4. 0 \in P
  <2>1. IsFiniteSet(1..Len(s)) BY <1>1, UpToIsFinite
  <2>2. \A i \in 1..Len(s) : c[i] = s[i] BY <1>1, <1>2
  <2>3. SumOver(c, 1..Len(s)) = Total(s) BY <1>1, <2>1, <2>2, SumSame, TotalIs
  <2>4. Len(s) + 0 = Len(s) /\ 1..0 = {} BY <1>1
  <2>5. SumOver(r, {}) = 0 /\ Total(s) \in Int BY SumEmpty, TotalInt
  <2>6. Total(s) + SumOver(r, 1..0) = Total(s) BY <2>4, <2>5
  <2> QED BY <2>3, <2>4, <2>6
<1>5. \A n \in Nat : n \in P => n + 1 \in P
  <2> SUFFICES ASSUME NEW n \in Nat, n \in P, n + 1 <= Len(r)
               PROVE  SumOver(c, 1..(Len(s) + (n + 1))) = Total(s) + SumOver(r, 1..(n + 1))
    OBVIOUS
  <2>1. n <= Len(r) BY <1>1
  <2>2. SumOver(c, 1..(Len(s) + n)) = Total(s) + SumOver(r, 1..n) BY <2>1
  <2>3. SumOver(c, 1..((Len(s) + n) + 1)) = c[(Len(s) + n) + 1] + SumOver(c, 1..(Len(s) + n))
    <3>1. Len(s) + n \in Nat BY <1>1
    <3>2. \A i \in 1..((Len(s) + n) + 1) : c[i] \in Int BY <1>1, <1>3
    <3> QED BY <3>1, <3>2, SumUpTo
  <2>4. SumOver(r, 1..(n + 1)) = r[n + 1] + SumOver(r, 1..n)
    <3>1. \A i \in 1..(n + 1) : r[i] \in Int BY <1>1
    <3> QED BY <3>1, SumUpTo
  <2>5. c[(Len(s) + n) + 1] = r[n + 1] BY <1>1, <1>2, SMTT(30)
  <2>6. SumOver(r, 1..n) \in Int
    <3>1. \A i \in 1..n : r[i] \in Int BY <1>1, <2>1
    <3> QED BY <3>1, UpToIsFinite, SumInt
  <2>7. r[n + 1] \in Int /\ Total(s) \in Int BY <1>1, TotalInt
  <2>8. (Len(s) + n) + 1 = Len(s) + (n + 1) BY <1>1
  <2> QED BY <2>2, <2>3, <2>4, <2>5, <2>6, <2>7, <2>8
<1>6. Len(r) \in P
  <2> HIDE DEF P
  <2> QED BY <1>1, <1>4, <1>5, SetInduction
<1>7. SumOver(c, 1..(Len(s) + Len(r))) = Total(s) + SumOver(r, 1..Len(r)) BY <1>1, <1>6
<1>8. Total(c) = SumOver(c, 1..(Len(s) + Len(r))) BY <1>3, TotalIs
<1>9. Total(r) = SumOver(r, 1..Len(r)) BY <1>1, TotalIs
<1>10. c \in Seq(Int) /\ Total(c) = Total(s) + Total(r) BY <1>2, <1>7, <1>8, <1>9
<1> QED BY <1>10 DEF c

LEMMA TotalRepeat ==
    ASSUME NEW p \in Int, NEW c \in Nat
    PROVE  [k \in 1..c |-> p] \in Seq(Int) /\ Total([k \in 1..c |-> p]) = p * c
<1> DEFINE f == [k \in 1..c |-> p]
           P == {n \in Nat : n <= c => SumOver(f, 1..n) = p * n}
<1>1. f \in Seq(Int) OBVIOUS
<1>2. 0 \in P
  <2>1. 1..0 = {} /\ p * 0 = 0 OBVIOUS
  <2>2. SumOver(f, {}) = 0 BY SumEmpty
  <2> QED BY <2>1, <2>2
<1>3. \A n \in Nat : n \in P => n + 1 \in P
  <2> SUFFICES ASSUME NEW n \in Nat, n \in P, n + 1 <= c PROVE SumOver(f, 1..(n + 1)) = p * (n + 1)
    OBVIOUS
  <2>1. SumOver(f, 1..n) = p * n OBVIOUS
  <2>2. \A i \in 1..(n + 1) : f[i] = p OBVIOUS
  <2> HIDE DEF f
  <2>3. SumOver(f, 1..(n + 1)) = f[n + 1] + SumOver(f, 1..n) BY <2>2, SumUpTo
  <2>4. f[n + 1] = p BY <2>2
  <2>5. p * (n + 1) = p + p * n OBVIOUS
  <2> QED BY <2>1, <2>3, <2>4, <2>5
<1>4. c \in P
  <2> HIDE DEF P
  <2> QED BY <1>2, <1>3, SetInduction
<1>5. DOMAIN f = 1..c OBVIOUS
<1> HIDE DEF f
<1>6. Total(f) = SumOver(f, 1..c) BY <1>5, TotalIs
<1>7. Total(f) = p * c BY <1>4, <1>6
<1> QED BY <1>1, <1>7 DEF f

LEMMA TotalAppend ==
    ASSUME NEW s \in Seq(Int), NEW p \in Int
    PROVE  Append(s, p) \in Seq(Int) /\ Total(Append(s, p)) = Total(s) + p
<1> DEFINE c == Append(s, p)
<1>1. /\ DOMAIN s = 1..Len(s) /\ Len(s) \in Nat /\ \A i \in 1..Len(s) : s[i] \in Int
  BY LenProperties, ElementOfSeq
<1>2. /\ c \in Seq(Int) /\ Len(c) = Len(s) + 1 /\ DOMAIN c = 1..(Len(s) + 1)
      /\ c[Len(s) + 1] = p /\ \A i \in 1..Len(s) : c[i] = s[i]
  OBVIOUS
<1> HIDE DEF c
<1>3. \A i \in 1..(Len(s) + 1) : c[i] \in Int BY <1>2, ElementOfSeq
<1>4. SumOver(c, 1..(Len(s) + 1)) = c[Len(s) + 1] + SumOver(c, 1..Len(s)) BY <1>1, <1>3, SumUpTo
<1>5. SumOver(c, 1..Len(s)) = SumOver(s, 1..Len(s)) BY <1>1, <1>2, UpToIsFinite, SumSame, SMTT(30)
<1>6. Total(c) = SumOver(c, 1..(Len(s) + 1)) /\ Total(s) = SumOver(s, 1..Len(s))
  BY <1>1, <1>2, TotalIs
<1>7. Total(s) \in Int BY TotalInt
<1>8. c \in Seq(Int) /\ Total(c) = Total(s) + p BY <1>2, <1>4, <1>5, <1>6, <1>7
<1> QED BY <1>8 DEF c

-----------------------------------------------------------------------------
(* Dropping the Closed trades of a list. *)

TradeStates == {"PendingEntry", "Open", "Closed", "Cancelling"}
Trades == [st : TradeStates, entry : Nat, stop : Nat, tp : Nat, size : Nat]

\* The recursion of Unclosed: what is kept of the trades of s at some places.
Keeps(g, s) ==
    g = [d \in SUBSET (DOMAIN s) |->
           IF d = {} THEN <<>>
           ELSE IF s[Max(d)].st = "Closed" THEN g[d \ {Max(d)}]
                ELSE Append(g[d \ {Max(d)}], s[Max(d)])]

LEMMA KeepsExists ==
    ASSUME NEW s, IsFiniteSet(DOMAIN s), DOMAIN s \subseteq Int
    PROVE  \E g : Keeps(g, s)
<1> DEFINE S == DOMAIN s
           Step(g) == [d \in SUBSET S |->
                         IF d = {} THEN <<>>
                         ELSE IF s[Max(d)].st = "Closed" THEN g[d \ {Max(d)}]
                              ELSE Append(g[d \ {Max(d)}], s[Max(d)])]
           Until(g, n) == /\ DOMAIN g = SUBSET S
                          /\ g = [d \in SUBSET S |-> g[d]]
                          /\ \A d \in SUBSET S : Cardinality(d) <= n => g[d] = Step(g)[d]
           P == {n \in Nat : \E g : Until(g, n)}
<1>1. \A d \in SUBSET S : IsFiniteSet(d) /\ Cardinality(d) \in Nat
  BY FS_Subset, FS_CardinalityType
<1>2. 0 \in P
  <2> DEFINE g == [d \in SUBSET S |-> <<>>]
  <2>1. \A d \in SUBSET S : Cardinality(d) <= 0 => d = {} BY <1>1, FS_EmptySet
  <2>2. Until(g, 0) BY <2>1
  <2>3. \E k : Until(k, 0)
    <3> HIDE DEF g, Until
    <3> QED BY <2>2
  <2> HIDE DEF Until
  <2> QED BY <2>3
<1>3. ASSUME NEW n \in Nat, n \in P PROVE n + 1 \in P
  <2>1. PICK g : Until(g, n) BY <1>3
  <2> DEFINE h == Step(g)
  <2>2. DOMAIN h = SUBSET S /\ h = [d \in SUBSET S |-> h[d]] OBVIOUS
  <2>3. ASSUME NEW d \in SUBSET S, Cardinality(d) <= n + 1 PROVE h[d] = Step(h)[d]
    <3>1. CASE d = {} BY <3>1
    <3>2. CASE d # {}
      <4> DEFINE e == d \ {Max(d)}
      <4>1. e \in SUBSET S /\ Cardinality(e) <= n
        <5>1. Max(d) \in d BY <1>1, <3>2, MaxIn
        <5>2. Cardinality(d) = Cardinality(e) + 1 /\ Cardinality(e) \in Nat
          BY <1>1, <5>1, TakenOut
        <5> QED BY <2>3, <5>2
      <4>2. g[e] = h[e] BY <2>1, <4>1
      <4>3. h[d] = IF s[Max(d)].st = "Closed" THEN g[e] ELSE Append(g[e], s[Max(d)]) BY <3>2
      <4>4. Step(h)[d] = IF s[Max(d)].st = "Closed" THEN h[e] ELSE Append(h[e], s[Max(d)])
        BY <3>2
      <4> HIDE DEF e, h, Step
      <4> QED BY <4>2, <4>3, <4>4
    <3> QED BY <3>1, <3>2
  <2>4. Until(h, n + 1) BY <2>2, <2>3
  <2>5. \E k : Until(k, n + 1)
    <3> HIDE DEF h, Until
    <3> QED BY <2>4
  <2>6. n + 1 \in Nat OBVIOUS
  <2> HIDE DEF Until
  <2> QED BY <2>5, <2>6
<1>4. Nat \subseteq P
  <2> HIDE DEF P
  <2> QED BY <1>2, <1>3, SetInduction
<1>5. Cardinality(S) \in P BY <1>1, <1>4
<1>6. PICK g : Until(g, Cardinality(S)) BY <1>5
<1>7. ASSUME NEW d \in SUBSET S PROVE g[d] = Step(g)[d]
  <2>1. Cardinality(d) <= Cardinality(S) BY FS_Subset
  <2> QED BY <1>6, <2>1
<1>8. g = Step(g)
  <2>1. Step(g) = [d \in SUBSET S |-> Step(g)[d]] OBVIOUS
  <2> HIDE DEF Step
  <2> QED BY <1>6, <1>7, <2>1
<1> QED BY <1>8 DEF Keeps

\* What is kept of the first n trades, and of all of them.
LEMMA UnclosedSteps ==
    ASSUME NEW s \in Seq(Trades)
    PROVE  \E k : /\ k[0] = <<>> /\ k[Len(s)] = Unclosed(s)
                  /\ \A n \in 0..(Len(s) - 1) :
                        k[n + 1] = IF s[n + 1].st = "Closed" THEN k[n] ELSE Append(k[n], s[n + 1])
<1>1. DOMAIN s = 1..Len(s) /\ Len(s) \in Nat BY LenProperties
<1>2. IsFiniteSet(DOMAIN s) /\ DOMAIN s \subseteq Int BY <1>1, UpToIsFinite
<1> DEFINE g == CHOOSE g : Keeps(g, s)
<1>3. Keeps(g, s)
  <2>1. \E h : Keeps(h, s) BY <1>2, KeepsExists
  <2> QED BY <2>1
<1>4. Unclosed(s) = g[DOMAIN s] BY DEF Unclosed, FoldLeft, MapThenFoldSet, Keeps
<1> HIDE DEF g
<1> DEFINE k == [n \in 0..Len(s) |-> g[1..n]]
<1>5. k[0] = <<>>
  <2>1. 1..0 = {} /\ {} \in SUBSET (DOMAIN s) OBVIOUS
  <2>2. g[{}] = <<>> BY <1>3, <2>1 DEF Keeps
  <2> QED BY <1>1, <2>1, <2>2
<1>6. k[Len(s)] = Unclosed(s) BY <1>1, <1>4
<1>7. ASSUME NEW n \in 0..(Len(s) - 1)
      PROVE  k[n + 1] = IF s[n + 1].st = "Closed" THEN k[n] ELSE Append(k[n], s[n + 1])
  <2>1. n \in 0..Len(s) /\ n + 1 \in 0..Len(s) /\ n + 1 \in Nat \ {0} BY <1>1
  <2>2. k[n] = g[1..n] /\ k[n + 1] = g[1..(n + 1)] BY <2>1
  <2> DEFINE d == 1..(n + 1)
  <2>3. d \subseteq DOMAIN s /\ d # {}
    <3>1. \A i \in d : i \in 1..Len(s) BY <1>1
    <3>2. 1 \in d BY <2>1
    <3> QED BY <1>1, <3>1, <3>2
  <2>4. Max(d) = n + 1 BY <2>1, MaxUpTo
  <2>5. d \ {n + 1} = 1..n OBVIOUS
  <2> HIDE DEF d, k
  <2>6. g[d] = IF s[Max(d)].st = "Closed" THEN g[d \ {Max(d)}]
               ELSE Append(g[d \ {Max(d)}], s[Max(d)])
    BY <1>3, <2>3 DEF Keeps
  <2>7. k[n + 1] = g[d] BY <2>2 DEF d
  <2> QED BY <2>2, <2>4, <2>5, <2>6, <2>7
<1> HIDE DEF k
<1> QED BY <1>5, <1>6, <1>7

\* No two trades of s have the same take-profit.
TpApart(s) == \A i, j \in DOMAIN s : i # j /\ s[i].tp # 0 => s[i].tp # s[j].tp

\* r has the trades of s among the first n that are not Closed.
KeptOf(r, s, n) ==
    /\ r \in Seq(Trades)
    /\ \A j \in DOMAIN r : r[j].st # "Closed" /\ \E i \in 1..n : r[j] = s[i]
    /\ \A i \in 1..n : s[i].st # "Closed" => \E j \in DOMAIN r : r[j] = s[i]
    /\ TpApart(s) => TpApart(r)

LEMMA KeepOne ==
    ASSUME NEW s \in Seq(Trades), NEW n \in Nat, n + 1 <= Len(s), NEW r, KeptOf(r, s, n)
    PROVE  KeptOf(IF s[n + 1].st = "Closed" THEN r ELSE Append(r, s[n + 1]), s, n + 1)
<1>1. DOMAIN s = 1..Len(s) /\ Len(s) \in Nat /\ n + 1 \in 1..Len(s) BY LenProperties
<1>2. s[n + 1] \in Trades BY <1>1, ElementOfSeq
<1>3. \A i \in 1..(n + 1) : i \in 1..n \/ i = n + 1 OBVIOUS
<1>4. 1..n \subseteq 1..(n + 1) /\ n + 1 \in 1..(n + 1) OBVIOUS
<1>5. CASE s[n + 1].st = "Closed"
  <2>1. \A i \in 1..(n + 1) : s[i].st # "Closed" => i \in 1..n BY <1>3, <1>5
  <2>2. KeptOf(r, s, n + 1) BY <1>4, <2>1 DEF KeptOf
  <2> QED BY <1>5, <2>2
<1>6. CASE s[n + 1].st # "Closed"
  <2> DEFINE q == Append(r, s[n + 1])
  <2>1. r \in Seq(Trades) BY DEF KeptOf
  <2>2. DOMAIN r = 1..Len(r) /\ Len(r) \in Nat BY <2>1, LenProperties
  <2>3. /\ q \in Seq(Trades) /\ DOMAIN q = 1..(Len(r) + 1)
        /\ q[Len(r) + 1] = s[n + 1] /\ \A j \in 1..Len(r) : q[j] = r[j]
    BY <1>2, <2>1
  <2> HIDE DEF q
  <2>4. \A j \in 1..(Len(r) + 1) : j \in 1..Len(r) \/ j = Len(r) + 1 BY <2>2
  <2>5. Len(r) + 1 \in DOMAIN q /\ DOMAIN r \subseteq DOMAIN q BY <2>2, <2>3
  <2>6. ASSUME NEW j \in DOMAIN q
        PROVE  q[j].st # "Closed" /\ \E i \in 1..(n + 1) : q[j] = s[i]
    <3>1. CASE j \in 1..Len(r) BY <1>4, <2>2, <2>3, <3>1 DEF KeptOf
    <3>2. CASE j = Len(r) + 1 BY <1>4, <1>6, <2>3, <3>2
    <3> QED BY <2>3, <2>4, <3>1, <3>2
  <2>7. ASSUME NEW i \in 1..(n + 1), s[i].st # "Closed" PROVE \E j \in DOMAIN q : q[j] = s[i]
    <3>1. CASE i \in 1..n
      <4>1. PICK j \in DOMAIN r : r[j] = s[i] BY <2>7, <3>1 DEF KeptOf
      <4>2. q[j] = s[i] /\ j \in DOMAIN q BY <2>2, <2>3, <2>5, <4>1
      <4> QED BY <4>2
    <3>2. CASE i = n + 1 BY <2>3, <2>5, <3>2
    <3> QED BY <1>3, <3>1, <3>2
  <2>8. TpApart(s) => TpApart(q)
    <3> SUFFICES ASSUME TpApart(s), NEW i \in DOMAIN q, NEW j \in DOMAIN q, i # j, q[i].tp # 0
                 PROVE  q[i].tp # q[j].tp
      BY DEF TpApart
    <3>1. \A m \in 1..Len(r) : r[m].tp = s[n + 1].tp => r[m].tp = 0
      <4> TAKE m \in 1..Len(r)
      <4>1. PICK l \in 1..n : r[m] = s[l] BY <2>2 DEF KeptOf
      <4>2. l # n + 1 /\ l \in DOMAIN s /\ n + 1 \in DOMAIN s BY <1>1
      <4>3. s[l].tp # 0 => s[l].tp # s[n + 1].tp BY <4>2 DEF TpApart
      <4> QED BY <4>1, <4>3
    <3>2. TpApart(r) BY DEF KeptOf
    <3>3. CASE i \in 1..Len(r) /\ j \in 1..Len(r) BY <2>2, <2>3, <3>2, <3>3 DEF TpApart
    <3>4. CASE i \in 1..Len(r) /\ j = Len(r) + 1 BY <2>3, <3>1, <3>4
    <3>5. CASE i = Len(r) + 1 /\ j \in 1..Len(r) BY <2>3, <3>1, <3>5
    <3> QED BY <2>3, <2>4, <3>3, <3>4, <3>5
  <2>9. KeptOf(q, s, n + 1) BY <2>3, <2>6, <2>7, <2>8 DEF KeptOf
  <2> QED BY <1>6, <2>9 DEF q
<1> QED BY <1>5, <1>6

LEMMA UnclosedIs ==
    ASSUME NEW s \in Seq(Trades)
    PROVE  KeptOf(Unclosed(s), s, Len(s))
<1>1. Len(s) \in Nat BY LenProperties
<1>2. PICK k : /\ k[0] = <<>> /\ k[Len(s)] = Unclosed(s)
               /\ \A n \in 0..(Len(s) - 1) :
                     k[n + 1] = IF s[n + 1].st = "Closed" THEN k[n] ELSE Append(k[n], s[n + 1])
  BY UnclosedSteps
<1> DEFINE P == {n \in Nat : n <= Len(s) => KeptOf(k[n], s, n)}
<1>3. 0 \in P
  <2>1. <<>> \in Seq(Trades) /\ DOMAIN <<>> = {} /\ 1..0 = {} OBVIOUS
  <2>2. KeptOf(<<>>, s, 0) BY <2>1 DEF KeptOf, TpApart
  <2> QED BY <1>2, <2>2
<1>4. \A n \in Nat : n \in P => n + 1 \in P
  <2> SUFFICES ASSUME NEW n \in Nat, n \in P, n + 1 <= Len(s) PROVE KeptOf(k[n + 1], s, n + 1)
    OBVIOUS
  <2>1. KeptOf(k[n], s, n) BY <1>1
  <2>2. n \in 0..(Len(s) - 1) BY <1>1
  <2>3. k[n + 1] = IF s[n + 1].st = "Closed" THEN k[n] ELSE Append(k[n], s[n + 1])
    BY <1>2, <2>2
  <2>4. KeptOf(IF s[n + 1].st = "Closed" THEN k[n] ELSE Append(k[n], s[n + 1]), s, n + 1)
    BY <2>1, KeepOne
  <2> QED BY <2>3, <2>4
<1>5. Len(s) \in P
  <2> HIDE DEF P
  <2> QED BY <1>1, <1>3, <1>4, SetInduction
<1>6. KeptOf(k[Len(s)], s, Len(s)) BY <1>1, <1>5
<1> QED BY <1>2, <1>6

\* The numbers h gives to the trades of s.
Of(h, s) == [i \in DOMAIN s |-> h[s[i]]]

LEMMA OfIs ==
    ASSUME NEW h \in [Trades -> Int], NEW s \in Seq(Trades)
    PROVE  /\ Of(h, s) \in Seq(Int) /\ DOMAIN Of(h, s) = DOMAIN s
           /\ \A i \in DOMAIN s : s[i] \in Trades /\ Of(h, s)[i] = h[s[i]]
<1>1. DOMAIN s = 1..Len(s) /\ Len(s) \in Nat /\ \A i \in 1..Len(s) : s[i] \in Trades
  BY LenProperties, ElementOfSeq
<1>2. Of(h, s) \in [1..Len(s) -> Int] BY <1>1 DEF Of
<1>3. Of(h, s) \in Seq(Int)
  <2>1. \A n \in Nat : \A f \in [1..n -> Int] : f \in Seq(Int) BY SMTT(30)
  <2> QED BY <1>1, <1>2, <2>1, Zenon
<1> QED BY <1>1, <1>3 DEF Of

LEMMA OfAppend ==
    ASSUME NEW h \in [Trades -> Int], NEW s \in Seq(Trades), NEW x \in Trades
    PROVE  Total(Of(h, Append(s, x))) = Total(Of(h, s)) + h[x]
<1> DEFINE q == Append(s, x)
<1>1. DOMAIN s = 1..Len(s) /\ Len(s) \in Nat BY LenProperties
<1>2. /\ q \in Seq(Trades) /\ DOMAIN q = 1..(Len(s) + 1)
      /\ q[Len(s) + 1] = x /\ \A i \in 1..Len(s) : q[i] = s[i]
  OBVIOUS
<1> HIDE DEF q
<1>3. h[x] \in Int OBVIOUS
<1>4. /\ Of(h, s) \in Seq(Int) /\ DOMAIN Of(h, s) = 1..Len(s)
      /\ Of(h, q) \in Seq(Int) /\ DOMAIN Of(h, q) = 1..(Len(s) + 1)
      /\ \A i \in 1..Len(s) : Of(h, q)[i] = Of(h, s)[i]
      /\ Of(h, q)[Len(s) + 1] = h[x]
  <2>1. /\ Of(h, s) \in Seq(Int) /\ DOMAIN Of(h, s) = DOMAIN s
        /\ \A i \in DOMAIN s : Of(h, s)[i] = h[s[i]]
    BY OfIs
  <2>2. q \in Seq(Trades) BY <1>2
  <2>3. /\ Of(h, q) \in Seq(Int) /\ DOMAIN Of(h, q) = DOMAIN q
        /\ \A i \in DOMAIN q : Of(h, q)[i] = h[q[i]]
    BY <2>2, OfIs
  <2>4. \A i \in 1..Len(s) : i \in 1..(Len(s) + 1) BY <1>1
  <2>5. ASSUME NEW i \in 1..Len(s) PROVE Of(h, q)[i] = Of(h, s)[i]
    <3>1. i \in DOMAIN s /\ i \in DOMAIN q /\ q[i] = s[i] BY <1>1, <1>2, <2>4
    <3> QED BY <2>1, <2>3, <3>1
  <2>6. Len(s) + 1 \in 1..(Len(s) + 1) BY <1>1
  <2>7. Of(h, q)[Len(s) + 1] = h[x] BY <1>2, <2>3, <2>6
  <2> QED BY <1>1, <1>2, <2>1, <2>3, <2>5, <2>7
<1>5. \A i \in 1..(Len(s) + 1) : Of(h, q)[i] \in Int
  <2>1. Len(Of(h, q)) = Len(s) + 1
    <3>1. Len(Of(h, q)) \in Nat /\ DOMAIN Of(h, q) = 1..Len(Of(h, q)) BY <1>4, LenProperties
    <3> QED BY <1>1, <1>4, <3>1
  <2> QED BY <1>4, <2>1, ElementOfSeq
<1>6. SumOver(Of(h, q), 1..(Len(s) + 1)) = h[x] + SumOver(Of(h, q), 1..Len(s))
  BY <1>1, <1>4, <1>5, SumUpTo
<1>7. SumOver(Of(h, q), 1..Len(s)) = SumOver(Of(h, s), 1..Len(s))
  <2>1. IsFiniteSet(1..Len(s)) BY <1>1, UpToIsFinite
  <2>2. \A i \in 1..Len(s) : Of(h, q)[i] = Of(h, s)[i] BY <1>4
  <2> QED BY <2>1, <2>2, SumSame
<1>8. Total(Of(h, q)) = SumOver(Of(h, q), 1..(Len(s) + 1)) /\ Total(Of(h, s)) = SumOver(Of(h, s), 1..Len(s))
  BY <1>4, TotalIs
<1>9. Total(Of(h, s)) \in Int BY <1>4, TotalInt
<1>10. Total(Of(h, q)) = Total(Of(h, s)) + h[x] BY <1>3, <1>6, <1>7, <1>8, <1>9
<1> QED BY <1>10 DEF q

LEMMA UnclosedSum ==
    ASSUME NEW s \in Seq(Trades), NEW h \in [Trades -> Int],
           \A x \in Trades : x.st = "Closed" => h[x] = 0
    PROVE  Total(Of(h, Unclosed(s))) = Total(Of(h, s))
<1>1. Len(s) \in Nat /\ DOMAIN s = 1..Len(s) BY LenProperties
<1>2. PICK k : /\ k[0] = <<>> /\ k[Len(s)] = Unclosed(s)
               /\ \A n \in 0..(Len(s) - 1) :
                     k[n + 1] = IF s[n + 1].st = "Closed" THEN k[n] ELSE Append(k[n], s[n + 1])
  BY UnclosedSteps
<1> DEFINE P == {n \in Nat : n <= Len(s) =>
                   k[n] \in Seq(Trades) /\ Total(Of(h, k[n])) = SumOver(Of(h, s), 1..n)}
<1>3. 0 \in P
  <2>1. <<>> \in Seq(Trades) /\ DOMAIN <<>> = {} /\ 1..0 = {} OBVIOUS
  <2>2. Of(h, <<>>) = <<>> BY <2>1 DEF Of
  <2>3. Total(Of(h, <<>>)) = 0 /\ SumOver(Of(h, s), {}) = 0 BY <2>2, TotalEmpty, SumEmpty
  <2> QED BY <1>2, <2>1, <2>3
<1>4. \A n \in Nat : n \in P => n + 1 \in P
  <2> SUFFICES ASSUME NEW n \in Nat, n \in P, n + 1 <= Len(s)
               PROVE  /\ k[n + 1] \in Seq(Trades)
                      /\ Total(Of(h, k[n + 1])) = SumOver(Of(h, s), 1..(n + 1))
    OBVIOUS
  <2>1. k[n] \in Seq(Trades) /\ Total(Of(h, k[n])) = SumOver(Of(h, s), 1..n) BY <1>1
  <2>2. n \in 0..(Len(s) - 1) /\ n + 1 \in DOMAIN s BY <1>1
  <2>3. k[n + 1] = IF s[n + 1].st = "Closed" THEN k[n] ELSE Append(k[n], s[n + 1])
    BY <1>2, <2>2
  <2>4. s[n + 1] \in Trades /\ Of(h, s)[n + 1] = h[s[n + 1]] BY <2>2, OfIs
  <2>5. SumOver(Of(h, s), 1..(n + 1)) = h[s[n + 1]] + SumOver(Of(h, s), 1..n)
    <3>1. \A i \in 1..(n + 1) : i \in DOMAIN s BY <1>1
    <3>2. \A i \in 1..(n + 1) : Of(h, s)[i] \in Int BY <3>1, OfIs
    <3> QED BY <2>4, <3>2, SumUpTo
  <2>6. Total(Of(h, k[n])) \in Int /\ h[s[n + 1]] \in Int BY <2>1, <2>4, OfIs, TotalInt
  <2> HIDE DEF P
  <2>7. CASE s[n + 1].st = "Closed"
    <3>1. k[n + 1] = k[n] BY <2>3, <2>7
    <3>2. h[s[n + 1]] = 0 BY <2>4, <2>7
    <3> QED BY <2>1, <2>5, <2>6, <3>1, <3>2
  <2>8. CASE s[n + 1].st # "Closed"
    <3>1. k[n + 1] = Append(k[n], s[n + 1]) BY <2>3, <2>8
    <3>2. Total(Of(h, k[n + 1])) = Total(Of(h, k[n])) + h[s[n + 1]] BY <2>1, <2>4, <3>1, OfAppend
    <3>3. k[n + 1] \in Seq(Trades) BY <2>1, <2>4, <3>1
    <3> QED BY <2>1, <2>5, <2>6, <3>2, <3>3
  <2> QED BY <2>7, <2>8
<1>5. Len(s) \in P
  <2> HIDE DEF P
  <2> QED BY <1>1, <1>3, <1>4, SetInduction
<1>6. Total(Of(h, k[Len(s)])) = SumOver(Of(h, s), 1..Len(s)) BY <1>1, <1>5
<1>7. Total(Of(h, s)) = SumOver(Of(h, s), 1..Len(s)) BY <1>1, TotalIs, OfIs
<1> QED BY <1>2, <1>6, <1>7

-----------------------------------------------------------------------------
(* Types. *)

Pcs == {"idle", "exec", "sync", "cancel", "fetch", "close", "retry", "poll", "final",
        "exited", "down", "orders", "rebuild"}
Mains == [pc : Pcs, todo : SUBSET (Tickers \union (Tickers \X Nat)), tries : [Tickers -> Nat],
          polls : Nat]
Accounts == [real : Int, kill : BOOLEAN, active : [Tickers -> Nat]]
OrdersType == [id : Nat \ {0}, tk : Tickers, type : {"Entry", "Stop", "Tp"}, size : Nat \ {0}]
Disks == {NoState} \union [saved : {TRUE}, acct : Accounts, resetDay : 1..MaxDay,
                           kill : BOOLEAN, trades : [Tickers -> Seq(Trades)]]

TypeInv ==
    /\ day \in 1..MaxDay /\ resetDay \in 1..MaxDay
    /\ main \in Mains
    /\ main.pc \in {"cancel", "close", "retry"} => main.todo \subseteq Tickers
    /\ acct \in Accounts
    /\ trades \in [Tickers -> Seq(Trades)]
    /\ closed \in Seq(Int) /\ queue \in Seq(Int)
    /\ events \in [total : Nat, sinceDrain : Nat]
    /\ orders \in SUBSET OrdersType
    /\ pos \in [Tickers -> Nat]
    /\ disk \in Disks
    /\ kill \in [on : BOOLEAN, file : BOOLEAN]
    /\ used \in [id : Nat, submits : Nat, boots : Nat, faults : Nat]
    /\ tally \in [made : Int, taken : Int]

\* An open trade has a size, a process that is gone has no trades.
Shape ==
    /\ \A t \in Tickers : \A i \in DOMAIN trades[t] : trades[t][i].st = "Open" => trades[t][i].size > 0
    /\ ~Up => /\ trades = NoTrades /\ closed = <<>> /\ queue = <<>>
              /\ tally = [made |-> 0, taken |-> 0]

IdsOf(x) == {x.entry, x.stop, x.tp}

\* The trades of list s are those of ticker t: their ids have been given out,
\* and an open order with one of them is an order of t.
Owned(s, t, given, open) ==
    \A i \in DOMAIN s :
        /\ IdsOf(s[i]) \subseteq 0..given
        /\ \A o \in open : o.id \in IdsOf(s[i]) => o.tk = t

IdsOK ==
    /\ \A o \in orders : o.id <= used.id
    /\ \A o, p \in orders : o.id = p.id => o = p
    /\ \A t \in Tickers : Owned(trades[t], t, used.id, orders)
    /\ disk.saved => \A t \in Tickers : Owned(disk.trades[t], t, used.id, orders)

Inv == TypeInv /\ Shape /\ IdsOK

\* A recovery under way.
Boots == [pos : [Tickers -> Nat], open : SUBSET OrdersType, cancel : SUBSET OrdersType,
          trades : [Tickers -> Seq(Trades)], filled : SUBSET OrdersType]

\* An id of ticker t.
IdAt(n, t) == n \in 0..used.id /\ \A o \in orders : o.id = n => o.tk = t

\* What has been fetched keeps its ids, and the rebuilt trades own theirs.
BootIds ==
    /\ \A o \in boot.open : o.id <= used.id /\ \A p \in orders : p.id = o.id => p.tk = o.tk
    /\ \A o \in boot.filled : o.id <= used.id
    /\ \A t \in Tickers : Owned(boot.trades[t], t, used.id, orders)

\* A position is as it was fetched, but for orders that filled since.
BootPos ==
    \A t \in Tickers :
        /\ boot.pos[t] = pos[t] \/ Missed(t) # {}
        /\ pos[t] > 0 /\ ~(boot.pos[t] > 0) => \E o \in Missed(t) : o.type = "Entry"

\* Every ticker done with has the one trade of the position fetched for it.
BootTrades ==
    \A t \in Tickers :
        /\ boot.trades[t] # <<>> =>
             /\ Len(boot.trades[t]) = 1 /\ boot.trades[t][1].st = "Open"
             /\ boot.trades[t][1].size = boot.pos[t] /\ boot.pos[t] > 0
        /\ main.pc = "rebuild" /\ t \notin main.todo /\ boot.pos[t] > 0 => boot.trades[t] # <<>>

\* The orders of the tickers looked at: fetched, and once their ticker is done
\* with, owned or to be cancelled.
BootSeen ==
    \A o \in orders : o.tk \in Looked(boot.pos) =>
        /\ main.pc = "orders" /\ o.tk \notin main.todo => o \in boot.open
        /\ main.pc = "rebuild" /\ o.tk \in main.todo => o \in boot.open
        /\ main.pc = "rebuild" /\ o.tk \notin main.todo =>
             \/ o \in boot.cancel
             \/ boot.trades[o.tk] # <<>> /\ o.id \in IdsOf(boot.trades[o.tk][1])

BootWell == main.todo \subseteq Tickers /\ boot \in Boots
Underway == BootWell /\ BootIds /\ BootPos /\ BootTrades /\ BootSeen

BootInv == IF Booting THEN Underway ELSE boot = NoBoot

LEMMA InvGivesTypeOK == ASSUME Inv, BootInv PROVE TypeOK
<1>1. \A t \in Tickers : \A i \in DOMAIN trades[t] :
         /\ trades[t][i].st \in {"PendingEntry", "Open", "Closed", "Cancelling"}
         /\ {trades[t][i].entry, trades[t][i].stop, trades[t][i].tp} \subseteq 0..used.id
  <2> SUFFICES ASSUME NEW t \in Tickers, NEW i \in DOMAIN trades[t]
               PROVE  /\ trades[t][i].st \in TradeStates
                      /\ IdsOf(trades[t][i]) \subseteq 0..used.id
    BY DEF TradeStates, IdsOf
  <2>1. trades[t] \in Seq(Trades) BY DEF Inv, TypeInv
  <2>2. trades[t][i] \in Trades BY <2>1, LenProperties, ElementOfSeq
  <2>3. Owned(trades[t], t, used.id, orders) BY DEF Inv, IdsOK
  <2> QED BY <2>2, <2>3 DEF Trades, Owned
<1>2. \A o \in orders : o.id \in 1..used.id /\ o.tk \in Tickers /\ o.size > 0
  <2> SUFFICES ASSUME NEW o \in orders PROVE o.id \in 1..used.id /\ o.tk \in Tickers /\ o.size > 0
    OBVIOUS
  <2>1. o \in OrdersType /\ used.id \in Nat BY DEF Inv, TypeInv
  <2>2. o.id <= used.id BY DEF Inv, IdsOK
  <2> QED BY <2>1, <2>2 DEF OrdersType
<1>3. day \in 1..MaxDay /\ resetDay \in 1..MaxDay /\ pos \in [Tickers -> Nat] /\ main.pc \in Pcs
  BY DEF Inv, TypeInv, Mains
<1>4. ~Up => trades = NoTrades /\ closed = <<>> /\ queue = <<>> BY DEF Inv, Shape
<1>5. ~Booting => boot = NoBoot BY DEF BootInv
<1>6. \A o \in boot.open \cup boot.filled : o.id \in 1..used.id /\ o.tk \in Tickers /\ o.size > 0
  <2>1. CASE ~Booting BY <1>5, <2>1 DEF NoBoot
  <2>2. CASE Booting
    <3> SUFFICES ASSUME NEW o \in boot.open \cup boot.filled
                 PROVE  o.id \in 1..used.id /\ o.tk \in Tickers /\ o.size > 0
      OBVIOUS
    <3>1. Underway /\ used.id \in Nat BY <2>2 DEF BootInv, Inv, TypeInv
    <3>2. o \in OrdersType BY <3>1 DEF Underway, BootWell, Boots
    <3>3. o.id <= used.id BY <3>1 DEF Underway, BootIds
    <3> QED BY <3>1, <3>2, <3>3 DEF OrdersType
  <2> QED BY <2>1, <2>2
<1>7. \A o \in orders \cup boot.open \cup boot.filled :
         o.id \in 1..used.id /\ o.tk \in Tickers /\ o.size > 0
  BY <1>2, <1>6
<1> QED BY <1>1, <1>3, <1>4, <1>5, <1>7 DEF TypeOK, Pcs

LEMMA InitInv == ASSUME Init PROVE Inv /\ PnlConserved
<1>1. <<>> \in Seq(Trades) /\ <<>> \in Seq(Int) /\ DOMAIN <<>> = {} OBVIOUS
<1>2. Total(<<>>) = 0 BY TotalEmpty
<1>3. NoTrades \in [Tickers -> Seq(Trades)] /\ \A t \in Tickers : NoTrades[t] = <<>>
  BY <1>1 DEF NoTrades
<1>4. IdleMain \in Mains /\ IdleMain.pc = "idle" BY DEF IdleMain, Mains, Pcs
<1>5. NewAccount \in Accounts BY DEF NewAccount, Accounts
<1>6. NoState \in Disks /\ NoState.saved = FALSE BY DEF NoState, Disks
<1>7. 1 \in 1..MaxDay BY SessionAssumption
<1>8. TypeInv BY <1>1, <1>3, <1>4, <1>5, <1>6, <1>7 DEF Init, TypeInv
<1>9. Shape BY <1>1, <1>3, <1>4 DEF Init, Shape, Up
<1>10. IdsOK BY <1>1, <1>3, <1>6 DEF Init, IdsOK, Owned
<1>11. PnlConserved BY <1>2 DEF Init, PnlConserved
<1> QED BY <1>8, <1>9, <1>10, <1>11 DEF Inv

LEMMA InitBoot == ASSUME Init PROVE BootInv
<1>1. main = IdleMain /\ boot = NoBoot BY DEF Init
<1>2. IdleMain.pc = "idle" BY DEF IdleMain
<1> QED BY <1>1, <1>2 DEF BootInv, Booting

-----------------------------------------------------------------------------
(* What a step does to ids. *)

\* The ids of the trades after a step are old ones of their ticker, of its
\* open orders, or have been given out by the step.
IdFrom(n, t) ==
    \/ n = 0
    \/ \E j \in DOMAIN trades[t] : n \in IdsOf(trades[t][j])
    \/ disk.saved /\ \E j \in DOMAIN disk.trades[t] : n \in IdsOf(disk.trades[t][j])
    \/ \E o \in orders : o.id = n /\ o.tk = t

LEMMA IdsStep ==
    ASSUME TypeInv, IdsOK, used'.id \in Nat, used.id <= used'.id, disk' = disk,
           \A o \in orders' : o \in orders \/ (o.id \in (used.id + 1)..used'.id),
           \A o, p \in orders' \ orders : o.id = p.id => o = p,
           \A t \in Tickers : \A i \in DOMAIN trades'[t] : \A n \in IdsOf(trades'[t][i]) :
              \/ IdFrom(n, t)
              \/ n \in (used.id + 1)..used'.id /\ \A o \in orders' \ orders : o.id = n => o.tk = t
    PROVE  IdsOK'
<1>1. used.id \in Nat /\ \A o \in orders : o.id \in Nat /\ o.id > 0 BY SMTT(30) DEF TypeInv, OrdersType
<1>2. \A o \in orders : o.id <= used.id BY DEF IdsOK
<1>3. \A o \in orders' \ orders : o.id > used.id /\ o.id <= used'.id BY <1>1
<1>4. \A o \in orders' : o.id <= used'.id BY <1>1, <1>2
<1>5. \A o, p \in orders' : o.id = p.id => o = p
  <2> SUFFICES ASSUME NEW o \in orders', NEW p \in orders', o.id = p.id PROVE o = p OBVIOUS
  <2>1. CASE o \in orders /\ p \in orders BY <2>1 DEF IdsOK
  <2>2. CASE o \notin orders /\ p \notin orders BY <2>2
  <2>3. CASE o \in orders /\ p \notin orders BY <1>1, <1>2, <1>3, <2>3
  <2>4. CASE o \notin orders /\ p \in orders BY <1>1, <1>2, <1>3, <2>4
  <2> QED BY <2>1, <2>2, <2>3, <2>4
<1>6. ASSUME NEW t \in Tickers, NEW n, IdFrom(n, t)
      PROVE  n \in 0..used'.id /\ \A o \in orders' : o.id = n => o.tk = t
  <2>1. n \in 0..used.id /\ \A o \in orders : o.id = n => o.tk = t
    <3>1. CASE n = 0 BY <1>1, <3>1
    <3>2. CASE \E j \in DOMAIN trades[t] : n \in IdsOf(trades[t][j])
      BY <3>2 DEF IdsOK, Owned
    <3>3. CASE disk.saved /\ \E j \in DOMAIN disk.trades[t] : n \in IdsOf(disk.trades[t][j])
      BY <3>3 DEF IdsOK, Owned
    <3>4. CASE \E o \in orders : o.id = n /\ o.tk = t
      <4>1. PICK p \in orders : p.id = n /\ p.tk = t BY <3>4
      <4>2. \A o \in orders : o.id = n => o = p BY <4>1 DEF IdsOK
      <4>3. n \in 0..used.id BY <1>1, <1>2, <4>1
      <4> QED BY <4>1, <4>2, <4>3
    <3> QED BY <1>6, <3>1, <3>2, <3>3, <3>4 DEF IdFrom
  <2>2. \A o \in orders' \ orders : o.id # n BY <1>1, <1>3, <2>1
  <2>3. n \in 0..used'.id BY <1>1, <2>1
  <2> QED BY <2>1, <2>2, <2>3
<1>7. ASSUME NEW t \in Tickers PROVE Owned(trades'[t], t, used'.id, orders')
  <2> SUFFICES ASSUME NEW i \in DOMAIN trades'[t], NEW n \in IdsOf(trades'[t][i])
               PROVE  n \in 0..used'.id /\ \A o \in orders' : o.id = n => o.tk = t
    BY DEF Owned
  <2>1. CASE IdFrom(n, t) BY <1>6, <2>1
  <2>2. CASE /\ n \in (used.id + 1)..used'.id
             /\ \A o \in orders' \ orders : o.id = n => o.tk = t
    <3>1. \A o \in orders : o.id # n BY <1>1, <1>2, <2>2
    <3>2. n \in 0..used'.id BY <1>1, <2>2
    <3> QED BY <2>2, <3>1, <3>2
  <2> QED BY <2>1, <2>2
<1>8. ASSUME NEW t \in Tickers, disk.saved PROVE Owned(disk.trades[t], t, used'.id, orders')
  <2> SUFFICES ASSUME NEW i \in DOMAIN disk.trades[t], NEW n \in IdsOf(disk.trades[t][i])
               PROVE  n \in 0..used'.id /\ \A o \in orders' : o.id = n => o.tk = t
    BY DEF Owned
  <2>1. IdFrom(n, t) BY <1>8 DEF IdFrom
  <2> QED BY <1>6, <2>1
<1> QED BY <1>4, <1>5, <1>7, <1>8 DEF IdsOK

\* Fewer orders, and no new ids.
LEMMA IdsFewer ==
    ASSUME TypeInv, IdsOK, used'.id = used.id, disk' = disk, orders' \subseteq orders,
           \A t \in Tickers : \A i \in DOMAIN trades'[t] : \A n \in IdsOf(trades'[t][i]) : IdFrom(n, t)
    PROVE  IdsOK'
<1>1. used.id \in Nat BY DEF TypeInv
<1> QED BY <1>1, IdsStep

LEMMA ReplaceIs ==
    ASSUME NEW s \in Seq(Trades), NEW i \in DOMAIN s, NEW y \in Trades
    PROVE  /\ [s EXCEPT ![i] = y] \in Seq(Trades) /\ DOMAIN [s EXCEPT ![i] = y] = DOMAIN s
           /\ [s EXCEPT ![i] = y][i] = y
           /\ \A j \in DOMAIN s : j # i => [s EXCEPT ![i] = y][j] = s[j]
<1>1. DOMAIN s = 1..Len(s) /\ Len(s) \in Nat /\ s \in [1..Len(s) -> Trades] BY LenProperties
<1>2. [s EXCEPT ![i] = y] \in [1..Len(s) -> Trades] BY <1>1
<1>3. [1..Len(s) -> Trades] \subseteq Seq(Trades) BY <1>1
<1> QED BY <1>1, <1>2, <1>3

LEMMA PutTrades ==
    ASSUME TypeInv, NEW t \in Tickers, NEW r \in Seq(Trades), trades' = [trades EXCEPT ![t] = r]
    PROVE  /\ trades' \in [Tickers -> Seq(Trades)] /\ trades'[t] = r
           /\ \A u \in Tickers : u # t => trades'[u] = trades[u]
BY DEF TypeInv

LEMMA TradeIs ==
    ASSUME TypeInv, NEW t \in Tickers
    PROVE  /\ trades[t] \in Seq(Trades) /\ Len(trades[t]) \in Nat /\ DOMAIN trades[t] = 1..Len(trades[t])
           /\ \A i \in DOMAIN trades[t] : trades[t][i] \in Trades
<1>1. trades[t] \in Seq(Trades) BY DEF TypeInv
<1> QED BY <1>1, LenProperties, ElementOfSeq

LEMMA OwnIdFrom ==
    ASSUME NEW t, NEW j \in DOMAIN trades[t], NEW n \in IdsOf(trades[t][j])
    PROVE  IdFrom(n, t)
BY DEF IdFrom

-----------------------------------------------------------------------------
(* The exchange and the executor. *)

\* Nothing the account counts changes.
LEMMA PnlSame ==
    ASSUME PnlConserved, Up, UNCHANGED <<closed, queue, tally>>
    PROVE  PnlConserved'
BY DEF PnlConserved

LEMMA SubmitKeeps ==
    ASSUME Inv, PnlConserved, NEW t \in Tickers, Submit(t)
    PROVE  Inv' /\ PnlConserved'
<1> USE DEF Inv
<1>1. Up /\ UNCHANGED <<day, main, acct, resetDay, closed, queue, events, pos, disk, kill, tally>>
  BY DEF Submit
<1> DEFINE x == [st |-> "PendingEntry", entry |-> used.id + 1, stop |-> 0, tp |-> 0, size |-> 0]
           r == Append(trades[t], x)
           new == Order(used.id + 1, t, "Entry", Lots)
<1>2. /\ trades' = [trades EXCEPT ![t] = r] /\ orders' = orders \union {new}
      /\ used' = [used EXCEPT !.id = @ + 1, !.submits = @ + 1]
  BY DEF Submit
<1>3. used.id \in Nat /\ used'.id = used.id + 1
      /\ used' \in [id : Nat, submits : Nat, boots : Nat, faults : Nat]
  <2>1. used \in [id : Nat, submits : Nat, boots : Nat, faults : Nat] BY DEF TypeInv
  <2>2. used' = [used EXCEPT !.id = used.id + 1, !.submits = used.submits + 1] BY <1>2
  <2>3. used.id \in Nat /\ used.submits \in Nat BY <2>1
  <2>4. used.id + 1 \in Nat /\ used.submits + 1 \in Nat BY <2>3
  <2>5. used'.id = used.id + 1 BY <2>1, <2>2
  <2>6. used' \in [id : Nat, submits : Nat, boots : Nat, faults : Nat] BY <2>1, <2>2, <2>4
  <2> QED BY <2>3, <2>5, <2>6
<1>4. x \in Trades /\ x.st = "PendingEntry" /\ IdsOf(x) = {used.id + 1, 0}
  BY <1>3 DEF Trades, TradeStates, IdsOf
<1>5. new \in OrdersType /\ new.id = used.id + 1 /\ new.tk = t BY <1>3 DEF Order, OrdersType, Lots
<1> HIDE DEF x, new
<1>6. /\ r \in Seq(Trades) /\ DOMAIN r = 1..(Len(trades[t]) + 1) /\ r[Len(trades[t]) + 1] = x
      /\ \A i \in DOMAIN trades[t] : r[i] = trades[t][i]
      /\ \A i \in DOMAIN r : i \in DOMAIN trades[t] \/ i = Len(trades[t]) + 1
  BY <1>4, TradeIs
<1> HIDE DEF r
<1>7. /\ trades' \in [Tickers -> Seq(Trades)] /\ trades'[t] = r
      /\ \A u \in Tickers : u # t => trades'[u] = trades[u]
  BY <1>2, <1>6, PutTrades
<1>8. TypeInv' BY <1>1, <1>2, <1>3, <1>5, <1>7 DEF TypeInv
<1>9. Shape'
  <2>1. Up' BY <1>1 DEF Up
  <2>2. ASSUME NEW u \in Tickers, NEW i \in DOMAIN trades'[u], trades'[u][i].st = "Open"
        PROVE  trades'[u][i].size > 0
    <3>1. CASE u # t BY <1>7, <2>2, <3>1 DEF Shape
    <3>2. CASE u = t
      <4>1. i \in DOMAIN trades[t] /\ trades'[u][i] = trades[t][i] BY <1>4, <1>6, <1>7, <2>2, <3>2
      <4> QED BY <2>2, <4>1 DEF Shape
    <3> QED BY <3>1, <3>2
  <2> QED BY <2>1, <2>2 DEF Shape
<1>10. IdsOK'
  <2>1. ASSUME NEW u \in Tickers, NEW i \in DOMAIN trades'[u], NEW n \in IdsOf(trades'[u][i])
        PROVE  \/ IdFrom(n, u)
               \/ n \in (used.id + 1)..used'.id /\ \A o \in orders' \ orders : o.id = n => o.tk = u
    <3>1. CASE u # t BY <1>7, <2>1, <3>1, OwnIdFrom
    <3>2. CASE u = t /\ i \in DOMAIN trades[t] BY <1>6, <1>7, <2>1, <3>2, OwnIdFrom
    <3>3. CASE u = t /\ i = Len(trades[t]) + 1
      <4>1. n = 0 \/ n = used.id + 1 BY <1>4, <1>6, <1>7, <2>1, <3>3
      <4> QED BY <1>2, <1>3, <1>5, <3>3, <4>1 DEF IdFrom
    <3> QED BY <1>6, <1>7, <2>1, <3>1, <3>2, <3>3
  <2>2. \A o \in orders' : o \in orders \/ o.id \in (used.id + 1)..used'.id BY <1>2, <1>3, <1>5
  <2>3. \A o, p \in orders' \ orders : o.id = p.id => o = p BY <1>2
  <2>4. disk' = disk /\ used'.id \in Nat /\ used.id <= used'.id BY <1>1, <1>3
  <2> QED BY <2>1, <2>2, <2>3, <2>4, IdsStep
<1> QED BY <1>1, <1>8, <1>9, <1>10, PnlSame

LEMMA UsedIs ==
    ASSUME TypeInv
    PROVE  /\ used \in [id : Nat, submits : Nat, boots : Nat, faults : Nat]
           /\ used.id \in Nat /\ used.faults \in Nat
BY DEF TypeInv

\* Ids are given out, and perhaps a call fails.
LEMMA UsedMore ==
    ASSUME TypeInv, NEW a \in Nat, NEW b \in Nat,
           used' = [used EXCEPT !.id = used.id + a, !.faults = used.faults + b]
    PROVE  /\ used' \in [id : Nat, submits : Nat, boots : Nat, faults : Nat]
           /\ used'.id = used.id + a /\ used'.boots = used.boots
<1>1. used.id + a \in Nat /\ used.faults + b \in Nat BY UsedIs
<1>2. used \in [id : Nat, submits : Nat, boots : Nat, faults : Nat] BY UsedIs
<1> QED BY <1>1, <1>2

LEMMA UsedIds ==
    ASSUME TypeInv, NEW a \in Nat, used' = [used EXCEPT !.id = used.id + a]
    PROVE  /\ used' \in [id : Nat, submits : Nat, boots : Nat, faults : Nat]
           /\ used'.id = used.id + a /\ used'.boots = used.boots
<1>1. used.id + a \in Nat BY UsedIs
<1>2. used \in [id : Nat, submits : Nat, boots : Nat, faults : Nat] BY UsedIs
<1> QED BY <1>1, <1>2

LEMMA FailIs ==
    ASSUME TypeInv, NEW ok \in BOOLEAN, Fail(ok)
    PROVE  /\ used' \in [id : Nat, submits : Nat, boots : Nat, faults : Nat]
           /\ used'.id = used.id /\ used'.boots = used.boots
<1>1. used' = [used EXCEPT !.faults = IF ok THEN @ ELSE @ + 1] BY DEF Fail
<1>2. used \in [id : Nat, submits : Nat, boots : Nat, faults : Nat] BY UsedIs
<1>3. CASE ok
  <2>1. used' = [used EXCEPT !.faults = @] BY <1>1, <1>3
  <2>2. used' = used BY <1>2, <2>1
  <2> QED BY <1>2, <2>2
<1>4. CASE ~ok
  <2>1. used' = [used EXCEPT !.faults = used.faults + 1] BY <1>1, <1>4
  <2>2. used.faults + 1 \in Nat BY <1>2
  <2> QED BY <1>2, <2>1, <2>2
<1> QED BY <1>3, <1>4

\* One trade is replaced.
LEMMA SwapIs ==
    ASSUME TypeInv, Shape, NEW t \in Tickers, NEW i \in DOMAIN trades[t], NEW y \in Trades,
           trades' = [trades EXCEPT ![t] = [trades[t] EXCEPT ![i] = y]],
           y.st = "Open" => y.size > 0, Up'
    PROVE  /\ trades' \in [Tickers -> Seq(Trades)] /\ Shape'
           /\ trades'[t][i] = y /\ DOMAIN trades'[t] = DOMAIN trades[t]
           /\ \A j \in DOMAIN trades[t] : j # i => trades'[t][j] = trades[t][j]
           /\ \A u \in Tickers : u # t => trades'[u] = trades[u]
<1> DEFINE r == [trades[t] EXCEPT ![i] = y]
<1>1. /\ r \in Seq(Trades) /\ DOMAIN r = DOMAIN trades[t] /\ r[i] = y
      /\ \A j \in DOMAIN trades[t] : j # i => r[j] = trades[t][j]
  BY TradeIs, ReplaceIs
<1> HIDE DEF r
<1>2. trades' = [trades EXCEPT ![t] = r] BY DEF r
<1>3. /\ trades' \in [Tickers -> Seq(Trades)] /\ trades'[t] = r
      /\ \A u \in Tickers : u # t => trades'[u] = trades[u]
  BY <1>1, <1>2, PutTrades
<1>5. ASSUME NEW u \in Tickers, NEW j \in DOMAIN trades'[u], trades'[u][j].st = "Open"
      PROVE  trades'[u][j].size > 0
  <2>1. CASE u # t BY <1>3, <1>5, <2>1 DEF Shape
  <2>2. CASE u = t /\ j # i BY <1>1, <1>3, <1>5, <2>2 DEF Shape
  <2>3. CASE u = t /\ j = i BY <1>1, <1>3, <1>5, <2>3
  <2> QED BY <2>1, <2>2, <2>3
<1> QED BY <1>1, <1>3, <1>5 DEF Shape

\* So the ids are as before but those of the new trade.
LEMMA SwapIds ==
    ASSUME NEW t \in Tickers, NEW i \in DOMAIN trades[t], NEW Q,
           DOMAIN trades'[t] = DOMAIN trades[t],
           \A j \in DOMAIN trades[t] : j # i => trades'[t][j] = trades[t][j],
           \A u \in Tickers : u # t => trades'[u] = trades[u],
           \A n \in IdsOf(trades'[t][i]) : IdFrom(n, t) \/ n \in Q
    PROVE  \A u \in Tickers : \A j \in DOMAIN trades'[u] : \A n \in IdsOf(trades'[u][j]) :
              IdFrom(n, u) \/ (u = t /\ n \in Q)
<1> SUFFICES ASSUME NEW u \in Tickers, NEW j \in DOMAIN trades'[u], NEW n \in IdsOf(trades'[u][j])
             PROVE  IdFrom(n, u) \/ (u = t /\ n \in Q)
  OBVIOUS
<1>1. CASE u # t BY <1>1, OwnIdFrom
<1>2. CASE u = t /\ j # i BY <1>2, OwnIdFrom
<1>3. CASE u = t /\ j = i BY <1>3
<1> QED BY <1>1, <1>2, <1>3

LEMMA OrderIs ==
    ASSUME NEW n \in Nat \ {0}, NEW t \in Tickers, NEW k \in {"Entry", "Stop", "Tp"},
           NEW z \in Nat \ {0}
    PROVE  /\ Order(n, t, k, z) \in OrdersType
           /\ Order(n, t, k, z).id = n /\ Order(n, t, k, z).tk = t
           /\ Order(n, t, k, z).type = k /\ Order(n, t, k, z).size = z
BY DEF Order, OrdersType

LEMMA UnseenFillKeeps ==
    ASSUME Inv, PnlConserved, NEW o \in orders, UnseenFill(o)
    PROVE  Inv' /\ PnlConserved'
<1> USE DEF Inv
<1>1. /\ UNCHANGED <<day, main, acct, resetDay, trades, closed, queue, events, disk, kill, used, tally>>
      /\ orders' = orders \ {o}
      /\ pos' = [pos EXCEPT ![o.tk] = IF o.type = "Entry" THEN @ + o.size
                                      ELSE IF o.size > @ THEN 0 ELSE @ - o.size]
  BY DEF UnseenFill, executor
<1>2. o.tk \in Tickers /\ o.size \in Nat /\ pos[o.tk] \in Nat BY DEF TypeInv, OrdersType
<1>3. (IF o.type = "Entry" THEN pos[o.tk] + o.size
       ELSE IF o.size > pos[o.tk] THEN 0 ELSE pos[o.tk] - o.size) \in Nat
  BY <1>2
<1>4. pos' \in [Tickers -> Nat] BY <1>1, <1>3 DEF TypeInv
<1>5. TypeInv' BY <1>1, <1>4 DEF TypeInv
<1>6. Shape' /\ PnlConserved' BY <1>1 DEF Shape, PnlConserved, Up
<1>7. IdsOK'
  <2>1. \A t \in Tickers : \A i \in DOMAIN trades'[t] : \A n \in IdsOf(trades'[t][i]) : IdFrom(n, t)
    BY <1>1, OwnIdFrom
  <2>2. used'.id = used.id /\ disk' = disk /\ orders' \subseteq orders BY <1>1
  <2> QED BY <2>1, <2>2, IdsFewer
<1> QED BY <1>5, <1>6, <1>7

\* An entry fills, with both new orders placed or with none.
LEMMA EntryFillDoes ==
    ASSUME TypeInv, Shape, NEW o \in orders, EntryFill(o)
    PROVE  /\ o.type = "Entry" /\ Up /\ o.tk \in Tickers
           /\ UNCHANGED <<day, main, acct, resetDay, closed, queue, events, disk, kill, tally>>
           /\ pos' = [pos EXCEPT ![o.tk] = @ + Lots]
           /\ \E i \in Owners(o, "PendingEntry"), m \in {0, 2} :
                LET y == [trades[o.tk][i] EXCEPT !.st = "Open", !.size = Lots,
                             !.stop = IF m = 2 THEN used.id + 1 ELSE 0,
                             !.tp = IF m = 2 THEN used.id + 2 ELSE 0]
                IN  /\ i \in DOMAIN trades[o.tk]
                    /\ used' \in [id : Nat, submits : Nat, boots : Nat, faults : Nat]
                    /\ used'.id = used.id + m /\ used'.boots = used.boots
                    /\ orders' = (orders \ {o}) \union
                         (IF m = 2 THEN {Order(used.id + 1, o.tk, "Stop", Lots),
                                         Order(used.id + 2, o.tk, "Tp", 1)} ELSE {})
                    /\ y \in Trades
                    /\ y.st = "Open" /\ y.size = Lots /\ y.entry = trades[o.tk][i].entry
                    /\ y.stop = IF m = 2 THEN used.id + 1 ELSE 0
                    /\ y.tp = IF m = 2 THEN used.id + 2 ELSE 0
                    /\ trades' = [trades EXCEPT ![o.tk] = [trades[o.tk] EXCEPT ![i] = y]]
<1>1. o.tk \in Tickers BY DEF TypeInv, OrdersType
<1>2. PICK i \in Owners(o, "PendingEntry"), ok \in BOOLEAN :
         /\ ok \/ Mishap
         /\ used' = [used EXCEPT !.id = @ + (IF ok THEN 2 ELSE 0),
                                 !.faults = @ + (IF ok THEN 0 ELSE 1)]
         /\ orders' = (orders \ {o}) \cup
              (IF ok THEN {Order(used.id + 1, o.tk, "Stop", Lots), Order(used.id + 2, o.tk, "Tp", 1)}
                     ELSE {})
         /\ trades' = [trades EXCEPT ![o.tk][i] =
              [@ EXCEPT !.st = "Open", !.size = Lots,
                        !.stop = IF ok THEN used.id + 1 ELSE 0,
                        !.tp = IF ok THEN used.id + 2 ELSE 0]]
  BY DEF EntryFill
<1> DEFINE m == IF ok THEN 2 ELSE 0
           x == trades[o.tk][i]
           y == [x EXCEPT !.st = "Open", !.size = Lots,
                             !.stop = IF m = 2 THEN used.id + 1 ELSE 0,
                             !.tp = IF m = 2 THEN used.id + 2 ELSE 0]
<1>3. Up /\ i \in DOMAIN trades[o.tk] BY DEF Owners
<1>4. x \in Trades BY <1>1, <1>3, TradeIs
<1>5. m \in {0, 2} /\ (m = 2 <=> ok) OBVIOUS
<1>6. /\ used' \in [id : Nat, submits : Nat, boots : Nat, faults : Nat]
      /\ used'.id = used.id + m /\ used'.boots = used.boots
  <2> DEFINE b == IF ok THEN 0 ELSE 1
  <2>1. used' = [used EXCEPT !.id = used.id + m, !.faults = used.faults + b] BY <1>2
  <2>2. m \in Nat /\ b \in Nat OBVIOUS
  <2> HIDE DEF m, b
  <2> QED BY <2>1, <2>2, UsedMore
<1>7. used.id + 1 \in Nat /\ used.id + 2 \in Nat BY UsedIs
<1>8. /\ y \in Trades /\ y.st = "Open" /\ y.size = Lots /\ y.entry = x.entry
      /\ y.stop = IF m = 2 THEN used.id + 1 ELSE 0
      /\ y.tp = IF m = 2 THEN used.id + 2 ELSE 0
  <2> DEFINE p == IF m = 2 THEN used.id + 1 ELSE 0
             q == IF m = 2 THEN used.id + 2 ELSE 0
  <2>1. p \in Nat /\ q \in Nat BY <1>7
  <2> HIDE DEF m, p, q, x
  <2>2. [x EXCEPT !.st = "Open", !.size = Lots, !.stop = p, !.tp = q] \in Trades
    BY <1>4, <2>1 DEF Trades, TradeStates, Lots
  <2>3. LET z == [x EXCEPT !.st = "Open", !.size = Lots, !.stop = p, !.tp = q]
        IN  z.st = "Open" /\ z.size = Lots /\ z.entry = x.entry /\ z.stop = p /\ z.tp = q
    BY <1>4 DEF Trades
  <2> QED BY <2>2, <2>3 DEF p, q
<1>9. trades' = [trades EXCEPT ![o.tk] = [trades[o.tk] EXCEPT ![i] = y]]
  BY <1>2, <1>5
<1>10. orders' = (orders \ {o}) \union
         (IF m = 2 THEN {Order(used.id + 1, o.tk, "Stop", Lots), Order(used.id + 2, o.tk, "Tp", 1)}
          ELSE {})
  BY <1>2, <1>5
<1>11. /\ o.type = "Entry" /\ pos' = [pos EXCEPT ![o.tk] = @ + Lots]
       /\ UNCHANGED <<day, main, acct, resetDay, closed, queue, events, disk, kill, tally>>
  BY DEF EntryFill
<1> HIDE DEF m
<1> QED BY <1>1, <1>3, <1>5, <1>6, <1>8, <1>9, <1>10, <1>11

LEMMA EntryFillKeeps ==
    ASSUME Inv, PnlConserved, NEW o \in orders, EntryFill(o)
    PROVE  Inv' /\ PnlConserved'
<1> USE DEF Inv
<1> DEFINE t == o.tk
           Y(i, m) == [trades[t][i] EXCEPT !.st = "Open", !.size = Lots,
                             !.stop = IF m = 2 THEN used.id + 1 ELSE 0,
                             !.tp = IF m = 2 THEN used.id + 2 ELSE 0]
<1>1. /\ Up /\ t \in Tickers
      /\ UNCHANGED <<day, main, acct, resetDay, closed, queue, events, disk, kill, tally>>
      /\ pos' = [pos EXCEPT ![t] = @ + Lots]
  BY EntryFillDoes
<1>2. PICK i \in Owners(o, "PendingEntry"), m \in {0, 2} :
         /\ i \in DOMAIN trades[t]
         /\ used' \in [id : Nat, submits : Nat, boots : Nat, faults : Nat]
         /\ used'.id = used.id + m /\ used'.boots = used.boots
         /\ orders' = (orders \ {o}) \union
              (IF m = 2 THEN {Order(used.id + 1, t, "Stop", Lots),
                              Order(used.id + 2, t, "Tp", 1)} ELSE {})
         /\ Y(i, m) \in Trades
         /\ Y(i, m).st = "Open" /\ Y(i, m).size = Lots /\ Y(i, m).entry = trades[t][i].entry
         /\ Y(i, m).stop = IF m = 2 THEN used.id + 1 ELSE 0
         /\ Y(i, m).tp = IF m = 2 THEN used.id + 2 ELSE 0
         /\ trades' = [trades EXCEPT ![t] = [trades[t] EXCEPT ![i] = Y(i, m)]]
  BY EntryFillDoes
<1> DEFINE y == Y(i, m)
<1>3. /\ y \in Trades /\ y.st = "Open" /\ y.size = Lots /\ y.entry = trades[t][i].entry
      /\ y.stop = IF m = 2 THEN used.id + 1 ELSE 0
      /\ y.tp = IF m = 2 THEN used.id + 2 ELSE 0
      /\ trades' = [trades EXCEPT ![t] = [trades[t] EXCEPT ![i] = y]]
  BY <1>2
<1> HIDE DEF y, Y
<1>4. /\ trades' \in [Tickers -> Seq(Trades)] /\ Shape'
      /\ trades'[t][i] = y /\ DOMAIN trades'[t] = DOMAIN trades[t]
      /\ \A j \in DOMAIN trades[t] : j # i => trades'[t][j] = trades[t][j]
      /\ \A u \in Tickers : u # t => trades'[u] = trades[u]
  <2>1. y.st = "Open" => y.size > 0 BY <1>3 DEF Lots
  <2>2. Up' /\ t \in Tickers /\ TypeInv /\ Shape BY <1>1 DEF Up
  <2>3. i \in DOMAIN trades[t] BY <1>2
  <2> HIDE DEF t, Inv
  <2> QED BY <1>3, <2>1, <2>2, <2>3, SwapIs
<1>5. used.id \in Nat /\ used'.id \in Nat /\ used.id <= used'.id BY <1>2, UsedIs
<1> DEFINE a == Order(used.id + 1, t, "Stop", Lots)
           b == Order(used.id + 2, t, "Tp", 1)
<1>6. /\ a \in OrdersType /\ a.id = used.id + 1 /\ a.tk = t
      /\ b \in OrdersType /\ b.id = used.id + 2 /\ b.tk = t
  <2>1. used.id + 1 \in Nat \ {0} /\ used.id + 2 \in Nat \ {0} /\ Lots \in Nat \ {0} BY <1>5 DEF Lots
  <2>2. t \in Tickers BY <1>1
  <2>3. a \in OrdersType /\ a.id = used.id + 1 /\ a.tk = t BY <2>1, <2>2, OrderIs
  <2>4. b \in OrdersType /\ b.id = used.id + 2 /\ b.tk = t BY <2>1, <2>2, OrderIs
  <2> QED BY <2>3, <2>4
<1>7. orders' = (orders \ {o}) \union (IF m = 2 THEN {a, b} ELSE {}) BY <1>2
<1> HIDE DEF a, b
<1>8. pos' \in [Tickers -> Nat]
  <2>1. pos[t] + Lots \in Nat BY <1>1, SMTT(30) DEF TypeInv, Lots
  <2> HIDE DEF t
  <2> QED BY <1>1, <2>1 DEF TypeInv
<1>9. orders' \in SUBSET OrdersType BY <1>6, <1>7 DEF TypeInv
<1>10. TypeInv' BY <1>1, <1>2, <1>4, <1>8, <1>9 DEF TypeInv
<1>11. IdsOK'
  <2> DEFINE Q == IF m = 2 THEN {used.id + 1, used.id + 2} ELSE {}
  <2>1. \A n \in IdsOf(trades'[t][i]) : IdFrom(n, t) \/ n \in Q
    <3> SUFFICES ASSUME NEW n \in IdsOf(y) PROVE IdFrom(n, t) \/ n \in Q BY <1>4
    <3>1. n = trades[t][i].entry \/ n = 0 \/ n \in Q BY <1>3 DEF IdsOf
    <3>2. IdFrom(trades[t][i].entry, t) /\ IdFrom(0, t) BY <1>2 DEF IdFrom, IdsOf
    <3> QED BY <3>1, <3>2
  <2>2. \A u \in Tickers : \A j \in DOMAIN trades'[u] : \A n \in IdsOf(trades'[u][j]) :
           IdFrom(n, u) \/ (u = t /\ n \in Q)
    <3> HIDE DEF t, Q
    <3> QED BY <1>1, <1>2, <1>4, <2>1, SwapIds
  <2>3. \A x \in orders' \ orders : x.tk = t BY <1>6, <1>7
  <2>4. Q \subseteq (used.id + 1)..used'.id BY <1>2, <1>5
  <2>5. \A x \in orders' : x \in orders \/ x.id \in (used.id + 1)..used'.id BY <1>2, <1>5, <1>6, <1>7
  <2>6. \A x, z \in orders' \ orders : x.id = z.id => x = z
    <3>1. a.id # b.id BY <1>5, <1>6
    <3>2. orders' \ orders \subseteq {a, b} BY <1>7
    <3> QED BY <3>1, <3>2
  <2>7. disk' = disk BY <1>1
  <2> HIDE DEF t, Q
  <2>8. \A u \in Tickers : \A j \in DOMAIN trades'[u] : \A n \in IdsOf(trades'[u][j]) :
           \/ IdFrom(n, u)
           \/ n \in (used.id + 1)..used'.id /\ \A x \in orders' \ orders : x.id = n => x.tk = u
    BY <2>2, <2>3, <2>4
  <2> QED BY <1>5, <2>5, <2>6, <2>7, <2>8, IdsStep
<1>12. PnlConserved' BY <1>1, PnlSame
<1> QED BY <1>4, <1>10, <1>11, <1>12

LEMMA StopFillDoes ==
    ASSUME TypeInv, Shape, NEW o \in orders, StopFill(o)
    PROVE  /\ o.type = "Stop" /\ Up /\ o.tk \in Tickers
           /\ UNCHANGED <<day, main, acct, resetDay, queue, events, disk, kill, used>>
           /\ orders' = orders \ {o}
           /\ pos' = [pos EXCEPT ![o.tk] = IF o.size > @ THEN 0 ELSE @ - o.size]
           /\ pos' \in [Tickers -> Nat]
           /\ \E i \in Owners(o, "Open"), p \in Profits :
                LET y == [trades[o.tk][i] EXCEPT !.st = "Closed"]
                IN  /\ i \in DOMAIN trades[o.tk]
                    /\ y \in Trades /\ y.st = "Closed" /\ IdsOf(y) = IdsOf(trades[o.tk][i])
                    /\ y.tp = trades[o.tk][i].tp
                    /\ trades' = [trades EXCEPT ![o.tk] = [trades[o.tk] EXCEPT ![i] = y]]
                    /\ closed' = Append(closed, p)
                    /\ tally' = [tally EXCEPT !.made = @ + p]
<1>1. o.tk \in Tickers /\ o.size \in Nat /\ pos[o.tk] \in Nat BY DEF TypeInv, OrdersType
<1>2. PICK i \in Owners(o, "Open"), p \in Profits :
         /\ trades' = [trades EXCEPT ![o.tk][i].st = "Closed"]
         /\ orders' = orders \ {o}
         /\ closed' = Append(closed, p)
         /\ tally' = [tally EXCEPT !.made = @ + p]
  BY DEF StopFill
<1> DEFINE x == trades[o.tk][i]
           y == [x EXCEPT !.st = "Closed"]
<1>3. Up /\ i \in DOMAIN trades[o.tk] BY DEF Owners
<1>4. x \in Trades BY <1>1, <1>3, TradeIs
<1>5. y \in Trades /\ y.st = "Closed" /\ IdsOf(y) = IdsOf(x) /\ y.tp = x.tp
  <2> HIDE DEF x
  <2> QED BY <1>4 DEF Trades, TradeStates, IdsOf
<1>6. trades' = [trades EXCEPT ![o.tk] = [trades[o.tk] EXCEPT ![i] = y]] BY <1>2
<1>7. /\ o.type = "Stop" /\ pos' = [pos EXCEPT ![o.tk] = IF o.size > @ THEN 0 ELSE @ - o.size]
      /\ UNCHANGED <<day, main, acct, resetDay, queue, events, disk, kill, used>>
  BY DEF StopFill
<1>8. pos' \in [Tickers -> Nat]
  <2>1. (IF o.size > pos[o.tk] THEN 0 ELSE pos[o.tk] - o.size) \in Nat BY <1>1
  <2>2. pos \in [Tickers -> Nat] BY DEF TypeInv
  <2> QED BY <1>7, <2>1, <2>2
<1> QED BY <1>1, <1>2, <1>3, <1>5, <1>6, <1>7, <1>8

\* A profit is made and recorded.
LEMMA PnlMade ==
    ASSUME TypeInv, PnlConserved, Up, UNCHANGED queue, NEW more \in Seq(Int),
           closed' = closed \o more, tally' = [tally EXCEPT !.made = @ + Total(more)]
    PROVE  /\ PnlConserved' /\ closed' \in Seq(Int)
           /\ tally' \in [made : Int, taken : Int]
<1>1. closed \in Seq(Int) /\ queue \in Seq(Int) /\ tally \in [made : Int, taken : Int]
  BY DEF TypeInv
<1>2. closed' \in Seq(Int) /\ Total(closed') = Total(closed) + Total(more) BY <1>1, TotalConcat
<1>3. Total(closed) \in Int /\ Total(more) \in Int /\ Total(queue) \in Int BY <1>1, TotalInt
<1>4. tally'.made = tally.made + Total(more) /\ tally'.taken = tally.taken
      /\ tally' \in [made : Int, taken : Int]
  BY <1>1, <1>3
<1>5. tally.made = tally.taken + Total(closed) + Total(queue) BY DEF PnlConserved
<1>6. tally.made \in Int /\ tally.taken \in Int BY <1>1
<1>7. Total(queue)' = Total(queue) /\ Total(closed)' = Total(closed') OBVIOUS
<1>8. tally'.made = tally'.taken + Total(closed)' + Total(queue)'
  BY <1>2, <1>3, <1>4, <1>5, <1>6, <1>7
<1> QED BY <1>2, <1>4, <1>8 DEF PnlConserved

LEMMA StopFillKeeps ==
    ASSUME Inv, PnlConserved, NEW o \in orders, StopFill(o)
    PROVE  Inv' /\ PnlConserved'
<1> USE DEF Inv
<1> DEFINE t == o.tk
           Y(i) == [trades[t][i] EXCEPT !.st = "Closed"]
<1>1. /\ Up /\ t \in Tickers /\ orders' = orders \ {o} /\ pos' \in [Tickers -> Nat]
      /\ UNCHANGED <<day, main, acct, resetDay, queue, events, disk, kill, used>>
  BY StopFillDoes
<1>2. PICK i \in Owners(o, "Open"), p \in Profits :
         /\ i \in DOMAIN trades[t]
         /\ Y(i) \in Trades /\ Y(i).st = "Closed" /\ IdsOf(Y(i)) = IdsOf(trades[t][i])
         /\ trades' = [trades EXCEPT ![t] = [trades[t] EXCEPT ![i] = Y(i)]]
         /\ closed' = Append(closed, p)
         /\ tally' = [tally EXCEPT !.made = @ + p]
  BY StopFillDoes
<1> DEFINE y == Y(i)
<1>3. /\ y \in Trades /\ y.st = "Closed" /\ IdsOf(y) = IdsOf(trades[t][i])
      /\ trades' = [trades EXCEPT ![t] = [trades[t] EXCEPT ![i] = y]]
  BY <1>2
<1> HIDE DEF y, Y
<1>4. /\ trades' \in [Tickers -> Seq(Trades)] /\ Shape'
      /\ trades'[t][i] = y /\ DOMAIN trades'[t] = DOMAIN trades[t]
      /\ \A j \in DOMAIN trades[t] : j # i => trades'[t][j] = trades[t][j]
      /\ \A u \in Tickers : u # t => trades'[u] = trades[u]
  <2>1. y.st = "Open" => y.size > 0 BY <1>3
  <2>2. Up' /\ t \in Tickers /\ TypeInv /\ Shape BY <1>1 DEF Up
  <2>3. i \in DOMAIN trades[t] BY <1>2
  <2> HIDE DEF t, Inv
  <2> QED BY <1>3, <2>1, <2>2, <2>3, SwapIs
<1>5. PnlConserved' /\ closed' \in Seq(Int) /\ tally' \in [made : Int, taken : Int]
  <2>1. p \in Int BY SessionAssumption
  <2>2. <<p>> = Append(<<>>, p) /\ <<>> \in Seq(Int) OBVIOUS
  <2>3. <<p>> \in Seq(Int) /\ Total(<<p>>) = p
    <3>1. Total(Append(<<>>, p)) = Total(<<>>) + p BY <2>1, <2>2, TotalAppend
    <3>2. Total(<<p>>) = 0 + p BY <2>2, <3>1, TotalEmpty
    <3> QED BY <2>1, <3>2
  <2>4. closed \in Seq(Int) BY DEF TypeInv
  <2>5. closed' = closed \o <<p>> BY <1>2, <2>1, <2>4
  <2>6. tally' = [tally EXCEPT !.made = @ + Total(<<p>>)] BY <1>2, <2>3
  <2>7. UNCHANGED queue BY <1>1
  <2> HIDE DEF Inv
  <2>8. TypeInv BY DEF Inv
  <2> QED BY <1>1, <2>3, <2>5, <2>6, <2>7, <2>8, PnlMade
<1>6. TypeInv' BY <1>1, <1>4, <1>5 DEF TypeInv
<1>7. IdsOK'
  <2>1. \A n \in IdsOf(trades'[t][i]) : IdFrom(n, t) \/ n \in {}
    BY <1>2, <1>3, <1>4, OwnIdFrom
  <2>2. \A u \in Tickers : \A j \in DOMAIN trades'[u] : \A n \in IdsOf(trades'[u][j]) :
           IdFrom(n, u) \/ (u = t /\ n \in {})
    <3>1. t \in Tickers /\ i \in DOMAIN trades[t] BY <1>1, <1>2
    <3> HIDE DEF t
    <3> QED BY <1>4, <2>1, <3>1, SwapIds, SMTT(30)
  <2>3. used'.id = used.id /\ disk' = disk /\ orders' \subseteq orders BY <1>1
  <2> HIDE DEF t
  <2>4. \A u \in Tickers : \A j \in DOMAIN trades'[u] : \A n \in IdsOf(trades'[u][j]) : IdFrom(n, u)
    BY <2>2
  <2> QED BY <2>3, <2>4, IdsFewer
<1> QED BY <1>4, <1>5, <1>6, <1>7

LEMMA TpFillDoes ==
    ASSUME TypeInv, Shape, NEW o \in orders, TpFill(o)
    PROVE  /\ o.type = "Tp" /\ Up /\ o.tk \in Tickers
           /\ UNCHANGED <<day, main, acct, resetDay, closed, queue, events, disk, kill, tally>>
           /\ used' \in [id : Nat, submits : Nat, boots : Nat, faults : Nat]
           /\ used'.id = used.id + 1 /\ used'.boots = used.boots
           /\ pos' = [pos EXCEPT ![o.tk] = @ - o.size] /\ pos' \in [Tickers -> Nat]
           /\ \E i \in Owners(o, "Open"), rest \in Int :
                LET y == [trades[o.tk][i] EXCEPT !.stop = IF rest > 0 THEN used.id + 1 ELSE 0]
                IN  /\ i \in DOMAIN trades[o.tk]
                    /\ rest = trades[o.tk][i].size - o.size
                    /\ y \in Trades /\ y.st = "Open"
                    /\ y.size = trades[o.tk][i].size
                    /\ y.entry = trades[o.tk][i].entry /\ y.tp = trades[o.tk][i].tp
                    /\ y.stop = IF rest > 0 THEN used.id + 1 ELSE 0
                    /\ trades' = [trades EXCEPT ![o.tk] = [trades[o.tk] EXCEPT ![i] = y]]
                    /\ orders' = {x \in orders \ {o} : x.id # trades[o.tk][i].stop}
                         \union (IF rest > 0 THEN {Order(used.id + 1, o.tk, "Stop", rest)} ELSE {})
<1>1. o.tk \in Tickers /\ o.size \in Nat /\ pos[o.tk] \in Nat BY DEF TypeInv, OrdersType
<1>2. PICK i \in Owners(o, "Open") :
         LET rest == trades[o.tk][i].size - o.size
         IN  /\ orders' = {x \in orders \ {o} : x.id # trades[o.tk][i].stop}
                            \cup (IF rest > 0 THEN {Order(used.id + 1, o.tk, "Stop", rest)} ELSE {})
             /\ trades' = [trades EXCEPT ![o.tk][i].stop = IF rest > 0 THEN used.id + 1 ELSE 0]
  BY DEF TpFill
<1> DEFINE x == trades[o.tk][i]
           rest == x.size - o.size
           w == IF rest > 0 THEN used.id + 1 ELSE 0
           y == [x EXCEPT !.stop = w]
<1>3. Up /\ i \in DOMAIN trades[o.tk] /\ x.st = "Open" BY DEF Owners
<1>4. x \in Trades BY <1>1, <1>3, TradeIs
<1>5. rest \in Int BY <1>1, <1>4 DEF Trades
<1>6. w \in Nat BY UsedIs
<1>7. /\ y \in Trades /\ y.st = "Open" /\ y.size = x.size /\ y.entry = x.entry /\ y.tp = x.tp
      /\ y.stop = w
  <2> HIDE DEF x, w
  <2> QED BY <1>3, <1>4, <1>6 DEF Trades
<1>8. /\ trades' = [trades EXCEPT ![o.tk] = [trades[o.tk] EXCEPT ![i] = y]]
      /\ orders' = {z \in orders \ {o} : z.id # trades[o.tk][i].stop}
           \union (IF rest > 0 THEN {Order(used.id + 1, o.tk, "Stop", rest)} ELSE {})
  BY <1>2
<1>9. /\ used' = [used EXCEPT !.id = used.id + 1]
      /\ o.type = "Tp" /\ pos' = [pos EXCEPT ![o.tk] = @ - o.size] /\ pos[o.tk] >= o.size
      /\ UNCHANGED <<day, main, acct, resetDay, closed, queue, events, disk, kill, tally>>
  BY DEF TpFill
<1>10. /\ used' \in [id : Nat, submits : Nat, boots : Nat, faults : Nat]
       /\ used'.id = used.id + 1 /\ used'.boots = used.boots
  BY <1>9, UsedIds
<1>11. pos' \in [Tickers -> Nat]
  <2>1. pos[o.tk] - o.size \in Nat BY <1>1, <1>9
  <2>2. pos \in [Tickers -> Nat] BY DEF TypeInv
  <2> QED BY <1>9, <2>1, <2>2
<1>12. w = IF rest > 0 THEN used.id + 1 ELSE 0 OBVIOUS
<1> QED BY <1>1, <1>3, <1>5, <1>7, <1>8, <1>9, <1>10, <1>11, <1>12

LEMMA TpFillKeeps ==
    ASSUME Inv, PnlConserved, NEW o \in orders, TpFill(o)
    PROVE  Inv' /\ PnlConserved'
<1> USE DEF Inv
<1> DEFINE t == o.tk
           Y(i, rest) == [trades[t][i] EXCEPT !.stop = IF rest > 0 THEN used.id + 1 ELSE 0]
<1>1. /\ Up /\ t \in Tickers
      /\ UNCHANGED <<day, main, acct, resetDay, closed, queue, events, disk, kill, tally>>
      /\ used' \in [id : Nat, submits : Nat, boots : Nat, faults : Nat]
      /\ used'.id = used.id + 1 /\ pos' \in [Tickers -> Nat]
  BY TpFillDoes
<1>2. PICK i \in Owners(o, "Open"), rest \in Int :
         /\ i \in DOMAIN trades[t]
         /\ Y(i, rest) \in Trades /\ Y(i, rest).st = "Open"
         /\ Y(i, rest).size = trades[t][i].size
         /\ Y(i, rest).entry = trades[t][i].entry /\ Y(i, rest).tp = trades[t][i].tp
         /\ Y(i, rest).stop = IF rest > 0 THEN used.id + 1 ELSE 0
         /\ trades' = [trades EXCEPT ![t] = [trades[t] EXCEPT ![i] = Y(i, rest)]]
         /\ orders' = {x \in orders \ {o} : x.id # trades[t][i].stop}
              \union (IF rest > 0 THEN {Order(used.id + 1, t, "Stop", rest)} ELSE {})
  BY TpFillDoes
<1> DEFINE y == Y(i, rest)
<1>3. /\ y \in Trades /\ y.st = "Open" /\ y.size = trades[t][i].size
      /\ y.entry = trades[t][i].entry /\ y.tp = trades[t][i].tp
      /\ y.stop = IF rest > 0 THEN used.id + 1 ELSE 0
      /\ trades' = [trades EXCEPT ![t] = [trades[t] EXCEPT ![i] = y]]
  BY <1>2
<1> HIDE DEF y, Y
<1>4. /\ trades' \in [Tickers -> Seq(Trades)] /\ Shape'
      /\ trades'[t][i] = y /\ DOMAIN trades'[t] = DOMAIN trades[t]
      /\ \A j \in DOMAIN trades[t] : j # i => trades'[t][j] = trades[t][j]
      /\ \A u \in Tickers : u # t => trades'[u] = trades[u]
  <2>1. y.st = "Open" => y.size > 0
    <3>1. trades[t][i].st = "Open" BY <1>2 DEF Owners
    <3>2. t \in Tickers /\ i \in DOMAIN trades[t] BY <1>1, <1>2
    <3> QED BY <1>3, <3>1, <3>2 DEF Shape
  <2>2. Up' /\ t \in Tickers /\ TypeInv /\ Shape BY <1>1 DEF Up
  <2>3. i \in DOMAIN trades[t] BY <1>2
  <2> HIDE DEF t, Inv
  <2> QED BY <1>3, <2>1, <2>2, <2>3, SwapIs
<1>5. used.id \in Nat /\ used'.id \in Nat /\ used.id <= used'.id BY <1>1, UsedIs
<1> DEFINE a == Order(used.id + 1, t, "Stop", rest)
<1>6. rest > 0 => a \in OrdersType /\ a.id = used.id + 1 /\ a.tk = t
  BY <1>1, <1>5, OrderIs
<1>7. /\ orders' \subseteq orders \union (IF rest > 0 THEN {a} ELSE {}) BY <1>2
<1> HIDE DEF a
<1>9. orders' \in SUBSET OrdersType BY <1>6, <1>7 DEF TypeInv
<1>10. TypeInv' BY <1>1, <1>4, <1>9 DEF TypeInv
<1>11. IdsOK'
  <2> DEFINE Q == {used.id + 1}
  <2>1. \A n \in IdsOf(trades'[t][i]) : IdFrom(n, t) \/ n \in Q
    <3> SUFFICES ASSUME NEW n \in IdsOf(y) PROVE IdFrom(n, t) \/ n \in Q BY <1>4
    <3>1. n = trades[t][i].entry \/ n = trades[t][i].tp \/ n = 0 \/ n \in Q BY <1>3 DEF IdsOf
    <3>2. IdFrom(trades[t][i].entry, t) /\ IdFrom(trades[t][i].tp, t) /\ IdFrom(0, t)
      BY <1>2 DEF IdFrom, IdsOf
    <3> QED BY <3>1, <3>2
  <2>2. \A u \in Tickers : \A j \in DOMAIN trades'[u] : \A n \in IdsOf(trades'[u][j]) :
           IdFrom(n, u) \/ (u = t /\ n \in Q)
    <3>1. t \in Tickers /\ i \in DOMAIN trades[t] BY <1>1, <1>2
    <3> HIDE DEF t, Q
    <3> QED BY <1>4, <2>1, <3>1, SwapIds
  <2>3. \A x \in orders' \ orders : x.tk = t BY <1>6, <1>7
  <2>4. Q \subseteq (used.id + 1)..used'.id BY <1>1, <1>5
  <2>5. \A x \in orders' : x \in orders \/ x.id \in (used.id + 1)..used'.id BY <1>1, <1>5, <1>6, <1>7
  <2>6. \A x, z \in orders' \ orders : x.id = z.id => x = z BY <1>7
  <2>7. disk' = disk BY <1>1
  <2> HIDE DEF t, Q
  <2>8. \A u \in Tickers : \A j \in DOMAIN trades'[u] : \A n \in IdsOf(trades'[u][j]) :
           \/ IdFrom(n, u)
           \/ n \in (used.id + 1)..used'.id /\ \A x \in orders' \ orders : x.id = n => x.tk = u
    BY <2>2, <2>3, <2>4
  <2> QED BY <1>5, <2>5, <2>6, <2>7, <2>8, IdsStep
<1>12. PnlConserved' BY <1>1, PnlSame
<1> QED BY <1>4, <1>10, <1>11, <1>12

\* The open trades of a ticker that a close hits, and the orders they drop.
Hit(t) == {i \in DOMAIN trades[t] : trades[t][i].st = "Open" /\ trades[t][i].size > 0}
HitIds(t) == {trades[t][i].stop : i \in Hit(t)} \union {trades[t][i].tp : i \in Hit(t)}
HitSize(t) == Total([i \in DOMAIN trades[t] |-> IF i \in Hit(t) THEN trades[t][i].size ELSE 0])

LEMMA CloseTradeDoes ==
    ASSUME TypeInv, Shape, NEW t \in Tickers, CloseTrade(t)
    PROVE  /\ used' \in [id : Nat, submits : Nat, boots : Nat, faults : Nat]
           /\ used'.id = used.id /\ used'.boots = used.boots
           /\ orders' = {o \in orders : o.id \notin HitIds(t)}
           /\ pos' \in [Tickers -> Nat] /\ \A u \in Tickers : u # t => pos'[u] = pos[u]
           /\ trades' \in [Tickers -> Seq(Trades)]
           /\ \A u \in Tickers : u # t => trades'[u] = trades[u]
           /\ DOMAIN trades'[t] = DOMAIN trades[t]
           /\ \A i \in DOMAIN trades[t] \ Hit(t) : trades'[t][i] = trades[t][i]
           /\ \E more \in Seq(Int) : /\ closed' = closed \o more
                                     /\ tally' = [tally EXCEPT !.made = @ + Total(more)]
           /\ \E ok \in BOOLEAN :
                /\ pos'[t] = IF ~ok THEN pos[t] ELSE IF HitSize(t) > pos[t] THEN 0 ELSE pos[t] - HitSize(t)
                /\ \A i \in Hit(t) : LET y == trades'[t][i]
                                     IN  /\ y.st = IF ok THEN "Closed" ELSE "Open"
                                         /\ y.stop = 0 /\ y.tp = 0
                                         /\ y.size = trades[t][i].size
                                         /\ y.entry = trades[t][i].entry
<1> DEFINE hit == Hit(t)
           n == HitSize(t)
           s == trades[t]
           sizes == [i \in DOMAIN s |-> IF i \in hit THEN s[i].size ELSE 0]
           R(ok) == [i \in DOMAIN s |-> IF i \in hit
                       THEN [s[i] EXCEPT !.st = IF ok THEN "Closed" ELSE "Open", !.stop = 0, !.tp = 0]
                       ELSE s[i]]
<1>1. PICK ok \in BOOLEAN, p \in Profits :
        /\ Fail(ok \/ hit = {})
        /\ orders' = {o \in orders : o.id \notin HitIds(t)}
        /\ pos' = [pos EXCEPT ![t] = IF ~ok THEN @ ELSE IF n > @ THEN 0 ELSE @ - n]
        /\ trades' = [trades EXCEPT ![t] = R(ok)]
        /\ closed' = closed \o [k \in 1..Cardinality(hit) |-> p]
        /\ tally' = [tally EXCEPT !.made = @ + p * Cardinality(hit)]
  BY DEF CloseTrade, Hit, HitIds, HitSize
<1>2. s \in Seq(Trades) /\ Len(s) \in Nat /\ DOMAIN s = 1..Len(s) /\ \A i \in DOMAIN s : s[i] \in Trades
  BY TradeIs
<1>3. hit \subseteq 1..Len(s) BY <1>2 DEF Hit
<1>4. Cardinality(hit) \in Nat BY <1>2, <1>3, UpToIsFinite, FS_Subset, FS_CardinalityType
<1>5. n \in Nat
  <2>1. \A i \in 1..Len(s) : sizes[i] \in Nat BY <1>2 DEF Trades
  <2>2. DOMAIN sizes = 1..Len(s) BY <1>2
  <2>3. n = Total(sizes) BY DEF HitSize
  <2> HIDE DEF sizes, s, n
  <2>4. IsFiniteSet(1..Len(s)) BY <1>2, UpToIsFinite
  <2> QED BY <2>1, <2>2, <2>3, <2>4, SumNat, TotalIs
<1> DEFINE r == R(ok)
<1>6. /\ r \in Seq(Trades) /\ DOMAIN r = DOMAIN s
      /\ \A i \in DOMAIN s \ hit : r[i] = s[i]
      /\ \A i \in hit : /\ r[i].st = IF ok THEN "Closed" ELSE "Open"
                        /\ r[i].stop = 0 /\ r[i].tp = 0
                        /\ r[i].size = s[i].size /\ r[i].entry = s[i].entry
  <2>1. ASSUME NEW i \in hit
        PROVE  LET y == [s[i] EXCEPT !.st = IF ok THEN "Closed" ELSE "Open", !.stop = 0, !.tp = 0]
               IN  /\ y \in Trades /\ y.st = IF ok THEN "Closed" ELSE "Open"
                   /\ y.stop = 0 /\ y.tp = 0
                   /\ y.size = s[i].size /\ y.entry = s[i].entry
    <3> DEFINE x == s[i]
               z == IF ok THEN "Closed" ELSE "Open"
    <3>1. x \in Trades /\ x.st = "Open" BY <1>2, <1>3 DEF Hit
    <3>2. z \in TradeStates /\ z = IF ok THEN "Closed" ELSE "Open" BY <3>1 DEF TradeStates
    <3> HIDE DEF x, z
    <3>3. LET y == [x EXCEPT !.st = z, !.stop = 0, !.tp = 0]
          IN  /\ y \in Trades /\ y.st = z /\ y.stop = 0 /\ y.tp = 0
              /\ y.size = x.size /\ y.entry = x.entry
      BY <3>1, <3>2 DEF Trades
    <3> QED BY <3>2, <3>3 DEF x, z
  <2>2. \A i \in DOMAIN s : r[i] \in Trades
    <3>1. ASSUME NEW i \in DOMAIN s PROVE r[i] \in Trades
      <4>1. CASE i \in hit BY <2>1, <4>1
      <4>2. CASE i \notin hit BY <1>2, <4>2
      <4> QED BY <4>1, <4>2
    <3> QED BY <3>1
  <2>3. DOMAIN r = DOMAIN s /\ r = [i \in 1..Len(s) |-> r[i]] BY <1>2
  <2>4. r \in Seq(Trades)
    <3> HIDE DEF r
    <3>1. r \in [1..Len(s) -> Trades] BY <1>2, <2>2, <2>3
    <3> QED BY <1>2, <3>1
  <2>5. \A i \in DOMAIN s \ hit : r[i] = s[i] OBVIOUS
  <2>6. \A i \in hit : i \in DOMAIN s BY <1>2, <1>3
  <2>7. \A i \in hit : r[i] = [s[i] EXCEPT !.st = IF ok THEN "Closed" ELSE "Open", !.stop = 0, !.tp = 0]
    BY <2>6
  <2>8. \A i \in hit : /\ r[i].st = IF ok THEN "Closed" ELSE "Open"
                       /\ r[i].stop = 0 /\ r[i].tp = 0
                       /\ r[i].size = s[i].size /\ r[i].entry = s[i].entry
    <3> HIDE DEF r, R, s, hit
    <3> QED BY <2>1, <2>7, Zenon
  <2> QED BY <2>3, <2>4, <2>5, <2>8
<1>7. trades' = [trades EXCEPT ![t] = r] BY <1>1
<1> HIDE DEF r, R
<1>8. /\ trades' \in [Tickers -> Seq(Trades)] /\ trades'[t] = r
      /\ \A u \in Tickers : u # t => trades'[u] = trades[u]
  BY <1>6, <1>7, PutTrades
<1> DEFINE more == [k \in 1..Cardinality(hit) |-> p]
<1>9. /\ more \in Seq(Int) /\ closed' = closed \o more
      /\ tally' = [tally EXCEPT !.made = @ + Total(more)]
  <2>1. p \in Int BY SessionAssumption
  <2>2. more \in Seq(Int) /\ Total(more) = p * Cardinality(hit) BY <1>4, <2>1, TotalRepeat
  <2> QED BY <1>1, <2>2
<1>10. /\ used' \in [id : Nat, submits : Nat, boots : Nat, faults : Nat]
       /\ used'.id = used.id /\ used'.boots = used.boots
  <2>1. (ok \/ hit = {}) \in BOOLEAN OBVIOUS
  <2> QED BY <1>1, <2>1, FailIs
<1>11. /\ pos' \in [Tickers -> Nat] /\ \A u \in Tickers : u # t => pos'[u] = pos[u]
       /\ pos'[t] = IF ~ok THEN pos[t] ELSE IF n > pos[t] THEN 0 ELSE pos[t] - n
  <2>1. pos \in [Tickers -> Nat] /\ pos[t] \in Nat BY DEF TypeInv
  <2> DEFINE v == IF ~ok THEN pos[t] ELSE IF n > pos[t] THEN 0 ELSE pos[t] - n
  <2>2. v \in Nat BY <1>5, <2>1
  <2>3. pos' = [pos EXCEPT ![t] = v] BY <1>1
  <2> HIDE DEF v
  <2>4. pos' \in [Tickers -> Nat] /\ pos'[t] = v /\ \A u \in Tickers : u # t => pos'[u] = pos[u]
    BY <2>1, <2>2, <2>3
  <2> QED BY <2>4 DEF v
<1>12. orders' = {o \in orders : o.id \notin HitIds(t)} BY <1>1
<1>13. \E z \in BOOLEAN :
          /\ pos'[t] = IF ~z THEN pos[t] ELSE IF n > pos[t] THEN 0 ELSE pos[t] - n
          /\ \A i \in hit : LET y == trades'[t][i]
                            IN  /\ y.st = IF z THEN "Closed" ELSE "Open"
                                /\ y.stop = 0 /\ y.tp = 0
                                /\ y.size = s[i].size /\ y.entry = s[i].entry
  BY <1>6, <1>8, <1>11
<1>14. \E q \in Seq(Int) : closed' = closed \o q /\ tally' = [tally EXCEPT !.made = @ + Total(q)]
  <2> HIDE DEF more
  <2> QED BY <1>9
<1> QED BY <1>6, <1>8, <1>10, <1>11, <1>12, <1>13, <1>14

\* A close keeps the invariant, whoever asks for it.
LEMMA CloseTradeKeeps ==
    ASSUME Inv, PnlConserved, Up, NEW t \in Tickers, CloseTrade(t), Up', main' \in Mains,
           main'.pc \in {"cancel", "close", "retry"} => main'.todo \subseteq Tickers,
           UNCHANGED <<day, acct, resetDay, queue, events, disk, kill>>
    PROVE  Inv' /\ PnlConserved'
<1>0. TypeInv /\ Shape /\ IdsOK BY DEF Inv
<1>1. /\ used' \in [id : Nat, submits : Nat, boots : Nat, faults : Nat] /\ used'.id = used.id
      /\ orders' = {o \in orders : o.id \notin HitIds(t)}
      /\ pos' \in [Tickers -> Nat]
      /\ trades' \in [Tickers -> Seq(Trades)]
      /\ \A u \in Tickers : u # t => trades'[u] = trades[u]
      /\ DOMAIN trades'[t] = DOMAIN trades[t]
      /\ \A i \in DOMAIN trades[t] \ Hit(t) : trades'[t][i] = trades[t][i]
  BY <1>0, CloseTradeDoes
<1>2. PICK more \in Seq(Int) : /\ closed' = closed \o more
                               /\ tally' = [tally EXCEPT !.made = @ + Total(more)]
  BY <1>0, CloseTradeDoes
<1>3. ASSUME NEW i \in Hit(t)
      PROVE  LET y == trades'[t][i]
             IN  /\ i \in DOMAIN trades[t]
                 /\ y.stop = 0 /\ y.tp = 0
                 /\ y.size = trades[t][i].size /\ y.entry = trades[t][i].entry
  <2>1. i \in DOMAIN trades[t] BY DEF Hit
  <2>2. \E ok \in BOOLEAN : \A j \in Hit(t) : LET y == trades'[t][j]
           IN  y.stop = 0 /\ y.tp = 0 /\ y.size = trades[t][j].size /\ y.entry = trades[t][j].entry
    BY <1>0, CloseTradeDoes
  <2> QED BY <2>1, <2>2
<1>4. PnlConserved' /\ closed' \in Seq(Int) /\ tally' \in [made : Int, taken : Int]
  <2>1. UNCHANGED queue OBVIOUS
  <2> QED BY <1>0, <1>2, <2>1, PnlMade
<1>5. TypeInv' BY <1>0, <1>1, <1>4 DEF TypeInv
<1>6. Shape'
  <2>1. ASSUME NEW u \in Tickers, NEW i \in DOMAIN trades'[u], trades'[u][i].st = "Open"
        PROVE  trades'[u][i].size > 0
    <3>1. CASE u # t BY <1>0, <1>1, <2>1, <3>1 DEF Shape
    <3>2. CASE u = t /\ i \notin Hit(t) BY <1>0, <1>1, <2>1, <3>2 DEF Shape
    <3>3. CASE u = t /\ i \in Hit(t) BY <1>3, <3>3 DEF Hit
    <3> QED BY <3>1, <3>2, <3>3
  <2> QED BY <2>1 DEF Shape
<1>7. IdsOK'
  <2>1. ASSUME NEW u \in Tickers, NEW i \in DOMAIN trades'[u], NEW n \in IdsOf(trades'[u][i])
        PROVE  IdFrom(n, u)
    <3>1. CASE u # t BY <1>1, <2>1, <3>1, OwnIdFrom
    <3>2. CASE u = t /\ i \notin Hit(t)
      <4>1. i \in DOMAIN trades[t] /\ trades'[t][i] = trades[t][i] BY <1>1, <3>2
      <4> QED BY <3>2, <4>1, OwnIdFrom
    <3>3. CASE u = t /\ i \in Hit(t)
      <4>1. i \in DOMAIN trades[t] /\ (n = 0 \/ n = trades[t][i].entry)
        BY <1>3, <2>1, <3>3 DEF IdsOf
      <4> QED BY <3>3, <4>1 DEF IdFrom, IdsOf
    <3> QED BY <3>1, <3>2, <3>3
  <2>2. used'.id = used.id /\ disk' = disk /\ orders' \subseteq orders BY <1>1
  <2> QED BY <1>0, <2>1, <2>2, IdsFewer
<1> QED BY <1>4, <1>5, <1>6, <1>7 DEF Inv

LEMMA CloseRequestKeeps ==
    ASSUME Inv, PnlConserved, NEW t \in Tickers, CloseRequest(t)
    PROVE  Inv' /\ PnlConserved'
<1>1. Up /\ CloseTrade(t) /\ UNCHANGED <<day, main, acct, resetDay, queue, events, disk, kill>>
  BY DEF CloseRequest
<1>2. /\ Up' /\ main' \in Mains
      /\ main'.pc \in {"cancel", "close", "retry"} => main'.todo \subseteq Tickers
  BY <1>1 DEF Inv, TypeInv, Up
<1> QED BY <1>1, <1>2, CloseTradeKeeps

-----------------------------------------------------------------------------
(* The processor, the tick and the shutdown. *)

\* A running process does nothing to its trades, the exchange or the profits.
LEMMA FrameKeeps ==
    ASSUME Inv, PnlConserved, Up, Up', used'.id = used.id, TypeInv',
           UNCHANGED <<trades, closed, queue, orders, pos, disk, tally>>
    PROVE  Inv' /\ PnlConserved'
<1>1. TypeInv /\ Shape /\ IdsOK BY DEF Inv
<1>2. Shape' BY <1>1 DEF Shape
<1>3. IdsOK'
  <2>1. \A t \in Tickers : \A i \in DOMAIN trades'[t] : \A n \in IdsOf(trades'[t][i]) : IdFrom(n, t)
    BY OwnIdFrom
  <2> QED BY <1>1, <2>1, IdsFewer
<1>4. PnlConserved' BY PnlSame
<1> QED BY <1>2, <1>3, <1>4 DEF Inv

LEMMA ProcessEventKeeps ==
    ASSUME Inv, PnlConserved, ProcessEvent PROVE Inv' /\ PnlConserved'
<1>1. /\ UNCHANGED <<day, main, acct, resetDay, trades, closed, queue, orders, pos, disk, kill, used, tally>>
      /\ Up /\ events' = [total |-> events.total + 1, sinceDrain |-> events.sinceDrain + 1]
  BY DEF ProcessEvent, executor, exchange
<1>2. TypeInv BY DEF Inv
<1>3. events' \in [total : Nat, sinceDrain : Nat] BY <1>1, <1>2 DEF TypeInv
<1>4. TypeInv' BY <1>1, <1>2, <1>3 DEF TypeInv
<1>5. Up' BY <1>1 DEF Up
<1> QED BY <1>1, <1>4, <1>5, FrameKeeps

LEMMA UnclosedTyped ==
    ASSUME TypeInv
    PROVE  /\ [t \in Tickers |-> Unclosed(trades[t])] \in [Tickers -> Seq(Trades)]
           /\ \A t \in Tickers : KeptOf(Unclosed(trades[t]), trades[t], Len(trades[t]))
           /\ \A t \in Tickers : \A i \in DOMAIN Unclosed(trades[t]) : \E j \in DOMAIN trades[t] :
                 Unclosed(trades[t])[i] = trades[t][j]
<1>1. \A t \in Tickers : trades[t] \in Seq(Trades) /\ DOMAIN trades[t] = 1..Len(trades[t])
  BY TradeIs
<1>2. \A t \in Tickers : KeptOf(Unclosed(trades[t]), trades[t], Len(trades[t])) BY <1>1, UnclosedIs
<1>3. \A t \in Tickers : Unclosed(trades[t]) \in Seq(Trades) BY <1>2 DEF KeptOf
<1>4. ASSUME NEW t \in Tickers, NEW i \in DOMAIN Unclosed(trades[t])
      PROVE  \E j \in DOMAIN trades[t] : Unclosed(trades[t])[i] = trades[t][j]
  <2>1. \E j \in 1..Len(trades[t]) : Unclosed(trades[t])[i] = trades[t][j] BY <1>2 DEF KeptOf
  <2> QED BY <1>1, <2>1
<1> QED BY <1>2, <1>3, <1>4

LEMMA DrainKeeps ==
    ASSUME Inv, PnlConserved, Drain PROVE Inv' /\ PnlConserved'
<1>0. TypeInv /\ Shape /\ IdsOK BY DEF Inv
<1>1. /\ Up /\ queue' = queue \o closed /\ closed' = <<>>
      /\ trades' = [t \in Tickers |-> Unclosed(trades[t])]
      /\ events' = [events EXCEPT !.sinceDrain = 0]
      /\ UNCHANGED <<day, main, acct, resetDay, orders, pos, disk, kill, used, tally>>
  BY DEF Drain, exchange
<1>2. Up' BY <1>1 DEF Up
<1>3. closed \in Seq(Int) /\ queue \in Seq(Int) BY <1>0 DEF TypeInv
<1>4. queue' \in Seq(Int) /\ Total(queue') = Total(queue) + Total(closed) BY <1>1, <1>3, TotalConcat
<1>5. PnlConserved'
  <2>1. tally.made = tally.taken + Total(closed) + Total(queue) BY <1>1 DEF PnlConserved
  <2>2. Total(closed) \in Int /\ Total(queue) \in Int /\ tally.taken \in Int
    BY <1>0, <1>3, TotalInt DEF TypeInv
  <2>3. Total(closed') = 0 BY <1>1, TotalEmpty
  <2>4. Total(queue)' = Total(queue') /\ Total(closed)' = Total(closed') OBVIOUS
  <2>5. tally' = tally BY <1>1
  <2>6. tally'.made = tally'.taken + Total(closed)' + Total(queue)'
    BY <1>4, <2>1, <2>2, <2>3, <2>4, <2>5
  <2> QED BY <2>6 DEF PnlConserved
<1>6. /\ trades' \in [Tickers -> Seq(Trades)]
      /\ \A t \in Tickers : \A i \in DOMAIN trades'[t] : \E j \in DOMAIN trades[t] :
            trades'[t][i] = trades[t][j]
  <2>1. \A t \in Tickers : trades'[t] = Unclosed(trades[t]) BY <1>1
  <2> QED BY <1>0, <1>1, <2>1, UnclosedTyped
<1>7. events' \in [total : Nat, sinceDrain : Nat] BY <1>0, <1>1 DEF TypeInv
<1>8. closed' \in Seq(Int) BY <1>1
<1>9. TypeInv' BY <1>0, <1>1, <1>4, <1>6, <1>7, <1>8 DEF TypeInv
<1>10. Shape' BY <1>0, <1>2, <1>6 DEF Shape
<1>11. IdsOK'
  <2>1. \A t \in Tickers : \A i \in DOMAIN trades'[t] : \A n \in IdsOf(trades'[t][i]) : IdFrom(n, t)
    BY <1>6, OwnIdFrom
  <2>2. used'.id = used.id /\ disk' = disk /\ orders' \subseteq orders BY <1>1
  <2> QED BY <1>0, <2>1, <2>2, IdsFewer
<1> QED BY <1>5, <1>9, <1>10, <1>11 DEF Inv

\* The main thread goes on with something else.
LEMMA MainIs ==
    ASSUME TypeInv, NEW pc \in Pcs, NEW todo \in SUBSET (Tickers \union (Tickers \X Nat))
    PROVE  /\ [main EXCEPT !.pc = pc] \in Mains /\ [main EXCEPT !.pc = pc].pc = pc
           /\ [main EXCEPT !.pc = pc].todo = main.todo
           /\ [main EXCEPT !.todo = todo] \in Mains /\ [main EXCEPT !.todo = todo].pc = main.pc
           /\ [main EXCEPT !.todo = todo].todo = todo
           /\ [main EXCEPT !.pc = pc, !.todo = todo] \in Mains
           /\ [main EXCEPT !.pc = pc, !.todo = todo].pc = pc
           /\ [main EXCEPT !.pc = pc, !.todo = todo].todo = todo
<1>1. main \in Mains BY DEF TypeInv
<1> QED BY <1>1 DEF Mains

LEMMA BareIs ==
    ASSUME TypeInv
    PROVE  /\ Bare \in SUBSET (Tickers \union (Tickers \X Nat))
           /\ \A x \in Bare : x[1] \in Tickers /\ x[2] \in DOMAIN trades[x[1]]
                              /\ trades[x[1]][x[2]].st = "Open" /\ trades[x[1]][x[2]].stop = 0
<1>1. Bare \subseteq Tickers \X (1..MaxSubmits) BY DEF Bare
<1>2. 1..MaxSubmits \subseteq Nat BY SessionAssumption
<1> QED BY <1>1, <1>2 DEF Bare

LEMMA TickBeginKeeps ==
    ASSUME Inv, PnlConserved, TickBegin PROVE Inv' /\ PnlConserved'
<1>0. TypeInv BY DEF Inv
<1>1. /\ main.pc = "idle"
      /\ UNCHANGED <<day, trades, closed, queue, events, orders, pos, disk, kill, used, tally>>
  BY DEF TickBegin, At, executor, exchange
<1>2. /\ main' \in Mains /\ acct' \in Accounts /\ resetDay' \in 1..MaxDay
      /\ main'.pc \in {"cancel", "exec"}
      /\ main'.pc \in {"cancel", "close", "retry"} => main'.todo \subseteq Tickers
  <2>1. CASE kill.on
    <3>1. main' = [main EXCEPT !.pc = "cancel", !.todo = Tickers] /\ UNCHANGED <<acct, resetDay>>
      BY <2>1 DEF TickBegin
    <3>2. Tickers \in SUBSET (Tickers \union (Tickers \X Nat)) /\ "cancel" \in Pcs BY DEF Pcs
    <3>3. main' \in Mains /\ main'.pc = "cancel" /\ main'.todo = Tickers BY <1>0, <3>1, <3>2, MainIs
    <3> QED BY <1>0, <3>1, <3>3 DEF TypeInv
  <2>2. CASE ~kill.on
    <3>1. /\ main' = [main EXCEPT !.pc = "exec", !.todo = Bare] /\ resetDay' = day
          /\ acct' = IF day # resetDay THEN [acct EXCEPT !.real = 0] ELSE acct
      BY <2>2 DEF TickBegin
    <3>2. Bare \in SUBSET (Tickers \union (Tickers \X Nat)) /\ "exec" \in Pcs
      BY <1>0, BareIs DEF Pcs
    <3>3. main' \in Mains /\ main'.pc = "exec" BY <1>0, <3>1, <3>2, MainIs
    <3>4. acct' \in Accounts
      <4>1. acct \in Accounts BY <1>0 DEF TypeInv
      <4>2. [acct EXCEPT !.real = 0] \in Accounts BY <4>1 DEF Accounts
      <4> QED BY <3>1, <4>1, <4>2
    <3> QED BY <1>0, <3>1, <3>3, <3>4 DEF TypeInv
  <2> QED BY <2>1, <2>2
<1>3. TypeInv' BY <1>0, <1>1, <1>2 DEF TypeInv
<1>4. Up /\ Up' BY <1>1, <1>2 DEF Up
<1> QED BY <1>1, <1>3, <1>4, FrameKeeps

\* A bare trade is armed again, or nothing changes but what is to do.
LEMMA TickExecutorDoes ==
    ASSUME TypeInv, Shape, TickExecutor
    PROVE  /\ UNCHANGED <<day, acct, resetDay, closed, queue, events, pos, disk, kill, tally>>
           /\ Up /\ Up' /\ main' \in Mains /\ main'.pc = "exec"
           /\ used' \in [id : Nat, submits : Nat, boots : Nat, faults : Nat]
           /\ used'.boots = used.boots
           /\ \/ UNCHANGED <<orders, trades>> /\ used'.id = used.id
              \/ \E t \in Tickers : \E i \in DOMAIN trades[t] :
                    LET y == [trades[t][i] EXCEPT !.stop = used.id + 1]
                    IN  /\ used'.id = used.id + 1
                        /\ trades[t][i].st = "Open" /\ trades[t][i].stop = 0
                        /\ y \in Trades /\ y.st = "Open" /\ y.size = trades[t][i].size
                        /\ y.entry = trades[t][i].entry /\ y.tp = trades[t][i].tp
                        /\ y.stop = used.id + 1
                        /\ trades' = [trades EXCEPT ![t] = [trades[t] EXCEPT ![i] = y]]
                        /\ orders' = orders \union
                             {Order(used.id + 1, t, "Stop", trades[t][i].size)}
<1>1. /\ main.pc = "exec"
      /\ UNCHANGED <<day, acct, resetDay, closed, queue, events, pos, disk, kill, tally>>
  BY DEF TickExecutor, At
<1>2. PICK x \in main.todo, ok \in BOOLEAN :
         /\ main' = [main EXCEPT !.todo = @ \ {x}]
         /\ IF ok /\ x \in Bare /\ used.id < MaxOrders
            THEN /\ used' = [used EXCEPT !.id = @ + 1]
                 /\ orders' = orders \cup {Order(used.id + 1, x[1], "Stop", trades[x[1]][x[2]].size)}
                 /\ trades' = [trades EXCEPT ![x[1]][x[2]].stop = used.id + 1]
            ELSE /\ Fail(ok)
                 /\ UNCHANGED <<orders, trades>>
  BY DEF TickExecutor
<1>3. main' \in Mains /\ main'.pc = "exec"
  <2>1. main.todo \ {x} \in SUBSET (Tickers \union (Tickers \X Nat)) BY DEF TypeInv, Mains
  <2>2. main' = [main EXCEPT !.todo = main.todo \ {x}] BY <1>2
  <2>3. main.pc \in Pcs BY DEF TypeInv, Mains
  <2> QED BY <1>1, <2>1, <2>2, <2>3, MainIs
<1>4. Up /\ Up' BY <1>1, <1>3 DEF Up
<1>5. CASE ~(ok /\ x \in Bare /\ used.id < MaxOrders)
  <2>1. Fail(ok) /\ UNCHANGED <<orders, trades>> BY <1>2, <1>5
  <2>2. /\ used' \in [id : Nat, submits : Nat, boots : Nat, faults : Nat]
        /\ used'.id = used.id /\ used'.boots = used.boots
    BY <2>1, FailIs
  <2> QED BY <1>1, <1>3, <1>4, <2>1, <2>2
<1>6. CASE ok /\ x \in Bare /\ used.id < MaxOrders
  <2> DEFINE t == x[1]
             i == x[2]
             z == trades[t][i]
             y == [z EXCEPT !.stop = used.id + 1]
  <2>1. t \in Tickers /\ i \in DOMAIN trades[t] /\ z.st = "Open" /\ z.stop = 0 BY <1>6, BareIs
  <2>2. z \in Trades BY <2>1, TradeIs
  <2>3. /\ used' \in [id : Nat, submits : Nat, boots : Nat, faults : Nat]
        /\ used'.id = used.id + 1 /\ used'.boots = used.boots
    BY <1>2, <1>6, UsedIds
  <2>4. /\ y \in Trades /\ y.st = "Open" /\ y.size = z.size /\ y.entry = z.entry /\ y.tp = z.tp
        /\ y.stop = used.id + 1
    <3>1. used.id + 1 \in Nat BY UsedIs
    <3> HIDE DEF z
    <3> QED BY <2>1, <2>2, <3>1 DEF Trades
  <2>5. /\ trades' = [trades EXCEPT ![t] = [trades[t] EXCEPT ![i] = y]]
        /\ orders' = orders \union {Order(used.id + 1, t, "Stop", z.size)}
    BY <1>2, <1>6
  <2> HIDE DEF t, i
  <2> QED BY <1>1, <1>3, <1>4, <2>1, <2>3, <2>4, <2>5
<1> QED BY <1>5, <1>6

LEMMA TickExecutorKeeps ==
    ASSUME Inv, PnlConserved, TickExecutor PROVE Inv' /\ PnlConserved'
<1>0. TypeInv /\ Shape /\ IdsOK BY DEF Inv
<1>1. /\ UNCHANGED <<day, acct, resetDay, closed, queue, events, pos, disk, kill, tally>>
      /\ Up /\ Up' /\ main' \in Mains /\ main'.pc = "exec"
      /\ used' \in [id : Nat, submits : Nat, boots : Nat, faults : Nat]
  BY <1>0, TickExecutorDoes
<1>2. CASE UNCHANGED <<orders, trades>> /\ used'.id = used.id
  <2>1. TypeInv' BY <1>0, <1>1, <1>2 DEF TypeInv
  <2> QED BY <1>1, <1>2, <2>1, FrameKeeps
<1>3. ASSUME NEW t \in Tickers, NEW i \in DOMAIN trades[t],
             LET y == [trades[t][i] EXCEPT !.stop = used.id + 1]
             IN  /\ used'.id = used.id + 1
                 /\ trades[t][i].st = "Open" /\ trades[t][i].stop = 0
                 /\ y \in Trades /\ y.st = "Open" /\ y.size = trades[t][i].size
                 /\ y.entry = trades[t][i].entry /\ y.tp = trades[t][i].tp
                 /\ y.stop = used.id + 1
                 /\ trades' = [trades EXCEPT ![t] = [trades[t] EXCEPT ![i] = y]]
                 /\ orders' = orders \union {Order(used.id + 1, t, "Stop", trades[t][i].size)}
      PROVE  Inv' /\ PnlConserved'
  <2> DEFINE y == [trades[t][i] EXCEPT !.stop = used.id + 1]
             a == Order(used.id + 1, t, "Stop", trades[t][i].size)
  <2>1. /\ used'.id = used.id + 1 /\ trades[t][i].st = "Open"
        /\ y \in Trades /\ y.st = "Open" /\ y.size = trades[t][i].size
        /\ y.entry = trades[t][i].entry /\ y.tp = trades[t][i].tp /\ y.stop = used.id + 1
        /\ trades' = [trades EXCEPT ![t] = [trades[t] EXCEPT ![i] = y]]
        /\ orders' = orders \union {a}
    BY <1>3
  <2> HIDE DEF y
  <2>2. trades[t][i].size \in Nat \ {0}
    <3>1. trades[t][i] \in Trades BY <1>0, TradeIs
    <3>2. trades[t][i].size > 0 BY <1>0, <2>1 DEF Shape
    <3> QED BY <3>1, <3>2 DEF Trades
  <2>3. used.id \in Nat BY <1>0, UsedIs
  <2>4. a \in OrdersType /\ a.id = used.id + 1 /\ a.tk = t
    <3> DEFINE n == used.id + 1
               z == trades[t][i].size
    <3>1. n \in Nat \ {0} BY <2>3
    <3>2. z \in Nat \ {0} BY <2>2
    <3>3. "Stop" \in {"Entry", "Stop", "Tp"} OBVIOUS
    <3>4. a = Order(n, t, "Stop", z) OBVIOUS
    <3> HIDE DEF n, z, a
    <3>5. Order(n, t, "Stop", z) \in OrdersType /\ Order(n, t, "Stop", z).id = n
          /\ Order(n, t, "Stop", z).tk = t
      BY <3>1, <3>2, <3>3, OrderIs
    <3> QED BY <3>4, <3>5 DEF n
  <2> HIDE DEF a
  <2>5. /\ trades' \in [Tickers -> Seq(Trades)] /\ Shape'
        /\ trades'[t][i] = y /\ DOMAIN trades'[t] = DOMAIN trades[t]
        /\ \A j \in DOMAIN trades[t] : j # i => trades'[t][j] = trades[t][j]
        /\ \A u \in Tickers : u # t => trades'[u] = trades[u]
    <3>1. y.st = "Open" => y.size > 0 BY <2>1, <2>2
    <3> QED BY <1>0, <1>1, <2>1, <3>1, SwapIs
  <2>6. orders' \in SUBSET OrdersType BY <1>0, <2>1, <2>4 DEF TypeInv
  <2>7. TypeInv' BY <1>0, <1>1, <2>5, <2>6 DEF TypeInv
  <2>8. IdsOK'
    <3> DEFINE Q == {used.id + 1}
    <3>1. \A n \in IdsOf(trades'[t][i]) : IdFrom(n, t) \/ n \in Q
      <4> SUFFICES ASSUME NEW n \in IdsOf(y) PROVE IdFrom(n, t) \/ n \in Q BY <2>5
      <4>1. n = trades[t][i].entry \/ n = trades[t][i].tp \/ n \in Q BY <2>1 DEF IdsOf
      <4>2. IdFrom(trades[t][i].entry, t) /\ IdFrom(trades[t][i].tp, t) BY DEF IdFrom, IdsOf
      <4> QED BY <4>1, <4>2
    <3>2. \A u \in Tickers : \A j \in DOMAIN trades'[u] : \A n \in IdsOf(trades'[u][j]) :
             IdFrom(n, u) \/ (u = t /\ n \in Q)
      <4> HIDE DEF Q
      <4> QED BY <2>5, <3>1, SwapIds
    <3>3. \A u \in Tickers : \A j \in DOMAIN trades'[u] : \A n \in IdsOf(trades'[u][j]) :
             \/ IdFrom(n, u)
             \/ n \in (used.id + 1)..used'.id /\ \A x \in orders' \ orders : x.id = n => x.tk = u
      <4>1. \A x \in orders' \ orders : x.tk = t BY <2>1, <2>4
      <4>2. Q \subseteq (used.id + 1)..used'.id BY <2>1, <2>3
      <4> HIDE DEF Q
      <4> QED BY <3>2, <4>1, <4>2
    <3>4. \A x \in orders' : x \in orders \/ x.id \in (used.id + 1)..used'.id BY <2>1, <2>3, <2>4
    <3>5. \A x, z \in orders' \ orders : x.id = z.id => x = z BY <2>1
    <3>6. disk' = disk /\ used'.id \in Nat /\ used.id <= used'.id BY <1>1, <2>1, <2>3
    <3> QED BY <1>0, <3>3, <3>4, <3>5, <3>6, IdsStep
  <2>9. PnlConserved' BY <1>1, PnlSame
  <2> QED BY <2>5, <2>7, <2>8, <2>9 DEF Inv
<1> QED BY <1>0, <1>2, <1>3, TickExecutorDoes

LEMMA TickDrainKeeps ==
    ASSUME Inv, PnlConserved, TickDrain PROVE Inv' /\ PnlConserved'
<1>0. TypeInv /\ Shape /\ IdsOK BY DEF Inv
<1>1. /\ main.pc = "exec" /\ main' = [main EXCEPT !.pc = "sync"]
      /\ acct' = [acct EXCEPT !.real = @ + Total(queue)]
      /\ tally' = [tally EXCEPT !.taken = @ + Total(queue)]
      /\ queue' = <<>>
      /\ UNCHANGED <<day, resetDay, trades, closed, events, orders, pos, disk, kill, used>>
  BY DEF TickDrain, At, Goto, executor, exchange
<1>2. main' \in Mains /\ main'.pc = "sync" BY <1>0, <1>1, MainIs DEF Pcs
<1>3. Up /\ Up' BY <1>1, <1>2 DEF Up
<1>4. closed \in Seq(Int) /\ queue \in Seq(Int) /\ tally \in [made : Int, taken : Int] /\ acct \in Accounts
  BY <1>0 DEF TypeInv
<1>5. Total(queue) \in Int /\ Total(closed) \in Int BY <1>4, TotalInt
<1>6. /\ tally' \in [made : Int, taken : Int] /\ tally'.made = tally.made
      /\ tally'.taken = tally.taken + Total(queue)
  <2> DEFINE n == tally.taken + Total(queue)
  <2>1. n \in Int BY <1>4, <1>5
  <2>2. tally' = [tally EXCEPT !.taken = n] BY <1>1
  <2> HIDE DEF n
  <2>3. tally' \in [made : Int, taken : Int] /\ tally'.made = tally.made /\ tally'.taken = n
    BY <1>4, <2>1, <2>2
  <2> QED BY <2>3 DEF n
<1>7. acct' \in Accounts
  <2>1. acct.real + Total(queue) \in Int BY <1>4, <1>5 DEF Accounts
  <2> QED BY <1>1, <1>4, <2>1 DEF Accounts
<1>8. PnlConserved'
  <2>1. tally.made = tally.taken + Total(closed) + Total(queue) BY <1>3 DEF PnlConserved
  <2>2. Total(queue') = 0 BY <1>1, TotalEmpty
  <2>3. Total(queue)' = Total(queue') /\ Total(closed)' = Total(closed) BY <1>1
  <2>4. tally.made \in Int /\ tally.taken \in Int BY <1>4
  <2>5. tally'.made = tally'.taken + Total(closed)' + Total(queue)'
    BY <1>5, <1>6, <2>1, <2>2, <2>3, <2>4
  <2> QED BY <2>5 DEF PnlConserved
<1>9. queue' \in Seq(Int) BY <1>1
<1>10. TypeInv' BY <1>0, <1>1, <1>2, <1>6, <1>7, <1>9 DEF TypeInv
<1>11. Shape' BY <1>0, <1>1, <1>3 DEF Shape
<1>12. IdsOK'
  <2>1. \A t \in Tickers : \A i \in DOMAIN trades'[t] : \A n \in IdsOf(trades'[t][i]) : IdFrom(n, t)
    BY <1>1, OwnIdFrom
  <2>2. used'.id = used.id /\ disk' = disk /\ orders' \subseteq orders BY <1>1
  <2> QED BY <1>0, <2>1, <2>2, IdsFewer
<1> QED BY <1>8, <1>10, <1>11, <1>12 DEF Inv

\* What is saved has the trades that are not Closed.
LEMMA SavedIs ==
    ASSUME TypeInv, NEW a \in Accounts, NEW k \in BOOLEAN
    PROVE  /\ Saved(a, k) \in Disks /\ Saved(a, k).saved
           /\ \A t \in Tickers : Saved(a, k).trades[t] = Unclosed(trades[t])
<1>1. [t \in Tickers |-> Unclosed(trades[t])] \in [Tickers -> Seq(Trades)] BY UnclosedTyped
<1>2. resetDay \in 1..MaxDay BY DEF TypeInv
<1> QED BY <1>1, <1>2 DEF Saved, Disks

LEMMA SavedIds ==
    ASSUME TypeInv, IdsOK, NEW t \in Tickers, NEW a \in Accounts, NEW k \in BOOLEAN
    PROVE  Owned(Saved(a, k).trades[t], t, used.id, orders)
<1>1. Saved(a, k).trades[t] = Unclosed(trades[t]) BY SavedIs
<1>2. Owned(trades[t], t, used.id, orders) BY DEF IdsOK
<1>3. \A i \in DOMAIN Unclosed(trades[t]) : \E j \in DOMAIN trades[t] :
         Unclosed(trades[t])[i] = trades[t][j]
  BY UnclosedTyped
<1> QED BY <1>1, <1>2, <1>3 DEF Owned

LEMMA TickSyncKeeps ==
    ASSUME Inv, PnlConserved, TickSync PROVE Inv' /\ PnlConserved'
<1>0. TypeInv /\ Shape /\ IdsOK BY DEF Inv
<1>1. /\ main.pc = "sync" /\ main' = [main EXCEPT !.pc = "idle"]
      /\ acct' = [acct EXCEPT !.active = OpenCount, !.kill = kill.on]
      /\ disk' \in {disk, Saved(acct', FALSE)}
      /\ UNCHANGED <<day, resetDay, trades, closed, queue, events, orders, pos, kill, used, tally>>
  BY DEF TickSync, At, Goto, executor, exchange
<1>2. main' \in Mains /\ main'.pc = "idle" BY <1>0, <1>1, MainIs DEF Pcs
<1>3. Up /\ Up' BY <1>1, <1>2 DEF Up
<1>4. OpenCount \in [Tickers -> Nat]
  <2>1. ASSUME NEW t \in Tickers
        PROVE  Cardinality({i \in DOMAIN trades[t] : trades[t][i].st = "Open"}) \in Nat
    <3>1. IsFiniteSet(DOMAIN trades[t]) BY <1>0, TradeIs, UpToIsFinite
    <3>2. {i \in DOMAIN trades[t] : trades[t][i].st = "Open"} \subseteq DOMAIN trades[t] OBVIOUS
    <3> QED BY <3>1, <3>2, FS_Subset, FS_CardinalityType
  <2> QED BY <2>1 DEF OpenCount
<1>5. acct' \in Accounts
  <2>1. acct \in Accounts /\ kill.on \in BOOLEAN BY <1>0 DEF TypeInv
  <2> QED BY <1>1, <1>4, <2>1 DEF Accounts
<1>6. disk' \in Disks
  <2>1. acct' \in Accounts /\ FALSE \in BOOLEAN BY <1>5
  <2>2. Saved(acct', FALSE) \in Disks BY <1>0, <2>1, SavedIs
  <2>3. disk \in Disks BY <1>0 DEF TypeInv
  <2> QED BY <1>1, <2>2, <2>3
<1>7. TypeInv' BY <1>0, <1>1, <1>2, <1>5, <1>6 DEF TypeInv
<1>8. Shape' BY <1>0, <1>1, <1>3 DEF Shape
<1>9. IdsOK'
  <2>1. ASSUME NEW t \in Tickers, disk'.saved PROVE Owned(disk'.trades[t], t, used.id, orders)
    <3>1. CASE disk' = disk BY <1>0, <2>1, <3>1 DEF IdsOK
    <3>2. CASE disk' = Saved(acct', FALSE) BY <1>0, <1>5, <3>2, SavedIds
    <3> QED BY <1>1, <3>1, <3>2
  <2> QED BY <1>0, <1>1, <2>1 DEF IdsOK
<1>10. PnlConserved' BY <1>1, <1>3, PnlSame
<1> QED BY <1>7, <1>8, <1>9, <1>10 DEF Inv

LEMMA TriggerKeeps ==
    ASSUME Inv, PnlConserved, Trigger PROVE Inv' /\ PnlConserved'
<1>1. /\ kill' = [on |-> TRUE, file |-> TRUE]
      /\ UNCHANGED <<day, main, acct, resetDay, trades, closed, queue, events, orders, pos, disk, used, tally>>
  BY DEF Trigger, executor, exchange
<1>2. Up /\ Up' BY <1>1 DEF Trigger, Up
<1>3. TypeInv' BY <1>1 DEF Inv, TypeInv
<1> QED BY <1>1, <1>2, <1>3, FrameKeeps

LEMMA MidnightKeeps ==
    ASSUME Inv, PnlConserved, Midnight PROVE Inv' /\ PnlConserved'
<1>1. /\ day < MaxDay /\ Up /\ day' = day + 1
      /\ UNCHANGED <<main, acct, resetDay, trades, closed, queue, events, orders, pos, disk, kill, used, tally>>
  BY DEF Midnight, executor, exchange
<1>2. Up /\ Up' BY <1>1 DEF Up
<1>3. day' \in 1..MaxDay
  <2>1. day \in 1..MaxDay BY DEF Inv, TypeInv
  <2>2. MaxDay \in Nat BY SessionAssumption
  <2> QED BY <1>1, <2>1, <2>2
<1>4. TypeInv' BY <1>1, <1>3 DEF Inv, TypeInv
<1> QED BY <1>1, <1>2, <1>4, FrameKeeps

\* The operator acts when no process runs.
LEMMA RemoveMarkerKeeps ==
    ASSUME Inv, RemoveMarker PROVE Inv' /\ PnlConserved'
<1>1. /\ kill' = [kill EXCEPT !.file = FALSE]
      /\ UNCHANGED <<day, main, acct, resetDay, trades, closed, queue, events, orders, pos, disk, used, tally>>
  BY DEF RemoveMarker, executor, exchange
<1>2. ~Up /\ ~Up' BY <1>1 DEF RemoveMarker, Gone, Up
<1>3. TypeInv' BY <1>1 DEF Inv, TypeInv
<1>4. Shape' BY <1>1, <1>2 DEF Inv, Shape
<1>5. IdsOK' BY <1>1 DEF Inv, IdsOK
<1> QED BY <1>2, <1>3, <1>4, <1>5 DEF Inv, PnlConserved

LEMMA KillPollKeeps ==
    ASSUME Inv, PnlConserved, KillPoll PROVE Inv' /\ PnlConserved'
<1>0. TypeInv /\ main \in Mains BY DEF Inv, TypeInv
<1>1. /\ main.pc = "poll"
      /\ UNCHANGED <<day, acct, resetDay, trades, closed, queue, events, orders, pos, disk, kill, tally>>
  BY DEF KillPoll, At, executor, exchange
<1>2. Up BY <1>1 DEF Up
<1>3. CASE main' = [main EXCEPT !.pc = "final"] /\ UNCHANGED used
  <2>1. main' \in Mains /\ main'.pc = "final" BY <1>0, <1>3, MainIs DEF Pcs
  <2>2. Up' BY <2>1 DEF Up
  <2>3. TypeInv' BY <1>0, <1>1, <1>3, <2>1 DEF TypeInv
  <2> QED BY <1>1, <1>2, <1>3, <2>2, <2>3, FrameKeeps
<1>4. ASSUME NEW ok \in BOOLEAN, Fail(ok),
             main' = IF ok
                 THEN [main EXCEPT !.pc = "retry", !.polls = @ + 1,
                         !.todo = {t \in Tickers : pos[t] > 0 /\ main.tries[t] < MaxRetries}]
                 ELSE [main EXCEPT !.polls = @ + 1]
      PROVE  Inv' /\ PnlConserved'
  <2> DEFINE todo == {t \in Tickers : pos[t] > 0 /\ main.tries[t] < MaxRetries}
             n == main.polls + 1
  <2>1. n \in Nat BY <1>0 DEF Mains
  <2>2. todo \subseteq Tickers OBVIOUS
  <2>3. main' = IF ok THEN [main EXCEPT !.pc = "retry", !.polls = n, !.todo = todo]
                ELSE [main EXCEPT !.polls = n]
    BY <1>4
  <2> HIDE DEF todo, n
  <2>4. main' \in Mains /\ main'.pc \in {"poll", "retry"}
        /\ (main'.pc = "retry" => main'.todo \subseteq Tickers)
    <3>1. CASE ok BY <1>0, <2>1, <2>2, <2>3, <3>1 DEF Mains, Pcs
    <3>2. CASE ~ok BY <1>0, <1>1, <2>1, <2>3, <3>2 DEF Mains, Pcs
    <3> QED BY <3>1, <3>2
  <2>5. Up' BY <2>4 DEF Up
  <2>6. used' \in [id : Nat, submits : Nat, boots : Nat, faults : Nat] /\ used'.id = used.id
    BY <1>0, <1>4, FailIs
  <2>7. TypeInv' BY <1>0, <1>1, <2>4, <2>6 DEF TypeInv
  <2> QED BY <1>1, <1>2, <2>5, <2>6, <2>7, FrameKeeps
<1> QED BY <1>3, <1>4 DEF KillPoll, Goto

LEMMA KillDeadlineKeeps ==
    ASSUME Inv, PnlConserved, KillDeadline PROVE Inv' /\ PnlConserved'
<1>0. TypeInv BY DEF Inv
<1>1. /\ main.pc \in {"cancel", "fetch", "close", "retry", "poll"} /\ main' = [main EXCEPT !.pc = "final"]
      /\ UNCHANGED <<day, acct, resetDay, trades, closed, queue, events, orders, pos, disk, kill, used, tally>>
  BY DEF KillDeadline, Goto, executor, exchange
<1>2. main' \in Mains /\ main'.pc = "final" BY <1>0, <1>1, MainIs DEF Pcs
<1>3. Up /\ Up' BY <1>1, <1>2 DEF Up
<1>4. TypeInv' BY <1>0, <1>1, <1>2 DEF TypeInv
<1> QED BY <1>1, <1>3, <1>4, FrameKeeps

LEMMA KillFetchKeeps ==
    ASSUME Inv, PnlConserved, KillFetch PROVE Inv' /\ PnlConserved'
<1>0. TypeInv BY DEF Inv
<1>1. PICK ok \in BOOLEAN :
         /\ Fail(ok)
         /\ main' = [main EXCEPT !.pc = "close", !.todo =
              IF ok THEN {t \in Tickers : pos[t] > 0} ELSE {t \in Tickers : OpenCount[t] > 0}]
  BY DEF KillFetch
<1>2. /\ main.pc = "fetch"
      /\ UNCHANGED <<day, acct, resetDay, trades, closed, queue, events, orders, pos, disk, kill, tally>>
  BY DEF KillFetch, At, executor, exchange
<1>3. main' \in Mains /\ main'.pc = "close" /\ main'.todo \subseteq Tickers
  <2> DEFINE todo == IF ok THEN {t \in Tickers : pos[t] > 0} ELSE {t \in Tickers : OpenCount[t] > 0}
  <2>1. todo \subseteq Tickers OBVIOUS
  <2>2. main' = [main EXCEPT !.pc = "close", !.todo = todo] BY <1>1
  <2> HIDE DEF todo
  <2>3. todo \in SUBSET (Tickers \union (Tickers \X Nat)) /\ "close" \in Pcs BY <2>1 DEF Pcs
  <2> QED BY <1>0, <2>1, <2>2, <2>3, MainIs
<1>4. Up /\ Up' BY <1>2, <1>3 DEF Up
<1>5. used' \in [id : Nat, submits : Nat, boots : Nat, faults : Nat] /\ used'.id = used.id
  BY <1>0, <1>1, FailIs
<1>6. TypeInv' BY <1>0, <1>2, <1>3, <1>5 DEF TypeInv
<1> QED BY <1>2, <1>4, <1>5, <1>6, FrameKeeps

LEMMA KillCloseKeeps ==
    ASSUME Inv, PnlConserved, KillClose PROVE Inv' /\ PnlConserved'
<1>0. TypeInv /\ main \in Mains BY DEF Inv, TypeInv
<1>1. /\ main.pc \in {"close", "retry"} /\ main.todo \subseteq Tickers
      /\ UNCHANGED <<day, acct, resetDay, queue, events, disk, kill>>
  BY <1>0 DEF KillClose, TypeInv
<1>2. Up BY <1>1 DEF Up
<1>3. CASE main' = [main EXCEPT !.pc = "poll"] /\ UNCHANGED <<trades, closed, orders, pos, used, tally>>
  <2>1. main' \in Mains /\ main'.pc = "poll" BY <1>0, <1>3, MainIs DEF Pcs
  <2>2. Up' BY <2>1 DEF Up
  <2>3. TypeInv' BY <1>0, <1>1, <1>3, <2>1 DEF TypeInv
  <2> QED BY <1>1, <1>2, <1>3, <2>2, <2>3, FrameKeeps
<1>4. ASSUME NEW t \in main.todo, CloseTrade(t),
             main' = [main EXCEPT !.todo = @ \ {t}, !.tries[t] = IF At("retry") THEN @ + 1 ELSE @]
      PROVE  Inv' /\ PnlConserved'
  <2> DEFINE todo == main.todo \ {t}
             n == IF At("retry") THEN main.tries[t] + 1 ELSE main.tries[t]
             tries == [main.tries EXCEPT ![t] = n]
  <2>1. t \in Tickers BY <1>1
  <2>2. todo \subseteq Tickers BY <1>1
  <2>3. tries \in [Tickers -> Nat]
    <3>1. main.tries \in [Tickers -> Nat] BY <1>0 DEF Mains
    <3>2. n \in Nat BY <2>1, <3>1
    <3> HIDE DEF n
    <3> QED BY <3>1, <3>2
  <2>4. main' = [main EXCEPT !.todo = todo, !.tries = tries] BY <1>4
  <2> HIDE DEF todo, tries
  <2>5. main' \in Mains /\ main'.pc = main.pc /\ main'.todo = todo
    BY <1>0, <2>2, <2>3, <2>4 DEF Mains
  <2>6. Up' BY <1>1, <2>5 DEF Up
  <2> QED BY <1>1, <1>2, <1>4, <2>1, <2>2, <2>5, <2>6, CloseTradeKeeps
<1> QED BY <1>3, <1>4 DEF KillClose, Goto, executor, exchange

\* cancel_all of a ticker: its orders are gone, its trades that are not
\* Closed are Cancelling.
CancelledAt(t) ==
    /\ orders' = {o \in orders : o.tk # t}
    /\ trades' \in [Tickers -> Seq(Trades)]
    /\ DOMAIN trades'[t] = DOMAIN trades[t]
    /\ \A u \in Tickers : u # t => trades'[u] = trades[u]
    /\ \A i \in DOMAIN trades[t] :
          IF trades[t][i].st = "Closed" THEN trades'[t][i] = trades[t][i]
          ELSE trades'[t][i] = [trades[t][i] EXCEPT !.st = "Cancelling"]

LEMMA KillCancelDoes ==
    ASSUME TypeInv, Shape, KillCancel
    PROVE  /\ UNCHANGED <<day, acct, resetDay, closed, queue, events, pos, disk, kill, tally>>
           /\ Up /\ Up' /\ main' \in Mains /\ main'.pc \in {"cancel", "fetch"}
           /\ main'.pc = "cancel" => main'.todo \subseteq Tickers
           /\ used' \in [id : Nat, submits : Nat, boots : Nat, faults : Nat]
           /\ used'.id = used.id /\ used'.boots = used.boots
           /\ \/ UNCHANGED <<orders, trades>>
              \/ \E t \in Tickers : CancelledAt(t)
<1>1. /\ main.pc = "cancel" /\ main.todo \subseteq Tickers
      /\ UNCHANGED <<day, acct, resetDay, closed, queue, events, pos, disk, kill, tally>>
  BY DEF KillCancel, At, TypeInv
<1>2. Up BY <1>1 DEF Up
<1>3. CASE main' = [main EXCEPT !.pc = "fetch"] /\ UNCHANGED <<orders, trades, used>>
  <2>1. main' \in Mains /\ main'.pc = "fetch" BY <1>3, MainIs DEF Pcs
  <2>2. Up' BY <2>1 DEF Up
  <2> QED BY <1>1, <1>2, <1>3, <2>1, <2>2, UsedIs
<1>4. CASE \E t \in main.todo, ok \in BOOLEAN :
            /\ main' = [main EXCEPT !.todo = main.todo \ {t}] /\ Fail(ok)
            /\ IF ok
               THEN /\ orders' = {o \in orders : o.tk # t}
                    /\ trades' = [trades EXCEPT ![t] = [i \in DOMAIN trades[t] |->
                         IF trades[t][i].st = "Closed" THEN trades[t][i]
                         ELSE [trades[t][i] EXCEPT !.st = "Cancelling"]]]
               ELSE UNCHANGED <<orders, trades>>
  <2>0. PICK t \in main.todo, ok \in BOOLEAN :
            /\ main' = [main EXCEPT !.todo = main.todo \ {t}] /\ Fail(ok)
            /\ IF ok
               THEN /\ orders' = {o \in orders : o.tk # t}
                    /\ trades' = [trades EXCEPT ![t] = [i \in DOMAIN trades[t] |->
                         IF trades[t][i].st = "Closed" THEN trades[t][i]
                         ELSE [trades[t][i] EXCEPT !.st = "Cancelling"]]]
               ELSE UNCHANGED <<orders, trades>>
    BY <1>4
  <2> DEFINE todo == main.todo \ {t}
  <2>1. t \in Tickers /\ todo \subseteq Tickers BY <1>1
  <2>2. main' = [main EXCEPT !.todo = todo] BY <2>0
  <2> HIDE DEF todo
  <2>3. todo \in SUBSET (Tickers \union (Tickers \X Nat)) /\ "cancel" \in Pcs BY <2>1 DEF Pcs
  <2>4. main' \in Mains /\ main'.pc = "cancel" /\ main'.todo = todo BY <1>1, <2>2, <2>3, MainIs
  <2>5. Up' BY <2>4 DEF Up
  <2>6. /\ used' \in [id : Nat, submits : Nat, boots : Nat, faults : Nat]
        /\ used'.id = used.id /\ used'.boots = used.boots
    BY <2>0, FailIs
  <2>7. CASE ~ok BY <1>1, <1>2, <2>0, <2>1, <2>4, <2>5, <2>6, <2>7
  <2>8. CASE ok
    <3> DEFINE r == [i \in DOMAIN trades[t] |->
                       IF trades[t][i].st = "Closed" THEN trades[t][i]
                       ELSE [trades[t][i] EXCEPT !.st = "Cancelling"]]
    <3>1. \A i \in DOMAIN trades[t] : r[i] \in Trades
      <4> SUFFICES ASSUME NEW i \in DOMAIN trades[t] PROVE r[i] \in Trades OBVIOUS
      <4>1. trades[t][i] \in Trades BY <2>1, TradeIs
      <4> QED BY <4>1 DEF Trades, TradeStates
    <3>2. DOMAIN trades[t] = 1..Len(trades[t]) /\ Len(trades[t]) \in Nat BY <2>1, TradeIs
    <3>3. r \in Seq(Trades)
      <4> DEFINE n == Len(trades[t])
      <4>1. n \in Nat /\ DOMAIN trades[t] = 1..n BY <3>2
      <4>2. r \in [DOMAIN trades[t] -> Trades] BY <3>1
      <4> HIDE DEF r, n
      <4> QED BY <4>1, <4>2
    <3>4. DOMAIN r = DOMAIN trades[t] /\ \A i \in DOMAIN trades[t] :
             IF trades[t][i].st = "Closed" THEN r[i] = trades[t][i]
             ELSE r[i] = [trades[t][i] EXCEPT !.st = "Cancelling"]
      OBVIOUS
    <3>5. trades' = [trades EXCEPT ![t] = r] /\ orders' = {o \in orders : o.tk # t} BY <2>0, <2>8
    <3> HIDE DEF r
    <3>6. /\ trades' \in [Tickers -> Seq(Trades)] /\ trades'[t] = r
          /\ \A u \in Tickers : u # t => trades'[u] = trades[u]
      BY <2>1, <3>3, <3>5, PutTrades
    <3>7. CancelledAt(t)
      <4>1. \A i \in DOMAIN trades[t] :
               IF trades[t][i].st = "Closed" THEN trades'[t][i] = trades[t][i]
               ELSE trades'[t][i] = [trades[t][i] EXCEPT !.st = "Cancelling"]
        BY <3>4, <3>6
      <4>2. DOMAIN trades'[t] = DOMAIN trades[t] BY <3>4, <3>6
      <4> QED BY <3>5, <3>6, <4>1, <4>2 DEF CancelledAt
    <3> QED BY <1>1, <1>2, <2>1, <2>4, <2>5, <2>6, <3>7
  <2> QED BY <2>7, <2>8
<1>5. \/ main' = [main EXCEPT !.pc = "fetch"] /\ UNCHANGED <<orders, trades, used>>
      \/ \E t \in main.todo, ok \in BOOLEAN :
            /\ main' = [main EXCEPT !.todo = main.todo \ {t}] /\ Fail(ok)
            /\ IF ok
               THEN /\ orders' = {o \in orders : o.tk # t}
                    /\ trades' = [trades EXCEPT ![t] = [i \in DOMAIN trades[t] |->
                         IF trades[t][i].st = "Closed" THEN trades[t][i]
                         ELSE [trades[t][i] EXCEPT !.st = "Cancelling"]]]
               ELSE UNCHANGED <<orders, trades>>
  BY DEF KillCancel, Goto
<1> HIDE DEF KillCancel
<1> QED BY <1>3, <1>4, <1>5

LEMMA KillCancelKeeps ==
    ASSUME Inv, PnlConserved, KillCancel PROVE Inv' /\ PnlConserved'
<1>0. TypeInv /\ Shape /\ IdsOK BY DEF Inv
<1>1. /\ UNCHANGED <<day, acct, resetDay, closed, queue, events, pos, disk, kill, tally>>
      /\ Up /\ Up' /\ main' \in Mains /\ main'.pc \in {"cancel", "fetch"}
      /\ main'.pc = "cancel" => main'.todo \subseteq Tickers
      /\ used' \in [id : Nat, submits : Nat, boots : Nat, faults : Nat] /\ used'.id = used.id
  BY <1>0, KillCancelDoes
<1>2. CASE UNCHANGED <<orders, trades>>
  <2>1. TypeInv' BY <1>0, <1>1, <1>2 DEF TypeInv
  <2> QED BY <1>1, <1>2, <2>1, FrameKeeps
<1>3. ASSUME NEW t \in Tickers, CancelledAt(t)
      PROVE  Inv' /\ PnlConserved'
  <2>0. /\ orders' = {o \in orders : o.tk # t} /\ trades' \in [Tickers -> Seq(Trades)]
        /\ DOMAIN trades'[t] = DOMAIN trades[t]
        /\ \A u \in Tickers : u # t => trades'[u] = trades[u]
        /\ \A i \in DOMAIN trades[t] :
              IF trades[t][i].st = "Closed" THEN trades'[t][i] = trades[t][i]
              ELSE trades'[t][i] = [trades[t][i] EXCEPT !.st = "Cancelling"]
    BY <1>3 DEF CancelledAt
  <2>1. \A i \in DOMAIN trades[t] : trades'[t][i].st # "Open" /\ IdsOf(trades'[t][i]) = IdsOf(trades[t][i])
    <3> SUFFICES ASSUME NEW i \in DOMAIN trades[t]
                 PROVE trades'[t][i].st # "Open" /\ IdsOf(trades'[t][i]) = IdsOf(trades[t][i])
      OBVIOUS
    <3>1. trades[t][i] \in Trades BY <1>0, TradeIs
    <3>2. CASE trades[t][i].st = "Closed" BY <2>0, <3>2
    <3>3. CASE trades[t][i].st # "Closed"
      <4>1. trades'[t][i] = [trades[t][i] EXCEPT !.st = "Cancelling"] BY <2>0, <3>3
      <4> QED BY <3>1, <4>1 DEF Trades, IdsOf
    <3> QED BY <3>2, <3>3
  <2>2. TypeInv' BY <1>0, <1>1, <2>0 DEF TypeInv
  <2>3. Shape'
    <3>1. ASSUME NEW u \in Tickers, NEW i \in DOMAIN trades'[u], trades'[u][i].st = "Open"
          PROVE  trades'[u][i].size > 0
      <4>1. u # t BY <2>0, <2>1, <3>1
      <4>2. trades'[u] = trades[u] BY <2>0, <4>1
      <4> QED BY <1>0, <3>1, <4>2 DEF Shape
    <3> QED BY <1>1, <3>1 DEF Shape
  <2>4. IdsOK'
    <3>1. \A u \in Tickers : \A j \in DOMAIN trades'[u] : \A n \in IdsOf(trades'[u][j]) : IdFrom(n, u)
      <4> SUFFICES ASSUME NEW u \in Tickers, NEW j \in DOMAIN trades'[u], NEW n \in IdsOf(trades'[u][j])
                   PROVE  j \in DOMAIN trades[u] /\ n \in IdsOf(trades[u][j])
        BY OwnIdFrom
      <4>1. CASE u = t BY <2>0, <2>1, <4>1
      <4>2. CASE u # t BY <2>0, <4>2
      <4> QED BY <4>1, <4>2
    <3>2. orders' \subseteq orders BY <2>0
    <3> QED BY <1>0, <1>1, <3>1, <3>2, IdsFewer
  <2>5. PnlConserved' BY <1>1, PnlSame
  <2> QED BY <2>2, <2>3, <2>4, <2>5 DEF Inv
<1> QED BY <1>0, <1>2, <1>3, KillCancelDoes

\* A process that ends forgets what is in memory.
LEMMA EndKeeps ==
    ASSUME Inv, Forget, main' \in Mains, ~Up', main'.pc \notin {"cancel", "close", "retry"},
           disk' \in Disks, disk'.saved => \A t \in Tickers : Owned(disk'.trades[t], t, used.id, orders),
           UNCHANGED <<day, resetDay, orders, pos, used>>
    PROVE  Inv' /\ PnlConserved'
<1>0. TypeInv /\ Shape /\ IdsOK BY DEF Inv
<1>1. /\ trades' = NoTrades /\ closed' = <<>> /\ queue' = <<>>
      /\ events' = [events EXCEPT !.sinceDrain = 0] /\ kill' = [kill EXCEPT !.on = FALSE]
      /\ tally' = [made |-> 0, taken |-> 0] /\ acct' = NewAccount
  BY DEF Forget
<1>2. trades' \in [Tickers -> Seq(Trades)] /\ \A t \in Tickers : trades'[t] = <<>> /\ DOMAIN trades'[t] = {}
  BY <1>1 DEF NoTrades
<1>3. events' \in [total : Nat, sinceDrain : Nat] /\ kill' \in [on : BOOLEAN, file : BOOLEAN]
  BY <1>0, <1>1 DEF TypeInv
<1>4. acct' \in Accounts BY <1>1 DEF NewAccount, Accounts
<1>5. tally' \in [made : Int, taken : Int] /\ closed' \in Seq(Int) /\ queue' \in Seq(Int) BY <1>1
<1>6. TypeInv' BY <1>0, <1>2, <1>3, <1>4, <1>5 DEF TypeInv
<1>7. Shape' BY <1>1, <1>2 DEF Shape
<1>8. IdsOK' BY <1>0, <1>2 DEF IdsOK, Owned
<1> QED BY <1>6, <1>7, <1>8 DEF Inv, PnlConserved

LEMMA DownMainIs ==
    /\ IdleMain \in Mains /\ IdleMain.pc = "idle"
    /\ DownMain \in Mains /\ DownMain.pc = "down"
    /\ [IdleMain EXCEPT !.pc = "exited"] \in Mains /\ [IdleMain EXCEPT !.pc = "exited"].pc = "exited"
<1>1. IdleMain \in Mains /\ IdleMain.pc = "idle" BY DEF IdleMain, Mains, Pcs
<1> HIDE DEF IdleMain
<1>2. DownMain \in Mains /\ DownMain.pc = "down" BY <1>1 DEF DownMain, Mains, Pcs
<1>3. [IdleMain EXCEPT !.pc = "exited"] \in Mains /\ [IdleMain EXCEPT !.pc = "exited"].pc = "exited"
  BY <1>1 DEF Mains, Pcs
<1> QED BY <1>1, <1>2, <1>3

LEMMA KillExitKeeps ==
    ASSUME Inv, KillExit PROVE Inv' /\ PnlConserved'
<1>0. TypeInv /\ Shape /\ IdsOK BY DEF Inv
<1>1. /\ main' = [IdleMain EXCEPT !.pc = "exited"] /\ disk' = Saved(acct, TRUE) /\ Forget
      /\ UNCHANGED <<day, resetDay, orders, pos, used>>
  BY DEF KillExit, exchange
<1>2. main' \in Mains /\ main'.pc = "exited" BY <1>1, DownMainIs
<1>3. ~Up' BY <1>2 DEF Up
<1>4. acct \in Accounts /\ TRUE \in BOOLEAN BY <1>0 DEF TypeInv
<1>5. disk' \in Disks BY <1>0, <1>1, <1>4, SavedIs
<1>6. \A t \in Tickers : Owned(disk'.trades[t], t, used.id, orders) BY <1>0, <1>1, <1>4, SavedIds
<1>7. main'.pc \notin {"cancel", "close", "retry"} BY <1>2
<1> QED BY <1>1, <1>2, <1>3, <1>5, <1>6, <1>7, EndKeeps

LEMMA CrashKeeps ==
    ASSUME Inv, Crash PROVE Inv' /\ PnlConserved'
<1>0. TypeInv /\ Shape /\ IdsOK BY DEF Inv
<1>1. /\ main' = DownMain /\ disk' = disk /\ Forget
      /\ UNCHANGED <<day, resetDay, orders, pos, used>>
  BY DEF Crash, exchange
<1>2. main' \in Mains /\ main'.pc = "down" BY <1>1, DownMainIs
<1>3. ~Up' BY <1>2 DEF Up
<1>5. disk' \in Disks BY <1>0, <1>1 DEF TypeInv
<1>6. disk'.saved => \A t \in Tickers : Owned(disk'.trades[t], t, used.id, orders)
  BY <1>0, <1>1 DEF IdsOK
<1>7. main'.pc \notin {"cancel", "close", "retry"} BY <1>2
<1> QED BY <1>1, <1>2, <1>3, <1>5, <1>6, <1>7, EndKeeps

-----------------------------------------------------------------------------
(* Startup. *)

LEMMA DiskIs ==
    ASSUME TypeInv, disk.saved
    PROVE  /\ disk.acct \in Accounts /\ disk.resetDay \in 1..MaxDay
           /\ disk.trades \in [Tickers -> Seq(Trades)]
<1>1. disk # NoState
  <2>1. NoState.saved = FALSE BY DEF NoState
  <2> QED BY <2>1
<1> QED BY <1>1 DEF TypeInv, Disks

LEMMA OldestIs ==
    ASSUME NEW S \in SUBSET Nat
    PROVE  Oldest(S) \in S \/ Oldest(S) = 0
<1>1. CASE S = {} BY <1>1 DEF Oldest
<1>2. CASE S # {}
  <2>1. \E i \in S : \A j \in S : i <= j BY <1>2, NatMin
  <2> QED BY <1>2, <2>1 DEF Oldest
<1> QED BY <1>1, <1>2

\* The trade rebuilt for a position: its ids are of its ticker, or it is the
\* emergency stop.
LEMMA RecoveredIs ==
    ASSUME TypeInv, IdsOK, boot \in Boots, BootIds, NEW t \in Tickers, boot.pos[t] > 0, NEW e \in Nat
    PROVE  /\ Recovered(t, e) \in Trades
           /\ Recovered(t, e).st = "Open" /\ Recovered(t, e).size = boot.pos[t]
           /\ \A n \in IdsOf(Recovered(t, e)) : IdAt(n, t) \/ (Orphan(t) /\ n = e)
           /\ Orphan(t) /\ e # 0 => Recovered(t, e).stop = e
<1> DEFINE base == IF Orphan(t)
                   THEN [st |-> "Open", entry |-> 0, stop |-> e, tp |-> 0, size |-> 0]
                   ELSE CHOOSE x \in FirstSaved(t) : TRUE
           stop == IF base.stop = 0
                   THEN Oldest(OpenIds(t, "Stop") \ {base.entry, base.stop, base.tp}) ELSE base.stop
           tp == IF base.tp = 0
                 THEN Oldest(OpenIds(t, "Tp") \ {base.entry, base.stop, base.tp}) ELSE base.tp
<1>1. Recovered(t, e) = [base EXCEPT !.st = "Open", !.size = boot.pos[t], !.stop = stop, !.tp = tp]
  BY DEF Recovered
<1>2. boot.pos[t] \in Nat BY DEF Boots
<1>0. IdAt(0, t)
  <2>1. used.id \in Nat BY UsedIs
  <2>2. \A o \in orders : o.id # 0 BY DEF TypeInv, OrdersType
  <2> QED BY <2>1, <2>2 DEF IdAt
<1>3. /\ base \in Trades
      /\ Orphan(t) => base.entry = 0 /\ base.stop = e /\ base.tp = 0
      /\ ~Orphan(t) => \A n \in IdsOf(base) : IdAt(n, t)
  <2>1. CASE Orphan(t)
    <3>1. base = [st |-> "Open", entry |-> 0, stop |-> e, tp |-> 0, size |-> 0] BY <2>1
    <3> HIDE DEF base
    <3> QED BY <2>1, <3>1 DEF Trades, TradeStates
  <2>2. CASE ~Orphan(t)
    <3>1. FirstSaved(t) # {} BY <2>2 DEF Orphan
    <3>2. disk.saved /\ disk.trades[t] # <<>> /\ FirstSaved(t) = {disk.trades[t][1]}
      BY <3>1 DEF FirstSaved
    <3>3. base = disk.trades[t][1] BY <2>2, <3>2
    <3>4. disk.trades[t] \in Seq(Trades) BY <3>2, DiskIs
    <3>5. 1 \in DOMAIN disk.trades[t] BY <3>2, <3>4
    <3>6. disk.trades[t][1] \in Trades BY <3>4, <3>5
    <3>7. Owned(disk.trades[t], t, used.id, orders) BY <3>2 DEF IdsOK
    <3> HIDE DEF base
    <3>8. \A n \in IdsOf(base) : IdAt(n, t) BY <3>3, <3>5, <3>7 DEF Owned, IdAt
    <3> QED BY <2>2, <3>3, <3>6, <3>8
  <2> HIDE DEF base
  <2> QED BY <2>1, <2>2
<1>4. ASSUME NEW k \in {"Stop", "Tp"}, NEW n,
             n = Oldest(OpenIds(t, k) \ {base.entry, base.stop, base.tp})
      PROVE  n \in Nat /\ IdAt(n, t)
  <2> DEFINE S == OpenIds(t, k) \ {base.entry, base.stop, base.tp}
  <2>0. \A o \in boot.open : o.id \in Nat BY SMTT(30) DEF Boots, OrdersType
  <2>1. OpenIds(t, k) \subseteq Nat BY <2>0 DEF OpenIds
  <2>2. S \in SUBSET Nat BY <2>1
  <2>3. n = Oldest(S) BY <1>4
  <2>4. \A i \in S : \E o \in boot.open : o.id = i /\ o.tk = t BY DEF OpenIds
  <2>9. used.id \in Nat BY UsedIs
  <2> HIDE DEF S, base
  <2>5. n \in S \/ n = 0 BY <2>2, <2>3, OldestIs
  <2>8. \A i \in S : i \in Nat BY <2>2
  <2>6. n \in Nat BY <2>5, <2>8
  <2>7. CASE n = 0 BY <1>0, <2>7
  <2>10. CASE n \in S
    <3>1. PICK o \in boot.open : o.id = n /\ o.tk = t BY <2>4, <2>10
    <3>2. n <= used.id /\ \A p \in orders : p.id = n => p.tk = t BY <3>1 DEF BootIds
    <3> QED BY <2>6, <2>9, <3>2 DEF IdAt
  <2> QED BY <2>5, <2>6, <2>7, <2>10
<1>5. /\ stop \in Nat /\ (IdAt(stop, t) \/ (Orphan(t) /\ stop = e))
      /\ Orphan(t) /\ e # 0 => stop = e
  <2>1. base.stop \in Nat BY <1>3 DEF Trades
  <2>2. base.stop # 0 => stop = base.stop OBVIOUS
  <2>3. base.stop = 0 => stop \in Nat /\ IdAt(stop, t) BY <1>4
  <2> HIDE DEF base, stop
  <2> QED BY <1>3, <2>1, <2>2, <2>3 DEF IdsOf
<1>6. tp \in Nat /\ IdAt(tp, t)
  <2>1. base.tp \in Nat BY <1>3 DEF Trades
  <2>2. base.tp # 0 => tp = base.tp OBVIOUS
  <2>3. base.tp = 0 => tp \in Nat /\ IdAt(tp, t) BY <1>4
  <2> HIDE DEF base, tp
  <2> QED BY <1>3, <2>1, <2>2, <2>3 DEF IdsOf
<1>7. IdAt(base.entry, t)
  <2> HIDE DEF base
  <2> QED BY <1>0, <1>3 DEF IdsOf
<1> HIDE DEF base, stop, tp
<1>8. /\ Recovered(t, e) \in Trades /\ Recovered(t, e).st = "Open" /\ Recovered(t, e).size = boot.pos[t]
      /\ Recovered(t, e).entry = base.entry /\ Recovered(t, e).stop = stop /\ Recovered(t, e).tp = tp
  BY <1>1, <1>2, <1>3, <1>5, <1>6 DEF Trades, TradeStates
<1> QED BY <1>5, <1>6, <1>7, <1>8 DEF IdsOf

\* A step of the recovery leaves the process not yet started.
LEMMA BootStill ==
    ASSUME Inv, ~Up, main' \in Mains, main'.pc \in {"orders", "rebuild"},
           acct' \in Accounts, resetDay' \in 1..MaxDay, orders' \in SUBSET OrdersType,
           used' \in [id : Nat, submits : Nat, boots : Nat, faults : Nat], IdsOK',
           UNCHANGED <<day, trades, closed, queue, events, pos, disk, kill, tally>>
    PROVE  Inv' /\ PnlConserved'
<1>0. TypeInv /\ Shape BY DEF Inv
<1>1. ~Up' BY DEF Up
<1>2. TypeInv' BY <1>0 DEF TypeInv
<1>3. Shape' BY <1>0, <1>1 DEF Shape
<1> QED BY <1>1, <1>2, <1>3 DEF Inv, PnlConserved

\* The ids are the old ones if no order is placed.
LEMMA BootIdsOK ==
    ASSUME IdsOK, orders' \subseteq orders, UNCHANGED <<trades, disk>>, used'.id = used.id
    PROVE  IdsOK'
BY DEF IdsOK, Owned

LEMMA BootingIs ==
    ASSUME TypeInv, main.pc \in {"orders", "rebuild"} PROVE ~Up /\ Booting /\ main \in Mains
BY DEF Up, Booting, TypeInv

LEMMA BootPositionsKeeps ==
    ASSUME Inv, BootPositions PROVE Inv' /\ PnlConserved' /\ BootInv'
<1>0. TypeInv /\ IdsOK BY DEF Inv
<1>1. /\ Gone
      /\ acct' = IF disk.saved THEN disk.acct ELSE NewAccount
      /\ resetDay' = IF disk.saved THEN disk.resetDay ELSE day
      /\ main' = [DownMain EXCEPT !.pc = "orders", !.todo = Looked(pos)]
      /\ boot' = [NoBoot EXCEPT !.pos = pos]
      /\ UNCHANGED <<day, trades, closed, queue, events, orders, pos, disk, kill, used, tally>>
  BY DEF BootPositions, executor, exchange
<1>2. ~Up BY <1>1 DEF Gone, Up
<1>3. main' \in Mains /\ main'.pc = "orders" /\ main'.todo = Looked(pos) /\ main'.todo \subseteq Tickers
  <2> DEFINE L == Looked(pos)
  <2>1. L \subseteq Tickers BY DEF Looked
  <2>2. main' = [DownMain EXCEPT !.pc = "orders", !.todo = L] BY <1>1
  <2>3. DownMain \in Mains BY DownMainIs
  <2> HIDE DEF L
  <2>4. main' \in Mains /\ main'.pc = "orders" /\ main'.todo = L BY <2>1, <2>2, <2>3 DEF Mains, Pcs
  <2> QED BY <2>1, <2>4 DEF L
<1>4. acct' \in Accounts /\ resetDay' \in 1..MaxDay
  <2>1. NewAccount \in Accounts BY DEF NewAccount, Accounts
  <2>2. day \in 1..MaxDay BY <1>0 DEF TypeInv
  <2>3. disk.saved => disk.acct \in Accounts /\ disk.resetDay \in 1..MaxDay BY <1>0, DiskIs
  <2> QED BY <1>1, <2>1, <2>2, <2>3
<1>5. IdsOK' BY <1>0, <1>1, BootIdsOK
<1>6. orders' \in SUBSET OrdersType /\ used' \in [id : Nat, submits : Nat, boots : Nat, faults : Nat]
      /\ pos' \in [Tickers -> Nat]
  BY <1>0, <1>1 DEF TypeInv
<1>7. Inv' /\ PnlConserved' BY <1>1, <1>2, <1>3, <1>4, <1>5, <1>6, BootStill
<1>8. /\ boot'.pos = pos /\ boot'.open = {} /\ boot'.cancel = {} /\ boot'.filled = {}
      /\ boot'.trades = NoTrades /\ boot' \in Boots
      /\ NoTrades \in [Tickers -> Seq(Trades)] /\ \A t \in Tickers : boot'.trades[t] = <<>>
  <2>1. NoTrades \in [Tickers -> Seq(Trades)] /\ \A t \in Tickers : NoTrades[t] = <<>>
    <3>1. <<>> \in Seq(Trades) OBVIOUS
    <3> QED BY <3>1 DEF NoTrades
  <2> HIDE DEF NoTrades
  <2>2. pos \in [Tickers -> Nat] BY <1>0 DEF TypeInv
  <2>3. /\ boot'.pos = pos /\ boot'.open = {} /\ boot'.cancel = {} /\ boot'.filled = {}
        /\ boot'.trades = NoTrades
        /\ boot' = [pos |-> pos, open |-> {}, cancel |-> {}, trades |-> NoTrades, filled |-> {}]
    BY <1>1 DEF NoBoot
  <2>4. boot' \in Boots BY <2>1, <2>2, <2>3 DEF Boots
  <2> QED BY <2>1, <2>3, <2>4
<1>9. BootIds'
  <2>1. DOMAIN <<>> = {} OBVIOUS
  <2> QED BY <1>8, <2>1 DEF BootIds, Owned
<1>10. BootPos' BY <1>1, <1>8 DEF BootPos
<1>11. BootTrades' BY <1>3, <1>8 DEF BootTrades
<1>12. BootSeen'
  <2>1. Looked(boot.pos)' = main'.todo BY <1>1, <1>3, <1>8 DEF Looked, FirstSaved
  <2> QED BY <1>3, <2>1 DEF BootSeen
<1>13. BootWell' BY <1>3, <1>8 DEF BootWell
<1>14. Booting' BY <1>3 DEF Booting
<1> QED BY <1>7, <1>9, <1>10, <1>11, <1>12, <1>13, <1>14 DEF BootInv, Underway

LEMMA BootOrdersKeeps ==
    ASSUME Inv, BootInv, BootOrders PROVE Inv' /\ PnlConserved' /\ BootInv'
<1>0. TypeInv /\ IdsOK BY DEF Inv
<1>1. /\ main.pc = "orders"
      /\ UNCHANGED <<day, acct, resetDay, trades, closed, queue, events, orders, pos, disk, kill, used,
                     tally>>
  BY DEF BootOrders, At, executor, exchange
<1>2. ~Up /\ Booting /\ main \in Mains BY <1>0, <1>1, BootingIs
<1>3. Underway BY <1>2 DEF BootInv
<1>4. boot \in Boots /\ main.todo \subseteq Tickers BY <1>3 DEF Underway, BootWell
<1>5. acct' \in Accounts /\ resetDay' \in 1..MaxDay /\ orders' \in SUBSET OrdersType
      /\ used' \in [id : Nat, submits : Nat, boots : Nat, faults : Nat]
  BY <1>0, <1>1 DEF TypeInv
<1>6. IdsOK' BY <1>0, <1>1, BootIdsOK
<1>7. ASSUME main' \in Mains, main'.pc \in {"orders", "rebuild"}, main'.todo \subseteq Tickers,
             boot' \in Boots, boot'.pos = boot.pos, boot'.trades = boot.trades,
             boot'.filled = boot.filled, boot'.open \subseteq boot.open \union orders,
             BootTrades', BootSeen'
      PROVE  Inv' /\ PnlConserved' /\ BootInv'
  <2>1. Inv' /\ PnlConserved' BY <1>1, <1>2, <1>5, <1>6, <1>7, BootStill
  <2>2. BootIds'
    <3>1. \A o \in boot'.open : o.id <= used.id /\ \A p \in orders : p.id = o.id => p.tk = o.tk
      BY <1>0, <1>3, <1>7 DEF Underway, BootIds, IdsOK
    <3> QED BY <1>1, <1>3, <1>7, <3>1 DEF Underway, BootIds
  <2>3. BootPos'
    <3>1. \A t : Missed(t)' = Missed(t) BY <1>7 DEF Missed
    <3> QED BY <1>1, <1>3, <1>7, <3>1 DEF Underway, BootPos
  <2>4. BootWell' BY <1>7 DEF BootWell
  <2>5. Booting' BY <1>7 DEF Booting
  <2> QED BY <1>7, <2>1, <2>2, <2>3, <2>4, <2>5 DEF BootInv, Underway
<1>8. CASE /\ main.todo = {} /\ UNCHANGED boot
           /\ main' = [main EXCEPT !.pc = "rebuild", !.todo = Looked(boot.pos)]
  <2> DEFINE L == Looked(boot.pos)
  <2>1. L \subseteq Tickers BY DEF Looked
  <2>2. main' = [main EXCEPT !.pc = "rebuild", !.todo = L] BY <1>8
  <2> HIDE DEF L
  <2>3. main' \in Mains /\ main'.pc = "rebuild" /\ main'.todo = L BY <1>2, <2>1, <2>2 DEF Mains, Pcs
  <2>4. \A t \in Tickers : boot.pos[t] > 0 => t \in L BY DEF L, Looked
  <2>5. BootTrades' BY <1>3, <1>8, <2>3, <2>4 DEF Underway, BootTrades
  <2>6. Looked(boot.pos)' = L BY <1>1, <1>8 DEF L, Looked, FirstSaved
  <2>7. BootSeen' BY <1>1, <1>3, <1>8, <2>3, <2>6 DEF Underway, BootSeen, L
  <2> QED BY <1>4, <1>7, <1>8, <2>1, <2>3, <2>5, <2>7
<1>9. ASSUME NEW t \in main.todo, main' = [main EXCEPT !.todo = @ \ {t}],
             boot' = [boot EXCEPT !.open = @ \cup {o \in orders : o.tk = t}]
      PROVE  Inv' /\ PnlConserved' /\ BootInv'
  <2> DEFINE todo == main.todo \ {t}
             open == boot.open \cup {o \in orders : o.tk = t}
  <2>1. main' = [main EXCEPT !.todo = todo] /\ todo \subseteq Tickers BY <1>4, <1>9
  <2>2. boot' = [boot EXCEPT !.open = open] BY <1>9
  <2>3. open \in SUBSET OrdersType BY <1>0, <1>4 DEF TypeInv, Boots
  <2>9. open \subseteq boot.open \union orders /\ boot.open \subseteq open
        /\ (\A o \in orders : o.tk = t => o \in open)
    OBVIOUS
  <2> HIDE DEF todo, open
  <2>4. main' \in Mains /\ main'.pc = "orders" /\ main'.todo = todo BY <1>1, <1>2, <2>1 DEF Mains
  <2>5. /\ boot' \in Boots /\ boot'.pos = boot.pos /\ boot'.trades = boot.trades
        /\ boot'.filled = boot.filled /\ boot'.open = open
    BY <1>4, <2>2, <2>3 DEF Boots
  <2>6. BootTrades' BY <1>3, <2>4, <2>5 DEF Underway, BootTrades
  <2>7. Looked(boot.pos)' = Looked(boot.pos) BY <1>1, <2>5 DEF Looked, FirstSaved
  <2>8. BootSeen'
    <3> SUFFICES ASSUME NEW o \in orders', o.tk \in Looked(boot.pos)', o.tk \notin main'.todo
                 PROVE  o \in boot'.open
      BY <2>4 DEF BootSeen
    <3>1. CASE o.tk = t BY <1>1, <2>5, <2>9, <3>1
    <3>2. CASE o.tk # t
      <4>1. o.tk \notin main.todo BY <2>4, <3>2 DEF todo
      <4>2. o \in boot.open BY <1>1, <1>3, <2>7, <4>1 DEF Underway, BootSeen
      <4> QED BY <2>5, <2>9, <4>2
    <3> QED BY <3>1, <3>2
  <2> QED BY <1>7, <2>1, <2>4, <2>5, <2>6, <2>8, <2>9
<1> QED BY <1>8, <1>9 DEF BootOrders

\* What the step of one ticker does, e being its emergency stop, or 0.
TickerDoes(t, e) ==
    /\ main.pc = "rebuild" /\ t \in main.todo /\ boot.cancel = {}
    /\ e = 0 \/ (e = used.id + 1 /\ Orphan(t))
    /\ used' \in [id : Nat, submits : Nat, boots : Nat, faults : Nat]
    /\ used'.id = (IF e = 0 THEN used.id ELSE e) /\ used'.boots = used.boots
    /\ orders' = orders \cup (IF e = 0 THEN {} ELSE {Order(e, t, "Stop", boot.pos[t])})
    /\ boot' = [boot EXCEPT
         !.trades = [@ EXCEPT ![t] = IF boot.pos[t] > 0 THEN <<Recovered(t, e)>> ELSE <<>>],
         !.cancel = {o \in boot.open : /\ o.tk = t
                                       /\ boot.pos[t] > 0 => o.id \notin IdsOf(Recovered(t, e))}]
    /\ main' = [main EXCEPT !.todo = @ \ {t}]
    /\ UNCHANGED <<day, acct, resetDay, trades, closed, queue, events, pos, disk, kill, tally>>

LEMMA TickerIs ==
    ASSUME TypeInv, NEW t \in Tickers, BootTicker(t) PROVE \E e \in Nat : TickerDoes(t, e)
<1>1. PICK ok \in BOOLEAN :
         LET placed == ok /\ Orphan(t)
             mine == Recovered(t, IF placed THEN used.id + 1 ELSE 0)
             owned == IF boot.pos[t] > 0 THEN {mine.entry, mine.stop, mine.tp} ELSE {}
         IN  /\ used' = [used EXCEPT !.id = @ + (IF placed THEN 1 ELSE 0),
                                     !.faults = @ + (IF ok THEN 0 ELSE 1)]
             /\ orders' = orders \cup
                  (IF placed THEN {Order(used.id + 1, t, "Stop", boot.pos[t])} ELSE {})
             /\ boot' = [boot EXCEPT
                  !.trades[t] = IF boot.pos[t] > 0 THEN <<mine>> ELSE <<>>,
                  !.cancel = {o \in boot.open : o.tk = t /\ o.id \notin owned}]
  BY DEF BootTicker
<1>2. /\ main.pc = "rebuild" /\ t \in main.todo /\ boot.cancel = {}
      /\ main' = [main EXCEPT !.todo = @ \ {t}]
      /\ UNCHANGED <<day, acct, resetDay, trades, closed, queue, events, pos, disk, kill, tally>>
  BY DEF BootTicker, At, executor
<1> DEFINE placed == ok /\ Orphan(t)
           e == IF placed THEN used.id + 1 ELSE 0
           d == used.id + (IF placed THEN 1 ELSE 0)
           f == used.faults + (IF ok THEN 0 ELSE 1)
           mine == Recovered(t, e)
           owned == IF boot.pos[t] > 0 THEN {mine.entry, mine.stop, mine.tp} ELSE {}
<1>3. used \in [id : Nat, submits : Nat, boots : Nat, faults : Nat] /\ used.id \in Nat BY UsedIs
<1>4. /\ used' = [used EXCEPT !.id = d, !.faults = f]
      /\ orders' = orders \cup (IF placed THEN {Order(used.id + 1, t, "Stop", boot.pos[t])} ELSE {})
      /\ boot' = [boot EXCEPT
           !.trades = [@ EXCEPT ![t] = IF boot.pos[t] > 0 THEN <<mine>> ELSE <<>>],
           !.cancel = {o \in boot.open : o.tk = t /\ o.id \notin owned}]
  BY <1>1
<1> HIDE DEF mine
<1>5. {o \in boot.open : o.tk = t /\ o.id \notin owned}
        = {o \in boot.open : o.tk = t /\ (boot.pos[t] > 0 => o.id \notin IdsOf(mine))}
  BY DEF IdsOf
<1>6. d \in Nat /\ f \in Nat /\ e \in Nat /\ (IF e = 0 THEN used.id ELSE e) = d /\ (e = 0 <=> ~placed)
      /\ (placed => e = used.id + 1)
  BY <1>3
<1>7. used' \in [id : Nat, submits : Nat, boots : Nat, faults : Nat] /\ used'.id = d
      /\ used'.boots = used.boots
  <2> HIDE DEF d, f
  <2> QED BY <1>3, <1>4, <1>6
<1>8. e = 0 \/ (e = used.id + 1 /\ Orphan(t)) OBVIOUS
<1> HIDE DEF placed, e, d, f
<1>9. orders' = orders \cup (IF e = 0 THEN {} ELSE {Order(e, t, "Stop", boot.pos[t])})
  BY <1>4, <1>6
<1>10. boot' = [boot EXCEPT
         !.trades = [@ EXCEPT ![t] = IF boot.pos[t] > 0 THEN <<mine>> ELSE <<>>],
         !.cancel = {o \in boot.open : o.tk = t /\ (boot.pos[t] > 0 => o.id \notin IdsOf(mine))}]
  BY <1>4, <1>5
<1>11. TickerDoes(t, e) BY <1>2, <1>6, <1>7, <1>8, <1>9, <1>10 DEF TickerDoes, mine
<1> QED BY <1>6, <1>11

\* The orders after the step of a ticker, and the trade rebuilt.
LEMMA TickerGives ==
    ASSUME Inv, Underway, NEW t \in Tickers, NEW e \in Nat, TickerDoes(t, e)
    PROVE  /\ orders' \in SUBSET OrdersType /\ orders \subseteq orders'
           /\ \A o \in orders' : o \in orders \/ (e # 0 /\ o.id = e /\ o.tk = t /\ boot.pos[t] > 0)
           /\ \A o, p \in orders' \ orders : o = p
           /\ boot'.pos = boot.pos /\ boot'.open = boot.open /\ boot'.filled = boot.filled
           /\ boot' \in Boots
           /\ \A u \in Tickers : u # t => boot'.trades[u] = boot.trades[u]
           /\ boot.pos[t] > 0 => /\ boot'.trades[t] = <<Recovered(t, e)>> /\ Len(boot'.trades[t]) = 1
                                 /\ DOMAIN boot'.trades[t] = {1}
                                 /\ boot'.trades[t][1] = Recovered(t, e)
           /\ ~(boot.pos[t] > 0) => boot'.trades[t] = <<>> /\ DOMAIN boot'.trades[t] = {}
           /\ boot'.cancel = {o \in boot.open :
                /\ o.tk = t /\ (boot.pos[t] > 0 => o.id \notin IdsOf(Recovered(t, e)))}
<1>0. TypeInv /\ IdsOK BY DEF Inv
<1>1. boot \in Boots /\ BootIds BY DEF Underway, BootWell
<1>2. used.id \in Nat BY <1>0, UsedIs
<1> DEFINE p == boot.pos[t]
           r == Recovered(t, e)
           s == IF p > 0 THEN <<r>> ELSE <<>>
           c == {o \in boot.open : o.tk = t /\ (p > 0 => o.id \notin IdsOf(r))}
<1>3. p \in Nat BY <1>1 DEF Boots
<1>4. p > 0 => r \in Trades BY <1>0, <1>1, RecoveredIs
<1>5. boot' = [boot EXCEPT !.trades = [@ EXCEPT ![t] = s], !.cancel = c] BY DEF TickerDoes
<1>6. c \in SUBSET OrdersType BY <1>1 DEF Boots
<1>7. e # 0 => p > 0 /\ e = used.id + 1 BY DEF TickerDoes, Orphan
<1>8. orders' = orders \cup (IF e = 0 THEN {} ELSE {Order(e, t, "Stop", p)}) BY DEF TickerDoes
<1> HIDE DEF r, p, c
<1>9. /\ s \in Seq(Trades)
      /\ p > 0 => s = <<r>> /\ Len(s) = 1 /\ DOMAIN s = {1} /\ s[1] = r
      /\ ~(p > 0) => s = <<>> /\ DOMAIN s = {}
  <2>1. CASE p > 0
    <3>1. s = <<r>> BY <2>1
    <3>2. r \in Trades BY <1>4, <2>1
    <3> HIDE DEF s
    <3> QED BY <2>1, <3>1, <3>2
  <2>2. CASE ~(p > 0)
    <3>1. s = <<>> BY <2>2
    <3> HIDE DEF s
    <3>2. <<>> \in Seq(Trades) /\ DOMAIN <<>> = {} OBVIOUS
    <3> QED BY <2>2, <3>1, <3>2
  <2> QED BY <2>1, <2>2
<1> HIDE DEF s
<1>10. /\ boot'.pos = boot.pos /\ boot'.open = boot.open /\ boot'.filled = boot.filled
       /\ boot' \in Boots /\ boot'.trades[t] = s /\ boot'.cancel = c
       /\ \A u \in Tickers : u # t => boot'.trades[u] = boot.trades[u]
  <2> DEFINE b == [boot.trades EXCEPT ![t] = s]
  <2>1. boot.trades \in [Tickers -> Seq(Trades)] BY <1>1 DEF Boots
  <2>2. b \in [Tickers -> Seq(Trades)] /\ b[t] = s /\ \A u \in Tickers : u # t => b[u] = boot.trades[u]
    BY <1>9, <2>1
  <2>3. boot' = [boot EXCEPT !.trades = b, !.cancel = c] BY <1>5
  <2> HIDE DEF b
  <2>4. /\ boot'.pos = boot.pos /\ boot'.open = boot.open /\ boot'.filled = boot.filled
        /\ boot' \in Boots /\ boot'.trades = b /\ boot'.cancel = c
    BY <1>1, <1>6, <2>2, <2>3 DEF Boots
  <2> QED BY <2>2, <2>4
<1>11. e # 0 => /\ Order(e, t, "Stop", p) \in OrdersType /\ Order(e, t, "Stop", p).id = e
                /\ Order(e, t, "Stop", p).tk = t
  <2> SUFFICES ASSUME e # 0 PROVE /\ Order(e, t, "Stop", p) \in OrdersType
                                  /\ Order(e, t, "Stop", p).id = e /\ Order(e, t, "Stop", p).tk = t
    OBVIOUS
  <2>1. e \in Nat \ {0} /\ p \in Nat \ {0} BY <1>3, <1>7
  <2>2. "Stop" \in {"Entry", "Stop", "Tp"} OBVIOUS
  <2> QED BY <2>1, <2>2, OrderIs
<1>12. orders \in SUBSET OrdersType BY <1>0 DEF TypeInv
<1>13. /\ orders' \in SUBSET OrdersType /\ orders \subseteq orders'
       /\ \A o \in orders' : o \in orders \/ (e # 0 /\ o.id = e /\ o.tk = t /\ p > 0)
       /\ \A o, q \in orders' \ orders : o = q
  BY <1>7, <1>8, <1>11, <1>12
<1> QED BY <1>9, <1>10, <1>13 DEF p, r, c

LEMMA BootTickerKeeps ==
    ASSUME Inv, BootInv, NEW t \in Tickers, BootTicker(t) PROVE Inv' /\ PnlConserved' /\ BootInv'
<1>0. TypeInv /\ IdsOK BY DEF Inv
<1>1. PICK e \in Nat : TickerDoes(t, e) BY <1>0, TickerIs
<1>2. main.pc = "rebuild" BY <1>1 DEF TickerDoes
<1>3. ~Up /\ Booting /\ main \in Mains BY <1>0, <1>2, BootingIs
<1>4. Underway BY <1>3 DEF BootInv
<1>5. boot \in Boots /\ main.todo \subseteq Tickers /\ BootIds BY <1>4 DEF Underway, BootWell
<1>6. used.id \in Nat BY <1>0, UsedIs
<1>7. /\ t \in main.todo /\ boot.cancel = {}
      /\ e = 0 \/ (e = used.id + 1 /\ Orphan(t))
      /\ used' \in [id : Nat, submits : Nat, boots : Nat, faults : Nat]
      /\ used'.id = (IF e = 0 THEN used.id ELSE e)
      /\ main' = [main EXCEPT !.todo = @ \ {t}]
      /\ UNCHANGED <<day, acct, resetDay, trades, closed, queue, events, pos, disk, kill, tally>>
  BY <1>1 DEF TickerDoes
<1>8. main' \in Mains /\ main'.pc = "rebuild" /\ main'.todo = main.todo \ {t}
  <2> DEFINE todo == main.todo \ {t}
  <2>1. main' = [main EXCEPT !.todo = todo] /\ todo \subseteq Tickers BY <1>5, <1>7
  <2> HIDE DEF todo
  <2>2. main' \in Mains /\ main'.pc = "rebuild" /\ main'.todo = todo BY <1>2, <1>3, <2>1 DEF Mains
  <2> QED BY <2>2 DEF todo
<1>9. /\ orders' \in SUBSET OrdersType /\ orders \subseteq orders'
      /\ \A o \in orders' : o \in orders \/ (e # 0 /\ o.id = e /\ o.tk = t /\ boot.pos[t] > 0)
      /\ \A o, p \in orders' \ orders : o = p
      /\ boot'.pos = boot.pos /\ boot'.open = boot.open /\ boot'.filled = boot.filled
      /\ boot' \in Boots
      /\ \A u \in Tickers : u # t => boot'.trades[u] = boot.trades[u]
  BY <1>1, <1>4, TickerGives
<1>10. boot.pos[t] > 0 => /\ boot'.trades[t] = <<Recovered(t, e)>> /\ Len(boot'.trades[t]) = 1
                          /\ DOMAIN boot'.trades[t] = {1} /\ boot'.trades[t][1] = Recovered(t, e)
  BY <1>1, <1>4, TickerGives
<1>11. ~(boot.pos[t] > 0) => boot'.trades[t] = <<>> /\ DOMAIN boot'.trades[t] = {}
  BY <1>1, <1>4, TickerGives
<1>12. boot'.cancel = {o \in boot.open :
          /\ o.tk = t /\ (boot.pos[t] > 0 => o.id \notin IdsOf(Recovered(t, e)))}
  BY <1>1, <1>4, TickerGives
<1>13. boot.pos[t] > 0 =>
         /\ Recovered(t, e).st = "Open" /\ Recovered(t, e).size = boot.pos[t]
         /\ \A n \in IdsOf(Recovered(t, e)) : IdAt(n, t) \/ n = e
         /\ e # 0 => Recovered(t, e).stop = e
  <2> SUFFICES ASSUME boot.pos[t] > 0
               PROVE  /\ Recovered(t, e).st = "Open" /\ Recovered(t, e).size = boot.pos[t]
                      /\ \A n \in IdsOf(Recovered(t, e)) : IdAt(n, t) \/ n = e
                      /\ e # 0 => Recovered(t, e).stop = e
    OBVIOUS
  <2>1. /\ Recovered(t, e).st = "Open" /\ Recovered(t, e).size = boot.pos[t]
        /\ \A n \in IdsOf(Recovered(t, e)) : IdAt(n, t) \/ (Orphan(t) /\ n = e)
        /\ Orphan(t) /\ e # 0 => Recovered(t, e).stop = e
    BY <1>0, <1>5, RecoveredIs
  <2>2. e # 0 => Orphan(t) BY <1>7
  <2> QED BY <2>1, <2>2
<1>14. used'.id \in Nat /\ used.id <= used'.id /\ (e # 0 => e = used.id + 1 /\ used'.id = e)
  BY <1>6, <1>7
<1>15. \A o \in orders : o.id \in Nat /\ o.id > 0 /\ o.id <= used.id
  <2>1. \A o \in orders : o.id \in Nat /\ o.id > 0 BY <1>0, SMTT(30) DEF TypeInv, OrdersType
  <2>2. \A o \in orders : o.id <= used.id BY <1>0 DEF IdsOK
  <2> QED BY <2>1, <2>2
<1>16. IdsOK'
  <2>1. \A o \in orders' : o \in orders \/ (o.id \in (used.id + 1)..used'.id)
    BY <1>6, <1>9, <1>14
  <2>2. \A o, p \in orders' \ orders : o.id = p.id => o = p BY <1>9
  <2>3. \A u \in Tickers : \A i \in DOMAIN trades'[u] : \A n \in IdsOf(trades'[u][i]) : IdFrom(n, u)
    BY <1>7 DEF IdFrom
  <2> QED BY <1>0, <1>7, <1>14, <2>1, <2>2, <2>3, IdsStep
<1>17. Inv' /\ PnlConserved'
  <2>1. acct' \in Accounts /\ resetDay' \in 1..MaxDay BY <1>0, <1>7 DEF TypeInv
  <2> QED BY <1>3, <1>7, <1>8, <1>9, <1>16, <2>1, BootStill
<1>18. BootIds'
  <2>1. ASSUME NEW o \in boot'.open
        PROVE  o.id <= used'.id /\ \A p \in orders' : p.id = o.id => p.tk = o.tk
    <3>1. o.id <= used.id /\ \A p \in orders : p.id = o.id => p.tk = o.tk BY <1>5, <1>9, <2>1 DEF BootIds
    <3>2. o.id \in Nat
      <4>1. o \in OrdersType BY <1>5, <1>9, <2>1 DEF Boots
      <4> QED BY <4>1 DEF OrdersType
    <3>3. \A p \in orders' : p \in orders \/ p.id = used.id + 1 BY <1>9, <1>14
    <3> QED BY <1>6, <1>14, <3>1, <3>2, <3>3
  <2>2. \A o \in boot'.filled : o.id <= used'.id
    <3>1. \A o \in boot.filled : o.id \in Nat BY <1>5, SMTT(30) DEF Boots, OrdersType
    <3>2. \A o \in boot.filled : o.id <= used.id BY <1>5 DEF BootIds
    <3> QED BY <1>6, <1>9, <1>14, <3>1, <3>2
  <2>3. ASSUME NEW u \in Tickers, NEW n, IdAt(n, u)
        PROVE  n \in 0..used'.id /\ \A o \in orders' : o.id = n => o.tk = u
    <3>1. n \in 0..used.id /\ \A o \in orders : o.id = n => o.tk = u BY <2>3 DEF IdAt
    <3>2. \A o \in orders' : o \in orders \/ o.id = used.id + 1 BY <1>9, <1>14
    <3> QED BY <1>6, <1>14, <3>1, <3>2
  <2>4. ASSUME NEW u \in Tickers, NEW i \in DOMAIN boot'.trades[u], NEW n \in IdsOf(boot'.trades[u][i])
        PROVE  n \in 0..used'.id /\ \A o \in orders' : o.id = n => o.tk = u
    <3>1. CASE u # t
      <4>1. boot'.trades[u] = boot.trades[u] BY <1>9, <3>1
      <4>2. IdAt(n, u) BY <1>5, <2>4, <4>1 DEF BootIds, Owned, IdAt
      <4> QED BY <2>3, <4>2
    <3>2. CASE u = t
      <4>1. boot.pos[t] > 0 BY <1>11, <2>4, <3>2
      <4>2. i = 1 /\ n \in IdsOf(Recovered(t, e)) BY <1>10, <2>4, <3>2, <4>1
      <4>3. CASE IdAt(n, t) BY <2>3, <3>2, <4>3
      <4>4. CASE n = e /\ e # 0
        <5>1. n \in 0..used'.id BY <1>6, <1>14, <4>4
        <5>2. \A o \in orders' : o.id = n => o.tk = t BY <1>6, <1>9, <1>14, <1>15, <4>4
        <5> QED BY <3>2, <5>1, <5>2
      <4>5. CASE n = e /\ e = 0
        <5>1. IdAt(0, t) BY <1>6, <1>15 DEF IdAt
        <5> QED BY <2>3, <3>2, <4>5, <5>1
      <4> QED BY <1>13, <4>1, <4>2, <4>3, <4>4, <4>5
    <3> QED BY <3>1, <3>2
  <2>5. \A u \in Tickers : Owned(boot'.trades[u], u, used'.id, orders') BY <2>4 DEF Owned
  <2> QED BY <2>1, <2>2, <2>5 DEF BootIds
<1>19. BootPos'
  <2>1. \A u : Missed(u)' = Missed(u) BY <1>9 DEF Missed
  <2> QED BY <1>4, <1>7, <1>9, <2>1 DEF Underway, BootPos
<1>20. BootTrades'
  <2> SUFFICES ASSUME NEW u \in Tickers
               PROVE  /\ boot'.trades[u] # <<>> =>
                           /\ Len(boot'.trades[u]) = 1 /\ boot'.trades[u][1].st = "Open"
                           /\ boot'.trades[u][1].size = boot'.pos[u] /\ boot'.pos[u] > 0
                      /\ u \notin main'.todo /\ boot'.pos[u] > 0 => boot'.trades[u] # <<>>
    BY DEF BootTrades
  <2>1. CASE u # t
    <3>1. boot'.trades[u] = boot.trades[u] /\ boot'.pos = boot.pos BY <1>9, <2>1
    <3>2. u \notin main'.todo => u \notin main.todo BY <1>8, <2>1
    <3> QED BY <1>2, <1>4, <3>1, <3>2 DEF Underway, BootTrades
  <2>2. CASE u = t /\ boot.pos[t] > 0
    <3>1. /\ Len(boot'.trades[t]) = 1 /\ boot'.trades[t][1] = Recovered(t, e)
          /\ boot'.trades[t] = <<Recovered(t, e)>>
      BY <1>10, <2>2
    <3>2. boot'.trades[t] # <<>> BY <3>1
    <3>3. Recovered(t, e).st = "Open" /\ Recovered(t, e).size = boot.pos[t] BY <1>13, <2>2
    <3> QED BY <1>9, <2>2, <3>1, <3>2, <3>3
  <2>3. CASE u = t /\ ~(boot.pos[t] > 0) BY <1>9, <1>11, <2>3
  <2> QED BY <2>1, <2>2, <2>3
<1>21. BootSeen'
  <2>0. Looked(boot.pos)' = Looked(boot.pos) BY <1>7, <1>9 DEF Looked, FirstSaved
  <2> SUFFICES ASSUME NEW o \in orders', o.tk \in Looked(boot.pos)
               PROVE  /\ o.tk \in main'.todo => o \in boot'.open
                      /\ o.tk \notin main'.todo =>
                           \/ o \in boot'.cancel
                           \/ boot'.trades[o.tk] # <<>> /\ o.id \in IdsOf(boot'.trades[o.tk][1])
    BY <1>8, <2>0 DEF BootSeen
  <2>1. CASE o.tk # t
    <3>1. o \in orders BY <1>9, <2>1
    <3>2. o.tk \in main'.todo <=> o.tk \in main.todo BY <1>8, <2>1
    <3>3. o.tk \in Tickers BY <1>0, <3>1 DEF TypeInv, OrdersType
    <3>4. boot'.trades[o.tk] = boot.trades[o.tk] BY <1>9, <2>1, <3>3
    <3>5. o \notin boot.cancel BY <1>7
    <3>6. /\ o.tk \in main.todo => o \in boot.open
          /\ o.tk \notin main.todo =>
               boot.trades[o.tk] # <<>> /\ o.id \in IdsOf(boot.trades[o.tk][1])
      BY <1>2, <1>4, <3>1, <3>5 DEF Underway, BootSeen
    <3> QED BY <1>9, <3>2, <3>4, <3>6
  <2>2. CASE o.tk = t
    <3>1. o.tk \notin main'.todo BY <1>8, <2>2
    <3>2. CASE o \in orders
      <4>1. o \in boot.open BY <1>2, <1>4, <1>7, <2>2, <3>2 DEF Underway, BootSeen
      <4>2. CASE boot.pos[t] > 0 /\ o.id \in IdsOf(Recovered(t, e))
        <5>1. boot'.trades[t] = <<Recovered(t, e)>> /\ boot'.trades[t][1] = Recovered(t, e)
          BY <1>10, <4>2
        <5> QED BY <2>2, <3>1, <4>2, <5>1
      <4>3. CASE ~(boot.pos[t] > 0 /\ o.id \in IdsOf(Recovered(t, e)))
        <5>1. o \in boot'.cancel BY <1>12, <2>2, <4>1, <4>3
        <5> QED BY <3>1, <5>1
      <4> QED BY <4>2, <4>3
    <3>3. CASE o \notin orders
      <4>1. e # 0 /\ o.id = e /\ boot.pos[t] > 0 BY <1>9, <3>3
      <4>2. boot'.trades[t] = <<Recovered(t, e)>> /\ boot'.trades[t][1] = Recovered(t, e)
        BY <1>10, <4>1
      <4>3. o.id \in IdsOf(Recovered(t, e)) BY <1>13, <4>1 DEF IdsOf
      <4> QED BY <2>2, <3>1, <4>2, <4>3
    <3> QED BY <3>2, <3>3
  <2> QED BY <2>1, <2>2
<1>22. BootWell' BY <1>5, <1>8, <1>9 DEF BootWell
<1>23. Booting' BY <1>8 DEF Booting
<1> QED BY <1>17, <1>18, <1>19, <1>20, <1>21, <1>22, <1>23 DEF BootInv, Underway

LEMMA BootCancelKeeps ==
    ASSUME Inv, BootInv, BootCancel PROVE Inv' /\ PnlConserved' /\ BootInv'
<1>0. TypeInv /\ IdsOK BY DEF Inv
<1>1. PICK o \in boot.cancel :
         orders' = orders \ {o} /\ boot' = [boot EXCEPT !.cancel = @ \ {o}]
  BY DEF BootCancel
<1>2. /\ main.pc = "rebuild"
      /\ UNCHANGED <<day, main, acct, resetDay, trades, closed, queue, events, pos, disk, kill, used, tally>>
  BY DEF BootCancel, At, executor
<1>3. ~Up /\ Booting /\ main \in Mains BY <1>0, <1>2, BootingIs
<1>4. Underway BY <1>3 DEF BootInv
<1>5. boot \in Boots /\ main.todo \subseteq Tickers BY <1>4 DEF Underway, BootWell
<1>6. orders' \in SUBSET OrdersType /\ orders' \subseteq orders BY <1>0, <1>1 DEF TypeInv
<1>7. IdsOK' BY <1>0, <1>2, <1>6, BootIdsOK
<1>8. acct' \in Accounts /\ resetDay' \in 1..MaxDay
      /\ used' \in [id : Nat, submits : Nat, boots : Nat, faults : Nat]
  BY <1>0, <1>2 DEF TypeInv
<1>9. Inv' /\ PnlConserved' BY <1>2, <1>3, <1>6, <1>7, <1>8, BootStill
<1>10. /\ boot' \in Boots /\ boot'.pos = boot.pos /\ boot'.open = boot.open /\ boot'.trades = boot.trades
       /\ boot'.filled = boot.filled /\ boot'.cancel = boot.cancel \ {o}
  <2> DEFINE c == boot.cancel \ {o}
  <2>1. c \in SUBSET OrdersType BY <1>5 DEF Boots
  <2>2. boot' = [boot EXCEPT !.cancel = c] BY <1>1
  <2> HIDE DEF c
  <2>3. /\ boot' \in Boots /\ boot'.pos = boot.pos /\ boot'.open = boot.open
        /\ boot'.trades = boot.trades /\ boot'.filled = boot.filled /\ boot'.cancel = c
    BY <1>5, <2>1, <2>2 DEF Boots
  <2> QED BY <2>3 DEF c
<1>11. BootIds' BY <1>2, <1>4, <1>6, <1>10 DEF Underway, BootIds, Owned
<1>12. BootPos'
  <2>1. \A u : Missed(u)' = Missed(u) BY <1>10 DEF Missed
  <2> QED BY <1>2, <1>4, <1>10, <2>1 DEF Underway, BootPos
<1>13. BootTrades' BY <1>2, <1>4, <1>10 DEF Underway, BootTrades
<1>14. BootSeen'
  <2>1. Looked(boot.pos)' = Looked(boot.pos) BY <1>2, <1>10 DEF Looked, FirstSaved
  <2>2. \A p \in orders' : p \in orders /\ p # o BY <1>1
  <2> QED BY <1>2, <1>4, <1>10, <2>1, <2>2 DEF Underway, BootSeen
<1>15. BootWell' BY <1>2, <1>5, <1>10 DEF BootWell
<1>16. Booting' BY <1>2, <1>3 DEF Booting
<1> QED BY <1>9, <1>11, <1>12, <1>13, <1>14, <1>15, <1>16 DEF BootInv, Underway

LEMMA BootDoneKeeps ==
    ASSUME Inv, BootInv, BootDone PROVE Inv' /\ PnlConserved' /\ BootInv' /\ used'.boots # 0
<1>0. TypeInv /\ IdsOK /\ Shape BY DEF Inv
<1>1. /\ main.pc = "rebuild" /\ trades' = boot.trades /\ boot' = NoBoot /\ main' = IdleMain
      /\ used' = [used EXCEPT !.boots = @ + 1]
      /\ UNCHANGED <<day, acct, resetDay, closed, queue, events, orders, pos, disk, kill, tally>>
  BY DEF BootDone, At, exchange
<1>2. ~Up /\ Booting BY <1>0, <1>1, BootingIs
<1>3. Underway BY <1>2 DEF BootInv
<1>4. boot \in Boots BY <1>3 DEF Underway, BootWell
<1>5. main' \in Mains /\ main'.pc = "idle" BY <1>1, DownMainIs
<1>6. Up' /\ ~Booting' BY <1>5 DEF Up, Booting
<1>7. /\ used' \in [id : Nat, submits : Nat, boots : Nat, faults : Nat]
      /\ used'.id = used.id /\ used'.boots # 0
  <2> DEFINE b == used.boots + 1
  <2>1. used \in [id : Nat, submits : Nat, boots : Nat, faults : Nat] BY <1>0, UsedIs
  <2>2. b \in Nat /\ b # 0 BY <2>1
  <2>3. used' = [used EXCEPT !.boots = b] BY <1>1
  <2> HIDE DEF b
  <2> QED BY <2>1, <2>2, <2>3
<1>8. trades' \in [Tickers -> Seq(Trades)] BY <1>1, <1>4 DEF Boots
<1>9. TypeInv' BY <1>0, <1>1, <1>5, <1>7, <1>8 DEF TypeInv
<1>10. Shape'
  <2>1. ASSUME NEW t \in Tickers, NEW i \in DOMAIN trades'[t] PROVE trades'[t][i].size > 0
    <3>1. boot.trades[t] \in Seq(Trades) BY <1>4 DEF Boots
    <3>2. boot.trades[t] # <<>> BY <1>1, <2>1, <3>1
    <3>3. Len(boot.trades[t]) = 1 /\ boot.trades[t][1].size > 0 BY <1>3, <3>2 DEF Underway, BootTrades
    <3>4. i = 1 BY <1>1, <2>1, <3>1, <3>3
    <3> QED BY <1>1, <3>3, <3>4
  <2> QED BY <1>6, <2>1 DEF Shape
<1>11. IdsOK'
  <2>1. \A t \in Tickers : Owned(boot.trades[t], t, used.id, orders) BY <1>3 DEF Underway, BootIds
  <2> QED BY <1>0, <1>1, <1>7, <2>1 DEF IdsOK
<1>12. PnlConserved'
  <2>1. tally = [made |-> 0, taken |-> 0] /\ closed = <<>> /\ queue = <<>> BY <1>0, <1>2 DEF Shape
  <2>2. tally'.made = 0 /\ tally'.taken = 0 /\ closed' = <<>> /\ queue' = <<>> BY <1>1, <2>1
  <2>3. Total(closed)' = Total(closed') /\ Total(queue)' = Total(queue') OBVIOUS
  <2>4. Total(closed)' = 0 /\ Total(queue)' = 0 BY <2>2, <2>3, TotalEmpty
  <2> QED BY <2>2, <2>4 DEF PnlConserved
<1>13. NoBoot' = NoBoot BY DEF NoBoot, NoTrades
<1>14. BootInv' BY <1>1, <1>6, <1>13 DEF BootInv
<1> QED BY <1>7, <1>9, <1>10, <1>11, <1>12, <1>14 DEF Inv

\* An order that fills while recovery looks, or while nothing runs.
LEMMA FillBoot ==
    ASSUME Inv, BootInv, NEW o \in orders, UnseenFill(o) PROVE BootInv'
<1>0. TypeInv /\ IdsOK BY DEF Inv
<1>1. /\ o.type # "Entry" => pos[o.tk] > 0
      /\ pos' = [pos EXCEPT ![o.tk] = IF o.type = "Entry" THEN @ + o.size
                                      ELSE IF o.size > @ THEN 0 ELSE @ - o.size]
      /\ orders' = orders \ {o}
      /\ boot' = IF Booting THEN [boot EXCEPT !.filled = @ \cup {o}] ELSE boot
      /\ UNCHANGED <<main, trades, disk, used>>
  BY DEF UnseenFill, executor
<1>2. Booting' <=> Booting BY <1>1 DEF Booting
<1>3. CASE ~Booting
  <2>1. NoBoot' = NoBoot BY DEF NoBoot, NoTrades
  <2> QED BY <1>1, <1>2, <1>3, <2>1 DEF BootInv
<1>4. CASE Booting
  <2>1. Underway BY <1>4 DEF BootInv
  <2>2. boot \in Boots /\ main.todo \subseteq Tickers BY <2>1 DEF Underway, BootWell
  <2>3. o \in OrdersType /\ orders' \subseteq orders /\ pos \in [Tickers -> Nat]
    BY <1>0, <1>1 DEF TypeInv
  <2>4. o.tk \in Tickers /\ o.size \in Nat BY <2>3 DEF OrdersType
  <2>5. /\ boot' \in Boots /\ boot'.pos = boot.pos /\ boot'.open = boot.open
        /\ boot'.trades = boot.trades /\ boot'.cancel = boot.cancel
        /\ boot'.filled = boot.filled \union {o}
    <3> DEFINE f == boot.filled \union {o}
    <3>1. f \in SUBSET OrdersType BY <2>2, <2>3 DEF Boots
    <3>2. boot' = [boot EXCEPT !.filled = f] BY <1>1, <1>4
    <3> HIDE DEF f
    <3>3. /\ boot' \in Boots /\ boot'.pos = boot.pos /\ boot'.open = boot.open
          /\ boot'.trades = boot.trades /\ boot'.cancel = boot.cancel /\ boot'.filled = f
      BY <2>2, <3>1, <3>2 DEF Boots
    <3> QED BY <3>3 DEF f
  <2>6. o.id <= used.id BY <1>0 DEF IdsOK
  <2>7. BootIds' BY <1>1, <2>1, <2>3, <2>5, <2>6 DEF Underway, BootIds, Owned
  <2>8. BootPos'
    <3> SUFFICES ASSUME NEW t \in Tickers
                 PROVE  /\ boot.pos[t] = pos'[t] \/ Missed(t)' # {}
                        /\ pos'[t] > 0 /\ ~(boot.pos[t] > 0) => \E x \in Missed(t)' : x.type = "Entry"
      BY <2>5 DEF BootPos
    <3>1. Missed(t) \subseteq Missed(t)' BY <2>5 DEF Missed
    <3>2. /\ boot.pos[t] = pos[t] \/ Missed(t) # {}
          /\ pos[t] > 0 /\ ~(boot.pos[t] > 0) => \E x \in Missed(t) : x.type = "Entry"
      BY <2>1 DEF Underway, BootPos
    <3>3. CASE o.tk # t
      <4>1. pos'[t] = pos[t] BY <1>1, <2>3, <3>3
      <4> QED BY <3>1, <3>2, <4>1
    <3>4. CASE o.tk = t
      <4>1. o \in Missed(t)' BY <2>5, <3>4 DEF Missed
      <4>2. o.type # "Entry" => pos[t] > 0 BY <1>1, <3>4
      <4> QED BY <3>1, <3>2, <4>1, <4>2
    <3> QED BY <3>3, <3>4
  <2>9. BootTrades' BY <1>1, <2>1, <2>5 DEF Underway, BootTrades
  <2>10. BootSeen'
    <3>1. Looked(boot.pos)' = Looked(boot.pos) BY <1>1, <2>5 DEF Looked, FirstSaved
    <3> QED BY <1>1, <2>1, <2>3, <2>5, <3>1 DEF Underway, BootSeen
  <2>11. BootWell' BY <1>1, <2>2, <2>5 DEF BootWell
  <2> QED BY <1>2, <1>4, <2>7, <2>8, <2>9, <2>10, <2>11 DEF BootInv, Underway
<1> QED BY <1>3, <1>4

\* A step that has nothing to do with a recovery.
LEMMA SameBoot ==
    ASSUME BootInv, UNCHANGED <<boot, main, orders, pos, disk, used>> PROVE BootInv'
<1>1. NoBoot' = NoBoot BY DEF NoBoot, NoTrades
<1>2. Booting' <=> Booting BY DEF Booting
<1>3. Looked(boot.pos)' = Looked(boot.pos) BY DEF Looked, FirstSaved
<1>4. \A t : Missed(t)' = Missed(t) BY DEF Missed
<1>5. BootIds' <=> BootIds BY DEF BootIds, Owned
<1>6. BootPos' <=> BootPos BY <1>4 DEF BootPos
<1>7. BootTrades' <=> BootTrades BY DEF BootTrades
<1>8. BootSeen' <=> BootSeen BY <1>3 DEF BootSeen
<1>9. BootWell' <=> BootWell BY DEF BootWell, Boots, OrdersType
<1> QED BY <1>1, <1>2, <1>5, <1>6, <1>7, <1>8, <1>9 DEF BootInv, Underway

LEMMA RunningBoot ==
    ASSUME BootInv, Up, boot' = boot, ~Booting' PROVE BootInv'
<1>1. NoBoot' = NoBoot BY DEF NoBoot, NoTrades
<1>2. ~Booting BY DEF Up, Booting
<1> QED BY <1>1, <1>2 DEF BootInv

\* No step of a running process enters a recovery.
LEMMA TickApart == ASSUME TypeInv, Tick \/ Shutdown PROVE Up /\ boot' = boot /\ ~Booting'
<1>1. main \in Mains BY DEF TypeInv
<1>2. ASSUME NEW p \in Pcs \ {"orders", "rebuild"}, NEW S, S \subseteq Tickers \union (Tickers \X Nat),
             main' = [main EXCEPT !.pc = p, !.todo = S]
      PROVE  ~Booting'
  BY <1>1, <1>2 DEF Mains, Booting
<1>3. ASSUME NEW p \in Pcs \ {"orders", "rebuild"}, main' = [main EXCEPT !.pc = p]
      PROVE  ~Booting'
  BY <1>1, <1>3 DEF Mains, Booting
<1>4. Up /\ boot' = boot
  <2>1. CASE Tick
    BY <2>1 DEF Tick, TickBegin, TickExecutor, TickDrain, TickSync, At, Up
  <2>2. CASE Shutdown
    BY <2>2 DEF Shutdown, KillCancel, KillFetch, KillClose, KillPoll, KillDeadline, KillExit, At, Up
  <2> QED BY <2>1, <2>2
<1>5. ~Booting'
  <2>1. CASE main'.pc = main.pc BY <1>4, <2>1 DEF Up, Booting
  <2>2. CASE TickBegin \/ TickExecutor \/ TickDrain \/ TickSync
    <3>1. CASE TickBegin
      <4>1. main' = [main EXCEPT !.pc = "cancel", !.todo = Tickers]
            \/ main' = [main EXCEPT !.pc = "exec", !.todo = Bare]
        BY <3>1 DEF TickBegin
      <4>2. main'.pc = "cancel" \/ main'.pc = "exec" BY <1>1, <4>1 DEF Mains
      <4> QED BY <4>2 DEF Booting
    <3>2. CASE TickExecutor
      <4>1. main.pc = "exec" /\ \E x \in main.todo : main' = [main EXCEPT !.todo = @ \ {x}]
        BY <3>2 DEF TickExecutor, At
      <4>2. main'.pc = "exec" BY <1>1, <4>1 DEF Mains
      <4> QED BY <4>2 DEF Booting
    <3>3. CASE TickDrain BY <1>1, <3>3 DEF TickDrain, Goto, Mains, Booting
    <3>4. CASE TickSync BY <1>1, <3>4 DEF TickSync, Goto, Mains, Booting
    <3> QED BY <2>2, <3>1, <3>2, <3>3, <3>4
  <2>3. CASE KillCancel
    <3>1. \/ main' = [main EXCEPT !.pc = "fetch"]
          \/ main.pc = "cancel" /\ \E t \in main.todo : main' = [main EXCEPT !.todo = @ \ {t}]
      BY <2>3 DEF KillCancel, Goto, At
    <3>2. main'.pc \in {"fetch", "cancel"} BY <1>1, <3>1 DEF Mains
    <3> QED BY <3>2 DEF Booting
  <2>4. CASE KillFetch
    <3>1. \E S : main' = [main EXCEPT !.pc = "close", !.todo = S] BY <2>4 DEF KillFetch
    <3>2. main'.pc = "close" BY <1>1, <3>1 DEF Mains
    <3> QED BY <3>2 DEF Booting
  <2>5. CASE KillClose
    <3>1. \/ main' = [main EXCEPT !.pc = "poll"]
          \/ /\ main.pc \in {"close", "retry"}
             /\ \E t \in main.todo : main' =
                  [main EXCEPT !.todo = @ \ {t}, !.tries[t] = IF At("retry") THEN @ + 1 ELSE @]
      BY <2>5 DEF KillClose, Goto
    <3>2. CASE main' = [main EXCEPT !.pc = "poll"] BY <1>1, <3>2 DEF Mains, Booting
    <3>3. ASSUME NEW t \in main.todo, main.pc \in {"close", "retry"},
                 main' = [main EXCEPT !.todo = @ \ {t}, !.tries[t] = IF At("retry") THEN @ + 1 ELSE @]
          PROVE  ~Booting'
      <4>1. main'.pc = main.pc BY <1>1, <3>3 DEF Mains
      <4> QED BY <3>3, <4>1 DEF Booting
    <3> QED BY <3>1, <3>2, <3>3
  <2>6. CASE KillPoll
    <3>1. \/ main' = [main EXCEPT !.pc = "final"]
          \/ \E S : main' = [main EXCEPT !.pc = "retry", !.polls = @ + 1, !.todo = S]
          \/ main.pc = "poll" /\ main' = [main EXCEPT !.polls = @ + 1]
      BY <2>6 DEF KillPoll, Goto, At
    <3>2. main'.pc \in {"final", "retry", "poll"} BY <1>1, <3>1 DEF Mains
    <3> QED BY <3>2 DEF Booting
  <2>7. CASE KillDeadline BY <1>1, <2>7 DEF KillDeadline, Goto, Mains, Booting
  <2>8. CASE KillExit
    <3>1. main'.pc = "exited" BY <2>8, DownMainIs DEF KillExit
    <3> QED BY <3>1 DEF Booting
  <2> QED BY <2>2, <2>3, <2>4, <2>5, <2>6, <2>7, <2>8 DEF Tick, Shutdown
<1> QED BY <1>4, <1>5

LEMMA BootKeeps ==
    ASSUME Inv, BootInv, Boot
    PROVE  /\ Inv' /\ PnlConserved' /\ BootInv'
           /\ main'.pc \in {"orders", "rebuild"} \/ (BootDone /\ used'.boots # 0)
<1>1. CASE BootDone BY <1>1, BootDoneKeeps
<1>2. CASE BootPositions \/ BootOrders \/ BootCancel \/ \E t \in Tickers : BootTicker(t)
  <2>1. Inv' /\ PnlConserved' /\ BootInv'
    BY <1>2, BootPositionsKeeps, BootOrdersKeeps, BootCancelKeeps, BootTickerKeeps
  <2>2. main'.pc \in {"orders", "rebuild"}
    <3>1. CASE BootPositions
      <4> DEFINE L == Looked(pos)
      <4>1. main' = [DownMain EXCEPT !.pc = "orders", !.todo = L] BY <3>1 DEF BootPositions
      <4>2. DownMain \in Mains BY DownMainIs
      <4> HIDE DEF L
      <4> QED BY <4>1, <4>2 DEF Mains
    <3>2. CASE BootOrders
      <4>0. main \in Mains BY DEF Inv, TypeInv
      <4>1. \/ \E S : main' = [main EXCEPT !.pc = "rebuild", !.todo = S]
            \/ main.pc = "orders" /\ \E S : main' = [main EXCEPT !.todo = S]
        BY <3>2 DEF BootOrders, At
      <4> QED BY <4>0, <4>1 DEF Mains
    <3>3. CASE BootCancel BY <3>3 DEF BootCancel, At
    <3>4. CASE \E t \in Tickers : BootTicker(t)
      <4>0. main \in Mains BY DEF Inv, TypeInv
      <4>1. main.pc = "rebuild" /\ \E S : main' = [main EXCEPT !.todo = S]
        BY <3>4 DEF BootTicker, At
      <4> QED BY <4>0, <4>1 DEF Mains
    <3> QED BY <1>2, <3>1, <3>2, <3>3, <3>4
  <2> QED BY <2>1, <2>2
<1> QED BY <1>1, <1>2 DEF Boot

LEMMA CrashBoot == ASSUME Crash PROVE BootInv'
<1>1. main'.pc = "down" /\ boot' = NoBoot BY DownMainIs DEF Crash
<1>2. NoBoot' = NoBoot BY DEF NoBoot, NoTrades
<1> QED BY <1>1, <1>2 DEF BootInv, Booting

-----------------------------------------------------------------------------
(* The theorems. *)

LEMMA NextKeeps ==
    ASSUME Inv, PnlConserved, BootInv, [Next]_vars PROVE Inv' /\ PnlConserved' /\ BootInv'
<1>1. CASE UNCHANGED vars
  <2>1. /\ UNCHANGED <<boot, day, main, acct, resetDay, trades, closed, queue, events, orders, pos, disk,
                       kill, used, tally>>
    BY <1>1 DEF vars
  <2>2. TypeInv' BY <2>1 DEF Inv, TypeInv
  <2>3. Up' <=> Up BY <2>1 DEF Up
  <2>4. Shape' BY <2>1, <2>3 DEF Inv, Shape
  <2>5. IdsOK' BY <2>1 DEF Inv, IdsOK
  <2>6. PnlConserved' BY <2>1, <2>3 DEF PnlConserved
  <2>7. BootInv' BY <2>1, SameBoot
  <2> QED BY <2>2, <2>4, <2>5, <2>6, <2>7 DEF Inv
<1>0. ASSUME Up, UNCHANGED <<boot, main>> PROVE BootInv'
  <2>1. ~Booting' BY <1>0 DEF Up, Booting
  <2> QED BY <1>0, <2>1, RunningBoot
<1>2. ASSUME NEW t \in Tickers, Submit(t) \/ CloseRequest(t) PROVE Inv' /\ PnlConserved' /\ BootInv'
  <2>1. Inv' /\ PnlConserved' BY <1>2, SubmitKeeps, CloseRequestKeeps
  <2>2. Up /\ UNCHANGED <<boot, main>> BY <1>2 DEF Submit, CloseRequest
  <2> QED BY <1>0, <2>1, <2>2
<1>3. ASSUME NEW o \in orders, UnseenFill(o) \/ EntryFill(o) \/ StopFill(o) \/ TpFill(o)
      PROVE  Inv' /\ PnlConserved' /\ BootInv'
  <2>1. Inv' /\ PnlConserved' BY <1>3, UnseenFillKeeps, EntryFillKeeps, StopFillKeeps, TpFillKeeps
  <2>2. CASE UnseenFill(o) BY <2>1, <2>2, FillBoot
  <2>3. CASE EntryFill(o) \/ StopFill(o) \/ TpFill(o)
    <3>1. Up /\ UNCHANGED <<boot, main>> BY <2>3 DEF EntryFill, StopFill, TpFill, Owners
    <3> QED BY <1>0, <2>1, <3>1
  <2> QED BY <1>3, <2>2, <2>3
<1>4. CASE ProcessEvent \/ Drain
  <2>1. Inv' /\ PnlConserved' BY <1>4, ProcessEventKeeps, DrainKeeps
  <2>2. Up /\ UNCHANGED <<boot, main>> BY <1>4 DEF ProcessEvent, Drain
  <2> QED BY <1>0, <2>1, <2>2
<1>5. CASE Tick \/ Shutdown
  <2>1. ASSUME Tick PROVE Inv' /\ PnlConserved'
    BY <2>1, TickBeginKeeps, TickExecutorKeeps, TickDrainKeeps, TickSyncKeeps DEF Tick
  <2>2. ASSUME Shutdown PROVE Inv' /\ PnlConserved'
    BY <2>2, KillCancelKeeps, KillFetchKeeps, KillCloseKeeps, KillPollKeeps, KillDeadlineKeeps,
       KillExitKeeps DEF Shutdown
  <2>3. Up /\ boot' = boot /\ ~Booting' BY <1>5, TickApart DEF Inv
  <2>4. BootInv' BY <2>3, RunningBoot
  <2> QED BY <1>5, <2>1, <2>2, <2>4
<1>7. CASE Trigger \/ RemoveMarker
  <2>1. Inv' /\ PnlConserved' BY <1>7, TriggerKeeps, RemoveMarkerKeeps
  <2>2. UNCHANGED <<boot, main, orders, pos, disk, used>>
    BY <1>7 DEF Trigger, RemoveMarker, exchange
  <2> QED BY <2>1, <2>2, SameBoot
<1>8. CASE Crash BY <1>8, CrashKeeps, CrashBoot
<1>9. CASE Boot BY <1>9, BootKeeps
<1>10. CASE Midnight
  <2>1. Inv' /\ PnlConserved' BY <1>10, MidnightKeeps
  <2>2. Up /\ UNCHANGED <<boot, main>> BY <1>10 DEF Midnight
  <2> QED BY <1>0, <2>1, <2>2
<1> QED BY <1>1, <1>2, <1>3, <1>4, <1>5, <1>7, <1>8, <1>9, <1>10 DEF Next

\* Over any number of processes, accounts and orders the session's state has
\* its types; in particular the ids of trades, of the exchange's orders and of
\* the orders a recovery fetched have been given out, and a process that is
\* gone, or not yet recovered, has no trades.
THEOREM SessionTypeCorrect == Spec => []TypeOK
<1>1. Init => Inv /\ PnlConserved /\ BootInv BY InitInv, InitBoot
<1>2. (Inv /\ PnlConserved /\ BootInv) /\ [Next]_vars => (Inv /\ PnlConserved /\ BootInv)' BY NextKeeps
<1>3. Inv /\ BootInv => TypeOK BY InvGivesTypeOK
<1> QED BY <1>1, <1>2, <1>3, PTL DEF Spec

\* Every profit the executor recorded has been taken by the account exactly
\* once or is on its way, in the executor's list or in the processor's queue
\* (pop_closed_trades, process_closed_trades_).
THEOREM PnlConservedAlways == Spec => []PnlConserved
<1>1. Init => Inv /\ PnlConserved /\ BootInv BY InitInv, InitBoot
<1>2. (Inv /\ PnlConserved /\ BootInv) /\ [Next]_vars => (Inv /\ PnlConserved /\ BootInv)' BY NextKeeps
<1> QED BY <1>1, <1>2, PTL DEF Spec

\* Only the end of a recovery starts a process.
LEMMA OnlyBootStarts ==
    ASSUME Inv, BootInv, ~Up, Up', [Next]_vars PROVE BootDone
<1>1. ASSUME UNCHANGED main PROVE FALSE BY <1>1 DEF Up
<1>2. CASE UNCHANGED vars BY <1>1, <1>2 DEF vars
<1>3. ASSUME NEW t \in Tickers, Submit(t) \/ CloseRequest(t) PROVE FALSE
  BY <1>3 DEF Submit, CloseRequest
<1>4. ASSUME NEW o \in orders, UnseenFill(o) \/ EntryFill(o) \/ StopFill(o) \/ TpFill(o) PROVE FALSE
  BY <1>1, <1>4 DEF UnseenFill, EntryFill, StopFill, TpFill
<1>5. CASE ProcessEvent \/ Drain BY <1>5 DEF ProcessEvent, Drain
<1>6. CASE Tick \/ Shutdown BY <1>6, TickApart DEF Inv
<1>7. CASE Trigger \/ RemoveMarker BY <1>1, <1>7 DEF Trigger, RemoveMarker
<1>8. CASE Crash
  <2>1. main'.pc = "down" BY <1>8, DownMainIs DEF Crash
  <2> QED BY <2>1 DEF Up
<1>9. CASE Midnight BY <1>9 DEF Midnight
<1>10. CASE Boot
  <2>1. main'.pc \in {"orders", "rebuild"} \/ BootDone BY <1>10, BootKeeps
  <2> QED BY <2>1 DEF Up
<1> QED BY <1>2, <1>3, <1>4, <1>5, <1>6, <1>7, <1>8, <1>9, <1>10 DEF Next

\* What recovery leaves behind at ticker t.
Owns(t) ==
    /\ pos[t] > 0 /\ trades'[t] = <<>> => \E o \in Missed(t) : o.type = "Entry"
    /\ trades'[t] # <<>> => /\ Len(trades'[t]) = 1 /\ trades'[t][1].st = "Open"
                            /\ trades'[t][1].size = pos[t] \/ Missed(t) # {}
    /\ \A o \in orders' : o.tk = t /\ t \in Looked(boot.pos) =>
         /\ trades'[t] # <<>>
         /\ o.id \in {trades'[t][1].entry, trades'[t][1].stop, trades'[t][1].tp}

LEMMA BootOwns == ASSUME Inv, BootInv, BootDone PROVE \A t \in Tickers : Owns(t)
<1>1. /\ main.pc = "rebuild" /\ main.todo = {} /\ boot.cancel = {}
      /\ trades' = boot.trades /\ orders' = orders
  BY DEF BootDone, At, exchange
<1>2. Booting BY <1>1 DEF Booting
<1>3. Underway BY <1>2 DEF BootInv
<1> SUFFICES ASSUME NEW t \in Tickers PROVE Owns(t) OBVIOUS
<1>4. /\ boot.pos[t] = pos[t] \/ Missed(t) # {}
      /\ pos[t] > 0 /\ ~(boot.pos[t] > 0) => \E o \in Missed(t) : o.type = "Entry"
  BY <1>3 DEF Underway, BootPos
<1>5. /\ boot.trades[t] # <<>> =>
           /\ Len(boot.trades[t]) = 1 /\ boot.trades[t][1].st = "Open"
           /\ boot.trades[t][1].size = boot.pos[t] /\ boot.pos[t] > 0
      /\ boot.pos[t] > 0 => boot.trades[t] # <<>>
  BY <1>1, <1>3 DEF Underway, BootTrades
<1>6. \A o \in orders : o.tk = t /\ t \in Looked(boot.pos) =>
         boot.trades[t] # <<>> /\ o.id \in IdsOf(boot.trades[t][1])
  BY <1>1, <1>3 DEF Underway, BootSeen
<1> QED BY <1>1, <1>4, <1>5, <1>6 DEF Owns, IdsOf

\* Recovery owns the exchange whatever a crash, a shutdown or fills that
\* nobody saw left behind, but for the orders that fill between its own calls
\* (StartupRecovery::run).
THEOREM RecoveryOwnsExchangeAlways == Spec => RecoveryOwnsExchange
<1> DEFINE A == ~Up /\ Up' => \A t \in Tickers : Owns(t)
           All == Inv /\ PnlConserved /\ BootInv
<1>1. Init => All BY InitInv, InitBoot
<1>2. All /\ [Next]_vars => All' BY NextKeeps
<1>3. All /\ [Next]_vars => [A]_vars
  <2>1. ASSUME All, [Next]_vars, ~Up, Up' PROVE A BY <2>1, OnlyBootStarts, BootOwns
  <2> QED BY <2>1
<1>4. [][A]_vars => RecoveryOwnsExchange BY DEF RecoveryOwnsExchange, Owns
<1> HIDE DEF A, All
<1>5. Spec => [][A]_vars BY <1>1, <1>2, <1>3, PTL DEF Spec
<1> QED BY <1>4, <1>5

-----------------------------------------------------------------------------
(* What the trades of a ticker account for, in a process that recovered     *)
(* nothing: s are the ticker's trades, os its open orders, p its position. *)

\* The lots a trade stands for: an open one has sold one of its two lots once
\* its take-profit is gone from the exchange.
Worth(os) ==
    [x \in Trades |-> IF x.st # "Open" THEN 0
                      ELSE IF x.tp = 0 \/ \E o \in os : o.id = x.tp THEN Lots ELSE 1]
Cover(s, os) == Total(Of(Worth(os), s))

\* The orders of trade x are of their types and sizes.
OneTrade(x, os) ==
    /\ x.st = "PendingEntry" => x.stop = 0 /\ x.tp = 0
    /\ x.st = "Open" => x.size = Lots
    /\ \A o \in os : /\ o.id = x.entry => o.type = "Entry"
                     /\ o.id = x.stop => o.type = "Stop" /\ (x.st = "Open" => o.size >= Worth(os)[x])
                     /\ o.id = x.tp => o.type = "Tp" /\ o.size = 1

\* The open trades are worth the position, unless cancel_all has been there,
\* and every entry order has a trade that waits for it.
Covered(s, os, p) == (\E i \in DOMAIN s : s[i].st = "Cancelling") \/ p <= Cover(s, os)
Awaited(s, os) ==
    \A o \in os : o.type = "Entry" =>
        \E i \in DOMAIN s : s[i].entry = o.id /\ s[i].st \in {"PendingEntry", "Cancelling"}
Accounted(s, os, p) ==
    /\ Covered(s, os, p)
    /\ \A i \in DOMAIN s : OneTrade(s[i], os)
    /\ TpApart(s)
    /\ Awaited(s, os)

\* Trades and orders whose ids are at most n, each order's its own.
Listed(s, os, n) ==
    /\ s \in Seq(Trades) /\ os \in SUBSET OrdersType /\ n \in Nat
    /\ \A o \in os : o.id <= n
    /\ \A o, q \in os : o.id = q.id => o = q
    /\ \A i \in DOMAIN s : s[i] \in Trades /\ IdsOf(s[i]) \subseteq 0..n

LEMMA WorthIs ==
    ASSUME NEW os
    PROVE  /\ Worth(os) \in [Trades -> Int]
           /\ \A x \in Trades :
                /\ Worth(os)[x] \in 0..2
                /\ x.st # "Open" => Worth(os)[x] = 0
                /\ x.st = "Open" /\ (x.tp = 0 \/ \E o \in os : o.id = x.tp) => Worth(os)[x] = 2
                /\ x.st = "Open" /\ x.tp # 0 /\ (\A o \in os : o.id # x.tp) => Worth(os)[x] = 1
BY DEF Worth, Lots

\* Sums over the trades of two lists of the same length.
LEMMA TotalLeq ==
    ASSUME NEW s \in Seq(Trades), NEW r \in Seq(Trades), DOMAIN s = DOMAIN r,
           NEW h \in [Trades -> Int], NEW g \in [Trades -> Int],
           \A j \in DOMAIN s : h[s[j]] <= g[r[j]]
    PROVE  Total(Of(h, s)) <= Total(Of(g, r))
<1>1. DOMAIN s = 1..Len(s) /\ Len(s) \in Nat BY LenProperties
<1>2. IsFiniteSet(DOMAIN s) BY <1>1, UpToIsFinite
<1>3. DOMAIN Of(h, s) = DOMAIN s /\ DOMAIN Of(g, r) = DOMAIN s BY OfIs
<1>4. \A j \in DOMAIN s : Of(h, s)[j] \in Int /\ Of(g, r)[j] \in Int /\ Of(h, s)[j] <= Of(g, r)[j]
  <2> SUFFICES ASSUME NEW j \in DOMAIN s
               PROVE  Of(h, s)[j] \in Int /\ Of(g, r)[j] \in Int /\ Of(h, s)[j] <= Of(g, r)[j]
    OBVIOUS
  <2>1. s[j] \in Trades /\ Of(h, s)[j] = h[s[j]] BY OfIs
  <2>2. r[j] \in Trades /\ Of(g, r)[j] = g[r[j]] BY OfIs
  <2>3. h[s[j]] \in Int /\ g[r[j]] \in Int BY <2>1, <2>2
  <2> QED BY <2>1, <2>2, <2>3
<1>5. SumOver(Of(h, s), DOMAIN s) <= SumOver(Of(g, r), DOMAIN s) BY <1>2, <1>4, SumLeq
<1> QED BY <1>3, <1>5, TotalIs

LEMMA SumSwap ==
    ASSUME NEW a, NEW b, NEW D, IsFiniteSet(D), NEW i \in D,
           \A j \in D : a[j] \in Int, \A j \in D : b[j] \in Int,
           \A j \in D : j # i => a[j] <= b[j]
    PROVE  SumOver(a, D) + b[i] <= SumOver(b, D) + a[i]
<1>1. IsFiniteSet(D \ {i}) BY FS_Subset
<1>2. SumOver(a, D) = a[i] + SumOver(a, D \ {i}) BY SumTake
<1>3. SumOver(b, D) = b[i] + SumOver(b, D \ {i}) BY SumTake
<1>4. \A j \in D \ {i} : a[j] \in Int /\ b[j] \in Int /\ a[j] <= b[j] OBVIOUS
<1>5. SumOver(a, D \ {i}) <= SumOver(b, D \ {i}) BY <1>1, <1>4, SumLeq
<1>6. SumOver(a, D \ {i}) \in Int /\ SumOver(b, D \ {i}) \in Int BY <1>1, <1>4, SumInt
<1>7. a[i] \in Int /\ b[i] \in Int OBVIOUS
<1> QED BY <1>2, <1>3, <1>5, <1>6, <1>7

LEMMA SwapTotal ==
    ASSUME NEW s \in Seq(Trades), NEW r \in Seq(Trades), DOMAIN s = DOMAIN r,
           NEW h \in [Trades -> Int], NEW g \in [Trades -> Int], NEW i \in DOMAIN s,
           \A j \in DOMAIN s : j # i => h[s[j]] <= g[r[j]]
    PROVE  Total(Of(h, s)) + g[r[i]] <= Total(Of(g, r)) + h[s[i]]
<1> DEFINE a == Of(h, s)
           b == Of(g, r)
           D == DOMAIN s
<1>1. D = 1..Len(s) /\ Len(s) \in Nat BY LenProperties
<1>2. IsFiniteSet(D) BY <1>1, UpToIsFinite
<1>3. DOMAIN a = D /\ DOMAIN b = D BY OfIs
<1>4. \A j \in D : a[j] \in Int /\ b[j] \in Int /\ a[j] = h[s[j]] /\ b[j] = g[r[j]]
  <2> SUFFICES ASSUME NEW j \in D
               PROVE  a[j] \in Int /\ b[j] \in Int /\ a[j] = h[s[j]] /\ b[j] = g[r[j]]
    OBVIOUS
  <2>1. s[j] \in Trades /\ a[j] = h[s[j]] BY OfIs
  <2>2. r[j] \in Trades /\ b[j] = g[r[j]] BY OfIs
  <2>3. h[s[j]] \in Int /\ g[r[j]] \in Int BY <2>1, <2>2
  <2> QED BY <2>1, <2>2, <2>3
<1>5. \A j \in D : j # i => a[j] <= b[j] BY <1>4
<1>6. (\A j \in D : a[j] \in Int) /\ (\A j \in D : b[j] \in Int) BY <1>4
<1>7. Total(a) = SumOver(a, D) /\ Total(b) = SumOver(b, D) BY <1>3, TotalIs
<1>8. a[i] = h[s[i]] /\ b[i] = g[r[i]] BY <1>4
<1>9. i \in D OBVIOUS
<1> HIDE DEF a, b, D
<1>10. SumOver(a, D) + b[i] <= SumOver(b, D) + a[i] BY <1>2, <1>5, <1>6, <1>9, SumSwap
<1>11. Total(a) + g[r[i]] <= Total(b) + h[s[i]] BY <1>7, <1>8, <1>10
<1> QED BY <1>11 DEF a, b

LEMMA CoverNat ==
    ASSUME NEW s \in Seq(Trades), NEW os
    PROVE  Cover(s, os) \in Nat
<1> DEFINE h == Worth(os)
<1>1. DOMAIN s = 1..Len(s) /\ Len(s) \in Nat BY LenProperties
<1>2. IsFiniteSet(DOMAIN s) BY <1>1, UpToIsFinite
<1>3. h \in [Trades -> Int] /\ \A x \in Trades : h[x] \in 0..2 BY WorthIs
<1> HIDE DEF h
<1>4. DOMAIN Of(h, s) = DOMAIN s BY <1>3, OfIs
<1>5. \A j \in DOMAIN s : Of(h, s)[j] \in Nat BY <1>3, OfIs
<1>6. SumOver(Of(h, s), DOMAIN s) \in Nat BY <1>2, <1>5, SumNat
<1> QED BY <1>4, <1>6, TotalIs DEF Cover, h

\* A trade whose take-profit stays is worth the same, and its orders are as
\* they were.
LEMMA TradeStays ==
    ASSUME NEW x \in Trades, NEW n \in Nat, IdsOf(x) \subseteq 0..n,
           NEW os \in SUBSET OrdersType, OneTrade(x, os), NEW new \in SUBSET OrdersType,
           \A o \in new : o \in os \/ o.id > n,
           x.st = "Open" => \A o \in os : o.id = x.tp => o \in new
    PROVE  OneTrade(x, new) /\ Worth(new)[x] = Worth(os)[x]
<1>1. x.tp \in 0..n /\ x.stop \in 0..n /\ x.entry \in 0..n BY DEF IdsOf
<1>2. \A o \in new : o.id \in {x.tp, x.stop, x.entry} => o \in os
  <2> SUFFICES ASSUME NEW o \in new, o.id \in {x.tp, x.stop, x.entry}, o.id > n PROVE FALSE OBVIOUS
  <2>1. o.id \in 0..n BY <1>1
  <2> QED BY <2>1
<1>3. Worth(new)[x] = Worth(os)[x]
  <2>1. CASE x.st # "Open" BY <2>1, WorthIs
  <2>2. CASE x.st = "Open"
    <3>1. (\E o \in new : o.id = x.tp) <=> (\E o \in os : o.id = x.tp) BY <1>2, <2>2
    <3> QED BY <2>2, <3>1, WorthIs
  <2> QED BY <2>1, <2>2
<1> QED BY <1>2, <1>3 DEF OneTrade

\* One trade that is not Cancelling is replaced, the orders of the others
\* stay but for stops and entries, and the position falls at least as far as
\* the worth of the trade.
LEMMA SwapAccounted ==
    ASSUME NEW s, NEW os, NEW n, Listed(s, os, n), NEW p \in Nat, Accounted(s, os, p),
           NEW i \in DOMAIN s, NEW y \in Trades, NEW new \in SUBSET OrdersType, NEW q \in Nat,
           s[i].st # "Cancelling",
           \A o \in new : o \in os \/ o.id > n,
           \A j \in DOMAIN s : j # i /\ s[j].st = "Open" => \A o \in os : o.id = s[j].tp => o \in new,
           OneTrade(y, new),
           y.tp = s[i].tp \/ y.tp = 0 \/ y.tp > n,
           q = 0 \/ q + Worth(os)[s[i]] <= p + Worth(new)[y],
           \A o \in new : o.type = "Entry" => o \in os /\ (s[i].st = "Open" \/ o.id # s[i].entry)
    PROVE  Accounted([s EXCEPT ![i] = y], new, q)
<1> DEFINE r == [s EXCEPT ![i] = y]
<1>1. /\ s \in Seq(Trades) /\ os \in SUBSET OrdersType /\ n \in Nat
      /\ \A j \in DOMAIN s : s[j] \in Trades /\ IdsOf(s[j]) \subseteq 0..n
  BY DEF Listed
<1>2. /\ r \in Seq(Trades) /\ DOMAIN r = DOMAIN s /\ r[i] = y
      /\ \A j \in DOMAIN s : j # i => r[j] = s[j]
  BY <1>1, ReplaceIs
<1>3. \A j \in DOMAIN s : OneTrade(s[j], os) BY DEF Accounted
<1> HIDE DEF r
<1>4. ASSUME NEW j \in DOMAIN s, j # i
      PROVE  OneTrade(s[j], new) /\ Worth(new)[s[j]] = Worth(os)[s[j]]
  <2>1. s[j] \in Trades /\ IdsOf(s[j]) \subseteq 0..n /\ OneTrade(s[j], os) BY <1>1, <1>3
  <2>2. s[j].st = "Open" => \A o \in os : o.id = s[j].tp => o \in new BY <1>4
  <2> QED BY <1>1, <2>1, <2>2, TradeStays, SMTT(30)
<1>5. Covered(r, new, q)
  <2>1. CASE \E j \in DOMAIN s : s[j].st = "Cancelling"
    <3>1. PICK j \in DOMAIN s : s[j].st = "Cancelling" BY <2>1
    <3>2. j # i BY <3>1
    <3>3. j \in DOMAIN r /\ r[j].st = "Cancelling" BY <1>2, <3>1, <3>2
    <3> QED BY <3>3 DEF Covered
  <2>2. CASE p <= Cover(s, os)
    <3>1. Worth(os) \in [Trades -> Int] /\ Worth(new) \in [Trades -> Int] BY WorthIs
    <3>2. \A j \in DOMAIN s : j # i => Worth(os)[s[j]] <= Worth(new)[r[j]]
      <4> SUFFICES ASSUME NEW j \in DOMAIN s, j # i PROVE Worth(os)[s[j]] <= Worth(new)[r[j]]
        OBVIOUS
      <4>1. Worth(new)[r[j]] = Worth(os)[s[j]] BY <1>2, <1>4
      <4>2. Worth(os)[s[j]] \in Int BY <1>1, <3>1
      <4> QED BY <4>1, <4>2
    <3>3. Cover(s, os) + Worth(new)[r[i]] <= Cover(r, new) + Worth(os)[s[i]]
      BY <1>1, <1>2, <3>1, <3>2, SwapTotal DEF Cover
    <3>4. Cover(s, os) \in Nat /\ Cover(r, new) \in Nat BY <1>1, <1>2, CoverNat
    <3>5. Worth(new)[y] \in Int /\ Worth(os)[s[i]] \in Int BY <1>1, <3>1
    <3>6. q <= Cover(r, new) BY <1>2, <2>2, <3>3, <3>4, <3>5, SMTT(30)
    <3> QED BY <3>6 DEF Covered
  <2> QED BY <2>1, <2>2 DEF Accounted, Covered
<1>6. \A j \in DOMAIN r : OneTrade(r[j], new) BY <1>2, <1>4
<1>7. TpApart(r)
  <2>1. TpApart(s) BY DEF Accounted
  <2>2. \A j \in DOMAIN s : s[j].tp <= n BY <1>1 DEF IdsOf
  <2> SUFFICES ASSUME NEW j \in DOMAIN s, NEW k \in DOMAIN s, j # k, r[j].tp # 0
               PROVE  r[j].tp # r[k].tp
    BY <1>2 DEF TpApart
  <2>3. CASE j # i /\ k # i BY <1>2, <2>1, <2>3 DEF TpApart
  <2>4. CASE j = i
    <3>1. r[j].tp = y.tp /\ r[k] = s[k] BY <1>2, <2>4
    <3>2. CASE y.tp = s[i].tp BY <2>1, <2>4, <3>1, <3>2 DEF TpApart
    <3>3. CASE y.tp > n
      <4>1. s[k].tp <= n /\ s[k].tp \in Nat /\ y.tp \in Nat BY <1>1, <2>2 DEF Trades
      <4> QED BY <1>1, <3>1, <3>3, <4>1
    <3> QED BY <3>1, <3>2, <3>3
  <2>5. CASE k = i
    <3>1. r[k].tp = y.tp /\ r[j] = s[j] BY <1>2, <2>5
    <3>2. CASE y.tp = s[i].tp BY <2>1, <2>5, <3>1, <3>2 DEF TpApart
    <3>3. CASE y.tp > n
      <4>1. s[j].tp <= n /\ s[j].tp \in Nat /\ y.tp \in Nat BY <1>1, <2>2 DEF Trades
      <4> QED BY <1>1, <3>1, <3>3, <4>1
    <3>4. CASE y.tp = 0 BY <3>1, <3>4
    <3> QED BY <3>2, <3>3, <3>4
  <2> QED BY <2>3, <2>4, <2>5
<1>8. Awaited(r, new)
  <2> SUFFICES ASSUME NEW o \in new, o.type = "Entry"
               PROVE  \E j \in DOMAIN r : r[j].entry = o.id /\ r[j].st \in {"PendingEntry", "Cancelling"}
    BY DEF Awaited
  <2>1. o \in os /\ (s[i].st = "Open" \/ o.id # s[i].entry) OBVIOUS
  <2>2. PICK j \in DOMAIN s : s[j].entry = o.id /\ s[j].st \in {"PendingEntry", "Cancelling"}
    BY <2>1 DEF Accounted, Awaited
  <2>3. j # i BY <2>1, <2>2
  <2> QED BY <1>2, <2>2, <2>3
<1>9. Accounted(r, new, q) BY <1>5, <1>6, <1>7, <1>8 DEF Accounted
<1> QED BY <1>9 DEF r

\* A plan is submitted.
LEMMA SubmitAccounted ==
    ASSUME NEW s, NEW os, NEW n, Listed(s, os, n), NEW p \in Nat, Accounted(s, os, p),
           NEW x \in Trades, x.st = "PendingEntry", x.entry = n + 1, x.stop = 0, x.tp = 0,
           NEW a \in OrdersType, a.id = n + 1, a.type = "Entry"
    PROVE  Accounted(Append(s, x), os \union {a}, p)
<1> DEFINE r == Append(s, x)
           new == os \union {a}
           m == Len(s) + 1
<1>1. /\ s \in Seq(Trades) /\ os \in SUBSET OrdersType /\ n \in Nat
      /\ \A j \in DOMAIN s : s[j] \in Trades /\ IdsOf(s[j]) \subseteq 0..n
      /\ \A o \in os : o.id <= n
  BY DEF Listed
<1>2. DOMAIN s = 1..Len(s) /\ Len(s) \in Nat BY <1>1, LenProperties
<1>3. r \in Seq(Trades) /\ DOMAIN r = 1..m /\ r[m] = x /\ \A j \in DOMAIN s : r[j] = s[j]
  BY <1>1, <1>2
<1>4. new \in SUBSET OrdersType /\ (\A o \in new : o \in os \/ o.id > n) /\ os \subseteq new BY <1>1
<1>5. m \in Nat /\ \A j \in DOMAIN r : j \in DOMAIN s \/ j = m BY <1>2, <1>3
<1>6. DOMAIN s \subseteq DOMAIN r /\ m \in DOMAIN r BY <1>2, <1>3
<1>7. \A o \in new : o \in os \/ (o.id = n + 1 /\ o.type = "Entry") OBVIOUS
<1>7a. \A o \in new : o = a \/ o \in os OBVIOUS
<1> HIDE DEF r, new, m
<1>8. ASSUME NEW j \in DOMAIN s
      PROVE  OneTrade(s[j], new) /\ Worth(new)[s[j]] = Worth(os)[s[j]]
  <2>1. s[j] \in Trades /\ IdsOf(s[j]) \subseteq 0..n /\ OneTrade(s[j], os) BY <1>1 DEF Accounted
  <2>2. s[j].st = "Open" => \A o \in os : o.id = s[j].tp => o \in new BY <1>4
  <2> QED BY <1>1, <1>4, <2>1, <2>2, TradeStays
<1>9. Covered(r, new, p)
  <2>1. CASE \E j \in DOMAIN s : s[j].st = "Cancelling" BY <1>3, <1>6, <2>1 DEF Covered
  <2>2. CASE p <= Cover(s, os)
    <3>1. Worth(os) \in [Trades -> Int] /\ Worth(new) \in [Trades -> Int] BY WorthIs
    <3>2. \A j \in DOMAIN s : Worth(os)[s[j]] <= Worth(new)[s[j]]
      <4> SUFFICES ASSUME NEW j \in DOMAIN s PROVE Worth(os)[s[j]] <= Worth(new)[s[j]] OBVIOUS
      <4>1. Worth(os)[s[j]] \in Int BY <1>1, <3>1
      <4> QED BY <1>8, <4>1
    <3>3. Cover(s, os) <= Cover(s, new) BY <1>1, <3>1, <3>2, TotalLeq DEF Cover
    <3>4. Worth(new)[x] = 0 BY WorthIs
    <3>5. Cover(r, new) = Cover(s, new) + Worth(new)[x] BY <1>1, <3>1, OfAppend DEF Cover, r
    <3>6. Cover(s, os) \in Nat /\ Cover(s, new) \in Nat BY <1>1, CoverNat
    <3>7. p <= Cover(r, new) BY <2>2, <3>3, <3>4, <3>5, <3>6
    <3> QED BY <3>7 DEF Covered
  <2> QED BY <2>1, <2>2 DEF Accounted, Covered
<1>10. \A j \in DOMAIN r : OneTrade(r[j], new)
  <2>1. OneTrade(x, new)
    <3>1. \A o \in new : o.id # 0 BY <1>4 DEF OrdersType
    <3>2. \A o \in new : o.id = n + 1 => o.type = "Entry" BY <1>1, <1>7
    <3> QED BY <3>1, <3>2 DEF OneTrade
  <2> QED BY <1>3, <1>5, <1>8, <2>1
<1>11. TpApart(r)
  <2>1. TpApart(s) BY DEF Accounted
  <2> QED BY <1>3, <1>5, <2>1 DEF TpApart
<1>12. Awaited(r, new)
  <2> SUFFICES ASSUME NEW o \in new, o.type = "Entry"
               PROVE  \E j \in DOMAIN r : r[j].entry = o.id /\ r[j].st \in {"PendingEntry", "Cancelling"}
    BY DEF Awaited
  <2>1. CASE o = a BY <1>3, <1>6, <2>1
  <2>2. CASE o \in os
    <3>1. PICK j \in DOMAIN s : s[j].entry = o.id /\ s[j].st \in {"PendingEntry", "Cancelling"}
      BY <2>2 DEF Accounted, Awaited
    <3> QED BY <1>3, <1>6, <3>1
  <2> QED BY <1>7a, <2>1, <2>2
<1>13. Accounted(r, new, p) BY <1>9, <1>10, <1>11, <1>12 DEF Accounted
<1> QED BY <1>13 DEF r, new

\* An order whose id is one of a trade's is of the type the trade has for it.
LEMMA OrderOf ==
    ASSUME NEW s, NEW os, NEW n, Listed(s, os, n), NEW p, Accounted(s, os, p),
           NEW i \in DOMAIN s, NEW o \in os
    PROVE  /\ s[i] \in Trades /\ IdsOf(s[i]) \subseteq 0..n /\ OneTrade(s[i], os)
           /\ o \in OrdersType /\ o.id # 0 /\ o.id \in Nat /\ o.size \in Nat \ {0} /\ o.id <= n
           /\ o.id = s[i].entry => o.type = "Entry"
           /\ o.id = s[i].stop => o.type = "Stop" /\ (s[i].st = "Open" => o.size >= Worth(os)[s[i]])
           /\ o.id = s[i].tp => o.type = "Tp" /\ o.size = 1
<1>1. s[i] \in Trades /\ IdsOf(s[i]) \subseteq 0..n /\ OneTrade(s[i], os) BY DEF Listed, Accounted
<1>2. o \in OrdersType /\ o.id <= n BY DEF Listed
<1>3. o.id # 0 /\ o.id \in Nat /\ o.size \in Nat \ {0} BY <1>2 DEF OrdersType
<1> QED BY <1>1, <1>2, <1>3 DEF OneTrade

\* The entry of a pending trade fills; its stop and its take-profit are
\* placed, or neither.
LEMMA EntryAccounted ==
    ASSUME NEW s, NEW os, NEW n, Listed(s, os, n), NEW p \in Nat, Accounted(s, os, p),
           NEW o \in os, o.type = "Entry", NEW i \in DOMAIN s, s[i].st = "PendingEntry",
           o.id \in IdsOf(s[i]), NEW y \in Trades, y.st = "Open", y.size = Lots,
           y.entry = s[i].entry, NEW new \in SUBSET OrdersType,
           \/ y.stop = 0 /\ y.tp = 0 /\ new = os \ {o}
           \/ /\ y.stop = n + 1 /\ y.tp = n + 2
              /\ new = (os \ {o}) \union {Order(n + 1, o.tk, "Stop", Lots), Order(n + 2, o.tk, "Tp", 1)}
    PROVE  Accounted([s EXCEPT ![i] = y], new, p + Lots)
<1>0. n \in Nat /\ (\A x \in os : x.id <= n) /\ \A x, z \in os : x.id = z.id => x = z BY DEF Listed
<1>1. /\ s[i] \in Trades /\ IdsOf(s[i]) \subseteq 0..n /\ OneTrade(s[i], os) /\ o.id # 0 BY OrderOf
<1>2. s[i].entry = o.id BY <1>1 DEF IdsOf, OneTrade
<1>3. \A x \in new : \/ x \in os /\ x # o
                     \/ x.id = n + 1 /\ x.type = "Stop" /\ x.size = Lots /\ y.stop = n + 1 /\ y.tp = n + 2
                     \/ x.id = n + 2 /\ x.type = "Tp" /\ x.size = 1 /\ y.stop = n + 1 /\ y.tp = n + 2
  BY DEF Order
<1>4. y.tp = 0 \/ \E x \in new : x.id = y.tp
  <2> DEFINE a == Order(n + 2, o.tk, "Tp", 1)
  <2>1. a.id = n + 2 BY DEF Order
  <2>2. y.tp = 0 \/ (y.tp = n + 2 /\ a \in new) OBVIOUS
  <2> HIDE DEF a
  <2> QED BY <2>1, <2>2
<1>5. Worth(new)[y] = 2 BY <1>4, WorthIs
<1>6. Worth(os)[s[i]] = 0 BY <1>1, WorthIs
<1>7. \A x \in new : x \in os \/ x.id > n BY <1>0, <1>3
<1>8. \A j \in DOMAIN s : j # i /\ s[j].st = "Open" => \A x \in os : x.id = s[j].tp => x \in new
  <2> SUFFICES ASSUME NEW j \in DOMAIN s, NEW x \in os, x.id = s[j].tp PROVE x \in new OBVIOUS
  <2>1. x.type = "Tp" BY OrderOf
  <2>2. x # o BY <2>1
  <2> QED BY <2>2
<1>9. OneTrade(y, new)
  <2> SUFFICES ASSUME NEW x \in new
               PROVE  /\ x.id = y.entry => x.type = "Entry"
                      /\ x.id = y.stop => x.type = "Stop" /\ x.size >= Worth(new)[y]
                      /\ x.id = y.tp => x.type = "Tp" /\ x.size = 1
    BY DEF OneTrade
  <2>1. CASE x \in os /\ x # o
    <3>1. x.id # o.id /\ x.id <= n /\ x.id # 0 /\ x.id \in Nat BY <1>0, <2>1, OrderOf
    <3>2. x.id # y.entry BY <1>2, <3>1
    <3>3. y.stop \in {0, n + 1} /\ y.tp \in {0, n + 2} OBVIOUS
    <3> QED BY <1>0, <3>1, <3>2, <3>3
  <2>2. CASE x.id = n + 1 /\ x.type = "Stop" /\ x.size = Lots /\ y.stop = n + 1 /\ y.tp = n + 2
    <3>1. y.entry \in 0..n BY <1>1 DEF IdsOf
    <3> QED BY <1>0, <1>5, <2>2, <3>1 DEF Lots
  <2>3. CASE x.id = n + 2 /\ x.type = "Tp" /\ x.size = 1 /\ y.stop = n + 1 /\ y.tp = n + 2
    <3>1. y.entry \in 0..n BY <1>1 DEF IdsOf
    <3> QED BY <1>0, <2>3, <3>1
  <2> QED BY <1>3, <2>1, <2>2, <2>3
<1>10. y.tp = 0 \/ y.tp > n BY <1>0
<1>11. p + Lots \in Nat /\ p + Lots + Worth(os)[s[i]] <= p + Worth(new)[y] BY <1>5, <1>6 DEF Lots
<1>12. \A x \in new : x.type = "Entry" => x \in os /\ (s[i].st = "Open" \/ x.id # s[i].entry)
  <2> SUFFICES ASSUME NEW x \in new, x.type = "Entry" PROVE x \in os /\ x.id # s[i].entry OBVIOUS
  <2>1. x \in os /\ x # o BY <1>3
  <2> QED BY <1>0, <1>2, <2>1
<1>13. s[i].st # "Cancelling" OBVIOUS
<1> DEFINE q == p + Lots
<1>14. q \in Nat /\ q + Worth(os)[s[i]] <= p + Worth(new)[y] BY <1>11
<1> HIDE DEF q
<1>15. Accounted([s EXCEPT ![i] = y], new, q)
  BY <1>7, <1>8, <1>9, <1>10, <1>12, <1>13, <1>14, SwapAccounted
<1> QED BY <1>15 DEF q

\* The stop of an open trade fills.
LEMMA StopAccounted ==
    ASSUME NEW s, NEW os, NEW n, Listed(s, os, n), NEW p \in Nat, Accounted(s, os, p),
           NEW o \in os, o.type = "Stop", NEW i \in DOMAIN s, s[i].st = "Open",
           o.id \in IdsOf(s[i]), NEW y \in Trades, y.st = "Closed",
           y.entry = s[i].entry, y.stop = s[i].stop, y.tp = s[i].tp,
           NEW q \in Nat, q = IF o.size > p THEN 0 ELSE p - o.size
    PROVE  Accounted([s EXCEPT ![i] = y], os \ {o}, q)
<1> DEFINE new == os \ {o}
<1>0. n \in Nat /\ os \in SUBSET OrdersType BY DEF Listed
<1>1. /\ s[i] \in Trades /\ IdsOf(s[i]) \subseteq 0..n /\ OneTrade(s[i], os) /\ o.size \in Nat
      /\ o.id # s[i].entry /\ o.id # s[i].tp
  BY OrderOf
<1>2. o.size >= Worth(os)[s[i]] BY <1>1, OrderOf DEF IdsOf
<1>3. \A j \in DOMAIN s : j # i /\ s[j].st = "Open" => \A x \in os : x.id = s[j].tp => x \in new
  <2> SUFFICES ASSUME NEW j \in DOMAIN s, NEW x \in os, x.id = s[j].tp PROVE x \in new OBVIOUS
  <2>1. x.type = "Tp" BY OrderOf
  <2>2. x # o BY <2>1
  <2> QED BY <2>2
<1>4. new \in SUBSET OrdersType /\ new \subseteq os BY <1>0
<1>5. \A x \in new : x \in os \/ x.id > n BY <1>4
<1>6. Worth(new)[y] = 0 /\ Worth(os)[s[i]] \in 0..2 BY <1>1, WorthIs
<1>7. OneTrade(y, new)
  <2>1. OneTrade(s[i], os) BY <1>1
  <2> QED BY <1>4, <2>1 DEF OneTrade
<1>8. q = 0 \/ q + Worth(os)[s[i]] <= p + Worth(new)[y] BY <1>1, <1>2, <1>6
<1>9. \A x \in new : x.type = "Entry" => x \in os /\ (s[i].st = "Open" \/ x.id # s[i].entry) BY <1>4
<1>10. s[i].st # "Cancelling" OBVIOUS
<1> HIDE DEF new
<1>11. Accounted([s EXCEPT ![i] = y], new, q)
  BY <1>3, <1>4, <1>5, <1>7, <1>8, <1>9, <1>10, SwapAccounted
<1> QED BY <1>11 DEF new

\* The take-profit of an open trade fills: the stop is replaced.
LEMMA TpAccounted ==
    ASSUME NEW s, NEW os, NEW n, Listed(s, os, n), NEW p \in Nat, Accounted(s, os, p),
           NEW o \in os, o.type = "Tp", NEW i \in DOMAIN s, s[i].st = "Open",
           o.id \in IdsOf(s[i]), NEW y \in Trades, y.st = "Open", y.size = s[i].size,
           y.entry = s[i].entry, y.stop = n + 1, y.tp = s[i].tp, o.size <= p,
           NEW new, new = {x \in os \ {o} : x.id # s[i].stop}
                            \union {Order(n + 1, o.tk, "Stop", s[i].size - o.size)}
    PROVE  Accounted([s EXCEPT ![i] = y], new, p - o.size)
<1>0. /\ n \in Nat /\ os \in SUBSET OrdersType
      /\ (\A x \in os : x.id <= n) /\ \A x, z \in os : x.id = z.id => x = z
  BY DEF Listed
<1>1. /\ s[i] \in Trades /\ IdsOf(s[i]) \subseteq 0..n /\ OneTrade(s[i], os) /\ o.id # 0
      /\ o.id # s[i].entry /\ o.id # s[i].stop /\ o.tk \in Tickers
  BY OrderOf DEF OrdersType
<1>2. o.id = s[i].tp /\ o.size = 1 /\ s[i].size = 2 /\ s[i].tp \in 0..n /\ s[i].stop \in 0..n
      /\ s[i].entry \in 0..n
  BY <1>1, OrderOf DEF IdsOf, OneTrade, Lots
<1>3. new = {x \in os \ {o} : x.id # s[i].stop} \union {Order(n + 1, o.tk, "Stop", 1)}
  <2>1. s[i].size - o.size = 1 BY <1>2
  <2> QED BY <2>1
<1>4. \A x \in new : \/ x \in os /\ x # o /\ x.id # s[i].stop
                     \/ x.id = n + 1 /\ x.type = "Stop" /\ x.size = 1 /\ x \in OrdersType
  <2>1. n + 1 \in Nat \ {0} /\ 1 \in Nat \ {0} /\ "Stop" \in {"Entry", "Stop", "Tp"} BY <1>0
  <2> DEFINE a == Order(n + 1, o.tk, "Stop", 1)
  <2>2. a \in OrdersType /\ a.id = n + 1 /\ a.type = "Stop" /\ a.size = 1 BY <1>1, <2>1, OrderIs
  <2> HIDE DEF a
  <2>3. new = {x \in os \ {o} : x.id # s[i].stop} \union {a} BY <1>3 DEF a
  <2> QED BY <2>2, <2>3
<1>5. new \in SUBSET OrdersType /\ \A x \in new : x \in os \/ x.id > n BY <1>0, <1>4
<1>6. \A j \in DOMAIN s : j # i /\ s[j].st = "Open" => \A x \in os : x.id = s[j].tp => x \in new
  <2> SUFFICES ASSUME NEW j \in DOMAIN s, j # i, NEW x \in os, x.id = s[j].tp PROVE x \in new OBVIOUS
  <2>1. x.type = "Tp" /\ x.id # 0 BY OrderOf
  <2>2. x # o
    <3>1. TpApart(s) BY DEF Accounted
    <3> QED BY <1>1, <1>2, <3>1 DEF TpApart
  <2>3. x.id # s[i].stop
    <3>1. x.id = s[i].stop => x.type = "Stop" BY OrderOf
    <3> QED BY <2>1, <3>1
  <2> QED BY <1>3, <2>2, <2>3
<1>7. Worth(os)[s[i]] = 2 BY <1>1, <1>2, WorthIs
<1>8. Worth(new)[y] = 1
  <2>1. \A x \in new : x.id # y.tp BY <1>0, <1>2, <1>4
  <2>2. y.tp # 0 BY <1>1, <1>2
  <2> QED BY <2>1, <2>2, WorthIs
<1>9. OneTrade(y, new)
  <2> SUFFICES ASSUME NEW x \in new
               PROVE  /\ x.id = y.entry => x.type = "Entry"
                      /\ x.id = y.stop => x.type = "Stop" /\ x.size >= Worth(new)[y]
                      /\ x.id = y.tp => x.type = "Tp" /\ x.size = 1
    BY <1>2 DEF OneTrade, Lots
  <2>1. CASE x \in os /\ x # o /\ x.id # s[i].stop
    <3>1. x.id <= n /\ x.id \in Nat BY <2>1, OrderOf
    <3>2. x.id = s[i].entry => x.type = "Entry" BY <2>1, OrderOf
    <3>3. x.id # y.tp BY <1>0, <1>2, <2>1
    <3> QED BY <1>0, <3>1, <3>2, <3>3
  <2>2. CASE x.id = n + 1 /\ x.type = "Stop" /\ x.size = 1 BY <1>0, <1>2, <1>8, <2>2
  <2> QED BY <1>4, <2>1, <2>2
<1> DEFINE q == p - o.size
<1>10. q \in Nat /\ q + Worth(os)[s[i]] <= p + Worth(new)[y] BY <1>2, <1>7, <1>8
<1>11. \A x \in new : x.type = "Entry" => x \in os /\ (s[i].st = "Open" \/ x.id # s[i].entry) BY <1>4
<1>12. s[i].st # "Cancelling" /\ y.tp = s[i].tp OBVIOUS
<1> HIDE DEF q
<1>13. Accounted([s EXCEPT ![i] = y], new, q)
  BY <1>5, <1>6, <1>9, <1>10, <1>11, <1>12, SwapAccounted
<1> QED BY <1>13 DEF q

\* A bare trade is armed again.
LEMMA ArmAccounted ==
    ASSUME NEW s, NEW os, NEW n, Listed(s, os, n), NEW p \in Nat, Accounted(s, os, p),
           NEW i \in DOMAIN s, s[i].st = "Open", NEW y \in Trades, y.st = "Open", y.size = s[i].size,
           y.entry = s[i].entry, y.stop = n + 1, y.tp = s[i].tp,
           NEW a \in OrdersType, a.id = n + 1, a.type = "Stop", a.size = s[i].size
    PROVE  Accounted([s EXCEPT ![i] = y], os \union {a}, p)
<1> DEFINE new == os \union {a}
<1>0. n \in Nat /\ os \in SUBSET OrdersType /\ \A x \in os : x.id <= n BY DEF Listed
<1>1. s[i] \in Trades /\ IdsOf(s[i]) \subseteq 0..n /\ OneTrade(s[i], os) BY DEF Listed, Accounted
<1>2. s[i].size = 2 /\ s[i].tp \in 0..n /\ s[i].entry \in 0..n BY <1>1 DEF IdsOf, OneTrade, Lots
<1>3. new \in SUBSET OrdersType /\ (\A x \in new : x \in os \/ x.id > n) /\ os \subseteq new
      /\ \A x \in new : x \in os \/ (x.id = n + 1 /\ x.type = "Stop" /\ x.size = 2)
  BY <1>0, <1>2
<1> HIDE DEF new
<1>4. Worth(new)[y] = Worth(os)[s[i]]
  <2>1. (\E x \in new : x.id = y.tp) <=> (\E x \in os : x.id = s[i].tp) BY <1>0, <1>2, <1>3
  <2> QED BY <1>1, <2>1, WorthIs
<1>5. OneTrade(y, new)
  <2> SUFFICES ASSUME NEW x \in new
               PROVE  /\ x.id = y.entry => x.type = "Entry"
                      /\ x.id = y.stop => x.type = "Stop" /\ x.size >= Worth(new)[y]
                      /\ x.id = y.tp => x.type = "Tp" /\ x.size = 1
    BY <1>2 DEF OneTrade, Lots
  <2>1. CASE x \in os
    <3>1. x.id <= n /\ x.id \in Nat BY <2>1, OrderOf
    <3>2. x.id = s[i].entry => x.type = "Entry" BY <2>1, OrderOf
    <3>3. x.id = s[i].tp => x.type = "Tp" /\ x.size = 1 BY <2>1, OrderOf
    <3> QED BY <1>0, <3>1, <3>2, <3>3
  <2>2. CASE x.id = n + 1 /\ x.type = "Stop" /\ x.size = 2
    <3>1. Worth(new)[y] \in 0..2 BY WorthIs
    <3> QED BY <1>0, <1>2, <2>2, <3>1
  <2> QED BY <1>3, <2>1, <2>2
<1>6. p + Worth(os)[s[i]] <= p + Worth(new)[y]
  <2>1. Worth(os)[s[i]] \in 0..2 BY <1>1, WorthIs
  <2> QED BY <1>4, <2>1
<1>7. \A x \in new : x.type = "Entry" => x \in os /\ (s[i].st = "Open" \/ x.id # s[i].entry) BY <1>3
<1>8. s[i].st # "Cancelling" /\ y.tp = s[i].tp OBVIOUS
<1>9. \A j \in DOMAIN s : j # i /\ s[j].st = "Open" => \A x \in os : x.id = s[j].tp => x \in new
  BY <1>3
<1>10. Accounted([s EXCEPT ![i] = y], new, p)
  BY <1>3, <1>5, <1>6, <1>7, <1>8, <1>9, SwapAccounted
<1> QED BY <1>10 DEF new

\* An order fills that no pending or open trade of the executor owns.
LEMMA UnseenAccounted ==
    ASSUME NEW s, NEW os, NEW n, Listed(s, os, n), NEW p \in Nat, Accounted(s, os, p),
           NEW o \in os,
           \A i \in DOMAIN s : s[i].st \in {"PendingEntry", "Open"} => o.id \notin IdsOf(s[i]),
           NEW q \in Nat, o.type # "Entry" => q <= p
    PROVE  Accounted(s, os \ {o}, q)
<1> DEFINE new == os \ {o}
<1>1. /\ s \in Seq(Trades) /\ os \in SUBSET OrdersType /\ n \in Nat
      /\ \A j \in DOMAIN s : s[j] \in Trades /\ IdsOf(s[j]) \subseteq 0..n
  BY DEF Listed
<1>2. new \in SUBSET OrdersType /\ (\A x \in new : x \in os \/ x.id > n) /\ new \subseteq os
      /\ \A x \in os : x = o \/ x \in new
  BY <1>1
<1> HIDE DEF new
<1>3. ASSUME NEW j \in DOMAIN s
      PROVE  OneTrade(s[j], new) /\ Worth(new)[s[j]] = Worth(os)[s[j]]
  <2>1. s[j] \in Trades /\ IdsOf(s[j]) \subseteq 0..n /\ OneTrade(s[j], os) BY <1>1 DEF Accounted
  <2>2. s[j].st = "Open" => \A x \in os : x.id = s[j].tp => x \in new BY <1>2 DEF IdsOf
  <2> QED BY <1>1, <1>2, <2>1, <2>2, TradeStays
<1>4. Covered(s, new, q)
  <2>1. CASE \E j \in DOMAIN s : s[j].st = "Cancelling" BY <2>1 DEF Covered
  <2>2. CASE o.type = "Entry"
    <3>1. PICK j \in DOMAIN s : s[j].entry = o.id /\ s[j].st \in {"PendingEntry", "Cancelling"}
      BY <2>2 DEF Accounted, Awaited
    <3>2. o.id \in IdsOf(s[j]) BY <3>1 DEF IdsOf
    <3>3. s[j].st = "Cancelling" BY <3>1, <3>2
    <3> QED BY <3>3 DEF Covered
  <2>3. CASE o.type # "Entry" /\ p <= Cover(s, os)
    <3>1. Worth(os) \in [Trades -> Int] /\ Worth(new) \in [Trades -> Int] BY WorthIs
    <3>2. \A j \in DOMAIN s : Worth(os)[s[j]] <= Worth(new)[s[j]]
      <4> SUFFICES ASSUME NEW j \in DOMAIN s PROVE Worth(os)[s[j]] <= Worth(new)[s[j]] OBVIOUS
      <4>1. Worth(os)[s[j]] \in Int BY <1>1, <3>1
      <4> QED BY <1>3, <4>1
    <3>3. Cover(s, os) <= Cover(s, new) BY <1>1, <3>1, <3>2, TotalLeq DEF Cover
    <3>4. Cover(s, os) \in Nat /\ Cover(s, new) \in Nat BY <1>1, CoverNat
    <3>5. q <= Cover(s, new) BY <2>3, <3>3, <3>4
    <3> QED BY <3>5 DEF Covered
  <2> QED BY <2>1, <2>2, <2>3 DEF Accounted, Covered
<1>5. TpApart(s) BY DEF Accounted
<1>6. Awaited(s, new) BY <1>2 DEF Accounted, Awaited
<1>7. Accounted(s, new, q) BY <1>3, <1>4, <1>5, <1>6 DEF Accounted
<1> QED BY <1>7 DEF new

\* cancel_all: no order is left, every trade that is not Closed is Cancelling.
LEMMA CancelAccounted ==
    ASSUME NEW s, NEW os, NEW n, Listed(s, os, n), NEW p \in Nat, Accounted(s, os, p),
           NEW r \in Seq(Trades), DOMAIN r = DOMAIN s,
           \A i \in DOMAIN s : IF s[i].st = "Closed" THEN r[i] = s[i]
                               ELSE r[i] = [s[i] EXCEPT !.st = "Cancelling"]
    PROVE  Accounted(r, {}, p)
<1>1. s \in Seq(Trades) /\ \A i \in DOMAIN s : s[i] \in Trades BY DEF Listed
<1>2. \A i \in DOMAIN s : r[i].tp = s[i].tp /\ (r[i].st = "Cancelling" \/ (r[i] = s[i] /\ s[i].st = "Closed"))
  <2> SUFFICES ASSUME NEW i \in DOMAIN s
               PROVE  r[i].tp = s[i].tp /\ (r[i].st = "Cancelling" \/ (r[i] = s[i] /\ s[i].st = "Closed"))
    OBVIOUS
  <2>1. CASE s[i].st = "Closed" BY <2>1
  <2>2. CASE s[i].st # "Closed"
    <3>1. r[i] = [s[i] EXCEPT !.st = "Cancelling"] BY <2>2
    <3> QED BY <1>1, <3>1 DEF Trades
  <2> QED BY <2>1, <2>2
<1>3. \A i \in DOMAIN r : OneTrade(r[i], {}) BY <1>2 DEF OneTrade
<1>4. TpApart(r)
  <2>1. TpApart(s) BY DEF Accounted
  <2> QED BY <1>2, <2>1 DEF TpApart
<1>5. Awaited(r, {}) BY DEF Awaited
<1>6. Covered(r, {}, p)
  <2>1. CASE \E i \in DOMAIN r : r[i].st = "Cancelling" BY <2>1 DEF Covered
  <2>2. CASE \A i \in DOMAIN s : s[i].st = "Closed" /\ r[i] = s[i]
    <3>1. p <= Cover(s, os) BY <2>2 DEF Accounted, Covered
    <3>2. \A i \in DOMAIN s : Worth(os)[s[i]] = 0 /\ Worth({})[r[i]] = 0
      <4> SUFFICES ASSUME NEW i \in DOMAIN s PROVE Worth(os)[s[i]] = 0 /\ Worth({})[r[i]] = 0 OBVIOUS
      <4>1. s[i] \in Trades /\ s[i].st # "Open" /\ r[i] = s[i] BY <1>1, <2>2
      <4> QED BY <4>1, WorthIs
    <3>3. Worth(os) \in [Trades -> Int] /\ Worth({}) \in [Trades -> Int] BY WorthIs
    <3>4. \A i \in DOMAIN s : Worth(os)[s[i]] <= Worth({})[r[i]] BY <3>2
    <3>5. Cover(s, os) <= Cover(r, {}) BY <1>1, <3>3, <3>4, TotalLeq DEF Cover
    <3>6. Cover(s, os) \in Nat /\ Cover(r, {}) \in Nat BY <1>1, CoverNat
    <3>7. p <= Cover(r, {}) BY <3>1, <3>5, <3>6
    <3> QED BY <3>7 DEF Covered
  <2> QED BY <1>2, <2>1, <2>2
<1> QED BY <1>3, <1>4, <1>5, <1>6 DEF Accounted

\* The executor forgets its Closed trades.
LEMMA UnclosedAccounted ==
    ASSUME NEW s, NEW os, NEW n, Listed(s, os, n), NEW p \in Nat, Accounted(s, os, p)
    PROVE  Accounted(Unclosed(s), os, p)
<1> DEFINE r == Unclosed(s)
<1>1. s \in Seq(Trades) /\ Len(s) \in Nat /\ DOMAIN s = 1..Len(s) BY LenProperties DEF Listed
<1>2. /\ r \in Seq(Trades)
      /\ \A j \in DOMAIN r : r[j].st # "Closed" /\ \E i \in DOMAIN s : r[j] = s[i]
      /\ \A i \in DOMAIN s : s[i].st # "Closed" => \E j \in DOMAIN r : r[j] = s[i]
      /\ TpApart(s) => TpApart(r)
  <2>1. KeptOf(r, s, Len(s)) BY <1>1, UnclosedIs
  <2> HIDE DEF r
  <2>2. KeptOf(r, s, Len(s)) =>
          /\ r \in Seq(Trades)
          /\ \A j \in DOMAIN r : r[j].st # "Closed" /\ \E i \in 1..Len(s) : r[j] = s[i]
          /\ \A i \in 1..Len(s) : s[i].st # "Closed" => \E j \in DOMAIN r : r[j] = s[i]
          /\ TpApart(s) => TpApart(r)
    BY DEF KeptOf
  <2> QED BY <1>1, <2>1, <2>2
<1>3. Cover(r, os) = Cover(s, os)
  <2>1. Worth(os) \in [Trades -> Int] BY WorthIs
  <2>2. \A x \in Trades : x.st = "Closed" => Worth(os)[x] = 0
    <3>1. \A x \in Trades : x.st = "Closed" => x.st # "Open" OBVIOUS
    <3> QED BY <3>1, WorthIs
  <2> QED BY <1>1, <2>1, <2>2, UnclosedSum DEF Cover
<1> HIDE DEF r
<1>4. Covered(r, os, p)
  <2>1. CASE \E i \in DOMAIN s : s[i].st = "Cancelling"
    <3>1. PICK i \in DOMAIN s : s[i].st = "Cancelling" BY <2>1
    <3>2. PICK j \in DOMAIN r : r[j] = s[i] BY <1>2, <3>1
    <3> QED BY <3>1, <3>2 DEF Covered
  <2>2. CASE p <= Cover(s, os) BY <1>3, <2>2 DEF Covered
  <2> QED BY <2>1, <2>2 DEF Accounted, Covered
<1>5. \A j \in DOMAIN r : OneTrade(r[j], os)
  <2> SUFFICES ASSUME NEW j \in DOMAIN r PROVE OneTrade(r[j], os) OBVIOUS
  <2>1. PICK i \in DOMAIN s : r[j] = s[i] BY <1>2
  <2> QED BY <2>1 DEF Accounted
<1>6. TpApart(r) BY <1>2 DEF Accounted
<1>7. Awaited(r, os)
  <2> SUFFICES ASSUME NEW o \in os, o.type = "Entry"
               PROVE  \E j \in DOMAIN r : r[j].entry = o.id /\ r[j].st \in {"PendingEntry", "Cancelling"}
    BY DEF Awaited
  <2>1. PICK i \in DOMAIN s : s[i].entry = o.id /\ s[i].st \in {"PendingEntry", "Cancelling"}
    BY DEF Accounted, Awaited
  <2>2. PICK j \in DOMAIN r : r[j] = s[i] BY <1>2, <2>1
  <2> QED BY <2>1, <2>2
<1>8. Accounted(r, os, p) BY <1>4, <1>5, <1>6, <1>7 DEF Accounted
<1> QED BY <1>8 DEF r

\* The open trades hit of s are closed, or are left open when the order
\* fails: r, new and q are the trades, orders and position after it.
Closing(s, os, p, hit, sizes, r, new, q, ok) ==
    /\ hit = {i \in DOMAIN s : s[i].st = "Open"}
    /\ DOMAIN r = DOMAIN s /\ \A i \in DOMAIN s \ hit : r[i] = s[i]
    /\ new \in SUBSET os
    /\ \A i \in hit : /\ r[i].st = IF ok THEN "Closed" ELSE "Open"
                      /\ r[i].stop = 0 /\ r[i].tp = 0
                      /\ r[i].size = s[i].size /\ r[i].entry = s[i].entry
    /\ \A o \in os : o \in new \/ \E i \in hit : o.id \in {s[i].stop, s[i].tp}
    /\ sizes = [i \in DOMAIN s |-> IF i \in hit THEN s[i].size ELSE 0]
    /\ q = IF ~ok THEN p ELSE IF Total(sizes) > p THEN 0 ELSE p - Total(sizes)

\* close_trade: the open trades drop their orders, and are Closed if the
\* gateway takes the market order for their sizes.
LEMMA CloseAccounted ==
    ASSUME NEW s, NEW os, NEW n, Listed(s, os, n), NEW p \in Nat, Accounted(s, os, p),
           NEW hit, NEW sizes, NEW r \in Seq(Trades), NEW new, NEW q \in Nat, NEW ok \in BOOLEAN,
           Closing(s, os, p, hit, sizes, r, new, q, ok)
    PROVE  Accounted(r, new, q)
<1> USE DEF Closing
<1>1. /\ s \in Seq(Trades) /\ os \in SUBSET OrdersType /\ n \in Nat
      /\ \A j \in DOMAIN s : s[j] \in Trades /\ IdsOf(s[j]) \subseteq 0..n
      /\ \A o \in os : o.id <= n
  BY DEF Listed
<1>2. \A i \in DOMAIN s : OneTrade(s[i], os) BY DEF Accounted
<1>3. DOMAIN s = 1..Len(s) /\ Len(s) \in Nat /\ \A j \in DOMAIN r : r[j] \in Trades
  <2>1. DOMAIN s = 1..Len(s) /\ Len(s) \in Nat BY <1>1, LenProperties
  <2> QED BY <2>1, ElementOfSeq
<1>4. IsFiniteSet(DOMAIN s) BY <1>3, UpToIsFinite
<1>5. Worth(os) \in [Trades -> Int] /\ Worth(new) \in [Trades -> Int] BY WorthIs
<1>6. Covered(r, new, q)
  <2>1. CASE \E i \in DOMAIN s : s[i].st = "Cancelling"
    <3>1. PICK i \in DOMAIN s : s[i].st = "Cancelling" BY <2>1
    <3>2. i \notin hit BY <3>1
    <3> QED BY <3>1, <3>2 DEF Covered
  <2>2. CASE p <= Cover(s, os) /\ ok
    <3>1. \A j \in DOMAIN s : Of(Worth(os), s)[j] \in Int /\ sizes[j] \in Int
                              /\ Of(Worth(os), s)[j] <= sizes[j]
      <4> SUFFICES ASSUME NEW j \in DOMAIN s
                   PROVE  Of(Worth(os), s)[j] \in Int /\ sizes[j] \in Int
                          /\ Of(Worth(os), s)[j] <= sizes[j]
        OBVIOUS
      <4>1. s[j] \in Trades /\ Of(Worth(os), s)[j] = Worth(os)[s[j]] BY <1>1, <1>5, OfIs
      <4>2. CASE j \in hit
        <5>1. s[j].size = 2 /\ sizes[j] = s[j].size BY <1>2, <4>2 DEF OneTrade, Lots
        <5>2. Worth(os)[s[j]] \in 0..2 BY <4>1, WorthIs
        <5> QED BY <4>1, <5>1, <5>2
      <4>3. CASE j \notin hit
        <5>1. sizes[j] = 0 /\ s[j].st # "Open" BY <4>3
        <5>2. Worth(os)[s[j]] = 0 BY <4>1, <5>1, WorthIs
        <5> QED BY <4>1, <5>1, <5>2
      <4> QED BY <4>2, <4>3
    <3>2. SumOver(Of(Worth(os), s), DOMAIN s) <= SumOver(sizes, DOMAIN s) BY <1>4, <3>1, SumLeq
    <3>3. DOMAIN Of(Worth(os), s) = DOMAIN s BY <1>1, <1>5, OfIs
    <3>4. DOMAIN sizes = DOMAIN s OBVIOUS
    <3>5. Cover(s, os) <= Total(sizes) BY <3>2, <3>3, <3>4, TotalIs DEF Cover
    <3>6. Cover(s, os) \in Nat /\ Cover(r, new) \in Nat BY <1>1, CoverNat
    <3>7. Total(sizes) \in Int
      <4>1. \A j \in DOMAIN s : sizes[j] \in Int BY <3>1
      <4>2. SumOver(sizes, DOMAIN s) \in Int BY <1>4, <4>1, SumInt
      <4> QED BY <3>4, <4>2, TotalIs
    <3>8. q = 0 BY <2>2, <3>5, <3>6, <3>7
    <3>9. q <= Cover(r, new) BY <3>6, <3>8
    <3> QED BY <3>9 DEF Covered
  <2>3. CASE p <= Cover(s, os) /\ ~ok
    <3>1. \A j \in DOMAIN s : Worth(os)[s[j]] <= Worth(new)[r[j]]
      <4> SUFFICES ASSUME NEW j \in DOMAIN s PROVE Worth(os)[s[j]] <= Worth(new)[r[j]] OBVIOUS
      <4>1. s[j] \in Trades /\ r[j] \in Trades BY <1>1, <1>3
      <4>2. CASE j \in hit
        <5>1. r[j].st = "Open" /\ r[j].tp = 0 BY <2>3, <4>2
        <5>2. Worth(new)[r[j]] = 2 /\ Worth(os)[s[j]] \in 0..2 BY <4>1, <5>1, WorthIs
        <5> QED BY <5>2
      <4>3. CASE j \notin hit
        <5>1. r[j] = s[j] /\ s[j].st # "Open" BY <4>3
        <5>2. Worth(new)[r[j]] = 0 /\ Worth(os)[s[j]] = 0 BY <4>1, <5>1, WorthIs
        <5> QED BY <5>2
      <4> QED BY <4>2, <4>3
    <3>2. Cover(s, os) <= Cover(r, new) BY <1>1, <1>5, <3>1, TotalLeq DEF Cover
    <3>3. Cover(s, os) \in Nat /\ Cover(r, new) \in Nat BY <1>1, CoverNat
    <3>4. q <= Cover(r, new) BY <2>3, <3>2, <3>3
    <3> QED BY <3>4 DEF Covered
  <2> QED BY <2>1, <2>2, <2>3 DEF Accounted, Covered
<1>7. \A j \in DOMAIN r : OneTrade(r[j], new)
  <2> SUFFICES ASSUME NEW j \in DOMAIN s PROVE OneTrade(r[j], new) OBVIOUS
  <2>1. OneTrade(s[j], os) /\ s[j] \in Trades /\ IdsOf(s[j]) \subseteq 0..n BY <1>1, <1>2
  <2>2. CASE j \in hit
    <3>1. \A o \in new : o.id # 0 BY <1>1 DEF OrdersType
    <3>2. r[j].stop = 0 /\ r[j].tp = 0 /\ r[j].entry = s[j].entry /\ r[j].size = s[j].size
          /\ r[j].st # "PendingEntry" /\ s[j].st = "Open"
      BY <2>2
    <3> QED BY <2>1, <3>1, <3>2 DEF OneTrade
  <2>3. CASE j \notin hit
    <3>1. r[j] = s[j] /\ s[j].st # "Open" BY <2>3
    <3> QED BY <2>1, <3>1 DEF OneTrade
  <2> QED BY <2>2, <2>3
<1>8. TpApart(r)
  <2>1. \A j \in DOMAIN s : r[j].tp = 0 \/ r[j].tp = s[j].tp OBVIOUS
  <2>2. TpApart(s) BY DEF Accounted
  <2> QED BY <2>1, <2>2 DEF TpApart
<1>9. Awaited(r, new)
  <2> SUFFICES ASSUME NEW o \in new, o.type = "Entry"
               PROVE  \E j \in DOMAIN r : r[j].entry = o.id /\ r[j].st \in {"PendingEntry", "Cancelling"}
    BY DEF Awaited
  <2>1. PICK j \in DOMAIN s : s[j].entry = o.id /\ s[j].st \in {"PendingEntry", "Cancelling"}
    BY DEF Accounted, Awaited
  <2>2. r[j] = s[j] BY <2>1
  <2> QED BY <2>1, <2>2
<1> QED BY <1>6, <1>7, <1>8, <1>9 DEF Accounted

-----------------------------------------------------------------------------
(* The steps of a process that recovered nothing, and of its end.          *)

OrdersAt(os, t) == {o \in os : o.tk = t}

FirstLife ==
    Up /\ used.boots = 0 => \A t \in Tickers : Accounted(trades[t], OrdersAt(orders, t), pos[t])

\* What a shutdown saved covers what fills nobody sees may still open.
DiskKept ==
    main.pc = "exited" /\ used.boots = 0 => \A t \in Tickers :
        pos[t] > 0 \/ (\E o \in orders : o.tk = t /\ o.type = "Entry") => disk.trades[t] # <<>>

LEMMA ListedAt ==
    ASSUME Inv, NEW t \in Tickers
    PROVE  /\ Listed(trades[t], OrdersAt(orders, t), used.id) /\ pos[t] \in Nat
           /\ trades[t] \in Seq(Trades) /\ used.id \in Nat
<1>0. TypeInv /\ IdsOK BY DEF Inv
<1>1. trades[t] \in Seq(Trades) /\ \A i \in DOMAIN trades[t] : trades[t][i] \in Trades BY <1>0, TradeIs
<1>2. used.id \in Nat BY <1>0, UsedIs
<1>3. orders \in SUBSET OrdersType /\ pos[t] \in Nat BY <1>0 DEF TypeInv
<1>4. \A i \in DOMAIN trades[t] : IdsOf(trades[t][i]) \subseteq 0..used.id BY <1>0 DEF IdsOK, Owned
<1> QED BY <1>0, <1>1, <1>2, <1>3, <1>4 DEF Listed, OrdersAt, IdsOK

\* A step at one ticker.
LEMMA AtTicker ==
    ASSUME FirstLife, Up, Up', used'.boots = used.boots, NEW t \in Tickers,
           \A u \in Tickers : u # t => /\ trades'[u] = trades[u] /\ pos'[u] = pos[u]
                                       /\ OrdersAt(orders', u) = OrdersAt(orders, u),
           used.boots = 0 /\ Accounted(trades[t], OrdersAt(orders, t), pos[t]) =>
             Accounted(trades'[t], OrdersAt(orders', t), pos'[t])
    PROVE  FirstLife' /\ DiskKept'
<1>1. DiskKept' BY DEF DiskKept, Up
<1>2. ASSUME used.boots = 0, NEW u \in Tickers
      PROVE  Accounted(trades'[u], OrdersAt(orders', u), pos'[u])
  <2>1. \A v \in Tickers : Accounted(trades[v], OrdersAt(orders, v), pos[v]) BY <1>2 DEF FirstLife
  <2>2. CASE u = t BY <1>2, <2>1, <2>2
  <2>3. CASE u # t BY <2>1, <2>3
  <2> QED BY <2>2, <2>3
<1> QED BY <1>1, <1>2 DEF FirstLife

LEMMA NothingDone ==
    ASSUME FirstLife, Up, Up', used'.boots = used.boots, UNCHANGED <<trades, orders, pos>>
    PROVE  FirstLife' /\ DiskKept'
BY DEF FirstLife, DiskKept, Up

LEMMA SubmitRemembers ==
    ASSUME Inv, FirstLife, NEW t \in Tickers, Submit(t) PROVE FirstLife' /\ DiskKept'
<1> DEFINE n == used.id
           x == [st |-> "PendingEntry", entry |-> n + 1, stop |-> 0, tp |-> 0, size |-> 0]
           a == Order(n + 1, t, "Entry", Lots)
           s == trades[t]
           os == OrdersAt(orders, t)
<1>0. TypeInv BY DEF Inv
<1>1. /\ Up /\ main' = main /\ pos' = pos /\ used' = [used EXCEPT !.id = @ + 1, !.submits = @ + 1]
      /\ orders' = orders \union {a} /\ trades' = [trades EXCEPT ![t] = Append(s, x)]
  BY DEF Submit
<1>2. Up' BY <1>1 DEF Up
<1>3. used'.boots = used.boots BY <1>0, <1>1, UsedIs
<1>4. Listed(s, os, n) /\ pos[t] \in Nat /\ s \in Seq(Trades) /\ n \in Nat BY ListedAt
<1>5. x \in Trades /\ x.st = "PendingEntry" /\ x.entry = n + 1 /\ x.stop = 0 /\ x.tp = 0
  BY <1>4 DEF Trades, TradeStates
<1>6. a \in OrdersType /\ a.id = n + 1 /\ a.type = "Entry" /\ a.tk = t
  <2>1. n + 1 \in Nat \ {0} /\ Lots \in Nat \ {0} /\ "Entry" \in {"Entry", "Stop", "Tp"} BY <1>4 DEF Lots
  <2> QED BY <2>1, OrderIs
<1> HIDE DEF x, a
<1>7. Append(s, x) \in Seq(Trades) BY <1>4, <1>5
<1>8. trades'[t] = Append(s, x) /\ \A u \in Tickers : u # t => trades'[u] = trades[u]
  BY <1>0, <1>1, <1>7, PutTrades
<1>9. OrdersAt(orders', t) = os \union {a} /\ \A u \in Tickers : u # t => OrdersAt(orders', u) = OrdersAt(orders, u)
  BY <1>1, <1>6 DEF OrdersAt
<1>10. pos'[t] = pos[t] BY <1>1
<1> HIDE DEF s, os, n
<1>11. ASSUME Accounted(s, os, pos[t]) PROVE Accounted(Append(s, x), os \union {a}, pos[t])
  BY <1>4, <1>5, <1>6, <1>11, SubmitAccounted
<1>12. Accounted(s, os, pos[t]) => Accounted(trades'[t], OrdersAt(orders', t), pos'[t])
  BY <1>8, <1>9, <1>10, <1>11
<1> QED BY <1>1, <1>2, <1>3, <1>8, <1>9, <1>12, AtTicker DEF s, os

LEMMA EntryFillRemembers ==
    ASSUME Inv, FirstLife, NEW o \in orders, EntryFill(o) PROVE FirstLife' /\ DiskKept'
<1> DEFINE t == o.tk
           n == used.id
           s == trades[t]
           os == OrdersAt(orders, t)
<1>0. TypeInv /\ Shape BY DEF Inv
<1>1. /\ o.type = "Entry" /\ Up /\ t \in Tickers /\ main' = main /\ o \in os
      /\ pos' = [pos EXCEPT ![t] = @ + Lots]
  BY <1>0, EntryFillDoes DEF OrdersAt
<1>2. PICK i \in Owners(o, "PendingEntry"), m \in {0, 2} :
                LET y == [trades[o.tk][i] EXCEPT !.st = "Open", !.size = Lots,
                             !.stop = IF m = 2 THEN used.id + 1 ELSE 0,
                             !.tp = IF m = 2 THEN used.id + 2 ELSE 0]
                IN  /\ i \in DOMAIN trades[o.tk]
                    /\ used' \in [id : Nat, submits : Nat, boots : Nat, faults : Nat]
                    /\ used'.id = used.id + m /\ used'.boots = used.boots
                    /\ orders' = (orders \ {o}) \union
                         (IF m = 2 THEN {Order(used.id + 1, o.tk, "Stop", Lots),
                                         Order(used.id + 2, o.tk, "Tp", 1)} ELSE {})
                    /\ y \in Trades
                    /\ y.st = "Open" /\ y.size = Lots /\ y.entry = trades[o.tk][i].entry
                    /\ y.stop = IF m = 2 THEN used.id + 1 ELSE 0
                    /\ y.tp = IF m = 2 THEN used.id + 2 ELSE 0
                    /\ trades' = [trades EXCEPT ![o.tk] = [trades[o.tk] EXCEPT ![i] = y]]
  BY <1>0, EntryFillDoes
<1> DEFINE y == [s[i] EXCEPT !.st = "Open", !.size = Lots,
                     !.stop = IF m = 2 THEN used.id + 1 ELSE 0,
                     !.tp = IF m = 2 THEN used.id + 2 ELSE 0]
           new == (os \ {o}) \union
                  (IF m = 2 THEN {Order(n + 1, t, "Stop", Lots), Order(n + 2, t, "Tp", 1)} ELSE {})
<1>3. /\ i \in DOMAIN s /\ y \in Trades /\ y.st = "Open" /\ y.size = Lots /\ y.entry = s[i].entry
      /\ y.stop = (IF m = 2 THEN n + 1 ELSE 0) /\ y.tp = (IF m = 2 THEN n + 2 ELSE 0)
      /\ trades' = [trades EXCEPT ![t] = [s EXCEPT ![i] = y]] /\ used'.boots = used.boots
  BY <1>2
<1>4. s[i].st = "PendingEntry" /\ o.id \in IdsOf(s[i]) BY DEF Owners, IdsOf
<1>5. Listed(s, os, n) /\ pos[t] \in Nat /\ s \in Seq(Trades) /\ n \in Nat BY <1>1, ListedAt
<1>6. /\ OrdersAt(orders', t) = new
      /\ \A u \in Tickers : u # t => OrdersAt(orders', u) = OrdersAt(orders, u)
  BY <1>2 DEF OrdersAt, Order
<1>7. new \in SUBSET OrdersType
  <2>1. os \subseteq OrdersType BY <1>5 DEF Listed
  <2>2. n + 1 \in Nat \ {0} /\ n + 2 \in Nat \ {0} /\ Lots \in Nat \ {0} /\ 1 \in Nat \ {0}
        /\ "Stop" \in {"Entry", "Stop", "Tp"} /\ "Tp" \in {"Entry", "Stop", "Tp"}
    BY <1>5 DEF Lots
  <2>3. Order(n + 1, t, "Stop", Lots) \in OrdersType /\ Order(n + 2, t, "Tp", 1) \in OrdersType
    BY <1>1, <2>2, OrderIs
  <2> QED BY <2>1, <2>3
<1>8. \/ y.stop = 0 /\ y.tp = 0 /\ new = os \ {o}
      \/ /\ y.stop = n + 1 /\ y.tp = n + 2
         /\ new = (os \ {o}) \union {Order(n + 1, o.tk, "Stop", Lots), Order(n + 2, o.tk, "Tp", 1)}
  BY <1>3
<1> HIDE DEF y, new
<1>9. [s EXCEPT ![i] = y] \in Seq(Trades) BY <1>3, <1>5, ReplaceIs
<1>10. trades'[t] = [s EXCEPT ![i] = y] /\ \A u \in Tickers : u # t => trades'[u] = trades[u]
  BY <1>0, <1>1, <1>3, <1>9, PutTrades
<1>11. pos'[t] = pos[t] + Lots /\ \A u \in Tickers : u # t => pos'[u] = pos[u]
  <2>1. pos \in [Tickers -> Nat] BY <1>0 DEF TypeInv
  <2> QED BY <1>1, <2>1
<1>12. Up' BY <1>1 DEF Up
<1> HIDE DEF s, os, n
<1>13. ASSUME Accounted(s, os, pos[t]) PROVE Accounted([s EXCEPT ![i] = y], new, pos[t] + Lots)
  <2> DEFINE p == pos[t]
  <2>1. o \in os /\ o.type = "Entry" BY <1>1
  <2>2. i \in DOMAIN s /\ s[i].st = "PendingEntry" /\ o.id \in IdsOf(s[i]) BY <1>3, <1>4
  <2>3. y \in Trades /\ y.st = "Open" /\ y.size = Lots /\ y.entry = s[i].entry BY <1>3
  <2>4. Listed(s, os, n) /\ p \in Nat /\ Accounted(s, os, p) BY <1>5, <1>13
  <2> HIDE DEF p, t
  <2>5. Accounted([s EXCEPT ![i] = y], new, p + Lots)
    BY <1>7, <1>8, <2>1, <2>2, <2>3, <2>4, EntryAccounted
  <2> QED BY <2>5 DEF p
<1>14. Accounted(s, os, pos[t]) => Accounted(trades'[t], OrdersAt(orders', t), pos'[t])
  BY <1>6, <1>10, <1>11, <1>13
<1> HIDE DEF t
<1> QED BY <1>1, <1>3, <1>6, <1>10, <1>11, <1>12, <1>14, AtTicker DEF s, os

LEMMA StopFillRemembers ==
    ASSUME Inv, FirstLife, NEW o \in orders, StopFill(o) PROVE FirstLife' /\ DiskKept'
<1> DEFINE t == o.tk
           n == used.id
           s == trades[t]
           os == OrdersAt(orders, t)
           p == pos[t]
           q == IF o.size > p THEN 0 ELSE p - o.size
<1>0. TypeInv /\ Shape BY DEF Inv
<1>1. /\ o.type = "Stop" /\ Up /\ t \in Tickers /\ main' = main /\ used' = used /\ o \in os
      /\ orders' = orders \ {o}
      /\ pos' = [pos EXCEPT ![t] = IF o.size > @ THEN 0 ELSE @ - o.size]
  BY <1>0, StopFillDoes DEF OrdersAt
<1>2. PICK i \in Owners(o, "Open"), gain \in Profits :
                LET y == [trades[o.tk][i] EXCEPT !.st = "Closed"]
                IN  /\ i \in DOMAIN trades[o.tk]
                    /\ y \in Trades /\ y.st = "Closed" /\ IdsOf(y) = IdsOf(trades[o.tk][i])
                    /\ y.tp = trades[o.tk][i].tp
                    /\ trades' = [trades EXCEPT ![o.tk] = [trades[o.tk] EXCEPT ![i] = y]]
                    /\ closed' = Append(closed, gain)
                    /\ tally' = [tally EXCEPT !.made = @ + gain]
  BY <1>0, StopFillDoes
<1> DEFINE y == [s[i] EXCEPT !.st = "Closed"]
<1>3. /\ i \in DOMAIN s /\ y \in Trades /\ y.st = "Closed"
      /\ trades' = [trades EXCEPT ![t] = [s EXCEPT ![i] = y]]
  BY <1>2
<1>4. s[i].st = "Open" /\ o.id \in IdsOf(s[i]) BY DEF Owners, IdsOf
<1>5. Listed(s, os, n) /\ p \in Nat /\ s \in Seq(Trades) /\ n \in Nat BY <1>1, ListedAt
<1>6. y.entry = s[i].entry /\ y.stop = s[i].stop /\ y.tp = s[i].tp
  <2>1. s[i] \in Trades BY <1>0, <1>1, <1>3, TradeIs
  <2> QED BY <2>1 DEF Trades
<1>7. /\ OrdersAt(orders', t) = os \ {o}
      /\ \A u \in Tickers : u # t => OrdersAt(orders', u) = OrdersAt(orders, u)
  BY <1>1 DEF OrdersAt
<1>8. q \in Nat
  <2>1. o.size \in Nat BY <1>0 DEF TypeInv, OrdersType
  <2> QED BY <1>5, <2>1
<1> HIDE DEF y
<1>9. [s EXCEPT ![i] = y] \in Seq(Trades) BY <1>3, <1>5, ReplaceIs
<1>10. trades'[t] = [s EXCEPT ![i] = y] /\ \A u \in Tickers : u # t => trades'[u] = trades[u]
  BY <1>0, <1>1, <1>3, <1>9, PutTrades
<1>11. pos'[t] = q /\ \A u \in Tickers : u # t => pos'[u] = pos[u]
  <2>1. pos \in [Tickers -> Nat] BY <1>0 DEF TypeInv
  <2> QED BY <1>1, <2>1
<1>12. Up' /\ used'.boots = used.boots BY <1>1 DEF Up
<1>13. q = IF o.size > p THEN 0 ELSE p - o.size OBVIOUS
<1> HIDE DEF s, os, n, p, q, t
<1>14. ASSUME Accounted(s, os, p) PROVE Accounted([s EXCEPT ![i] = y], os \ {o}, q)
  <2>1. o \in os /\ o.type = "Stop" BY <1>1
  <2>2. i \in DOMAIN s BY <1>3
  <2> QED BY <1>3, <1>4, <1>5, <1>6, <1>8, <1>13, <1>14, <2>1, <2>2, StopAccounted
<1>15. Accounted(s, os, p) => Accounted(trades'[t], OrdersAt(orders', t), pos'[t])
  BY <1>7, <1>10, <1>11, <1>14
<1> QED BY <1>1, <1>7, <1>10, <1>11, <1>12, <1>15, AtTicker DEF s, os, p

LEMMA TpFillRemembers ==
    ASSUME Inv, FirstLife, NEW o \in orders, TpFill(o) PROVE FirstLife' /\ DiskKept'
<1> DEFINE t == o.tk
           n == used.id
           s == trades[t]
           os == OrdersAt(orders, t)
           p == pos[t]
           q == p - o.size
<1>0. TypeInv /\ Shape /\ IdsOK BY DEF Inv
<1>1. /\ o.type = "Tp" /\ Up /\ t \in Tickers /\ main' = main /\ used'.boots = used.boots /\ o \in os
      /\ pos' = [pos EXCEPT ![t] = @ - o.size]
  BY <1>0, TpFillDoes DEF OrdersAt
<1>2. PICK i \in Owners(o, "Open"), rest \in Int :
                LET y == [trades[o.tk][i] EXCEPT !.stop = IF rest > 0 THEN used.id + 1 ELSE 0]
                IN  /\ i \in DOMAIN trades[o.tk]
                    /\ rest = trades[o.tk][i].size - o.size
                    /\ y \in Trades /\ y.st = "Open"
                    /\ y.size = trades[o.tk][i].size
                    /\ y.entry = trades[o.tk][i].entry /\ y.tp = trades[o.tk][i].tp
                    /\ y.stop = IF rest > 0 THEN used.id + 1 ELSE 0
                    /\ trades' = [trades EXCEPT ![o.tk] = [trades[o.tk] EXCEPT ![i] = y]]
                    /\ orders' = {x \in orders \ {o} : x.id # trades[o.tk][i].stop}
                         \union (IF rest > 0 THEN {Order(used.id + 1, o.tk, "Stop", rest)} ELSE {})
  BY <1>0, TpFillDoes
<1> DEFINE y == [s[i] EXCEPT !.stop = IF rest > 0 THEN used.id + 1 ELSE 0]
           new == {x \in os \ {o} : x.id # s[i].stop} \union {Order(n + 1, o.tk, "Stop", rest)}
<1>3. /\ i \in DOMAIN s /\ rest = s[i].size - o.size /\ y \in Trades /\ y.st = "Open"
      /\ y.size = s[i].size /\ y.entry = s[i].entry /\ y.tp = s[i].tp
      /\ y.stop = (IF rest > 0 THEN n + 1 ELSE 0)
      /\ trades' = [trades EXCEPT ![t] = [s EXCEPT ![i] = y]]
  BY <1>2
<1>4. s[i].st = "Open" /\ o.id \in IdsOf(s[i]) BY DEF Owners, IdsOf
<1>5. Listed(s, os, n) /\ p \in Nat /\ s \in Seq(Trades) /\ n \in Nat BY <1>1, ListedAt
<1>6. q \in Nat /\ o.size <= p
  <2>1. o.size \in Nat BY <1>0 DEF TypeInv, OrdersType
  <2>2. o.size <= p BY DEF TpFill
  <2> QED BY <1>5, <2>1, <2>2
<1>7. \A x \in orders : x.id = s[i].stop => x.tk = t
  BY <1>0, <1>1, <1>3 DEF IdsOK, Owned, IdsOf
<1>8. \A u \in Tickers : u # t => OrdersAt(orders', u) = OrdersAt(orders, u)
  <2>1. Order(n + 1, o.tk, "Stop", rest).tk = t BY DEF Order
  <2>2. ASSUME NEW x \in orders, x.tk # t PROVE x \in orders'
    <3>1. x # o /\ x.id # s[i].stop BY <1>7, <2>2
    <3> QED BY <1>2, <3>1
  <2>3. ASSUME NEW x \in orders', x.tk # t PROVE x \in orders
    <3> DEFINE b == Order(n + 1, o.tk, "Stop", rest)
    <3>1. b.tk = t BY <2>1
    <3>2. x \in orders \/ x = b BY <1>2
    <3> HIDE DEF b
    <3> QED BY <2>3, <3>1, <3>2
  <2> QED BY <2>2, <2>3 DEF OrdersAt
<1>9. rest > 0 => OrdersAt(orders', t) = new
  <2> DEFINE b == Order(n + 1, o.tk, "Stop", rest)
  <2>1. b.tk = t BY DEF Order
  <2>2. rest > 0 => orders' = {x \in orders \ {o} : x.id # s[i].stop} \union {b} BY <1>2
  <2>3. new = {x \in os \ {o} : x.id # s[i].stop} \union {b} OBVIOUS
  <2> HIDE DEF b, new, s
  <2> QED BY <2>1, <2>2, <2>3 DEF OrdersAt
<1> HIDE DEF y
<1>10. [s EXCEPT ![i] = y] \in Seq(Trades) BY <1>3, <1>5, ReplaceIs
<1>11. trades'[t] = [s EXCEPT ![i] = y] /\ \A u \in Tickers : u # t => trades'[u] = trades[u]
  BY <1>0, <1>1, <1>3, <1>10, PutTrades
<1>12. pos'[t] = q /\ \A u \in Tickers : u # t => pos'[u] = pos[u]
  <2>1. pos \in [Tickers -> Nat] BY <1>0 DEF TypeInv
  <2> QED BY <1>1, <2>1
<1>13. Up' BY <1>1 DEF Up
<1>14. new = {x \in os \ {o} : x.id # s[i].stop} \union {Order(n + 1, o.tk, "Stop", s[i].size - o.size)}
  BY <1>3
<1> HIDE DEF s, os, n, p, t, new
<1>15. ASSUME Accounted(s, os, p) PROVE rest > 0 /\ Accounted([s EXCEPT ![i] = y], new, q)
  <2>1. o \in os /\ o.type = "Tp" BY <1>1
  <2>2. i \in DOMAIN s BY <1>3
  <2>3. OneTrade(s[i], os) /\ o.id # s[i].entry /\ o.id # s[i].stop /\ (o.id = s[i].tp => o.size = 1)
    BY <1>5, <1>15, <2>1, <2>2, OrderOf
  <2>4. s[i].size = 2 /\ o.size = 1 BY <1>4, <2>3 DEF OneTrade, IdsOf, Lots
  <2>5. rest > 0 /\ y.stop = n + 1 BY <1>3, <2>4
  <2>6. o.size <= p /\ y.tp = s[i].tp /\ y.entry = s[i].entry /\ y.size = s[i].size /\ y \in Trades
        /\ y.st = "Open"
    BY <1>3, <1>6
  <2>7. Accounted([s EXCEPT ![i] = y], new, p - o.size)
    BY <1>4, <1>5, <1>14, <1>15, <2>1, <2>2, <2>5, <2>6, TpAccounted
  <2> QED BY <2>5, <2>7
<1>16. Accounted(s, os, p) => Accounted(trades'[t], OrdersAt(orders', t), pos'[t])
  BY <1>9, <1>11, <1>12, <1>15
<1> QED BY <1>1, <1>8, <1>11, <1>12, <1>13, <1>16, AtTicker DEF s, os, p

LEMMA TickExecutorRemembers ==
    ASSUME Inv, FirstLife, TickExecutor PROVE FirstLife' /\ DiskKept'
<1>0. TypeInv /\ Shape BY DEF Inv
<1>1. /\ UNCHANGED pos /\ Up /\ Up' /\ used'.boots = used.boots BY <1>0, TickExecutorDoes
<1>2. CASE UNCHANGED <<orders, trades>> BY <1>1, <1>2, NothingDone
<1>3. ASSUME NEW t \in Tickers, NEW i \in DOMAIN trades[t],
             LET y == [trades[t][i] EXCEPT !.stop = used.id + 1]
             IN  /\ used'.id = used.id + 1
                 /\ trades[t][i].st = "Open" /\ trades[t][i].stop = 0
                 /\ y \in Trades /\ y.st = "Open" /\ y.size = trades[t][i].size
                 /\ y.entry = trades[t][i].entry /\ y.tp = trades[t][i].tp
                 /\ y.stop = used.id + 1
                 /\ trades' = [trades EXCEPT ![t] = [trades[t] EXCEPT ![i] = y]]
                 /\ orders' = orders \union {Order(used.id + 1, t, "Stop", trades[t][i].size)}
      PROVE  FirstLife' /\ DiskKept'
  <2> DEFINE n == used.id
             s == trades[t]
             os == OrdersAt(orders, t)
             p == pos[t]
             y == [s[i] EXCEPT !.stop = used.id + 1]
             z == s[i].size
             a == Order(n + 1, t, "Stop", z)
  <2>1. /\ s[i].st = "Open" /\ y \in Trades /\ y.st = "Open" /\ y.size = s[i].size
        /\ y.entry = s[i].entry /\ y.tp = s[i].tp /\ y.stop = n + 1
        /\ trades' = [trades EXCEPT ![t] = [s EXCEPT ![i] = y]] /\ orders' = orders \union {a}
    BY <1>3
  <2>2. Listed(s, os, n) /\ p \in Nat /\ s \in Seq(Trades) /\ n \in Nat /\ i \in DOMAIN s BY ListedAt
  <2>3. z \in Nat \ {0}
    <3>1. s[i] \in Trades BY <1>0, TradeIs
    <3>2. s[i].size > 0 BY <1>0, <2>1 DEF Shape
    <3> QED BY <3>1, <3>2 DEF Trades
  <2> HIDE DEF y, z
  <2>4. a \in OrdersType /\ a.id = n + 1 /\ a.type = "Stop" /\ a.size = z /\ a.tk = t
    <3>1. n + 1 \in Nat \ {0} /\ "Stop" \in {"Entry", "Stop", "Tp"} BY <2>2
    <3> QED BY <2>3, <3>1, OrderIs
  <2> HIDE DEF a
  <2>5. OrdersAt(orders', t) = os \union {a} /\ \A u \in Tickers : u # t => OrdersAt(orders', u) = OrdersAt(orders, u)
    BY <2>1, <2>4 DEF OrdersAt
  <2>6. [s EXCEPT ![i] = y] \in Seq(Trades) BY <2>1, <2>2, ReplaceIs
  <2>7. trades'[t] = [s EXCEPT ![i] = y] /\ \A u \in Tickers : u # t => trades'[u] = trades[u]
    BY <1>0, <2>1, <2>6, PutTrades
  <2>8. pos'[t] = p /\ \A u \in Tickers : u # t => pos'[u] = pos[u] BY <1>1
  <2>9. a.size = s[i].size BY <2>4 DEF z
  <2> HIDE DEF s, os, n, p
  <2>10. ASSUME Accounted(s, os, p) PROVE Accounted([s EXCEPT ![i] = y], os \union {a}, p)
    <3>1. y \in Trades /\ y.st = "Open" /\ y.size = s[i].size BY <2>1
    <3>2. y.entry = s[i].entry /\ y.tp = s[i].tp /\ y.stop = n + 1 BY <2>1
    <3>3. a \in OrdersType /\ a.id = n + 1 /\ a.type = "Stop" BY <2>4
    <3>4. s[i].st = "Open" /\ i \in DOMAIN s BY <2>1, <2>2
    <3> QED BY <2>2, <2>9, <2>10, <3>1, <3>2, <3>3, <3>4, ArmAccounted
  <2>11. Accounted(s, os, p) => Accounted(trades'[t], OrdersAt(orders', t), pos'[t])
    BY <2>5, <2>7, <2>8, <2>10
  <2> QED BY <1>1, <2>5, <2>7, <2>8, <2>11, AtTicker DEF s, os, p
<1> QED BY <1>0, <1>2, <1>3, TickExecutorDoes

LEMMA CloseTradeRemembers ==
    ASSUME Inv, FirstLife, Up, Up', NEW t \in Tickers, CloseTrade(t) PROVE FirstLife' /\ DiskKept'
<1> DEFINE n == used.id
           s == trades[t]
           os == OrdersAt(orders, t)
           p == pos[t]
           r == trades'[t]
           new == OrdersAt(orders', t)
           q == pos'[t]
           hit == Hit(t)
           sizes == [i \in DOMAIN s |-> IF i \in hit THEN s[i].size ELSE 0]
<1>0. TypeInv /\ Shape /\ IdsOK BY DEF Inv
<1>1. /\ used'.boots = used.boots /\ orders' = {o \in orders : o.id \notin HitIds(t)}
      /\ pos' \in [Tickers -> Nat] /\ \A u \in Tickers : u # t => pos'[u] = pos[u]
      /\ trades' \in [Tickers -> Seq(Trades)]
      /\ \A u \in Tickers : u # t => trades'[u] = trades[u]
      /\ DOMAIN r = DOMAIN s /\ \A i \in DOMAIN s \ hit : r[i] = s[i]
  BY <1>0, CloseTradeDoes
<1>2. PICK ok \in BOOLEAN :
                /\ pos'[t] = IF ~ok THEN pos[t] ELSE IF HitSize(t) > pos[t] THEN 0 ELSE pos[t] - HitSize(t)
                /\ \A i \in Hit(t) : LET y == trades'[t][i]
                                     IN  /\ y.st = IF ok THEN "Closed" ELSE "Open"
                                         /\ y.stop = 0 /\ y.tp = 0
                                         /\ y.size = trades[t][i].size
                                         /\ y.entry = trades[t][i].entry
  BY <1>0, CloseTradeDoes
<1>3. q = IF ~ok THEN p ELSE IF Total(sizes) > p THEN 0 ELSE p - Total(sizes) BY <1>2 DEF HitSize
<1>4. \A i \in hit : /\ r[i].st = IF ok THEN "Closed" ELSE "Open"
                     /\ r[i].stop = 0 /\ r[i].tp = 0
                     /\ r[i].size = s[i].size /\ r[i].entry = s[i].entry
  BY <1>2
<1>5. hit = {i \in DOMAIN s : s[i].st = "Open"} BY <1>0 DEF Hit, Shape
<1>6. \A o \in orders : o.id \in HitIds(t) => o.tk = t
  <2> SUFFICES ASSUME NEW o \in orders, o.id \in HitIds(t) PROVE o.tk = t OBVIOUS
  <2>1. PICK i \in Hit(t) : o.id = trades[t][i].stop \/ o.id = trades[t][i].tp BY DEF HitIds
  <2>2. i \in DOMAIN trades[t] /\ o.id \in IdsOf(trades[t][i]) BY <2>1 DEF Hit, IdsOf
  <2> QED BY <1>0, <2>2 DEF IdsOK, Owned
<1>7. \A u \in Tickers : u # t => OrdersAt(orders', u) = OrdersAt(orders, u)
  BY <1>1, <1>6 DEF OrdersAt
<1>8. new \in SUBSET os BY <1>1 DEF OrdersAt
<1>9. \A o \in os : o \in new \/ \E i \in hit : o.id \in {s[i].stop, s[i].tp}
  BY <1>1 DEF OrdersAt, HitIds
<1>10. Listed(s, os, n) /\ p \in Nat BY ListedAt
<1>11. r \in Seq(Trades) /\ q \in Nat BY <1>1
<1>12. sizes = [i \in DOMAIN s |-> IF i \in hit THEN s[i].size ELSE 0] OBVIOUS
<1>13. DOMAIN r = DOMAIN s BY <1>1
<1>14. \A i \in DOMAIN s \ hit : r[i] = s[i] BY <1>1
<1> HIDE DEF s, os, n, p, r, new, q, hit, sizes
<1>16. ok \in BOOLEAN BY <1>2
<1>17. Closing(s, os, p, hit, sizes, r, new, q, ok)
  BY <1>3, <1>4, <1>5, <1>8, <1>9, <1>12, <1>13, <1>14 DEF Closing
<1>15. ASSUME Accounted(s, os, p) PROVE Accounted(r, new, q)
  BY <1>10, <1>11, <1>16, <1>17, <1>15, CloseAccounted
<1> QED BY <1>1, <1>7, <1>15, AtTicker DEF s, os, p, r, new, q

LEMMA KillCancelRemembers ==
    ASSUME Inv, FirstLife, KillCancel PROVE FirstLife' /\ DiskKept'
<1>0. TypeInv /\ Shape BY DEF Inv
<1>1. UNCHANGED pos /\ Up /\ Up' /\ used'.boots = used.boots BY <1>0, KillCancelDoes
<1>2. CASE UNCHANGED <<orders, trades>> BY <1>1, <1>2, NothingDone
<1>3. ASSUME NEW t \in Tickers, CancelledAt(t) PROVE FirstLife' /\ DiskKept'
  <2> DEFINE s == trades[t]
             os == OrdersAt(orders, t)
             n == used.id
             p == pos[t]
             r == trades'[t]
  <2>1. /\ orders' = {o \in orders : o.tk # t} /\ r \in Seq(Trades) /\ DOMAIN r = DOMAIN s
        /\ \A u \in Tickers : u # t => trades'[u] = trades[u]
    BY <1>3 DEF CancelledAt
  <2>2. \A i \in DOMAIN s : IF s[i].st = "Closed" THEN r[i] = s[i]
                            ELSE r[i] = [s[i] EXCEPT !.st = "Cancelling"]
    BY <1>3 DEF CancelledAt
  <2>3. Listed(s, os, n) /\ p \in Nat BY ListedAt
  <2>4. OrdersAt(orders', t) = {} /\ \A u \in Tickers : u # t => OrdersAt(orders', u) = OrdersAt(orders, u)
    BY <2>1 DEF OrdersAt
  <2>5. pos'[t] = p /\ \A u \in Tickers : u # t => pos'[u] = pos[u] BY <1>1
  <2> HIDE DEF s, os, n, p, r
  <2>6. ASSUME Accounted(s, os, p) PROVE Accounted(r, {}, p)
    BY <2>1, <2>2, <2>3, <2>6, CancelAccounted
  <2>7. Accounted(s, os, p) => Accounted(r, OrdersAt(orders', t), pos'[t]) BY <2>4, <2>5, <2>6
  <2> QED BY <1>1, <2>1, <2>4, <2>5, <2>7, AtTicker DEF s, os, p, r
<1> QED BY <1>0, <1>2, <1>3, KillCancelDoes

LEMMA DrainRemembers ==
    ASSUME Inv, FirstLife, Drain PROVE FirstLife' /\ DiskKept'
<1>1. /\ Up /\ UNCHANGED <<main, pos, orders, used>>
      /\ trades' = [t \in Tickers |-> Unclosed(trades[t])]
  BY DEF Drain, exchange
<1>2. Up' BY <1>1 DEF Up
<1>3. DiskKept' BY <1>2 DEF DiskKept, Up
<1>4. ASSUME used.boots = 0, NEW t \in Tickers
      PROVE  Accounted(trades'[t], OrdersAt(orders', t), pos'[t])
  <2>1. Accounted(trades[t], OrdersAt(orders, t), pos[t]) BY <1>1, <1>4 DEF FirstLife
  <2>2. Listed(trades[t], OrdersAt(orders, t), used.id) /\ pos[t] \in Nat BY ListedAt
  <2>3. Accounted(Unclosed(trades[t]), OrdersAt(orders, t), pos[t]) BY <2>1, <2>2, UnclosedAccounted
  <2> QED BY <1>1, <2>3
<1> QED BY <1>1, <1>3, <1>4 DEF FirstLife

LEMMA UnseenFillRemembers ==
    ASSUME Inv, FirstLife, DiskKept, NEW o \in orders, UnseenFill(o) PROVE FirstLife' /\ DiskKept'
<1> DEFINE t == o.tk
           n == used.id
           s == trades[t]
           os == OrdersAt(orders, t)
           p == pos[t]
           q == IF o.type = "Entry" THEN p + o.size ELSE IF o.size > p THEN 0 ELSE p - o.size
<1>0. TypeInv BY DEF Inv
<1>1. /\ UNCHANGED <<main, trades, disk, used>> /\ orders' = orders \ {o}
      /\ pos' = [pos EXCEPT ![t] = IF o.type = "Entry" THEN @ + o.size
                                    ELSE IF o.size > @ THEN 0 ELSE @ - o.size]
      /\ \A st \in {"PendingEntry", "Open"} : Owners(o, st) = {}
  BY DEF UnseenFill, executor
<1>2. t \in Tickers /\ o.size \in Nat /\ o \in os BY <1>0 DEF TypeInv, OrdersType, OrdersAt
<1>3. p \in Nat /\ pos \in [Tickers -> Nat] BY <1>0, <1>2 DEF TypeInv
<1>4. pos'[t] = q /\ \A u \in Tickers : u # t => pos'[u] = pos[u] BY <1>1, <1>2, <1>3
<1>5. q \in Nat /\ (o.type # "Entry" => q <= p) BY <1>2, <1>3
<1>6. CASE Up
  <2>1. Up' /\ used'.boots = used.boots BY <1>1, <1>6 DEF Up
  <2>2. \A i \in DOMAIN s : s[i].st \in {"PendingEntry", "Open"} => o.id \notin IdsOf(s[i])
    <3> SUFFICES ASSUME NEW i \in DOMAIN s, NEW st \in {"PendingEntry", "Open"}, s[i].st = st,
                        o.id \in IdsOf(s[i])
                 PROVE  i \in Owners(o, st)
      BY <1>1
    <3> QED BY <1>6 DEF Owners, IdsOf
  <2>3. Listed(s, os, n) BY <1>2, ListedAt
  <2>4. /\ OrdersAt(orders', t) = os \ {o}
        /\ \A u \in Tickers : u # t => OrdersAt(orders', u) = OrdersAt(orders, u)
    BY <1>1 DEF OrdersAt
  <2>5. \A u \in Tickers : trades'[u] = trades[u] BY <1>1
  <2> HIDE DEF s, os, n, p, q, t
  <2>6. ASSUME Accounted(s, os, p) PROVE Accounted(s, os \ {o}, q)
    BY <1>2, <1>3, <1>5, <2>2, <2>3, <2>6, UnseenAccounted
  <2>7. trades'[t] = s BY <1>2, <2>5 DEF s
  <2>8. Accounted(s, os, p) => Accounted(trades'[t], OrdersAt(orders', t), pos'[t])
    BY <1>4, <2>4, <2>6, <2>7
  <2> QED BY <1>2, <1>4, <1>6, <2>1, <2>4, <2>5, <2>8, AtTicker DEF s, os, p
<1>7. CASE ~Up
  <2>1. ~Up' BY <1>1, <1>7 DEF Up
  <2>2. FirstLife' BY <2>1 DEF FirstLife
  <2>3. ASSUME main.pc = "exited", used.boots = 0, NEW u \in Tickers,
               pos'[u] > 0 \/ \E x \in orders' : x.tk = u /\ x.type = "Entry"
        PROVE  disk.trades[u] # <<>>
    <3>1. CASE \E x \in orders' : x.tk = u /\ x.type = "Entry" BY <1>1, <2>3, <3>1 DEF DiskKept
    <3>2. CASE pos'[u] > 0
      <4>1. CASE u # t BY <1>4, <2>3, <3>2, <4>1 DEF DiskKept
      <4>2. CASE u = t /\ o.type = "Entry" BY <2>3, <4>2 DEF DiskKept
      <4>3. CASE u = t /\ o.type # "Entry"
        <5>1. p > 0 BY <1>3, <1>4, <1>5, <3>2, <4>3
        <5> QED BY <2>3, <4>3, <5>1 DEF DiskKept
      <4> QED BY <4>1, <4>2, <4>3
    <3> QED BY <2>3, <3>1, <3>2
  <2>4. DiskKept' BY <1>1, <2>3 DEF DiskKept
  <2> QED BY <2>2, <2>4
<1> QED BY <1>6, <1>7

LEMMA TwiceIsZero == ASSUME NEW v \in Int, v = v + v PROVE v = 0
OBVIOUS

\* The end of the shutdown saves a trade for every position and for every
\* entry that may still fill.
LEMMA KillExitRemembers ==
    ASSUME Inv, FirstLife, KillExit PROVE FirstLife' /\ DiskKept'
<1>0. TypeInv BY DEF Inv
<1>1. /\ main.pc = "final" /\ main' = [IdleMain EXCEPT !.pc = "exited"] /\ disk' = Saved(acct, TRUE)
      /\ UNCHANGED <<orders, pos, used>>
  BY DEF KillExit, At, exchange
<1>2. main'.pc = "exited" BY <1>1, DownMainIs
<1>3. FirstLife' BY <1>2 DEF FirstLife, Up
<1>4. Up BY <1>1 DEF Up
<1>5. ASSUME used.boots = 0, NEW t \in Tickers,
             pos[t] > 0 \/ \E o \in orders : o.tk = t /\ o.type = "Entry"
      PROVE  disk'.trades[t] # <<>>
  <2> DEFINE s == trades[t]
             os == OrdersAt(orders, t)
  <2>1. Accounted(s, os, pos[t]) BY <1>4, <1>5 DEF FirstLife
  <2>2. Listed(s, os, used.id) /\ pos[t] \in Nat /\ s \in Seq(Trades) BY ListedAt
  <2>3. \E i \in DOMAIN s : s[i].st # "Closed"
    <3>1. CASE \E o \in orders : o.tk = t /\ o.type = "Entry"
      <4>1. PICK o \in os : o.type = "Entry" BY <3>1 DEF OrdersAt
      <4>2. PICK i \in DOMAIN s : s[i].st \in {"PendingEntry", "Cancelling"}
        BY <2>1, <4>1 DEF Accounted, Awaited
      <4> QED BY <4>2
    <3>2. CASE \E i \in DOMAIN s : s[i].st = "Cancelling" BY <3>2
    <3>3. CASE pos[t] > 0 /\ pos[t] <= Cover(s, os)
      <4> SUFFICES ASSUME \A i \in DOMAIN s : s[i].st = "Closed" PROVE FALSE OBVIOUS
      <4> DEFINE h == Worth(os)
      <4>1. h \in [Trades -> Int] BY WorthIs
      <4>2. DOMAIN s = 1..Len(s) /\ Len(s) \in Nat BY <2>2, LenProperties
      <4>3. \A i \in DOMAIN s : Of(h, s)[i] = 0
        <5> SUFFICES ASSUME NEW i \in DOMAIN s PROVE Of(h, s)[i] = 0 OBVIOUS
        <5>1. s[i] \in Trades /\ Of(h, s)[i] = h[s[i]] BY <2>2, <4>1, OfIs
        <5>2. s[i].st # "Open" OBVIOUS
        <5> QED BY <5>1, <5>2, WorthIs
      <4> HIDE DEF h
      <4>4. IsFiniteSet(DOMAIN s) BY <4>2, UpToIsFinite
      <4>5. DOMAIN Of(h, s) = DOMAIN s BY <2>2, <4>1, OfIs
      <4> DEFINE f == Of(h, s)
                 D == DOMAIN s
      <4>6. \A i \in D : f[i] \in Int /\ f[i] = f[i] + f[i] BY <4>3
      <4>7. Total(f) = SumOver(f, D) BY <4>5, TotalIs
      <4> HIDE DEF f, D
      <4>8. IsFiniteSet(D) BY <4>4 DEF D
      <4>9. SumOver(f, D) = SumOver(f, D) + SumOver(f, D) BY <4>6, <4>8, SumPlus
      <4>10. SumOver(f, D) \in Int BY <4>6, <4>8, SumInt
      <4>11. SumOver(f, D) = 0 BY <4>9, <4>10, TwiceIsZero
      <4>12. Cover(s, os) = 0 BY <4>7, <4>11 DEF Cover, f, h
      <4> QED BY <2>2, <3>3, <4>12
    <3> QED BY <1>5, <2>1, <3>1, <3>2, <3>3 DEF Accounted, Covered
  <2>4. \E j \in DOMAIN Unclosed(s) : TRUE
    <3>1. KeptOf(Unclosed(s), s, Len(s)) /\ DOMAIN s = 1..Len(s) BY <2>2, UnclosedIs, LenProperties
    <3> QED BY <2>3, <3>1 DEF KeptOf
  <2>5. Unclosed(s) # <<>> BY <2>4
  <2>6. acct \in Accounts /\ TRUE \in BOOLEAN BY <1>0 DEF TypeInv
  <2>7. disk'.trades[t] = Unclosed(s) BY <1>0, <1>1, <2>6, SavedIs
  <2> QED BY <2>5, <2>7
<1>6. DiskKept' BY <1>1, <1>5 DEF DiskKept
<1> QED BY <1>3, <1>6

\* The steps at which no trade, order or position moves.
LEMMA StillRemembers ==
    ASSUME FirstLife, Up, main'.pc # "exited", used'.boots = used.boots, UNCHANGED <<trades, orders, pos>>
    PROVE  FirstLife' /\ DiskKept'
BY DEF FirstLife, DiskKept

LEMMA OutsideRemembers ==
    ASSUME Inv, FirstLife, DiskKept, ProcessEvent \/ Trigger \/ RemoveMarker \/ Midnight
    PROVE  FirstLife' /\ DiskKept'
<1>1. UNCHANGED <<main, trades, orders, pos, disk, used>>
  BY DEF ProcessEvent, Trigger, RemoveMarker, Midnight, executor, exchange
<1>2. Up' <=> Up BY <1>1 DEF Up
<1> QED BY <1>1, <1>2 DEF FirstLife, DiskKept

LEMMA CloseRequestRemembers ==
    ASSUME Inv, FirstLife, NEW t \in Tickers, CloseRequest(t) PROVE FirstLife' /\ DiskKept'
<1>1. Up /\ CloseTrade(t) /\ main' = main BY DEF CloseRequest
<1>2. Up' BY <1>1 DEF Up
<1> QED BY <1>1, <1>2, CloseTradeRemembers

LEMMA TickRemembers ==
    ASSUME Inv, FirstLife, TickBegin \/ TickDrain \/ TickSync PROVE FirstLife' /\ DiskKept'
<1>0. TypeInv BY DEF Inv
<1>1. Up BY DEF TickBegin, TickDrain, TickSync, At, Up
<1>2. UNCHANGED <<trades, orders, pos, used>> BY DEF TickBegin, TickDrain, TickSync, executor, exchange
<1>3. main'.pc # "exited"
  <2>1. CASE TickBegin
    <3>1. CASE kill.on
      <4>1. main' = [main EXCEPT !.pc = "cancel", !.todo = Tickers] BY <2>1, <3>1 DEF TickBegin
      <4>2. Tickers \in SUBSET (Tickers \union (Tickers \X Nat)) /\ "cancel" \in Pcs BY DEF Pcs
      <4> QED BY <1>0, <4>1, <4>2, MainIs
    <3>2. CASE ~kill.on
      <4>1. main' = [main EXCEPT !.pc = "exec", !.todo = Bare] BY <2>1, <3>2 DEF TickBegin
      <4>2. Bare \in SUBSET (Tickers \union (Tickers \X Nat)) /\ "exec" \in Pcs
        BY <1>0, BareIs DEF Pcs
      <4> QED BY <1>0, <4>1, <4>2, MainIs
    <3> QED BY <3>1, <3>2
  <2>2. CASE TickDrain
    <3>1. main' = [main EXCEPT !.pc = "sync"] BY <2>2 DEF TickDrain, Goto
    <3> QED BY <1>0, <3>1, MainIs DEF Pcs
  <2>3. CASE TickSync
    <3>1. main' = [main EXCEPT !.pc = "idle"] BY <2>3 DEF TickSync, Goto
    <3> QED BY <1>0, <3>1, MainIs DEF Pcs
  <2> QED BY <2>1, <2>2, <2>3
<1> QED BY <1>1, <1>2, <1>3, StillRemembers

LEMMA KillFetchRemembers ==
    ASSUME Inv, FirstLife, KillFetch PROVE FirstLife' /\ DiskKept'
<1>0. TypeInv BY DEF Inv
<1>1. PICK ok \in BOOLEAN :
         /\ Fail(ok)
         /\ main' = [main EXCEPT !.pc = "close", !.todo =
              IF ok THEN {t \in Tickers : pos[t] > 0} ELSE {t \in Tickers : OpenCount[t] > 0}]
  BY DEF KillFetch
<1>2. Up /\ UNCHANGED <<trades, orders, pos>> BY DEF KillFetch, At, Up, executor, exchange
<1>3. main'.pc # "exited"
  <2> DEFINE todo == IF ok THEN {t \in Tickers : pos[t] > 0} ELSE {t \in Tickers : OpenCount[t] > 0}
  <2>1. todo \subseteq Tickers OBVIOUS
  <2>2. main' = [main EXCEPT !.pc = "close", !.todo = todo] BY <1>1
  <2> HIDE DEF todo
  <2>3. todo \in SUBSET (Tickers \union (Tickers \X Nat)) /\ "close" \in Pcs BY <2>1 DEF Pcs
  <2> QED BY <1>0, <2>2, <2>3, MainIs
<1>4. used'.boots = used.boots BY <1>0, <1>1, FailIs
<1> QED BY <1>2, <1>3, <1>4, StillRemembers

LEMMA KillCloseRemembers ==
    ASSUME Inv, FirstLife, KillClose PROVE FirstLife' /\ DiskKept'
<1>0. TypeInv /\ main \in Mains BY DEF Inv, TypeInv
<1>1. main.pc \in {"close", "retry"} /\ main.todo \subseteq Tickers BY <1>0 DEF KillClose, TypeInv
<1>2. Up BY <1>1 DEF Up
<1>3. CASE main' = [main EXCEPT !.pc = "poll"] /\ UNCHANGED <<trades, closed, orders, pos, used, tally>>
  <2>1. main'.pc = "poll" BY <1>0, <1>3, MainIs DEF Pcs
  <2> QED BY <1>2, <1>3, <2>1, StillRemembers
<1>4. ASSUME NEW t \in main.todo, CloseTrade(t),
             main' = [main EXCEPT !.todo = @ \ {t}, !.tries[t] = IF At("retry") THEN @ + 1 ELSE @]
      PROVE  FirstLife' /\ DiskKept'
  <2> DEFINE todo == main.todo \ {t}
             n == IF At("retry") THEN main.tries[t] + 1 ELSE main.tries[t]
             tries == [main.tries EXCEPT ![t] = n]
  <2>1. main' = [main EXCEPT !.todo = todo, !.tries = tries] BY <1>4
  <2> HIDE DEF todo, tries
  <2>2. main'.pc = main.pc BY <1>0, <2>1 DEF Mains
  <2>3. Up' BY <1>2, <2>2 DEF Up
  <2>4. t \in Tickers BY <1>1
  <2> QED BY <1>2, <1>4, <2>3, <2>4, CloseTradeRemembers
<1> QED BY <1>3, <1>4 DEF KillClose, Goto, executor, exchange

LEMMA KillPollRemembers ==
    ASSUME Inv, FirstLife, KillPoll \/ KillDeadline PROVE FirstLife' /\ DiskKept'
<1>0. TypeInv /\ main \in Mains BY DEF Inv, TypeInv
<1>1. Up /\ UNCHANGED <<trades, orders, pos>> BY DEF KillPoll, KillDeadline, At, Up, executor, exchange
<1>2. CASE main' = [main EXCEPT !.pc = "final"] /\ UNCHANGED used
  <2>1. main'.pc = "final" BY <1>0, <1>2, MainIs DEF Pcs
  <2> QED BY <1>1, <1>2, <2>1, StillRemembers
<1>3. ASSUME NEW ok \in BOOLEAN, Fail(ok), main.pc = "poll",
             main' = IF ok
                 THEN [main EXCEPT !.pc = "retry", !.polls = @ + 1,
                         !.todo = {t \in Tickers : pos[t] > 0 /\ main.tries[t] < MaxRetries}]
                 ELSE [main EXCEPT !.polls = @ + 1]
      PROVE  FirstLife' /\ DiskKept'
  <2> DEFINE todo == {t \in Tickers : pos[t] > 0 /\ main.tries[t] < MaxRetries}
             n == main.polls + 1
  <2>1. main' = IF ok THEN [main EXCEPT !.pc = "retry", !.polls = n, !.todo = todo]
                ELSE [main EXCEPT !.polls = n]
    BY <1>3
  <2> HIDE DEF todo, n
  <2>2. main'.pc \in {"poll", "retry"}
    <3>1. CASE ok BY <1>0, <2>1, <3>1 DEF Mains
    <3>2. CASE ~ok BY <1>0, <1>3, <2>1, <3>2 DEF Mains
    <3> QED BY <3>1, <3>2
  <2>3. used'.boots = used.boots BY <1>0, <1>3, FailIs
  <2> QED BY <1>1, <2>2, <2>3, StillRemembers
<1>4. CASE KillPoll BY <1>2, <1>3, <1>4 DEF KillPoll, At, Goto
<1>5. CASE KillDeadline BY <1>2, <1>5 DEF KillDeadline, Goto
<1> QED BY <1>4, <1>5

\* A crash leaves no process that remembers, and startup a second life.
LEMMA EndRemembers ==
    ASSUME Inv, BootInv, Crash \/ Boot PROVE FirstLife' /\ DiskKept'
<1>1. CASE Crash
  <2>1. main'.pc = "down" BY <1>1, DownMainIs DEF Crash
  <2> QED BY <2>1 DEF FirstLife, DiskKept, Up
<1>2. CASE Boot
  <2>1. CASE main'.pc \in {"orders", "rebuild"} BY <2>1 DEF FirstLife, DiskKept, Up
  <2>2. CASE used'.boots # 0 BY <2>2 DEF FirstLife, DiskKept
  <2> QED BY <1>2, <2>1, <2>2, BootKeeps
<1> QED BY <1>1, <1>2

LEMMA NextRemembers ==
    ASSUME Inv, BootInv, FirstLife, DiskKept, [Next]_vars PROVE FirstLife' /\ DiskKept'
<1>1. CASE UNCHANGED vars
  <2>1. UNCHANGED <<main, trades, orders, pos, disk, used>> BY <1>1 DEF vars
  <2>2. Up' <=> Up BY <2>1 DEF Up
  <2> QED BY <2>1, <2>2 DEF FirstLife, DiskKept
<1>2. ASSUME NEW t \in Tickers, Submit(t) \/ CloseRequest(t) PROVE FirstLife' /\ DiskKept'
  BY <1>2, SubmitRemembers, CloseRequestRemembers
<1>3. ASSUME NEW o \in orders, UnseenFill(o) \/ EntryFill(o) \/ StopFill(o) \/ TpFill(o)
      PROVE  FirstLife' /\ DiskKept'
  BY <1>3, UnseenFillRemembers, EntryFillRemembers, StopFillRemembers, TpFillRemembers
<1>4. CASE ProcessEvent \/ Trigger \/ RemoveMarker \/ Midnight BY <1>4, OutsideRemembers
<1>5. CASE Drain BY <1>5, DrainRemembers
<1>6. CASE Tick BY <1>6, TickRemembers, TickExecutorRemembers DEF Tick
<1>7. CASE Shutdown
  BY <1>7, KillCancelRemembers, KillFetchRemembers, KillCloseRemembers, KillPollRemembers,
     KillExitRemembers DEF Shutdown
<1>8. CASE Crash \/ Boot BY <1>8, EndRemembers
<1> QED BY <1>1, <1>2, <1>3, <1>4, <1>5, <1>6, <1>7, <1>8 DEF Next

LEMMA InitRemembers == ASSUME Init PROVE FirstLife /\ DiskKept
<1>1. main = IdleMain /\ trades = NoTrades /\ orders = {} /\ pos = [t \in Tickers |-> 0] BY DEF Init
<1>2. DiskKept BY <1>1, DownMainIs DEF DiskKept
<1>3. ASSUME NEW t \in Tickers PROVE Accounted(trades[t], OrdersAt(orders, t), pos[t])
  <2>1. trades[t] = <<>> /\ OrdersAt(orders, t) = {} /\ pos[t] = 0 BY <1>1 DEF NoTrades, OrdersAt
  <2>2. <<>> \in Seq(Trades) /\ DOMAIN <<>> = {} OBVIOUS
  <2>3. Cover(<<>>, {}) \in Nat BY <2>2, CoverNat
  <2>4. Covered(<<>>, {}, 0) BY <2>3 DEF Covered
  <2>5. Accounted(<<>>, {}, 0) BY <2>2, <2>4 DEF Accounted, TpApart, Awaited
  <2> QED BY <2>1, <2>5
<1> QED BY <1>2, <1>3 DEF FirstLife

\* A shutdown by the kill switch, in a process that recovered nothing itself,
\* leaves no position on the exchange that the saved state has no trade for
\* (handle_kill_switch_, AccountStatePersister::save), whichever gateway
\* calls failed before and whichever orders filled unseen.
THEOREM ExitRemembersPositionsAlways == Spec => []ExitRemembersPositions
<1> DEFINE Kept == Inv /\ PnlConserved /\ BootInv /\ FirstLife /\ DiskKept
<1>1. Init => Kept BY InitInv, InitBoot, InitRemembers
<1>2. Kept /\ [Next]_vars => Kept' BY NextKeeps, NextRemembers
<1>3. Kept => ExitRemembersPositions BY DEF DiskKept, ExitRemembersPositions, At
<1> QED BY <1>1, <1>2, <1>3, PTL DEF Spec
==============================================================================

-------------------------- MODULE AutopackPlanProofs --------------------------
(***************************************************************************)
(* Proofs about the plan of autopack (module AutopackPlan): it raises      *)
(* nothing, it brings the packs under the limit, and a repository that     *)
(* grows by commits of one revision has the packs of the distribution.     *)
(***************************************************************************)
EXTENDS AutopackPlan, WellFoundedInduction, FiniteSetTheorems, SequenceTheorems, TLAPS

-----------------------------------------------------------------------------
\* Induction over the natural numbers, as a fact about sets of them.

\* A set with 0 and the successor of every number in it has all numbers.
LEMMA SetInduction ==
  ASSUME NEW S, 0 \in S, \A n \in Nat : n \in S => n + 1 \in S
  PROVE  Nat \subseteq S
<1> DEFINE T == Nat \ S
           R == OpToRel(<, Nat)
<1>1. SUFFICES ASSUME T # {} PROVE FALSE
  OBVIOUS
<1>2. IsWellFoundedOn(R, Nat)
  BY NatLessThanWellFounded
<1> HIDE DEF R
<1>3. PICK x \in T : \A y \in T : ~(<<y, x>> \in R)
  BY <1>1, <1>2, WFMin, Zenon
<1>4. \A y \in Nat : y < x => <<y, x>> \in R
  BY DEF R, OpToRel
<1>5. x \in Nat /\ x # 0 /\ x - 1 \in Nat /\ x - 1 < x /\ (x - 1) + 1 = x
  OBVIOUS
<1> QED
  BY <1>3, <1>4, <1>5

\* A set that has a number whenever it has all smaller ones has all numbers.
LEMMA StrongInduction ==
  ASSUME NEW S, \A n \in Nat : (\A k \in Nat : k < n => k \in S) => n \in S
  PROVE  Nat \subseteq S
<1> DEFINE T == {n \in Nat : \A k \in Nat : k < n => k \in S}
<1>1. 0 \in T
  OBVIOUS
<1>2. \A n \in Nat : n \in T => n + 1 \in T
  OBVIOUS
<1>3. Nat \subseteq T
  <2> HIDE DEF T
  <2> QED BY <1>1, <1>2, SetInduction
<1> QED
  BY <1>3

-----------------------------------------------------------------------------
\* The sum of a sequence.

\* Sum(s) is the last of the sums of the prefixes of s.
LEMMA SumDef ==
  ASSUME NEW s \in Seq(Nat)
  PROVE  Sum(s) = (CHOOSE g : g = [S \in SUBSET (DOMAIN s) |->
                      IF S = {} THEN 0 ELSE g[S \ {Max(S)}] + s[Max(S)]])[DOMAIN s]
  BY DEF Sum, FoldLeft, MapThenFoldSet

LEMMA MaxOfInterval ==
  ASSUME NEW n \in Nat, n # 0, NEW S \in SUBSET (1..n), n \in S
  PROVE  Max(S) = n
<1>1. \A y \in S : n >= y
  OBVIOUS
<1>2. Max(S) \in S /\ \A y \in S : Max(S) >= y
  BY <1>1, Zenon DEF Max
<1>3. Max(S) \in 1..n /\ Max(S) >= n
  BY <1>2, Zenon
<1> QED
  BY <1>3

LEMMA FoldExists ==
  ASSUME NEW s \in Seq(Nat), NEW n \in Nat, n <= Len(s)
  PROVE  \E g \in [SUBSET (1..n) -> Nat] :
           \A S \in SUBSET (1..n) : g[S] = IF S = {} THEN 0 ELSE g[S \ {Max(S)}] + s[Max(S)]
<1> DEFINE Fold(m, g) == \A S \in SUBSET (1..m) :
                           g[S] = IF S = {} THEN 0 ELSE g[S \ {Max(S)}] + s[Max(S)]
           W == {m \in Nat : \E g \in [SUBSET (1..m) -> Nat] : Fold(m, g)}
           T == {m \in Nat : m <= Len(s) => m \in W}
<1>1. 0 \in T
  <2> DEFINE g == [S \in SUBSET (1..0) |-> 0]
  <2>1. g \in [SUBSET (1..0) -> Nat]
    OBVIOUS
  <2>2. \A S \in SUBSET (1..0) : S = {}
    OBVIOUS
  <2>3. Fold(0, g)
    BY <2>2
  <2> QED BY <2>1, <2>3
<1>2. ASSUME NEW m \in Nat, m \in T PROVE m + 1 \in T
  <2>1. SUFFICES ASSUME m + 1 <= Len(s)
                 PROVE  m + 1 \in W
    <3> HIDE DEF W
    <3> QED OBVIOUS
  <2>a. m \in W
    <3> HIDE DEF W
    <3> QED BY <1>2, <2>1
  <2>2. PICK g \in [SUBSET (1..m) -> Nat] : Fold(m, g)
    BY <2>a, Zenon
  <2> DEFINE h == [S \in SUBSET (1..(m + 1)) |->
                     IF m + 1 \in S THEN g[S \ {m + 1}] + s[m + 1] ELSE g[S]]
  <2>3. s[m + 1] \in Nat
    BY <2>1
  <2>4. \A S \in SUBSET (1..(m + 1)) : S \ {m + 1} \in SUBSET (1..m)
    OBVIOUS
  <2>5. \A S \in SUBSET (1..(m + 1)) : m + 1 \notin S => S \in SUBSET (1..m)
    OBVIOUS
  <2>6. h \in [SUBSET (1..(m + 1)) -> Nat]
    BY <2>3, <2>4, <2>5
  <2>7. ASSUME NEW S \in SUBSET (1..(m + 1))
        PROVE  h[S] = IF S = {} THEN 0 ELSE h[S \ {Max(S)}] + s[Max(S)]
    <3>1. CASE m + 1 \in S
      <4>1. Max(S) = m + 1
        BY <3>1, MaxOfInterval
      <4>2. S \ {m + 1} \in SUBSET (1..(m + 1)) /\ m + 1 \notin S \ {m + 1}
        OBVIOUS
      <4>3. h[S \ {m + 1}] = g[S \ {m + 1}]
        BY <4>2
      <4>4. h[S] = g[S \ {m + 1}] + s[m + 1]
        BY <3>1
      <4> QED BY <3>1, <4>1, <4>3, <4>4
    <3>2. CASE m + 1 \notin S
      <4>1. S \in SUBSET (1..m)
        BY <2>5, <3>2
      <4>2. S \ {Max(S)} \in SUBSET (1..(m + 1)) /\ m + 1 \notin S \ {Max(S)}
        BY <3>2
      <4>3. h[S \ {Max(S)}] = g[S \ {Max(S)}]
        BY <4>2
      <4>4. h[S] = g[S]
        BY <3>2
      <4> QED BY <2>2, <4>1, <4>3, <4>4
    <3> QED BY <3>1, <3>2
  <2> HIDE DEF h
  <2>8. Fold(m + 1, h)
    BY <2>7, Zenon
  <2> HIDE DEF Fold
  <2>9. m + 1 \in Nat
    OBVIOUS
  <2> QED BY <2>6, <2>8, <2>9, Zenon
<1>3. Nat \subseteq T
  <2> HIDE DEF T
  <2> QED BY <1>1, <1>2, SetInduction
<1>4. n \in W
  <2> HIDE DEF W
  <2> QED BY <1>3
<1> QED
  BY <1>4, Zenon

\* The sums of the prefixes of a sequence.
PartialSums(s, f) ==
  /\ f \in [0..Len(s) -> Nat]
  /\ f[0] = 0
  /\ \A i \in 1..Len(s) : f[i] = f[i - 1] + s[i]

LEMMA PartialSumsExist ==
  ASSUME NEW s \in Seq(Nat)
  PROVE  \E f : PartialSums(s, f) /\ Sum(s) = f[Len(s)]
<1> DEFINE Fold(g) == g = [S \in SUBSET (DOMAIN s) |->
                             IF S = {} THEN 0 ELSE g[S \ {Max(S)}] + s[Max(S)]]
<1>1. Len(s) \in Nat /\ DOMAIN s = 1..Len(s)
  OBVIOUS
<1>2. PICK h \in [SUBSET (1..Len(s)) -> Nat] :
        \A S \in SUBSET (1..Len(s)) : h[S] = IF S = {} THEN 0 ELSE h[S \ {Max(S)}] + s[Max(S)]
  <2>1. Len(s) <= Len(s)
    BY <1>1
  <2> QED BY <1>1, <2>1, FoldExists, Zenon
<1>3. Fold(h)
  BY <1>1, <1>2
<1>4. PICK g : g = CHOOSE k : Fold(k)
  OBVIOUS
<1>5. Fold(g)
  <2> HIDE DEF Fold
  <2> QED BY <1>3, <1>4, Zenon
<1>6. Sum(s) = g[1..Len(s)]
  BY <1>1, <1>4, SumDef
<1> DEFINE f == [i \in 0..Len(s) |-> g[1..i]]
<1>7. f[0] = 0
  <2>1. 1..0 = {} /\ {} \in SUBSET (DOMAIN s)
    OBVIOUS
  <2> QED BY <1>1, <1>5, <2>1
<1>8. ASSUME NEW i \in 1..Len(s) PROVE f[i] = f[i - 1] + s[i]
  <2>1. 1..i \in SUBSET (DOMAIN s) /\ 1..i # {} /\ i \in Nat /\ i # 0 /\ i \in 1..i
    BY <1>1
  <2>2. Max(1..i) = i
    BY <2>1, MaxOfInterval
  <2>3. (1..i) \ {i} = 1..(i - 1)
    BY <1>1
  <2>4. g[1..i] = g[1..(i - 1)] + s[i]
    BY <1>5, <2>1, <2>2, <2>3
  <2> QED BY <1>1, <2>4
<1>11. Sum(s) = f[Len(s)]
  BY <1>1, <1>6
<1>12. f = [i \in 0..Len(s) |-> f[i]]
  OBVIOUS
<1> HIDE DEF f
<1>9. \A i \in 0..Len(s) : f[i] \in Nat
  <2> DEFINE T == {i \in Nat : i <= Len(s) => f[i] \in Nat}
  <2>1. 0 \in T
    BY <1>7
  <2>2. ASSUME NEW i \in Nat, i \in T PROVE i + 1 \in T
    <3>1. SUFFICES ASSUME i + 1 <= Len(s) PROVE f[i + 1] \in Nat
      OBVIOUS
    <3>2. i + 1 \in 1..Len(s) /\ (i + 1) - 1 = i /\ s[i + 1] \in Nat
      BY <3>1
    <3>3. f[i] \in Nat
      BY <2>2, <3>1
    <3>4. f[i + 1] = f[i] + s[i + 1]
      BY <1>8, <3>2
    <3> QED BY <3>2, <3>3, <3>4
  <2> HIDE DEF T
  <2>3. Nat \subseteq T
    BY <2>1, <2>2, SetInduction
  <2> QED BY <1>1, <2>3 DEF T
<1>10. PartialSums(s, f)
  BY <1>7, <1>8, <1>9, <1>12 DEF PartialSums
<1> QED
  BY <1>10, <1>11

\* Whatever adds up like the prefixes of s ends in its sum.
LEMMA SumIs ==
  ASSUME NEW s \in Seq(Nat), NEW f, PartialSums(s, f)
  PROVE  Sum(s) = f[Len(s)]
<1>1. PICK g : PartialSums(s, g) /\ Sum(s) = g[Len(s)]
  BY PartialSumsExist
<1> DEFINE T == {i \in Nat : i <= Len(s) => f[i] = g[i]}
<1>2. 0 \in T
  BY <1>1 DEF PartialSums
<1>3. ASSUME NEW i \in Nat, i \in T PROVE i + 1 \in T
  <2>1. SUFFICES ASSUME i + 1 <= Len(s) PROVE f[i + 1] = g[i + 1]
    OBVIOUS
  <2>2. i + 1 \in 1..Len(s) /\ (i + 1) - 1 = i
    BY <2>1
  <2>3. f[i] = g[i]
    BY <1>3, <2>1
  <2> QED BY <1>1, <2>2, <2>3 DEF PartialSums
<1>4. Nat \subseteq T
  <2> HIDE DEF T
  <2> QED BY <1>2, <1>3, SetInduction
<1> QED
  BY <1>1, <1>4

LEMMA SumNat ==
  ASSUME NEW s \in Seq(Nat)
  PROVE  Sum(s) \in Nat
  BY PartialSumsExist DEF PartialSums

LEMMA SumEmpty == Sum(<<>>) = 0
<1> DEFINE f == [i \in 0..0 |-> 0]
<1>1. <<>> \in Seq(Nat) /\ Len(<<>>) = 0
  OBVIOUS
<1>2. PartialSums(<<>>, f)
  BY <1>1 DEF PartialSums
<1>3. Sum(<<>>) = f[Len(<<>>)]
  <2> HIDE DEF f
  <2> QED BY <1>1, <1>2, SumIs
<1> QED
  BY <1>1, <1>3

LEMMA SumOne ==
  ASSUME NEW x \in Nat
  PROVE  Sum(<<x>>) = x
<1> DEFINE f == [i \in 0..1 |-> IF i = 0 THEN 0 ELSE x]
<1>1. <<x>> \in Seq(Nat) /\ Len(<<x>>) = 1 /\ <<x>>[1] = x
  OBVIOUS
<1>2. PartialSums(<<x>>, f)
  BY <1>1 DEF PartialSums
<1>3. Sum(<<x>>) = f[Len(<<x>>)]
  <2> HIDE DEF f
  <2> QED BY <1>1, <1>2, SumIs
<1> QED
  BY <1>1, <1>3

LEMMA SumConcat ==
  ASSUME NEW s \in Seq(Nat), NEW t \in Seq(Nat)
  PROVE  Sum(s \o t) = Sum(s) + Sum(t)
<1>1. PICK f : PartialSums(s, f) /\ Sum(s) = f[Len(s)]
  BY PartialSumsExist
<1>2. PICK g : PartialSums(t, g) /\ Sum(t) = g[Len(t)]
  BY PartialSumsExist
<1>3. PICK m \in Nat : m = Len(s)
  OBVIOUS
<1>4. PICK n \in Nat : n = Len(t)
  OBVIOUS
<1>5. /\ s \o t \in Seq(Nat)
      /\ Len(s \o t) = m + n
      /\ \A i \in 1..(m + n) : (s \o t)[i] = IF i <= m THEN s[i] ELSE t[i - m]
  BY <1>3, <1>4, ConcatProperties
<1>6. /\ f \in [0..m -> Nat] /\ f[0] = 0 /\ \A i \in 1..m : f[i] = f[i - 1] + s[i]
      /\ g \in [0..n -> Nat] /\ g[0] = 0 /\ \A i \in 1..n : g[i] = g[i - 1] + t[i]
  BY <1>1, <1>2, <1>3, <1>4 DEF PartialSums
<1>7. \A i \in 1..n : t[i] \in Nat
  BY <1>4
<1> DEFINE h == [i \in 0..(m + n) |-> IF i <= m THEN f[i] ELSE f[m] + g[i - m]]
<1>8. h \in [0..(m + n) -> Nat] /\ h[0] = 0
  <2>1. ASSUME NEW i \in 0..(m + n), ~(i <= m) PROVE f[m] + g[i - m] \in Nat
    <3>1. i - m \in 0..n /\ m \in 0..m
      BY <2>1
    <3> QED BY <1>6, <3>1
  <2>2. \A i \in 0..(m + n) : i <= m => f[i] \in Nat
    BY <1>6
  <2> QED BY <1>6, <2>1, <2>2, SMTT(30)
<1>9. ASSUME NEW i \in 1..(m + n) PROVE h[i] = h[i - 1] + (s \o t)[i]
  <2>1. CASE i <= m
    BY <1>5, <1>6, <2>1, SMTT(30)
  <2>2. CASE i > m
    <3>1. i - m \in 1..n /\ (i - m) - 1 = (i - 1) - m /\ i - 1 \in 0..(m + n)
      BY <2>2
    <3>2. g[i - m] = g[(i - 1) - m] + t[i - m]
      BY <1>6, <3>1
    <3>3. h[i - 1] = f[m] + g[(i - 1) - m]
      <4>1. CASE i - 1 = m
        BY <1>6, <3>1, <4>1
      <4>2. CASE i - 1 > m
        BY <3>1, <4>2
      <4> QED BY <2>2, <4>1, <4>2
    <3>4. h[i] = f[m] + g[i - m]
      BY <2>2
    <3>5. (s \o t)[i] = t[i - m]
      BY <1>5, <2>2
    <3>6. f[m] \in Nat /\ g[(i - 1) - m] \in Nat /\ t[i - m] \in Nat
      BY <1>6, <1>7, <2>2, <3>1
    <3> HIDE DEF h
    <3> QED BY <3>2, <3>3, <3>4, <3>5, <3>6
  <2> HIDE DEF h
  <2>3. i <= m \/ i > m
    OBVIOUS
  <2> QED BY <2>1, <2>2, <2>3
<1>10. h[m + n] = f[m] + g[n]
  <2>1. CASE n = 0
    BY <1>6, <2>1
  <2>2. CASE n # 0
    BY <1>6, <2>2
  <2> QED BY <2>1, <2>2
<1> HIDE DEF h
<1>11. PartialSums(s \o t, h)
  BY <1>5, <1>8, <1>9 DEF PartialSums
<1>12. Sum(s \o t) = h[m + n]
  BY <1>5, <1>11, SumIs
<1> QED
  BY <1>1, <1>2, <1>3, <1>4, <1>10, <1>12

LEMMA HeadThenTail ==
  ASSUME NEW S, NEW s \in Seq(S), s # <<>>
  PROVE  s = <<Head(s)>> \o Tail(s) /\ Head(s) \in S /\ Tail(s) \in Seq(S) /\ Head(s) = s[1]
<1>1. /\ Head(s) \in S /\ Tail(s) \in Seq(S) /\ Len(Tail(s)) = Len(s) - 1
      /\ \A i \in 1..Len(Tail(s)) : Tail(s)[i] = s[i + 1]
      /\ Head(s) = s[1]
  BY HeadTailProperties
<1>2. <<Head(s)>> \in Seq(S) /\ Len(<<Head(s)>>) = 1 /\ <<Head(s)>>[1] = Head(s)
  BY <1>1
<1>3. PICK t : t = <<Head(s)>> \o Tail(s)
  OBVIOUS
<1>4. /\ t \in Seq(S) /\ Len(t) = 1 + Len(Tail(s))
      /\ \A i \in 1..(1 + Len(Tail(s))) : t[i] = IF i <= 1 THEN <<Head(s)>>[i] ELSE Tail(s)[i - 1]
  BY <1>1, <1>2, <1>3, ConcatProperties
<1>5. Len(s) \in Nat /\ Len(t) = Len(s)
  BY <1>1, <1>4
<1>6. \A i \in 1..Len(s) : s[i] = t[i]
  BY <1>1, <1>2, <1>4, <1>5
<1>7. s = t
  BY <1>4, <1>5, <1>6, SeqEqual
<1> QED
  BY <1>1, <1>3, <1>7

LEMMA SumHead ==
  ASSUME NEW s \in Seq(Nat), s # <<>>
  PROVE  Sum(s) = Head(s) + Sum(Tail(s))
<1>1. s = <<Head(s)>> \o Tail(s) /\ Head(s) \in Nat /\ Tail(s) \in Seq(Nat) /\ <<Head(s)>> \in Seq(Nat)
  BY HeadThenTail
<1>2. Sum(<<Head(s)>> \o Tail(s)) = Sum(<<Head(s)>>) + Sum(Tail(s))
  BY <1>1, SumConcat
<1>3. Sum(<<Head(s)>>) = Head(s)
  BY <1>1, SumOne
<1> QED
  BY <1>1, <1>2, <1>3

LEMMA SumAppend ==
  ASSUME NEW s \in Seq(Nat), NEW x \in Nat
  PROVE  Sum(Append(s, x)) = Sum(s) + x
<1>1. Append(s, x) = s \o <<x>> /\ <<x>> \in Seq(Nat)
  BY AppendIsConcat
<1>2. Sum(s \o <<x>>) = Sum(s) + Sum(<<x>>)
  BY <1>1, SumConcat
<1> QED
  BY <1>1, <1>2, SumOne

\* No element exceeds the sum.
LEMMA SumElement ==
  ASSUME NEW s \in Seq(Nat), NEW i \in 1..Len(s)
  PROVE  s[i] <= Sum(s)
<1>1. PICK f : PartialSums(s, f) /\ Sum(s) = f[Len(s)]
  BY PartialSumsExist
<1> DEFINE T == {j \in Nat : i + j <= Len(s) => s[i] <= f[i + j]}
<1>2. 0 \in T
  BY <1>1, SMTT(30) DEF PartialSums
<1>3. ASSUME NEW j \in Nat, j \in T PROVE j + 1 \in T
  <2>1. SUFFICES ASSUME i + (j + 1) <= Len(s) PROVE s[i] <= f[i + (j + 1)]
    OBVIOUS
  <2>2. i + (j + 1) \in 1..Len(s) /\ (i + (j + 1)) - 1 = i + j /\ i + j \in 0..Len(s) /\ i + j <= Len(s)
    BY <2>1
  <2>3. f[i + (j + 1)] = f[i + j] + s[i + (j + 1)] /\ f[i + j] \in Nat
    BY <1>1, <2>2 DEF PartialSums
  <2>4. s[i + (j + 1)] \in Nat /\ s[i] \in Nat
    BY <2>2
  <2>5. s[i] <= f[i + j]
    BY <1>3, <2>2
  <2> QED BY <2>3, <2>4, <2>5
<1>4. Nat \subseteq T
  <2> HIDE DEF T
  <2> QED BY <1>2, <1>3, SetInduction
<1>5. Len(s) - i \in T /\ i + (Len(s) - i) = Len(s)
  <2> HIDE DEF T
  <2> QED BY <1>4
<1> QED
  BY <1>1, <1>5

LEMMA SumZeros ==
  ASSUME NEW s \in Seq(Nat), \A i \in 1..Len(s) : s[i] = 0
  PROVE  Sum(s) = 0
<1> DEFINE f == [i \in 0..Len(s) |-> 0]
<1>1. PartialSums(s, f)
  BY DEF PartialSums
<1>2. f[Len(s)] = 0
  OBVIOUS
<1> HIDE DEF f
<1> QED
  BY <1>1, <1>2, SumIs

-----------------------------------------------------------------------------
\* Functions defined by recursion on the digits of a number.

LEMMA DivTen ==
  ASSUME NEW n \in Nat
  PROVE  /\ n \div 10 \in Nat /\ n % 10 \in 0..9 /\ n = 10 * (n \div 10) + (n % 10)
         /\ n # 0 => n \div 10 < n
  OBVIOUS

LEMMA DivTenUnique ==
  ASSUME NEW n \in Nat, NEW q \in Nat, NEW r \in 0..9, n = 10 * q + r
  PROVE  n \div 10 = q /\ n % 10 = r
  OBVIOUS

\* A function on 0..m that follows the recursion with value v at 0 and step H.
Follows(v, H, m, f) ==
  /\ DOMAIN f = 0..m
  /\ \A n \in 0..m : f[n] = IF n = 0 THEN v ELSE H[<<n, f[n \div 10]>>]

LEMMA FollowsUnique ==
  ASSUME NEW v, NEW H, NEW m \in Nat, NEW f, NEW k \in Nat, NEW g,
         Follows(v, H, m, f), Follows(v, H, k, g)
  PROVE  \A n \in Nat : n <= m /\ n <= k => f[n] = g[n]
<1> DEFINE T == {n \in Nat : n <= m /\ n <= k => f[n] = g[n]}
<1>1. ASSUME NEW n \in Nat, \A j \in Nat : j < n => j \in T PROVE n \in T
  <2>1. SUFFICES ASSUME n <= m, n <= k PROVE f[n] = g[n]
    OBVIOUS
  <2>2. CASE n = 0
    <3>1. 0 \in 0..m /\ 0 \in 0..k
      OBVIOUS
    <3> QED BY <2>2, <3>1 DEF Follows
  <2>3. CASE n # 0
    <3>1. n \div 10 \in T
      <4> HIDE DEF T
      <4> QED BY <1>1, <2>3, DivTen
    <3>2. f[n \div 10] = g[n \div 10]
      BY <2>1, <2>3, <3>1, DivTen
    <3>3. n \in 0..m /\ n \in 0..k
      BY <2>1
    <3> QED BY <2>3, <3>2, <3>3 DEF Follows
  <2> QED BY <2>2, <2>3
<1>2. Nat \subseteq T
  <2> HIDE DEF T
  <2> QED BY <1>1, StrongInduction
<1> QED
  BY <1>2

LEMMA FollowsExists ==
  ASSUME NEW v, NEW H, NEW m \in Nat
  PROVE  \E f : Follows(v, H, m, f)
<1> DEFINE T == {n \in Nat : \E f : Follows(v, H, n, f)}
<1>1. 0 \in T
  <2> DEFINE f == [n \in 0..0 |-> v]
  <2>1. Follows(v, H, 0, f)
    BY DEF Follows
  <2> QED BY <2>1
<1>2. ASSUME NEW n \in Nat, n \in T PROVE n + 1 \in T
  <2>1. PICK f : Follows(v, H, n, f)
    BY <1>2
  <2>2. PICK x : x = H[<<n + 1, f[(n + 1) \div 10]>>]
    OBVIOUS
  <2> DEFINE g == [i \in 0..(n + 1) |-> IF i = n + 1 THEN x ELSE f[i]]
  <2>3. ASSUME NEW i \in 0..(n + 1)
        PROVE  g[i] = IF i = 0 THEN v ELSE H[<<i, g[i \div 10]>>]
    <3>0. i \in Nat /\ i <= n + 1
      OBVIOUS
    <3>1. CASE i = 0
      <4>1. 0 \in 0..n /\ 0 \in 0..(n + 1) /\ 0 # n + 1
        OBVIOUS
      <4>2. f[0] = v
        BY <2>1, <4>1 DEF Follows
      <4> QED BY <3>1, <4>1, <4>2
    <3>2. CASE i # 0
      <4>1. i \div 10 \in 0..(n + 1) /\ i \div 10 # n + 1
        BY <3>0, <3>2, DivTen
      <4>2. g[i \div 10] = f[i \div 10]
        BY <4>1
      <4>3. CASE i = n + 1
        BY <2>2, <3>2, <4>2, <4>3
      <4>4. CASE i # n + 1
        <5>1. i \in 0..n
          BY <3>0, <4>4
        <5>2. f[i] = H[<<i, f[i \div 10]>>]
          BY <2>1, <3>2, <5>1 DEF Follows
        <5>3. g[i] = f[i]
          BY <4>4
        <5> HIDE DEF g
        <5> QED BY <3>2, <4>2, <5>2, <5>3
      <4> QED BY <4>3, <4>4
    <3> QED BY <3>1, <3>2
  <2>4. DOMAIN g = 0..(n + 1)
    OBVIOUS
  <2> HIDE DEF g
  <2>5. Follows(v, H, n + 1, g)
    BY <2>3, <2>4, Zenon DEF Follows
  <2> QED BY <2>5
<1>3. Nat \subseteq T
  <2> HIDE DEF T
  <2> QED BY <1>1, <1>2, SetInduction
<1> QED
  BY <1>3

\* The same for all numbers.
FollowsAlways(v, H, f) ==
  /\ f = [n \in Nat |-> f[n]]
  /\ \A n \in Nat : f[n] = IF n = 0 THEN v ELSE H[<<n, f[n \div 10]>>]

LEMMA DigitRecursion ==
  ASSUME NEW v, NEW H
  PROVE  \E f : FollowsAlways(v, H, f)
<1> DEFINE A(m) == CHOOSE g : Follows(v, H, m, g)
           f == [n \in Nat |-> A(n)[n]]
<1>1. \A m \in Nat : Follows(v, H, m, A(m))
  BY FollowsExists, Zenon
<1>2. \A n \in Nat : f[n] = A(n)[n]
  BY Zenon
<1>3. f = [n \in Nat |-> f[n]]
  OBVIOUS
<1> HIDE DEF A, f
<1>4. ASSUME NEW n \in Nat PROVE f[n] = IF n = 0 THEN v ELSE H[<<n, f[n \div 10]>>]
  <2>1. A(n)[n] = IF n = 0 THEN v ELSE H[<<n, A(n)[n \div 10]>>]
    <3>1. n \in 0..n
      OBVIOUS
    <3> QED BY <1>1, <3>1, Zenon DEF Follows
  <2>2. CASE n = 0
    BY <1>2, <2>1, <2>2
  <2>3. CASE n # 0
    <3>1. n \div 10 \in Nat /\ n \div 10 <= n /\ n \div 10 <= n \div 10
      BY <2>3, DivTen
    <3>2. A(n)[n \div 10] = A(n \div 10)[n \div 10]
      BY <1>1, <3>1, FollowsUnique
    <3> QED BY <1>2, <2>1, <2>3, <3>1, <3>2
  <2> QED BY <2>2, <2>3
<1> QED
  BY <1>3, <1>4, Zenon DEF FollowsAlways

LEMMA DigitSumRecursion ==
  /\ DigitSum \in [Nat -> Nat]
  /\ DigitSum[0] = 0
  /\ \A n \in Nat : DigitSum[n] = DigitSum[n \div 10] + (n % 10)
<1> DEFINE H == [p \in Nat \X Nat |-> p[2] + (p[1] % 10)]
           Rec(g) == g = [n \in Nat |-> IF n = 0 THEN 0 ELSE g[n \div 10] + (n % 10)]
<1>1. \A n \in Nat, x \in Nat : H[<<n, x>>] = x + (n % 10)
  OBVIOUS
<1> HIDE DEF H
<1>b. PICK f : FollowsAlways(0, H, f)
  BY DigitRecursion
<1>2. /\ f = [n \in Nat |-> f[n]]
      /\ \A n \in Nat : f[n] = IF n = 0 THEN 0 ELSE H[<<n, f[n \div 10]>>]
  BY <1>b, Zenon DEF FollowsAlways
<1>3. \A n \in Nat : f[n] \in Nat
  <2> DEFINE T == {n \in Nat : f[n] \in Nat}
  <2>1. ASSUME NEW n \in Nat, \A k \in Nat : k < n => k \in T PROVE n \in T
    <3>1. CASE n = 0
      BY <1>2, <3>1
    <3>2. CASE n # 0
      <4>1. n \div 10 \in T
        <5> HIDE DEF T
        <5> QED BY <2>1, <3>2, DivTen
      <4>2. f[n \div 10] \in Nat
        BY <4>1
      <4>3. f[n] = f[n \div 10] + (n % 10)
        BY <1>1, <1>2, <3>2, <4>2
      <4> QED BY <4>2, <4>3, DivTen
    <3> QED BY <3>1, <3>2
  <2>2. Nat \subseteq T
    <3> HIDE DEF T
    <3> QED BY <2>1, StrongInduction
  <2> QED BY <2>2
<1>4. \A n \in Nat : f[n] = IF n = 0 THEN 0 ELSE f[n \div 10] + (n % 10)
  BY <1>1, <1>2, <1>3, DivTen
<1>6. Rec(f)
  BY <1>2, <1>4
<1>7. DigitSum = CHOOSE g : Rec(g)
  BY DEF DigitSum
<1>8. Rec(DigitSum)
  <2> HIDE DEF Rec
  <2> QED BY <1>6, <1>7, Zenon
<1>9. \A n \in Nat : DigitSum[n] = IF n = 0 THEN 0 ELSE DigitSum[n \div 10] + (n % 10)
  BY <1>8
<1>10. DOMAIN DigitSum = Nat /\ DigitSum = [n \in Nat |-> DigitSum[n]]
  BY <1>8
<1>11. \A n \in Nat : DigitSum[n] \in Nat
  <2> DEFINE T == {n \in Nat : DigitSum[n] \in Nat}
  <2>1. ASSUME NEW n \in Nat, \A k \in Nat : k < n => k \in T PROVE n \in T
    <3>1. CASE n = 0
      BY <1>9, <3>1
    <3>2. CASE n # 0
      <4>1. n \div 10 \in T
        <5> HIDE DEF T
        <5> QED BY <2>1, <3>2, DivTen
      <4> QED BY <1>9, <3>2, <4>1, DivTen
    <3> QED BY <3>1, <3>2
  <2>2. Nat \subseteq T
    <3> HIDE DEF T
    <3> QED BY <2>1, StrongInduction
  <2> QED BY <2>2
<1>12. 0 \div 10 = 0 /\ 0 % 10 = 0
  OBVIOUS
<1>13. DigitSum \in [Nat -> Nat]
  BY <1>10, <1>11
<1>14. DigitSum[0] = 0
  BY <1>9
<1> QED
  BY <1>9, <1>12, <1>13, <1>14

Ones(k) == [i \in 1..k |-> 1]

LEMMA OnesSeq ==
  ASSUME NEW k \in Nat
  PROVE  /\ Ones(k) \in Seq(Nat) /\ Len(Ones(k)) = k
         /\ \A i \in 1..k : Ones(k)[i] = 1
         /\ Sum(Ones(k)) = k
<1>1. Ones(k) \in Seq(Nat) /\ Len(Ones(k)) = k /\ \A i \in 1..k : Ones(k)[i] = 1
  BY DEF Ones
<1> DEFINE f == [i \in 0..k |-> i]
<1>2. PartialSums(Ones(k), f)
  BY <1>1 DEF PartialSums
<1>3. f[k] = k
  OBVIOUS
<1> HIDE DEF f
<1> QED
  BY <1>1, <1>2, <1>3, SumIs

LEMMA TenTimesSeq ==
  ASSUME NEW s \in Seq(Nat)
  PROVE  /\ TenTimes(s) \in Seq(Nat) /\ Len(TenTimes(s)) = Len(s)
         /\ \A i \in 1..Len(s) : TenTimes(s)[i] = 10 * s[i]
         /\ Sum(TenTimes(s)) = 10 * Sum(s)
<1>1. TenTimes(s) \in Seq(Nat) /\ Len(TenTimes(s)) = Len(s) /\ \A i \in 1..Len(s) : TenTimes(s)[i] = 10 * s[i]
  BY DEF TenTimes
<1>2. PICK g : PartialSums(s, g) /\ Sum(s) = g[Len(s)]
  BY PartialSumsExist
<1> DEFINE f == [i \in 0..Len(s) |-> 10 * g[i]]
<1>3. PartialSums(TenTimes(s), f)
  <2>1. f \in [0..Len(s) -> Nat] /\ f[0] = 0
    BY <1>2 DEF PartialSums
  <2>2. ASSUME NEW i \in 1..Len(s) PROVE f[i] = f[i - 1] + TenTimes(s)[i]
    <3>a. i - 1 \in 0..Len(s)
      OBVIOUS
    <3>b. g \in [0..Len(s) -> Nat] /\ g[i] = g[i - 1] + s[i]
      BY <1>2 DEF PartialSums
    <3>c. s[i] \in Nat
      OBVIOUS
    <3>1. g[i] = g[i - 1] + s[i] /\ g[i - 1] \in Nat /\ s[i] \in Nat
      BY <3>a, <3>b, <3>c
    <3>2. f[i] = 10 * g[i] /\ f[i - 1] = 10 * g[i - 1]
      OBVIOUS
    <3> HIDE DEF f
    <3> QED BY <1>1, <3>1, <3>2
  <2> HIDE DEF f
  <2> QED BY <1>1, <2>1, <2>2 DEF PartialSums
<1>4. f[Len(s)] = 10 * g[Len(s)]
  OBVIOUS
<1> HIDE DEF f
<1> QED
  BY <1>1, <1>2, <1>3, <1>4, SumIs

LEMMA BucketsRecursion ==
  /\ \A n \in Nat : Buckets[n] \in Seq(Nat)
  /\ Buckets[0] = <<>>
  /\ \A n \in Nat : n # 0 => Buckets[n] = TenTimes(Buckets[n \div 10]) \o Ones(n % 10)
<1> DEFINE H == [p \in Nat \X Seq(Nat) |-> TenTimes(p[2]) \o Ones(p[1] % 10)]
           Rec(g) == g = [n \in Nat |-> IF n = 0 THEN <<>> ELSE TenTimes(g[n \div 10]) \o Ones(n % 10)]
<1>1. \A n \in Nat, x \in Seq(Nat) : H[<<n, x>>] = TenTimes(x) \o Ones(n % 10)
  OBVIOUS
<1> HIDE DEF H
<1>b. PICK f : FollowsAlways(<<>>, H, f)
  BY DigitRecursion
<1>2. /\ f = [n \in Nat |-> f[n]]
      /\ \A n \in Nat : f[n] = IF n = 0 THEN <<>> ELSE H[<<n, f[n \div 10]>>]
  BY <1>b, Zenon DEF FollowsAlways
<1>a. ASSUME NEW x \in Seq(Nat), NEW n \in Nat PROVE TenTimes(x) \o Ones(n % 10) \in Seq(Nat)
  <2>1. TenTimes(x) \in Seq(Nat)
    BY TenTimesSeq
  <2>2. Ones(n % 10) \in Seq(Nat)
    BY DivTen, OnesSeq
  <2> QED BY <2>1, <2>2, ConcatProperties
<1>3. \A n \in Nat : f[n] \in Seq(Nat)
  <2> DEFINE T == {n \in Nat : f[n] \in Seq(Nat)}
  <2>1. ASSUME NEW n \in Nat, \A k \in Nat : k < n => k \in T PROVE n \in T
    <3>1. CASE n = 0
      BY <1>2, <3>1, EmptySeq
    <3>2. CASE n # 0
      <4>1. n \div 10 \in T
        <5> HIDE DEF T
        <5> QED BY <2>1, <3>2, DivTen
      <4>2. f[n \div 10] \in Seq(Nat)
        BY <4>1
      <4>3. f[n] = TenTimes(f[n \div 10]) \o Ones(n % 10)
        BY <1>1, <1>2, <3>2, <4>2
      <4> QED BY <1>a, <4>2, <4>3
    <3> QED BY <3>1, <3>2
  <2>2. Nat \subseteq T
    <3> HIDE DEF T
    <3> QED BY <2>1, StrongInduction
  <2> QED BY <2>2
<1>4. \A n \in Nat : f[n] = IF n = 0 THEN <<>> ELSE TenTimes(f[n \div 10]) \o Ones(n % 10)
  BY <1>1, <1>2, <1>3, DivTen
<1>6. Rec(f)
  BY <1>2, <1>4
<1>7. Buckets = CHOOSE g : Rec(g)
  BY DEF Buckets, Ones
<1>8. Rec(Buckets)
  <2> HIDE DEF Rec
  <2> QED BY <1>6, <1>7, Zenon
<1>9. \A n \in Nat : Buckets[n] = IF n = 0 THEN <<>> ELSE TenTimes(Buckets[n \div 10]) \o Ones(n % 10)
  BY <1>8
<1>10. \A n \in Nat : Buckets[n] \in Seq(Nat)
  <2> DEFINE T == {n \in Nat : Buckets[n] \in Seq(Nat)}
  <2>1. ASSUME NEW n \in Nat, \A k \in Nat : k < n => k \in T PROVE n \in T
    <3>1. CASE n = 0
      BY <1>9, <3>1, EmptySeq
    <3>2. CASE n # 0
      <4>1. n \div 10 \in T
        <5> HIDE DEF T
        <5> QED BY <2>1, <3>2, DivTen
      <4> QED BY <1>9, <1>a, <3>2, <4>1
    <3> QED BY <3>1, <3>2
  <2>2. Nat \subseteq T
    <3> HIDE DEF T
    <3> QED BY <2>1, StrongInduction
  <2> QED BY <2>2
<1> QED
  BY <1>9, <1>10

-----------------------------------------------------------------------------
\* The buckets of the distribution.

Positive(s) == \A i \in 1..Len(s) : s[i] > 0
Descending(s) == \A i, j \in 1..Len(s) : i <= j => s[i] >= s[j]
AtLeast(s, t) == \A i \in 1..Len(s), j \in 1..Len(t) : s[i] >= t[j]

LEMMA ConcatPositive ==
  ASSUME NEW s \in Seq(Nat), NEW t \in Seq(Nat)
  PROVE  Positive(s \o t) <=> Positive(s) /\ Positive(t)
<1>1. /\ s \o t \in Seq(Nat)
      /\ Len(s \o t) = Len(s) + Len(t)
      /\ \A i \in 1..Len(s) + Len(t) : (s \o t)[i] = IF i <= Len(s) THEN s[i] ELSE t[i - Len(s)]
  BY ConcatProperties
<1>2. ASSUME Positive(s \o t) PROVE Positive(s) /\ Positive(t)
  <2>1. \A i \in 1..Len(s) : i \in 1..Len(s) + Len(t) /\ i <= Len(s)
    OBVIOUS
  <2>2. \A i \in 1..Len(t) : i + Len(s) \in 1..Len(s) + Len(t) /\ ~(i + Len(s) <= Len(s)) /\ (i + Len(s)) - Len(s) = i
    OBVIOUS
  <2>3. \A i \in 1..Len(s) : (s \o t)[i] = s[i] /\ (s \o t)[i] > 0
    BY <1>1, <1>2, <2>1 DEF Positive
  <2>4. \A i \in 1..Len(t) : (s \o t)[i + Len(s)] = t[i] /\ (s \o t)[i + Len(s)] > 0
    BY <1>1, <1>2, <2>2 DEF Positive
  <2> QED BY <2>3, <2>4 DEF Positive
<1>3. ASSUME Positive(s), Positive(t) PROVE Positive(s \o t)
  <2>1. ASSUME NEW i \in 1..Len(s) + Len(t) PROVE (s \o t)[i] > 0
    <3>1. CASE i <= Len(s)
      BY <1>1, <1>3, <3>1 DEF Positive
    <3>2. CASE ~(i <= Len(s))
      <4>1. i - Len(s) \in 1..Len(t)
        BY <3>2
      <4> QED BY <1>1, <1>3, <3>2, <4>1 DEF Positive
    <3> QED BY <3>1, <3>2
  <2> QED BY <1>1, <2>1 DEF Positive
<1> QED
  BY <1>2, <1>3

LEMMA ConcatDescending ==
  ASSUME NEW s \in Seq(Nat), NEW t \in Seq(Nat)
  PROVE  Descending(s \o t) <=> Descending(s) /\ Descending(t) /\ AtLeast(s, t)
<1>1. PICK m \in Nat : m = Len(s)
  OBVIOUS
<1>2. PICK n \in Nat : n = Len(t)
  OBVIOUS
<1>3. PICK u \in Seq(Nat) :
      /\ u = s \o t
      /\ Len(u) = m + n
      /\ \A i \in 1..(m + n) : u[i] = IF i <= m THEN s[i] ELSE t[i - m]
  <2>1. /\ s \o t \in Seq(Nat)
        /\ Len(s \o t) = m + n
        /\ \A i \in 1..(m + n) : (s \o t)[i] = IF i <= m THEN s[i] ELSE t[i - m]
    BY <1>1, <1>2, ConcatProperties
  <2> QED BY <2>1, Zenon
<1>4. \A i \in 1..m : i \in 1..(m + n) /\ u[i] = s[i]
  BY <1>3, SMTT(30)
<1>5. \A i \in 1..n : i + m \in 1..(m + n) /\ u[i + m] = t[i]
  <2>1. \A i \in 1..n : i + m \in 1..(m + n) /\ ~(i + m <= m) /\ (i + m) - m = i
    OBVIOUS
  <2> QED BY <1>3, <2>1
<1>6. ASSUME Descending(u) PROVE Descending(s) /\ Descending(t) /\ AtLeast(s, t)
  <2>1. \A i, j \in 1..(m + n) : i <= j => u[i] >= u[j]
    BY <1>3, <1>6 DEF Descending
  <2>2. Descending(s)
    BY <1>1, <1>4, <2>1 DEF Descending
  <2>3. Descending(t)
    <3>1. \A i, j \in 1..n : i <= j => i + m <= j + m
      OBVIOUS
    <3> QED BY <1>2, <1>5, <2>1, <3>1 DEF Descending
  <2>4. AtLeast(s, t)
    <3>1. \A i \in 1..m, j \in 1..n : i <= j + m
      OBVIOUS
    <3> QED BY <1>1, <1>2, <1>4, <1>5, <2>1, <3>1 DEF AtLeast
  <2> QED BY <2>2, <2>3, <2>4
<1>7. ASSUME Descending(s), Descending(t), AtLeast(s, t) PROVE Descending(u)
  <2>1. SUFFICES ASSUME NEW i \in 1..(m + n), NEW j \in 1..(m + n), i <= j PROVE u[i] >= u[j]
    BY <1>3 DEF Descending
  <2>2. CASE j <= m
    <3>1. i \in 1..m /\ j \in 1..m
      BY <2>1, <2>2
    <3> QED BY <1>1, <1>4, <1>7, <2>1, <3>1 DEF Descending
  <2>3. CASE ~(j <= m) /\ i <= m
    <3>1. i \in 1..m /\ j - m \in 1..n
      BY <2>1, <2>3
    <3>2. u[j] = t[j - m] /\ u[i] = s[i]
      BY <1>3, <2>3
    <3> QED BY <1>1, <1>2, <1>7, <3>1, <3>2 DEF AtLeast
  <2>4. CASE ~(i <= m)
    <3>1. i - m \in 1..n /\ j - m \in 1..n /\ i - m <= j - m /\ ~(j <= m)
      BY <2>1, <2>4
    <3>2. u[j] = t[j - m] /\ u[i] = t[i - m]
      BY <1>3, <2>4, <3>1
    <3> QED BY <1>2, <1>7, <3>1, <3>2 DEF Descending
  <2> QED BY <2>2, <2>3, <2>4
<1> QED
  BY <1>3, <1>6, <1>7

\* The buckets for n are positive, largest first; they are as many as the digits
\* of n add up to and hold n revisions.
LEMMA BucketsFacts ==
  ASSUME NEW n \in Nat
  PROVE  /\ Buckets[n] \in Seq(Nat) /\ Positive(Buckets[n]) /\ Descending(Buckets[n])
         /\ Sum(Buckets[n]) = n /\ Len(Buckets[n]) = DigitSum[n]
<1> DEFINE P(k) == /\ Positive(Buckets[k]) /\ Descending(Buckets[k])
                   /\ Sum(Buckets[k]) = k /\ Len(Buckets[k]) = DigitSum[k]
           T == {k \in Nat : P(k)}
<1>1. ASSUME NEW k \in Nat, \A j \in Nat : j < k => j \in T PROVE k \in T
  <2>1. CASE k = 0
    <3>1. Buckets[0] = <<>> /\ Len(<<>>) = 0
      BY BucketsRecursion
    <3>2. Positive(<<>>) /\ Descending(<<>>)
      BY DEF Positive, Descending
    <3>3. DigitSum[0] = 0
      BY DigitSumRecursion
    <3> QED BY <2>1, <3>1, <3>2, <3>3, SumEmpty
  <2>2. CASE k # 0
    <3>1. PICK q \in Nat : q = k \div 10
      BY DivTen
    <3>2. PICK r \in Nat : r = k % 10 /\ r \in 0..9
      BY DivTen
    <3>3. q < k /\ k = 10 * q + r
      BY <2>2, <3>1, <3>2, DivTen
    <3>4. q \in T
      <4> HIDE DEF T
      <4> QED BY <1>1, <3>3
    <3>5. PICK b \in Seq(Nat) : b = Buckets[q]
      BY BucketsRecursion
    <3>6. Positive(b) /\ Descending(b) /\ Sum(b) = q /\ Len(b) = DigitSum[q]
      BY <3>4, <3>5
    <3>7. PICK t \in Seq(Nat) : /\ t = TenTimes(b) /\ Len(t) = Len(b)
                                /\ \A i \in 1..Len(b) : t[i] = 10 * b[i]
                                /\ Sum(t) = 10 * q
      BY <3>6, TenTimesSeq
    <3>8. PICK o \in Seq(Nat) : /\ o = Ones(r) /\ Len(o) = r
                                /\ \A i \in 1..r : o[i] = 1
                                /\ Sum(o) = r
      BY OnesSeq
    <3>9. Buckets[k] = t \o o
      BY <2>2, <3>1, <3>2, <3>5, <3>7, <3>8, BucketsRecursion
    <3>10. Sum(t \o o) = k
      BY <3>3, <3>7, <3>8, SumConcat
    <3>11. Len(t \o o) = DigitSum[k]
      <4>1. Len(t \o o) = Len(t) + Len(o)
        BY ConcatProperties
      <4>2. DigitSum[k] = DigitSum[q] + r
        BY <3>1, <3>2, DigitSumRecursion
      <4> QED BY <3>6, <3>7, <3>8, <4>1, <4>2
    <3>12. \A i \in 1..Len(b) : b[i] \in Nat /\ b[i] > 0 /\ t[i] = 10 * b[i] /\ t[i] > 0 /\ t[i] >= 1
      <4>1. \A i \in 1..Len(b) : b[i] \in Nat
        OBVIOUS
      <4>2. \A i \in 1..Len(b) : b[i] > 0
        BY <3>6 DEF Positive
      <4> QED BY <3>7, <4>1, <4>2
    <3>13. Positive(t \o o)
      BY <3>7, <3>8, <3>12, ConcatPositive DEF Positive
    <3>14. Descending(t)
      <4>1. \A i, j \in 1..Len(b) : i <= j => b[i] >= b[j]
        BY <3>6 DEF Descending
      <4>2. ASSUME NEW i \in 1..Len(b), NEW j \in 1..Len(b), i <= j PROVE t[i] >= t[j]
        <5>1. b[i] \in Nat /\ b[j] \in Nat /\ t[i] = 10 * b[i] /\ t[j] = 10 * b[j]
          BY <3>12
        <5>2. b[i] >= b[j]
          BY <4>1, <4>2
        <5> QED BY <5>1, <5>2
      <4> QED BY <3>7, <4>2 DEF Descending
    <3>15. Descending(o) /\ AtLeast(t, o)
      BY <3>7, <3>8, <3>12, SMTT(30) DEF Descending, AtLeast
    <3>16. Descending(t \o o)
      BY <3>14, <3>15, ConcatDescending
    <3> QED BY <3>9, <3>10, <3>11, <3>13, <3>16
  <2> QED BY <2>1, <2>2
<1>2. Nat \subseteq T
  <2> HIDE DEF T
  <2> QED BY <1>1, StrongInduction
<1> QED
  BY <1>2, BucketsRecursion

-----------------------------------------------------------------------------
\* Packs in order of size.

LEMMA TailFacts ==
  ASSUME NEW s \in Seq(Nat), s # <<>>
  PROVE  /\ Head(s) \in Nat /\ Tail(s) \in Seq(Nat) /\ Sum(Tail(s)) \in Nat
         /\ Len(s) \in Nat /\ Len(s) > 0 /\ Len(Tail(s)) = Len(s) - 1
         /\ Sum(s) = Head(s) + Sum(Tail(s))
         /\ Positive(s) => Head(s) > 0 /\ Positive(Tail(s))
         /\ Descending(s) => /\ Descending(Tail(s))
                             /\ \A i \in 1..Len(s) : s[i] <= Head(s)
                             /\ \A i \in 1..Len(Tail(s)) : Tail(s)[i] <= Head(s)
<1>1. s = <<Head(s)>> \o Tail(s) /\ Head(s) \in Nat /\ Tail(s) \in Seq(Nat) /\ Head(s) = s[1]
  BY HeadThenTail
<1>2. <<Head(s)>> \in Seq(Nat) /\ Len(<<Head(s)>>) = 1 /\ <<Head(s)>>[1] = Head(s)
  BY <1>1
<1>3. Len(s) \in Nat /\ Len(s) > 0 /\ Len(Tail(s)) = Len(s) - 1
  BY EmptySeq, HeadTailProperties
<1>4. Positive(s) => Head(s) > 0 /\ Positive(Tail(s))
  <2>1. Positive(s) => Positive(<<Head(s)>>) /\ Positive(Tail(s))
    BY <1>1, <1>2, ConcatPositive
  <2> QED BY <1>2, <2>1 DEF Positive
<1>5. Descending(s) => Descending(Tail(s)) /\ AtLeast(<<Head(s)>>, Tail(s))
  BY <1>1, <1>2, ConcatDescending
<1>6. ASSUME Descending(s) PROVE \A i \in 1..Len(s) : s[i] <= Head(s)
  <2>1. \A i \in 1..Len(s) : 1 \in 1..Len(s) /\ 1 <= i /\ s[i] \in Nat
    BY <1>3
  <2>2. \A i \in 1..Len(s) : s[1] >= s[i]
    BY <1>6, <2>1 DEF Descending
  <2> QED BY <1>1, <2>1, <2>2
<1>7. ASSUME AtLeast(<<Head(s)>>, Tail(s)) PROVE \A i \in 1..Len(Tail(s)) : Tail(s)[i] <= Head(s)
  <2>1. \A i \in 1..Len(Tail(s)) : Tail(s)[i] \in Nat
    BY <1>1
  <2>2. \A i \in 1..Len(Tail(s)) : Head(s) >= Tail(s)[i]
    BY <1>2, <1>7 DEF AtLeast
  <2> QED BY <1>1, <2>1, <2>2
<1> QED
  BY <1>1, <1>3, <1>4, <1>5, <1>6, <1>7, SumHead, SumNat

LEMMA SumPositive ==
  ASSUME NEW s \in Seq(Nat), s # <<>>, Positive(s)
  PROVE  Sum(s) > 0
  BY TailFacts

\* a is the first k elements of s and b the others.
Split(s, k, a, b) ==
  /\ a \in Seq(Nat) /\ a = SubSeq(s, 1, k) /\ Len(a) = k /\ \A i \in 1..k : a[i] = s[i]
  /\ b \in Seq(Nat) /\ b = SubSeq(s, k + 1, Len(s)) /\ Len(b) = Len(s) - k
  /\ \A i \in 1..(Len(s) - k) : b[i] = s[k + i]
  /\ s = a \o b

LEMMA SplitAt ==
  ASSUME NEW s \in Seq(Nat), NEW k \in 0..Len(s)
  PROVE  \E a, b : Split(s, k, a, b)
<1>1. Len(s) \in Nat /\ k \in Nat /\ k <= Len(s) /\ \A i \in 1..Len(s) : s[i] \in Nat
  OBVIOUS
<1>2. \A i \in 1..k : s[i] \in Nat
  BY <1>1
<1>3. \A i \in (k + 1)..Len(s) : s[i] \in Nat
  BY <1>1
<1>4. /\ SubSeq(s, 1, k) \in Seq(Nat)
      /\ Len(SubSeq(s, 1, k)) = IF 1 <= k THEN k - 1 + 1 ELSE 0
      /\ \A i \in 1..(k - 1 + 1) : SubSeq(s, 1, k)[i] = s[1 + i - 1]
  BY <1>1, <1>2, SubSeqProperties
<1>5. /\ SubSeq(s, k + 1, Len(s)) \in Seq(Nat)
      /\ Len(SubSeq(s, k + 1, Len(s))) = IF k + 1 <= Len(s) THEN Len(s) - (k + 1) + 1 ELSE 0
      /\ \A i \in 1..(Len(s) - (k + 1) + 1) : SubSeq(s, k + 1, Len(s))[i] = s[(k + 1) + i - 1]
  BY <1>1, <1>3, SubSeqProperties
<1>6. PICK a \in Seq(Nat) : a = SubSeq(s, 1, k) /\ Len(a) = k /\ \A i \in 1..k : a[i] = s[i]
  <2>1. k - 1 + 1 = k /\ (IF 1 <= k THEN k - 1 + 1 ELSE 0) = k /\ \A i \in 1..k : 1 + i - 1 = i
    BY <1>1
  <2>2. Len(SubSeq(s, 1, k)) = k /\ \A i \in 1..k : SubSeq(s, 1, k)[i] = s[i]
    BY <1>4, <2>1
  <2> QED BY <1>4, <2>2
<1>7. PICK b \in Seq(Nat) : b = SubSeq(s, k + 1, Len(s)) /\ Len(b) = Len(s) - k /\ \A i \in 1..(Len(s) - k) : b[i] = s[k + i]
  <2>1. /\ Len(s) - (k + 1) + 1 = Len(s) - k /\ (IF k + 1 <= Len(s) THEN Len(s) - (k + 1) + 1 ELSE 0) = Len(s) - k
        /\ \A i \in 1..(Len(s) - k) : (k + 1) + i - 1 = k + i
    BY <1>1
  <2>2. Len(SubSeq(s, k + 1, Len(s))) = Len(s) - k /\ \A i \in 1..(Len(s) - k) : SubSeq(s, k + 1, Len(s))[i] = s[k + i]
    BY <1>5, <2>1
  <2> QED BY <1>5, <2>2
<1>8. s = a \o b
  <2>1. /\ a \o b \in Seq(Nat) /\ Len(a \o b) = Len(a) + Len(b)
        /\ \A i \in 1..Len(a) + Len(b) : (a \o b)[i] = IF i <= Len(a) THEN a[i] ELSE b[i - Len(a)]
    BY ConcatProperties
  <2>2. Len(a) + Len(b) = Len(s)
    <3>1. Len(a) = k /\ Len(b) = Len(s) - k
      BY <1>6, <1>7, Zenon
    <3> QED BY <1>1, <3>1
  <2>3. ASSUME NEW i \in 1..Len(s) PROVE s[i] = (a \o b)[i]
    <3>1. CASE i <= k
      BY <1>6, <2>1, <2>2, <3>1
    <3>2. CASE ~(i <= k)
      <4>1. i - k \in 1..(Len(s) - k) /\ k + (i - k) = i
        BY <1>1, <3>2
      <4>2. (a \o b)[i] = b[i - k]
        BY <1>6, <2>1, <2>2, <3>2
      <4> QED BY <1>7, <4>1, <4>2
    <3> QED BY <3>1, <3>2
  <2> QED BY <2>1, <2>2, <2>3, SeqEqual
<1> QED
  BY <1>6, <1>7, <1>8, Zenon DEF Split

\* A set of positions that has every position before one it has.
LEMMA DownSet ==
  ASSUME NEW n \in Nat, NEW S \in SUBSET (1..n), \A i \in S, j \in 1..n : j <= i => j \in S
  PROVE  Cardinality(S) \in 0..n /\ S = 1..Cardinality(S)
<1> DEFINE W == {m \in Nat : \A X \in SUBSET (1..m) : (\A i \in X, j \in 1..m : j <= i => j \in X)
                                 => \E k \in 0..m : X = 1..k}
<1>1. 0 \in W
  <2>1. \A X \in SUBSET (1..0) : X = 1..0
    OBVIOUS
  <2>2. 0 \in 0..0 /\ 0 \in Nat
    OBVIOUS
  <2> QED BY <2>1, <2>2, Zenon
<1>2. ASSUME NEW m \in Nat, m \in W PROVE m + 1 \in W
  <2>1. SUFFICES ASSUME NEW X \in SUBSET (1..(m + 1)), \A i \in X, j \in 1..(m + 1) : j <= i => j \in X
                 PROVE  \E k \in 0..(m + 1) : X = 1..k
    <3>1. m + 1 \in Nat
      OBVIOUS
    <3> QED BY <3>1, Zenon
  <2>2. CASE m + 1 \in X
    <3>1. \A j \in 1..(m + 1) : j <= m + 1 /\ j \in X
      BY <2>1, <2>2
    <3>2. X = 1..(m + 1)
      BY <3>1, Zenon
    <3>3. m + 1 \in 0..(m + 1)
      OBVIOUS
    <3> QED BY <3>2, <3>3, Zenon
  <2>3. CASE m + 1 \notin X
    <3>1. X \in SUBSET (1..m) /\ \A i \in X, j \in 1..m : j <= i => j \in X
      BY <2>1, <2>3
    <3>2. PICK k \in 0..m : X = 1..k
      BY <1>2, <3>1
    <3> QED BY <3>2
  <2> QED BY <2>2, <2>3
<1>3. Nat \subseteq W
  <2> HIDE DEF W
  <2> QED BY <1>1, <1>2, SetInduction
<1>4. n \in W
  BY <1>3
<1>5. PICK k \in 0..n : S = 1..k
  BY <1>4
<1>6. Cardinality(1..k) = k
  BY FS_Interval
<1> QED
  BY <1>5, <1>6

\* The packs of s are those with revisions and then those without.
LEMMA FilledFacts ==
  ASSUME NEW s \in Seq(Nat), Descending(s)
  PROVE  /\ NonEmpty(s) \in Seq(Nat) /\ WithoutRevisions(s) \in Seq(Nat)
         /\ s = NonEmpty(s) \o WithoutRevisions(s)
         /\ Positive(NonEmpty(s)) /\ Descending(NonEmpty(s))
         /\ \A i \in 1..Len(WithoutRevisions(s)) : WithoutRevisions(s)[i] = 0
         /\ Len(NonEmpty(s)) <= Len(s)
         /\ Sum(NonEmpty(s)) = Sum(s)
<1> DEFINE F == {i \in DOMAIN s : s[i] > 0}
<1>0. Len(s) \in Nat /\ DOMAIN s = 1..Len(s) /\ \A i \in 1..Len(s) : s[i] \in Nat
  OBVIOUS
<1>1. F \in SUBSET (1..Len(s)) /\ \A i \in F, j \in 1..Len(s) : j <= i => j \in F
  <2>1. ASSUME NEW i \in F, NEW j \in 1..Len(s), j <= i PROVE j \in F
    <3>1. i \in 1..Len(s) /\ s[i] > 0 /\ s[i] \in Nat /\ s[j] \in Nat
      BY <1>0
    <3>2. s[j] >= s[i]
      BY <2>1, <3>1 DEF Descending
    <3> QED BY <1>0, <3>1, <3>2
  <2> QED BY <1>0, <2>1
<1>2. PICK k \in 0..Len(s) : k = Filled(s) /\ F = 1..k
  BY <1>0, <1>1, DownSet DEF Filled
<1>3. \A i \in 1..Len(s) : i <= k <=> s[i] > 0
  BY <1>0, <1>2
<1> HIDE DEF F
<1>c. PICK a, b : Split(s, k, a, b)
  BY SplitAt
<1>d. a = SubSeq(s, 1, k) /\ b = SubSeq(s, k + 1, Len(s))
  BY <1>c, Zenon DEF Split
<1>4. /\ a \in Seq(Nat) /\ Len(a) = k /\ \A i \in 1..k : a[i] = s[i]
      /\ b \in Seq(Nat) /\ Len(b) = Len(s) - k /\ \A i \in 1..(Len(s) - k) : b[i] = s[k + i]
  BY <1>c, Zenon DEF Split
<1>5. k \in Nat /\ k <= Len(s)
  BY <1>0
<1>6. s = a \o b
  BY <1>c, Zenon DEF Split
<1>7. Positive(a)
  BY <1>0, <1>3, <1>4 DEF Positive
<1>8. Descending(a)
  BY <1>4, <1>6, ConcatDescending
<1>9. ASSUME NEW i \in 1..Len(b) PROVE b[i] = 0
  <2>1. k + i \in 1..Len(s) /\ ~(k + i <= k) /\ i \in 1..(Len(s) - k)
    BY <1>0, <1>4, <1>5
  <2>2. s[k + i] \in Nat /\ ~(s[k + i] > 0)
    BY <1>0, <1>3, <2>1
  <2> QED BY <1>4, <2>1, <2>2, SMTT(30)
<1>10. Sum(a) = Sum(s)
  <2>1. Sum(s) = Sum(a) + Sum(b)
    BY <1>4, <1>6, SumConcat
  <2>2. Sum(b) = 0
    BY <1>4, <1>9, SumZeros
  <2>3. Sum(a) \in Nat
    BY <1>4, SumNat
  <2> QED BY <2>1, <2>2, <2>3
<1>11. Len(a) <= Len(s)
  BY <1>0, <1>4
<1>12. a = NonEmpty(s) /\ b = WithoutRevisions(s)
  BY <1>2, <1>d DEF NonEmpty, WithoutRevisions
<1> QED
  BY <1>4, <1>12, <1>6, <1>7, <1>8, <1>9, <1>10, <1>11

\* Conversely.
LEMMA FilledIs ==
  ASSUME NEW a \in Seq(Nat), NEW b \in Seq(Nat), Positive(a), \A i \in 1..Len(b) : b[i] = 0
  PROVE  NonEmpty(a \o b) = a /\ WithoutRevisions(a \o b) = b
<1>1. PICK s \in Seq(Nat) : /\ s = a \o b /\ Len(s) = Len(a) + Len(b)
                            /\ \A i \in 1..Len(a) + Len(b) : s[i] = IF i <= Len(a) THEN a[i] ELSE b[i - Len(a)]
  <2>1. /\ a \o b \in Seq(Nat) /\ Len(a \o b) = Len(a) + Len(b)
        /\ \A i \in 1..Len(a) + Len(b) : (a \o b)[i] = IF i <= Len(a) THEN a[i] ELSE b[i - Len(a)]
    BY ConcatProperties
  <2> QED BY <2>1, Zenon
<1>2. Len(a) \in Nat /\ Len(b) \in Nat /\ DOMAIN s = 1..Len(a) + Len(b)
  BY <1>1
<1>3. ASSUME NEW i \in 1..Len(a) + Len(b) PROVE s[i] > 0 <=> i <= Len(a)
  <2>1. CASE i <= Len(a)
    <3>1. i \in 1..Len(a)
      BY <1>2, <2>1
    <3> QED BY <1>1, <2>1, <3>1 DEF Positive
  <2>2. CASE ~(i <= Len(a))
    <3>1. i - Len(a) \in 1..Len(b)
      BY <1>2, <2>2
    <3>2. s[i] = 0
      BY <1>1, <2>2, <3>1
    <3> QED BY <2>2, <3>2
  <2> QED BY <2>1, <2>2
<1>4. {i \in DOMAIN s : s[i] > 0} = 1..Len(a)
  <2>1. \A i \in 1..Len(a) : i \in 1..Len(a) + Len(b) /\ i <= Len(a)
    BY <1>2
  <2>2. \A i \in 1..Len(a) + Len(b) : i <= Len(a) => i \in 1..Len(a)
    BY <1>2
  <2> QED BY <1>2, <1>3, <2>1, <2>2, Zenon
<1>5. PICK m \in Nat : m = Len(a) /\ Cardinality(1..m) = m
  <2>1. \A m \in Nat : Cardinality(1..m) = m
    BY FS_Interval
  <2> QED BY <1>2, <2>1
<1>6. Filled(s) = m
  BY <1>4, <1>5 DEF Filled
<1>7. m \in 0..Len(s)
  BY <1>1, <1>2, <1>5
<1>a. PICK c, d : Split(s, m, c, d)
  BY <1>7, SplitAt
<1>8. c \in Seq(Nat) /\ Len(c) = m /\ (\A i \in 1..m : c[i] = s[i]) /\ d \in Seq(Nat)
  BY <1>a, Zenon DEF Split
<1>b. c = SubSeq(s, 1, m) /\ d = SubSeq(s, m + 1, Len(s))
  BY <1>a, Zenon DEF Split
<1>c. s = c \o d
  BY <1>a, Zenon DEF Split
<1>9. c = a
  <2>1. \A i \in 1..m : s[i] = a[i]
    BY <1>1, <1>2, <1>5
  <2>2. \A i \in 1..m : c[i] = a[i]
    BY <1>8, <2>1
  <2> QED BY <1>5, <1>8, <2>2, SeqEqual
<1>10. d = b
  <2>1. a \o d = a \o b
    BY <1>1, <1>9, <1>c
  <2> QED BY <1>8, <2>1, ConcatSimplifications, Zenon
<1> QED
  BY <1>1, <1>6, <1>b, <1>9, <1>10 DEF NonEmpty, WithoutRevisions

\* A pack goes behind the ones at least as large and before the smaller ones.
LEMMA WithPackFacts ==
  ASSUME NEW s \in Seq(Nat), Descending(s), NEW n \in Nat
  PROVE  \E a, b \in Seq(Nat) :
           /\ s = a \o b
           /\ WithPack(s, n) = (a \o <<n>>) \o b
           /\ \A i \in 1..Len(a) : a[i] >= n
           /\ \A i \in 1..Len(b) : b[i] < n
<1> DEFINE F == {i \in DOMAIN s : s[i] >= n}
<1>0. Len(s) \in Nat /\ DOMAIN s = 1..Len(s) /\ \A i \in 1..Len(s) : s[i] \in Nat
  OBVIOUS
<1>1. F \in SUBSET (1..Len(s)) /\ \A i \in F, j \in 1..Len(s) : j <= i => j \in F
  <2>1. ASSUME NEW i \in F, NEW j \in 1..Len(s), j <= i PROVE j \in F
    <3>1. i \in 1..Len(s) /\ s[i] >= n /\ s[i] \in Nat /\ s[j] \in Nat
      BY <1>0
    <3>2. s[j] >= s[i]
      BY <2>1, <3>1 DEF Descending
    <3> QED BY <1>0, <3>1, <3>2
  <2> QED BY <1>0, <2>1
<1>2. PICK k \in 0..Len(s) : k = Cardinality(F) /\ F = 1..k
  BY <1>0, <1>1, DownSet
<1>3. \A i \in 1..Len(s) : i <= k <=> s[i] >= n
  BY <1>0, <1>2
<1>a. k \in Nat /\ (k + 1) - 1 = k
  BY <1>0
<1>b. WithPack(s, n) = SubSeq(s, 1, k) \o <<n>> \o SubSeq(s, k + 1, Len(s))
  BY <1>2, <1>a DEF WithPack, InsertAt
<1> HIDE DEF F
<1>c. PICK a, b : Split(s, k, a, b)
  BY SplitAt
<1>d. a = SubSeq(s, 1, k) /\ b = SubSeq(s, k + 1, Len(s))
  BY <1>c, Zenon DEF Split
<1>4. /\ a \in Seq(Nat) /\ Len(a) = k /\ \A i \in 1..k : a[i] = s[i]
      /\ b \in Seq(Nat) /\ Len(b) = Len(s) - k /\ \A i \in 1..(Len(s) - k) : b[i] = s[k + i]
  BY <1>c, Zenon DEF Split
<1>5. k \in Nat /\ k <= Len(s)
  BY <1>0
<1>6. s = a \o b
  BY <1>c, Zenon DEF Split
<1>7. \A i \in 1..Len(a) : a[i] >= n
  BY <1>0, <1>3, <1>4
<1>8. ASSUME NEW i \in 1..Len(b) PROVE b[i] < n
  <2>1. k + i \in 1..Len(s) /\ ~(k + i <= k) /\ i \in 1..(Len(s) - k)
    BY <1>0, <1>4, <1>5
  <2>2. s[k + i] \in Nat /\ ~(s[k + i] >= n)
    BY <1>0, <1>3, <2>1
  <2> QED BY <1>4, <2>1, <2>2, SMTT(30)
<1> QED
  BY <1>b, <1>d, <1>4, <1>6, <1>7, <1>8

LEMMA WithPackProperties ==
  ASSUME NEW s \in Seq(Nat), Descending(s), NEW n \in Nat
  PROVE  /\ WithPack(s, n) \in Seq(Nat) /\ Descending(WithPack(s, n))
         /\ Len(WithPack(s, n)) = Len(s) + 1
         /\ Sum(WithPack(s, n)) = Sum(s) + n
         /\ Positive(s) /\ n > 0 => Positive(WithPack(s, n))
<1>1. PICK a \in Seq(Nat), b \in Seq(Nat) :
           /\ s = a \o b
           /\ WithPack(s, n) = (a \o <<n>>) \o b
           /\ \A i \in 1..Len(a) : a[i] >= n
           /\ \A i \in 1..Len(b) : b[i] < n
  BY WithPackFacts, Zenon
<1>2. <<n>> \in Seq(Nat) /\ Len(<<n>>) = 1 /\ <<n>>[1] = n
  OBVIOUS
<1>3. PICK c \in Seq(Nat) : c = a \o <<n>> /\ Len(c) = Len(a) + 1
  <2>1. a \o <<n>> \in Seq(Nat) /\ Len(a \o <<n>>) = Len(a) + Len(<<n>>)
    BY <1>2, ConcatProperties
  <2>2. Len(a \o <<n>>) = Len(a) + 1
    BY <1>2, <2>1
  <2> QED BY <2>1, <2>2, Zenon
<1>4. WithPack(s, n) = c \o b
  BY <1>1, <1>3
<1>5. c \o b \in Seq(Nat) /\ Len(c \o b) = Len(s) + 1
  <2>1. Len(c \o b) = Len(c) + Len(b) /\ Len(s) = Len(a) + Len(b)
    BY <1>1, ConcatProperties
  <2>2. Len(a) \in Nat /\ Len(b) \in Nat
    OBVIOUS
  <2>3. c \o b \in Seq(Nat)
    BY ConcatProperties
  <2> QED BY <1>3, <2>1, <2>2, <2>3
<1>6. Sum(c \o b) = Sum(s) + n
  <2>1. Sum(c \o b) = Sum(c) + Sum(b) /\ Sum(s) = Sum(a) + Sum(b)
    BY <1>1, SumConcat
  <2>2. Sum(c) = Sum(a) + n
    <3>1. Sum(a \o <<n>>) = Sum(a) + Sum(<<n>>)
      BY <1>2, SumConcat
    <3>2. Sum(<<n>>) = n
      BY SumOne
    <3> QED BY <1>3, <3>1, <3>2
  <2>3. Sum(a) \in Nat /\ Sum(b) \in Nat
    BY SumNat
  <2> QED BY <2>1, <2>2, <2>3
<1>7. Descending(a) /\ Descending(b) /\ AtLeast(a, b)
  BY <1>1, ConcatDescending
<1>8. Descending(c)
  <2>1. Descending(<<n>>)
    BY <1>2 DEF Descending
  <2>2. AtLeast(a, <<n>>)
    BY <1>1, <1>2 DEF AtLeast
  <2> QED BY <1>2, <1>3, <1>7, <2>1, <2>2, ConcatDescending
<1>9. AtLeast(c, b)
  <2>1. \A i \in 1..Len(a) + 1 : c[i] = IF i <= Len(a) THEN a[i] ELSE n
    <3>1. \A i \in 1..Len(a) + 1 : c[i] = IF i <= Len(a) THEN a[i] ELSE <<n>>[i - Len(a)]
      BY <1>2, <1>3, ConcatProperties
    <3>2. \A i \in 1..Len(a) + 1 : ~(i <= Len(a)) => i - Len(a) = 1
      OBVIOUS
    <3> QED BY <1>2, <3>1, <3>2
  <2>2. \A j \in 1..Len(b) : b[j] \in Nat
    OBVIOUS
  <2>3. \A i \in 1..Len(a) + 1, j \in 1..Len(b) : c[i] >= b[j]
    <3> TAKE i \in 1..Len(a) + 1, j \in 1..Len(b)
    <3>1. b[j] < n /\ b[j] \in Nat
      BY <1>1, <2>2
    <3>2. CASE i <= Len(a)
      <4>1. i \in 1..Len(a)
        BY <3>2
      <4> QED BY <1>7, <2>1, <3>2, <4>1 DEF AtLeast
    <3>3. CASE ~(i <= Len(a))
      BY <2>1, <3>1, <3>3
    <3> QED BY <3>2, <3>3
  <2> QED BY <1>3, <2>3 DEF AtLeast
<1>10. Descending(c \o b)
  BY <1>7, <1>8, <1>9, ConcatDescending
<1>11. ASSUME Positive(s), n > 0 PROVE Positive(c \o b)
  <2>1. Positive(a) /\ Positive(b)
    BY <1>1, <1>11, ConcatPositive
  <2>2. Positive(<<n>>)
    BY <1>2, <1>11 DEF Positive
  <2>3. Positive(c)
    BY <1>2, <1>3, <2>1, <2>2, ConcatPositive
  <2> QED BY <2>1, <2>3, ConcatPositive
<1> QED
  BY <1>4, <1>5, <1>6, <1>10, <1>11

LEMMA AppendFacts ==
  ASSUME NEW s \in Seq(Nat), NEW n \in Nat
  PROVE  /\ Append(s, n) \in Seq(Nat) /\ Len(Append(s, n)) = Len(s) + 1
         /\ Append(s, n) # <<>>
         /\ Sum(Append(s, n)) = Sum(s) + n
         /\ Positive(s) /\ n > 0 => Positive(Append(s, n))
<1>1. /\ Append(s, n) \in Seq(Nat) /\ Append(s, n) # <<>>
      /\ Len(Append(s, n)) = Len(s) + 1
      /\ \A i \in 1..Len(s) : Append(s, n)[i] = s[i]
      /\ Append(s, n)[Len(s) + 1] = n
  BY AppendProperties
<1>2. ASSUME Positive(s), n > 0 PROVE Positive(Append(s, n))
  <2>1. \A i \in 1..Len(s) + 1 : i \in 1..Len(s) \/ i = Len(s) + 1
    OBVIOUS
  <2> QED BY <1>1, <1>2, <2>1 DEF Positive
<1> QED
  BY <1>1, <1>2, SumAppend

\* The next pack in order goes from the head of one sequence to the end of the other.
LEMMA MoveDescending ==
  ASSUME NEW s \in Seq(Nat), NEW t \in Seq(Nat), t # <<>>,
         Descending(s), Descending(t), AtLeast(s, t)
  PROVE  /\ AtLeast(s, Tail(t))
         /\ Descending(Append(s, Head(t))) /\ AtLeast(Append(s, Head(t)), Tail(t))
<1>1. t = <<Head(t)>> \o Tail(t) /\ Head(t) \in Nat /\ Tail(t) \in Seq(Nat) /\ <<Head(t)>> \in Seq(Nat)
  BY HeadThenTail
<1>2. s \o <<Head(t)>> = Append(s, Head(t)) /\ Append(s, Head(t)) \in Seq(Nat)
  BY <1>1, AppendIsConcat, AppendFacts
<1>3. Descending(s \o t)
  BY ConcatDescending
<1>4. s \o t = (s \o <<Head(t)>>) \o Tail(t)
  <2>1. (s \o <<Head(t)>>) \o Tail(t) = s \o (<<Head(t)>> \o Tail(t))
    BY <1>1, ConcatAssociative, SMTT(30)
  <2> QED BY <1>1, <2>1
<1>5. Descending(Append(s, Head(t)) \o Tail(t))
  BY <1>2, <1>3, <1>4
<1>6. Descending(Append(s, Head(t))) /\ AtLeast(Append(s, Head(t)), Tail(t))
  BY <1>1, <1>2, <1>5, ConcatDescending
<1>7. AtLeast(s, Tail(t))
  <2>1. Len(Tail(t)) = Len(t) - 1 /\ \A i \in 1..Len(Tail(t)) : Tail(t)[i] = t[i + 1]
    BY HeadTailProperties
  <2>2. Len(t) \in Nat /\ \A i \in 1..Len(Tail(t)) : i + 1 \in 1..Len(t)
    BY <2>1
  <2> QED BY <2>1, <2>2 DEF AtLeast
<1> QED
  BY <1>6, <1>7

\* MaxPackCount is the number of packs in the distribution.
LEMMA DistributionFacts ==
  ASSUME NEW n \in Nat
  PROVE  /\ PackDistribution(n) \in Seq(Nat) /\ Sum(PackDistribution(n)) = n
         /\ MaxPackCount(n) = Len(PackDistribution(n)) /\ MaxPackCount(n) \in Nat /\ MaxPackCount(n) > 0
         /\ n # 0 => Positive(PackDistribution(n)) /\ Descending(PackDistribution(n))
<1>1. CASE n = 0
  <2>1. PackDistribution(n) = <<0>> /\ MaxPackCount(n) = 1
    BY <1>1 DEF PackDistribution, MaxPackCount
  <2>2. <<0>> \in Seq(Nat) /\ Len(<<0>>) = 1 /\ Sum(<<0>>) = 0
    BY SumOne
  <2>3. PICK d \in Seq(Nat) : d = <<0>> /\ Len(d) = 1 /\ Sum(d) = 0
    BY <2>2
  <2>4. PackDistribution(n) = d
    BY <2>1, <2>3
  <2>5. PackDistribution(n) \in Seq(Nat) /\ Sum(PackDistribution(n)) = n
    BY <1>1, <2>3, <2>4
  <2>6. MaxPackCount(n) = Len(PackDistribution(n))
    BY <2>1, <2>3, <2>4
  <2>7. MaxPackCount(n) \in Nat /\ MaxPackCount(n) > 0
    BY <2>1
  <2> QED BY <1>1, <2>5, <2>6, <2>7, Zenon
<1>2. CASE n # 0
  <2>1. PackDistribution(n) = Buckets[n] /\ MaxPackCount(n) = DigitSum[n]
    BY <1>2 DEF PackDistribution, MaxPackCount
  <2>2. /\ Buckets[n] \in Seq(Nat) /\ Positive(Buckets[n]) /\ Descending(Buckets[n])
        /\ Sum(Buckets[n]) = n /\ Len(Buckets[n]) = DigitSum[n]
    BY BucketsFacts
  <2>3. Buckets[n] # <<>>
    BY <1>2, <2>2, SumEmpty
  <2>4. Len(Buckets[n]) \in Nat /\ Len(Buckets[n]) > 0
    BY <2>2, <2>3, EmptySeq
  <2> QED BY <2>1, <2>2, <2>4
<1> QED
  BY <1>1, <1>2

-----------------------------------------------------------------------------
\* The loop of plan_autopack_combinations.

\* Numbers of revisions are natural numbers, and no exception has been raised.
TypeOK ==
  /\ grows \in Scenarios
  /\ sizes \in Seq(Nat) /\ left \in Seq(Nat) /\ dist \in Seq(Nat)
  /\ chosen \in Seq(Nat) /\ kept \in Seq(Nat)
  /\ count \in Nat /\ op \in Nat /\ limit \in Nat
  /\ pc \in {"ready", "loop", "use", "execute"}
  /\ err = "none"

\* The packs that the plan makes are at most the kept ones, one for each bucket
\* that is left and, when the last bucket that chosen packs went into is full, the
\* one they go into.
Slots == Len(kept) + Len(dist) + (IF chosen # <<>> /\ op = 0 THEN 1 ELSE 0)

\* A kept pack that has not used up its first bucket yet takes a slot too many.
Room ==
  \/ Slots <= limit
  \/ pc = "use" /\ dist # <<>> /\ count >= Head(dist) /\ Slots <= limit + 1

Planning ==
  /\ Positive(left) /\ Positive(kept) /\ Positive(chosen) /\ Positive(dist)
  /\ Descending(left) /\ Descending(kept) /\ AtLeast(kept, left)
  /\ Sum(dist) >= Sum(left) + count + op
  /\ Len(NonEmpty(sizes)) = Len(kept) + Len(chosen) + Len(left)
  /\ Len(NonEmpty(sizes)) > limit
  /\ op > 0 => pc # "use" /\ dist # <<>> /\ \A i \in 1..Len(left) : left[i] < Head(dist)
  /\ Room
  /\ pc = "execute" => left = <<>> /\ chosen # <<>>

PlanInv ==
  /\ TypeOK
  /\ Descending(sizes)
  /\ pc # "use" => count = 0
  /\ pc = "ready" => Len(NonEmpty(sizes)) <= limit
  /\ pc # "ready" => Planning

LEMMA PlanInit == Init => PlanInv
<1> SUFFICES ASSUME Init PROVE PlanInv
  OBVIOUS
<1>1. grows \in Scenarios /\ grows.maxPacks \in Nat
  BY PlanAssumption DEF Init
<1>2. sizes = <<>> /\ sizes \in Seq(Nat) /\ Len(sizes) = 0
  BY DEF Init
<1>3. Descending(sizes)
  BY <1>2 DEF Descending
<1>4. TypeOK
  BY <1>1, <1>2 DEF Init, TypeOK
<1>5. NonEmpty(sizes) \in Seq(Nat) /\ Len(NonEmpty(sizes)) <= 0
  BY <1>2, <1>3, FilledFacts
<1>6. Len(NonEmpty(sizes)) <= limit
  BY <1>1, <1>5 DEF Init
<1> QED
  BY <1>3, <1>4, <1>6 DEF Init, PlanInv

LEMMA PlanArrive == PlanInv /\ Arrive => PlanInv'
<1> SUFFICES ASSUME PlanInv, Arrive PROVE PlanInv'
  OBVIOUS
<1> USE DEF PlanInv, TypeOK
<1>1. grows.maxPacks \in Nat /\ grows.arrivals \in SUBSET Nat
  BY PlanAssumption
<1>2. PICK n \in grows.arrivals : sizes' = WithPack(sizes, n)
  BY DEF Arrive
<1>3. n \in Nat
  BY <1>1
<1>4. sizes' \in Seq(Nat) /\ Descending(sizes') /\ Len(sizes') = Len(sizes) + 1
  BY <1>2, <1>3, WithPackProperties
<1>5. NonEmpty(sizes') \in Seq(Nat) /\ Len(NonEmpty(sizes')) <= Len(sizes')
  BY <1>4, FilledFacts
<1>6. Len(sizes) \in Nat /\ Len(sizes) < grows.maxPacks /\ limit' = grows.maxPacks + 1
  BY DEF Arrive
<1>7. Len(NonEmpty(sizes')) <= limit' /\ limit' \in Nat
  BY <1>1, <1>4, <1>5, <1>6, SMTT(30)
<1>8. pc = "ready" /\ UNCHANGED <<grows, pc, left, dist, count, op, chosen, kept, err>>
  BY DEF Arrive
<1>9. TypeOK'
  BY <1>4, <1>7, <1>8
<1>10. Descending(sizes)'
  BY <1>4 DEF Descending
<1>11. (Len(NonEmpty(sizes)) <= limit)'
  BY <1>7 DEF NonEmpty, Filled
<1> QED
  BY <1>8, <1>9, <1>10, <1>11

LEMMA PlanAutopack == PlanInv /\ Autopack => PlanInv'
<1> SUFFICES ASSUME PlanInv, Autopack PROVE PlanInv'
  OBVIOUS
<1>1. TypeOK /\ Descending(sizes) /\ count = 0 /\ pc = "ready" /\ sizes \in Seq(Nat)
  BY DEF PlanInv, Autopack, TypeOK
<1>2. PICK e \in Seq(Nat) : /\ e = NonEmpty(sizes) /\ Positive(e) /\ Descending(e)
                            /\ Sum(e) = Sum(sizes)
  BY <1>1, FilledFacts
<1>3. PICK n \in Nat : n = Sum(sizes)
  BY <1>1, SumNat
<1>4. PICK d \in Seq(Nat) : /\ d = PackDistribution(n) /\ Sum(d) = n /\ MaxPackCount(n) = Len(d)
                            /\ n # 0 => Positive(d)
  BY DistributionFacts
<1>5. Len(d) \in Nat /\ Len(d) > 0 /\ Len(e) \in Nat
  BY <1>4, DistributionFacts
<1>6. limit' = Len(d) /\ op' = 0 /\ chosen' = <<>> /\ kept' = <<>> /\ UNCHANGED <<grows, sizes, count, err>>
  BY <1>3, <1>4 DEF Autopack
<1>7. \/ Len(e) <= Len(d) /\ UNCHANGED <<pc, left, dist>>
      \/ Len(e) > Len(d) /\ pc' = "loop" /\ left' = e /\ dist' = d
  BY <1>2, <1>3, <1>4, <1>5 DEF Autopack, AcceptsAll
<1>8. TypeOK'
  BY <1>1, <1>2, <1>5, <1>6, <1>7, EmptySeq DEF TypeOK
<1>9. Descending(sizes)'
  BY <1>1, <1>6 DEF Descending
<1>10. NonEmpty(sizes)' = e
  BY <1>2, <1>6 DEF NonEmpty, Filled
<1>11. CASE Len(e) <= Len(d) /\ UNCHANGED <<pc, left, dist>>
  <2>1. pc' = "ready" /\ count' = 0 /\ Len(e) <= limit'
    BY <1>1, <1>6, <1>11
  <2> QED BY <1>8, <1>9, <1>10, <2>1 DEF PlanInv
<1>12. CASE Len(e) > Len(d) /\ pc' = "loop" /\ left' = e /\ dist' = d
  <2>1. e # <<>>
    BY <1>5, <1>12, EmptySeq
  <2>2. n # 0
    BY <1>2, <1>3, <2>1, SumPositive
  <2>3. Positive(d)
    BY <1>4, <2>2
  <2>4. <<>> \in Seq(Nat) /\ Len(<<>>) = 0
    OBVIOUS
  <2>5. Positive(<<>>) /\ Descending(<<>>) /\ AtLeast(<<>>, e)
    BY <2>4 DEF Positive, Descending, AtLeast
  <2>6. Positive(left)' /\ Positive(kept)' /\ Positive(chosen)' /\ Positive(dist)'
    BY <1>2, <1>6, <1>12, <2>3, <2>5 DEF Positive
  <2>7. Descending(left)' /\ Descending(kept)' /\ AtLeast(kept, left)'
    BY <1>2, <1>6, <1>12, <2>5 DEF Descending, AtLeast
  <2>8. (Sum(dist) >= Sum(left) + count + op)'
    BY <1>1, <1>2, <1>3, <1>4, <1>6, <1>12
  <2>9. Len(NonEmpty(sizes))' = Len(kept)' + Len(chosen)' + Len(left)'
    BY <1>5, <1>6, <1>10, <1>12, <2>4
  <2>10. Len(NonEmpty(sizes))' > limit'
    BY <1>6, <1>10, <1>12
  <2>11. Slots' <= limit'
    BY <1>5, <1>6, <1>12, <2>4 DEF Slots
  <2> QED BY <1>1, <1>6, <1>8, <1>9, <1>12, <2>6, <2>7, <2>8, <2>9, <2>10, <2>11 DEF PlanInv, Planning, Room
<1> QED
  BY <1>7, <1>11, <1>12

LEMMA PlanNextPack == PlanInv /\ NextPack => PlanInv'
<1> SUFFICES ASSUME PlanInv, NextPack PROVE PlanInv'
  OBVIOUS
<1>1. TypeOK /\ Planning /\ pc = "loop" /\ left # <<>> /\ count = 0 /\ Slots <= limit
  BY DEF PlanInv, NextPack, Planning, Room
<1>2. PICK x \in Nat, t \in Seq(Nat) :
        /\ x = Head(left) /\ t = Tail(left) /\ x > 0 /\ Positive(t) /\ Descending(t)
        /\ Sum(left) = x + Sum(t) /\ Len(left) = Len(t) + 1
        /\ \A i \in 1..Len(t) : t[i] <= x
  <2>1. left \in Seq(Nat) /\ Positive(left) /\ Descending(left)
    BY <1>1 DEF TypeOK, Planning
  <2>2. /\ Head(left) \in Nat /\ Tail(left) \in Seq(Nat) /\ Head(left) > 0 /\ Positive(Tail(left)) /\ Descending(Tail(left))
        /\ Sum(left) = Head(left) + Sum(Tail(left)) /\ Len(left) \in Nat /\ Len(Tail(left)) = Len(left) - 1
        /\ \A i \in 1..Len(Tail(left)) : Tail(left)[i] <= Head(left)
    BY <1>1, <2>1, TailFacts
  <2>3. Len(left) = Len(Tail(left)) + 1
    BY <2>2
  <2> QED BY <2>2, <2>3, Zenon
<1>3. Sum(left) \in Nat /\ Sum(t) \in Nat /\ Sum(dist) \in Nat /\ Len(t) \in Nat
      /\ count \in Nat /\ op \in Nat /\ limit \in Nat /\ dist \in Seq(Nat) /\ kept \in Seq(Nat)
      /\ chosen \in Seq(Nat) /\ Len(dist) \in Nat /\ Len(kept) \in Nat /\ Len(chosen) \in Nat
  BY <1>1, SumNat DEF TypeOK
<1>12. Sum(dist) >= Sum(left) + op
  BY <1>1, <1>3 DEF Planning
<1>a. Sum(left) = x + Sum(t) /\ x > 0
  BY <1>2
<1>4. dist # <<>>
  <2>1. Sum(dist) > 0
    BY <1>3, <1>12, <1>a
  <2> QED BY <2>1, SumEmpty
<1>5. PICK h \in Nat, u \in Seq(Nat) :
        /\ h = Head(dist) /\ u = Tail(dist) /\ h > 0 /\ Positive(u)
        /\ Sum(dist) = h + Sum(u) /\ Len(dist) = Len(u) + 1 /\ Sum(u) \in Nat /\ Len(u) \in Nat
  <2>1. Positive(dist)
    BY <1>1 DEF Planning
  <2>2. /\ Head(dist) \in Nat /\ Tail(dist) \in Seq(Nat) /\ Head(dist) > 0 /\ Positive(Tail(dist))
        /\ Sum(dist) = Head(dist) + Sum(Tail(dist)) /\ Len(Tail(dist)) = Len(dist) - 1
        /\ Sum(Tail(dist)) \in Nat
    BY <1>3, <1>4, <2>1, TailFacts
  <2>3. Len(dist) = Len(Tail(dist)) + 1 /\ Len(Tail(dist)) \in Nat
    BY <1>3, <2>2
  <2> QED BY <2>2, <2>3, Zenon
<1>b. Sum(dist) = h + Sum(u) /\ h > 0 /\ Sum(u) \in Nat
  BY <1>5
<1>6. left' = t /\ UNCHANGED <<grows, sizes, limit, err>>
  BY <1>2, <1>4 DEF NextPack
<1>7. /\ Descending(kept) /\ AtLeast(kept, t)
      /\ Descending(Append(kept, x)) /\ AtLeast(Append(kept, x), t)
  BY <1>1, <1>2, <1>3, MoveDescending DEF TypeOK, Planning
<1>8. /\ Append(kept, x) \in Seq(Nat) /\ Len(Append(kept, x)) = Len(kept) + 1 /\ Positive(Append(kept, x))
      /\ Append(chosen, x) \in Seq(Nat) /\ Len(Append(chosen, x)) = Len(chosen) + 1
      /\ Positive(Append(chosen, x)) /\ Append(chosen, x) # <<>>
  BY <1>1, <1>2, <1>3, AppendFacts DEF Planning
<1>9. \/ /\ x >= h /\ pc' = "use" /\ count' = x /\ kept' = Append(kept, x)
         /\ UNCHANGED <<dist, op, chosen>>
      \/ /\ x < h /\ chosen' = Append(chosen, x) /\ op + x >= h /\ op' = 0 /\ dist' = u
         /\ UNCHANGED <<pc, count, kept>>
      \/ /\ x < h /\ chosen' = Append(chosen, x) /\ op + x < h /\ op' = op + x
         /\ UNCHANGED <<dist, pc, count, kept>>
  <2>1. \/ /\ Keeps(Head(left)) /\ pc' = "use" /\ count' = Head(left) /\ kept' = Append(kept, Head(left))
           /\ UNCHANGED <<dist, op, chosen>>
        \/ /\ ~Keeps(Head(left)) /\ chosen' = Append(chosen, Head(left)) /\ op + Head(left) >= Head(dist)
           /\ op' = 0 /\ dist' = Tail(dist) /\ UNCHANGED <<pc, count, kept>>
        \/ /\ ~Keeps(Head(left)) /\ chosen' = Append(chosen, Head(left)) /\ ~(op + Head(left) >= Head(dist))
           /\ op' = op + Head(left) /\ UNCHANGED <<dist, pc, count, kept>>
    BY <1>4, Zenon DEF NextPack
  <2>2. Keeps(Head(left)) <=> Head(left) >= Head(dist)
    BY DEF Keeps
  <2>3. Head(left) = x /\ Head(dist) = h /\ Tail(dist) = u
    BY <1>2, <1>5
  <2>4. \/ /\ x >= h /\ pc' = "use" /\ count' = x /\ kept' = Append(kept, x)
           /\ UNCHANGED <<dist, op, chosen>>
        \/ /\ ~(x >= h) /\ chosen' = Append(chosen, x) /\ op + x >= h
           /\ op' = 0 /\ dist' = u /\ UNCHANGED <<pc, count, kept>>
        \/ /\ ~(x >= h) /\ chosen' = Append(chosen, x) /\ ~(op + x >= h)
           /\ op' = op + x /\ UNCHANGED <<dist, pc, count, kept>>
    BY <2>1, <2>2, <2>3
  <2>5. (~(x >= h) <=> x < h) /\ (~(op + x >= h) <=> op + x < h)
    BY <1>3
  <2> QED BY <2>4, <2>5
<1>10. Descending(sizes)' /\ NonEmpty(sizes)' = NonEmpty(sizes)
  BY <1>6 DEF PlanInv, Descending, NonEmpty, Filled
<1>11. Positive(t) /\ Descending(t) /\ Positive(kept) /\ Positive(chosen) /\ Positive(dist)
  BY <1>1, <1>2 DEF Planning
<1>13. ASSUME op > 0 PROVE x < h
  <2>1. 1 \in 1..Len(left) /\ x = left[1]
    BY <1>1, <1>2, <1>3 DEF TypeOK
  <2> QED BY <1>1, <1>5, <1>13, <2>1 DEF Planning
<1>14. Slots = Len(kept) + Len(dist) + (IF chosen # <<>> /\ op = 0 THEN 1 ELSE 0)
  BY DEF Slots
<1>15. Slots' = Len(kept') + Len(dist') + (IF chosen' # <<>> /\ op' = 0 THEN 1 ELSE 0)
  BY DEF Slots
<1>16. Len(NonEmpty(sizes))' = Len(kept) + Len(chosen) + Len(left) /\ Len(NonEmpty(sizes))' > limit'
  BY <1>1, <1>6, <1>10 DEF Planning
<1>17. CASE /\ x >= h /\ pc' = "use" /\ count' = x /\ kept' = Append(kept, x)
            /\ UNCHANGED <<dist, op, chosen>>
  <2>1. op = 0
    BY <1>3, <1>13, <1>17, SMTT(30)
  <2>2. TypeOK'
    BY <1>1, <1>2, <1>6, <1>8, <1>17 DEF TypeOK
  <2>3. Positive(left') /\ Positive(kept') /\ Positive(chosen') /\ Positive(dist')
    BY <1>6, <1>8, <1>11, <1>17
  <2>4. Descending(left') /\ Descending(kept') /\ AtLeast(kept', left')
    BY <1>6, <1>7, <1>11, <1>17
  <2>5. Sum(dist') >= Sum(left') + count' + op'
    BY <1>2, <1>3, <1>6, <1>12, <1>17, <2>1
  <2>6. Len(NonEmpty(sizes))' = Len(kept') + Len(chosen') + Len(left')
    BY <1>2, <1>3, <1>6, <1>8, <1>16, <1>17
  <2>7. Slots' = Slots + 1
    BY <1>3, <1>8, <1>14, <1>15, <1>17
  <2>8. dist' # <<>> /\ count' >= Head(dist') /\ Slots' <= limit' + 1
    BY <1>1, <1>3, <1>4, <1>5, <1>6, <1>14, <1>17, <2>7
  <2>9. Room'
    BY <1>17, <2>8 DEF Room
  <2>a. ~(op' > 0) /\ pc' # "execute"
    BY <1>17, <2>1
  <2>10. Planning'
    BY <1>16, <2>a, <2>3, <2>4, <2>5, <2>6, <2>9 DEF Planning, Positive, Descending, AtLeast
  <2> QED BY <1>10, <1>17, <2>2, <2>10 DEF PlanInv
<1>18. CASE /\ x < h /\ chosen' = Append(chosen, x) /\ op + x >= h /\ op' = 0 /\ dist' = u
            /\ UNCHANGED <<pc, count, kept>>
  <2>1. op > 0
    BY <1>3, <1>18
  <2>2. TypeOK'
    BY <1>1, <1>2, <1>5, <1>6, <1>8, <1>18 DEF TypeOK
  <2>3. Positive(left') /\ Positive(kept') /\ Positive(chosen') /\ Positive(dist')
    BY <1>5, <1>6, <1>8, <1>11, <1>18
  <2>4. Descending(left') /\ Descending(kept') /\ AtLeast(kept', left')
    BY <1>6, <1>7, <1>11, <1>18
  <2>5. Sum(dist') >= Sum(left') + count' + op'
    BY <1>1, <1>3, <1>6, <1>12, <1>18, <1>a, <1>b, SMTT(30)
  <2>6. Len(NonEmpty(sizes))' = Len(kept') + Len(chosen') + Len(left')
    BY <1>2, <1>3, <1>6, <1>8, <1>16, <1>18
  <2>7. Slots' <= limit'
    BY <1>1, <1>3, <1>5, <1>6, <1>8, <1>14, <1>15, <1>18, <2>1
  <2>8. Room'
    BY <2>7 DEF Room
  <2>9. pc' = "loop" /\ count' = 0 /\ ~(op' > 0)
    BY <1>1, <1>18
  <2>10. Planning'
    BY <1>16, <2>3, <2>4, <2>5, <2>6, <2>8, <2>9 DEF Planning, Positive, Descending, AtLeast
  <2> QED BY <1>10, <2>2, <2>9, <2>10 DEF PlanInv
<1>19. CASE /\ x < h /\ chosen' = Append(chosen, x) /\ op + x < h /\ op' = op + x
            /\ UNCHANGED <<dist, pc, count, kept>>
  <2>1. op' > 0 /\ op' \in Nat
    BY <1>3, <1>a, <1>19
  <2>2. TypeOK'
    BY <1>1, <1>2, <1>6, <1>8, <1>19, <2>1 DEF TypeOK
  <2>3. Positive(left') /\ Positive(kept') /\ Positive(chosen') /\ Positive(dist')
    BY <1>6, <1>8, <1>11, <1>19
  <2>4. Descending(left') /\ Descending(kept') /\ AtLeast(kept', left')
    BY <1>6, <1>7, <1>11, <1>19
  <2>5. Sum(dist') >= Sum(left') + count' + op'
    BY <1>1, <1>3, <1>6, <1>12, <1>19, <1>a, SMTT(30)
  <2>6. Len(NonEmpty(sizes))' = Len(kept') + Len(chosen') + Len(left')
    BY <1>2, <1>3, <1>6, <1>8, <1>16, <1>19
  <2>7. Slots' <= limit'
    BY <1>1, <1>3, <1>6, <1>14, <1>15, <1>19, <2>1, SMTT(30)
  <2>8. Room'
    BY <2>7 DEF Room
  <2>9. pc' = "loop" /\ count' = 0 /\ dist' # <<>>
    BY <1>1, <1>4, <1>19
  <2>10. \A i \in 1..Len(left') : left'[i] < Head(dist')
    <3>1. \A i \in 1..Len(t) : t[i] \in Nat /\ t[i] <= x
      BY <1>2
    <3> QED BY <1>2, <1>5, <1>6, <1>19, <3>1
  <2>11. Planning'
    BY <1>16, <2>3, <2>4, <2>5, <2>6, <2>8, <2>9, <2>10 DEF Planning, Positive, Descending, AtLeast
  <2> QED BY <1>10, <2>2, <2>9, <2>11 DEF PlanInv
<1> QED
  BY <1>9, <1>17, <1>18, <1>19

LEMMA PlanUseBucket == PlanInv /\ UseBucket => PlanInv'
<1> SUFFICES ASSUME PlanInv, UseBucket PROVE PlanInv'
  OBVIOUS
<1>1. TypeOK /\ Planning /\ pc = "use" /\ count > 0
  BY DEF PlanInv, UseBucket
<1>2. op = 0
  BY <1>1 DEF TypeOK, Planning
<1>3. Sum(left) \in Nat /\ Sum(dist) \in Nat /\ count \in Nat /\ limit \in Nat /\ dist \in Seq(Nat)
      /\ Len(dist) \in Nat /\ Len(kept) \in Nat
  BY <1>1, SumNat DEF TypeOK
<1>4. Sum(dist) >= Sum(left) + count
  BY <1>1, <1>2, <1>3 DEF Planning
<1>5. dist # <<>>
  <2>1. Sum(dist) > 0
    BY <1>1, <1>3, <1>4
  <2> QED BY <2>1, SumEmpty
<1>6. PICK h \in Nat, u \in Seq(Nat) :
        /\ h = Head(dist) /\ u = Tail(dist) /\ h > 0 /\ Positive(u)
        /\ Sum(dist) = h + Sum(u) /\ Len(dist) = Len(u) + 1 /\ Sum(u) \in Nat /\ Len(u) \in Nat
  <2>1. Positive(dist)
    BY <1>1 DEF Planning
  <2>2. /\ Head(dist) \in Nat /\ Tail(dist) \in Seq(Nat) /\ Head(dist) > 0 /\ Positive(Tail(dist))
        /\ Sum(dist) = Head(dist) + Sum(Tail(dist)) /\ Len(Tail(dist)) = Len(dist) - 1
        /\ Sum(Tail(dist)) \in Nat
    BY <1>3, <1>5, <2>1, TailFacts
  <2>3. Len(dist) = Len(Tail(dist)) + 1 /\ Len(Tail(dist)) \in Nat
    BY <1>3, <2>2
  <2> QED BY <2>2, <2>3, Zenon
<1>7. Sum(dist) = h + Sum(u) /\ h > 0 /\ Len(dist) = Len(u) + 1 /\ Sum(u) \in Nat /\ Len(u) \in Nat
  BY <1>6
<1>8. UNCHANGED <<grows, sizes, pc, left, op, chosen, kept, limit, err>>
  BY <1>5 DEF UseBucket
<1>9. \/ count >= h /\ dist' = u /\ count' = count - h
      \/ count < h /\ dist' = <<h - count>> \o u /\ count' = 0
  <2>1. dist' = (IF count >= Head(dist) THEN Tail(dist) ELSE <<Head(dist) - count>> \o Tail(dist))
    BY <1>5 DEF UseBucket, UsesBucket
  <2>2. count' = IF count >= Head(dist) THEN count - Head(dist) ELSE 0
    BY <1>5 DEF UseBucket, Remainder
  <2>3. Head(dist) = h /\ Tail(dist) = u
    BY <1>6
  <2>4. dist' = (IF count >= h THEN u ELSE <<h - count>> \o u) /\ count' = IF count >= h THEN count - h ELSE 0
    BY <2>1, <2>2, <2>3
  <2>5. ~(count >= h) <=> count < h
    BY <1>3
  <2> QED BY <2>4, <2>5
<1>10. /\ dist' \in Seq(Nat) /\ Positive(dist') /\ count' \in Nat
       /\ Sum(dist') >= Sum(left) + count'
       /\ \/ Len(dist') = Len(dist) - 1
          \/ count < h /\ Len(dist') = Len(dist)
  <2>1. CASE count >= h /\ dist' = u /\ count' = count - h
    <3>1. Sum(dist') = Sum(u) /\ Len(dist') = Len(u) /\ Positive(dist') /\ dist' \in Seq(Nat)
      BY <1>6, <2>1
    <3> QED BY <1>3, <1>4, <1>7, <2>1, <3>1
  <2>2. CASE count < h /\ dist' = <<h - count>> \o u /\ count' = 0
    <3>1. PICK d \in Nat : d = h - count /\ d > 0
      BY <1>3, <2>2
    <3>2. <<d>> \in Seq(Nat) /\ Len(<<d>>) = 1 /\ <<d>>[1] = d
      OBVIOUS
    <3>3. dist' = <<d>> \o u
      BY <2>2, <3>1
    <3>4. dist' \in Seq(Nat) /\ Len(dist') = 1 + Len(u)
      BY <3>2, <3>3, ConcatProperties
    <3>5. Sum(dist') = d + Sum(u)
      <4>1. Sum(<<d>> \o u) = Sum(<<d>>) + Sum(u)
        BY <3>2, SumConcat
      <4> QED BY <3>3, <4>1, SumOne
    <3>6. Positive(<<d>>)
      BY <3>1, <3>2 DEF Positive
    <3>7. Positive(dist')
      BY <1>6, <3>2, <3>3, <3>6, ConcatPositive
    <3>8. count' = 0 /\ count < h
      BY <2>2
    <3> QED BY <1>3, <1>4, <1>7, <3>1, <3>4, <3>5, <3>7, <3>8
  <2> QED BY <1>9, <2>1, <2>2
<1>11. TypeOK'
  BY <1>1, <1>8, <1>10 DEF TypeOK
<1>12. Slots = Len(kept) + Len(dist) + (IF chosen # <<>> /\ op = 0 THEN 1 ELSE 0)
  BY DEF Slots
<1>13. Slots' = Len(kept) + Len(dist') + (IF chosen # <<>> /\ op = 0 THEN 1 ELSE 0)
  BY <1>8 DEF Slots
<1>14. Slots <= limit \/ (count >= h /\ Slots <= limit + 1)
  BY <1>1, <1>6 DEF Planning, Room
<1>15. Slots' <= limit'
  <2>1. limit' = limit /\ Len(dist') \in Nat
    BY <1>8, <1>10
  <2>2. CASE Len(dist') = Len(dist) - 1
    BY <1>3, <1>12, <1>13, <1>14, <2>1, <2>2
  <2>3. CASE count < h /\ Len(dist') = Len(dist)
    BY <1>3, <1>12, <1>13, <1>14, <2>1, <2>3
  <2> QED BY <1>10, <2>2, <2>3
<1>16. Room'
  BY <1>15 DEF Room
<1>17. Descending(sizes)' /\ NonEmpty(sizes)' = NonEmpty(sizes) /\ pc' = "use" /\ op' = 0
  BY <1>1, <1>2, <1>8 DEF PlanInv, Descending, NonEmpty, Filled
<1>18. Sum(dist') >= Sum(left') + count' + op'
  BY <1>3, <1>8, <1>10, <1>17
<1>19. Planning'
  <2>1. /\ Positive(left') /\ Positive(kept') /\ Positive(chosen') /\ Positive(dist')
        /\ Descending(left') /\ Descending(kept') /\ AtLeast(kept', left')
    BY <1>1, <1>8, <1>10 DEF Planning
  <2>2. Len(NonEmpty(sizes))' = Len(kept') + Len(chosen') + Len(left') /\ Len(NonEmpty(sizes))' > limit'
    BY <1>1, <1>8, <1>17 DEF Planning
  <2>3. ~(op' > 0) /\ pc' # "execute"
    BY <1>17
  <2> QED BY <1>16, <1>18, <2>1, <2>2, <2>3 DEF Planning, Positive, Descending, AtLeast
<1> QED
  BY <1>11, <1>17, <1>19 DEF PlanInv

LEMMA PlanUsed == PlanInv /\ Used => PlanInv'
<1> SUFFICES ASSUME PlanInv, Used PROVE PlanInv'
  OBVIOUS
<1>1. TypeOK /\ Planning /\ pc = "use" /\ count = 0 /\ pc' = "loop"
      /\ UNCHANGED <<grows, sizes, left, dist, count, op, chosen, kept, limit, err>>
  BY DEF PlanInv, Used
<1>2. TypeOK'
  BY <1>1 DEF TypeOK
<1>3. ~(dist # <<>> /\ count >= Head(dist))
  <2>1. SUFFICES ASSUME dist # <<>> PROVE ~(count >= Head(dist))
    OBVIOUS
  <2>2. Head(dist) \in Nat /\ Head(dist) > 0
    BY <1>1, <2>1, TailFacts DEF TypeOK, Planning
  <2> QED BY <1>1, <2>2
<1>4. Slots <= limit
  BY <1>1, <1>3 DEF Planning, Room
<1>5. Slots' <= limit'
  BY <1>1, <1>4 DEF Slots
<1>6. Room'
  BY <1>5 DEF Room
<1>7. Descending(sizes)' /\ NonEmpty(sizes)' = NonEmpty(sizes)
  BY <1>1 DEF PlanInv, Descending, NonEmpty, Filled
<1>8. Planning'
  <2>1. /\ Positive(left') /\ Positive(kept') /\ Positive(chosen') /\ Positive(dist')
        /\ Descending(left') /\ Descending(kept') /\ AtLeast(kept', left')
    BY <1>1 DEF Planning
  <2>2. Len(NonEmpty(sizes))' = Len(kept') + Len(chosen') + Len(left') /\ Len(NonEmpty(sizes))' > limit'
    BY <1>1, <1>7 DEF Planning
  <2>3. ~(op' > 0)
    BY <1>1 DEF Planning
  <2>4. Sum(dist') >= Sum(left') + count' + op'
    BY <1>1 DEF Planning
  <2> QED BY <1>1, <1>6, <2>1, <2>2, <2>3, <2>4 DEF Planning, Positive, Descending, AtLeast
<1> QED
  BY <1>1, <1>2, <1>7, <1>8 DEF PlanInv

\* The loop ends with packs to combine, and with more than one.
LEMMA PlanCombines ==
  ASSUME PlanInv, pc = "loop", left = <<>>
  PROVE  Len(chosen) > 1 /\ Slots <= limit
<1>1. TypeOK /\ Planning
  BY DEF PlanInv
<1>2. Len(kept) \in Nat /\ Len(dist) \in Nat /\ Len(chosen) \in Nat /\ limit \in Nat /\ Len(left) = 0
  BY <1>1 DEF TypeOK
<1>3. Slots <= limit
  BY <1>1 DEF Planning, Room
<1>4. Slots = Len(kept) + Len(dist) + (IF chosen # <<>> /\ op = 0 THEN 1 ELSE 0)
  BY DEF Slots
<1>5. Len(kept) + Len(chosen) > limit
  BY <1>1, <1>2 DEF Planning
<1>6. chosen # <<>>
  <2>1. ASSUME chosen = <<>> PROVE FALSE
    <3>1. Len(chosen) = 0
      BY <2>1
    <3> QED BY <1>2, <1>3, <1>4, <1>5, <2>1, <3>1
  <2> QED BY <2>1
<1>7. op = 0 \/ Len(dist) > 0
  <2>1. op \in Nat /\ (op > 0 => dist # <<>>) /\ (dist # <<>> => Len(dist) > 0)
    BY <1>1, EmptySeq DEF TypeOK, Planning
  <2> QED BY <2>1
<1>8. Len(kept) + 1 <= limit
  BY <1>2, <1>3, <1>4, <1>6, <1>7
<1> QED
  BY <1>2, <1>3, <1>5, <1>8

LEMMA PlanPlanEnds == PlanInv /\ PlanEnds => PlanInv'
<1> SUFFICES ASSUME PlanInv, PlanEnds PROVE PlanInv'
  OBVIOUS
<1>1. TypeOK /\ Planning /\ pc = "loop" /\ left = <<>> /\ count = 0
  BY DEF PlanInv, PlanEnds
<1>2. Len(chosen) > 1 /\ Slots <= limit
  BY <1>1, PlanCombines
<1>3. chosen # <<>> /\ Len(chosen) # 1
  <2>1. PICK n \in Nat : n = Len(chosen)
    BY <1>1 DEF TypeOK
  <2>2. n > 1 /\ n # 1 /\ n # 0
    BY <1>2, <2>1
  <2>3. chosen = <<>> => n = 0
    BY <2>1
  <2> QED BY <2>1, <2>2, <2>3
<1>4. pc' = "execute" /\ UNCHANGED <<grows, sizes, left, dist, count, op, chosen, kept, limit, err>>
  BY <1>3 DEF PlanEnds
<1>5. TypeOK'
  BY <1>1, <1>4 DEF TypeOK
<1>6. Slots' <= limit'
  BY <1>2, <1>4 DEF Slots
<1>7. Room'
  BY <1>6 DEF Room
<1>8. Descending(sizes)' /\ NonEmpty(sizes)' = NonEmpty(sizes)
  BY <1>4 DEF PlanInv, Descending, NonEmpty, Filled
<1>9. Planning'
  <2>1. /\ Positive(left') /\ Positive(kept') /\ Positive(chosen') /\ Positive(dist')
        /\ Descending(left') /\ Descending(kept') /\ AtLeast(kept', left')
    BY <1>1, <1>4 DEF Planning
  <2>2. Len(NonEmpty(sizes))' = Len(kept') + Len(chosen') + Len(left') /\ Len(NonEmpty(sizes))' > limit'
    BY <1>1, <1>4, <1>8 DEF Planning
  <2>3. op' > 0 => pc' # "use" /\ dist' # <<>> /\ \A i \in 1..Len(left') : left'[i] < Head(dist')
    BY <1>1, <1>4 DEF Planning
  <2>4. Sum(dist') >= Sum(left') + count' + op'
    BY <1>1, <1>4 DEF Planning
  <2> QED BY <1>1, <1>3, <1>4, <1>7, <2>1, <2>2, <2>3, <2>4 DEF Planning, Positive, Descending, AtLeast
<1> QED
  BY <1>1, <1>4, <1>5, <1>8, <1>9 DEF PlanInv

\* What _execute_pack_operations leaves.
LEMMA ExecuteReplaces ==
  ASSUME PlanInv, Execute
  PROVE  \E merged \in Nat :
           /\ merged > 0 /\ (~grows.dups => merged = Sum(chosen))
           /\ WithPack(kept, merged) \in Seq(Nat)
           /\ Positive(WithPack(kept, merged))
           /\ Len(WithPack(kept, merged)) = Len(kept) + 1
           /\ sizes' \in Seq(Nat) /\ Descending(sizes')
           /\ sizes' = WithPack(kept, merged) \o WithoutRevisions(sizes)
           /\ NonEmpty(sizes') = WithPack(kept, merged)
           /\ WithoutRevisions(sizes') = WithoutRevisions(sizes)
<1>1. TypeOK /\ Planning /\ pc = "execute" /\ chosen # <<>> /\ Descending(sizes)
  BY DEF PlanInv, Execute, Planning
<1>2. chosen \in Seq(Nat) /\ kept \in Seq(Nat) /\ sizes \in Seq(Nat) /\ Positive(chosen) /\ Positive(kept) /\ Descending(kept)
  BY <1>1 DEF TypeOK, Planning
<1>3. PICK low \in Nat, high \in Nat :
        low = Head(chosen) /\ high = Sum(chosen) /\ low > 0 /\ low <= high
  <2>1. /\ Head(chosen) \in Nat /\ Head(chosen) > 0
        /\ Sum(chosen) = Head(chosen) + Sum(Tail(chosen)) /\ Sum(Tail(chosen)) \in Nat
    BY <1>1, <1>2, TailFacts
  <2>2. Sum(chosen) \in Nat /\ Head(chosen) <= Sum(chosen)
    BY <2>1
  <2> QED BY <2>1, <2>2
<1>4. PICK merged \in (IF grows.dups THEN low ELSE high)..high : sizes' = Replaced(merged)
  BY <1>1, <1>3 DEF Execute
<1>5. merged \in Nat /\ merged > 0 /\ (~grows.dups => merged = high)
  BY <1>3, <1>4
<1>6. PICK w \in Seq(Nat) : /\ w = WithPack(kept, merged) /\ Descending(w) /\ Positive(w)
                            /\ Len(w) = Len(kept) + 1
  BY <1>2, <1>5, WithPackProperties
<1>7. PICK z \in Seq(Nat) : z = WithoutRevisions(sizes) /\ \A i \in 1..Len(z) : z[i] = 0
  BY <1>1, <1>2, FilledFacts
<1>8. sizes' = w \o z
  BY <1>4, <1>6, <1>7 DEF Replaced
<1>9. w \o z \in Seq(Nat)
  BY ConcatProperties
<1>10. Descending(z)
  BY <1>7 DEF Descending
<1>11. AtLeast(w, z)
  <2>1. \A i \in 1..Len(w) : w[i] \in Nat /\ w[i] > 0
    BY <1>6 DEF Positive
  <2> QED BY <1>7, <2>1 DEF AtLeast
<1>12. Descending(w \o z)
  BY <1>6, <1>10, <1>11, ConcatDescending
<1>13. NonEmpty(w \o z) = w /\ WithoutRevisions(w \o z) = z
  BY <1>6, <1>7, FilledIs
<1> QED
  BY <1>3, <1>5, <1>6, <1>7, <1>8, <1>9, <1>12, <1>13

LEMMA PlanExecute == PlanInv /\ Execute => PlanInv'
<1> SUFFICES ASSUME PlanInv, Execute PROVE PlanInv'
  OBVIOUS
<1>1. TypeOK /\ Planning /\ pc = "execute" /\ chosen # <<>>
  BY DEF PlanInv, Execute, Planning
<1>2. PICK w : /\ w \in Seq(Nat) /\ Len(w) = Len(kept) + 1
               /\ sizes' \in Seq(Nat) /\ Descending(sizes') /\ NonEmpty(sizes') = w
  BY ExecuteReplaces
<1>3. pc' = "ready" /\ left' = <<>> /\ dist' = <<>> /\ count' = 0 /\ op' = 0 /\ chosen' = <<>> /\ kept' = <<>>
      /\ UNCHANGED <<grows, limit, err>>
  BY DEF Execute
<1>4. TypeOK'
  BY <1>1, <1>2, <1>3, EmptySeq DEF TypeOK
<1>5. Len(kept) + 1 <= limit
  <2>1. Slots <= limit
    BY <1>1 DEF Planning, Room
  <2>2. Slots = Len(kept) + Len(dist) + (IF op = 0 THEN 1 ELSE 0)
    BY <1>1 DEF Slots
  <2>3. Len(kept) \in Nat /\ Len(dist) \in Nat /\ limit \in Nat
    BY <1>1 DEF TypeOK
  <2>4. op = 0 \/ Len(dist) > 0
    <3>1. op \in Nat /\ (op > 0 => dist # <<>>) /\ (dist # <<>> => Len(dist) > 0)
      BY <1>1, EmptySeq DEF TypeOK, Planning
    <3> QED BY <3>1
  <2> QED BY <2>1, <2>2, <2>3, <2>4
<1>6. Len(NonEmpty(sizes')) <= limit'
  BY <1>2, <1>3, <1>5
<1>7. (Len(NonEmpty(sizes)) <= limit)'
  BY <1>6 DEF NonEmpty, Filled
<1>8. Descending(sizes)'
  BY <1>2 DEF Descending
<1> QED
  BY <1>3, <1>4, <1>7, <1>8 DEF PlanInv

LEMMA PlanNext == PlanInv /\ [Next]_vars => PlanInv'
<1> SUFFICES ASSUME PlanInv, [Next]_vars PROVE PlanInv'
  OBVIOUS
<1>1. CASE UNCHANGED vars
  <2>1. TypeOK'
    BY <1>1 DEF vars, TypeOK, PlanInv
  <2>2. Descending(sizes)'
    BY <1>1 DEF vars, PlanInv, Descending
  <2>3. (pc # "use" => count = 0)' /\ (pc = "ready" => Len(NonEmpty(sizes)) <= limit)'
    BY <1>1 DEF vars, PlanInv, NonEmpty, Filled
  <2>4. (pc # "ready" => Planning)'
    BY <1>1 DEF vars, PlanInv, Planning, Room, Slots, NonEmpty, Filled, Positive, Descending, AtLeast
  <2> QED BY <2>1, <2>2, <2>3, <2>4 DEF PlanInv
<1>2. CASE Next
  BY <1>2, PlanArrive, PlanAutopack, PlanNextPack, PlanUseBucket, PlanUsed, PlanPlanEnds, PlanExecute
  DEF Next, Loop
<1> QED
  BY <1>1, <1>2

\* The inductive invariant of the plan.
LEMMA PlanInvariant == Spec => []PlanInv
  BY PlanInit, PlanNext, PTL DEF Spec

\* Every variable keeps its type; the numbers of revisions that the two loops of
\* plan_autopack_combinations subtract from each other never become negative.
THEOREM TypeCorrect == Spec => []TypeOK
<1>1. PlanInv => TypeOK
  BY DEF PlanInv
<1> QED
  BY <1>1, PlanInvariant, PTL

\* For packs of any sizes, however many arrive between two autopacks and however
\* many revisions they share, plan_autopack_combinations raises nothing: there is
\* always a bucket left for the next pack, and never a single pack to be moved.
THEOREM PlanNeverRaises == Spec => []PlanSucceeds
<1>1. PlanInv => PlanSucceeds
  BY DEF PlanInv, TypeOK, PlanSucceeds
<1> QED
  BY <1>1, PlanInvariant, PTL

\* Autopack leaves at most as many packs with revisions as _max_pack_count allowed
\* when it ran.
THEOREM LimitIsKept == Spec => []WithinLimit
<1>1. PlanInv => WithinLimit
  BY DEF PlanInv, WithinLimit
<1> QED
  BY <1>1, PlanInvariant, PTL

-----------------------------------------------------------------------------
\* One more revision: the buckets of n + 1.

LEMMA ConcatAssoc ==
  ASSUME NEW s \in Seq(Nat), NEW t \in Seq(Nat), NEW u \in Seq(Nat)
  PROVE  (s \o t) \o u = s \o (t \o u)
  BY ConcatAssociative, SMTT(30)

LEMMA ConcatAppend ==
  ASSUME NEW s \in Seq(Nat), NEW t \in Seq(Nat), NEW x \in Nat
  PROVE  Append(s \o t, x) = s \o Append(t, x)
<1>1. s \o t \in Seq(Nat) /\ <<x>> \in Seq(Nat)
  BY ConcatProperties
<1>2. Append(s \o t, x) = (s \o t) \o <<x>> /\ Append(t, x) = t \o <<x>>
  BY <1>1, AppendIsConcat
<1>3. (s \o t) \o <<x>> = s \o (t \o <<x>>)
  BY <1>1, ConcatAssoc
<1> QED
  BY <1>2, <1>3

LEMMA AppendConcat ==
  ASSUME NEW s \in Seq(Nat), NEW t \in Seq(Nat), NEW x \in Nat
  PROVE  Append(s, x) \o t = s \o (<<x>> \o t)
<1>1. Append(s, x) = s \o <<x>> /\ <<x>> \in Seq(Nat)
  BY AppendIsConcat
<1>2. (s \o <<x>>) \o t = s \o (<<x>> \o t)
  BY <1>1, ConcatAssoc
<1> QED
  BY <1>1, <1>2

LEMMA OnesAppend ==
  ASSUME NEW k \in Nat
  PROVE  Ones(k + 1) = Append(Ones(k), 1)
<1>1. Ones(k) \in Seq(Nat) /\ Len(Ones(k)) = k /\ \A i \in 1..k : Ones(k)[i] = 1
  BY OnesSeq
<1>2. Ones(k + 1) \in Seq(Nat) /\ Len(Ones(k + 1)) = k + 1 /\ \A i \in 1..(k + 1) : Ones(k + 1)[i] = 1
  BY OnesSeq
<1>3. PICK a \in Seq(Nat) : /\ a = Append(Ones(k), 1) /\ Len(a) = k + 1
                            /\ (\A i \in 1..k : a[i] = Ones(k)[i]) /\ a[k + 1] = 1
  <2>1. 1 \in Nat
    OBVIOUS
  <2>2. /\ Append(Ones(k), 1) \in Seq(Nat) /\ Len(Append(Ones(k), 1)) = Len(Ones(k)) + 1
        /\ \A i \in 1..Len(Ones(k)) : Append(Ones(k), 1)[i] = Ones(k)[i]
        /\ Append(Ones(k), 1)[Len(Ones(k)) + 1] = 1
    BY <1>1, <2>1, AppendProperties
  <2>3. /\ Len(Append(Ones(k), 1)) = k + 1 /\ (\A i \in 1..k : Append(Ones(k), 1)[i] = Ones(k)[i])
        /\ Append(Ones(k), 1)[k + 1] = 1
    BY <1>1, <2>2
  <2> QED BY <2>2, <2>3, Zenon
<1>4. \A i \in 1..(k + 1) : i \in 1..k \/ i = k + 1
  OBVIOUS
<1>5. \A i \in 1..(k + 1) : Ones(k + 1)[i] = a[i]
  BY <1>1, <1>2, <1>3, <1>4
<1>6. Ones(k + 1) = a
  BY <1>2, <1>3, <1>5, SeqEqual
<1> QED
  BY <1>3, <1>6

LEMMA TenTimesConcat ==
  ASSUME NEW s \in Seq(Nat), NEW t \in Seq(Nat)
  PROVE  TenTimes(s \o t) = TenTimes(s) \o TenTimes(t)
<1>1. PICK u \in Seq(Nat) : /\ u = s \o t /\ Len(u) = Len(s) + Len(t)
                            /\ \A i \in 1..Len(s) + Len(t) : u[i] = IF i <= Len(s) THEN s[i] ELSE t[i - Len(s)]
  <2>1. /\ s \o t \in Seq(Nat) /\ Len(s \o t) = Len(s) + Len(t)
        /\ \A i \in 1..Len(s) + Len(t) : (s \o t)[i] = IF i <= Len(s) THEN s[i] ELSE t[i - Len(s)]
    BY ConcatProperties
  <2> QED BY <2>1, Zenon
<1>2. PICK a \in Seq(Nat) : a = TenTimes(s) /\ Len(a) = Len(s) /\ \A i \in 1..Len(s) : a[i] = 10 * s[i]
  BY TenTimesSeq
<1>3. PICK b \in Seq(Nat) : b = TenTimes(t) /\ Len(b) = Len(t) /\ \A i \in 1..Len(t) : b[i] = 10 * t[i]
  BY TenTimesSeq
<1>4. PICK c \in Seq(Nat) : c = TenTimes(u) /\ Len(c) = Len(u) /\ \A i \in 1..Len(u) : c[i] = 10 * u[i]
  BY TenTimesSeq
<1>5. /\ a \o b \in Seq(Nat) /\ Len(a \o b) = Len(a) + Len(b)
      /\ \A i \in 1..Len(a) + Len(b) : (a \o b)[i] = IF i <= Len(a) THEN a[i] ELSE b[i - Len(a)]
  BY ConcatProperties
<1>6. Len(s) \in Nat /\ Len(t) \in Nat /\ Len(c) = Len(s) + Len(t) /\ Len(a) = Len(s) /\ Len(b) = Len(t) /\ Len(u) = Len(s) + Len(t)
  BY <1>1, <1>2, <1>3, <1>4
<1>7. ASSUME NEW i \in 1..Len(s) + Len(t) PROVE c[i] = (a \o b)[i]
  <2>0. c[i] = 10 * u[i] /\ (a \o b)[i] = IF i <= Len(s) THEN a[i] ELSE b[i - Len(s)]
    BY <1>4, <1>5, <1>6
  <2>1. CASE i <= Len(s)
    <3>1. i \in 1..Len(s)
      BY <1>6, <2>1
    <3>2. u[i] = s[i] /\ a[i] = 10 * s[i]
      BY <1>1, <1>2, <2>1, <3>1
    <3> QED BY <2>0, <2>1, <3>2
  <2>2. CASE ~(i <= Len(s))
    <3>1. i - Len(s) \in 1..Len(t)
      BY <1>6, <2>2
    <3>2. u[i] = t[i - Len(s)] /\ b[i - Len(s)] = 10 * t[i - Len(s)]
      BY <1>1, <1>3, <2>2, <3>1
    <3> QED BY <2>0, <2>2, <3>2
  <2> QED BY <2>1, <2>2
<1>8. c = a \o b
  <2>1. Len(c) = Len(a \o b) /\ \A i \in 1..Len(c) : c[i] = (a \o b)[i]
    BY <1>5, <1>6, <1>7
  <2> QED BY <1>5, <2>1, SeqEqual
<1> QED
  BY <1>1, <1>2, <1>3, <1>4, <1>8

LEMMA BucketsAlways ==
  ASSUME NEW n \in Nat
  PROVE  Buckets[n] = TenTimes(Buckets[n \div 10]) \o Ones(n % 10)
<1>1. CASE n # 0
  BY <1>1, BucketsRecursion
<1>2. CASE n = 0
  <2>1. 0 \div 10 = 0 /\ 0 % 10 = 0 /\ Buckets[0] = <<>>
    BY BucketsRecursion
  <2>2. <<>> \in Seq(Nat) /\ Len(<<>>) = 0
    OBVIOUS
  <2>3. TenTimes(<<>>) \in Seq(Nat) /\ Len(TenTimes(<<>>)) = 0
    BY <2>2, TenTimesSeq
  <2>4. TenTimes(<<>>) = <<>>
    BY <2>3, EmptySeq
  <2>5. Ones(0) \in Seq(Nat) /\ Len(Ones(0)) = 0
    BY OnesSeq
  <2>6. Ones(0) = <<>>
    BY <2>5, EmptySeq
  <2>7. <<>> \o <<>> = <<>>
    BY <2>2, ConcatEmptySeq
  <2> QED BY <1>2, <2>1, <2>4, <2>6, <2>7
<1> QED
  BY <1>1, <1>2

\* The buckets of n + 1 are some of those of n and one that holds what the others
\* hold and one revision more.
Carry(n, f, r) ==
  /\ f \in Seq(Nat) /\ r \in Seq(Nat)
  /\ Buckets[n] = f \o r
  /\ Buckets[n + 1] = Append(f, Sum(r) + 1)

LEMMA CarryExists ==
  ASSUME NEW n \in Nat
  PROVE  \E f, r : Carry(n, f, r)
<1> DEFINE T == {k \in Nat : \E f, r : Carry(k, f, r)}
<1>1. ASSUME NEW k \in Nat, \A j \in Nat : j < k => j \in T PROVE k \in T
  <2>1. PICK q \in Nat : q = k \div 10
    BY DivTen
  <2>2. PICK d \in 0..9 : d = k % 10
    BY DivTen
  <2>3. k = 10 * q + d
    BY <2>1, <2>2, DivTen
  <2>4. PICK b \in Seq(Nat) : b = Buckets[q]
    BY BucketsRecursion
  <2>5. PICK t \in Seq(Nat) : t = TenTimes(b)
    BY TenTimesSeq
  <2>6. PICK o \in Seq(Nat) : o = Ones(d) /\ Sum(o) = d
    BY OnesSeq
  <2>7. Buckets[k] = t \o o /\ t \o o \in Seq(Nat)
    BY <2>1, <2>2, <2>4, <2>5, <2>6, BucketsAlways, ConcatProperties
  <2>8. CASE d # 9
    <3>a. k + 1 \in Nat /\ d \in Nat /\ d + 1 \in 0..9 /\ k + 1 = 10 * q + (d + 1)
      BY <2>3, <2>8
    <3>1. (k + 1) \div 10 = q /\ (k + 1) % 10 = d + 1 /\ k + 1 \in Nat /\ d \in Nat
      BY <3>a, DivTenUnique
    <3>2. Buckets[k + 1] = t \o Ones(d + 1)
      BY <2>4, <2>5, <3>1, BucketsAlways
    <3>3. Ones(d + 1) = Append(o, 1)
      BY <2>6, <3>1, OnesAppend
    <3>4. Buckets[k + 1] = Append(t \o o, 1)
      <4>1. Append(t \o o, 1) = t \o Append(o, 1)
        BY ConcatAppend, SMTT(30)
      <4> QED BY <3>2, <3>3, <4>1
    <3>5. (t \o o) \o <<>> = t \o o /\ <<>> \in Seq(Nat)
      BY <2>7, ConcatEmptySeq
    <3>6. Sum(<<>>) + 1 = 1
      BY SumEmpty
    <3>7. Carry(k, t \o o, <<>>)
      BY <2>7, <3>4, <3>5, <3>6 DEF Carry
    <3> QED BY <3>7
  <2>9. CASE d = 9
    <3>1. (k + 1) \div 10 = q + 1 /\ (k + 1) % 10 = 0 /\ k + 1 \in Nat /\ q < k
      BY <2>3, <2>9
    <3>2. q \in T
      <4> HIDE DEF T
      <4> QED BY <1>1, <3>1
    <3>3. PICK f, r : Carry(q, f, r)
      BY <3>2
    <3>4. f \in Seq(Nat) /\ r \in Seq(Nat) /\ b = f \o r /\ Buckets[q + 1] = Append(f, Sum(r) + 1)
      BY <2>4, <3>3 DEF Carry
    <3>5. PICK x \in Nat : x = Sum(r) + 1
      BY <3>4, SumNat
    <3>6. PICK tf \in Seq(Nat) : tf = TenTimes(f)
      BY <3>4, TenTimesSeq
    <3>7. PICK tr \in Seq(Nat) : tr = TenTimes(r) /\ Sum(tr) = 10 * Sum(r)
      BY <3>4, TenTimesSeq
    <3>8. t = tf \o tr
      BY <2>5, <3>4, <3>6, <3>7, TenTimesConcat
    <3>9. PICK r2 \in Seq(Nat) : r2 = tr \o o /\ Sum(r2) = Sum(tr) + Sum(o)
      BY ConcatProperties, SumConcat
    <3>10. Buckets[k] = tf \o r2
      <4>1. (tf \o tr) \o o = tf \o (tr \o o)
        BY ConcatAssoc, ZenonT(30)
      <4> QED BY <2>7, <3>8, <3>9, <4>1
    <3>11. Buckets[k + 1] = TenTimes(Append(f, x))
      <4>1. Ones(0) \in Seq(Nat) /\ Len(Ones(0)) = 0
        BY OnesSeq
      <4>2. Ones(0) = <<>>
        BY <4>1, EmptySeq
      <4>3. Append(f, x) \in Seq(Nat)
        BY <3>4, AppendProperties
      <4>4. TenTimes(Append(f, x)) \in Seq(Nat)
        BY <4>3, TenTimesSeq
      <4>5. TenTimes(Append(f, x)) \o <<>> = TenTimes(Append(f, x))
        BY <4>4, ConcatEmptySeq
      <4> QED BY <3>1, <3>4, <3>5, <4>2, <4>5, BucketsAlways
    <3>12. TenTimes(Append(f, x)) = Append(tf, 10 * x)
      <4>1. Append(f, x) = f \o <<x>> /\ <<x>> \in Seq(Nat) /\ Len(<<x>>) = 1 /\ <<x>>[1] = x
        BY <3>4, AppendIsConcat
      <4>2. TenTimes(f \o <<x>>) = tf \o TenTimes(<<x>>)
        BY <3>4, <3>6, <4>1, TenTimesConcat
      <4>3. TenTimes(<<x>>) = <<10 * x>>
        <5>1. PICK v \in Seq(Nat) : v = <<x>> /\ Len(v) = 1 /\ v[1] = x
          BY <4>1
        <5>2. /\ TenTimes(v) \in Seq(Nat) /\ Len(TenTimes(v)) = Len(v)
              /\ \A i \in 1..Len(v) : TenTimes(v)[i] = 10 * v[i]
          BY TenTimesSeq
        <5>3. PICK y \in Nat : y = 10 * x
          OBVIOUS
        <5>4. PICK w \in Seq(Nat) : w = <<y>> /\ Len(w) = 1 /\ w[1] = y
          <6>1. <<y>> \in Seq(Nat) /\ Len(<<y>>) = 1 /\ <<y>>[1] = y
            OBVIOUS
          <6> QED BY <6>1, Zenon
        <5>5. Len(TenTimes(v)) = Len(w) /\ \A i \in 1..Len(TenTimes(v)) : TenTimes(v)[i] = w[i]
          <6>1. Len(TenTimes(v)) = 1 /\ \A i \in 1..1 : TenTimes(v)[i] = 10 * v[i]
            BY <5>1, <5>2
          <6>2. \A i \in 1..1 : i = 1
            OBVIOUS
          <6>3. v[1] = x /\ w[1] = 10 * x /\ Len(w) = 1
            BY <5>1, <5>3, <5>4
          <6> QED BY <6>1, <6>2, <6>3, Zenon
        <5>6. TenTimes(v) = w
          BY <5>2, <5>5, SeqEqual
        <5> QED BY <5>1, <5>3, <5>4, <5>6
      <4>4. 10 * x \in Nat
        OBVIOUS
      <4>5. Append(tf, 10 * x) = tf \o <<10 * x>>
        BY <4>4, AppendIsConcat
      <4> QED BY <4>1, <4>2, <4>3, <4>5
    <3>13. 10 * x = Sum(r2) + 1
      <4>1. Sum(r) \in Nat
        BY <3>4, SumNat
      <4> QED BY <2>6, <2>9, <3>5, <3>7, <3>9, <4>1, SMTT(30)
    <3>14. Carry(k, tf, r2)
      BY <3>10, <3>11, <3>12, <3>13 DEF Carry
    <3> QED BY <3>14
  <2> QED BY <2>8, <2>9
<1>2. Nat \subseteq T
  <2> HIDE DEF T
  <2> QED BY <1>1, StrongInduction
<1> QED
  BY <1>2

-----------------------------------------------------------------------------
\* A repository that grows by commits of one revision.

Committing == grows.serial /\ grows.arrivals = {1} /\ ~grows.dups

\* The packs are those of the distribution, or a commit has come since.
Settled ==
  \/ sizes = Buckets[Sum(sizes)]
  \/ \E k \in Nat : Sum(sizes) = k + 1 /\ sizes = Append(Buckets[k], 1)

\* The packs f are in the distribution too; it has one more, for what the packs r
\* and the new revision hold.
Carries(f, r) ==
  /\ f \in Seq(Nat) /\ r \in Seq(Nat) /\ r # <<>>
  /\ Positive(f) /\ Positive(r)
  /\ sizes = f \o Append(r, 1)
  /\ Buckets[Sum(sizes)] = Append(f, Sum(r) + 1)

\* First the packs f are kept, g of them still to come.
Keeping(f, r, g) ==
  /\ pc \in {"loop", "use"} /\ chosen = <<>> /\ op = 0
  /\ g \in Seq(Nat) /\ f = kept \o g /\ left = g \o Append(r, 1)
  /\ dist = IF count = 0 THEN Append(g, Sum(r) + 1) ELSE <<count>> \o Append(g, Sum(r) + 1)

\* Then the others go into the last bucket.
Filling(f, r) ==
  /\ pc = "loop" /\ kept = f /\ dist = <<Sum(r) + 1>>
  /\ Sum(chosen) = op /\ op > 0 /\ op < Sum(r) + 1
  /\ op + Sum(left) = Sum(r) + 1

\* Together they fill it.
Complete(f, r) ==
  /\ pc \in {"loop", "execute"} /\ kept = f /\ left = <<>>
  /\ Sum(chosen) = Sum(r) + 1

CommitInv ==
  Committing =>
    /\ pc = "ready" => Settled
    /\ pc # "ready" => \E f, r, g : Carries(f, r) /\ (Keeping(f, r, g) \/ Filling(f, r) \/ Complete(f, r))

LEMMA CommitInit == Init => CommitInv
<1> SUFFICES ASSUME Init PROVE CommitInv
  OBVIOUS
<1>1. sizes = <<>> /\ pc = "ready"
  BY DEF Init
<1>2. Buckets[Sum(<<>>)] = <<>>
  BY SumEmpty, BucketsRecursion
<1> QED
  BY <1>1, <1>2 DEF CommitInv, Settled

\* The packs of the distribution are no more than allowed.
LEMMA DistributionNotDue ==
  ASSUME NEW s \in Seq(Nat), s = Buckets[Sum(s)]
  PROVE  ~(MaxPackCount(Sum(s)) < Len(s))
<1>1. PICK n \in Nat : n = Sum(s)
  BY SumNat
<1>2. Len(s) = DigitSum[n] /\ Len(s) \in Nat /\ DigitSum[n] \in Nat
  BY <1>1, BucketsFacts, DigitSumRecursion
<1>3. CASE n = 0
  <2>1. DigitSum[n] = 0 /\ MaxPackCount(n) = 1
    BY <1>3, DigitSumRecursion DEF MaxPackCount
  <2> QED BY <1>1, <1>2, <2>1
<1>4. CASE n # 0
  <2>1. MaxPackCount(n) = DigitSum[n]
    BY <1>4 DEF MaxPackCount
  <2> QED BY <1>1, <1>2, <2>1
<1> QED
  BY <1>3, <1>4

\* A commit leaves the packs of the distribution, or autopack is due and has a
\* carry to do.
LEMMA CommitCarries ==
  ASSUME sizes \in Seq(Nat), Settled
  PROVE  \/ sizes = Buckets[Sum(sizes)]
         \/ /\ \E f, r : Carries(f, r)
            /\ Sum(sizes) \in Nat /\ Sum(sizes) # 0 /\ Positive(sizes) /\ Due
<1>1. SUFFICES ASSUME sizes # Buckets[Sum(sizes)]
               PROVE  /\ \E f, r : Carries(f, r)
                      /\ Sum(sizes) \in Nat /\ Sum(sizes) # 0 /\ Positive(sizes) /\ Due
  OBVIOUS
<1>2. PICK k \in Nat : Sum(sizes) = k + 1 /\ sizes = Append(Buckets[k], 1)
  BY <1>1 DEF Settled
<1>3. PICK f, r : Carry(k, f, r)
  BY CarryExists
<1>4. f \in Seq(Nat) /\ r \in Seq(Nat) /\ Buckets[k] = f \o r /\ Buckets[k + 1] = Append(f, Sum(r) + 1)
  BY <1>3 DEF Carry
<1>5. Positive(f) /\ Positive(r)
  BY <1>4, BucketsFacts, ConcatPositive
<1>6. 1 \in Nat /\ Sum(r) \in Nat /\ Sum(r) + 1 \in Nat
  BY <1>4, SumNat
<1>7. sizes = f \o Append(r, 1)
  <2>1. Append(f \o r, 1) = f \o Append(r, 1)
    BY <1>4, <1>6, ConcatAppend
  <2> QED BY <1>2, <1>4, <2>1
<1>8. r # <<>>
  <2>1. SUFFICES ASSUME r = <<>> PROVE FALSE
    OBVIOUS
  <2>2. Sum(r) + 1 = 1 /\ f \o r = f
    BY <1>4, <2>1, SumEmpty, ConcatEmptySeq
  <2>3. Buckets[k + 1] = Append(f, 1) /\ sizes = Append(f, 1)
    BY <1>2, <1>4, <2>2
  <2> QED BY <1>1, <1>2, <2>3
<1>9. Carries(f, r)
  BY <1>2, <1>4, <1>5, <1>7, <1>8 DEF Carries
<1>10. Len(f) \in Nat /\ Len(r) \in Nat /\ Len(r) > 0
  BY <1>4, <1>8, EmptySeq
<1>11. Len(sizes) = Len(f) + (Len(r) + 1)
  <2>1. Append(r, 1) \in Seq(Nat) /\ Len(Append(r, 1)) = Len(r) + 1
    BY <1>4, <1>6, AppendFacts
  <2>2. Len(f \o Append(r, 1)) = Len(f) + Len(Append(r, 1))
    BY <1>4, <2>1, ConcatProperties
  <2> QED BY <1>7, <2>1, <2>2
<1>12. MaxPackCount(k + 1) = Len(f) + 1
  <2>1. k + 1 \in Nat /\ k + 1 # 0
    OBVIOUS
  <2>2. MaxPackCount(k + 1) = DigitSum[k + 1]
    BY <2>1 DEF MaxPackCount
  <2>3. DigitSum[k + 1] = Len(Buckets[k + 1])
    BY <2>1, BucketsFacts
  <2>4. Len(Append(f, Sum(r) + 1)) = Len(f) + 1
    BY <1>4, <1>6, AppendFacts
  <2> QED BY <1>4, <2>2, <2>3, <2>4
<1>13. Due
  BY <1>2, <1>10, <1>11, <1>12 DEF Due
<1>14. Positive(sizes)
  <2>1. Buckets[k] \in Seq(Nat) /\ Positive(Buckets[k])
    BY BucketsFacts
  <2> QED BY <1>2, <1>6, <2>1, AppendFacts
<1>15. Sum(sizes) \in Nat /\ Sum(sizes) # 0
  BY <1>2
<1> QED
  BY <1>9, <1>13, <1>14, <1>15

\* A pack no larger than any other goes last.
LEMMA WithPackLast ==
  ASSUME NEW s \in Seq(Nat), Descending(s), NEW n \in Nat, \A i \in 1..Len(s) : s[i] >= n
  PROVE  WithPack(s, n) = Append(s, n)
<1>1. PICK a \in Seq(Nat), b \in Seq(Nat) :
           /\ s = a \o b
           /\ WithPack(s, n) = (a \o <<n>>) \o b
           /\ \A i \in 1..Len(b) : b[i] < n
  BY WithPackFacts
<1>2. b = <<>>
  <2>1. SUFFICES ASSUME b # <<>> PROVE FALSE
    OBVIOUS
  <2>2. Len(a) \in Nat /\ Len(b) \in Nat /\ Len(b) > 0
    BY <2>1, EmptySeq
  <2>3. 1 \in 1..Len(b) /\ b[1] \in Nat
    BY <2>2
  <2>4. PICK k \in Nat : k = Len(a) + 1 /\ k \in 1..Len(a) + Len(b) /\ ~(k <= Len(a)) /\ k - Len(a) = 1
    <3>1. PICK la \in Nat : la = Len(a)
      BY <2>2
    <3>2. PICK lb \in Nat : lb = Len(b) /\ lb > 0
      BY <2>2
    <3>3. la + 1 \in Nat /\ la + 1 \in 1..la + lb /\ ~(la + 1 <= la) /\ (la + 1) - la = 1
      BY <3>2
    <3> QED BY <3>1, <3>2, <3>3
  <2>5. Len(s) = Len(a) + Len(b) /\ s[k] = b[1]
    BY <1>1, <2>4, ConcatProperties
  <2>6. b[1] < n /\ b[1] >= n
    BY <1>1, <2>3, <2>4, <2>5
  <2> QED BY <2>3, <2>6
<1>3. <<n>> \in Seq(Nat) /\ a \o <<n>> = Append(a, n) /\ Append(a, n) \in Seq(Nat)
  BY AppendIsConcat, AppendFacts
<1>4. a \o <<>> = a /\ Append(a, n) \o <<>> = Append(a, n)
  BY <1>3, ConcatEmptySeq
<1> QED
  BY <1>1, <1>2, <1>3, <1>4

LEMMA CommitArrive == PlanInv /\ CommitInv /\ Arrive => CommitInv'
<1> SUFFICES ASSUME PlanInv, CommitInv, Arrive, Committing' PROVE pc' = "ready" /\ Settled'
  BY DEF CommitInv
<1>1. Committing /\ pc = "ready" /\ pc' = "ready" /\ sizes \in Seq(Nat) /\ Descending(sizes)
  BY DEF Arrive, Committing, PlanInv, TypeOK
<1>2. Settled /\ ~Due
  BY <1>1 DEF CommitInv, Committing, Arrive
<1>3. sizes = Buckets[Sum(sizes)]
  BY <1>1, <1>2, CommitCarries
<1>4. PICK k \in Nat : k = Sum(sizes)
  BY <1>1, SumNat
<1>5. Positive(sizes)
  BY <1>3, <1>4, BucketsFacts
<1>6. sizes' = WithPack(sizes, 1) /\ 1 \in Nat
  BY <1>1 DEF Arrive, Committing
<1>9. sizes' = Append(sizes, 1)
  <2>1. \A i \in 1..Len(sizes) : sizes[i] >= 1
    <3>1. \A i \in 1..Len(sizes) : sizes[i] \in Nat /\ sizes[i] > 0
      BY <1>1, <1>5 DEF Positive
    <3> QED BY <3>1
  <2> QED BY <1>1, <1>6, <2>1, WithPackLast
<1>10. Sum(sizes') = k + 1
  BY <1>1, <1>4, <1>6, <1>9, SumAppend
<1>11. sizes' = Append(Buckets[k], 1)
  BY <1>3, <1>4, <1>9
<1> QED
  BY <1>1, <1>10, <1>11 DEF Settled

LEMMA CommitAutopack == PlanInv /\ CommitInv /\ Autopack => CommitInv'
<1> SUFFICES ASSUME PlanInv, CommitInv, Autopack, Committing'
             PROVE  pc' = "loop" /\ \E f, r : Carries(f, r)' /\ Keeping(f, r, f)'
  BY DEF CommitInv
<1>1. Committing /\ pc = "ready" /\ Due /\ sizes \in Seq(Nat) /\ Descending(sizes) /\ count = 0
  BY DEF Autopack, Committing, PlanInv, TypeOK
<1>2. Settled
  BY <1>1 DEF CommitInv
<1>3. ~(sizes = Buckets[Sum(sizes)])
  BY <1>1, DistributionNotDue DEF Due
<1>4. PICK f, r : Carries(f, r)
  BY <1>1, <1>2, <1>3, CommitCarries
<1>5. PICK n \in Nat : n = Sum(sizes) /\ n # 0
  BY <1>1, <1>2, <1>3, CommitCarries
<1>6. NonEmpty(sizes) = sizes
  <2>1. Positive(sizes) /\ <<>> \in Seq(Nat) /\ \A i \in 1..Len(<<>>) : <<>>[i] = 0
    BY <1>1, <1>2, <1>3, CommitCarries
  <2>2. NonEmpty(sizes \o <<>>) = sizes
    BY <1>1, <2>1, FilledIs
  <2>3. sizes \o <<>> = sizes
    BY <1>1, ConcatEmptySeq
  <2> QED BY <2>2, <2>3
<1>7. /\ PackDistribution(n) = Buckets[n] /\ MaxPackCount(n) = Len(PackDistribution(n))
      /\ MaxPackCount(n) \in Nat
  BY <1>5, DistributionFacts DEF PackDistribution
<1>8. ~AcceptsAll(NonEmpty(sizes), PackDistribution(Sum(sizes)))
  <2>1. MaxPackCount(n) < Len(sizes) /\ Len(sizes) \in Nat
    BY <1>1, <1>5 DEF Due
  <2> QED BY <1>5, <1>6, <1>7, <2>1 DEF AcceptsAll
<1>9. /\ pc' = "loop" /\ left' = sizes /\ dist' = Buckets[n]
      /\ op' = 0 /\ chosen' = <<>> /\ kept' = <<>> /\ sizes' = sizes /\ count' = 0
  BY <1>1, <1>5, <1>6, <1>7, <1>8 DEF Autopack
<1>10. Carries(f, r)'
  BY <1>4, <1>9 DEF Carries
<1>11. <<>> \o f = f /\ f \in Seq(Nat)
  BY <1>4, ConcatEmptySeq DEF Carries
<1>12. left' = f \o Append(r, 1) /\ dist' = Append(f, Sum(r) + 1)
  BY <1>4, <1>5, <1>9 DEF Carries
<1>13. Keeping(f, r, f)'
  BY <1>9, <1>11, <1>12 DEF Keeping
<1> QED
  BY <1>9, <1>10, <1>13

LEMMA ConsFacts ==
  ASSUME NEW x \in Nat, NEW s \in Seq(Nat)
  PROVE  /\ <<x>> \o s \in Seq(Nat) /\ <<x>> \o s # <<>>
         /\ Head(<<x>> \o s) = x /\ Tail(<<x>> \o s) = s
<1>1. <<x>> \in Seq(Nat) /\ Len(<<x>>) = 1 /\ <<x>>[1] = x
  OBVIOUS
<1>2. PICK c \in Seq(Nat) : /\ c = <<x>> \o s /\ Len(c) = 1 + Len(s)
                            /\ \A i \in 1..1 + Len(s) : c[i] = IF i <= 1 THEN <<x>>[i] ELSE s[i - 1]
  <2>1. /\ <<x>> \o s \in Seq(Nat) /\ Len(<<x>> \o s) = Len(<<x>>) + Len(s)
        /\ \A i \in 1..Len(<<x>>) + Len(s) : (<<x>> \o s)[i] = IF i <= Len(<<x>>) THEN <<x>>[i] ELSE s[i - Len(<<x>>)]
    BY <1>1, ConcatProperties
  <2>2. /\ Len(<<x>> \o s) = 1 + Len(s)
        /\ \A i \in 1..1 + Len(s) : (<<x>> \o s)[i] = IF i <= 1 THEN <<x>>[i] ELSE s[i - 1]
    BY <1>1, <2>1
  <2> QED BY <2>1, <2>2, Zenon
<1>3. Len(s) \in Nat
  OBVIOUS
<1>4. c # <<>>
  <2>1. SUFFICES ASSUME c = <<>> PROVE FALSE
    OBVIOUS
  <2>2. Len(c) = 0
    BY <2>1
  <2> QED BY <1>2, <1>3, <2>2
<1>5. /\ Tail(c) \in Seq(Nat) /\ Len(Tail(c)) = Len(c) - 1 /\ Head(c) = c[1]
      /\ \A i \in 1..Len(Tail(c)) : Tail(c)[i] = c[i + 1]
  BY <1>4, HeadTailProperties
<1>6. Len(Tail(c)) = Len(s)
  BY <1>2, <1>3, <1>5
<1>7. c[1] = x
  <2>1. 1 \in 1..1 + Len(s) /\ 1 <= 1
    BY <1>3
  <2> QED BY <1>1, <1>2, <2>1
<1>8. ASSUME NEW i \in 1..Len(s) PROVE Tail(c)[i] = s[i]
  <2>1. i + 1 \in 1..1 + Len(s) /\ ~(i + 1 <= 1) /\ (i + 1) - 1 = i
    BY <1>3
  <2>2. Tail(c)[i] = c[i + 1]
    BY <1>5, <1>6
  <2> QED BY <1>2, <2>1, <2>2
<1>9. Tail(c) = s
  BY <1>5, <1>6, <1>8, SeqEqual
<1> QED
  BY <1>2, <1>4, <1>5, <1>7, <1>9

LEMMA HeadOfConcat ==
  ASSUME NEW s \in Seq(Nat), s # <<>>, NEW t \in Seq(Nat)
  PROVE  /\ s \o t # <<>> /\ Head(s \o t) = Head(s) /\ Tail(s \o t) = Tail(s) \o t
<1>1. PICK x \in Nat, u \in Seq(Nat) : x = Head(s) /\ u = Tail(s) /\ s = <<x>> \o u
  BY HeadThenTail
<1>2. <<x>> \in Seq(Nat) /\ u \o t \in Seq(Nat)
  BY ConcatProperties
<1>3. (<<x>> \o u) \o t = <<x>> \o (u \o t)
  BY <1>2, ConcatAssoc
<1>4. /\ <<x>> \o (u \o t) # <<>> /\ Head(<<x>> \o (u \o t)) = x /\ Tail(<<x>> \o (u \o t)) = u \o t
  BY <1>2, ConsFacts
<1>5. s \o t = <<x>> \o (u \o t)
  BY <1>1, <1>3
<1> QED
  BY <1>1, <1>4, <1>5

\* The three ways an iteration of the outer loop can go.
LEMMA NextPackSteps ==
  ASSUME NextPack, dist # <<>>, NEW x, x = Head(left), NEW h, h = Head(dist)
  PROVE  /\ pc = "loop" /\ left # <<>> /\ left' = Tail(left) /\ UNCHANGED <<grows, sizes>>
         /\ \/ /\ x >= h /\ pc' = "use" /\ count' = x /\ kept' = Append(kept, x)
               /\ UNCHANGED <<dist, op, chosen>>
            \/ /\ ~(x >= h) /\ chosen' = Append(chosen, x) /\ op + x >= h
               /\ op' = 0 /\ dist' = Tail(dist) /\ UNCHANGED <<pc, count, kept>>
            \/ /\ ~(x >= h) /\ chosen' = Append(chosen, x) /\ ~(op + x >= h)
               /\ op' = op + x /\ UNCHANGED <<dist, pc, count, kept>>
<1>1. \/ /\ Keeps(Head(left)) /\ pc' = "use" /\ count' = Head(left) /\ kept' = Append(kept, Head(left))
         /\ UNCHANGED <<dist, op, chosen>>
      \/ /\ ~Keeps(Head(left)) /\ chosen' = Append(chosen, Head(left)) /\ op + Head(left) >= Head(dist)
         /\ op' = 0 /\ dist' = Tail(dist) /\ UNCHANGED <<pc, count, kept>>
      \/ /\ ~Keeps(Head(left)) /\ chosen' = Append(chosen, Head(left)) /\ ~(op + Head(left) >= Head(dist))
         /\ op' = op + Head(left) /\ UNCHANGED <<dist, pc, count, kept>>
  BY Zenon DEF NextPack
<1>2. Keeps(Head(left)) <=> Head(left) >= Head(dist)
  BY DEF Keeps
<1>3. pc = "loop" /\ left # <<>> /\ left' = Tail(left) /\ UNCHANGED <<grows, sizes>>
  BY DEF NextPack
<1> QED
  BY <1>1, <1>2, <1>3

LEMMA CommitNextPack == PlanInv /\ CommitInv /\ NextPack => CommitInv'
<1> SUFFICES ASSUME PlanInv, CommitInv, NextPack, Committing'
             PROVE  pc' # "ready" /\ \E f, r, g : Carries(f, r)' /\ (Keeping(f, r, g) \/ Filling(f, r) \/ Complete(f, r))'
  BY DEF CommitInv
<1>1. TypeOK /\ Planning /\ pc = "loop" /\ left # <<>> /\ count = 0
  BY DEF PlanInv, NextPack
<1>2. UNCHANGED <<grows, sizes, limit>>
  BY DEF NextPack, Raise
<1>3. Committing
  BY <1>2 DEF Committing
<1>4. PICK f, r, g : Carries(f, r) /\ (Keeping(f, r, g) \/ Filling(f, r) \/ Complete(f, r))
  BY <1>1, <1>3 DEF CommitInv
<1>5. Carries(f, r)'
  BY <1>2, <1>4 DEF Carries
<1>6. f \in Seq(Nat) /\ r \in Seq(Nat) /\ r # <<>> /\ Positive(f) /\ Positive(r)
  BY <1>4 DEF Carries
<1>7. PICK m \in Nat : m = Sum(r) + 1
  BY <1>6, SumNat
<1>8. PICK q \in Seq(Nat) : q = Append(r, 1) /\ q # <<>> /\ Sum(q) = m
  BY <1>6, <1>7, AppendFacts
<1>9. /\ left \in Seq(Nat) /\ dist \in Seq(Nat) /\ kept \in Seq(Nat) /\ chosen \in Seq(Nat)
      /\ op \in Nat /\ Positive(left)
  BY <1>1 DEF TypeOK, Planning
<1>10. PICK x \in Nat, t \in Seq(Nat) :
         x = Head(left) /\ t = Tail(left) /\ x > 0 /\ Sum(left) = x + Sum(t) /\ Positive(t) /\ Sum(t) \in Nat
  BY <1>1, <1>9, TailFacts
<1>a. x > 0 /\ Sum(left) = x + Sum(t) /\ Sum(t) \in Nat
  BY <1>10
<1>11. CASE Keeping(f, r, g) /\ g # <<>>
  <2>1. /\ g \in Seq(Nat) /\ f = kept \o g /\ left = g \o q /\ dist = Append(g, m) /\ chosen = <<>> /\ op = 0
    BY <1>1, <1>7, <1>8, <1>11 DEF Keeping
  <2>2. Head(left) = Head(g) /\ Tail(left) = Tail(g) \o q
    BY <1>8, <1>11, <2>1, HeadOfConcat
  <2>3. Append(g, m) # <<>> /\ Head(Append(g, m)) = Head(g)
    BY <1>11, <2>1, HeadTailAppend, AppendFacts
  <2>4. PICK u \in Seq(Nat) : u = Tail(g) /\ g = <<x>> \o u /\ x = Head(g)
    BY <1>10, <1>11, <2>1, <2>2, HeadThenTail
  <2>5. dist # <<>> /\ Head(dist) = x
    BY <2>1, <2>3, <2>4
  <2>6. x >= x
    OBVIOUS
  <2>7. /\ pc' = "use" /\ count' = x /\ kept' = Append(kept, x) /\ left' = Tail(left)
        /\ UNCHANGED <<dist, op, chosen>>
    BY <1>10, <2>5, <2>6, NextPackSteps
  <2>8. f = Append(kept, x) \o u
    <3>1. Append(kept, x) \o u = kept \o (<<x>> \o u)
      BY <1>9, AppendConcat, ZenonT(30)
    <3> QED BY <2>1, <2>4, <3>1
  <2>9. dist = <<x>> \o Append(u, m)
    <3>1. <<x>> \in Seq(Nat)
      OBVIOUS
    <3>2. Append(<<x>> \o u, m) = <<x>> \o Append(u, m)
      BY <3>1, ConcatAppend
    <3> QED BY <2>1, <2>4, <3>2
  <2>10. left' = u \o Append(r, 1)
    BY <1>8, <2>2, <2>4, <2>7
  <2>11. count' # 0
    BY <1>10, <2>7
  <2>12. Keeping(f, r, u)'
    BY <1>7, <2>1, <2>7, <2>8, <2>9, <2>10, <2>11 DEF Keeping
  <2> QED BY <1>5, <2>7, <2>12
<1>12. CASE Keeping(f, r, g) /\ g = <<>>
  <2>1. /\ f = kept \o <<>> /\ left = <<>> \o q /\ dist = Append(<<>>, m) /\ chosen = <<>> /\ op = 0
    BY <1>1, <1>7, <1>8, <1>12 DEF Keeping
  <2>2. f = kept /\ left = q
    BY <1>8, <1>9, <2>1, ConcatEmptySeq
  <2>3. Append(<<>>, m) = <<m>> /\ <<m>> # <<>> /\ Head(<<m>>) = m
    OBVIOUS
  <2>4. dist = <<m>> /\ dist # <<>> /\ Head(dist) = m
    BY <2>1, <2>3
  <2>5. x = Head(r)
    BY <1>6, <1>8, <1>10, <2>2, HeadTailAppend
  <2>6. x < m
    <3>1. Sum(r) = Head(r) + Sum(Tail(r)) /\ Sum(Tail(r)) \in Nat
      BY <1>6, TailFacts
    <3> QED BY <1>7, <2>5, <3>1
  <2>7. /\ chosen' = Append(chosen, x) /\ op' = op + x /\ left' = Tail(left)
        /\ UNCHANGED <<dist, pc, count, kept>>
    BY <1>10, <2>1, <2>4, <2>6, NextPackSteps
  <2>8. Sum(chosen') = x
    <3>1. Sum(Append(chosen, x)) = Sum(chosen) + x
      BY <1>9, SumAppend
    <3>2. Sum(chosen) = 0
      BY <2>1, SumEmpty
    <3> QED BY <2>7, <3>1, <3>2
  <2>9. op' = x
    BY <2>1, <2>7
  <2>10. op' + Sum(left') = m
    BY <1>8, <1>10, <2>2, <2>7, <2>9
  <2>11. Filling(f, r)'
    BY <1>1, <1>7, <1>10, <2>2, <2>4, <2>6, <2>7, <2>8, <2>9, <2>10 DEF Filling
  <2> QED BY <1>1, <1>5, <2>7, <2>11
<1>13. CASE Filling(f, r)
  <2>1. kept = f /\ dist = <<m>> /\ Sum(chosen) = op /\ op > 0 /\ op < m /\ op + Sum(left) = m
    BY <1>7, <1>13 DEF Filling
  <2>2. <<m>> # <<>> /\ Head(<<m>>) = m /\ Tail(<<m>>) = <<>>
    OBVIOUS
  <2>3. dist # <<>> /\ Head(dist) = m
    BY <2>1, <2>2
  <2>4. x < m
    <3>1. 1 \in 1..Len(left) /\ x = left[1]
      BY <1>1, <1>9, <1>10, HeadThenTail
    <3> QED BY <1>1, <2>1, <2>3, <3>1 DEF Planning
  <2>5. Sum(Append(chosen, x)) = op + x
    BY <1>9, <2>1, SumAppend
  <2>6. op + x + Sum(t) = m
    BY <1>9, <1>10, <2>1
  <2>7. CASE op + x >= m
    <3>1. chosen' = Append(chosen, x) /\ left' = t /\ UNCHANGED <<pc, kept>>
      BY <1>10, <2>3, <2>4, <2>7, NextPackSteps, SMTT(30)
    <3>2. Sum(t) = 0 /\ op + x = m
      BY <1>9, <1>a, <2>6, <2>7
    <3>3. t = <<>>
      <4>1. Positive(t) /\ ~(Sum(t) > 0)
        BY <1>10, <3>2
      <4> QED BY <4>1, SumPositive
    <3>4. Complete(f, r)'
      BY <1>1, <1>7, <2>1, <2>5, <3>1, <3>2, <3>3 DEF Complete
    <3> QED BY <1>1, <1>5, <3>1, <3>4
  <2>8. CASE ~(op + x >= m)
    <3>1. chosen' = Append(chosen, x) /\ left' = t /\ op' = op + x /\ UNCHANGED <<dist, pc, count, kept>>
      BY <1>10, <2>3, <2>4, <2>8, NextPackSteps, SMTT(30)
    <3>2. op' > 0 /\ op' < m /\ op' + Sum(t) = m
      BY <1>9, <1>a, <2>6, <2>8, <3>1
    <3>3. Filling(f, r)'
      BY <1>1, <1>7, <2>1, <2>5, <3>1, <3>2 DEF Filling
    <3> QED BY <1>1, <1>5, <3>1, <3>3
  <2> QED BY <2>7, <2>8
<1>14. CASE Complete(f, r)
  BY <1>1, <1>14 DEF Complete
<1> QED
  BY <1>4, <1>11, <1>12, <1>13, <1>14

LEMMA CommitUseBucket == PlanInv /\ CommitInv /\ UseBucket => CommitInv'
<1> SUFFICES ASSUME PlanInv, CommitInv, UseBucket, Committing'
             PROVE  pc' # "ready" /\ \E f, r, g : Carries(f, r)' /\ Keeping(f, r, g)'
  BY DEF CommitInv
<1>1. pc = "use" /\ count \in Nat /\ count > 0 /\ UNCHANGED <<grows, sizes>>
  BY DEF UseBucket, PlanInv, TypeOK, Raise
<1>2. Committing
  BY <1>1 DEF Committing
<1>3. PICK f, r, g : Carries(f, r) /\ Keeping(f, r, g)
  BY <1>1, <1>2 DEF CommitInv, Filling, Complete
<1>4. Carries(f, r)'
  BY <1>1, <1>3 DEF Carries
<1>5. f \in Seq(Nat) /\ r \in Seq(Nat) /\ g \in Seq(Nat)
  BY <1>3 DEF Carries, Keeping
<1>6. PICK m \in Nat : m = Sum(r) + 1
  BY <1>5, SumNat
<1>7. PICK a \in Seq(Nat) : a = Append(g, m)
  BY <1>5, AppendFacts
<1>8. dist = <<count>> \o a
  <2>1. dist = IF count = 0 THEN Append(g, Sum(r) + 1) ELSE <<count>> \o Append(g, Sum(r) + 1)
    BY <1>3 DEF Keeping
  <2>2. count # 0
    BY <1>1
  <2> QED BY <1>6, <1>7, <2>1, <2>2
<1>9. dist # <<>> /\ Head(dist) = count /\ Tail(dist) = a
  BY <1>1, <1>8, ConsFacts
<1>10. count >= Head(dist) /\ count - Head(dist) = 0
  BY <1>1, <1>9
<1>11. dist' = a /\ count' = 0 /\ UNCHANGED <<pc, left, op, chosen, kept>>
  BY <1>9, <1>10 DEF UseBucket, UsesBucket, Remainder
<1>12. Keeping(f, r, g)'
  BY <1>3, <1>6, <1>7, <1>11 DEF Keeping
<1> QED
  BY <1>1, <1>4, <1>11, <1>12

LEMMA CommitUsed == PlanInv /\ CommitInv /\ Used => CommitInv'
<1> SUFFICES ASSUME PlanInv, CommitInv, Used, Committing'
             PROVE  pc' # "ready" /\ \E f, r, g : Carries(f, r)' /\ Keeping(f, r, g)'
  BY DEF CommitInv
<1>1. pc = "use" /\ pc' = "loop" /\ UNCHANGED <<grows, sizes, left, dist, count, op, chosen, kept>>
  BY DEF Used
<1>2. Committing
  BY <1>1 DEF Committing
<1>3. PICK f, r, g : Carries(f, r) /\ Keeping(f, r, g)
  BY <1>1, <1>2 DEF CommitInv, Filling, Complete
<1>4. Carries(f, r)'
  BY <1>1, <1>3 DEF Carries
<1>5. Keeping(f, r, g)'
  BY <1>1, <1>3 DEF Keeping
<1> QED
  BY <1>1, <1>4, <1>5

LEMMA CommitPlanEnds == PlanInv /\ CommitInv /\ PlanEnds => CommitInv'
<1> SUFFICES ASSUME PlanInv, CommitInv, PlanEnds, Committing'
             PROVE  pc' # "ready" /\ \E f, r : Carries(f, r)' /\ Complete(f, r)'
  BY DEF CommitInv
<1>1. pc = "loop" /\ left = <<>> /\ UNCHANGED <<grows, sizes, left, dist, count, op, chosen, kept>>
  BY DEF PlanEnds, Raise
<1>2. Committing
  BY <1>1 DEF Committing
<1>3. Len(chosen) # 1
  <2>1. Len(chosen) > 1
    BY <1>1, PlanCombines
  <2>2. PICK n \in Nat : n = Len(chosen)
    BY DEF PlanInv, TypeOK
  <2> QED BY <2>1, <2>2
<1>4. pc' = "execute"
  BY <1>3 DEF PlanEnds
<1>5. PICK f, r, g : Carries(f, r) /\ (Keeping(f, r, g) \/ Filling(f, r) \/ Complete(f, r))
  BY <1>1, <1>2 DEF CommitInv
<1>6. Carries(f, r)'
  BY <1>1, <1>5 DEF Carries
<1>7. ~Keeping(f, r, g)
  <2>1. SUFFICES ASSUME Keeping(f, r, g) PROVE FALSE
    OBVIOUS
  <2>2. PICK q \in Seq(Nat) : q = Append(r, 1) /\ q # <<>>
    BY <1>5, AppendFacts DEF Carries
  <2>3. g \in Seq(Nat) /\ g \o q = <<>>
    BY <1>1, <2>1, <2>2 DEF Keeping
  <2> QED BY <2>2, <2>3, ConcatEqualIffEmpty
<1>8. ~Filling(f, r)
  <2>1. SUFFICES ASSUME Filling(f, r) PROVE FALSE
    OBVIOUS
  <2>2. op \in Nat /\ Sum(left) = 0
    BY <1>1, SumEmpty DEF PlanInv, TypeOK
  <2>3. PICK m \in Nat : m = Sum(r) + 1
    BY <1>5, SumNat DEF Carries
  <2> QED BY <2>1, <2>2, <2>3 DEF Filling
<1>9. Complete(f, r)'
  BY <1>1, <1>4, <1>5, <1>7, <1>8 DEF Complete
<1> QED
  BY <1>4, <1>6, <1>9

LEMMA CommitExecute == PlanInv /\ CommitInv /\ Execute => CommitInv'
<1> SUFFICES ASSUME PlanInv, CommitInv, Execute, Committing' PROVE pc' = "ready" /\ Settled'
  BY DEF CommitInv
<1>1. pc = "execute" /\ pc' = "ready" /\ UNCHANGED grows /\ sizes \in Seq(Nat)
  BY DEF Execute, PlanInv, TypeOK
<1>2. Committing
  BY <1>1 DEF Committing
<1>3. PICK f, r : Carries(f, r) /\ Complete(f, r)
  BY <1>1, <1>2 DEF CommitInv, Keeping, Filling
<1>4. PICK n \in Nat : n = Sum(sizes)
  BY <1>1, SumNat
<1>5. PICK m \in Nat : m = Sum(r) + 1
  BY <1>3, SumNat DEF Carries
<1>6. f \in Seq(Nat) /\ r \in Seq(Nat) /\ Positive(f) /\ Positive(r) /\ kept = f /\ Sum(chosen) = m
      /\ sizes = f \o Append(r, 1) /\ Buckets[n] = Append(f, m)
  BY <1>3, <1>4, <1>5 DEF Carries, Complete
<1>7. sizes' = WithPack(f, m) \o WithoutRevisions(sizes) /\ WithPack(f, m) \in Seq(Nat)
  <2>1. PICK merged \in Nat :
           /\ (~grows.dups => merged = Sum(chosen))
           /\ WithPack(kept, merged) \in Seq(Nat)
           /\ sizes' = WithPack(kept, merged) \o WithoutRevisions(sizes)
    BY ExecuteReplaces
  <2>2. merged = m
    BY <1>2, <1>6, <2>1 DEF Committing
  <2> QED BY <1>6, <2>1, <2>2
<1>8. WithoutRevisions(sizes) = <<>>
  <2>1. Append(r, 1) \in Seq(Nat) /\ Positive(Append(r, 1))
    BY <1>6, AppendFacts
  <2>2. Positive(sizes)
    BY <1>6, <2>1, ConcatPositive
  <2>3. <<>> \in Seq(Nat) /\ \A i \in 1..Len(<<>>) : <<>>[i] = 0
    OBVIOUS
  <2>4. WithoutRevisions(sizes \o <<>>) = <<>>
    BY <1>1, <2>2, <2>3, FilledIs
  <2>5. sizes \o <<>> = sizes
    BY <1>1, ConcatEmptySeq
  <2> QED BY <2>4, <2>5
<1>9. WithPack(f, m) = Append(f, m)
  <2>1. Append(f, m) = f \o <<m>> /\ <<m>> \in Seq(Nat) /\ Len(<<m>>) = 1 /\ <<m>>[1] = m
    BY <1>6, AppendIsConcat
  <2>2. Descending(f \o <<m>>)
    BY <1>6, <2>1, BucketsFacts
  <2>3. Descending(f) /\ AtLeast(f, <<m>>)
    BY <1>6, <2>1, <2>2, ConcatDescending
  <2>4. \A i \in 1..Len(f) : f[i] >= m
    BY <2>1, <2>3 DEF AtLeast
  <2> QED BY <1>6, <2>3, <2>4, WithPackLast
<1>10. sizes' = Buckets[n]
  <2>1. Append(f, m) \in Seq(Nat) /\ Append(f, m) \o <<>> = Append(f, m)
    BY <1>6, AppendFacts, ConcatEmptySeq
  <2> QED BY <1>6, <1>7, <1>8, <1>9, <2>1
<1>11. Sum(sizes') = n
  BY <1>10, BucketsFacts
<1>12. sizes' = Buckets[Sum(sizes')]
  BY <1>10, <1>11
<1> QED
  BY <1>1, <1>12 DEF Settled

LEMMA CommitNext == PlanInv /\ CommitInv /\ [Next]_vars => CommitInv'
<1> SUFFICES ASSUME PlanInv, CommitInv, [Next]_vars PROVE CommitInv'
  OBVIOUS
<1>1. CASE UNCHANGED vars
  <2>1. UNCHANGED <<grows, sizes, pc, left, dist, count, op, chosen, kept>>
    BY <1>1 DEF vars
  <2>2. Committing' = Committing /\ Settled' = Settled
    BY <2>1 DEF Committing, Settled
  <2>3. ASSUME NEW f, NEW r, NEW g
        PROVE  /\ Carries(f, r)' = Carries(f, r) /\ Keeping(f, r, g)' = Keeping(f, r, g)
               /\ Filling(f, r)' = Filling(f, r) /\ Complete(f, r)' = Complete(f, r)
    BY <2>1 DEF Carries, Keeping, Filling, Complete
  <2>4. (pc # "ready" => \E f, r, g : Carries(f, r) /\ (Keeping(f, r, g) \/ Filling(f, r) \/ Complete(f, r)))
        => (pc # "ready" => \E f, r, g : Carries(f, r) /\ (Keeping(f, r, g) \/ Filling(f, r) \/ Complete(f, r)))'
    BY <2>1, <2>3
  <2> QED BY <2>1, <2>2, <2>4 DEF CommitInv
<1>2. CASE Next
  BY <1>2, CommitArrive, CommitAutopack, CommitNextPack, CommitUseBucket, CommitUsed, CommitPlanEnds, CommitExecute
  DEF Next, Loop
<1> QED
  BY <1>1, <1>2

\* However long a repository grows by commits of one revision, with an autopack
\* after each that makes one due, its packs are exactly pack_distribution's: a
\* commit that carries combines just the packs of the digits that turn to zero.
THEOREM CommitsGiveDistribution == Spec => []LayoutIsDistribution
<1>1. Spec => []CommitInv
  BY CommitInit, CommitNext, PlanInvariant, PTL DEF Spec
<1>2. PlanInv /\ CommitInv => LayoutIsDistribution
  <2>1. SUFFICES ASSUME PlanInv, CommitInv, Committing, pc = "ready", ~Due, sizes # <<>>
                 PROVE  sizes = PackDistribution(Sum(sizes))
    BY DEF LayoutIsDistribution, Committing
  <2>2. sizes \in Seq(Nat) /\ Settled
    BY <2>1 DEF PlanInv, TypeOK, CommitInv
  <2>3. sizes = Buckets[Sum(sizes)]
    BY <2>1, <2>2, CommitCarries
  <2>4. Sum(sizes) # 0
    BY <2>1, <2>3, BucketsRecursion
  <2> QED BY <2>3, <2>4 DEF PackDistribution
<1> QED
  BY <1>1, <1>2, PlanInvariant, PTL
=============================================================================

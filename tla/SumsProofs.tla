------------------------------ MODULE SumsProofs ------------------------------
(***************************************************************************)
(* Induction on natural numbers, as a fact about sets of numbers that the  *)
(* provers can use, and the laws of the sums of module Sums.               *)
(***************************************************************************)
EXTENDS Sums, FiniteSetTheorems, WellFoundedInduction, TLAPS

\* A set of numbers that is not empty has a least one.
LEMMA LeastNatural ==
    ASSUME NEW S, S \subseteq Nat, S # {}
    PROVE  \E x \in S : \A y \in S : x <= y
<1>1. PICK x \in S : \A y \in S : ~(<<y, x>> \in OpToRel(<, Nat))
  BY NatLessThanWellFounded, WFMin
<1>2. ASSUME NEW y \in S PROVE x <= y
  <2>1. ~(y < x)
    BY <1>1 DEF OpToRel
  <2> QED BY <2>1
<1> QED BY <1>2

\* Induction up to n, for the numbers with some property.
LEMMA UpTo ==
    ASSUME NEW n \in Nat, NEW S, 0 \in S,
           \A i \in 0 .. n - 1 : i \in S => i + 1 \in S
    PROVE  \A i \in 0 .. n : i \in S
<1> DEFINE T == (0 .. n) \ S
<1>1. SUFFICES ASSUME T # {} PROVE FALSE
  OBVIOUS
<1>2. T \subseteq Nat
  OBVIOUS
<1>3. PICK x \in T : \A y \in T : x <= y
  <2> HIDE DEF T
  <2> QED BY <1>1, <1>2, LeastNatural
<1>4. x # 0 /\ x - 1 \in 0 .. n - 1
  BY <1>3
<1>5. x - 1 \in S
  BY <1>3, <1>4
<1> QED BY <1>3, <1>4, <1>5

-----------------------------------------------------------------------------
\* s is the sums of f up to k, one after the other.
IsSum(s, f, k) == s = [i \in 0 .. k |-> IF i = 0 THEN 0 ELSE s[i - 1] + f[i]]

\* There is one such function, whatever f is.
LEMMA SumExists ==
    ASSUME NEW f, NEW k \in Nat
    PROVE  \E s : IsSum(s, f, k)
<1> DEFINE S == {i \in Nat : \E s : IsSum(s, f, i)}
<1>1. 0 \in S
  <2>1. IsSum([i \in 0 .. 0 |-> 0], f, 0)
    BY DEF IsSum
  <2> QED BY <2>1
<1>2. ASSUME NEW i \in Nat, i \in S PROVE i + 1 \in S
  <2>1. PICK s : IsSum(s, f, i)
    BY <1>2
  <2> DEFINE next == [j \in 0 .. i + 1 |-> IF j <= i THEN s[j] ELSE s[i] + f[i + 1]]
  <2>2. \A j \in 0 .. i + 1 : next[j] = IF j = 0 THEN 0 ELSE next[j - 1] + f[j]
    <3> SUFFICES ASSUME NEW j \in 0 .. i + 1
                 PROVE  next[j] = IF j = 0 THEN 0 ELSE next[j - 1] + f[j]
      OBVIOUS
    <3>1. CASE j = i + 1
      BY <3>1
    <3>2. CASE j <= i
      BY <3>2, <2>1 DEF IsSum
    <3> QED BY <3>1, <3>2
  <2>3. next = [j \in 0 .. i + 1 |-> next[j]]
    OBVIOUS
  <2>4. IsSum(next, f, i + 1)
    <3> HIDE DEF next
    <3> QED BY <2>2, <2>3 DEF IsSum
  <2> QED BY <2>4
<1>3. \A i \in 0 .. k - 1 : i \in S => i + 1 \in S
  <2> HIDE DEF S
  <2> QED BY <1>2
<1>4. k \in S
  <2> HIDE DEF S
  <2>1. \A i \in 0 .. k : i \in S
    BY <1>1, <1>3, UpTo
  <2> QED BY <2>1
<1> QED BY <1>4

\* SumTo is the last of the sums.
LEMMA SumIs ==
    ASSUME NEW f, NEW k \in Nat
    PROVE  \E s : IsSum(s, f, k) /\ SumTo(f, k) = s[k]
<1> DEFINE s == CHOOSE x : IsSum(x, f, k)
<1>1. IsSum(s, f, k)
  BY SumExists
<1>2. SumTo(f, k) = s[k]
  BY DEF SumTo, IsSum
<1> QED BY <1>1, <1>2

\* Sums of what f and g agree on are equal, also when they are parts of longer
\* ones.
LEMMA SumsAgree ==
    ASSUME NEW f, NEW g, NEW s, NEW t, NEW k \in Nat, NEW n \in Nat, NEW m \in Nat,
           k <= n, k <= m, IsSum(s, f, n), IsSum(t, g, m),
           \A i \in 1 .. k : f[i] = g[i]
    PROVE  s[k] = t[k]
<1> DEFINE S == {i \in Nat : i <= k => s[i] = t[i]}
<1>1. 0 \in S
  BY DEF IsSum
<1>2. ASSUME NEW i \in 0 .. k - 1, i \in S PROVE i + 1 \in S
  <2>1. s[i] = t[i] /\ f[i + 1] = g[i + 1]
    BY <1>2
  <2>2. s[i + 1] = s[i] + f[i + 1]
    <3>1. i + 1 \in 0 .. n /\ i + 1 # 0 /\ (i + 1) - 1 = i
      OBVIOUS
    <3> QED BY <3>1 DEF IsSum
  <2>3. t[i + 1] = t[i] + g[i + 1]
    <3>1. i + 1 \in 0 .. m /\ i + 1 # 0 /\ (i + 1) - 1 = i
      OBVIOUS
    <3> QED BY <3>1 DEF IsSum
  <2> QED BY <2>1, <2>2, <2>3
<1>3. k \in S
  <2> HIDE DEF S
  <2>1. \A i \in 0 .. k : i \in S
    BY <1>1, <1>2, UpTo
  <2> QED BY <2>1
<1> QED BY <1>3

LEMMA SumOfNone == ASSUME NEW f PROVE SumTo(f, 0) = 0
<1>1. PICK s : IsSum(s, f, 0) /\ SumTo(f, 0) = s[0]
  BY SumIs
<1> QED BY <1>1 DEF IsSum

LEMMA SumNext ==
    ASSUME NEW f, NEW k \in Nat
    PROVE  SumTo(f, k + 1) = SumTo(f, k) + f[k + 1]
<1>1. PICK s : IsSum(s, f, k + 1) /\ SumTo(f, k + 1) = s[k + 1]
  BY SumIs
<1>2. PICK t : IsSum(t, f, k) /\ SumTo(f, k) = t[k]
  BY SumIs
<1>3. s[k] = t[k]
  BY <1>1, <1>2, SumsAgree
<1>4. s[k + 1] = s[k] + f[k + 1]
  <2>1. k + 1 \in 0 .. k + 1 /\ k + 1 # 0 /\ (k + 1) - 1 = k
    OBVIOUS
  <2> QED BY <2>1, <1>1 DEF IsSum
<1> QED BY <1>1, <1>2, <1>3, <1>4

LEMMA SumSame ==
    ASSUME NEW f, NEW g, NEW k \in Nat, \A i \in 1 .. k : f[i] = g[i]
    PROVE  SumTo(f, k) = SumTo(g, k)
<1> DEFINE S == {i \in Nat : i <= k => SumTo(f, i) = SumTo(g, i)}
<1>1. 0 \in S
  BY SumOfNone
<1>2. ASSUME NEW i \in 0 .. k - 1, i \in S PROVE i + 1 \in S
  <2>1. SumTo(f, i) = SumTo(g, i) /\ f[i + 1] = g[i + 1]
    BY <1>2
  <2>2. /\ SumTo(f, i + 1) = SumTo(f, i) + f[i + 1]
        /\ SumTo(g, i + 1) = SumTo(g, i) + g[i + 1]
    BY SumNext
  <2> QED BY <2>1, <2>2
<1> HIDE DEF S
<1>3. \A i \in 0 .. k : i \in S
  BY <1>1, <1>2, UpTo
<1>4. k \in S
  BY <1>3
<1> QED BY <1>4 DEF S

\* g goes on where f ends.
LEMMA SumMore ==
    ASSUME NEW f, NEW g, NEW k \in Nat, \A i \in 1 .. k : g[i] = f[i]
    PROVE  SumTo(g, k + 1) = SumTo(f, k) + g[k + 1]
<1>1. SumTo(g, k) = SumTo(f, k)
  BY SumSame
<1>2. SumTo(g, k + 1) = SumTo(g, k) + g[k + 1]
  BY SumNext
<1> QED BY <1>1, <1>2

LEMMA SumInt ==
    ASSUME NEW f, NEW k \in Nat, \A i \in 1 .. k : f[i] \in Int
    PROVE  SumTo(f, k) \in Int
<1> DEFINE S == {i \in Nat : i <= k => SumTo(f, i) \in Int}
<1>1. 0 \in S
  BY SumOfNone
<1>2. ASSUME NEW i \in 0 .. k - 1, i \in S PROVE i + 1 \in S
  <2>1. SumTo(f, i) \in Int /\ f[i + 1] \in Int
    BY <1>2
  <2>2. SumTo(f, i + 1) = SumTo(f, i) + f[i + 1]
    BY SumNext
  <2> QED BY <2>1, <2>2
<1> HIDE DEF S
<1>3. \A i \in 0 .. k : i \in S
  BY <1>1, <1>2, UpTo
<1> QED BY <1>3 DEF S

\* No sum of what is not negative is less than a part of it.
LEMMA SumNat ==
    ASSUME NEW f, NEW k \in Nat, \A i \in 1 .. k : f[i] \in Nat
    PROVE  SumTo(f, k) \in Nat
<1> DEFINE S == {i \in Nat : i <= k => SumTo(f, i) \in Nat}
<1>1. 0 \in S
  BY SumOfNone
<1>2. ASSUME NEW i \in 0 .. k - 1, i \in S PROVE i + 1 \in S
  <2>1. SumTo(f, i) \in Nat /\ f[i + 1] \in Nat
    BY <1>2
  <2>2. SumTo(f, i + 1) = SumTo(f, i) + f[i + 1]
    BY SumNext
  <2> QED BY <2>1, <2>2
<1> HIDE DEF S
<1>3. \A i \in 0 .. k : i \in S
  BY <1>1, <1>2, UpTo
<1> QED BY <1>3 DEF S

LEMMA SumZero ==
    ASSUME NEW f, NEW k \in Nat, \A i \in 1 .. k : f[i] = 0
    PROVE  SumTo(f, k) = 0
<1> DEFINE S == {i \in Nat : i <= k => SumTo(f, i) = 0}
<1>1. 0 \in S
  BY SumOfNone
<1>2. ASSUME NEW i \in 0 .. k - 1, i \in S PROVE i + 1 \in S
  <2>1. SumTo(f, i) = 0 /\ f[i + 1] = 0
    BY <1>2
  <2>2. SumTo(f, i + 1) = SumTo(f, i) + f[i + 1]
    BY SumNext
  <2> QED BY <2>1, <2>2
<1> HIDE DEF S
<1>3. \A i \in 0 .. k : i \in S
  BY <1>1, <1>2, UpTo
<1> QED BY <1>3 DEF S

\* One summand that grows by x.
LEMMA SumChange ==
    ASSUME NEW f, NEW g, NEW k \in Nat, NEW j \in 1 .. k, NEW x \in Int,
           \A i \in 1 .. k : f[i] \in Int,
           \A i \in 1 .. k : g[i] = IF i = j THEN f[i] + x ELSE f[i]
    PROVE  SumTo(g, k) = SumTo(f, k) + x
<1> DEFINE S == {i \in Nat : i <= k =>
                    SumTo(g, i) = SumTo(f, i) + (IF i < j THEN 0 ELSE x)}
<1>1. 0 \in S
  BY SumOfNone
<1>2. ASSUME NEW i \in 0 .. k - 1, i \in S PROVE i + 1 \in S
  <2>1. SumTo(g, i) = SumTo(f, i) + (IF i < j THEN 0 ELSE x)
    BY <1>2
  <2>2. SumTo(f, i) \in Int
    <3>1. \A l \in 1 .. i : f[l] \in Int
      OBVIOUS
    <3> QED BY <3>1, SumInt
  <2>3. /\ SumTo(f, i + 1) = SumTo(f, i) + f[i + 1]
        /\ SumTo(g, i + 1) = SumTo(g, i) + g[i + 1]
    BY SumNext
  <2>4. f[i + 1] \in Int /\ g[i + 1] = IF i + 1 = j THEN f[i + 1] + x ELSE f[i + 1]
    OBVIOUS
  <2> QED BY <2>1, <2>2, <2>3, <2>4
<1> HIDE DEF S
<1>3. \A i \in 0 .. k : i \in S
  BY <1>1, <1>2, UpTo
<1>4. k \in S
  BY <1>3
<1> QED BY <1>4 DEF S

-----------------------------------------------------------------------------
\* The order in which a finite set is summed up has every element once.
LEMMA OrderOfSet ==
    ASSUME NEW S, IsFiniteSet(S)
    PROVE  /\ Cardinality(S) \in Nat
           /\ SetToSeq(S) \in [1 .. Cardinality(S) -> S]
           /\ \A i, j \in 1 .. Cardinality(S) : SetToSeq(S)[i] = SetToSeq(S)[j] => i = j
           /\ \A x \in S : \E i \in 1 .. Cardinality(S) : SetToSeq(S)[i] = x
<1> DEFINE N == Cardinality(S)
<1>1. N \in Nat
  BY FS_CardinalityType
<1>2. IsFiniteSet(1 .. N) /\ Cardinality(1 .. N) = N
  <2>1. 1 \in Int /\ N \in Int /\ (IF 1 > N THEN 0 ELSE N - 1 + 1) = N
    BY <1>1
  <2> HIDE DEF N
  <2> QED BY <2>1, FS_Interval
<1>3. \E e \in [1 .. N -> S] : IsInjective(e)
  <2>1. ExistsBijection(1 .. N, S)
    BY <1>2, FS_SameCardinalityBij
  <2> QED BY <2>1 DEF ExistsBijection, Bijection, Injection
<1>4. SetToSeq(S) \in [1 .. N -> S] /\ IsInjective(SetToSeq(S))
  BY <1>3 DEF SetToSeq
<1>5. SetToSeq(S) \in Injection(1 .. N, S)
  BY <1>4 DEF Injection
<1>6. SetToSeq(S) \in Surjection(1 .. N, S)
  <2> HIDE DEF N
  <2> QED BY <1>2, <1>5, FS_Injection DEF N
<1> QED BY <1>1, <1>4, <1>6 DEF IsInjective, Surjection

LEMMA SumOverZero ==
    ASSUME NEW S, IsFiniteSet(S), NEW f, \A x \in S : f[x] = 0
    PROVE  SumOver(S, f) = 0
<1> DEFINE N == Cardinality(S)
           g == [i \in 1 .. N |-> f[SetToSeq(S)[i]]]
<1>1. N \in Nat /\ \A i \in 1 .. N : g[i] = 0
  BY OrderOfSet
<1>2. SumTo(g, N) = 0
  <2> HIDE DEF g, N
  <2> QED BY <1>1, SumZero
<1> QED BY <1>2 DEF SumOver

LEMMA SumOverInt ==
    ASSUME NEW S, IsFiniteSet(S), NEW f \in [S -> Int]
    PROVE  SumOver(S, f) \in Int
<1> DEFINE N == Cardinality(S)
           g == [i \in 1 .. N |-> f[SetToSeq(S)[i]]]
<1>1. N \in Nat /\ \A i \in 1 .. N : g[i] \in Int
  BY OrderOfSet
<1>2. SumTo(g, N) \in Int
  <2> HIDE DEF g, N
  <2> QED BY <1>1, SumInt
<1> QED BY <1>2 DEF SumOver

\* A change at one place changes the sum by as much.
LEMMA SumOverChange ==
    ASSUME NEW S, IsFiniteSet(S), NEW f \in [S -> Int], NEW g \in [S -> Int],
           NEW a \in S, NEW x \in Int,
           \A c \in S : g[c] = IF c = a THEN f[a] + x ELSE f[c]
    PROVE  SumOver(S, g) = SumOver(S, f) + x
<1> DEFINE N == Cardinality(S)
           F(h) == [i \in 1 .. N |-> h[SetToSeq(S)[i]]]
<1>1. N \in Nat
  BY OrderOfSet
<1>2. PICK j \in 1 .. N : SetToSeq(S)[j] = a
  BY OrderOfSet
<1>3. \A i \in 1 .. N : F(f)[i] \in Int
  BY OrderOfSet
<1>4. \A i \in 1 .. N : F(g)[i] = IF i = j THEN F(f)[i] + x ELSE F(f)[i]
  <2>1. ASSUME NEW i \in 1 .. N
        PROVE  F(g)[i] = IF i = j THEN F(f)[i] + x ELSE F(f)[i]
    <3>1. SetToSeq(S)[i] \in S /\ (SetToSeq(S)[i] = a <=> i = j)
      BY <1>2, OrderOfSet
    <3> QED BY <3>1
  <2> QED BY <2>1
<1>5. SumTo(F(g), N) = SumTo(F(f), N) + x
  <2> HIDE DEF F, N
  <2> QED BY <1>1, <1>3, <1>4, SumChange
<1> QED BY <1>5 DEF SumOver

LEMMA SumOverNat ==
    ASSUME NEW S, IsFiniteSet(S), NEW f \in [S -> Nat]
    PROVE  SumOver(S, f) \in Nat
<1> DEFINE N == Cardinality(S)
           g == [i \in 1 .. N |-> f[SetToSeq(S)[i]]]
<1>1. N \in Nat /\ \A i \in 1 .. N : g[i] \in Nat
  BY OrderOfSet
<1>2. SumTo(g, N) \in Nat
  <2> HIDE DEF g, N
  <2> QED BY <1>1, SumNat
<1> QED BY <1>2 DEF SumOver

\* With nothing negative, no part is more than the whole.
LEMMA SumOverBound ==
    ASSUME NEW S, IsFiniteSet(S), NEW f \in [S -> Nat], NEW a \in S
    PROVE  f[a] <= SumOver(S, f)
<1> DEFINE g == [c \in S |-> IF c = a THEN 0 ELSE f[c]]
<1>1. g \in [S -> Nat] /\ f[a] \in Nat /\ g[a] = 0
  OBVIOUS
<1>2. \A c \in S : f[c] = IF c = a THEN g[a] + f[a] ELSE g[c]
  OBVIOUS
<1> HIDE DEF g
<1>3. f \in [S -> Int] /\ g \in [S -> Int] /\ f[a] \in Int
  BY <1>1
<1>4. SumOver(S, f) = SumOver(S, g) + f[a]
  <2> DEFINE x == f[a]
  <2>1. x \in Int /\ \A c \in S : f[c] = IF c = a THEN g[a] + x ELSE g[c]
    BY <1>2, <1>3
  <2> HIDE DEF x
  <2>2. SumOver(S, f) = SumOver(S, g) + x
    BY <1>3, <2>1, SumOverChange
  <2> QED BY <2>2 DEF x
<1>5. SumOver(S, g) \in Nat
  BY <1>1, SumOverNat
<1> QED BY <1>1, <1>4, <1>5
=============================================================================

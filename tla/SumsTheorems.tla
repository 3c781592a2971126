---------------------------- MODULE SumsTheorems ----------------------------
(***************************************************************************)
(* Laws of SumUpTo for every number of rows.  The induction theorems of the *)
(* library take an operator as a parameter; here induction over the natural *)
(* numbers is derived for sets instead, from the well-founded ordering of   *)
(* the finite sets of naturals.                                             *)
(***************************************************************************)
EXTENDS Sums, FiniteSetTheorems, TLAPS

\* A nonempty set of natural numbers has a least element: of the intervals
\* that end in one of its elements, take one that contains no other.
LEMMA NatMin ==
  ASSUME NEW T \in SUBSET Nat, T # {}
  PROVE  \E m \in T : \A x \in T : m <= x
<1> DEFINE F == {1..x : x \in T}
           R == StrictSubsetOrdering(Nat)
           W == FiniteSubsetsOf(Nat)
<1>1. IsWellFoundedOn(R, W)
  BY FS_StrictSubsetOrderingWellFounded
<1>2. F \subseteq W /\ F # {}
  <2>1. \A x \in T : 1..x \in SUBSET Nat
    OBVIOUS
  <2>2. \A x \in T : IsFiniteSet(1..x)
    BY FS_Interval
  <2> QED BY <2>1, <2>2 DEF FiniteSubsetsOf
<1>3. \E U \in F : \A V \in F : ~ (<<V, U>> \in R)
  <2> HIDE DEF F, R, W
  <2> QED BY <1>1, <1>2, WFMin
<1>4. PICK m \in T : \A y \in T : ~ (<<1..y, 1..m>> \in R)
  BY <1>3
<1>5. ASSUME NEW y \in T, y < m  PROVE FALSE
  <2>1. 1..y \subseteq 1..m /\ 1..y # 1..m
    <3>1. m \in 1..m /\ m \notin 1..y
      BY <1>5
    <3>2. 1..y \subseteq 1..m
      BY <1>5
    <3> QED BY <3>1, <3>2
  <2>2. 1..y \in SUBSET Nat /\ 1..m \in SUBSET Nat
    OBVIOUS
  <2>3. <<1..y, 1..m>> \in R
    BY <2>1, <2>2 DEF StrictSubsetOrdering
  <2> QED BY <1>4, <2>3
<1> QED BY <1>5

\* Induction: a set that contains zero and the successor of each of its
\* members contains every natural number.
LEMMA NatInductionSet ==
  ASSUME NEW S, 0 \in S, \A n \in Nat : n \in S => n + 1 \in S
  PROVE  \A n \in Nat : n \in S
<1> SUFFICES ASSUME NEW n \in Nat, n \notin S
             PROVE  FALSE
  OBVIOUS
<1> DEFINE T == {i \in Nat : i \notin S}
<1>1. PICK m \in T : \A x \in T : m <= x
  <2> HIDE DEF T
  <2>1. T \in SUBSET Nat /\ T # {}
    BY DEF T
  <2> QED BY <2>1, NatMin
<1>2. m # 0
  OBVIOUS
<1>3. m - 1 \in Nat /\ m - 1 \in S
  BY <1>1, <1>2
<1>4. m \in S
  BY <1>3
<1> QED BY <1>4

\* The recursive definition inside SumUpTo has a solution.
LEMMA SumExists ==
  ASSUME NEW N \in Nat, NEW f, \A i \in 1..N : f[i] \in Int
  PROVE  \E s : s = [i \in 0..N |-> IF i = 0 THEN 0 ELSE s[i - 1] + f[i]]
<1> DEFINE G(n, s) == /\ s \in [0..n -> Int]
                      /\ s[0] = 0
                      /\ \A i \in 1..n : s[i] = s[i - 1] + f[i]
           S == {n \in Nat : n <= N => \E s : G(n, s)}
<1>1. 0 \in S
  <2>1. G(0, [i \in 0..0 |-> 0])
    OBVIOUS
  <2> QED BY <2>1
<1>2. ASSUME NEW n \in Nat, n \in S PROVE n + 1 \in S
  <2> SUFFICES ASSUME n + 1 <= N PROVE \E s : G(n + 1, s)
    OBVIOUS
  <2>1. PICK s : G(n, s)
    BY <1>2
  <2> DEFINE t == [i \in 0..(n+1) |-> IF i = n + 1 THEN s[n] + f[n + 1] ELSE s[i]]
  <2>2. G(n + 1, t)
    BY <2>1
  <2> QED BY <2>2
<1>3. N \in S
  <2> HIDE DEF S
  <2> QED BY <1>1, <1>2, NatInductionSet
<1>4. PICK s : G(N, s)
  BY <1>3
<1>5. s = [i \in 0..N |-> IF i = 0 THEN 0 ELSE s[i - 1] + f[i]]
  BY <1>4
<1> QED BY <1>5

-----------------------------------------------------------------------------
\* The partial sums of f up to n, as a function.
PartialSums(s, f, n) ==
  /\ s \in [0..n -> Int]
  /\ s[0] = 0
  /\ \A i \in 1..n : s[i] = s[i - 1] + f[i]

\* Any function that satisfies the recursion equals the one SumUpTo chooses.
LEMMA SumUnique ==
  ASSUME NEW n \in Nat, NEW f, \A i \in 1..n : f[i] \in Int,
         NEW s, PartialSums(s, f, n)
  PROVE  SumUpTo(f, n) = s[n]
<1> DEFINE c == CHOOSE t : t = [i \in 0..n |-> IF i = 0 THEN 0 ELSE t[i - 1] + f[i]]
           S == {j \in Nat : j <= n => c[j] = s[j]}
<1>1. c = [i \in 0..n |-> IF i = 0 THEN 0 ELSE c[i - 1] + f[i]]
  <2>1. \E t : t = [i \in 0..n |-> IF i = 0 THEN 0 ELSE t[i - 1] + f[i]]
    BY SumExists
  <2> QED BY <2>1
<1>2. SumUpTo(f, n) = c[n]
  BY DEF SumUpTo
<1> HIDE DEF c
<1>3. 0 \in S
  BY <1>1 DEF PartialSums
<1>4. \A j \in Nat : j \in S => j + 1 \in S
  BY <1>1 DEF PartialSums
<1>5. n \in S
  <2> HIDE DEF S
  <2> QED BY <1>3, <1>4, NatInductionSet
<1> QED BY <1>2, <1>5

\* Hence the partial sums exist, and each is the SumUpTo of its prefix.
LEMMA SumPrefixes ==
  ASSUME NEW n \in Nat, NEW f, \A i \in 1..n : f[i] \in Int
  PROVE  \E s : PartialSums(s, f, n) /\ \A i \in 0..n : SumUpTo(f, i) = s[i]
<1>1. PICK s : s = [i \in 0..n |-> IF i = 0 THEN 0 ELSE s[i - 1] + f[i]]
  BY SumExists
<1> DEFINE S == {j \in Nat : j <= n => s[j] \in Int}
<1>2. 0 \in S /\ \A j \in Nat : j \in S => j + 1 \in S
  BY <1>1
<1>3. \A j \in Nat : j \in S
  <2> HIDE DEF S
  <2> QED BY <1>2, NatInductionSet
<1>4. PartialSums(s, f, n)
  BY <1>1, <1>3 DEF PartialSums
<1>5. ASSUME NEW i \in 0..n PROVE SumUpTo(f, i) = s[i]
  <2> DEFINE t == [j \in 0..i |-> s[j]]
  <2>1. PartialSums(t, f, i)
    BY <1>4 DEF PartialSums
  <2> HIDE DEF t
  <2>2. SumUpTo(f, i) = t[i]
    BY <2>1, SumUnique
  <2> QED BY <2>2 DEF t
<1> QED BY <1>4, <1>5

\* The sum of no rows is zero, and one more row adds its value.
LEMMA SumStep ==
  ASSUME NEW n \in Nat, NEW f, \A i \in 1..n : f[i] \in Int
  PROVE  /\ SumUpTo(f, 0) = 0
         /\ n > 0 => SumUpTo(f, n) = SumUpTo(f, n - 1) + f[n]
         /\ SumUpTo(f, n) \in Int
<1>1. PICK s : PartialSums(s, f, n) /\ \A i \in 0..n : SumUpTo(f, i) = s[i]
  BY SumPrefixes
<1> QED BY <1>1 DEF PartialSums

\* A sum of natural numbers is one.
LEMMA SumNat ==
  ASSUME NEW n \in Nat, NEW f, \A i \in 1..n : f[i] \in Nat
  PROVE  \A i \in 0..n : SumUpTo(f, i) \in Nat
<1>1. PICK s : PartialSums(s, f, n) /\ \A i \in 0..n : SumUpTo(f, i) = s[i]
  BY SumPrefixes
<1> DEFINE S == {j \in Nat : j <= n => s[j] \in Nat}
<1>2. 0 \in S /\ \A j \in Nat : j \in S => j + 1 \in S
  <2>1. \A i \in 1..n : s[i] = s[i - 1] + f[i]
    BY <1>1 DEF PartialSums
  <2>2. ASSUME NEW j \in Nat, j \in S, j + 1 <= n PROVE s[j + 1] \in Nat
    <3>1. j + 1 \in 1..n /\ (j + 1) - 1 = j /\ s[j] \in Nat
      BY <2>2
    <3>2. s[j + 1] = s[j] + f[j + 1] /\ f[j + 1] \in Nat
      BY <2>1, <3>1
    <3> QED BY <3>1, <3>2
  <2> QED BY <1>1, <2>2 DEF PartialSums
<1>3. \A j \in Nat : j \in S
  <2> HIDE DEF S
  <2> QED BY <1>2, NatInductionSet
<1> QED BY <1>1, <1>3

\* Two tables that agree on the rows have the same sum.
LEMMA SumSame ==
  ASSUME NEW n \in Nat, NEW f, NEW g, \A i \in 1..n : f[i] \in Int /\ g[i] = f[i]
  PROVE  SumUpTo(g, n) = SumUpTo(f, n)
<1>1. PICK s : PartialSums(s, f, n) /\ \A i \in 0..n : SumUpTo(f, i) = s[i]
  BY SumPrefixes
<1>2. PartialSums(s, g, n)
  BY <1>1 DEF PartialSums
<1> QED BY <1>1, <1>2, SumUnique

\* Rows that are all zero sum up to zero.
LEMMA SumZeros ==
  ASSUME NEW n \in Nat, NEW f, \A i \in 1..n : f[i] = 0
  PROVE  SumUpTo(f, n) = 0
<1> DEFINE t == [i \in 0..n |-> 0]
<1>1. PartialSums(t, f, n)
  BY DEF PartialSums
<1> HIDE DEF t
<1>2. SumUpTo(f, n) = t[n]
  BY <1>1, SumUnique
<1> QED BY <1>2 DEF t

\* Sums add up row by row.
LEMMA SumAdd ==
  ASSUME NEW n \in Nat, NEW f, NEW g, NEW h,
         \A i \in 1..n : f[i] \in Int /\ g[i] \in Int /\ h[i] = f[i] + g[i]
  PROVE  SumUpTo(h, n) = SumUpTo(f, n) + SumUpTo(g, n)
<1>1. PICK s : PartialSums(s, f, n) /\ \A i \in 0..n : SumUpTo(f, i) = s[i]
  BY SumPrefixes
<1>2. PICK u : PartialSums(u, g, n) /\ \A i \in 0..n : SumUpTo(g, i) = u[i]
  BY SumPrefixes
<1> DEFINE t == [i \in 0..n |-> s[i] + u[i]]
<1>3. PartialSums(t, h, n)
  <2>1. t \in [0..n -> Int] /\ t[0] = 0
    BY <1>1, <1>2 DEF PartialSums
  <2>2. ASSUME NEW i \in 1..n PROVE t[i] = t[i - 1] + h[i]
    <3>1. s[i] = s[i - 1] + f[i] /\ u[i] = u[i - 1] + g[i]
      BY <1>1, <1>2 DEF PartialSums
    <3>2. /\ i \in 0..n /\ i - 1 \in 0..n
          /\ s[i - 1] \in Int /\ u[i - 1] \in Int
      BY <1>1, <1>2 DEF PartialSums
    <3> QED BY <3>1, <3>2
  <2> HIDE DEF t
  <2> QED BY <2>1, <2>2 DEF PartialSums
<1> HIDE DEF t
<1>4. SumUpTo(h, n) = t[n]
  BY <1>3, SumUnique
<1> QED BY <1>1, <1>2, <1>4 DEF t

\* Changing one row changes the sum by the change of that row.
LEMMA SumPoint ==
  ASSUME NEW n \in Nat, NEW f, NEW g, NEW j \in 1..n,
         \A i \in 1..n : f[i] \in Int /\ g[i] \in Int,
         \A i \in 1..n : i # j => g[i] = f[i]
  PROVE  SumUpTo(g, n) = SumUpTo(f, n) - f[j] + g[j]
<1>1. PICK s : PartialSums(s, f, n) /\ \A i \in 0..n : SumUpTo(f, i) = s[i]
  BY SumPrefixes
<1> DEFINE t == [i \in 0..n |-> IF i < j THEN s[i] ELSE s[i] - f[j] + g[j]]
<1>3. PartialSums(t, g, n)
  <2>1. t \in [0..n -> Int] /\ t[0] = 0
    BY <1>1 DEF PartialSums
  <2>2. ASSUME NEW i \in 1..n PROVE t[i] = t[i - 1] + g[i]
    <3>1. s[i] = s[i - 1] + f[i] /\ s[i - 1] \in Int
      BY <1>1 DEF PartialSums
    <3>2. i \in 0..n /\ i - 1 \in 0..n
      OBVIOUS
    <3>3. CASE i < j
      BY <3>1, <3>2, <3>3
    <3>4. CASE i = j
      BY <3>1, <3>2, <3>4
    <3>5. CASE i > j
      <4>1. g[i] = f[i] /\ i - 1 >= j
        BY <3>5
      <4> QED BY <3>1, <3>2, <3>5, <4>1
    <3> QED BY <3>3, <3>4, <3>5
  <2> HIDE DEF t
  <2> QED BY <2>1, <2>2 DEF PartialSums
<1> HIDE DEF t
<1>4. SumUpTo(g, n) = t[n]
  BY <1>3, SumUnique
<1> QED BY <1>1, <1>4 DEF t

\* No row of natural numbers exceeds the sum.
LEMMA SumMember ==
  ASSUME NEW n \in Nat, NEW f, \A i \in 1..n : f[i] \in Nat, NEW j \in 1..n
  PROVE  f[j] <= SumUpTo(f, n)
<1> DEFINE g == [i \in 1..n |-> IF i = j THEN 0 ELSE f[i]]
<1>1. SumUpTo(g, n) = SumUpTo(f, n) - f[j] + g[j]
  <2>1. \A i \in 1..n : f[i] \in Int /\ g[i] \in Int
    OBVIOUS
  <2>2. \A i \in 1..n : i # j => g[i] = f[i]
    OBVIOUS
  <2> HIDE DEF g
  <2> QED BY <2>1, <2>2, SumPoint
<1>2. SumUpTo(g, n) \in Nat
  <2>1. \A i \in 1..n : g[i] \in Nat
    OBVIOUS
  <2> HIDE DEF g
  <2> QED BY <2>1, SumNat
<1>3. SumUpTo(f, n) \in Nat
  BY SumNat
<1> QED BY <1>1, <1>2, <1>3

\* Rows that are consumed in their order, each as far as the rows before it
\* left some of the quantity open, give the quantity or all they have.
LEMMA SumConsume ==
  ASSUME NEW n \in Nat, NEW f, \A i \in 1..n : f[i] \in Nat, NEW quantity \in Nat,
         NEW g,
         \A k \in 1..n : g[k] = LET before == SumUpTo(f, k - 1)
                                IN  IF before >= quantity THEN 0
                                    ELSE AtMost(f[k], quantity - before)
  PROVE  SumUpTo(g, n) = AtMost(SumUpTo(f, n), quantity)
<1>1. PICK s : PartialSums(s, f, n) /\ \A i \in 0..n : SumUpTo(f, i) = s[i]
  BY SumPrefixes
<1> DEFINE t == [i \in 0..n |-> AtMost(s[i], quantity)]
<1>2. \A i \in 0..n : s[i] \in Nat
  BY <1>1, SumNat
<1>3. \A k \in 1..n : g[k] \in Int /\ t[k] = t[k - 1] + g[k]
  <2> SUFFICES ASSUME NEW k \in 1..n PROVE g[k] \in Int /\ t[k] = t[k - 1] + g[k]
    OBVIOUS
  <2>1. k - 1 \in 0..n /\ k \in 0..n /\ s[k] = s[k - 1] + f[k]
    BY <1>1 DEF PartialSums
  <2>2. g[k] = IF s[k - 1] >= quantity THEN 0 ELSE AtMost(f[k], quantity - s[k - 1])
    BY <1>1, <2>1
  <2> QED BY <1>2, <2>1, <2>2 DEF AtMost
<1>4. PartialSums(t, g, n)
  <2>1. t \in [0..n -> Int] /\ t[0] = 0
    BY <1>1, <1>2 DEF PartialSums, AtMost
  <2> HIDE DEF t
  <2> QED BY <1>3, <2>1 DEF PartialSums
<1> HIDE DEF t
<1>5. SumUpTo(g, n) = t[n]
  BY <1>3, <1>4, SumUnique
<1> QED BY <1>1, <1>5 DEF t
=============================================================================

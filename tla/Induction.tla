------------------------------ MODULE Induction ------------------------------
(***************************************************************************)
(* Induction over the natural numbers as facts about sets, for the proofs  *)
(* about what recursive functions compute.  The induction theorems of the  *)
(* library take a predicate as a parameter, which the provers cannot       *)
(* instantiate; here a predicate is the set of the numbers that have it,   *)
(* or of the subsets of a finite set. With it: what Without keeps, and     *)
(* sums of functions.                                                      *)
(***************************************************************************)
EXTENDS Integers, Sequences, Sieve, Functions, FiniteSets, FiniteSetTheorems,
        WellFoundedInduction, TLAPS

(* There is a well-founded relation that contains < on Nat.                *)
LEMMA LessThanIsWellFounded ==
  \E R : IsWellFoundedOn(R, Nat) /\ \A x, y \in Nat : x < y => <<x, y>> \in R
<1>1. IsWellFoundedOn(OpToRel(<, Nat), Nat)
  BY NatLessThanWellFounded
<1>2. \A x, y \in Nat : x < y => <<x, y>> \in OpToRel(<, Nat)
  BY DEF OpToRel
<1> QED BY <1>1, <1>2, Zenon

(* A nonempty set of natural numbers has a least element.                  *)
LEMMA LeastNat ==
  ASSUME NEW S \in SUBSET Nat, S # {}
  PROVE  \E m \in S : \A k \in S : m <= k
<1>1. PICK R : IsWellFoundedOn(R, Nat) /\ \A x, y \in Nat : x < y => <<x, y>> \in R
  BY LessThanIsWellFounded
<1>2. PICK x \in S : \A y \in S : ~ (<<y, x>> \in R)
  <2>1. IsWellFoundedOn(R, Nat) /\ S \subseteq Nat /\ S # {}
    BY <1>1
  <2> QED BY <2>1, WFMin
<1>3. \A y \in S : ~ (y < x)
  BY <1>1, <1>2
<1> QED BY <1>3

(* A nonempty set of natural numbers with a bound has a greatest element.  *)
LEMMA GreatestNat ==
  ASSUME NEW S \in SUBSET Nat, S # {}, NEW b \in Nat, \A k \in S : k <= b
  PROVE  \E m \in S : \A k \in S : k <= m
<1> DEFINE T == {b - k : k \in S}
<1>1. T \in SUBSET Nat /\ T # {}
  <2>1. \A k \in S : b - k \in Nat
    OBVIOUS
  <2> QED BY <2>1
<1>2. PICK m \in T : \A k \in T : m <= k
  <2> HIDE DEF T
  <2> QED BY <1>1, LeastNat
<1>3. b - m \in S /\ \A k \in S : m <= b - k /\ k \in Nat /\ m \in Nat
  BY <1>2
<1> QED BY <1>3

(* What holds of 0 and is passed on from each number below n to the next   *)
(* holds up to n.                                                          *)
LEMMA UpTo ==
  ASSUME NEW n \in Nat, NEW P, 0 \in P, \A i \in 0..(n - 1) : i \in P => i + 1 \in P
  PROVE  0..n \subseteq P
<1> SUFFICES ASSUME NEW j \in 0..n, j \notin P PROVE FALSE
  OBVIOUS
<1> DEFINE Bad == {i \in 0..n : i \notin P}
<1>1. PICK m \in Bad : \A k \in Bad : m <= k
  <2>1. Bad \in SUBSET Nat /\ Bad # {}
    OBVIOUS
  <2> HIDE DEF Bad
  <2> QED BY <2>1, LeastNat
<1>2. m # 0 /\ m - 1 \in 0..(n - 1) /\ m - 1 \in P
  BY <1>1
<1> QED BY <1>1, <1>2

(* f is the run of N steps that begins in s0; step[i] makes the i-th value *)
(* from the one before it.                                                 *)
IsRun(f, N, S, s0, step) ==
  /\ f \in [0..N -> S]
  /\ f[0] = s0
  /\ \A i \in 1..N : f[i] = step[i][f[i - 1]]

(* A recursive definition over 0..N has a solution: step[i] makes the i-th *)
(* value from the one before it.                                           *)
LEMMA RecursionUpTo ==
  ASSUME NEW N \in Nat, NEW S, NEW s0 \in S, NEW step \in [1..N -> [S -> S]]
  PROVE  \E f : IsRun(f, N, S, s0, step)
<1> DEFINE Solves(f, n) == f[0] = s0 /\ \A i \in 1..n : f[i] = step[i][f[i - 1]]
           P == {n \in 0..N : \E f \in [0..n -> S] : Solves(f, n)}
<1>1. 0 \in P
  <2> DEFINE f == [i \in 0..0 |-> s0]
  <2>1. f \in [0..0 -> S] /\ Solves(f, 0)
    OBVIOUS
  <2> HIDE DEF f, Solves
  <2> QED BY <2>1
<1>2. ASSUME NEW n \in 0..(N - 1), n \in P PROVE n + 1 \in P
  <2>1. PICK f \in [0..n -> S] : Solves(f, n)
    BY <1>2
  <2> DEFINE g == [i \in 0..(n + 1) |-> IF i = n + 1 THEN step[n + 1][f[n]] ELSE f[i]]
  <2>2. step[n + 1] \in [S -> S] /\ f[n] \in S
    OBVIOUS
  <2>3. step[n + 1][f[n]] \in S
    BY <2>2
  <2>4. g \in [0..(n + 1) -> S]
    BY <2>3
  <2>5. Solves(g, n + 1)
    <3>1. g[0] = s0
      BY <2>1
    <3>2. ASSUME NEW i \in 1..(n + 1) PROVE g[i] = step[i][g[i - 1]]
      <4>1. CASE i = n + 1
        BY <4>1
      <4>2. CASE i \in 1..n
        BY <2>1, <4>2
      <4> QED BY <4>1, <4>2
    <3> HIDE DEF g
    <3> QED BY <3>1, <3>2
  <2>6. n + 1 \in 0..N
    OBVIOUS
  <2> HIDE DEF g, Solves
  <2> QED BY <2>4, <2>5, <2>6
<1>3. N \in P
  <2>1. \A n \in 0..(N - 1) : n \in P => n + 1 \in P
    BY <1>2
  <2>2. N \in 0..N
    OBVIOUS
  <2> HIDE DEF P
  <2>3. 0..N \subseteq P
    BY <1>1, <2>1, UpTo
  <2> QED BY <2>2, <2>3
<1> QED BY <1>3 DEF IsRun

(* What Without keeps.                                                     *)
LEMMA WithoutKeeps ==
  ASSUME NEW S, NEW s \in Seq(S), NEW R
  PROVE  /\ Without(s, R) \in Seq(S)
         /\ \A i \in DOMAIN Without(s, R) :
              \E j \in DOMAIN s : Without(s, R)[i] = s[j] /\ s[j] \notin R
         /\ \A j \in DOMAIN s : s[j] \notin R => \E i \in DOMAIN Without(s, R) : Without(s, R)[i] = s[j]
<1> DEFINE N == Len(s)
           Def(f) == f = [i \in 0..N |->
                            IF i = 0 THEN << >>
                            ELSE IF s[i] \in R THEN f[i - 1] ELSE Append(f[i - 1], s[i])]
           kept == CHOOSE f : Def(f)
<1>1. N \in Nat /\ DOMAIN s = 1..N /\ \A i \in 1..N : s[i] \in S
  OBVIOUS
<1>2. \E f : Def(f)
  <2> DEFINE step == [i \in 1..N |-> [t \in Seq(S) |-> IF s[i] \in R THEN t ELSE Append(t, s[i])]]
  <2>1. step \in [1..N -> [Seq(S) -> Seq(S)]]
    BY <1>1
  <2>2. << >> \in Seq(S)
    OBVIOUS
  <2>3. PICK f \in [0..N -> Seq(S)] : f[0] = << >> /\ \A i \in 1..N : f[i] = step[i][f[i - 1]]
    <3> DEFINE T == Seq(S)
               e == << >>
    <3>1. step \in [1..N -> [T -> T]]
      BY <2>1
    <3>4. e \in T
      BY <2>2
    <3>2. N \in Nat
      BY <1>1
    <3> HIDE DEF step, N, T, e
    <3>3. \E f : IsRun(f, N, T, e, step)
      BY <3>1, <3>2, <3>4, RecursionUpTo
    <3> QED BY <3>3 DEF IsRun, T, e
  <2>4. \A i \in 1..N : f[i] = IF s[i] \in R THEN f[i - 1] ELSE Append(f[i - 1], s[i])
    <3>1. \A i \in 1..N : f[i - 1] \in Seq(S)
      BY <1>1
    <3> QED BY <2>3, <3>1
  <2>5. Def(f)
    <3> DEFINE F == [i \in 0..N |->
                       IF i = 0 THEN << >>
                       ELSE IF s[i] \in R THEN f[i - 1] ELSE Append(f[i - 1], s[i])]
    <3>1. \A i \in 0..N : i = 0 \/ i \in 1..N
      BY <1>1
    <3>2. \A i \in 0..N : f[i] = F[i]
      BY <2>3, <2>4, <3>1
    <3> QED BY <3>2
  <2> QED BY <2>5
<1>3. Def(kept)
  <2> HIDE DEF Def
  <2> QED BY <1>2
<1>4. Without(s, R) = kept[N]
  BY DEF Without
<1>5. kept[0] = << >> /\ \A i \in 1..N : kept[i] = IF s[i] \in R THEN kept[i - 1] ELSE Append(kept[i - 1], s[i])
  <2>1. \A i \in 1..N : i \in 0..N /\ i # 0
    BY <1>1
  <2>2. 0 \in 0..N
    BY <1>1
  <2> HIDE DEF kept
  <2> QED BY <1>3, <2>1, <2>2
<1> HIDE DEF kept
<1> DEFINE Good(k, n) ==
      /\ k \in Seq(S)
      /\ \A i \in DOMAIN k : \E j \in 1..n : k[i] = s[j] /\ s[j] \notin R
      /\ \A j \in 1..n : s[j] \notin R => \E i \in DOMAIN k : k[i] = s[j]
           P == {n \in 0..N : Good(kept[n], n)}
<1>6. 0 \in P
  <2>1. << >> \in Seq(S) /\ DOMAIN << >> = {} /\ 0 \in 0..N /\ 1..0 = {}
    BY <1>1
  <2> QED BY <1>5, <2>1
<1>7. ASSUME NEW n \in 0..(N - 1), n \in P PROVE n + 1 \in P
  <2>1. n + 1 \in 1..N /\ Good(kept[n], n)
    BY <1>1, <1>7
  <2>2. CASE s[n + 1] \in R
    <3>1. kept[n + 1] = kept[n]
      BY <1>5, <2>1, <2>2
    <3>2. Good(kept[n], n + 1)
      BY <2>1, <2>2
    <3> HIDE DEF Good
    <3> QED BY <2>1, <3>1, <3>2
  <2>3. CASE s[n + 1] \notin R
    <3> DEFINE k == kept[n]
               l == Append(k, s[n + 1])
    <3>1. kept[n + 1] = l
      <4>1. (n + 1) - 1 = n
        BY <1>1
      <4> QED BY <1>5, <2>1, <2>3, <4>1
    <3>2. k \in Seq(S) /\ s[n + 1] \in S /\ Good(k, n)
      BY <1>1, <2>1
    <3> HIDE DEF k
    <3>3. /\ l \in Seq(S) /\ DOMAIN l = DOMAIN k \cup {Len(k) + 1}
          /\ l[Len(k) + 1] = s[n + 1] /\ \A i \in DOMAIN k : l[i] = k[i]
      BY <3>2
    <3> HIDE DEF l
    <3>4. Good(l, n + 1)
      <4>1. ASSUME NEW i \in DOMAIN l
            PROVE  \E j \in 1..(n + 1) : l[i] = s[j] /\ s[j] \notin R
        <5>1. CASE i \in DOMAIN k
          <6>1. PICK j \in 1..n : k[i] = s[j] /\ s[j] \notin R
            BY <3>2, <5>1
          <6>2. j \in 1..(n + 1) /\ l[i] = s[j]
            BY <3>3, <5>1, <6>1
          <6> QED BY <6>1, <6>2
        <5>2. CASE i = Len(k) + 1
          <6>1. n + 1 \in 1..(n + 1)
            BY <2>1
          <6> QED BY <2>3, <3>3, <5>2, <6>1
        <5> QED BY <3>3, <5>1, <5>2
      <4>2. ASSUME NEW j \in 1..(n + 1), s[j] \notin R
            PROVE  \E i \in DOMAIN l : l[i] = s[j]
        <5>1. CASE j \in 1..n
          <6>1. PICK i \in DOMAIN k : k[i] = s[j]
            BY <3>2, <4>2, <5>1
          <6>2. i \in DOMAIN l /\ l[i] = s[j]
            BY <3>3, <6>1
          <6> QED BY <6>2
        <5>2. CASE j = n + 1
          BY <3>3, <5>2
        <5> QED BY <2>1, <5>1, <5>2
      <4> QED BY <3>3, <4>1, <4>2
    <3> HIDE DEF Good
    <3> QED BY <2>1, <3>1, <3>4
  <2> QED BY <2>2, <2>3
<1>8. N \in P
  <2>1. \A n \in 0..(N - 1) : n \in P => n + 1 \in P
    BY <1>7
  <2> HIDE DEF P, N
  <2>2. 0..N \subseteq P
    BY <1>1, <1>6, <2>1, UpTo
  <2> QED BY <1>1, <2>2
<1>9. Good(kept[N], N)
  <2> HIDE DEF Good
  <2> QED BY <1>8
<1>10. DOMAIN s = 1..N
  BY <1>1
<1>11. Good(Without(s, R), N)
  <2> HIDE DEF Good
  <2> QED BY <1>4, <1>9
<1> HIDE DEF N
<1> QED BY <1>10, <1>11, Zenon

-----------------------------------------------------------------------------
(* Sums. SumFunction takes one element after the other out of the domain,  *)
(* whichever CHOOSE picks; the order does not matter for what follows.     *)
Pick(S) == CHOOSE x \in S : TRUE

(* g is the recursive function that SumFunction(f) is the last value of.   *)
SumRun(f, g) ==
  g = [S \in SUBSET DOMAIN f |-> IF S = {} THEN 0 ELSE f[Pick(S)] + g[S \ {Pick(S)}]]

(* One element fewer.                                                      *)
LEMMA OneFewer ==
  ASSUME NEW S, IsFiniteSet(S), S # {}
  PROVE  /\ Pick(S) \in S /\ IsFiniteSet(S \ {Pick(S)})
         /\ Cardinality(S) \in Nat \ {0}
         /\ Cardinality(S \ {Pick(S)}) = Cardinality(S) - 1
<1>1. Pick(S) \in S
  BY DEF Pick
<1>2. Cardinality(S) \in Nat /\ Cardinality(S) # 0
  BY FS_CardinalityType, FS_EmptySet
<1> QED BY <1>1, <1>2, FS_RemoveElement

(* What holds of the empty set and is passed on to each set from the set   *)
(* with one element fewer holds of all the subsets of a finite set.        *)
LEMMA UpToSet ==
  ASSUME NEW D, IsFiniteSet(D), NEW P, {} \in P,
         \A S \in SUBSET D : S # {} /\ S \ {Pick(S)} \in P => S \in P
  PROVE  SUBSET D \subseteq P
<1> DEFINE N == Cardinality(D)
           Q == {n \in 0..N : \A S \in SUBSET D : Cardinality(S) = n => S \in P}
<1>1. N \in Nat
  BY FS_CardinalityType
<1>2. \A S \in SUBSET D : IsFiniteSet(S) /\ Cardinality(S) \in 0..N
  BY <1>1, FS_Subset, FS_CardinalityType
<1>3. 0 \in Q
  <2>1. \A S \in SUBSET D : Cardinality(S) = 0 => S = {}
    BY <1>2, FS_EmptySet
  <2> QED BY <1>1, <2>1
<1>4. ASSUME NEW n \in 0..(N - 1), n \in Q PROVE n + 1 \in Q
  <2>1. n + 1 \in 0..N /\ n \in Nat
    BY <1>1
  <2>2. ASSUME NEW S \in SUBSET D, Cardinality(S) = n + 1 PROVE S \in P
    <3>1. IsFiniteSet(S) /\ S # {}
      BY <1>2, <2>1, <2>2, FS_EmptySet
    <3>2. Cardinality(S \ {Pick(S)}) = n
      BY <2>1, <2>2, <3>1, OneFewer
    <3> QED BY <1>4, <3>1, <3>2
  <2> QED BY <2>1, <2>2
<1>5. 0..N \subseteq Q
  <2>1. \A i \in 0..(N - 1) : i \in Q => i + 1 \in Q
    BY <1>4
  <2> HIDE DEF N, Q
  <2> QED BY <1>1, <1>3, <2>1, UpTo
<1> QED BY <1>2, <1>5

(* Sums are defined, and are integers.                                     *)
LEMMA SumRunExists ==
  ASSUME NEW D, IsFiniteSet(D), NEW f \in [D -> Int]
  PROVE  \E g \in [SUBSET D -> Int] : SumRun(f, g)
<1> DEFINE N == Cardinality(D)
           Small(n) == {S \in SUBSET D : Cardinality(S) <= n}
           Step(g, S) == IF S = {} THEN 0 ELSE f[Pick(S)] + g[S \ {Pick(S)}]
           Solves(g, n) == \A S \in Small(n) : g[S] = Step(g, S)
           P == {n \in 0..N : \E g \in [Small(n) -> Int] : Solves(g, n)}
<1>1. N \in Nat
  BY FS_CardinalityType
<1>2. \A S \in SUBSET D : IsFiniteSet(S) /\ Cardinality(S) \in 0..N
  BY <1>1, FS_Subset, FS_CardinalityType
<1>3. 0 \in P
  <2> DEFINE g == [S \in Small(0) |-> 0]
  <2>1. \A S \in Small(0) : S = {}
    BY <1>2, FS_EmptySet
  <2>2. g \in [Small(0) -> Int] /\ Solves(g, 0)
    BY <2>1
  <2> HIDE DEF g, Solves, Small
  <2> QED BY <1>1, <2>2
<1>4. ASSUME NEW n \in 0..(N - 1), n \in P PROVE n + 1 \in P
  <2>1. n + 1 \in 0..N /\ n \in Nat
    BY <1>1
  <2>2. PICK g \in [Small(n) -> Int] : Solves(g, n)
    BY <1>4
  <2> DEFINE h == [S \in Small(n + 1) |-> Step(g, S)]
  <2>3. ASSUME NEW S \in Small(n + 1), S # {}
        PROVE  S \ {Pick(S)} \in Small(n) /\ f[Pick(S)] \in Int
    <3>1. Pick(S) \in D /\ Cardinality(S \ {Pick(S)}) = Cardinality(S) - 1 /\ Cardinality(S) \in Nat
      BY <1>2, <2>3, OneFewer
    <3> QED BY <2>1, <3>1
  <2>4. h \in [Small(n + 1) -> Int]
    <3>1. \A S \in Small(n + 1) : Step(g, S) \in Int
      <4> HIDE DEF Small
      <4> QED BY <2>2, <2>3
    <3> HIDE DEF Small, Step
    <3> QED BY <3>1
  <2>5. \A S \in Small(n) : S \in Small(n + 1) /\ h[S] = g[S]
    <3>1. \A S \in Small(n) : S \in Small(n + 1)
      BY <1>2, <2>1
    <3> HIDE DEF Small, Step
    <3> QED BY <2>2, <3>1
  <2>6. Solves(h, n + 1)
    <3> SUFFICES ASSUME NEW S \in Small(n + 1) PROVE h[S] = Step(h, S)
      OBVIOUS
    <3>1. h[S] = Step(g, S)
      OBVIOUS
    <3>2. S # {} => h[S \ {Pick(S)}] = g[S \ {Pick(S)}]
      BY <2>3, <2>5
    <3> HIDE DEF h, Small
    <3> QED BY <3>1, <3>2
  <2> HIDE DEF h, Solves, Small
  <2> QED BY <2>1, <2>4, <2>6
<1>5. N \in P
  <2>1. \A n \in 0..(N - 1) : n \in P => n + 1 \in P
    BY <1>4
  <2> HIDE DEF P, N
  <2>2. 0..N \subseteq P
    BY <1>1, <1>3, <2>1, UpTo
  <2> QED BY <1>1, <2>2
<1>6. PICK g \in [Small(N) -> Int] : Solves(g, N)
  BY <1>5
<1>7. Small(N) = SUBSET D
  BY <1>1, <1>2
<1>8. SumRun(f, g)
  <2>1. DOMAIN f = D
    OBVIOUS
  <2>2. \A S \in SUBSET D : g[S] = Step(g, S)
    BY <1>6, <1>7
  <2>3. g \in [SUBSET D -> Int]
    BY <1>6, <1>7
  <2> HIDE DEF Solves, Small
  <2>4. g = [S \in SUBSET D |-> Step(g, S)]
    <3> DEFINE G == [S \in SUBSET D |-> Step(g, S)]
    <3>1. \A S \in SUBSET D : g[S] = G[S]
      BY <2>2
    <3> QED BY <2>3, <3>1
  <2> QED BY <2>1, <2>4 DEF SumRun
<1> QED BY <1>6, <1>7, <1>8

(* g sums up f, set by set.                                                *)
SumSteps(f, D, g) ==
  /\ SumFunction(f) = g[D] /\ g[{}] = 0
  /\ \A S \in SUBSET D : S # {} => g[S] = f[Pick(S)] + g[S \ {Pick(S)}]

(* The recursive function of a sum, and the sum.                           *)
LEMMA SumIsRun ==
  ASSUME NEW D, IsFiniteSet(D), NEW f \in [D -> Int]
  PROVE  \E g \in [SUBSET D -> Int] : SumSteps(f, D, g)
<1> DEFINE g == CHOOSE h : SumRun(f, h)
<1>1. SumRun(f, g)
  BY SumRunExists
<1>2. SumFunction(f) = g[D]
  <2>1. SumFunction(f) = (CHOOSE h : SumRun(f, h))[DOMAIN f]
    BY DEF SumRun, Pick, SumFunction, SumFunctionOnSet, FoldFunctionOnSet, MapThenFoldSet
  <2> QED BY <2>1
<1> HIDE DEF g
<1>3. /\ DOMAIN g = SUBSET D /\ g[{}] = 0
      /\ \A S \in SUBSET D : S # {} => g[S] = f[Pick(S)] + g[S \ {Pick(S)}]
  BY <1>1 DEF SumRun
<1>4. \A S \in SUBSET D : g[S] \in Int
  <2> DEFINE P == {S \in SUBSET D : g[S] \in Int}
  <2>1. \A S \in SUBSET D : S # {} /\ S \ {Pick(S)} \in P => S \in P
    BY <1>3 DEF Pick
  <2>2. {} \in P
    BY <1>3
  <2> HIDE DEF P
  <2>3. SUBSET D \subseteq P
    BY <2>1, <2>2, UpToSet
  <2> QED BY <2>3 DEF P
<1>5. g \in [SUBSET D -> Int]
  <2>1. g = [S \in SUBSET D |-> g[S]]
    BY <1>1 DEF SumRun
  <2> QED BY <1>4, <2>1
<1> QED BY <1>2, <1>3, <1>5 DEF SumSteps

(* A sum is an integer, and is not negative when no term is.               *)
LEMMA SumType ==
  ASSUME NEW D, IsFiniteSet(D), NEW f \in [D -> Int]
  PROVE  /\ SumFunction(f) \in Int
         /\ (\A d \in D : f[d] >= 0) => SumFunction(f) >= 0
<1>1. PICK g \in [SUBSET D -> Int] : SumSteps(f, D, g)
  BY SumIsRun
<1>2. ASSUME \A d \in D : f[d] >= 0 PROVE g[D] >= 0
  <2> DEFINE P == {S \in SUBSET D : g[S] >= 0}
  <2>1. {} \in P
    BY <1>1 DEF SumSteps
  <2>2. ASSUME NEW S \in SUBSET D, S # {}, S \ {Pick(S)} \in P PROVE S \in P
    <3>1. Pick(S) \in S
      BY <2>2 DEF Pick
    <3>2. g[S \ {Pick(S)}] \in Int /\ g[S \ {Pick(S)}] >= 0
      BY <2>2
    <3>3. g[S] = f[Pick(S)] + g[S \ {Pick(S)}]
      BY <1>1, <2>2 DEF SumSteps
    <3>4. f[Pick(S)] \in Int /\ f[Pick(S)] >= 0
      BY <1>2, <3>1
    <3>5. g[S] >= 0
      BY <3>2, <3>3, <3>4
    <3> QED BY <3>5
  <2>3. \A S \in SUBSET D : S # {} /\ S \ {Pick(S)} \in P => S \in P
    BY <2>2
  <2> HIDE DEF P
  <2>4. SUBSET D \subseteq P
    BY <2>1, <2>3, UpToSet
  <2> QED BY <2>4 DEF P
<1> QED BY <1>1, <1>2 DEF SumSteps

(* The sum of the sums.                                                    *)
LEMMA SumPlus ==
  ASSUME NEW D, IsFiniteSet(D), NEW f \in [D -> Int], NEW h \in [D -> Int],
         NEW k \in [D -> Int], \A d \in D : k[d] = f[d] + h[d]
  PROVE  SumFunction(k) = SumFunction(f) + SumFunction(h)
<1>1. PICK F \in [SUBSET D -> Int] : SumSteps(f, D, F)
  BY SumIsRun
<1>2. PICK H \in [SUBSET D -> Int] : SumSteps(h, D, H)
  BY SumIsRun
<1>3. PICK K \in [SUBSET D -> Int] : SumSteps(k, D, K)
  BY SumIsRun
<1> DEFINE P == {S \in SUBSET D : K[S] = F[S] + H[S]}
<1>4. {} \in P
  BY <1>1, <1>2, <1>3 DEF SumSteps
<1>5. ASSUME NEW S \in SUBSET D, S # {}, S \ {Pick(S)} \in P PROVE S \in P
  <2> DEFINE x == Pick(S)
             R == S \ {x}
  <2>1. x \in D /\ R \in SUBSET D
    BY <1>5 DEF Pick
  <2>2. K[R] = F[R] + H[R] /\ F[R] \in Int /\ H[R] \in Int
    BY <1>5, <2>1
  <2>3. F[S] = f[x] + F[R] /\ H[S] = h[x] + H[R] /\ K[S] = k[x] + K[R]
    BY <1>1, <1>2, <1>3, <1>5 DEF SumSteps
  <2>4. k[x] = f[x] + h[x] /\ f[x] \in Int /\ h[x] \in Int
    BY <2>1
  <2> HIDE DEF x, R
  <2> QED BY <2>2, <2>3, <2>4
<1>6. SUBSET D \subseteq P
  <2>1. \A S \in SUBSET D : S # {} /\ S \ {Pick(S)} \in P => S \in P
    BY <1>5
  <2> HIDE DEF P
  <2> QED BY <1>4, <2>1, UpToSet
<1> QED BY <1>1, <1>2, <1>3, <1>6 DEF SumSteps

(* f is zero on D, but for k at a.                                         *)
Point(f, D, a, k) == \A d \in D : f[d] = IF d = a THEN k ELSE 0

(* A sum of zeros but for one term.                                        *)
LEMMA SumPoint ==
  ASSUME NEW D, IsFiniteSet(D), NEW a, NEW k \in Int, NEW f \in [D -> Int], Point(f, D, a, k)
  PROVE  SumFunction(f) = IF a \in D THEN k ELSE 0
<1>1. PICK F \in [SUBSET D -> Int] : SumSteps(f, D, F)
  BY SumIsRun
<1> DEFINE P == {S \in SUBSET D : F[S] = IF a \in S THEN k ELSE 0}
<1>2. {} \in P
  BY <1>1 DEF SumSteps
<1>3. ASSUME NEW S \in SUBSET D, S # {}, S \ {Pick(S)} \in P PROVE S \in P
  <2> DEFINE x == Pick(S)
             R == S \ {x}
  <2>1. x \in S /\ x \in D
    BY <1>3 DEF Pick
  <2>2. F[R] = IF a \in R THEN k ELSE 0
    BY <1>3
  <2>3. F[S] = f[x] + F[R] /\ f[x] = IF x = a THEN k ELSE 0
    BY <1>1, <1>3, <2>1 DEF SumSteps, Point
  <2>4. a \in S <=> x = a \/ a \in R
    BY <2>1
  <2>5. x \notin R
    OBVIOUS
  <2> HIDE DEF x, R
  <2>6. F[S] = IF a \in S THEN k ELSE 0
    BY <2>2, <2>3, <2>4, <2>5
  <2> QED BY <2>6
<1>4. SUBSET D \subseteq P
  <2>1. \A S \in SUBSET D : S # {} /\ S \ {Pick(S)} \in P => S \in P
    BY <1>3
  <2> HIDE DEF P
  <2> QED BY <1>2, <2>1, UpToSet
<1> QED BY <1>1, <1>4 DEF SumSteps

(* On D, h is f but for k more at a.                                       *)
Moved(h, f, D, a, k) == \A d \in D : h[d] = f[d] + IF d = a THEN k ELSE 0

(* A sum in which one term, if any, has moved by k.                        *)
LEMMA SumMove ==
  ASSUME NEW D, IsFiniteSet(D), NEW f \in [D -> Int], NEW h \in [D -> Int], NEW a, NEW k \in Int,
         Moved(h, f, D, a, k)
  PROVE  SumFunction(h) = SumFunction(f) + IF a \in D THEN k ELSE 0
<1>1. PICK point \in [D -> Int] : Point(point, D, a, k)
  <2> DEFINE point == [d \in D |-> IF d = a THEN k ELSE 0]
  <2>1. point \in [D -> Int] /\ Point(point, D, a, k)
    BY DEF Point
  <2> HIDE DEF point
  <2> QED BY <2>1
<1>2. SumFunction(point) = IF a \in D THEN k ELSE 0
  BY <1>1, SumPoint
<1>3. SumFunction(h) = SumFunction(f) + SumFunction(point)
  <2>1. \A d \in D : h[d] = f[d] + point[d]
    BY <1>1 DEF Point, Moved
  <2> QED BY <1>1, <2>1, SumPlus
<1> QED BY <1>2, <1>3

(* f is q on I and zero elsewhere on D.                                    *)
Equal(f, D, I, q) == \A d \in D : f[d] = IF d \in I THEN q ELSE 0

(* A sum of equal terms.                                                   *)
LEMMA SumEqual ==
  ASSUME NEW D, IsFiniteSet(D), NEW I \in SUBSET D, NEW q \in Int, NEW f \in [D -> Int],
         Equal(f, D, I, q)
  PROVE  SumFunction(f) = q * Cardinality(I) /\ Cardinality(I) \in Nat
<1>1. PICK F \in [SUBSET D -> Int] : SumSteps(f, D, F)
  BY SumIsRun
<1>2. \A S \in SUBSET D : IsFiniteSet(S \cap I) /\ Cardinality(S \cap I) \in Nat
  <2> SUFFICES ASSUME NEW S \in SUBSET D
               PROVE  IsFiniteSet(S \cap I) /\ Cardinality(S \cap I) \in Nat
    OBVIOUS
  <2>1. PICK T : T = S \cap I
    OBVIOUS
  <2>2. T \subseteq D
    BY <2>1
  <2>3. IsFiniteSet(T) /\ Cardinality(T) \in Nat
    BY <2>2, FS_Subset, FS_CardinalityType
  <2> QED BY <2>1, <2>3
<1> DEFINE P == {S \in SUBSET D : F[S] = q * Cardinality(S \cap I)}
<1>3. {} \in P
  <2>1. {} \cap I = {}
    OBVIOUS
  <2>2. Cardinality({} \cap I) = 0
    BY <2>1, FS_EmptySet
  <2> QED BY <1>1, <2>2 DEF SumSteps
<1>4. ASSUME NEW S \in SUBSET D, S # {}, S \ {Pick(S)} \in P PROVE S \in P
  <2>1. PICK x, R : x = Pick(S) /\ R = S \ {x}
    OBVIOUS
  <2>2. x \in S /\ x \in D
    BY <1>4, <2>1 DEF Pick
  <2>3. F[R] = q * Cardinality(R \cap I)
    BY <1>4, <2>1
  <2>4. F[S] = f[x] + F[R] /\ f[x] = IF x \in I THEN q ELSE 0
    BY <1>1, <1>4, <2>1, <2>2 DEF SumSteps, Equal
  <2>5. PICK A, B : A = R \cap I /\ B = S \cap I
    OBVIOUS
  <2>6. IsFiniteSet(A) /\ Cardinality(A) \in Nat
    BY <1>2, <2>1, <2>5
  <2>7. CASE x \in I
    <3>1. B = A \cup {x} /\ x \notin A
      BY <2>1, <2>2, <2>5, <2>7
    <3>2. Cardinality(B) = Cardinality(A) + 1
      BY <2>6, <3>1, FS_AddElement
    <3>3. q * (Cardinality(A) + 1) = q + q * Cardinality(A)
      BY <2>6
    <3> QED BY <2>3, <2>4, <2>5, <2>7, <3>2, <3>3
  <2>8. CASE x \notin I
    <3>1. B = A
      BY <2>1, <2>2, <2>5, <2>8
    <3>2. PICK y \in Int : y = q * Cardinality(A)
      BY <2>6
    <3>3. F[S] = 0 + y
      BY <2>3, <2>4, <2>5, <2>8, <3>2
    <3>4. F[S] = y
      BY <3>3
    <3>5. F[S] = q * Cardinality(S \cap I)
      BY <2>5, <3>1, <3>2, <3>4
    <3> QED BY <3>5
  <2> QED BY <2>7, <2>8
<1>5. SUBSET D \subseteq P
  <2>1. \A S \in SUBSET D : S # {} /\ S \ {Pick(S)} \in P => S \in P
    BY <1>4
  <2> HIDE DEF P
  <2> QED BY <1>3, <2>1, UpToSet
<1>6. F[D] = q * Cardinality(I)
  <2>1. D \cap I = I /\ D \in P
    BY <1>5
  <2> QED BY <2>1
<1>7. Cardinality(I) \in Nat
  <2>1. D \cap I = I /\ D \in SUBSET D
    OBVIOUS
  <2> QED BY <1>2, <2>1
<1>8. SumFunction(f) = F[D]
  BY <1>1 DEF SumSteps
<1> HIDE DEF P
<1> QED BY <1>6, <1>7, <1>8

(* f is q on I, and k more at lead, and zero elsewhere on D.               *)
Topped(f, D, I, q, lead, k) ==
  \A d \in D : f[d] = IF d \in I THEN q + (IF d = lead THEN k ELSE 0) ELSE 0

(* A sum of equal terms, one of which has k more.                          *)
LEMMA SumTopped ==
  ASSUME NEW D, IsFiniteSet(D), NEW I \in SUBSET D, NEW q \in Int, NEW lead, NEW k \in Int,
         NEW h \in [D -> Int], Topped(h, D, I, q, lead, k)
  PROVE  /\ SumFunction(h) = q * Cardinality(I) + IF lead \in I THEN k ELSE 0
         /\ Cardinality(I) \in Nat
<1>1. PICK f \in [D -> Int] : Equal(f, D, I, q)
  <2> DEFINE f == [d \in D |-> IF d \in I THEN q ELSE 0]
  <2>1. f \in [D -> Int] /\ Equal(f, D, I, q)
    BY DEF Equal
  <2> HIDE DEF f
  <2> QED BY <2>1
<1>2. SumFunction(f) = q * Cardinality(I) /\ Cardinality(I) \in Nat
  BY <1>1, SumEqual
<1>3. CASE lead \in I
  <2>1. Moved(h, f, D, lead, k)
    BY <1>1, <1>3 DEF Moved, Topped, Equal
  <2>2. SumFunction(h) = SumFunction(f) + IF lead \in D THEN k ELSE 0
    BY <2>1, SumMove
  <2> QED BY <1>2, <1>3, <2>2
<1>4. CASE lead \notin I
  <2>1. Equal(h, D, I, q)
    BY <1>4 DEF Topped, Equal
  <2>2. SumFunction(h) = q * Cardinality(I)
    BY <2>1, SumEqual
  <2>3. q * Cardinality(I) \in Int
    BY <1>2
  <2> QED BY <1>2, <1>4, <2>2, <2>3
<1> QED BY <1>3, <1>4
=============================================================================

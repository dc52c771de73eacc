----------------------------- MODULE Lists_proofs -----------------------------
(***************************************************************************)
(* What comes of going through a list, however long: the rules samples of  *)
(* tags are merged into, and the classes of rooms edges are merged into.   *)
(* A fold is followed step by step (FoldSteps), and what holds before the  *)
(* first step and is kept by each holds at the end (CountUp), for else     *)
(* there were a least step at which it does not.  The first two parts are  *)
(* about numbers and folds alone.  The last parts are about SnapshotIds:   *)
(* what it means to be the last of a list in the order of strings.         *)
(***************************************************************************)
EXTENDS TagRules, Connectivity, SnapshotIds, FiniteSetTheorems, SequenceTheorems, WellFoundedInduction, TLAPS

-----------------------------------------------------------------------------
(* Counting up *)

\* A set of numbers that is not empty has a least one.
LEMMA LeastNumber ==
  ASSUME NEW S \in SUBSET Nat, S # {}
  PROVE  \E n \in S : \A m \in S : n <= m
<1> DEFINE R == OpToRel(<, Nat)
<1>1. IsWellFoundedOn(R, Nat)
  BY NatLessThanWellFounded
<1>2. \A a, b \in Nat : a < b => <<a, b>> \in R
  BY DEF OpToRel
<1> HIDE DEF R
<1>3. PICK x \in S : \A y \in S : ~(<<y, x>> \in R)
  BY <1>1, WFMin
<1>4. \A y \in S : ~(y < x)
  BY <1>2, <1>3
<1>5. \A y \in S : x <= y
  BY <1>4
<1> QED
  BY <1>5

\* A set that holds 0, and n + 1 with n, holds every number up to N.
LEMMA CountUp ==
  ASSUME NEW N \in Nat, NEW S, 0 \in S, \A n \in 0..N : n \in S /\ n < N => n + 1 \in S
  PROVE  0..N \subseteq S
<1> SUFFICES ASSUME (0..N) \ S # {} PROVE FALSE
  OBVIOUS
<1>1. PICK n \in (0..N) \ S : \A m \in (0..N) \ S : n <= m
  <2>1. (0..N) \ S \in SUBSET Nat
    OBVIOUS
  <2> QED
    BY <2>1, LeastNumber
<1>2. n - 1 \in 0..N /\ n - 1 \in S
  BY <1>1
<1> QED
  BY <1>1, <1>2

\* The greatest number of a finite set of numbers from 1 on.
LEMMA GreatestOf ==
  ASSUME NEW N \in Nat, NEW S \in SUBSET (1..N), S # {}
  PROVE  Max(S) \in S /\ \A m \in S : Max(S) >= m
<1> DEFINE Above == {k \in 0..N : \A m \in S : m <= k}
<1>1. Above \in SUBSET Nat /\ N \in Above
  OBVIOUS
<1>2. PICK k \in Above : \A j \in Above : k <= j
  BY <1>1, LeastNumber
<1>3. k \in S
  <2>1. CASE k = 0
    <3>1. PICK m \in S : TRUE
      OBVIOUS
    <3>2. m >= 1 /\ m <= k
      BY <1>2
    <3> QED
      BY <2>1, <3>2
  <2>2. CASE k # 0 /\ k \notin S
    <3>1. k - 1 \in Above
      BY <1>2, <2>2
    <3> QED
      BY <1>2, <3>1
  <2> QED
    BY <2>1, <2>2
<1>4. \E x \in S : \A y \in S : x >= y
  BY <1>2, <1>3
<1> QED
  BY <1>4 DEF Max

\* In particular, of the first n.
LEMMA GreatestUpTo ==
  ASSUME NEW n \in Nat \ {0}
  PROVE  Max(1..n) = n /\ (1..n) \ {n} = 1..(n - 1)
<1>1. 1..n # {} /\ n \in 1..n
  OBVIOUS
<1>2. Max(1..n) \in 1..n /\ Max(1..n) >= n
  BY <1>1, GreatestOf
<1> QED
  BY <1>2

\* A finite set of numbers that is not empty has a greatest one.
LEMMA Highest ==
  ASSUME NEW S \in SUBSET Nat, IsFiniteSet(S), S # {}
  PROVE  Max(S) \in S /\ \A m \in S : Max(S) >= m
<1> DEFINE N == Cardinality(S)
<1>1. N \in Nat
  BY FS_CardinalityType
<1>2. PICK s \in Surjection(1..N, S) : TRUE
  BY FS_NatBijection, FS_CardinalityType DEF ExistsBijection, Bijection
<1>3. s \in [1..N -> S] /\ \A m \in S : \E i \in 1..N : s[i] = m
  BY <1>2 DEF Surjection
<1> HIDE DEF N
<1> DEFINE Good == {n \in 0..N : n = 0 \/ \E i \in 1..n : \A j \in 1..n : s[i] >= s[j]}
<1>4. 0 \in Good
  BY <1>1
<1>5. ASSUME NEW n \in 0..N, n \in Good, n < N PROVE n + 1 \in Good
  <2>1. n + 1 \in 1..N /\ n + 1 \in 0..N /\ 1..(n + 1) = 1..n \cup {n + 1}
    BY <1>1, <1>5
  <2>2. \A i \in 1..(n + 1) : s[i] \in Nat
    <3>1. \A i \in 1..(n + 1) : i \in 1..N
      BY <1>1, <2>1
    <3> QED
      BY <1>3, <3>1
  <2>3. CASE n = 0
    <3>1. 1..(n + 1) = {n + 1}
      BY <2>3
    <3>2. s[n + 1] >= s[n + 1]
      BY <2>1, <2>2
    <3>3. \E i \in 1..(n + 1) : \A j \in 1..(n + 1) : s[i] >= s[j]
      BY <3>1, <3>2
    <3> QED
      BY <2>1, <3>3
  <2>4. CASE n # 0
    <3>1. PICK i \in 1..n : \A j \in 1..n : s[i] >= s[j]
      BY <1>5, <2>4
    <3>2. \E l \in 1..(n + 1) : \A j \in 1..(n + 1) : s[l] >= s[j]
      <4>1. CASE s[i] >= s[n + 1]
        BY <2>1, <3>1, <4>1
      <4>2. CASE ~(s[i] >= s[n + 1])
        <5>1. \A j \in 1..(n + 1) : s[n + 1] >= s[j]
          BY <2>1, <2>2, <3>1, <4>2
        <5> QED
          BY <2>1, <5>1
      <4> QED
        BY <4>1, <4>2
    <3> QED
      BY <2>1, <3>2
  <2> QED
    BY <2>3, <2>4
<1> HIDE DEF Good
<1>6. 0..N \subseteq Good
  BY <1>1, <1>4, <1>5, CountUp
<1>7. N # 0
  <2>1. PICK m \in S : TRUE
    OBVIOUS
  <2>2. PICK i \in 1..N : s[i] = m
    BY <1>3, <2>1
  <2> QED
    BY <1>1, <2>2
<1>8. PICK i \in 1..N : \A j \in 1..N : s[i] >= s[j]
  <2>1. N \in Good
    BY <1>1, <1>6
  <2> QED
    BY <1>7, <2>1 DEF Good
<1>9. \E x \in S : \A y \in S : x >= y
  BY <1>3, <1>8
<1> QED
  BY <1>9 DEF Max

\* A set of numbers that is not empty holds the least of them.
LEMMA Lowest ==
  ASSUME NEW S \in SUBSET Nat, S # {}
  PROVE  Min(S) \in S /\ \A m \in S : Min(S) <= m
BY LeastNumber DEF Min

\* A function has finitely many values on a finite set.
LEMMA ValuesAreFinite ==
  ASSUME NEW S, IsFiniteSet(S), NEW f, DOMAIN f = S
  PROVE  IsFiniteSet({f[x] : x \in S})
<1> DEFINE g == [x \in S |-> f[x]]
<1>1. g \in Surjection(S, {f[x] : x \in S})
  BY DEF Surjection
<1> QED
  BY <1>1, FS_Surjection DEF ExistsSurjection

-----------------------------------------------------------------------------
(* Folding *)

\* What a step may make of a value, at each of N positions.
StepsOn(N, S) == [(1..N) \X S -> S]

\* f counts up: it begins with base and makes its step at each position.
CountsUp(f, N, S, base, g) ==
  f \in [0..N -> S] /\ f[0] = base /\ \A n \in 1..N : f[n] = g[<<n, f[n - 1]>>]

\* it goes over sets of positions, the greatest last, as MapThenFoldSet has FoldLeft do.
Folds(it, N, base, g) ==
  \A s \in SUBSET (1..N) : it[s] = IF s = {} THEN base ELSE g[<<Max(s), it[s \ {Max(s)}]>>]

\* The same, as far as the values are in S.
FoldsWithin(it, N, S, base, g) ==
  /\ it[{}] = base
  /\ \A s \in SUBSET (1..N) :
       s # {} /\ it[s \ {Max(s)}] \in S => it[s] = g[<<Max(s), it[s \ {Max(s)}]>>]

\* There is a function that counts up.
LEMMA Recursion ==
  ASSUME NEW N \in Nat, NEW S, NEW base \in S, NEW g \in StepsOn(N, S)
  PROVE  \E f : CountsUp(f, N, S, base, g)
<1> DEFINE Reached == {m \in 0..N : \E f : CountsUp(f, m, S, base, g)}
<1>1. 0 \in Reached
  <2> DEFINE h == [n \in 0..0 |-> base]
  <2>1. h \in [0..0 -> S] /\ h[0] = base /\ \A n \in 1..0 : h[n] = g[<<n, h[n - 1]>>]
    OBVIOUS
  <2>2. CountsUp(h, 0, S, base, g)
    BY <2>1 DEF CountsUp
  <2> QED
    BY <2>2
<1>2. ASSUME NEW m \in 0..N, m \in Reached, m < N PROVE m + 1 \in Reached
  <2>1. PICK f : CountsUp(f, m, S, base, g)
    BY <1>2
  <2>2. m + 1 \in 1..N /\ f[m] \in S /\ g[<<m + 1, f[m]>>] \in S
    BY <1>2, <2>1 DEF CountsUp, StepsOn
  <2> DEFINE h == [n \in 0..(m + 1) |-> IF n = m + 1 THEN g[<<m + 1, f[m]>>] ELSE f[n]]
  <2>3. h \in [0..(m + 1) -> S]
    BY <2>1, <2>2 DEF CountsUp
  <2>4. h[0] = base
    BY <2>1, <2>2 DEF CountsUp
  <2>5. ASSUME NEW n \in 1..(m + 1) PROVE h[n] = g[<<n, h[n - 1]>>]
    <3>1. CASE n = m + 1
      <4>1. h[n] = g[<<m + 1, f[m]>>] /\ n - 1 = m
        BY <3>1, <2>2
      <4>2. h[n - 1] = f[m]
        BY <4>1, <2>2
      <4> QED
        BY <3>1, <4>1, <4>2
    <3>2. CASE n # m + 1
      <4>1. n \in 1..m /\ n - 1 \in 0..m
        BY <3>2, <1>2
      <4>2. h[n] = f[n] /\ h[n - 1] = f[n - 1]
        BY <4>1, <3>2, <1>2
      <4> QED
        BY <2>1, <4>1, <4>2 DEF CountsUp
    <3> QED
      BY <3>1, <3>2
  <2>6. CountsUp(h, m + 1, S, base, g)
    BY <2>3, <2>4, <2>5 DEF CountsUp
  <2> QED
    BY <2>2, <2>6
<1> HIDE DEF Reached
<1>3. 0..N \subseteq Reached
  BY <1>1, <1>2, CountUp
<1>4. N \in Reached
  BY <1>3
<1> QED
  BY <1>4 DEF Reached

\* What a fold computes goes over sets of positions, the greatest last: there is such a function.
LEMMA Iteration ==
  ASSUME NEW N \in Nat, NEW S, NEW base \in S, NEW g \in StepsOn(N, S)
  PROVE  \E it : it \in [SUBSET (1..N) -> S] /\ Folds(it, N, base, g)
<1> DEFINE Runs(s, f) ==
             f[0] = base /\ \A n \in 1..N : f[n] = IF n \in s THEN g[<<n, f[n - 1]>>] ELSE f[n - 1]
           F(s) == CHOOSE f \in [0..N -> S] : Runs(s, f)
           it == [s \in SUBSET (1..N) |-> F(s)[N]]
<1>1. ASSUME NEW s \in SUBSET (1..N) PROVE F(s) \in [0..N -> S] /\ Runs(s, F(s))
  <2> DEFINE h == [p \in (1..N) \X S |-> IF p[1] \in s THEN g[p] ELSE p[2]]
  <2>1. h \in StepsOn(N, S)
    BY DEF StepsOn
  <2> HIDE DEF h
  <2>2. PICK f : CountsUp(f, N, S, base, h)
    BY <2>1, Recursion
  <2>3. \A n \in 1..N : f[n - 1] \in S /\ h[<<n, f[n - 1]>>] = IF n \in s THEN g[<<n, f[n - 1]>>] ELSE f[n - 1]
    <3> TAKE n \in 1..N
    <3>1. n - 1 \in 0..N
      OBVIOUS
    <3>2. <<n, f[n - 1]>> \in (1..N) \X S
      BY <2>2, <3>1 DEF CountsUp
    <3> QED
      BY <3>2 DEF h
  <2>4. f \in [0..N -> S] /\ Runs(s, f)
    BY <2>2, <2>3 DEF CountsUp
  <2> QED
    BY <2>4
<1> HIDE DEF F
<1>2. it \in [SUBSET (1..N) -> S]
  BY <1>1
<1>3. it[{}] = base
  <2> DEFINE Same == {n \in 0..N : F({})[n] = base}
  <2>1. Runs({}, F({}))
    BY <1>1
  <2>2. 0 \in Same
    BY <2>1
  <2>3. ASSUME NEW n \in 0..N, n \in Same, n < N PROVE n + 1 \in Same
    <3>1. n + 1 \in 1..N /\ (n + 1) - 1 = n
      BY <2>3
    <3> QED
      BY <2>1, <2>3, <3>1
  <2> HIDE DEF Same
  <2>4. 0..N \subseteq Same
    BY <2>2, <2>3, CountUp
  <2>5. N \in Same
    BY <2>4
  <2> QED
    BY <2>5 DEF Same
<1>4. ASSUME NEW s \in SUBSET (1..N), s # {} PROVE it[s] = g[<<Max(s), it[s \ {Max(s)}]>>]
  <2> DEFINE m == Max(s)
             f == F(s)
             h == F(s \ {m})
             Fit(n) == IF n < m THEN h[n] = f[n] ELSE f[n] = f[m] /\ h[n] = f[m - 1]
             Fitting == {n \in 0..N : Fit(n)}
  <2>1. m \in s /\ \A k \in s : m >= k
    BY <1>4, GreatestOf
  <2>2. m \in 1..N /\ s \ {m} \in SUBSET (1..N)
    BY <2>1
  <2> HIDE DEF m
  <2>3. Runs(s, f) /\ Runs(s \ {m}, h)
    BY <1>1, <2>2
  <2> HIDE DEF f, h
  <2>4. 0 \in Fitting
    BY <2>2, <2>3
  <2>5. ASSUME NEW n \in 0..N, n \in Fitting, n < N PROVE n + 1 \in Fitting
    <3>1. n + 1 \in 1..N /\ (n + 1) - 1 = n
      BY <2>5
    <3>2. /\ f[n + 1] = IF n + 1 \in s THEN g[<<n + 1, f[n]>>] ELSE f[n]
          /\ h[n + 1] = IF n + 1 \in s \ {m} THEN g[<<n + 1, h[n]>>] ELSE h[n]
      BY <2>3, <3>1
    <3>3. CASE n + 1 < m
      BY <2>2, <2>5, <3>1, <3>2, <3>3
    <3>4. CASE n + 1 = m
      BY <2>2, <2>5, <3>1, <3>2, <3>4
    <3>5. CASE n + 1 > m
      <4>1. n + 1 \notin s
        BY <2>1, <2>2, <3>5
      <4> QED
        BY <2>2, <2>5, <3>1, <3>2, <3>5, <4>1
    <3> QED
      BY <2>2, <3>1, <3>3, <3>4, <3>5
  <2> HIDE DEF Fitting
  <2>6. 0..N \subseteq Fitting
    BY <2>4, <2>5, CountUp
  <2>7. Fit(N)
    BY <2>6 DEF Fitting
  <2>8. f[N] = f[m] /\ h[N] = f[m - 1]
    BY <2>2, <2>7
  <2>9. f[m] = g[<<m, f[m - 1]>>]
    BY <2>1, <2>2, <2>3
  <2>10. it[s] = f[N] /\ it[s \ {m}] = h[N]
    BY <2>2 DEF f, h
  <2> QED
    BY <2>8, <2>9, <2>10 DEF m
<1> HIDE DEF it
<1>5. Folds(it, N, base, g)
  BY <1>3, <1>4 DEF Folds
<1> QED
  BY <1>2, <1>5

\* Whatever function of that kind was chosen, over the first positions it counts up step by step.
LEMMA FoldSteps ==
  ASSUME NEW N \in Nat, NEW S, NEW base \in S, NEW g \in StepsOn(N, S), NEW it, FoldsWithin(it, N, S, base, g)
  PROVE  \E f : CountsUp(f, N, S, base, g) /\ it[1..N] = f[N]
<1> DEFINE Typed == {n \in 0..N : it[1..n] \in S}
<1>1. 1..0 = {} /\ it[{}] = base
  BY DEF FoldsWithin
<1>2. ASSUME NEW n \in 1..N, it[1..(n - 1)] \in S
      PROVE  it[1..n] = g[<<n, it[1..(n - 1)]>>] /\ it[1..n] \in S
  <2>1. Max(1..n) = n /\ (1..n) \ {n} = 1..(n - 1)
    BY GreatestUpTo
  <2>2. n \in 1..n /\ 1..n \in SUBSET (1..N)
    OBVIOUS
  <2>3. it[1..n] = g[<<n, it[1..(n - 1)]>>]
    BY <1>2, <2>1, <2>2 DEF FoldsWithin
  <2>4. <<n, it[1..(n - 1)]>> \in (1..N) \X S
    BY <1>2
  <2> QED
    BY <2>3, <2>4 DEF StepsOn
<1>3. 0 \in Typed
  BY <1>1
<1>4. ASSUME NEW n \in 0..N, n \in Typed, n < N PROVE n + 1 \in Typed
  <2>1. n + 1 \in 1..N /\ (n + 1) - 1 = n /\ n + 1 \in 0..N
    BY <1>4
  <2>2. it[1..((n + 1) - 1)] \in S
    BY <1>4, <2>1
  <2> QED
    BY <1>2, <2>1, <2>2
<1> HIDE DEF Typed
<1>5. 0..N \subseteq Typed
  BY <1>3, <1>4, CountUp
<1>6. \A n \in 0..N : it[1..n] \in S
  BY <1>5 DEF Typed
<1> DEFINE f == [n \in 0..N |-> it[1..n]]
<1>7. f \in [0..N -> S]
  BY <1>6
<1>8. f[0] = base /\ it[1..N] = f[N]
  BY <1>1
<1>9. ASSUME NEW n \in 1..N PROVE f[n] = g[<<n, f[n - 1]>>]
  <2>1. n - 1 \in 0..N /\ n \in 0..N
    OBVIOUS
  <2>2. f[n] = it[1..n] /\ f[n - 1] = it[1..(n - 1)]
    BY <2>1
  <2> QED
    BY <1>2, <1>6, <2>1, <2>2
<1> HIDE DEF f
<1>10. CountsUp(f, N, S, base, g)
  BY <1>7, <1>8, <1>9 DEF CountsUp
<1> QED
  BY <1>8, <1>10

\* What there is of Only after each position.
OnlyBy(f, E, seq, wanted) ==
  /\ f \in [0..Len(seq) -> Seq(E)] /\ f[0] = <<>>
  /\ \A n \in 1..Len(seq) : f[n] = IF seq[n] \in wanted THEN Append(f[n - 1], seq[n]) ELSE f[n - 1]

\* Only goes through a sequence and appends what is wanted.
LEMMA OnlySteps ==
  ASSUME NEW E, NEW seq \in Seq(E), NEW wanted
  PROVE  \E f : OnlyBy(f, E, seq, wanted) /\ Only(seq, wanted) = f[Len(seq)]
<1> DEFINE N == Len(seq)
           Step(x, i) == IF seq[i] \in wanted THEN Append(x, seq[i]) ELSE x
           Eq(it) == it = [s \in SUBSET (1..N) |-> IF s = {} THEN <<>> ELSE Step(it[s \ {Max(s)}], Max(s))]
           it == CHOOSE it : Eq(it)
           g == [p \in (1..N) \X Seq(E) |-> Step(p[2], p[1])]
<1>1. N \in Nat /\ DOMAIN seq = 1..N /\ \A n \in 1..N : seq[n] \in E
  OBVIOUS
<1>2. Only(seq, wanted) = it[1..N]
  BY <1>1 DEF Only, FoldLeft, MapThenFoldSet
<1>3. <<>> \in Seq(E) /\ g \in StepsOn(N, Seq(E))
  BY <1>1 DEF StepsOn
<1>4. \A n \in 1..N, x \in Seq(E) : g[<<n, x>>] = Step(x, n)
  OBVIOUS
<1> HIDE DEF N, g, Step
<1>5. Eq(it)
  <2>1. PICK j : j \in [SUBSET (1..N) -> Seq(E)] /\ Folds(j, N, <<>>, g)
    <3> HIDE DEF Eq, it
    <3> QED
      BY <1>1, <1>3, Iteration
  <2>2. ASSUME NEW s \in SUBSET (1..N), s # {} PROVE j[s] = Step(j[s \ {Max(s)}], Max(s))
    <3>1. Max(s) \in 1..N /\ s \ {Max(s)} \in SUBSET (1..N)
      BY <1>1, <2>2, GreatestOf
    <3> QED
      BY <1>4, <2>1, <2>2, <3>1 DEF Folds
  <2>3. Eq(j)
    BY <2>1, <2>2 DEF Folds
  <2> QED
    BY <2>3
<1> HIDE DEF it
<1>6. ASSUME NEW s \in SUBSET (1..N), s # {}, it[s \ {Max(s)}] \in Seq(E)
      PROVE  it[s] = g[<<Max(s), it[s \ {Max(s)}]>>]
  <2>1. Max(s) \in 1..N
    BY <1>1, <1>6, GreatestOf
  <2> QED
    BY <1>4, <1>5, <1>6, <2>1
<1>7. FoldsWithin(it, N, Seq(E), <<>>, g)
  BY <1>5, <1>6 DEF FoldsWithin
<1> HIDE DEF Eq
<1>8. PICK f : CountsUp(f, N, Seq(E), <<>>, g) /\ it[1..N] = f[N]
  <2> DEFINE S == Seq(E)
             base == <<>>
  <2>1. N \in Nat /\ base \in S /\ g \in StepsOn(N, S) /\ FoldsWithin(it, N, S, base, g)
    BY <1>1, <1>3, <1>7
  <2> HIDE DEF S, base
  <2>2. \E f : CountsUp(f, N, S, base, g) /\ it[1..N] = f[N]
    BY <2>1, FoldSteps
  <2> QED
    BY <2>2 DEF S, base
<1>9. \A n \in 1..N : f[n] = Step(f[n - 1], n)
  <2> TAKE n \in 1..N
  <2>1. n - 1 \in 0..N
    BY <1>1
  <2> QED
    BY <1>4, <1>8, <2>1 DEF CountsUp
<1> QED
  BY <1>2, <1>8, <1>9 DEF N, Step, CountsUp, OnlyBy

-----------------------------------------------------------------------------
(* Sequences without repetition *)

\* What is appended comes to what there was.
LEMMA Appended ==
  ASSUME NEW E, NEW s \in Seq(E), NEW x \in E
  PROVE  /\ Append(s, x) \in Seq(E) /\ ToSet(Append(s, x)) = ToSet(s) \cup {x}
         /\ IsInjective(s) /\ x \notin ToSet(s) => IsInjective(Append(s, x))
<1> DEFINE n == Len(s)
           a == Append(s, x)
<1>1. /\ a \in Seq(E) /\ Len(a) = n + 1 /\ n \in Nat
      /\ \A i \in 1..n : a[i] = s[i]
      /\ a[n + 1] = x
  BY AppendProperties, LenProperties
<1>2. DOMAIN s = 1..n /\ DOMAIN a = 1..(n + 1)
  BY <1>1, LenProperties
<1>3. 1..(n + 1) = 1..n \cup {n + 1}
  BY <1>1
<1> HIDE DEF n, a
<1>4. ToSet(a) = ToSet(s) \cup {x}
  BY <1>1, <1>2, <1>3 DEF ToSet
<1>5. ASSUME IsInjective(s), x \notin ToSet(s) PROVE IsInjective(a)
  <2>1. \A i \in 1..n : a[i] # x
    BY <1>1, <1>2, <1>5 DEF ToSet
  <2> QED
    BY <1>1, <1>2, <1>3, <1>5, <2>1 DEF IsInjective
<1> QED
  BY <1>1, <1>4, <1>5 DEF a

\* Of two sequences one after the other.
LEMMA Concatenated ==
  ASSUME NEW E, NEW s \in Seq(E), NEW t \in Seq(E)
  PROVE  /\ s \o t \in Seq(E) /\ Len(s \o t) = Len(s) + Len(t) /\ ToSet(s \o t) = ToSet(s) \cup ToSet(t)
         /\ IsInjective(s) /\ IsInjective(t) /\ ToSet(s) \cap ToSet(t) = {} => IsInjective(s \o t)
<1> DEFINE m == Len(s)
           n == Len(t)
           c == s \o t
<1>1. /\ c \in Seq(E) /\ Len(c) = m + n /\ m \in Nat /\ n \in Nat
      /\ \A i \in 1..(m + n) : c[i] = IF i <= m THEN s[i] ELSE t[i - m]
  BY ConcatProperties, LenProperties
<1>2. DOMAIN s = 1..m /\ DOMAIN t = 1..n /\ DOMAIN c = 1..(m + n)
  BY <1>1, LenProperties
<1> HIDE DEF m, n, c
<1>3. \A i \in 1..m : i \in 1..(m + n) /\ c[i] = s[i]
  BY <1>1
<1>4. \A j \in 1..n : j + m \in 1..(m + n) /\ c[j + m] = t[j]
  <2> TAKE j \in 1..n
  <2>1. j + m \in 1..(m + n) /\ ~(j + m <= m) /\ (j + m) - m = j
    BY <1>1
  <2> QED
    BY <1>1, <2>1
<1>5. \A i \in 1..(m + n) : i \in 1..m \/ (i - m \in 1..n /\ c[i] = t[i - m] /\ (i - m) + m = i)
  BY <1>1
<1>6. ToSet(c) = ToSet(s) \cup ToSet(t)
  <2>1. ToSet(c) \subseteq ToSet(s) \cup ToSet(t)
    BY <1>2, <1>3, <1>5 DEF ToSet
  <2>2. ToSet(s) \subseteq ToSet(c)
    BY <1>2, <1>3 DEF ToSet
  <2>3. ToSet(t) \subseteq ToSet(c)
    BY <1>2, <1>4 DEF ToSet
  <2> QED
    BY <2>1, <2>2, <2>3
<1>7. ASSUME IsInjective(s), IsInjective(t), ToSet(s) \cap ToSet(t) = {} PROVE IsInjective(c)
  <2> SUFFICES ASSUME NEW i \in 1..(m + n), NEW j \in 1..(m + n), c[i] = c[j] PROVE i = j
    BY <1>2 DEF IsInjective
  <2>1. CASE i \in 1..m /\ j \in 1..m
    BY <1>2, <1>3, <1>7, <2>1 DEF IsInjective
  <2>2. CASE i \notin 1..m /\ j \notin 1..m
    <3>1. t[i - m] = t[j - m] /\ i - m \in 1..n /\ j - m \in 1..n
      BY <1>5, <2>2
    <3>2. i - m = j - m
      BY <1>2, <1>7, <3>1 DEF IsInjective
    <3> QED
      BY <1>1, <3>2
  <2>3. ASSUME NEW k \in 1..m, NEW l \in 1..n PROVE s[k] # t[l]
    BY <1>2, <1>7 DEF ToSet
  <2>4. CASE i \in 1..m /\ j \notin 1..m
    BY <1>3, <1>5, <2>3, <2>4
  <2>5. CASE i \notin 1..m /\ j \in 1..m
    BY <1>3, <1>5, <2>3, <2>5
  <2> QED
    BY <2>1, <2>2, <2>4, <2>5
<1> QED
  BY <1>1, <1>6, <1>7 DEF c, m, n

\* A sequence without repetition is as long as it has members.
LEMMA AsLongAs ==
  ASSUME NEW E, NEW s \in Seq(E), IsInjective(s)
  PROVE  IsFiniteSet(ToSet(s)) /\ Cardinality(ToSet(s)) = Len(s)
<1>1. Len(s) \in Nat /\ DOMAIN s = 1..Len(s) /\ s \in [1..Len(s) -> E]
  BY LenProperties
<1>2. s \in Bijection(1..Len(s), ToSet(s))
  BY <1>1 DEF Bijection, Injection, Surjection, ToSet
<1>3. IsFiniteSet(1..Len(s)) /\ Cardinality(1..Len(s)) = Len(s)
  BY <1>1, FS_Interval
<1> QED
  BY <1>2, <1>3, FS_Bijection DEF ExistsBijection

\* What Only keeps is what is wanted, and it repeats nothing.
LEMMA OnlyOf ==
  ASSUME NEW E, NEW seq \in Seq(E), NEW wanted
  PROVE  /\ Only(seq, wanted) \in Seq(E) /\ ToSet(Only(seq, wanted)) = ToSet(seq) \cap wanted
         /\ IsInjective(seq) => IsInjective(Only(seq, wanted))
<1>1. PICK f : OnlyBy(f, E, seq, wanted) /\ Only(seq, wanted) = f[Len(seq)]
  BY OnlySteps
<1> DEFINE N == Len(seq)
<1>2. N \in Nat /\ DOMAIN seq = 1..N /\ \A i \in 1..N : seq[i] \in E
  BY LenProperties, ElementOfSeq
<1> HIDE DEF N
<1> DEFINE Before(n) == {seq[i] : i \in 1..n}
           Good == {n \in 0..N : /\ ToSet(f[n]) = Before(n) \cap wanted
                                 /\ IsInjective(seq) => IsInjective(f[n])}
<1>3. 0 \in Good
  <2>1. Before(0) = {} /\ ToSet(<<>>) = {} /\ IsInjective(<<>>)
    BY DEF ToSet, IsInjective
  <2> QED
    BY <1>1, <1>2, <2>1 DEF OnlyBy
<1>4. ASSUME NEW n \in 0..N, n \in Good, n < N PROVE n + 1 \in Good
  <2>1. n + 1 \in 1..N /\ n + 1 \in 0..N /\ (n + 1) - 1 = n
    BY <1>2, <1>4
  <2>2. Before(n + 1) = Before(n) \cup {seq[n + 1]}
    <3>1. 1..(n + 1) = 1..n \cup {n + 1}
      BY <2>1
    <3> QED
      BY <3>1
  <2>3. IsInjective(seq) => seq[n + 1] \notin Before(n)
    <3> SUFFICES ASSUME IsInjective(seq), NEW i \in 1..n, seq[i] = seq[n + 1] PROVE FALSE
      OBVIOUS
    <3>1. i \in DOMAIN seq /\ n + 1 \in DOMAIN seq /\ i # n + 1
      BY <1>2, <2>1
    <3> QED
      BY <3>1 DEF IsInjective
  <2>4. f[n] \in Seq(E) /\ seq[n + 1] \in E
    BY <1>1, <1>2, <2>1 DEF OnlyBy
  <2> HIDE DEF Before
  <2>5. f[n + 1] = IF seq[n + 1] \in wanted THEN Append(f[n], seq[n + 1]) ELSE f[n]
    BY <1>1, <2>1 DEF OnlyBy, N
  <2>6. /\ ToSet(f[n]) = Before(n) \cap wanted
        /\ IsInjective(seq) => IsInjective(f[n])
    BY <1>4
  <2>7. CASE seq[n + 1] \in wanted
    <3>1. /\ ToSet(f[n + 1]) = ToSet(f[n]) \cup {seq[n + 1]}
          /\ IsInjective(f[n]) /\ seq[n + 1] \notin ToSet(f[n]) => IsInjective(f[n + 1])
      BY <2>4, <2>5, <2>7, Appended
    <3> QED
      BY <2>1, <2>2, <2>3, <2>6, <2>7, <3>1
  <2>8. CASE seq[n + 1] \notin wanted
    BY <2>1, <2>2, <2>5, <2>6, <2>8
  <2> QED
    BY <2>7, <2>8
<1> HIDE DEF Good
<1>5. 0..N \subseteq Good
  BY <1>2, <1>3, <1>4, CountUp
<1>6. N \in Good
  BY <1>2, <1>5
<1>7. Before(N) = ToSet(seq)
  BY <1>2 DEF ToSet
<1> HIDE DEF Before
<1> QED
  BY <1>1, <1>2, <1>6, <1>7 DEF Good, OnlyBy, N

-----------------------------------------------------------------------------
(* Tag rules: samples merged *)

\* A rule counts each of its sources once and is no longer than it may be.
Rule == {samples \in Seq(Tags) : IsInjective(samples) /\ Len(samples) <= MaxSamples}

\* Members are kept in their order, and those of an injective sequence are fewer than its members.
LEMMA LeftInOf ==
  ASSUME NEW samples \in Seq(Tags), IsInjective(samples), NEW sources
  PROVE  /\ LeftIn(samples, sources) \in Seq(Tags) /\ IsInjective(LeftIn(samples, sources))
         /\ ToSet(LeftIn(samples, sources)) = ToSet(samples) \ sources
         /\ Len(LeftIn(samples, sources)) <= Len(samples)
<1> DEFINE left == LeftIn(samples, sources)
<1>1. left \in Seq(Tags) /\ IsInjective(left) /\ ToSet(left) = ToSet(samples) \cap (ToSet(samples) \ sources)
  BY OnlyOf DEF LeftIn
<1>2. ToSet(left) \subseteq ToSet(samples)
  BY <1>1
<1>3. /\ IsFiniteSet(ToSet(samples)) /\ Cardinality(ToSet(samples)) = Len(samples)
      /\ Cardinality(ToSet(left)) = Len(left)
  BY <1>1, AsLongAs
<1>4. Cardinality(ToSet(left)) <= Cardinality(ToSet(samples))
  BY <1>2, <1>3, FS_Subset
<1> QED
  BY <1>1, <1>3, <1>4

\* A merged rule repeats nothing, holds what either did, and is no shorter than it was.
LEMMA MergedOf ==
  ASSUME NEW samples \in Seq(Tags), IsInjective(samples), NEW incoming \in Seq(Tags), IsInjective(incoming)
  PROVE  /\ Merged(samples, incoming) \in Seq(Tags) /\ IsInjective(Merged(samples, incoming))
         /\ ToSet(Merged(samples, incoming)) = ToSet(samples) \cup ToSet(incoming)
         /\ Len(samples) <= Len(Merged(samples, incoming))
<1> DEFINE left == LeftIn(samples, ToSet(incoming))
           merged == Merged(samples, incoming)
<1>1. left \in Seq(Tags) /\ IsInjective(left) /\ ToSet(left) = ToSet(samples) \ ToSet(incoming)
  BY LeftInOf
<1>2. merged = left \o incoming
  BY DEF Merged
<1> HIDE DEF left, merged
<1>3. /\ merged \in Seq(Tags) /\ IsInjective(merged)
      /\ ToSet(merged) = ToSet(samples) \cup ToSet(incoming)
  BY <1>1, <1>2, Concatenated
<1>4. /\ IsFiniteSet(ToSet(merged)) /\ Cardinality(ToSet(merged)) = Len(merged)
      /\ Cardinality(ToSet(samples)) = Len(samples)
  BY <1>3, AsLongAs
<1>5. Cardinality(ToSet(samples)) <= Cardinality(ToSet(merged))
  BY <1>3, <1>4, FS_Subset
<1> QED
  BY <1>3, <1>4, <1>5 DEF merged

\* A part of a sequence without repetition has none.
LEMMA PartOf ==
  ASSUME NEW samples \in Seq(Tags), IsInjective(samples), NEW from \in Nat \ {0}, NEW upto \in 0..Len(samples)
  PROVE  LET part == SubSeq(samples, from, upto)
         IN  /\ part \in Seq(Tags) /\ IsInjective(part)
             /\ Len(part) = IF from <= upto THEN upto - from + 1 ELSE 0
<1> DEFINE part == SubSeq(samples, from, upto)
           n == IF from <= upto THEN upto - from + 1 ELSE 0
<1>1. Len(samples) \in Nat /\ DOMAIN samples = 1..Len(samples)
  BY LenProperties
<1>2. n \in Nat /\ \A i \in 1..n : from + i - 1 \in 1..Len(samples)
  BY <1>1
<1>3. part \in Seq(Tags) /\ Len(part) = n /\ \A i \in 1..n : part[i] = samples[from + i - 1]
  <2>1. part = [i \in 1..n |-> samples[from + i - 1]]
    BY <1>1, <1>2
  <2>2. \A i \in 1..n : samples[from + i - 1] \in Tags
    BY <1>2, ElementOfSeq
  <2> QED
    BY <1>2, <2>1, <2>2
<1> HIDE DEF part
<1>4. DOMAIN part = 1..n
  BY <1>3, LenProperties
<1>5. ASSUME NEW i \in 1..n, NEW j \in 1..n, part[i] = part[j] PROVE i = j
  <2>1. from + i - 1 = from + j - 1
    BY <1>1, <1>2, <1>3, <1>5 DEF IsInjective
  <2> QED
    BY <2>1
<1>6. IsInjective(part)
  BY <1>4, <1>5 DEF IsInjective
<1> QED
  BY <1>3, <1>6 DEF part

\* A rule is cut to size at either end; what is not too long is left as it is, and what was too
\* long is full.
LEMMA CutOf ==
  ASSUME NEW samples \in Seq(Tags), IsInjective(samples), NEW cut \in {Newest(samples), Oldest(samples)}
  PROVE  /\ cut \in Rule
         /\ Len(samples) <= MaxSamples => cut = samples
         /\ Len(samples) >= MaxSamples => Len(cut) = MaxSamples
<1>1. Len(samples) \in Nat /\ MaxSamples \in Nat \ {0}
  BY TagAssumption
<1>2. CASE Len(samples) <= MaxSamples
  <2>1. cut = samples
    BY <1>1, <1>2 DEF Newest, Oldest
  <2> QED
    BY <1>1, <1>2, <2>1 DEF Rule
<1>3. CASE ~(Len(samples) <= MaxSamples)
  <2>1. /\ Len(samples) - MaxSamples + 1 \in Nat \ {0}
        /\ MaxSamples \in 0..Len(samples) /\ Len(samples) \in 0..Len(samples)
    BY <1>1, <1>3
  <2>2. \/ cut = SubSeq(samples, Len(samples) - MaxSamples + 1, Len(samples))
        \/ cut = SubSeq(samples, 1, MaxSamples)
    BY <1>1, <1>3 DEF Newest, Oldest
  <2>3. ASSUME NEW from \in Nat \ {0}, NEW upto \in 0..Len(samples), upto - from + 1 = MaxSamples,
               cut = SubSeq(samples, from, upto)
        PROVE  cut \in Rule /\ Len(cut) = MaxSamples
    <3>1. /\ cut \in Seq(Tags) /\ IsInjective(cut)
          /\ Len(cut) = IF from <= upto THEN upto - from + 1 ELSE 0
      BY <2>3, PartOf
    <3>2. from <= upto
      BY <1>1, <2>3
    <3> QED
      BY <1>1, <2>3, <3>1, <3>2 DEF Rule
  <2>4. /\ Len(samples) - (Len(samples) - MaxSamples + 1) + 1 = MaxSamples
        /\ MaxSamples - 1 + 1 = MaxSamples
    BY <1>1
  <2>5. cut \in Rule /\ Len(cut) = MaxSamples
    <3>1. CASE cut = SubSeq(samples, Len(samples) - MaxSamples + 1, Len(samples))
      BY <2>1, <2>3, <2>4, <3>1
    <3>2. CASE cut = SubSeq(samples, 1, MaxSamples)
      <4> DEFINE from == 1
      <4>1. from \in Nat \ {0} /\ MaxSamples - from + 1 = MaxSamples /\ cut = SubSeq(samples, from, MaxSamples)
        BY <2>4, <3>2
      <4> HIDE DEF from
      <4> QED
        BY <2>1, <2>3, <4>1
    <3> QED
      BY <2>2, <3>1, <3>2
  <2> QED
    BY <1>3, <2>5
<1> QED
  BY <1>2, <1>3

\* What comes of merging samples into a rule and cutting it: a rule that holds what either held,
\* or is full, and stays full.
LEMMA CutMergedOf ==
  ASSUME NEW samples \in Rule, NEW incoming \in Seq(Tags), IsInjective(incoming),
         NEW cut \in {Newest(Merged(samples, incoming)), Oldest(Merged(samples, incoming))}
  PROVE  /\ cut \in Rule
         /\ ToSet(cut) = ToSet(samples) \cup ToSet(incoming) \/ Len(cut) = MaxSamples
         /\ Len(samples) = MaxSamples => Len(cut) = MaxSamples
<1> DEFINE merged == Merged(samples, incoming)
<1>1. samples \in Seq(Tags) /\ IsInjective(samples) /\ Len(samples) \in Nat /\ MaxSamples \in Nat
  BY TagAssumption DEF Rule
<1>2. /\ merged \in Seq(Tags) /\ IsInjective(merged) /\ Len(merged) \in Nat
      /\ ToSet(merged) = ToSet(samples) \cup ToSet(incoming)
      /\ Len(samples) <= Len(merged)
  BY <1>1, MergedOf
<1> HIDE DEF merged
<1>3. cut \in {Newest(merged), Oldest(merged)}
  BY DEF merged
<1>4. /\ cut \in Rule
      /\ Len(merged) <= MaxSamples => cut = merged
      /\ Len(merged) >= MaxSamples => Len(cut) = MaxSamples
  BY <1>2, <1>3, CutOf
<1> QED
  BY <1>1, <1>2, <1>4

\* A pool after each of the rules merged into it.
PooledBy(f, samples, ids) ==
  /\ f \in [0..Len(ids) -> Rule] /\ f[0] = samples
  /\ \A n \in 1..Len(ids) : f[n] = Oldest(Merged(f[n - 1], rules[ids[n]]))

\* Pooled goes through the rules one by one.
LEMMA PooledSteps ==
  ASSUME rules \in [RuleKeys -> Rule], NEW samples \in Rule, NEW ids \in Seq(RuleKeys)
  PROVE  \E f : PooledBy(f, samples, ids) /\ Pooled(samples, ids) = f[Len(ids)]
<1> DEFINE N == Len(ids)
           Step(x, i) == Oldest(Merged(x, rules[ids[i]]))
           Eq(it) == it = [s \in SUBSET (1..N) |-> IF s = {} THEN samples ELSE Step(it[s \ {Max(s)}], Max(s))]
           it == CHOOSE it : Eq(it)
           g == [p \in (1..N) \X Rule |-> Step(p[2], p[1])]
<1>1. N \in Nat /\ DOMAIN ids = 1..N /\ \A n \in 1..N : ids[n] \in RuleKeys
  OBVIOUS
<1>2. Pooled(samples, ids) = it[1..N]
  BY <1>1 DEF Pooled, FoldLeft, MapThenFoldSet
<1>3. \A n \in 1..N, x \in Rule : g[<<n, x>>] = Step(x, n)
  OBVIOUS
<1>4. g \in StepsOn(N, Rule)
  <2>1. ASSUME NEW n \in 1..N, NEW x \in Rule PROVE Step(x, n) \in Rule
    <3>1. rules[ids[n]] \in Seq(Tags) /\ IsInjective(rules[ids[n]])
      BY <1>1 DEF Rule
    <3> QED
      BY <3>1, CutMergedOf
  <2> HIDE DEF Step, N
  <2> QED
    BY <2>1 DEF StepsOn
<1> HIDE DEF N, g, Step
<1>5. Eq(it)
  <2>1. PICK j : j \in [SUBSET (1..N) -> Rule] /\ Folds(j, N, samples, g)
    <3> HIDE DEF Eq, it
    <3> QED
      BY <1>1, <1>4, Iteration
  <2>2. ASSUME NEW s \in SUBSET (1..N), s # {} PROVE j[s] = Step(j[s \ {Max(s)}], Max(s))
    <3>1. Max(s) \in 1..N /\ s \ {Max(s)} \in SUBSET (1..N)
      BY <1>1, <2>2, GreatestOf
    <3> QED
      BY <1>3, <2>1, <2>2, <3>1 DEF Folds
  <2>3. Eq(j)
    BY <2>1, <2>2 DEF Folds
  <2> QED
    BY <2>3
<1> HIDE DEF it
<1>6. ASSUME NEW s \in SUBSET (1..N), s # {}, it[s \ {Max(s)}] \in Rule
      PROVE  it[s] = g[<<Max(s), it[s \ {Max(s)}]>>]
  <2>1. Max(s) \in 1..N
    BY <1>1, <1>6, GreatestOf
  <2> QED
    BY <1>3, <1>5, <1>6, <2>1
<1>7. FoldsWithin(it, N, Rule, samples, g)
  BY <1>5, <1>6 DEF FoldsWithin
<1> HIDE DEF Eq
<1>8. PICK f : CountsUp(f, N, Rule, samples, g) /\ it[1..N] = f[N]
  BY <1>1, <1>4, <1>7, FoldSteps
<1>9. \A n \in 1..N : f[n] = Step(f[n - 1], n)
  <2> TAKE n \in 1..N
  <2>1. n - 1 \in 0..N
    BY <1>1
  <2> QED
    BY <1>3, <1>8, <2>1 DEF CountsUp
<1> QED
  BY <1>2, <1>8, <1>9 DEF N, Step, CountsUp, PooledBy

\* The tags a rule and those merged into it were learned from.
PooledSources(samples, ids, n) == ToSet(samples) \cup UNION {SourcesIn(ids[i]) : i \in 1..n}

\* A pool is a rule, and it holds what any of the rules held, unless it is full.
LEMMA PooledOf ==
  ASSUME rules \in [RuleKeys -> Rule], NEW samples \in Rule, NEW ids \in Seq(RuleKeys)
  PROVE  /\ Pooled(samples, ids) \in Rule
         /\ \/ ToSet(Pooled(samples, ids)) = ToSet(samples) \cup UNION {SourcesIn(o) : o \in ToSet(ids)}
            \/ Len(Pooled(samples, ids)) = MaxSamples
<1>1. PICK f : PooledBy(f, samples, ids) /\ Pooled(samples, ids) = f[Len(ids)]
  BY PooledSteps
<1> DEFINE N == Len(ids)
           Good == {n \in 0..N : ToSet(f[n]) = PooledSources(samples, ids, n) \/ Len(f[n]) = MaxSamples}
<1>2. N \in Nat /\ DOMAIN ids = 1..N /\ \A n \in 1..N : ids[n] \in RuleKeys
  BY LenProperties, ElementOfSeq
<1> HIDE DEF N
<1>3. 0 \in Good
  <2>1. f[0] = samples /\ PooledSources(samples, ids, 0) = ToSet(samples)
    BY <1>1 DEF PooledBy, PooledSources
  <2> QED
    BY <1>2, <2>1
<1>4. ASSUME NEW n \in 0..N, n \in Good, n < N PROVE n + 1 \in Good
  <2>1. n + 1 \in 1..N /\ n + 1 \in 0..N /\ (n + 1) - 1 = n
    BY <1>2, <1>4
  <2>2. f[n] \in Rule /\ f[n + 1] = Oldest(Merged(f[n], rules[ids[n + 1]]))
    BY <1>1, <2>1 DEF PooledBy, N
  <2>3. rules[ids[n + 1]] \in Seq(Tags) /\ IsInjective(rules[ids[n + 1]])
    BY <1>2, <2>1 DEF Rule
  <2>4. /\ ToSet(f[n + 1]) = ToSet(f[n]) \cup SourcesIn(ids[n + 1]) \/ Len(f[n + 1]) = MaxSamples
        /\ Len(f[n]) = MaxSamples => Len(f[n + 1]) = MaxSamples
    BY <2>2, <2>3, CutMergedOf DEF SourcesIn
  <2>5. PooledSources(samples, ids, n + 1) = PooledSources(samples, ids, n) \cup SourcesIn(ids[n + 1])
    <3>1. 1..(n + 1) = 1..n \cup {n + 1}
      BY <2>1
    <3> QED
      BY <3>1 DEF PooledSources
  <2> QED
    BY <1>4, <2>1, <2>4, <2>5
<1> HIDE DEF Good
<1>5. 0..N \subseteq Good
  BY <1>2, <1>3, <1>4, CountUp
<1>6. N \in Good
  BY <1>2, <1>5
<1>7. PooledSources(samples, ids, N) = ToSet(samples) \cup UNION {SourcesIn(o) : o \in ToSet(ids)}
  BY <1>2 DEF PooledSources, ToSet
<1>8. f[N] \in Rule
  BY <1>1, <1>2 DEF PooledBy, N
<1> QED
  BY <1>1, <1>6, <1>7, <1>8 DEF Good, N

\* An order of a finite set holds each of its members once.
LEMMA OrderOf ==
  ASSUME NEW S, IsFiniteSet(S), NEW order \in SetToSeqs(S)
  PROVE  order \in Seq(S) /\ IsInjective(order) /\ ToSet(order) = S
<1>1. Cardinality(S) \in Nat
  BY FS_CardinalityType
<1> DEFINE N == Cardinality(S)
<1>2. order \in [1..N -> S] /\ \A i, j \in 1..N : i # j => order[i] # order[j]
  BY DEF SetToSeqs
<1>3. order \in Seq(S) /\ Len(order) = N /\ DOMAIN order = 1..N
  BY <1>1, <1>2
<1>4. IsInjective(order)
  BY <1>2, <1>3 DEF IsInjective
<1>5. Cardinality(ToSet(order)) = N
  BY <1>3, <1>4, AsLongAs
<1>6. ToSet(order) \subseteq S
  BY <1>2, <1>3 DEF ToSet
<1>7. ToSet(order) = S
  BY <1>5, <1>6, FS_Subset
<1> QED
  BY <1>3, <1>4, <1>7

\* Bound keys are keys of rules, and a rule made generic has one too.
LEMMA KeysAreRules ==
  ASSUME NEW b \in Drawn
  PROVE  BoundKeys(b) \subseteq RuleKeys /\ \A k \in RuleKeys : GenericOf(k) \in RuleKeys
<1>1. BoundKeys(b) \subseteq RuleKeys
  BY DEF RuleKeys
<1>2. ASSUME NEW k \in RuleKeys PROVE GenericOf(k) \in RuleKeys
  <2>1. \E inst, bl : k \in [code : Codes, blueprint : {bl}, instance : inst]
    BY DEF RuleKeys, GenericKeys, BoundKeys
  <2>2. GenericOf(k) \in GenericKeys
    BY <2>1 DEF GenericOf, GenericKeys
  <2> QED
    BY <2>2 DEF RuleKeys
<1> QED
  BY <1>1, <1>2

-----------------------------------------------------------------------------
(* Tag rules: the invariant *)

\* Every rule, and every exported one, counts each of its sources once.
RulesFit == rules \in [RuleKeys -> Rule] /\ exported \in [RuleKeys -> Rule]

\* A rule without samples is one.
LEMMA NoSamples == <<>> \in Rule
<1>1. <<>> \in Seq(Tags) /\ Len(<<>>) = 0 /\ DOMAIN <<>> = {}
  OBVIOUS
<1> QED
  BY <1>1, TagAssumption DEF Rule, IsInjective

\* No rule is filed to begin with.
LEMMA RulesStart == TagInit => RulesFit
  BY NoSamples DEF TagInit, RulesFit

\* What a push makes of a rule.
LEMMA ObservedRule ==
  ASSUME RulesFit, NEW some \in SUBSET Tags, NEW order \in SetToSeqs(some), NEW wanted, NEW k \in RuleKeys
  PROVE  /\ ToSet(order) = some
         /\ LET cut == Newest(Merged(rules[k], Only(order, wanted)))
            IN  /\ cut \in Rule
                /\ ToSet(cut) = SourcesIn(k) \cup (some \cap wanted) \/ Len(cut) = MaxSamples
         /\ LET left == LeftIn(rules[k], ToSet(order))
            IN  left \in Rule /\ ToSet(left) = SourcesIn(k) \ some
<1>1. IsFiniteSet(some)
  BY RulesAreListed, FS_Subset
<1>2. order \in Seq(some) /\ IsInjective(order) /\ ToSet(order) = some
  BY <1>1, OrderOf
<1>3. order \in Seq(Tags)
  BY <1>2
<1>4. rules[k] \in Rule
  BY DEF RulesFit
<1>5. rules[k] \in Seq(Tags) /\ IsInjective(rules[k]) /\ Len(rules[k]) <= MaxSamples /\ Len(rules[k]) \in Nat
  BY <1>4 DEF Rule
<1> DEFINE part == Only(order, wanted)
           cut == Newest(Merged(rules[k], part))
           left == LeftIn(rules[k], ToSet(order))
<1>6. part \in Seq(Tags) /\ IsInjective(part) /\ ToSet(part) = some \cap wanted
  BY <1>2, <1>3, OnlyOf
<1> HIDE DEF part
<1>7. cut \in Rule /\ (ToSet(cut) = ToSet(rules[k]) \cup ToSet(part) \/ Len(cut) = MaxSamples)
  BY <1>4, <1>6, CutMergedOf
<1>8. /\ left \in Seq(Tags) /\ IsInjective(left) /\ ToSet(left) = ToSet(rules[k]) \ ToSet(order)
      /\ Len(left) <= Len(rules[k])
  BY <1>5, LeftInOf
<1>9. left \in Rule
  <2>1. Len(left) <= MaxSamples
    BY <1>5, <1>8, TagAssumption, LenProperties
  <2> QED
    BY <1>8, <2>1 DEF Rule
<1> QED
  BY <1>2, <1>6, <1>7, <1>8, <1>9 DEF part, SourcesIn

\* A push, as far as it gets, leaves rules.
LEMMA ObservedFit ==
  ASSUME RulesFit, NEW some \in SUBSET Tags, NEW order \in SetToSeqs(some), NEW key, Observe(order, key)
  PROVE  RulesFit'
<1> DEFINE touched == {key[t] : t \in ToSet(order)}
           others == {k \in RuleKeys \ touched : SourcesIn(k) \cap ToSet(order) # {}}
<1>1. PICK done \in SUBSET (touched \cup others) :
         rules' = [k \in RuleKeys |->
                  IF k \notin done THEN rules[k]
                  ELSE IF k \in touched THEN Newest(Merged(rules[k], Only(order, {t \in ToSet(order) : key[t] = k})))
                  ELSE LeftIn(rules[k], ToSet(order))]
  BY DEF Observe
<1>2. exported' = exported
  BY DEF Observe
<1>3. \A k \in RuleKeys : /\ rules[k] \in Rule /\ LeftIn(rules[k], ToSet(order)) \in Rule
                          /\ Newest(Merged(rules[k], Only(order, {t \in ToSet(order) : key[t] = k}))) \in Rule
  BY ObservedRule DEF RulesFit
<1> HIDE DEF touched
<1> QED
  BY <1>1, <1>2, <1>3 DEF RulesFit

\* What an unlinking makes of a generic rule.
LEMMA UnlinkedRule ==
  ASSUME RulesFit, NEW orphans \in SUBSET RuleKeys, NEW ids \in SetToSeqs(orphans), NEW wanted, NEW k \in RuleKeys
  PROVE  LET pool == Pooled(rules[k], Only(ids, wanted))
         IN  /\ pool \in Rule
             /\ \/ ToSet(pool) = SourcesIn(k) \cup UNION {SourcesIn(o) : o \in orphans \cap wanted}
                \/ Len(pool) = MaxSamples
<1>1. IsFiniteSet(orphans)
  BY RulesAreListed, FS_Subset
<1>2. ids \in Seq(orphans) /\ ToSet(ids) = orphans
  BY <1>1, OrderOf
<1>3. ids \in Seq(RuleKeys)
  BY <1>2
<1> DEFINE part == Only(ids, wanted)
<1>4. part \in Seq(RuleKeys) /\ ToSet(part) = orphans \cap wanted
  BY <1>2, <1>3, OnlyOf
<1> HIDE DEF part
<1>5. rules \in [RuleKeys -> Rule] /\ rules[k] \in Rule
  BY DEF RulesFit
<1>6. /\ Pooled(rules[k], part) \in Rule
      /\ \/ ToSet(Pooled(rules[k], part)) = ToSet(rules[k]) \cup UNION {SourcesIn(o) : o \in ToSet(part)}
         \/ Len(Pooled(rules[k], part)) = MaxSamples
  BY <1>4, <1>5, PooledOf
<1> QED
  BY <1>4, <1>6 DEF part, SourcesIn

\* So does an unlinking.
LEMMA UnlinkedFit ==
  ASSUME RulesFit, NEW b \in Drawn, NEW keep, Unlink(b, keep)
  PROVE  RulesFit'
<1> DEFINE orphans == {k \in BoundKeys(b) : rules[k] # <<>> /\ k \notin keep}
           changed == {GenericOf(k) : k \in orphans}
<1>1. PICK ids \in SetToSeqs(orphans), done \in SUBSET (changed \cup orphans) :
         rules' = [k \in RuleKeys |->
                  IF k \notin done THEN rules[k]
                  ELSE IF k \in orphans THEN <<>>
                  ELSE Pooled(rules[k], Only(ids, {o \in orphans : GenericOf(o) = k}))]
  BY DEF Unlink
<1>2. exported' = exported
  BY DEF Unlink
<1>3. orphans \in SUBSET RuleKeys
  BY KeysAreRules
<1> HIDE DEF orphans, changed
<1>4. \A k \in RuleKeys : rules[k] \in Rule /\ Pooled(rules[k], Only(ids, {o \in orphans : GenericOf(o) = k})) \in Rule
  BY <1>3, UnlinkedRule DEF RulesFit
<1> QED
  BY <1>1, <1>2, <1>4, NoSamples DEF RulesFit

\* So does an import.
LEMMA ImportedFit ==
  ASSUME RulesFit, NEW b \in Drawn, Import(b)
  PROVE  RulesFit'
<1> DEFINE Bound(k) == [k EXCEPT !.blueprint = b]
           sent == {k \in RuleKeys : exported[k] # <<>>}
<1>1. PICK done \in SUBSET sent :
         rules' = [k \in RuleKeys |->
                  IF \E o \in done : Bound(o) = k
                  THEN exported[CHOOSE o \in done : Bound(o) = k] ELSE rules[k]]
  BY DEF Import
<1>2. exported' = exported
  BY DEF Import
<1>3. ASSUME NEW k \in RuleKeys, \E o \in done : Bound(o) = k
      PROVE  exported[CHOOSE o \in done : Bound(o) = k] \in Rule
  <2>1. (CHOOSE o \in done : Bound(o) = k) \in RuleKeys
    BY <1>3
  <2> QED
    BY <2>1 DEF RulesFit
<1> HIDE DEF Bound
<1> QED
  BY <1>1, <1>2, <1>3 DEF RulesFit

\* Whatever is done leaves rules.
LEMMA RulesStayFit == RulesFit /\ [TagNext]_tagVars => RulesFit'
<1> SUFFICES ASSUME RulesFit, [TagNext]_tagVars PROVE RulesFit'
  OBVIOUS
<1>1. ASSUME NEW some \in SUBSET Tags, NEW order \in SetToSeqs(some), NEW key, Observe(order, key) PROVE RulesFit'
  BY <1>1, ObservedFit
<1>2. ASSUME NEW b \in Drawn, ExportBound(b) PROVE RulesFit'
  BY <1>2, NoSamples DEF ExportBound, RulesFit
<1>3. ASSUME NEW b \in Drawn, Import(b) PROVE RulesFit'
  BY <1>3, ImportedFit
<1>4. ASSUME NEW b \in Drawn, NEW keep, Unlink(b, keep) PROVE RulesFit'
  BY <1>4, UnlinkedFit
<1>5. ASSUME NEW k \in RuleKeys, Delete(k) PROVE RulesFit'
  BY <1>5, NoSamples DEF Delete, RulesFit
<1>6. CASE UNCHANGED tagVars
  BY <1>6 DEF RulesFit, tagVars
<1> QED
  BY <1>1, <1>2, <1>3, <1>4, <1>5, <1>6 DEF TagNext

\* Each rule counts every source once, for any number of tags, rules and blueprints.
THEOREM RulesCountOnce == TagSpec => []CountedOnce
<1>1. RulesFit => CountedOnce
  BY DEF RulesFit, CountedOnce, Rule
<1> QED
  BY <1>1, RulesStart, RulesStayFit, PTL DEF TagSpec

\* A rule holds samples of tags, and never more than it may.
THEOREM RulesAreTyped == TagSpec => []TagTypeOK
<1>1. RulesFit => TagTypeOK
  <2> SUFFICES ASSUME RulesFit, NEW k \in RuleKeys PROVE SourcesIn(k) \subseteq Tags /\ Len(rules[k]) <= MaxSamples
    BY DEF RulesFit, TagTypeOK
  <2>1. rules[k] \in Seq(Tags) /\ Len(rules[k]) <= MaxSamples
    BY DEF RulesFit, Rule
  <2> QED
    BY <2>1 DEF SourcesIn, ToSet
<1> QED
  BY <1>1, RulesStart, RulesStayFit, PTL DEF TagSpec

-----------------------------------------------------------------------------
(* Tag rules: what is lost *)

\* What LearnedIsKept says of a step.
TagsKept ==
    \A t \in Tags : Held(t) /\ ~Held(t)' =>
          \/ \E k \in RuleKeys : t \in SourcesIn(k) /\ Delete(k)
          \/ \E b \in Drawn : Import(b)
          \/ \E k \in RuleKeys :
                /\ Len(rules[k]') = MaxSamples
                /\ \/ \E o \in RuleKeys : t \in SourcesIn(o) /\ k \in {o, GenericOf(o)}
                   \/ PushedTo(t, k)

\* What nothing holds is in no rule.
LEMMA NotHeld ==
  ASSUME NEW t \in Tags, ~Held(t)', NEW k \in RuleKeys
  PROVE  t \notin ToSet(rules'[k])
BY DEF Held, SourcesIn

\* A push leaves a tag in the rule it had, or puts it into the rule it has now, which is written
\* first.
LEMMA ObservedKept ==
  ASSUME RulesFit, NEW some \in SUBSET Tags, NEW order \in SetToSeqs(some), NEW key \in [some -> RuleKeys],
         Observe(order, key)
  PROVE  TagsKept
<1>0. \A t \in some : PushedTo(t, key[t])
  BY DEF PushedTo
<1> SUFFICES ASSUME NEW t \in Tags, ~Held(t)', NEW k \in RuleKeys, t \in SourcesIn(k)
             PROVE  \E j \in RuleKeys : Len(rules'[j]) = MaxSamples /\ (j = k \/ (t \in some /\ j = key[t]))
  BY <1>0 DEF TagsKept, Held
<1> DEFINE touched == {key[u] : u \in ToSet(order)}
           others == {j \in RuleKeys \ touched : SourcesIn(j) \cap ToSet(order) # {}}
           Cut(j) == Newest(Merged(rules[j], Only(order, {u \in ToSet(order) : key[u] = j})))
           Left(j) == LeftIn(rules[j], ToSet(order))
<1>1. PICK done \in SUBSET (touched \cup others) :
         /\ Reaches(done, touched, others)
         /\ rules' = [j \in RuleKeys |->
                  IF j \notin done THEN rules[j] ELSE IF j \in touched THEN Cut(j) ELSE Left(j)]
  BY DEF Observe
<1>2. ToSet(order) = some /\ \A j \in RuleKeys :
         /\ ToSet(Left(j)) = SourcesIn(j) \ some
         /\ \/ ToSet(Cut(j)) = SourcesIn(j) \cup (some \cap {u \in ToSet(order) : key[u] = j})
            \/ Len(Cut(j)) = MaxSamples
  <2>1. ToSet(order) = some
    BY ObservedRule
  <2>2. ASSUME NEW j \in RuleKeys
        PROVE  /\ ToSet(Left(j)) = SourcesIn(j) \ some
               /\ \/ ToSet(Cut(j)) = SourcesIn(j) \cup (some \cap {u \in ToSet(order) : key[u] = j})
                  \/ Len(Cut(j)) = MaxSamples
    <3> DEFINE wanted == {u \in ToSet(order) : key[u] = j}
    <3> HIDE DEF wanted
    <3>1. /\ ToSet(LeftIn(rules[j], ToSet(order))) = SourcesIn(j) \ some
          /\ LET cut == Newest(Merged(rules[j], Only(order, wanted)))
             IN  ToSet(cut) = SourcesIn(j) \cup (some \cap wanted) \/ Len(cut) = MaxSamples
      BY ObservedRule
    <3> QED
      BY <3>1 DEF wanted
  <2> QED
    BY <2>1, <2>2
<1>3. \A u \in some : key[u] \in RuleKeys /\ key[u] \in touched
  BY <1>2
<1> HIDE DEF Cut, Left, others
<1>4. \A j \in RuleKeys : t \notin ToSet(rules'[j])
  BY NotHeld
<1>5. \A j \in RuleKeys \cap done \cap touched : rules'[j] = Cut(j)
  BY <1>1
<1>6. k \in done
  BY <1>1, <1>4 DEF SourcesIn
<1>7. CASE k \in touched
  <2>1. t \notin ToSet(Cut(k))
    BY <1>4, <1>5, <1>6, <1>7
  <2>2. Len(Cut(k)) = MaxSamples /\ rules'[k] = Cut(k)
    BY <1>2, <1>5, <1>6, <1>7, <2>1
  <2> QED
    BY <2>2
<1>8. CASE k \notin touched
  <2>1. rules'[k] = Left(k)
    BY <1>1, <1>6, <1>8
  <2>2. t \in some
    BY <1>2, <1>4, <2>1
  <2>3. key[t] \in RuleKeys \cap done \cap touched
    BY <1>1, <1>3, <1>6, <1>8, <2>2 DEF Reaches
  <2>4. t \notin ToSet(Cut(key[t]))
    BY <1>4, <1>5, <2>3
  <2>5. Len(Cut(key[t])) = MaxSamples
    BY <1>2, <2>2, <2>3, <2>4
  <2> QED
    BY <1>5, <2>2, <2>3, <2>5
<1> QED
  BY <1>7, <1>8

\* An unlinking leaves a tag in its rule, or in the generic rule it is merged into before the
\* bound one is removed.
LEMMA UnlinkedKept ==
  ASSUME RulesFit, NEW b \in Drawn, NEW keep, Unlink(b, keep)
  PROVE  TagsKept
<1> SUFFICES ASSUME NEW t \in Tags, ~Held(t)', NEW k \in RuleKeys, t \in SourcesIn(k)
             PROVE  \E j \in RuleKeys : Len(rules'[j]) = MaxSamples /\ j \in {k, GenericOf(k)}
  BY DEF TagsKept, Held
<1> DEFINE orphans == {j \in BoundKeys(b) : rules[j] # <<>> /\ j \notin keep}
           changed == {GenericOf(j) : j \in orphans}
<1>1. PICK ids \in SetToSeqs(orphans), done \in SUBSET (changed \cup orphans) :
         /\ Reaches(done, changed, orphans)
         /\ rules' = [j \in RuleKeys |->
                  IF j \notin done THEN rules[j]
                  ELSE IF j \in orphans THEN <<>>
                  ELSE Pooled(rules[j], Only(ids, {o \in orphans : GenericOf(o) = j}))]
  BY DEF Unlink
<1> DEFINE Pool(j) == Pooled(rules[j], Only(ids, {o \in orphans : GenericOf(o) = j}))
<1>2. orphans \in SUBSET RuleKeys /\ \A o \in orphans : GenericOf(o) \in RuleKeys
  BY KeysAreRules
<1>3. \A o \in orphans : GenericOf(o) \in changed
  OBVIOUS
<1>4. \A o \in orphans : GenericOf(o) \notin orphans
  <2> TAKE o \in orphans
  <2>1. o \in BoundKeys(b)
    OBVIOUS
  <2>2. GenericOf(o).blueprint = Nothing
    BY <2>1 DEF GenericOf, BoundKeys
  <2>3. \A j \in BoundKeys(b) : j.blueprint = b
    BY DEF BoundKeys
  <2> QED
    BY <2>2, <2>3, RulesAreListed
<1>5. \A j \in changed : j \notin orphans
  BY <1>4
<1> HIDE DEF orphans, changed
<1>6. \A j \in RuleKeys :
         \/ ToSet(Pool(j)) = SourcesIn(j) \cup UNION {SourcesIn(o) : o \in orphans \cap {o \in orphans : GenericOf(o) = j}}
         \/ Len(Pool(j)) = MaxSamples
  BY <1>2, UnlinkedRule
<1>7. \A j \in RuleKeys \cap done : j \notin orphans => rules'[j] = Pool(j)
  BY <1>1
<1> HIDE DEF Pool
<1>8. \A j \in RuleKeys : t \notin ToSet(rules'[j])
  BY NotHeld
<1>9. k \in done
  BY <1>1, <1>8 DEF SourcesIn
<1>10. CASE k \notin orphans
  BY <1>6, <1>7, <1>8, <1>9, <1>10
<1>11. CASE k \in orphans
  <2> DEFINE j == GenericOf(k)
  <2>1. j \in RuleKeys /\ j \notin orphans /\ j \in changed
    BY <1>2, <1>3, <1>4, <1>11
  <2>2. j \in done
    BY <1>1, <1>5, <1>9, <1>11, <2>1 DEF Reaches
  <2>3. t \in UNION {SourcesIn(o) : o \in orphans \cap {o \in orphans : GenericOf(o) = j}}
    BY <1>11
  <2>4. j \in {k, GenericOf(k)}
    OBVIOUS
  <2> HIDE DEF j
  <2>5. rules'[j] = Pool(j) /\ t \notin ToSet(Pool(j))
    BY <1>7, <1>8, <2>1, <2>2
  <2> QED
    BY <1>6, <2>1, <2>3, <2>4, <2>5
<1> QED
  BY <1>10, <1>11

\* No step loses what was learned in another way.
LEMMA NextKeeps == RulesFit /\ [TagNext]_tagVars => TagsKept \/ UNCHANGED tagVars
<1> SUFFICES ASSUME RulesFit, TagNext PROVE TagsKept
  OBVIOUS
<1>1. ASSUME NEW some \in SUBSET Tags, NEW order \in SetToSeqs(some), NEW key \in [some -> RuleKeys], Observe(order, key)
      PROVE  TagsKept
  BY <1>1, ObservedKept
<1>2. ASSUME NEW b \in Drawn, ExportBound(b) PROVE TagsKept
  BY <1>2 DEF ExportBound, TagsKept, Held, SourcesIn
<1>3. ASSUME NEW b \in Drawn, Import(b) PROVE TagsKept
  BY <1>3 DEF TagsKept
<1>4. ASSUME NEW b \in Drawn, NEW keep, Unlink(b, keep) PROVE TagsKept
  BY <1>4, UnlinkedKept
<1>5. ASSUME NEW d \in RuleKeys, Delete(d) PROVE TagsKept
  <2>1. \A k \in RuleKeys : k # d => rules'[k] = rules[k]
    BY <1>5 DEF Delete, RulesFit
  <2> SUFFICES ASSUME NEW t \in Tags, ~Held(t)', NEW k \in RuleKeys, t \in SourcesIn(k) PROVE k = d
    BY <1>5 DEF TagsKept, Held
  <2> QED
    BY <2>1 DEF Held, SourcesIn
<1> QED
  BY <1>1, <1>2, <1>3, <1>4, <1>5 DEF TagNext

\* What was learned from a tag is lost only by a deletion, an import over its rule or a rule that
\* is full: whichever files a push or an unlinking that stops half way got to write.
THEOREM LearningIsKept == TagSpec => LearnedIsKept
<1>1. RulesFit /\ [TagNext]_tagVars => [TagsKept]_tagVars
  BY NextKeeps
<1> QED
  BY <1>1, RulesStart, RulesStayFit, PTL DEF TagSpec, LearnedIsKept, TagsKept

-----------------------------------------------------------------------------
(* The graph of rooms: union and find *)

\* What joins two rooms in scope.
Wire(e) == e.a # e.b /\ e.a \in Nodes /\ e.b \in Nodes
WiresOf(facts) == \A k \in DOMAIN facts : Wire(facts[k])

\* Classes after each edge.
ClassesBy(f, edges) ==
  /\ f \in [0..Len(edges) -> [Nodes -> Nodes]] /\ f[0] = [n \in Nodes |-> n]
  /\ \A k \in 1..Len(edges) : f[k] = Merging(f[k - 1], edges[k])

\* Classes goes through the edges one by one.
LEMMA ClassesSteps ==
  ASSUME NEW E, NEW edges \in Seq(E), WiresOf(edges)
  PROVE  \E f : ClassesBy(f, edges) /\ Classes(edges) = f[Len(edges)]
<1> DEFINE N == Len(edges)
           S == [Nodes -> Nodes]
           base == [n \in Nodes |-> n]
           Step(x, i) == Merging(x, edges[i])
           Eq(it) == it = [s \in SUBSET (1..N) |-> IF s = {} THEN base ELSE Step(it[s \ {Max(s)}], Max(s))]
           it == CHOOSE it : Eq(it)
           g == [p \in (1..N) \X S |-> Step(p[2], p[1])]
<1>1. N \in Nat /\ DOMAIN edges = 1..N /\ base \in S
  OBVIOUS
<1>2. Classes(edges) = it[1..N]
  BY <1>1 DEF Classes, FoldLeft, MapThenFoldSet
<1>3. \A n \in 1..N, x \in S : g[<<n, x>>] = Step(x, n)
  OBVIOUS
<1>4. g \in StepsOn(N, S)
  <2>1. ASSUME NEW n \in 1..N, NEW x \in S PROVE Step(x, n) \in S
    <3>1. edges[n].b \in Nodes
      BY <1>1 DEF WiresOf, Wire
    <3> QED
      BY <3>1 DEF Merging
  <2> HIDE DEF Step, N, S
  <2> QED
    BY <2>1 DEF StepsOn
<1> HIDE DEF N, g, Step, S, base
<1>5. Eq(it)
  <2>1. PICK j : j \in [SUBSET (1..N) -> S] /\ Folds(j, N, base, g)
    <3> HIDE DEF Eq, it
    <3> QED
      BY <1>1, <1>4, Iteration
  <2>2. ASSUME NEW s \in SUBSET (1..N), s # {} PROVE j[s] = Step(j[s \ {Max(s)}], Max(s))
    <3>1. Max(s) \in 1..N /\ s \ {Max(s)} \in SUBSET (1..N)
      BY <1>1, <2>2, GreatestOf
    <3> QED
      BY <1>3, <2>1, <2>2, <3>1 DEF Folds
  <2>3. Eq(j)
    BY <2>1, <2>2 DEF Folds
  <2> QED
    BY <2>3
<1> HIDE DEF it
<1>6. ASSUME NEW s \in SUBSET (1..N), s # {}, it[s \ {Max(s)}] \in S
      PROVE  it[s] = g[<<Max(s), it[s \ {Max(s)}]>>]
  <2>1. Max(s) \in 1..N
    BY <1>1, <1>6, GreatestOf
  <2> QED
    BY <1>3, <1>5, <1>6, <2>1
<1>7. FoldsWithin(it, N, S, base, g)
  BY <1>5, <1>6 DEF FoldsWithin
<1> HIDE DEF Eq
<1>8. PICK f : CountsUp(f, N, S, base, g) /\ it[1..N] = f[N]
  BY <1>1, <1>4, <1>7, FoldSteps
<1>9. \A n \in 1..N : f[n] = Step(f[n - 1], n)
  <2> TAKE n \in 1..N
  <2>1. n - 1 \in 0..N
    BY <1>1
  <2> QED
    BY <1>3, <1>8, <2>1 DEF CountsUp
<1> QED
  BY <1>2, <1>8, <1>9 DEF N, Step, S, base, CountsUp, ClassesBy

\* An edge among the first n leads out of a set of rooms.
LeadsOut(edges, n, some) == \E k \in 1..n : Pair(edges[k]) \cap some \notin {{}, Pair(edges[k])}
JoinedBy(edges, n, from, to) == \A some \in SUBSET Nodes : from \in some /\ to \notin some => LeadsOut(edges, n, some)

\* Rooms of one class after some edges are joined by them, and the ends of each are of one class.
ClassesFit(classes, edges, n) ==
  /\ \A k \in 1..n : classes[edges[k].a] = classes[edges[k].b]
  /\ \A p, q \in Nodes : classes[p] = classes[q] => JoinedBy(edges, n, p, q)

\* An edge makes one class of two.
LEMMA MergingFits ==
  ASSUME NEW E, NEW edges \in Seq(E), WiresOf(edges), NEW n \in Nat, n + 1 \in 1..Len(edges),
         NEW classes \in [Nodes -> Nodes], ClassesFit(classes, edges, n)
  PROVE  ClassesFit(Merging(classes, edges[n + 1]), edges, n + 1)
<1> DEFINE e == edges[n + 1]
           new == Merging(classes, e)
<1>1. /\ \A k \in 1..(n + 1) : k \in DOMAIN edges
      /\ 1..(n + 1) = 1..n \cup {n + 1}
  <2>1. Len(edges) \in Nat /\ DOMAIN edges = 1..Len(edges)
    BY LenProperties
  <2> QED
    BY <2>1
<1>2. \A k \in 1..(n + 1) : edges[k].a \in Nodes /\ edges[k].b \in Nodes
  BY <1>1 DEF WiresOf, Wire
<1>3. e.a \in Nodes /\ e.b \in Nodes
  BY <1>1, <1>2
<1> HIDE DEF e
<1>4. \A p \in Nodes : new[p] = IF classes[p] = classes[e.a] THEN classes[e.b] ELSE classes[p]
  BY DEF Merging
<1> HIDE DEF new
<1>5. ASSUME NEW k \in 1..(n + 1) PROVE new[edges[k].a] = new[edges[k].b]
  <2>1. CASE k \in 1..n
    <3>1. classes[edges[k].a] = classes[edges[k].b]
      BY <2>1 DEF ClassesFit
    <3> QED
      BY <1>2, <1>4, <3>1
  <2>2. CASE k = n + 1
    <3>1. new[e.a] = new[e.b]
      BY <1>3, <1>4
    <3> QED
      BY <2>2, <3>1 DEF e
  <2> QED
    BY <1>1, <2>1, <2>2
<1>6. ASSUME NEW p \in Nodes, NEW q \in Nodes, new[p] = new[q],
             NEW some \in SUBSET Nodes, p \in some, q \notin some
      PROVE  LeadsOut(edges, n + 1, some)
  <2>1. LeadsOut(edges, n, some) => LeadsOut(edges, n + 1, some)
    BY <1>1 DEF LeadsOut
  <2>2. \A x, y \in Nodes : classes[x] = classes[y] /\ x \in some /\ y \notin some => LeadsOut(edges, n, some)
    BY DEF ClassesFit, JoinedBy
  <2>3. \/ classes[p] = classes[q]
        \/ classes[p] = classes[e.a] /\ classes[q] = classes[e.b]
        \/ classes[p] = classes[e.b] /\ classes[q] = classes[e.a]
    BY <1>3, <1>4, <1>6
  <2>4. LeadsOut(edges, n, some) \/ (e.a \in some <=> e.b \notin some)
    BY <1>3, <1>6, <2>2, <2>3
  <2>5. ASSUME e.a \in some <=> e.b \notin some PROVE LeadsOut(edges, n + 1, some)
    <3>1. Pair(e) \cap some \notin {{}, Pair(e)}
      BY <2>5 DEF Pair
    <3> QED
      BY <1>1, <3>1 DEF LeadsOut, e
  <2> QED
    BY <2>1, <2>4, <2>5
<1>7. \A p, q \in Nodes : new[p] = new[q] => JoinedBy(edges, n + 1, p, q)
  BY <1>6 DEF JoinedBy
<1> QED
  BY <1>5, <1>7 DEF ClassesFit, new, e

\* Union and find: two rooms are of one class exactly if they are joined.
LEMMA ClassesAreJoined ==
  ASSUME NEW E, NEW edges \in Seq(E), WiresOf(edges)
  PROVE  /\ Classes(edges) \in [Nodes -> Nodes]
         /\ \A p, q \in Nodes : Classes(edges)[p] = Classes(edges)[q] <=> Joined(edges, p, q)
<1>1. PICK f : ClassesBy(f, edges) /\ Classes(edges) = f[Len(edges)]
  BY ClassesSteps
<1>2. Len(edges) \in Nat /\ DOMAIN edges = 1..Len(edges)
  BY LenProperties
<1> DEFINE N == Len(edges)
           Good == {n \in 0..N : ClassesFit(f[n], edges, n)}
<1>3. 0 \in Good
  <2>1. f[0] = [n \in Nodes |-> n] /\ 1..0 = {} /\ 0 \in 0..N
    BY <1>1, <1>2 DEF ClassesBy
  <2>2. ClassesFit(f[0], edges, 0)
    BY <2>1 DEF ClassesFit, JoinedBy
  <2> QED
    BY <2>1, <2>2
<1>4. ASSUME NEW n \in 0..N, n \in Good, n < N PROVE n + 1 \in Good
  <2>1. n \in Nat /\ n + 1 \in 1..N /\ n + 1 \in 0..N /\ (n + 1) - 1 = n
    BY <1>2, <1>4
  <2>2. f[n] \in [Nodes -> Nodes] /\ f[n + 1] = Merging(f[n], edges[n + 1])
    BY <1>1, <2>1 DEF ClassesBy
  <2>3. ClassesFit(f[n + 1], edges, n + 1)
    BY <1>4, <2>1, <2>2, MergingFits
  <2> QED
    BY <2>1, <2>3
<1> HIDE DEF Good
<1>5. 0..N \subseteq Good
  BY <1>2, <1>3, <1>4, CountUp
<1>6. ClassesFit(f[N], edges, N)
  BY <1>2, <1>5 DEF Good
<1> DEFINE root == Classes(edges)
<1>7. root \in [Nodes -> Nodes] /\ root = f[N]
  BY <1>1, <1>2 DEF ClassesBy
<1> HIDE DEF root
<1>8. ASSUME NEW p \in Nodes, NEW q \in Nodes, root[p] = root[q] PROVE Joined(edges, p, q)
  BY <1>2, <1>6, <1>7, <1>8 DEF ClassesFit, JoinedBy, LeadsOut, Joined
<1>9. ASSUME NEW p \in Nodes, NEW q \in Nodes, Joined(edges, p, q), root[p] # root[q] PROVE FALSE
  <2> DEFINE some == {x \in Nodes : root[x] = root[p]}
  <2>1. PICK k \in DOMAIN edges : Pair(edges[k]) \cap some \notin {{}, Pair(edges[k])}
    <3>1. p \in some /\ q \notin some /\ some \in SUBSET Nodes
      BY <1>9
    <3> HIDE DEF some
    <3> QED
      BY <1>9, <3>1 DEF Joined
  <2>2. edges[k].a \in Nodes /\ edges[k].b \in Nodes
    BY DEF WiresOf, Wire
  <2>3. root[edges[k].a] = root[edges[k].b]
    BY <1>2, <1>6, <1>7 DEF ClassesFit
  <2> QED
    BY <2>1, <2>2, <2>3 DEF Pair
<1> QED
  BY <1>7, <1>8, <1>9 DEF root

-----------------------------------------------------------------------------
(* The graph of rooms: what becomes an edge *)

\* What may become an edge.
Wires == {f \in Facts : Wire(f)}

\* A sequence is one over any set that has its members.
LEMMA NarrowedTo ==
  ASSUME NEW E, NEW seq \in Seq(E), NEW W, ToSet(seq) \subseteq W
  PROVE  seq \in Seq(W)
<1>1. seq \in [1..Len(seq) -> E] /\ Len(seq) \in Nat /\ DOMAIN seq = 1..Len(seq)
  BY LenProperties
<1>2. \A i \in 1..Len(seq) : seq[i] \in W
  BY <1>1 DEF ToSet
<1>3. seq \in [1..Len(seq) -> W]
  BY <1>1, <1>2
<1> QED
  BY <1>1, <1>3, SeqDef

\* Joining adds edges to edges.
LEMMA JoiningOf ==
  ASSUME NEW edges \in Seq(Wires), NEW facts \in Seq(Wires)
  PROVE  Joining(edges, facts) \in Seq(Wires)
<1> DEFINE N == Len(facts)
           S == Seq(Wires)
           Step(x, i) == IF \E k \in DOMAIN x : Pair(x[k]) = Pair(facts[i]) THEN x ELSE Append(x, facts[i])
           Eq(it) == it = [s \in SUBSET (1..N) |-> IF s = {} THEN edges ELSE Step(it[s \ {Max(s)}], Max(s))]
           it == CHOOSE it : Eq(it)
           g == [p \in (1..N) \X S |-> Step(p[2], p[1])]
<1>1. N \in Nat /\ DOMAIN facts = 1..N /\ edges \in S
  OBVIOUS
<1>2. Joining(edges, facts) = it[1..N]
  BY <1>1 DEF Joining, FoldLeft, MapThenFoldSet
<1>3. \A n \in 1..N, x \in S : g[<<n, x>>] = Step(x, n)
  OBVIOUS
<1>4. g \in StepsOn(N, S)
  <2>1. ASSUME NEW n \in 1..N, NEW x \in S PROVE Step(x, n) \in S
    <3>1. facts[n] \in Wires
      BY <1>1, ElementOfSeq
    <3> QED
      BY <3>1, AppendProperties
  <2> HIDE DEF Step, N, S
  <2> QED
    BY <2>1 DEF StepsOn
<1> HIDE DEF N, g, Step, S
<1>5. Eq(it)
  <2>1. PICK j : j \in [SUBSET (1..N) -> S] /\ Folds(j, N, edges, g)
    <3> HIDE DEF Eq, it
    <3> QED
      BY <1>1, <1>4, Iteration
  <2>2. ASSUME NEW s \in SUBSET (1..N), s # {} PROVE j[s] = Step(j[s \ {Max(s)}], Max(s))
    <3>1. Max(s) \in 1..N /\ s \ {Max(s)} \in SUBSET (1..N)
      BY <1>1, <2>2, GreatestOf
    <3> QED
      BY <1>3, <2>1, <2>2, <3>1 DEF Folds
  <2>3. Eq(j)
    BY <2>1, <2>2 DEF Folds
  <2> QED
    BY <2>3
<1> HIDE DEF it
<1>6. ASSUME NEW s \in SUBSET (1..N), s # {}, it[s \ {Max(s)}] \in S
      PROVE  it[s] = g[<<Max(s), it[s \ {Max(s)}]>>]
  <2>1. Max(s) \in 1..N
    BY <1>1, <1>6, GreatestOf
  <2> QED
    BY <1>3, <1>5, <1>6, <2>1
<1>7. FoldsWithin(it, N, S, edges, g)
  BY <1>5, <1>6 DEF FoldsWithin
<1> HIDE DEF Eq
<1>8. PICK f : CountsUp(f, N, S, edges, g) /\ it[1..N] = f[N]
  BY <1>1, <1>4, <1>7, FoldSteps
<1>9. f[N] \in S
  BY <1>1, <1>8 DEF CountsUp
<1> QED
  BY <1>2, <1>8, <1>9 DEF S

\* The graph of what a read found is made of edges between rooms in scope.
LEMMA EdgesAreWires ==
  ASSUME NEW facts \in Seq(Facts)
  PROVE  EdgesOf(facts) \in Seq(Wires) /\ WiresOf(EdgesOf(facts))
<1>1. ASSUME NEW kind
      PROVE  /\ OfKind(facts, kind) \in Seq(Facts)
             /\ \A f \in ToSet(OfKind(facts, kind)) : f \in Facts /\ f.kind = kind
  <2>1. /\ OfKind(facts, kind) \in Seq(Facts)
        /\ ToSet(OfKind(facts, kind)) = ToSet(facts) \cap {f \in ToSet(facts) : f.kind = kind}
    <3> DEFINE wanted == {f \in ToSet(facts) : f.kind = kind}
    <3> HIDE DEF wanted
    <3>1. Only(facts, wanted) \in Seq(Facts) /\ ToSet(Only(facts, wanted)) = ToSet(facts) \cap wanted
      BY OnlyOf
    <3> QED
      BY <3>1 DEF OfKind, wanted
  <2>2. \A f \in ToSet(facts) : f \in Facts
    BY LenProperties, ElementOfSeq DEF ToSet
  <2> QED
    BY <2>1, <2>2
<1>2. ASSUME NEW kind, kind # "door" PROVE OfKind(facts, kind) \in Seq(Wires)
  <2>1. ToSet(OfKind(facts, kind)) \subseteq Wires
    BY <1>1, <1>2, MapAssumption DEF Wires, Wire, Pair
  <2> QED
    BY <1>1, <2>1, NarrowedTo
<1>3. DoorEdges(facts) \in Seq(Wires)
  <2> DEFINE wanted == {f \in ToSet(facts) : f.a # f.b /\ Pair(f) \subseteq Nodes}
             doors == OfKind(facts, "door")
  <2>1. \A f \in wanted : f.a # f.b /\ Pair(f) \subseteq Nodes
    OBVIOUS
  <2>2. doors \in Seq(Facts) /\ \A f \in ToSet(doors) : f \in Facts
    BY <1>1
  <2> HIDE DEF wanted, doors
  <2>3. Only(doors, wanted) \in Seq(Facts) /\ ToSet(Only(doors, wanted)) = ToSet(doors) \cap wanted
    BY <2>2, OnlyOf
  <2>4. ToSet(Only(doors, wanted)) \subseteq Wires
    BY <2>1, <2>2, <2>3 DEF Wires, Wire, Pair
  <2>5. Only(doors, wanted) \in Seq(Wires)
    BY <2>3, <2>4, NarrowedTo
  <2> QED
    BY <2>5 DEF DoorEdges, wanted, doors
<1>4. OfKind(facts, "zone") \in Seq(Wires) /\ OfKind(facts, "link") \in Seq(Wires) /\ OfKind(facts, "passage") \in Seq(Wires)
  BY <1>2
<1>5. EdgesOf(facts) \in Seq(Wires)
  <2>1. Joining(DoorEdges(facts), OfKind(facts, "zone")) \in Seq(Wires)
    BY <1>3, <1>4, JoiningOf
  <2>2. Joining(Joining(DoorEdges(facts), OfKind(facts, "zone")), OfKind(facts, "link")) \in Seq(Wires)
    BY <1>4, <2>1, JoiningOf
  <2> QED
    BY <1>4, <2>2, ConcatProperties DEF EdgesOf
<1>6. \A k \in DOMAIN EdgesOf(facts) : EdgesOf(facts)[k] \in Wires
  BY <1>5, LenProperties, ElementOfSeq
<1> QED
  BY <1>5, <1>6 DEF WiresOf, Wires

-----------------------------------------------------------------------------
(* The graph of rooms: components *)

\* The members of a finite set can be put in an order in which each comes before the next.
LEMMA OrderThere ==
  ASSUME NEW S, IsFiniteSet(S), NEW R \in SUBSET (S \X S),
         \A m \in S : <<m, m>> \notin R,
         \A m, n \in S : m = n \/ <<m, n>> \in R \/ <<n, m>> \in R,
         \A l, m, n \in S : <<l, m>> \in R /\ <<m, n>> \in R => <<l, n>> \in R
  PROVE  \E s \in SetToSeqs(S) : \A i, j \in DOMAIN s : i < j => <<s[i], s[j]>> \in R
<1> DEFINE K == Cardinality(S)
           Below(n) == {m \in S : <<m, n>> \in R}
           r == [n \in S |-> Cardinality(Below(n)) + 1]
<1>1. K \in Nat
  BY FS_CardinalityType
<1>2. \A n \in S : IsFiniteSet(Below(n)) /\ Cardinality(Below(n)) \in Nat
  <2> TAKE n \in S
  <2>1. Below(n) \in SUBSET S
    OBVIOUS
  <2> QED
    BY <2>1, FS_Subset, FS_CardinalityType
<1>3. ASSUME NEW T \in SUBSET S, NEW U \in SUBSET T, NEW x \in T, x \notin U
      PROVE  Cardinality(U) < Cardinality(T)
  <2>1. IsFiniteSet(T) /\ IsFiniteSet(U) /\ Cardinality(U) <= Cardinality(T) /\ Cardinality(U) # Cardinality(T)
    <3>1. IsFiniteSet(T)
      BY FS_Subset
    <3>2. U # T
      BY <1>3
    <3> QED
      BY <3>1, <3>2, FS_Subset
  <2>2. Cardinality(U) \in Nat /\ Cardinality(T) \in Nat
    BY <2>1, FS_CardinalityType
  <2> QED
    BY <2>1, <2>2
<1>4. \A n \in S : r[n] \in 1..K
  <2> TAKE n \in S
  <2>1. Below(n) \in SUBSET S /\ n \notin Below(n) /\ S \in SUBSET S
    OBVIOUS
  <2>2. Cardinality(Below(n)) < K
    BY <1>3, <2>1
  <2> HIDE DEF K, Below
  <2> QED
    BY <1>1, <1>2, <2>2
<1>5. ASSUME NEW m \in S, NEW n \in S, <<m, n>> \in R PROVE r[m] < r[n]
  <2>1. Below(m) \in SUBSET Below(n) /\ Below(n) \in SUBSET S /\ m \in Below(n) /\ m \notin Below(m)
    BY <1>5
  <2>2. Cardinality(Below(m)) < Cardinality(Below(n))
    <3> HIDE DEF Below
    <3> QED
      BY <1>3, <2>1
  <2> HIDE DEF Below
  <2> QED
    BY <1>2, <2>2
<1>6. \A m, n \in S : r[m] = r[n] => m = n
  <2> TAKE m, n \in S
  <2>1. r[m] \in 1..K /\ r[n] \in 1..K
    BY <1>4
  <2> HIDE DEF r
  <2>2. CASE <<m, n>> \in R
    BY <1>1, <1>5, <2>1, <2>2
  <2>3. CASE <<n, m>> \in R
    BY <1>1, <1>5, <2>1, <2>3
  <2> QED
    BY <2>2, <2>3
<1>7. r \in [S -> 1..K]
  BY <1>4
<1> HIDE DEF r, Below
<1> DEFINE image == {r[n] : n \in S}
<1>8. image = 1..K
  <2>1. image \in SUBSET (1..K)
    BY <1>7
  <2>2. r \in Bijection(S, image)
    BY <1>6, <1>7 DEF Bijection, Injection, Surjection, IsInjective
  <2>3. Cardinality(image) = K
    BY <2>2, FS_Bijection DEF ExistsBijection
  <2>4. IsFiniteSet(1..K) /\ Cardinality(1..K) = K
    BY <1>1, FS_Interval
  <2> HIDE DEF image
  <2> QED
    BY <2>1, <2>3, <2>4, FS_Subset
<1> DEFINE s == [i \in 1..K |-> CHOOSE n \in S : r[n] = i]
<1>9. \A i \in 1..K : s[i] \in S /\ r[s[i]] = i
  <2> TAKE i \in 1..K
  <2>1. \E n \in S : r[n] = i
    BY <1>8
  <2> QED
    BY <2>1
<1>10. DOMAIN s = 1..K
  OBVIOUS
<1> HIDE DEF s
<1>11. ASSUME NEW i \in 1..K, NEW j \in 1..K, i < j PROVE s[i] # s[j] /\ <<s[i], s[j]>> \in R
  <2>1. s[i] \in S /\ s[j] \in S /\ r[s[i]] = i /\ r[s[j]] = j
    BY <1>9
  <2>2. s[i] # s[j]
    BY <1>11, <2>1
  <2>3. <<s[j], s[i]>> \notin R
    BY <1>1, <1>5, <1>11, <2>1
  <2> QED
    BY <2>1, <2>2, <2>3
<1>12. s \in SetToSeqs(S)
  <2>1. s \in [1..K -> S]
    BY <1>9 DEF s
  <2>2. ASSUME NEW i \in 1..K, NEW j \in 1..K, i # j PROVE s[i] # s[j]
    <3>1. i < j \/ j < i
      BY <1>1, <2>2
    <3> QED
      BY <1>11, <3>1
  <2> QED
    BY <2>1, <2>2 DEF SetToSeqs
<1> QED
  BY <1>10, <1>11, <1>12

\* The least of some rooms.
LEMMA LeastRoom ==
  ASSUME NEW S \in SUBSET Nodes, S # {}
  PROVE  Min(S) \in S /\ \A n \in S : Min(S) <= n
<1>1. S \in SUBSET Nat
  BY DEF Nodes
<1>2. \E n \in S : \A m \in S : n <= m
  BY <1>1, LeastNumber
<1> QED
  BY <1>2 DEF Min

\* There are finitely many rooms.
LEMMA RoomsAreFinite == IsFiniteSet(Nodes)
BY MapAssumption, FS_Interval DEF Nodes

\* Components numbers the classes: two rooms have one number exactly if they are of one class, and
\* the sizes are those of the classes, the largest first.
LEMMA ComponentsOf ==
  ASSUME NEW edges, Classes(edges) \in [Nodes -> Nodes]
  PROVE  LET root == Classes(edges)
             components == Components(edges)
         IN  /\ \A m, n \in Nodes : components.rank[m] = components.rank[n] <=> root[m] = root[n]
             /\ \A n \in Nodes : components.size[components.rank[n]] = Cardinality({m \in Nodes : root[m] = root[n]})
             /\ \A i, j \in DOMAIN components.size : i < j => components.size[i] >= components.size[j]
<1> DEFINE root == Classes(edges)
           Members(n) == {m \in Nodes : root[m] = root[n]}
           first == {n \in Nodes : n = Min(Members(n))}
           Before(m, n) == \/ Cardinality(Members(m)) > Cardinality(Members(n))
                           \/ Cardinality(Members(m)) = Cardinality(Members(n)) /\ m < n
           order == CHOOSE s \in SetToSeqs(first) : \A i, j \in DOMAIN s : i < j => Before(s[i], s[j])
           rank == [n \in Nodes |-> CHOOSE i \in DOMAIN order : root[order[i]] = root[n]]
           size == [i \in DOMAIN order |-> Cardinality(Members(order[i]))]
<1>1. Components(edges).rank = rank /\ Components(edges).size = size
  BY DEF Components
<1>2. root \in [Nodes -> Nodes]
  OBVIOUS
<1> HIDE DEF root
<1>3. \A n \in Nodes : Cardinality(Members(n)) \in Nat
  <2> TAKE n \in Nodes
  <2>1. Members(n) \in SUBSET Nodes
    OBVIOUS
  <2> QED
    BY <2>1, RoomsAreFinite, FS_Subset, FS_CardinalityType
<1>4. \A m, n \in Nodes : root[m] = root[n] => Members(m) = Members(n)
  OBVIOUS
<1>5. \A n \in Nodes : Min(Members(n)) \in first /\ root[Min(Members(n))] = root[n]
  <2> TAKE n \in Nodes
  <2>1. Members(n) \in SUBSET Nodes /\ n \in Members(n)
    OBVIOUS
  <2>2. Min(Members(n)) \in Members(n)
    BY <2>1, LeastRoom
  <2>3. Min(Members(n)) \in Nodes /\ root[Min(Members(n))] = root[n]
    BY <2>2
  <2>4. Members(Min(Members(n))) = Members(n)
    BY <1>4, <2>3
  <2> QED
    BY <2>3, <2>4
<1>6. first \in SUBSET Nodes /\ IsFiniteSet(first)
  BY RoomsAreFinite, FS_Subset
<1> HIDE DEF first, Members
<1>7. order \in SetToSeqs(first) /\ \A i, j \in DOMAIN order : i < j => Before(order[i], order[j])
  <2> DEFINE R == {p \in first \X first : Before(p[1], p[2])}
  <2>1. \A m, n \in first : <<m, n>> \in R <=> Before(m, n)
    OBVIOUS
  <2>2. \A n \in first : n \in Nat /\ Cardinality(Members(n)) \in Nat
    BY <1>3, <1>6 DEF Nodes
  <2>3. R \in SUBSET (first \X first)
    OBVIOUS
  <2>4. \A m \in first : ~Before(m, m)
    BY <2>2
  <2>5. \A m, n \in first : m = n \/ Before(m, n) \/ Before(n, m)
    BY <2>2
  <2>6. \A l, m, n \in first : Before(l, m) /\ Before(m, n) => Before(l, n)
    BY <2>2
  <2> HIDE DEF R, Before
  <2>7. \E s \in SetToSeqs(first) : \A i, j \in DOMAIN s : i < j => <<s[i], s[j]>> \in R
    BY <1>6, <2>1, <2>3, <2>4, <2>5, <2>6, OrderThere
  <2>8. PICK s \in SetToSeqs(first) : \A i, j \in DOMAIN s : i < j => <<s[i], s[j]>> \in R
    BY <2>7
  <2>9. \A i \in DOMAIN s : s[i] \in first
    BY DEF SetToSeqs
  <2>10. \A i, j \in DOMAIN s : i < j => Before(s[i], s[j])
    BY <2>1, <2>8, <2>9
  <2> QED
    BY <2>10
<1> HIDE DEF order
<1>8. order \in Seq(first) /\ ToSet(order) = first
  BY <1>6, <1>7, OrderOf
<1>9. \A i \in DOMAIN order : order[i] \in Nodes
  BY <1>6, <1>8, LenProperties, ElementOfSeq
<1>10. \A n \in Nodes : rank[n] \in DOMAIN order /\ root[order[rank[n]]] = root[n]
  <2> TAKE n \in Nodes
  <2>1. PICK i \in DOMAIN order : order[i] = Min(Members(n))
    BY <1>5, <1>8 DEF ToSet
  <2>2. root[order[i]] = root[n]
    BY <1>5, <2>1
  <2> QED
    BY <2>2
<1>11. \A m, n \in Nodes : root[m] = root[n] => rank[m] = rank[n]
  OBVIOUS
<1>12. ASSUME NEW m \in Nodes, NEW n \in Nodes, rank[m] = rank[n] PROVE root[m] = root[n]
  <2> HIDE DEF rank
  <2> QED
    BY <1>10, <1>12
<1> HIDE DEF rank
<1>13. \A n \in Nodes : size[rank[n]] = Cardinality(Members(n))
  BY <1>4, <1>9, <1>10
<1>14. \A i, j \in DOMAIN order : i < j => size[i] >= size[j]
  <2> TAKE i, j \in DOMAIN order
  <2>1. size[i] \in Nat /\ size[j] \in Nat
    BY <1>3, <1>9
  <2>2. i < j => size[i] > size[j] \/ size[i] = size[j]
    BY <1>7
  <2> HIDE DEF size
  <2> QED
    BY <2>1, <2>2
<1>15. DOMAIN size = DOMAIN order
  OBVIOUS
<1> HIDE DEF size
<1> QED
  BY <1>1, <1>11, <1>12, <1>13, <1>14, <1>15 DEF Members, root

\* No edge leads to a room exactly if none is listed at it.
LEMMA NoneAt ==
  ASSUME NEW E, NEW edges \in Seq(E), NEW n
  PROVE  At(edges, n) = <<>> <=> \A k \in DOMAIN edges : n \notin Pair(edges[k])
<1> DEFINE N == Len(edges)
           numbers == [k \in DOMAIN edges |-> k]
           wanted == {k \in DOMAIN edges : n \in Pair(edges[k])}
<1>1. N \in Nat /\ DOMAIN edges = 1..N
  BY LenProperties
<1>2. numbers \in Seq(1..N) /\ ToSet(numbers) = 1..N
  BY <1>1, SeqDef DEF ToSet
<1> HIDE DEF numbers
<1>3. Only(numbers, wanted) \in Seq(1..N) /\ ToSet(Only(numbers, wanted)) = wanted
  <2>1. Only(numbers, wanted) \in Seq(1..N) /\ ToSet(Only(numbers, wanted)) = ToSet(numbers) \cap wanted
    <3> HIDE DEF wanted
    <3> QED
      BY <1>2, OnlyOf
  <2> QED
    BY <1>1, <1>2, <2>1
<1> HIDE DEF wanted
<1>4. At(edges, n) \in Seq(1..N) /\ ToSet(At(edges, n)) = wanted
  BY <1>3 DEF At, numbers, wanted
<1>5. ASSUME NEW s \in Seq(1..N) PROVE s = <<>> <=> ToSet(s) = {}
  <2>1. s = <<>> <=> DOMAIN s = {}
    BY LenProperties, EmptySeq
  <2> QED
    BY <2>1 DEF ToSet
<1> QED
  BY <1>4, <1>5 DEF wanted

\* A size: a number, or not known.
Sizes == Nat \cup {Nothing}

\* What was read last, and that its answer is the one to it.
MapReadFits ==
  asked # Nothing =>
    /\ asked.facts \in Seq(Facts) /\ asked.from \in Nodes /\ asked.to \in Nodes
    /\ asked.fit \in [width : Sizes, height : Sizes] /\ asked.heights \in [Nodes -> Sizes]
    /\ answer = AnswerTo(asked)

\* Nothing else is read or answered.
LEMMA ReadsFit == MapSpec => []MapReadFits
<1>1. MapInit => MapReadFits
  BY DEF MapInit, MapReadFits
<1>2. MapReadFits /\ [MapNext]_mapVars => MapReadFits'
  <2> SUFFICES ASSUME MapReadFits, [MapNext]_mapVars PROVE MapReadFits'
    OBVIOUS
  <2>1. ASSUME NEW facts \in BoundedSeq(Facts, MaxFacts), NEW heights \in Heights, NEW question \in Questions,
               Ask(facts, heights, question)
        PROVE  MapReadFits'
    <3>1. /\ asked'.facts = facts /\ asked'.from = question.from /\ asked'.to = question.to
          /\ asked'.fit = question.fit /\ asked'.heights = heights /\ answer' = AnswerTo(asked')
      BY <2>1 DEF Ask
    <3>2. facts \in Seq(Facts)
      <4>1. PICK n \in 0..MaxFacts : facts \in [1..n -> Facts]
        BY DEF BoundedSeq, SeqOf
      <4> QED
        BY <4>1, MapAssumption, SeqDef
    <3>3. /\ question.from \in Nodes /\ question.to \in Nodes
          /\ question.fit \in [width : Sizes, height : Sizes] /\ heights \in [Nodes -> Sizes]
      BY MapAssumption DEF Sizes
    <3> QED
      BY <3>1, <3>2, <3>3 DEF MapReadFits
  <2>2. CASE Forget
    BY <2>2 DEF Forget, MapReadFits
  <2>3. CASE UNCHANGED mapVars
    BY <2>3 DEF mapVars, MapReadFits
  <2> QED
    BY <2>1, <2>2, <2>3 DEF MapNext
<1> QED
  BY <1>1, <1>2, PTL DEF MapSpec

\* A room is alone in its class exactly if no edge leads to it.
LEMMA AloneIsIsolated ==
  ASSUME NEW E, NEW edges \in Seq(E), WiresOf(edges), NEW n \in Nodes
  PROVE  Cardinality({m \in Nodes : Classes(edges)[m] = Classes(edges)[n]}) = 1
            <=> \A k \in DOMAIN edges : n \notin Pair(edges[k])
<1> DEFINE members == {m \in Nodes : Classes(edges)[m] = Classes(edges)[n]}
<1>1. \A p, q \in Nodes : Classes(edges)[p] = Classes(edges)[q] <=> Joined(edges, p, q)
  BY ClassesAreJoined
<1>2. n \in members /\ IsFiniteSet(members)
  BY RoomsAreFinite, FS_Subset
<1>3. Cardinality(members) = 1 <=> members = {n}
  <2>1. Cardinality(members) = 1 <=> \E x : members = {x}
    <3> HIDE DEF members
    <3> QED
      BY <1>2, FS_Singleton
  <2> QED
    BY <1>2, <2>1
<1>4. ASSUME NEW k \in DOMAIN edges, n \in Pair(edges[k]) PROVE members # {n}
  <2>1. Wire(edges[k])
    BY DEF WiresOf
  <2>2. PICK m \in Nodes : m # n /\ Pair(edges[k]) = {m, n}
    BY <1>4, <2>1 DEF Wire, Pair
  <2>3. Joined(edges, m, n)
    BY <2>2 DEF Joined
  <2> QED
    BY <1>1, <2>2, <2>3
<1>5. ASSUME \A k \in DOMAIN edges : n \notin Pair(edges[k]) PROVE members = {n}
  <2>1. ASSUME NEW m \in members, m # n PROVE FALSE
    <3>1. Joined(edges, n, m)
      BY <1>1
    <3>2. PICK k \in DOMAIN edges : Pair(edges[k]) \cap {n} \notin {{}, Pair(edges[k])}
      BY <2>1, <3>1 DEF Joined
    <3> QED
      BY <1>5, <3>2
  <2> QED
    BY <1>2, <2>1
<1> QED
  BY <1>3, <1>4, <1>5

\* Whatever rooms there are and whatever doors, zones, links and passages a read finds: two rooms
\* have one component exactly if they are joined, the components are numbered from the largest
\* down, and the isolated rooms are those no edge leads to.
THEOREM JoinedRoomsShareComponents == MapSpec => []ComponentsAreJoined
<1>1. MapReadFits => ComponentsAreJoined
  <2> SUFFICES ASSUME MapReadFits, asked # Nothing PROVE ComponentsAreJoined
    BY DEF ComponentsAreJoined
  <2> DEFINE edges == EdgesOf(asked.facts)
             components == Components(edges)
  <2>1. edges \in Seq(Wires) /\ WiresOf(edges)
    BY EdgesAreWires DEF MapReadFits
  <2> HIDE DEF edges
  <2>2. /\ Classes(edges) \in [Nodes -> Nodes]
        /\ \A p, q \in Nodes : Classes(edges)[p] = Classes(edges)[q] <=> Joined(edges, p, q)
    BY <2>1, ClassesAreJoined
  <2>3. /\ \A m, n \in Nodes : components.rank[m] = components.rank[n] <=> Classes(edges)[m] = Classes(edges)[n]
        /\ \A n \in Nodes : components.size[components.rank[n]]
                               = Cardinality({m \in Nodes : Classes(edges)[m] = Classes(edges)[n]})
        /\ \A i, j \in DOMAIN components.size : i < j => components.size[i] >= components.size[j]
    BY <2>2, ComponentsOf
  <2> HIDE DEF components
  <2>4. \A n \in Nodes : components.size[components.rank[n]] = 1 <=> At(edges, n) = <<>>
    <3> TAKE n \in Nodes
    <3>1. At(edges, n) = <<>> <=> \A k \in DOMAIN edges : n \notin Pair(edges[k])
      BY <2>1, NoneAt
    <3>2. Cardinality({m \in Nodes : Classes(edges)[m] = Classes(edges)[n]}) = 1
             <=> \A k \in DOMAIN edges : n \notin Pair(edges[k])
      BY <2>1, AloneIsIsolated
    <3> QED
      BY <2>3, <3>1, <3>2
  <2>5. IsolatedRooms(edges) = {n \in Nodes : At(edges, n) = <<>>}
    BY <2>4 DEF IsolatedRooms, components
  <2> QED
    BY <2>2, <2>3, <2>5 DEF ComponentsAreJoined, edges, components
<1> QED
  BY <1>1, ReadsFit, PTL

-----------------------------------------------------------------------------
(* The graph of rooms: limits of width *)

\* Whether rooms are joined depends on nothing but the edges there are.
LEMMA JoinedByMore ==
  ASSUME NEW edges, NEW more, ToSet(edges) \subseteq ToSet(more), NEW p, NEW q, Joined(edges, p, q)
  PROVE  Joined(more, p, q)
<1> SUFFICES ASSUME NEW some \in SUBSET Nodes, p \in some, q \notin some
             PROVE  \E k \in DOMAIN more : Pair(more[k]) \cap some \notin {{}, Pair(more[k])}
  BY DEF Joined
<1>1. PICK k \in DOMAIN edges : Pair(edges[k]) \cap some \notin {{}, Pair(edges[k])}
  BY DEF Joined
<1>2. PICK l \in DOMAIN more : more[l] = edges[k]
  BY DEF ToSet
<1> QED
  BY <1>1, <1>2

\* The edges in the order of their widths: the same edges, and none wider than one before it.
LEMMA WidestFirstOf ==
  ASSUME NEW E, NEW edges \in Seq(E), \A k \in DOMAIN edges : edges[k].width \in Sizes
  PROVE  LET order == WidestFirst(edges)
         IN  /\ order \in Seq(E) /\ ToSet(order) = ToSet(edges)
             /\ \A i, j \in DOMAIN order : i < j => ~Wider(order[j], order[i])
<1> DEFINE D == DOMAIN edges
           Before(k, l) == Wider(edges[k], edges[l]) \/ (~Wider(edges[l], edges[k]) /\ k < l)
           order == CHOOSE s \in SetToSeqs(D) : \A i, j \in DOMAIN s : i < j => Before(s[i], s[j])
           R == {p \in D \X D : Before(p[1], p[2])}
<1>1. D = 1..Len(edges) /\ Len(edges) \in Nat /\ IsFiniteSet(D)
  <2>1. D = 1..Len(edges) /\ Len(edges) \in Nat
    BY LenProperties
  <2> QED
    BY <2>1, FS_Interval
<1>2. \A k \in D : edges[k].width \in Sizes /\ k \in Nat
  BY <1>1
<1>3. WidestFirst(edges) = [i \in DOMAIN order |-> edges[order[i]]]
  BY DEF WidestFirst
<1> HIDE DEF D
<1>4. \A m, n \in D : <<m, n>> \in R <=> Before(m, n)
  OBVIOUS
<1>5. R \in SUBSET (D \X D)
  OBVIOUS
<1>6. \A m \in D : ~Before(m, m)
  BY <1>2, MapAssumption DEF Wider, Sizes
<1>7. \A m, n \in D : m = n \/ Before(m, n) \/ Before(n, m)
  BY <1>2, MapAssumption DEF Wider, Sizes
<1>8. \A l, m, n \in D : Before(l, m) /\ Before(m, n) => Before(l, n)
  <2> TAKE l, m, n \in D
  <2> DEFINE u == edges[l].width
             v == edges[m].width
             w == edges[n].width
  <2>1. u \in Sizes /\ v \in Sizes /\ w \in Sizes /\ l \in Nat /\ m \in Nat /\ n \in Nat
    BY <1>2
  <2>2. /\ Wider(edges[l], edges[m]) <=> v # Nothing /\ (u = Nothing \/ u > v)
        /\ Wider(edges[m], edges[l]) <=> u # Nothing /\ (v = Nothing \/ v > u)
        /\ Wider(edges[m], edges[n]) <=> w # Nothing /\ (v = Nothing \/ v > w)
        /\ Wider(edges[n], edges[m]) <=> v # Nothing /\ (w = Nothing \/ w > v)
        /\ Wider(edges[l], edges[n]) <=> w # Nothing /\ (u = Nothing \/ u > w)
        /\ Wider(edges[n], edges[l]) <=> u # Nothing /\ (w = Nothing \/ w > u)
    BY DEF Wider
  <2> HIDE DEF u, v, w
  <2> QED
    BY <2>1, <2>2, MapAssumption DEF Sizes
<1>9. \A m, n \in D : Before(m, n) => ~Wider(edges[n], edges[m])
  BY <1>2, MapAssumption DEF Wider, Sizes
<1> HIDE DEF R, Before
<1>10. /\ \A m \in D : <<m, m>> \notin R
       /\ \A m, n \in D : m = n \/ <<m, n>> \in R \/ <<n, m>> \in R
  BY <1>4, <1>6, <1>7
<1>11. \A l, m, n \in D : <<l, m>> \in R /\ <<m, n>> \in R => <<l, n>> \in R
  BY <1>4, <1>8
<1> HIDE DEF order
<1>12. \E s \in SetToSeqs(D) : \A i, j \in DOMAIN s : i < j => <<s[i], s[j]>> \in R
  <2>1. IsFiniteSet(D)
    BY <1>1
  <2>2. ASSUME NEW Q \in SUBSET (D \X D),
               \A m \in D : <<m, m>> \notin Q,
               \A m, n \in D : m = n \/ <<m, n>> \in Q \/ <<n, m>> \in Q,
               \A l, m, n \in D : <<l, m>> \in Q /\ <<m, n>> \in Q => <<l, n>> \in Q
        PROVE  \E s \in SetToSeqs(D) : \A i, j \in DOMAIN s : i < j => <<s[i], s[j]>> \in Q
    BY <2>1, <2>2, OrderThere
  <2> QED
    BY <1>5, <1>10, <1>11, <2>2, Zenon
<1>13. PICK s \in SetToSeqs(D) : \A i, j \in DOMAIN s : i < j => <<s[i], s[j]>> \in R
  BY <1>12
<1>14. \A i \in DOMAIN s : s[i] \in D
  BY DEF SetToSeqs
<1>15. order \in SetToSeqs(D) /\ \A i, j \in DOMAIN order : i < j => Before(order[i], order[j])
  BY <1>4, <1>13, <1>14 DEF order
<1>16. order \in Seq(D) /\ ToSet(order) = D
  BY <1>1, <1>15, OrderOf
<1>17. Len(order) \in Nat /\ DOMAIN order = 1..Len(order) /\ \A i \in DOMAIN order : order[i] \in D
  BY <1>16, LenProperties, ElementOfSeq
<1>18. \A k \in D : edges[k] \in E
  BY <1>1, ElementOfSeq DEF D
<1> DEFINE list == [i \in DOMAIN order |-> edges[order[i]]]
<1>19. list \in Seq(E)
  BY <1>17, <1>18, SeqDef
<1>20. ToSet(list) = ToSet(edges)
  <2>1. ToSet(list) = {edges[order[i]] : i \in DOMAIN order}
    BY DEF ToSet
  <2>2. {order[i] : i \in DOMAIN order} = D
    BY <1>16 DEF ToSet
  <2>3. ToSet(edges) = {edges[k] : k \in D}
    BY DEF ToSet, D
  <2> HIDE DEF list
  <2> QED
    BY <2>1, <2>2, <2>3
<1>21. \A i, j \in DOMAIN list : i < j => ~Wider(list[j], list[i])
  BY <1>9, <1>15, <1>17
<1> QED
  BY <1>3, <1>19, <1>20, <1>21

\* The first n edges of some.
LEMMA FirstOf ==
  ASSUME NEW E, NEW edges \in Seq(E), WiresOf(edges), NEW n \in 0..Len(edges)
  PROVE  LET some == SubSeq(edges, 1, n)
         IN  /\ some \in Seq(E) /\ WiresOf(some) /\ ToSet(some) = {edges[k] : k \in 1..n}
             /\ \A p, q \in Nodes : Classes(some)[p] = Classes(some)[q] <=> Joined(some, p, q)
<1> DEFINE some == SubSeq(edges, 1, n)
<1>1. DOMAIN edges = 1..Len(edges) /\ Len(edges) \in Nat
  BY LenProperties
<1>2. some \in Seq(E) /\ DOMAIN some = 1..n /\ \A k \in 1..n : some[k] = edges[k] /\ k \in DOMAIN edges
  BY <1>1
<1> HIDE DEF some
<1>3. WiresOf(some) /\ ToSet(some) = {edges[k] : k \in 1..n}
  BY <1>2 DEF WiresOf, ToSet
<1>4. \A p, q \in Nodes : Classes(some)[p] = Classes(some)[q] <=> Joined(some, p, q)
  BY <1>2, <1>3, ClassesAreJoined
<1> QED
  BY <1>2, <1>3, <1>4 DEF some

\* Between two rooms that are joined, the width at which they meet is a true limit: they are
\* joined by the edges wide enough for an object exactly if that width is.
LEMMA WidestBetweenIsTrue ==
  ASSUME NEW E, NEW edges \in Seq(E), WiresOf(edges), \A k \in DOMAIN edges : edges[k].width \in Sizes,
         NEW from \in Nodes, NEW to \in Nodes, from # to, Joined(edges, from, to), NEW wanted \in Sizes,
         NEW wide \in Seq(E), ToSet(wide) = {e \in ToSet(edges) : Passes(e.width, wanted)}
  PROVE  Joined(wide, from, to) <=> Passes(WidestBetween(edges, from, to), wanted)
<1> DEFINE order == WidestFirst(edges)
           N == Len(order)
           Meet(k) == LET classes == Classes(SubSeq(order, 1, k)) IN classes[from] = classes[to]
           meeting == {k \in DOMAIN order : Meet(k)}
           least == Min(meeting)
<1>1. /\ order \in Seq(E) /\ ToSet(order) = ToSet(edges)
      /\ \A i, j \in DOMAIN order : i < j => ~Wider(order[j], order[i])
  BY WidestFirstOf
<1>2. WidestBetween(edges, from, to) = IF meeting = {} THEN Nothing ELSE order[least].width
  BY DEF WidestBetween
<1> HIDE DEF order
<1>3. N \in Nat /\ DOMAIN order = 1..N
  BY <1>1, LenProperties
<1>4. \A k \in 1..N : order[k] \in ToSet(edges)
  BY <1>1, <1>3 DEF ToSet
<1>5. \A k \in 1..N : order[k].width \in Sizes
  BY <1>4 DEF ToSet
<1>6. WiresOf(order)
  BY <1>3, <1>4 DEF WiresOf, ToSet
<1> HIDE DEF N
<1>7. ASSUME NEW k \in 0..N
      PROVE  /\ ToSet(SubSeq(order, 1, k)) = {order[i] : i \in 1..k}
             /\ Meet(k) <=> Joined(SubSeq(order, 1, k), from, to)
  BY <1>1, <1>6, FirstOf DEF N
<1>8. ~Meet(0)
  <2>1. ToSet(SubSeq(order, 1, 0)) = {}
    BY <1>3, <1>7
  <2>2. DOMAIN SubSeq(order, 1, 0) = {}
    BY <2>1 DEF ToSet
  <2>3. ~Joined(SubSeq(order, 1, 0), from, to)
    <3>1. {from} \in SUBSET Nodes /\ from \in {from} /\ to \notin {from}
      OBVIOUS
    <3> QED
      BY <2>2, <3>1 DEF Joined
  <2> QED
    BY <1>3, <1>7, <2>3
<1>9. Meet(N)
  <2>1. ToSet(SubSeq(order, 1, N)) = ToSet(edges)
    <3>1. ToSet(SubSeq(order, 1, N)) = {order[i] : i \in 1..N}
      BY <1>3, <1>7
    <3>2. ToSet(order) = {order[i] : i \in 1..N}
      BY <1>3 DEF ToSet
    <3> QED
      BY <1>1, <3>1, <3>2
  <2>2. Joined(SubSeq(order, 1, N), from, to)
    BY <2>1, JoinedByMore
  <2> QED
    BY <1>3, <1>7, <2>2
<1> HIDE DEF Meet
<1>10. least \in 1..N /\ Meet(least) /\ \A k \in 1..N : Meet(k) => least <= k
  <2>1. meeting \in SUBSET Nat /\ meeting \subseteq 1..N
    BY <1>3
  <2>2. N \in meeting
    <3>1. N # 0
      BY <1>8, <1>9
    <3> QED
      BY <1>3, <1>9, <3>1
  <2>3. \A k \in meeting : Meet(k)
    OBVIOUS
  <2>4. \A k \in 1..N : Meet(k) => k \in meeting
    BY <1>3
  <2> HIDE DEF meeting
  <2>5. \E n \in meeting : \A m \in meeting : n <= m
    BY <2>1, <2>2, LeastNumber
  <2>6. least \in meeting /\ \A m \in meeting : least <= m
    BY <2>5 DEF Min
  <2> QED
    BY <2>1, <2>3, <2>4, <2>6
<1>11. WidestBetween(edges, from, to) = order[least].width
  BY <1>2, <1>3, <1>10
<1> DEFINE limit == order[least].width
<1> HIDE DEF least, meeting
<1>12. limit \in Sizes
  BY <1>5, <1>10
<1>13. ASSUME Passes(limit, wanted) PROVE Joined(wide, from, to)
  <2>1. \A i \in 1..least : i \in 1..N /\ Passes(order[i].width, wanted)
    <3> TAKE i \in 1..least
    <3>1. i \in 1..N /\ (i = least \/ i < least)
      BY <1>3, <1>10
    <3>2. i < least => ~(order[i].width # Nothing /\ (limit = Nothing \/ limit > order[i].width))
      BY <1>1, <1>3, <1>10, <3>1 DEF Wider
    <3>3. order[i].width \in Sizes
      BY <1>5, <3>1
    <3> HIDE DEF limit
    <3>4. i < least => Passes(order[i].width, wanted)
      BY <1>12, <1>13, <3>2, <3>3, MapAssumption DEF Passes, Sizes
    <3> QED
      BY <1>13, <3>1, <3>4 DEF limit
  <2>2. ToSet(SubSeq(order, 1, least)) \subseteq ToSet(wide)
    BY <1>3, <1>4, <1>7, <1>10, <2>1
  <2>3. Joined(SubSeq(order, 1, least), from, to)
    BY <1>3, <1>7, <1>10
  <2> QED
    BY <2>2, <2>3, JoinedByMore
<1>14. ASSUME ~Passes(limit, wanted), Joined(wide, from, to) PROVE FALSE
  <2>1. least - 1 \in 0..N /\ least \in Nat
    BY <1>3, <1>10
  <2>2. \A i \in 1..N : Passes(order[i].width, wanted) => i \in 1..(least - 1)
    <3> TAKE i \in 1..N
    <3>1. i = least \/ least < i \/ i \in 1..(least - 1)
      BY <1>3, <1>10
    <3>2. least < i => ~(limit # Nothing /\ (order[i].width = Nothing \/ order[i].width > limit))
      BY <1>1, <1>3, <1>10 DEF Wider
    <3>3. order[i].width \in Sizes
      BY <1>5
    <3> HIDE DEF limit
    <3>4. least < i => ~Passes(order[i].width, wanted)
      BY <1>12, <1>14, <3>2, <3>3, MapAssumption DEF Passes, Sizes
    <3> QED
      BY <1>14, <3>1, <3>4 DEF limit
  <2>3. ToSet(wide) \subseteq ToSet(SubSeq(order, 1, least - 1))
    <3> SUFFICES ASSUME NEW e \in ToSet(wide) PROVE e \in ToSet(SubSeq(order, 1, least - 1))
      OBVIOUS
    <3>1. e \in ToSet(order) /\ Passes(e.width, wanted)
      BY <1>1
    <3>2. PICK i \in 1..N : order[i] = e
      BY <1>3, <3>1 DEF ToSet
    <3> QED
      BY <1>7, <2>1, <2>2, <3>1, <3>2
  <2>4. Meet(least - 1)
    BY <1>7, <1>14, <2>1, <2>3, JoinedByMore
  <2>5. least - 1 # 0
    BY <1>8, <2>4
  <2>6. least - 1 \in 1..N /\ ~(least <= least - 1)
    BY <1>3, <2>1, <2>5
  <2> QED
    BY <1>10, <2>4, <2>6
<1> QED
  BY <1>11, <1>13, <1>14

\* Whatever rooms there are and whatever doors, zones, links and passages a read finds: the width
\* an answer gives as the limit is one, and a blocked route names it exactly if it blocks.
THEOREM WidthLimitsHold == MapSpec => []WidthLimitsAreTrue
<1>1. MapReadFits => WidthLimitsAreTrue
  <2> SUFFICES ASSUME MapReadFits, asked # Nothing, asked.from # asked.to PROVE WidthLimitsAreTrue
    BY DEF WidthLimitsAreTrue
  <2> DEFINE edges == EdgesOf(asked.facts)
             from == asked.from
             to == asked.to
             fit == asked.fit
             byWidth == [fit EXCEPT !.height = Nothing]
             wide == Routable(edges, asked.heights, byWidth)
             widest == WidestBetween(edges, from, to)
  <2>1. edges \in Seq(Wires) /\ WiresOf(edges)
    BY EdgesAreWires DEF MapReadFits
  <2>2. from \in Nodes /\ to \in Nodes /\ from # to /\ fit \in [width : Sizes, height : Sizes]
    BY DEF MapReadFits
  <2> DEFINE reason == answer.reason
  <2>3. /\ answer.widest = widest
        /\ reason # Nothing =>
              /\ Components(edges).rank[from] = Components(edges).rank[to]
              /\ "width" \in reason <=> ~Passes(widest, fit.width)
    <3>1. answer = AnswerTo(asked)
      BY DEF MapReadFits
    <3> QED
      BY <3>1 DEF AnswerTo
  <2> HIDE DEF edges, fit, from, to, reason
  <2>4. /\ byWidth.height = Nothing /\ byWidth.width = fit.width
        /\ fit.width \in Sizes
    BY <2>2
  <2> HIDE DEF byWidth
  <2>5. \A k \in DOMAIN edges : edges[k].width \in Sizes /\ edges[k] \in Wires
    BY <2>1, LenProperties, ElementOfSeq, MapAssumption DEF Wires, Sizes
  <2>6. wide \in Seq(Wires) /\ ToSet(wide) = {e \in ToSet(edges) : Passes(e.width, fit.width)}
    <3> DEFINE passable == {e \in ToSet(edges) : Passable(e, asked.heights, byWidth)}
    <3>1. passable = {e \in ToSet(edges) : Passes(e.width, fit.width)}
      BY <2>4 DEF Passable, Passes
    <3> HIDE DEF passable
    <3>2. Only(edges, passable) \in Seq(Wires) /\ ToSet(Only(edges, passable)) = ToSet(edges) \cap passable
      BY <2>1, OnlyOf
    <3>3. wide = Only(edges, passable)
      BY DEF Routable, passable
    <3> QED
      BY <3>1, <3>2, <3>3
  <2> HIDE DEF wide, widest
  <2>7. Joined(edges, from, to) => (Joined(wide, from, to) <=> Passes(widest, fit.width))
    BY <2>1, <2>2, <2>4, <2>5, <2>6, WidestBetweenIsTrue DEF widest
  <2>8. Components(edges).rank[from] = Components(edges).rank[to] => Joined(edges, from, to)
    <3>1. /\ Classes(edges) \in [Nodes -> Nodes]
          /\ \A p, q \in Nodes : Classes(edges)[p] = Classes(edges)[q] <=> Joined(edges, p, q)
      BY <2>1, ClassesAreJoined
    <3> QED
      BY <2>2, <3>1, ComponentsOf
  <2>9. Through(byWidth) <=> Joined(wide, from, to)
    BY DEF Through, wide, edges, from, to
  <2>10. reason # Nothing => ("width" \in reason <=> ~Joined(wide, from, to))
    BY <2>3, <2>7, <2>8
  <2> QED
    BY <2>3, <2>7, <2>9, <2>10 DEF WidthLimitsAreTrue, edges, from, to, fit, byWidth, reason
<1> QED
  BY <1>1, ReadsFit, PTL

-----------------------------------------------------------------------------
(* The route: an edge as a cheaper way *)

\* What a search holds.
Entries == [cost : Nat, node : Nodes]
Searches(edges) ==
  [best : [Nodes -> Nat \cup {Nothing}], via : [Nodes -> DOMAIN edges \cup {Nothing}], heap : SUBSET Entries]

\* Edges between rooms in scope, each with a length.
Measured(edges, metric) == WiresOf(edges) /\ \A k \in DOMAIN edges : Weight(edges[k], metric) \in Nat

\* The search after each edge at a node.
RelaxedBy(f, s, edges, top, metric, at) ==
  /\ f \in [0..Len(at) -> Searches(edges)] /\ f[0] = s
  /\ \A n \in 1..Len(at) : f[n] = Relaxed(f[n - 1], edges, top, metric, at[n])

\* An edge leads from a room to another.
LEMMA OtherEnd ==
  ASSUME NEW edges, NEW metric, Measured(edges, metric), NEW k \in DOMAIN edges, NEW n
  PROVE  /\ Other(edges[k], n) \in Nodes /\ Other(edges[k], n) \in Pair(edges[k])
         /\ n \in Pair(edges[k]) => /\ n \in Nodes /\ Other(edges[k], n) # n
                                    /\ Pair(edges[k]) = {n, Other(edges[k], n)}
                                    /\ Other(edges[k], Other(edges[k], n)) = n
<1>1. edges[k].a # edges[k].b /\ edges[k].a \in Nodes /\ edges[k].b \in Nodes
  BY DEF Measured, WiresOf, Wire
<1> QED
  BY <1>1 DEF Other, Pair

\* What one edge does to a search.
LEMMA RelaxedOf ==
  ASSUME NEW edges, NEW metric, Measured(edges, metric), NEW s \in Searches(edges), NEW top \in Entries,
         NEW k \in DOMAIN edges
  PROVE  LET next == Other(edges[k], top.node)
             c == top.cost + Weight(edges[k], metric)
             r == Relaxed(s, edges, top, metric, k)
         IN  /\ c \in Nat /\ next \in Nodes /\ r \in Searches(edges)
             /\ s.best[next] # Nothing /\ s.best[next] <= c => r = s
             /\ ~(s.best[next] # Nothing /\ s.best[next] <= c) =>
                   /\ r.best = [s.best EXCEPT ![next] = c] /\ r.via = [s.via EXCEPT ![next] = k]
                   /\ r.heap = s.heap \cup {[cost |-> c, node |-> next]}
<1> DEFINE next == Other(edges[k], top.node)
           w == Weight(edges[k], metric)
           c == top.cost + w
           r == Relaxed(s, edges, top, metric, k)
           worse == s.best[next] # Nothing /\ c >= s.best[next]
<1>1. next \in Nodes /\ w \in Nat /\ top.cost \in Nat
  BY OtherEnd DEF Measured, Entries
<1>2. s.best \in [Nodes -> Nat \cup {Nothing}] /\ s.via \in [Nodes -> DOMAIN edges \cup {Nothing}] /\ s.heap \in SUBSET Entries
  BY DEF Searches
<1>3. r = IF worse THEN s
          ELSE [best |-> [s.best EXCEPT ![next] = c], via |-> [s.via EXCEPT ![next] = k],
                heap |-> s.heap \cup {[cost |-> c, node |-> next]}]
  BY DEF Relaxed
<1>4. c \in Nat
  BY <1>1
<1>5. worse <=> s.best[next] # Nothing /\ s.best[next] <= c
  BY <1>1, <1>2, <1>4, MapAssumption
<1> HIDE DEF worse, r, next, w
<1>6. r \in Searches(edges)
  <2>1. CASE worse
    BY <1>3, <2>1
  <2>2. CASE ~worse
    <3>1. [s.best EXCEPT ![next] = c] \in [Nodes -> Nat \cup {Nothing}]
      BY <1>1, <1>2, <1>4
    <3>2. [s.via EXCEPT ![next] = k] \in [Nodes -> DOMAIN edges \cup {Nothing}]
      BY <1>1, <1>2
    <3>3. [cost |-> c, node |-> next] \in Entries
      BY <1>1, <1>4 DEF Entries
    <3> HIDE DEF c
    <3> QED
      BY <1>2, <1>3, <2>2, <3>1, <3>2, <3>3 DEF Searches
  <2> QED
    BY <2>1, <2>2
<1> HIDE DEF c
<1> QED
  BY <1>1, <1>3, <1>4, <1>5, <1>6 DEF next, c, r, w

\* The edges at a node are gone through one by one.
LEMMA RelaxSteps ==
  ASSUME NEW edges, NEW metric, Measured(edges, metric), NEW s \in Searches(edges), NEW top \in Entries,
         At(edges, top.node) \in Seq(DOMAIN edges)
  PROVE  LET at == At(edges, top.node)
         IN  \E f : RelaxedBy(f, s, edges, top, metric, at) /\ RelaxedAt(s, edges, top, metric) = f[Len(at)]
<1> DEFINE at == At(edges, top.node)
           N == Len(at)
           S == Searches(edges)
           Step(x, i) == Relaxed(x, edges, top, metric, at[i])
           Eq(it) == it = [p \in SUBSET (1..N) |-> IF p = {} THEN s ELSE Step(it[p \ {Max(p)}], Max(p))]
           it == CHOOSE it : Eq(it)
           g == [p \in (1..N) \X S |-> Step(p[2], p[1])]
<1>1. N \in Nat /\ DOMAIN at = 1..N /\ s \in S /\ \A i \in 1..N : at[i] \in DOMAIN edges
  BY LenProperties, ElementOfSeq
<1>2. RelaxedAt(s, edges, top, metric) = it[1..N]
  BY <1>1 DEF RelaxedAt, FoldLeft, MapThenFoldSet
<1> HIDE DEF at
<1>3. \A n \in 1..N, x \in S : g[<<n, x>>] = Step(x, n)
  OBVIOUS
<1>4. g \in StepsOn(N, S)
  <2>1. \A n \in 1..N, x \in S : Step(x, n) \in S
    BY <1>1, RelaxedOf
  <2> HIDE DEF Step, N, S
  <2> QED
    BY <2>1 DEF StepsOn
<1> HIDE DEF N, g, Step, S
<1>5. Eq(it)
  <2>1. PICK j : j \in [SUBSET (1..N) -> S] /\ Folds(j, N, s, g)
    <3> HIDE DEF Eq, it
    <3> QED
      BY <1>1, <1>4, Iteration
  <2>2. ASSUME NEW p \in SUBSET (1..N), p # {} PROVE j[p] = Step(j[p \ {Max(p)}], Max(p))
    <3>1. Max(p) \in 1..N /\ p \ {Max(p)} \in SUBSET (1..N)
      BY <1>1, <2>2, GreatestOf
    <3> QED
      BY <1>3, <2>1, <2>2, <3>1 DEF Folds
  <2>3. Eq(j)
    BY <2>1, <2>2 DEF Folds
  <2> QED
    BY <2>3
<1> HIDE DEF it
<1>6. ASSUME NEW p \in SUBSET (1..N), p # {}, it[p \ {Max(p)}] \in S
      PROVE  it[p] = g[<<Max(p), it[p \ {Max(p)}]>>]
  <2>1. Max(p) \in 1..N
    BY <1>1, <1>6, GreatestOf
  <2> QED
    BY <1>3, <1>5, <1>6, <2>1
<1>7. FoldsWithin(it, N, S, s, g)
  BY <1>5, <1>6 DEF FoldsWithin
<1> HIDE DEF Eq
<1>8. PICK f : CountsUp(f, N, S, s, g) /\ it[1..N] = f[N]
  BY <1>1, <1>4, <1>7, FoldSteps
<1>9. \A n \in 1..N : f[n] = Step(f[n - 1], n)
  <2> TAKE n \in 1..N
  <2>1. n - 1 \in 0..N
    BY <1>1
  <2> QED
    BY <1>3, <1>8, <2>1 DEF CountsUp
<1>10. RelaxedBy(f, s, edges, top, metric, at)
  BY <1>8, <1>9 DEF N, Step, S, CountsUp, RelaxedBy
<1> QED
  BY <1>2, <1>8, <1>10 DEF N, at

\* An entry of the heap.
Entry(c, n) == [cost |-> c, node |-> n]

\* A room is reached, at no more than a cost.
Within(best, n, c) == best[n] # Nothing /\ best[n] <= c

\* What trying some of the edges at the node popped makes of a search.
RelaxedTo(s, r, edges, top, metric, ks) ==
  /\ r \in Searches(edges)
  /\ \A n \in Nodes : s.best[n] # Nothing => Within(r.best, n, s.best[n])
  /\ \A k \in ks : Within(r.best, Other(edges[k], top.node), top.cost + Weight(edges[k], metric))
  /\ \A n \in Nodes : r.best[n] = s.best[n] => r.via[n] = s.via[n]
  /\ \A n \in Nodes : r.best[n] # s.best[n] =>
       /\ r.via[n] \in ks /\ n = Other(edges[r.via[n]], top.node)
       /\ r.best[n] = top.cost + Weight(edges[r.via[n]], metric)
       /\ Entry(r.best[n], n) \in r.heap
  /\ s.heap \subseteq r.heap
  /\ \A x \in r.heap \ s.heap :
       /\ Within(r.best, x.node, x.cost) /\ x.cost >= top.cost /\ x.node # top.node
       /\ s.best[x.node] = Nothing \/ x.cost < s.best[x.node]

\* Nothing is made of it before the first.
LEMMA NothingTried ==
  ASSUME NEW edges, NEW metric, NEW s \in Searches(edges), NEW top
  PROVE  RelaxedTo(s, s, edges, top, metric, {})
<1>1. \A n \in Nodes : s.best[n] \in Nat \cup {Nothing}
  BY DEF Searches
<1> QED
  BY <1>1 DEF RelaxedTo, Within

\* And one more edge adds what it should.
LEMMA OneMoreTried ==
  ASSUME NEW edges, NEW metric, Measured(edges, metric), NEW s \in Searches(edges), NEW top \in Entries,
         NEW ks \in SUBSET DOMAIN edges, NEW r, RelaxedTo(s, r, edges, top, metric, ks),
         NEW k \in DOMAIN edges, top.node \in Pair(edges[k])
  PROVE  RelaxedTo(s, Relaxed(r, edges, top, metric, k), edges, top, metric, ks \cup {k})
<1> DEFINE next == Other(edges[k], top.node)
           w == Weight(edges[k], metric)
           c == top.cost + w
           t == Relaxed(r, edges, top, metric, k)
           worse == r.best[next] # Nothing /\ r.best[next] <= c
<1>1. r \in Searches(edges)
  BY DEF RelaxedTo
<1>2. /\ c \in Nat /\ next \in Nodes /\ t \in Searches(edges)
      /\ worse => t = r
      /\ ~worse => /\ t.best = [r.best EXCEPT ![next] = c] /\ t.via = [r.via EXCEPT ![next] = k]
                   /\ t.heap = r.heap \cup {[cost |-> c, node |-> next]}
  BY <1>1, RelaxedOf
<1>3. next # top.node /\ w \in Nat /\ top.cost \in Nat
  BY OtherEnd DEF Measured, Entries
<1>4. CASE worse
  <2>1. Within(r.best, next, c)
    BY <1>4 DEF Within
  <2>2. t = r
    BY <1>2, <1>4
  <2> HIDE DEF worse
  <2>3. RelaxedTo(s, r, edges, top, metric, ks \cup {k})
    BY <2>1 DEF RelaxedTo
  <2> QED
    BY <2>2, <2>3
<1>5. CASE ~worse
  <2>1. /\ r.best \in [Nodes -> Nat \cup {Nothing}] /\ r.via \in [Nodes -> DOMAIN edges \cup {Nothing}]
        /\ s.best \in [Nodes -> Nat \cup {Nothing}] /\ s.via \in [Nodes -> DOMAIN edges \cup {Nothing}]
        /\ \A x \in r.heap : x.cost \in Nat /\ x.node \in Nodes
    BY <1>1 DEF Searches, Entries
  <2>2. /\ t.best = [r.best EXCEPT ![next] = c] /\ t.via = [r.via EXCEPT ![next] = k]
        /\ t.heap = r.heap \cup {Entry(c, next)}
    BY <1>2, <1>5 DEF Entry
  <2>3. r.best[next] = Nothing \/ (r.best[next] \in Nat /\ c < r.best[next])
    BY <1>2, <1>5, <2>1
  <2>4. c \in Nat /\ next \in Nodes /\ t \in Searches(edges) /\ c >= top.cost
    BY <1>2, <1>3
  <2> HIDE DEF c, t, next, worse
  <2>5. /\ t.best[next] = c /\ t.via[next] = k
        /\ \A n \in Nodes \ {next} : t.best[n] = r.best[n] /\ t.via[n] = r.via[n]
    BY <2>1, <2>2, <2>4
  <2>6. Nothing \notin Nat
    BY MapAssumption
  <2>7. \A n \in Nodes : r.best[n] # Nothing => Within(t.best, n, r.best[n])
    BY <2>1, <2>3, <2>4, <2>5, <2>6 DEF Within
  <2>8. \A n \in Nodes, d \in Nat : Within(r.best, n, d) => Within(t.best, n, d)
    BY <2>1, <2>3, <2>4, <2>5, <2>6 DEF Within
  <2>9. \A n \in Nodes : s.best[n] # Nothing => Within(t.best, n, s.best[n])
    BY <2>1, <2>8 DEF RelaxedTo
  <2>10. \A l \in ks \cup {k} : Within(t.best, Other(edges[l], top.node), top.cost + Weight(edges[l], metric))
    <3>1. \A l \in ks : Other(edges[l], top.node) \in Nodes /\ top.cost + Weight(edges[l], metric) \in Nat
      BY <1>3, OtherEnd DEF Measured
    <3>2. Within(t.best, next, c)
      BY <2>4, <2>5, <2>6 DEF Within
    <3> QED
      BY <2>8, <3>1, <3>2 DEF RelaxedTo, next, c, w
  <2>11. s.best[next] # c
    <3>1. s.best[next] # Nothing => r.best[next] # Nothing /\ r.best[next] <= s.best[next]
      BY <2>4 DEF RelaxedTo, Within
    <3> QED
      BY <2>1, <2>3, <2>4, <2>6, <3>1
  <2>12. \A n \in Nodes : t.best[n] = s.best[n] => t.via[n] = s.via[n]
    BY <2>5, <2>11 DEF RelaxedTo
  <2>13. \A n \in Nodes : t.best[n] # s.best[n] =>
            /\ t.via[n] \in ks \cup {k} /\ n = Other(edges[t.via[n]], top.node)
            /\ t.best[n] = top.cost + Weight(edges[t.via[n]], metric)
            /\ Entry(t.best[n], n) \in t.heap
    <3> TAKE n \in Nodes
    <3>1. CASE n = next
      BY <2>2, <2>5, <3>1 DEF next, c, w
    <3>2. CASE n # next
      BY <2>2, <2>5, <3>2 DEF RelaxedTo
    <3> QED
      BY <3>1, <3>2
  <2>14. s.heap \subseteq t.heap
    BY <2>2 DEF RelaxedTo
  <2>15. \A x \in t.heap \ s.heap :
            /\ Within(t.best, x.node, x.cost) /\ x.cost >= top.cost /\ x.node # top.node
            /\ s.best[x.node] = Nothing \/ x.cost < s.best[x.node]
    <3> TAKE x \in t.heap \ s.heap
    <3>1. CASE x = Entry(c, next)
      <4>1. x.node = next /\ x.cost = c
        BY <3>1 DEF Entry
      <4>2. s.best[next] = Nothing \/ c < s.best[next]
        <5>1. s.best[next] # Nothing => r.best[next] # Nothing /\ r.best[next] <= s.best[next]
          BY <2>4 DEF RelaxedTo, Within
        <5> QED
          BY <2>1, <2>3, <2>4, <2>6, <5>1
      <4> QED
        BY <1>3, <2>4, <2>5, <2>6, <4>1, <4>2 DEF Within, next
    <3>2. CASE x # Entry(c, next)
      <4>1. x \in r.heap \ s.heap
        BY <2>2, <3>2
      <4> QED
        BY <2>1, <2>8, <4>1 DEF RelaxedTo
    <3> QED
      BY <3>1, <3>2
  <2> QED
    BY <2>4, <2>9, <2>10, <2>12, <2>13, <2>14, <2>15 DEF RelaxedTo, t
<1> QED
  BY <1>4, <1>5

\* The edges that lead to a room.
EdgesAt(edges, n) == {k \in DOMAIN edges : n \in Pair(edges[k])}

\* At lists the edges at a room, each once.
LEMMA AtOf ==
  ASSUME NEW E, NEW edges \in Seq(E), NEW n
  PROVE  /\ At(edges, n) \in Seq(DOMAIN edges) /\ IsInjective(At(edges, n))
         /\ ToSet(At(edges, n)) = EdgesAt(edges, n)
<1> DEFINE D == DOMAIN edges
           numbers == [k \in DOMAIN edges |-> k]
           wanted == EdgesAt(edges, n)
<1>1. D = 1..Len(edges) /\ Len(edges) \in Nat
  BY LenProperties
<1>2. numbers \in Seq(D) /\ ToSet(numbers) = D /\ IsInjective(numbers)
  BY <1>1, SeqDef DEF ToSet, IsInjective
<1>3. At(edges, n) = Only(numbers, wanted)
  BY DEF At, EdgesAt
<1>4. wanted \subseteq D
  BY DEF EdgesAt
<1> HIDE DEF numbers, wanted, D
<1>5. Only(numbers, wanted) \in Seq(D) /\ ToSet(Only(numbers, wanted)) = ToSet(numbers) \cap wanted
      /\ IsInjective(Only(numbers, wanted))
  BY <1>2, OnlyOf
<1> QED
  BY <1>2, <1>3, <1>4, <1>5 DEF wanted, D

\* An edge adds one entry at most.
LEMMA OneMoreInHeap ==
  ASSUME NEW s, NEW edges, NEW top, NEW metric, NEW k
  PROVE  LET r == Relaxed(s, edges, top, metric, k)
         IN  \/ r.heap = s.heap
             \/ r.heap = s.heap \cup {Entry(top.cost + Weight(edges[k], metric), Other(edges[k], top.node))}
<1> DEFINE r == Relaxed(s, edges, top, metric, k)
           e == Entry(top.cost + Weight(edges[k], metric), Other(edges[k], top.node))
<1>1. r = s \/ \E best, via : r = [best |-> best, via |-> via, heap |-> s.heap \cup {e}]
  BY DEF Relaxed, Entry
<1> HIDE DEF r, e
<1>2. r.heap = s.heap \/ r.heap = s.heap \cup {e}
  BY <1>1
<1> QED
  BY <1>2 DEF r, e

\* What trying all the edges at a node makes of a search: no more is added to the heap than there
\* are edges.
LEMMA AllTried ==
  ASSUME NEW E, NEW edges \in Seq(E), NEW metric, Measured(edges, metric), NEW s \in Searches(edges),
         NEW top \in Entries, IsFiniteSet(s.heap)
  PROVE  LET r == RelaxedAt(s, edges, top, metric)
             ks == EdgesAt(edges, top.node)
         IN  /\ RelaxedTo(s, r, edges, top, metric, ks)
             /\ IsFiniteSet(r.heap) /\ Cardinality(r.heap) <= Cardinality(s.heap) + Cardinality(ks)
<1> DEFINE at == At(edges, top.node)
           r == RelaxedAt(s, edges, top, metric)
           ks == EdgesAt(edges, top.node)
           N == Len(at)
           Before(n) == {at[i] : i \in 1..n}
           h == Cardinality(s.heap)
<1>1. at \in Seq(DOMAIN edges) /\ IsInjective(at) /\ ToSet(at) = ks
  BY AtOf
<1>2. PICK f : RelaxedBy(f, s, edges, top, metric, at) /\ r = f[N]
  BY <1>1, RelaxSteps
<1> HIDE DEF at, r
<1>3. N \in Nat /\ DOMAIN at = 1..N
  BY <1>1, LenProperties
<1>4. \A i \in 1..N : at[i] \in DOMAIN edges /\ top.node \in Pair(edges[at[i]])
  BY <1>1, <1>3 DEF ToSet, EdgesAt
<1>5. N = Cardinality(ks) /\ Before(N) = ks
  <2>1. N = Cardinality(ks)
    BY <1>1, AsLongAs
  <2> QED
    BY <1>1, <1>3, <2>1 DEF ToSet
<1> HIDE DEF N
<1> DEFINE Fit(n) == /\ RelaxedTo(s, f[n], edges, top, metric, Before(n))
                     /\ IsFiniteSet(f[n].heap) /\ Cardinality(f[n].heap) <= h + n
           Good == {n \in 0..N : Fit(n)}
<1>6. h \in Nat
  BY FS_CardinalityType
<1>7. 0 \in Good
  <2>1. f[0] = s /\ Before(0) = {}
    BY <1>2 DEF RelaxedBy
  <2> HIDE DEF Before, h
  <2>2. Fit(0)
    <3>1. RelaxedTo(s, f[0], edges, top, metric, Before(0))
      BY <2>1, NothingTried
    <3> QED
      BY <1>6, <2>1, <3>1 DEF h
  <2> HIDE DEF Fit
  <2> QED
    BY <1>3, <2>2
<1>8. ASSUME NEW n \in 0..N, n \in Good, n < N PROVE n + 1 \in Good
  <2>1. n \in Nat /\ n + 1 \in 1..N /\ n + 1 \in 0..N /\ (n + 1) - 1 = n
    BY <1>3, <1>8
  <2> DEFINE k == at[n + 1]
             x == f[n]
             y == f[n + 1]
  <2>2. y = Relaxed(x, edges, top, metric, k)
    BY <1>2, <2>1 DEF RelaxedBy, N
  <2>3. k \in DOMAIN edges /\ top.node \in Pair(edges[k])
    BY <1>4, <2>1
  <2>4. Before(n + 1) = Before(n) \cup {k} /\ Before(n) \in SUBSET DOMAIN edges
    <3>1. 1..(n + 1) = 1..n \cup {n + 1} /\ 1..n \subseteq 1..N
      BY <1>3, <2>1
    <3> HIDE DEF k
    <3>2. k = at[n + 1]
      BY DEF k
    <3> QED
      BY <1>4, <3>1, <3>2
  <2>5. Fit(n)
    BY <1>8
  <2> HIDE DEF k, x, y, Before, h
  <2>6. RelaxedTo(s, y, edges, top, metric, Before(n + 1))
    BY <2>2, <2>3, <2>4, <2>5, OneMoreTried DEF x
  <2> DEFINE e == Entry(top.cost + Weight(edges[k], metric), Other(edges[k], top.node))
  <2>7. y.heap = x.heap \/ y.heap = x.heap \cup {e}
    BY <2>2, OneMoreInHeap
  <2>8. IsFiniteSet(y.heap) /\ Cardinality(y.heap) <= h + (n + 1)
    <3>1. IsFiniteSet(x.heap) /\ Cardinality(x.heap) <= h + n /\ Cardinality(x.heap) \in Nat
      BY <2>5, FS_CardinalityType DEF x
    <3>2. CASE y.heap = x.heap
      BY <1>6, <2>1, <3>1, <3>2
    <3>3. CASE y.heap = x.heap \cup {e}
      <4> HIDE DEF e
      <4>1. /\ IsFiniteSet(x.heap \cup {e})
            /\ Cardinality(x.heap \cup {e}) = IF e \in x.heap THEN Cardinality(x.heap) ELSE Cardinality(x.heap) + 1
        BY <3>1, FS_AddElement
      <4> QED
        BY <1>6, <2>1, <3>1, <3>3, <4>1
    <3> QED
      BY <2>7, <3>2, <3>3
  <2> QED
    BY <2>1, <2>6, <2>8 DEF y
<1> HIDE DEF Good, Fit
<1>9. 0..N \subseteq Good
  BY <1>3, <1>7, <1>8, CountUp
<1>10. Fit(N)
  BY <1>3, <1>9 DEF Good
<1> QED
  BY <1>2, <1>5, <1>10 DEF Fit, r, at, h

-----------------------------------------------------------------------------
(* Walks *)

\* The cost of a walk after each of its edges.
CostBy(f, edges, walk, metric) ==
  /\ f \in [0..Len(walk) -> Nat] /\ f[0] = 0
  /\ \A n \in 1..Len(walk) : f[n] = f[n - 1] + Weight(edges[walk[n]], metric)

\* Where a walk is after each of its edges.
EndBy(f, edges, walk, from) ==
  /\ f \in [0..Len(walk) -> Nodes \cup {Nothing}] /\ f[0] = from
  /\ \A n \in 1..Len(walk) :
       f[n] = IF f[n - 1] \in Pair(edges[walk[n]]) THEN Other(edges[walk[n]], f[n - 1]) ELSE Nothing

\* Cost goes through a walk edge by edge.
LEMMA CostSteps ==
  ASSUME NEW edges, NEW metric, Measured(edges, metric), NEW walk \in Seq(DOMAIN edges)
  PROVE  \E f : CostBy(f, edges, walk, metric) /\ Cost(edges, walk, metric) = f[Len(walk)]
<1> DEFINE N == Len(walk)
           S == Nat
           Step(x, i) == x + Weight(edges[walk[i]], metric)
           Eq(it) == it = [p \in SUBSET (1..N) |-> IF p = {} THEN 0 ELSE Step(it[p \ {Max(p)}], Max(p))]
           it == CHOOSE it : Eq(it)
           g == [p \in (1..N) \X S |-> Step(p[2], p[1])]
<1>1. N \in Nat /\ DOMAIN walk = 1..N /\ 0 \in S /\ \A i \in 1..N : walk[i] \in DOMAIN edges
  BY LenProperties, ElementOfSeq
<1>2. Cost(edges, walk, metric) = it[1..N]
  BY <1>1 DEF Cost, FoldLeft, MapThenFoldSet
<1>3. \A n \in 1..N, x \in S : g[<<n, x>>] = Step(x, n)
  OBVIOUS
<1>4. g \in StepsOn(N, S)
  <2>1. \A n \in 1..N, x \in S : Step(x, n) \in S
    BY <1>1 DEF Measured
  <2> HIDE DEF Step, N, S
  <2> QED
    BY <2>1 DEF StepsOn
<1> HIDE DEF N, g, Step, S
<1>5. Eq(it)
  <2>1. PICK j : j \in [SUBSET (1..N) -> S] /\ Folds(j, N, 0, g)
    <3> HIDE DEF Eq, it
    <3> QED
      BY <1>1, <1>4, Iteration
  <2>2. ASSUME NEW p \in SUBSET (1..N), p # {} PROVE j[p] = Step(j[p \ {Max(p)}], Max(p))
    <3>1. Max(p) \in 1..N /\ p \ {Max(p)} \in SUBSET (1..N)
      BY <1>1, <2>2, GreatestOf
    <3> QED
      BY <1>3, <2>1, <2>2, <3>1 DEF Folds
  <2>3. Eq(j)
    BY <2>1, <2>2 DEF Folds
  <2> QED
    BY <2>3
<1> HIDE DEF it
<1>6. ASSUME NEW p \in SUBSET (1..N), p # {}, it[p \ {Max(p)}] \in S
      PROVE  it[p] = g[<<Max(p), it[p \ {Max(p)}]>>]
  <2>1. Max(p) \in 1..N
    BY <1>1, <1>6, GreatestOf
  <2> QED
    BY <1>3, <1>5, <1>6, <2>1
<1>7. FoldsWithin(it, N, S, 0, g)
  BY <1>5, <1>6 DEF FoldsWithin
<1> HIDE DEF Eq
<1>8. PICK f : CountsUp(f, N, S, 0, g) /\ it[1..N] = f[N]
  BY <1>1, <1>4, <1>7, FoldSteps
<1>9. \A n \in 1..N : f[n] = Step(f[n - 1], n)
  <2> TAKE n \in 1..N
  <2>1. n - 1 \in 0..N
    BY <1>1
  <2> QED
    BY <1>3, <1>8, <2>1 DEF CountsUp
<1> QED
  BY <1>2, <1>8, <1>9 DEF N, Step, S, CountsUp, CostBy

\* So does End.
LEMMA EndSteps ==
  ASSUME NEW edges, NEW metric, Measured(edges, metric), NEW walk \in Seq(DOMAIN edges), NEW from \in Nodes
  PROVE  \E f : EndBy(f, edges, walk, from) /\ End(edges, walk, from) = f[Len(walk)]
<1> DEFINE N == Len(walk)
           S == Nodes \cup {Nothing}
           Step(x, i) == IF x \in Pair(edges[walk[i]]) THEN Other(edges[walk[i]], x) ELSE Nothing
           Eq(it) == it = [p \in SUBSET (1..N) |-> IF p = {} THEN from ELSE Step(it[p \ {Max(p)}], Max(p))]
           it == CHOOSE it : Eq(it)
           g == [p \in (1..N) \X S |-> Step(p[2], p[1])]
<1>1. N \in Nat /\ DOMAIN walk = 1..N /\ from \in S /\ \A i \in 1..N : walk[i] \in DOMAIN edges
  BY LenProperties, ElementOfSeq
<1>2. End(edges, walk, from) = it[1..N]
  BY <1>1 DEF End, FoldLeft, MapThenFoldSet
<1>3. \A n \in 1..N, x \in S : g[<<n, x>>] = Step(x, n)
  OBVIOUS
<1>4. g \in StepsOn(N, S)
  <2>1. \A n \in 1..N, x \in S : Step(x, n) \in S
    BY <1>1, OtherEnd
  <2> HIDE DEF Step, N, S
  <2> QED
    BY <2>1 DEF StepsOn
<1> HIDE DEF N, g, Step, S
<1>5. Eq(it)
  <2>1. PICK j : j \in [SUBSET (1..N) -> S] /\ Folds(j, N, from, g)
    <3> HIDE DEF Eq, it
    <3> QED
      BY <1>1, <1>4, Iteration
  <2>2. ASSUME NEW p \in SUBSET (1..N), p # {} PROVE j[p] = Step(j[p \ {Max(p)}], Max(p))
    <3>1. Max(p) \in 1..N /\ p \ {Max(p)} \in SUBSET (1..N)
      BY <1>1, <2>2, GreatestOf
    <3> QED
      BY <1>3, <2>1, <2>2, <3>1 DEF Folds
  <2>3. Eq(j)
    BY <2>1, <2>2 DEF Folds
  <2> QED
    BY <2>3
<1> HIDE DEF it
<1>6. ASSUME NEW p \in SUBSET (1..N), p # {}, it[p \ {Max(p)}] \in S
      PROVE  it[p] = g[<<Max(p), it[p \ {Max(p)}]>>]
  <2>1. Max(p) \in 1..N
    BY <1>1, <1>6, GreatestOf
  <2> QED
    BY <1>3, <1>5, <1>6, <2>1
<1>7. FoldsWithin(it, N, S, from, g)
  BY <1>5, <1>6 DEF FoldsWithin
<1> HIDE DEF Eq
<1>8. PICK f : CountsUp(f, N, S, from, g) /\ it[1..N] = f[N]
  BY <1>1, <1>4, <1>7, FoldSteps
<1>9. \A n \in 1..N : f[n] = Step(f[n - 1], n)
  <2> TAKE n \in 1..N
  <2>1. n - 1 \in 0..N
    BY <1>1
  <2> QED
    BY <1>3, <1>8, <2>1 DEF CountsUp
<1> QED
  BY <1>2, <1>8, <1>9 DEF N, Step, S, CountsUp, EndBy

\* There is but one way to go through a walk.
LEMMA OneCost ==
  ASSUME NEW edges, NEW walk, Len(walk) \in Nat, NEW metric, NEW f, CostBy(f, edges, walk, metric),
         NEW h, h[0] = 0, \A n \in 1..Len(walk) : h[n] = h[n - 1] + Weight(edges[walk[n]], metric)
  PROVE  h[Len(walk)] = f[Len(walk)]
<1> DEFINE N == Len(walk)
           Same == {n \in 0..N : h[n] = f[n]}
<1>1. 0 \in Same
  BY DEF CostBy
<1>2. ASSUME NEW n \in 0..N, n \in Same, n < N PROVE n + 1 \in Same
  <2>1. n + 1 \in 1..N /\ n + 1 \in 0..N /\ (n + 1) - 1 = n
    BY <1>2
  <2> QED
    BY <1>2, <2>1 DEF CostBy
<1> HIDE DEF Same
<1>3. 0..N \subseteq Same
  BY <1>1, <1>2, CountUp
<1> QED
  BY <1>3 DEF Same

\* Nor is there another place to end.
LEMMA OneEnd ==
  ASSUME NEW edges, NEW walk, Len(walk) \in Nat, NEW from, NEW f, EndBy(f, edges, walk, from),
         NEW h, h[0] = from,
         \A n \in 1..Len(walk) :
            h[n] = IF h[n - 1] \in Pair(edges[walk[n]]) THEN Other(edges[walk[n]], h[n - 1]) ELSE Nothing
  PROVE  h[Len(walk)] = f[Len(walk)]
<1> DEFINE N == Len(walk)
           Same == {n \in 0..N : h[n] = f[n]}
<1>1. 0 \in Same
  BY DEF EndBy
<1>2. ASSUME NEW n \in 0..N, n \in Same, n < N PROVE n + 1 \in Same
  <2>1. n + 1 \in 1..N /\ n + 1 \in 0..N /\ (n + 1) - 1 = n
    BY <1>2
  <2> QED
    BY <1>2, <2>1 DEF EndBy
<1> HIDE DEF Same
<1>3. 0..N \subseteq Same
  BY <1>1, <1>2, CountUp
<1> QED
  BY <1>3 DEF Same

\* No walk at all.
LEMMA EmptyWalk ==
  ASSUME NEW edges, NEW metric, Measured(edges, metric), NEW from \in Nodes
  PROVE  Cost(edges, <<>>, metric) = 0 /\ Leads(edges, <<>>, from, from)
<1>1. <<>> \in Seq(DOMAIN edges) /\ Len(<<>>) = 0
  OBVIOUS
<1>2. \E f : CostBy(f, edges, <<>>, metric) /\ Cost(edges, <<>>, metric) = f[0]
  BY <1>1, CostSteps
<1>3. \E f : EndBy(f, edges, <<>>, from) /\ End(edges, <<>>, from) = f[0]
  BY <1>1, EndSteps
<1> QED
  BY <1>2, <1>3 DEF CostBy, EndBy, Leads

\* A walk that goes on costs the next edge more, and leads to its other end.
LEMMA LongerWalk ==
  ASSUME NEW edges, NEW metric, Measured(edges, metric), NEW walk \in Seq(DOMAIN edges), NEW from \in Nodes,
         NEW k \in DOMAIN edges, NEW to, Leads(edges, walk, from, to), to \in Pair(edges[k])
  PROVE  /\ Append(walk, k) \in Seq(DOMAIN edges)
         /\ Cost(edges, Append(walk, k), metric) = Cost(edges, walk, metric) + Weight(edges[k], metric)
         /\ Leads(edges, Append(walk, k), from, Other(edges[k], to))
<1> DEFINE more == Append(walk, k)
           N == Len(walk)
<1>1. /\ more \in Seq(DOMAIN edges) /\ Len(more) = N + 1 /\ N \in Nat
      /\ more[N + 1] = k /\ \A n \in 1..N : more[n] = walk[n]
  BY AppendProperties, LenProperties
<1> HIDE DEF more
<1>2. PICK f : CostBy(f, edges, walk, metric) /\ Cost(edges, walk, metric) = f[N]
  BY CostSteps
<1>3. PICK g : CostBy(g, edges, more, metric) /\ Cost(edges, more, metric) = g[N + 1]
  BY <1>1, CostSteps
<1>4. PICK p : EndBy(p, edges, walk, from) /\ End(edges, walk, from) = p[N]
  BY EndSteps
<1>5. PICK q : EndBy(q, edges, more, from) /\ End(edges, more, from) = q[N + 1]
  BY <1>1, EndSteps
<1>6. N + 1 \in 1..(N + 1) /\ (N + 1) - 1 = N /\ \A n \in 1..N : n \in 1..(N + 1)
  BY <1>1
<1>7. g[N] = f[N]
  <2>1. g[0] = 0 /\ \A n \in 1..N : g[n] = g[n - 1] + Weight(edges[walk[n]], metric)
    BY <1>1, <1>3, <1>6 DEF CostBy
  <2> QED
    BY <1>1, <1>2, <2>1, OneCost
<1>8. q[N] = p[N]
  <2>1. q[0] = from
    BY <1>5 DEF EndBy
  <2>2. \A n \in 1..N : q[n] = IF q[n - 1] \in Pair(edges[walk[n]]) THEN Other(edges[walk[n]], q[n - 1]) ELSE Nothing
    BY <1>1, <1>5, <1>6 DEF EndBy
  <2> QED
    BY <1>1, <1>4, <2>1, <2>2, OneEnd
<1>9. g[N + 1] = g[N] + Weight(edges[k], metric)
  BY <1>1, <1>3, <1>6 DEF CostBy
<1>10. q[N + 1] = Other(edges[k], q[N])
  BY <1>1, <1>4, <1>5, <1>6, <1>8 DEF EndBy, Leads
<1> QED
  BY <1>1, <1>2, <1>3, <1>4, <1>5, <1>7, <1>8, <1>9, <1>10 DEF Leads, more

-----------------------------------------------------------------------------
(* The route: the search under way *)

\* The rooms popped for good: reached, and not waiting with what they are reached at.
Settled(s) == {n \in Nodes : s.best[n] # Nothing /\ Entry(s.best[n], n) \notin s.heap}

\* The room a room was reached from.
Back(edges, s, n) == Other(edges[s.via[n]], n)

\* A search under way: costs are those of ways through rooms that are settled, no room settled can
\* be reached for less than what waits, and every edge at one has been tried.
SearchFits(s, edges, from, to, metric) ==
  /\ s \in Searches(edges) /\ s.best[from] = 0 /\ to \notin Settled(s)
  /\ \A x \in s.heap : Within(s.best, x.node, x.cost)
  /\ \A n \in Settled(s), x \in s.heap : s.best[n] <= x.cost
  /\ \A n \in Settled(s) : \A k \in EdgesAt(edges, n) :
        Within(s.best, Other(edges[k], n), s.best[n] + Weight(edges[k], metric))
  /\ \A n \in Nodes \ {from} : s.best[n] = Nothing => s.via[n] = Nothing
  /\ \A n \in Nodes \ {from} : s.best[n] # Nothing =>
        /\ s.via[n] \in EdgesAt(edges, n) /\ Back(edges, s, n) \in Settled(s)
        /\ s.best[n] = s.best[Back(edges, s, n)] + Weight(edges[s.via[n]], metric)

\* The cheapest entry is one.
LEMMA TopOf ==
  ASSUME NEW heap \in SUBSET Entries, heap # {}
  PROVE  Top(heap) \in heap /\ \A x \in heap : Top(heap).cost <= x.cost
<1> DEFINE costs == {x.cost : x \in heap}
<1>1. costs \in SUBSET Nat /\ costs # {}
  BY DEF Entries
<1>2. PICK c \in costs : \A d \in costs : c <= d
  BY <1>1, LeastNumber
<1> DEFINE nodes == {x.node : x \in {y \in heap : y.cost = c}}
<1>3. nodes \in SUBSET Nat /\ nodes # {}
  BY DEF Entries, Nodes
<1>4. PICK n \in nodes : \A m \in nodes : n <= m
  BY <1>3, LeastNumber
<1>5. PICK x \in heap : x.cost = c /\ x.node = n
  OBVIOUS
<1>6. \A y \in heap : y.cost \in Nat /\ c <= y.cost /\ (y.cost = c => n <= y.node)
  BY <1>2, <1>4 DEF Entries
<1>7. c \in Nat
  BY <1>1
<1> HIDE DEF costs, nodes
<1>8. \A y \in heap : x.cost < y.cost \/ (x.cost = y.cost /\ x.node <= y.node)
  BY <1>5, <1>6, <1>7
<1>9. Top(heap) \in heap /\ \A y \in heap : Top(heap).cost < y.cost \/ (Top(heap).cost = y.cost /\ Top(heap).node <= y.node)
  BY <1>8 DEF Top
<1> QED
  BY <1>6, <1>9

\* The search begins so.
LEMMA BegunFits ==
  ASSUME NEW edges, NEW metric, Measured(edges, metric), NEW from \in Nodes, NEW to \in Nodes
  PROVE  SearchFits(Begun(from), edges, from, to, metric) /\ Settled(Begun(from)) = {}
<1> DEFINE s == Begun(from)
<1>1. /\ s.best = [m \in Nodes |-> IF m = from THEN 0 ELSE Nothing] /\ s.via = [m \in Nodes |-> Nothing]
      /\ s.heap = {Entry(0, from)}
  BY DEF Begun, Entry
<1>2. s \in Searches(edges)
  BY DEF Begun, Searches, Entries
<1> HIDE DEF s
<1>3. /\ s.best[from] = 0 /\ \A n \in Nodes \ {from} : s.best[n] = Nothing /\ s.via[n] = Nothing
      /\ \A x \in s.heap : x.cost = 0 /\ x.node = from
  BY <1>1 DEF Entry
<1>4. Settled(s) = {}
  BY <1>1, <1>3 DEF Settled
<1>5. SearchFits(s, edges, from, to, metric)
  BY <1>2, <1>3, <1>4, MapAssumption DEF SearchFits, Within
<1> QED
  BY <1>4, <1>5 DEF s

\* An entry of a room that has been reached for less since is dropped.
LEMMA StaleIsDropped ==
  ASSUME NEW edges, NEW metric, Measured(edges, metric), NEW from \in Nodes, NEW to \in Nodes,
         NEW s, SearchFits(s, edges, from, to, metric), NEW top \in s.heap, s.best[top.node] < top.cost,
         NEW r, r = [s EXCEPT !.heap = @ \ {top}]
  PROVE  SearchFits(r, edges, from, to, metric) /\ Settled(r) = Settled(s)
<1>1. s \in Searches(edges) /\ top.node \in Nodes /\ top.cost \in Nat
  BY DEF SearchFits, Searches, Entries
<1>2. r \in Searches(edges) /\ r.best = s.best /\ r.via = s.via /\ r.heap = s.heap \ {top}
  BY <1>1 DEF Searches
<1>3. \A n \in Nodes : s.best[n] # Nothing => (Entry(s.best[n], n) \in r.heap <=> Entry(s.best[n], n) \in s.heap)
  <2> SUFFICES ASSUME NEW n \in Nodes, s.best[n] # Nothing, top = Entry(s.best[n], n) PROVE FALSE
    BY <1>2
  <2>1. top.cost = s.best[n] /\ top.node = n
    BY DEF Entry
  <2>2. s.best[n] \in Nat
    BY <1>1 DEF Searches
  <2> QED
    BY <2>1, <2>2
<1>4. Settled(r) = Settled(s)
  BY <1>2, <1>3 DEF Settled
<1>5. \A n \in Nodes : Back(edges, r, n) = Back(edges, s, n)
  BY <1>2 DEF Back
<1>6. \A x \in r.heap : x \in s.heap
  BY <1>2
<1>7. SearchFits(r, edges, from, to, metric)
  BY <1>2, <1>4, <1>5, <1>6 DEF SearchFits
<1> QED
  BY <1>4, <1>7

\* A room is settled: r is what has become of a search s in which it was the cheapest to wait.
SettlesNext(s, r, edges, top, metric) ==
  /\ top \in s.heap /\ s.best[top.node] = top.cost /\ \A x \in s.heap : top.cost <= x.cost
  /\ RelaxedTo([s EXCEPT !.heap = @ \ {top}], r, edges, top, metric, EdgesAt(edges, top.node))

\* Then the rooms settled are those before and it, and nothing changes about them.
LEMMA SettledGrows ==
  ASSUME NEW edges, NEW metric, Measured(edges, metric), NEW from \in Nodes, NEW to \in Nodes,
         NEW s, SearchFits(s, edges, from, to, metric), NEW top, NEW r, SettlesNext(s, r, edges, top, metric)
  PROVE  /\ top.node \in Nodes \ Settled(s) /\ Settled(r) = Settled(s) \cup {top.node}
         /\ \A n \in Settled(r) : r.best[n] = s.best[n] /\ r.via[n] = s.via[n]
<1> DEFINE u == top.node
           c == top.cost
           p == [s EXCEPT !.heap = @ \ {top}]
<1>1. /\ s \in Searches(edges) /\ u \in Nodes /\ c \in Nat /\ s.best[u] = c /\ top \in s.heap
      /\ top = Entry(c, u)
  BY DEF SearchFits, SettlesNext, Searches, Entries, Entry
<1>2. p.best = s.best /\ p.via = s.via /\ p.heap = s.heap \ {top}
  BY <1>1 DEF Searches
<1>3. RelaxedTo(p, r, edges, top, metric, EdgesAt(edges, u))
  BY DEF SettlesNext
<1> HIDE DEF p
<1>4. s.best \in [Nodes -> Nat \cup {Nothing}] /\ r.best \in [Nodes -> Nat \cup {Nothing}] /\ Nothing \notin Nat
  BY <1>1, <1>3, MapAssumption DEF RelaxedTo, Searches
<1>5. \A k \in EdgesAt(edges, u) : /\ k \in DOMAIN edges /\ Weight(edges[k], metric) \in Nat
                                   /\ Other(edges[k], u) # u /\ Other(edges[k], u) \in Nodes
  BY OtherEnd DEF EdgesAt, Measured
<1>6. \A n \in Nodes : r.best[n] # s.best[n] =>
         /\ n # u /\ r.best[n] \in Nat /\ r.best[n] >= c /\ Entry(r.best[n], n) \in r.heap
         /\ s.best[n] = Nothing \/ r.best[n] < s.best[n]
  <2> TAKE n \in Nodes
  <2> SUFFICES ASSUME r.best[n] # s.best[n]
               PROVE  /\ n # u /\ r.best[n] \in Nat /\ r.best[n] >= c /\ Entry(r.best[n], n) \in r.heap
                      /\ s.best[n] = Nothing \/ r.best[n] < s.best[n]
    OBVIOUS
  <2>1. /\ r.via[n] \in EdgesAt(edges, u) /\ n = Other(edges[r.via[n]], u)
        /\ r.best[n] = c + Weight(edges[r.via[n]], metric) /\ Entry(r.best[n], n) \in r.heap
    BY <1>2, <1>3 DEF RelaxedTo
  <2>2. n # u /\ r.best[n] \in Nat /\ r.best[n] >= c
    BY <1>1, <1>5, <2>1
  <2>3. s.best[n] # Nothing => r.best[n] <= s.best[n]
    BY <1>2, <1>3 DEF RelaxedTo, Within
  <2> QED
    BY <1>4, <2>1, <2>2, <2>3
<1>7. \A n \in Nodes : r.best[n] = s.best[n] => r.via[n] = s.via[n]
  BY <1>2, <1>3 DEF RelaxedTo
<1>8. \A n \in Nodes : \A d : Entry(d, n) \in s.heap /\ n # u => Entry(d, n) \in r.heap
  BY <1>2, <1>3 DEF RelaxedTo, Entry
<1>9. \A d : Entry(d, u) \in r.heap => Entry(d, u) \in s.heap /\ d # c
  <2> SUFFICES ASSUME NEW d, Entry(d, u) \in r.heap PROVE Entry(d, u) \in p.heap
    BY <1>1, <1>2
  <2>1. Entry(d, u).node = u
    BY DEF Entry
  <2> QED
    BY <1>3, <2>1 DEF RelaxedTo
<1>10. \A n \in Settled(s) : n \in Nodes /\ s.best[n] \in Nat /\ s.best[n] <= c
  BY <1>1, <1>4 DEF Settled, SearchFits
<1>11. u \notin Settled(s)
  BY <1>1 DEF Settled
<1>12. \A n \in Settled(s) : r.best[n] = s.best[n]
  BY <1>1, <1>4, <1>6, <1>10
<1>13. r.best[u] = s.best[u]
  BY <1>1, <1>6
<1>14. Settled(r) \subseteq Settled(s) \cup {u}
  <2> SUFFICES ASSUME NEW n \in Settled(r), n # u PROVE n \in Settled(s)
    OBVIOUS
  <2>1. n \in Nodes /\ r.best[n] # Nothing /\ Entry(r.best[n], n) \notin r.heap
    BY DEF Settled
  <2>2. r.best[n] = s.best[n]
    BY <1>6, <2>1
  <2> QED
    BY <1>8, <2>1, <2>2 DEF Settled
<1>15. u \in Settled(r)
  BY <1>1, <1>4, <1>9, <1>13 DEF Settled
<1>16. Settled(s) \subseteq Settled(r)
  <2> SUFFICES ASSUME NEW n \in Settled(s) PROVE n \in Settled(r)
    OBVIOUS
  <2>1. n \in Nodes /\ r.best[n] = s.best[n] /\ s.best[n] # Nothing /\ Entry(s.best[n], n) \notin s.heap
    BY <1>12 DEF Settled
  <2>2. Entry(s.best[n], n) \notin r.heap
    <3> SUFFICES ASSUME Entry(s.best[n], n) \in r.heap PROVE FALSE
      OBVIOUS
    <3>1. Entry(s.best[n], n) \in r.heap \ p.heap
      BY <1>2, <2>1
    <3>2. s.best[n] < s.best[n]
      BY <1>2, <1>3, <2>1, <3>1 DEF RelaxedTo, Entry
    <3> QED
      BY <1>10, <3>2
  <2> QED
    BY <2>1, <2>2 DEF Settled
<1> QED
  BY <1>7, <1>11, <1>12, <1>13, <1>14, <1>15, <1>16, <1>1 DEF Settled

\* And the search goes on as it was.
LEMMA SettlingFits ==
  ASSUME NEW edges, NEW metric, Measured(edges, metric), NEW from \in Nodes, NEW to \in Nodes,
         NEW s, SearchFits(s, edges, from, to, metric), NEW top, NEW r, SettlesNext(s, r, edges, top, metric),
         top.node # to
  PROVE  SearchFits(r, edges, from, to, metric)
<1> DEFINE u == top.node
           c == top.cost
           p == [s EXCEPT !.heap = @ \ {top}]
<1>1. /\ s \in Searches(edges) /\ u \in Nodes /\ c \in Nat /\ s.best[u] = c /\ top \in s.heap
      /\ top = Entry(c, u) /\ \A x \in s.heap : x.cost >= c /\ x.cost \in Nat /\ x.node \in Nodes
  BY DEF SearchFits, SettlesNext, Searches, Entries, Entry
<1>2. p.best = s.best /\ p.via = s.via /\ p.heap = s.heap \ {top}
  BY <1>1 DEF Searches
<1>3. RelaxedTo(p, r, edges, top, metric, EdgesAt(edges, u))
  BY DEF SettlesNext
<1> HIDE DEF p
<1>4. s.best \in [Nodes -> Nat \cup {Nothing}] /\ r.best \in [Nodes -> Nat \cup {Nothing}] /\ Nothing \notin Nat
  BY <1>1, <1>3, MapAssumption DEF RelaxedTo, Searches
<1>5. \A n \in Nodes : \A k \in EdgesAt(edges, n) :
         /\ k \in DOMAIN edges /\ Weight(edges[k], metric) \in Nat
         /\ Other(edges[k], n) # n /\ Other(edges[k], n) \in Nodes
         /\ k \in EdgesAt(edges, Other(edges[k], n)) /\ Other(edges[k], Other(edges[k], n)) = n
  BY OtherEnd DEF EdgesAt, Measured
<1>6. /\ u \in Nodes \ Settled(s) /\ Settled(r) = Settled(s) \cup {u}
      /\ \A n \in Settled(r) : r.best[n] = s.best[n] /\ r.via[n] = s.via[n]
  BY SettledGrows
<1>7. \A n \in Settled(s) : n \in Nodes /\ s.best[n] \in Nat /\ s.best[n] <= c
  BY <1>1, <1>4 DEF Settled, SearchFits
<1>8. \A n \in Nodes, d \in Nat : Within(s.best, n, d) => Within(r.best, n, d)
  <2>1. \A n \in Nodes : s.best[n] # Nothing => Within(r.best, n, s.best[n])
    BY <1>2, <1>3 DEF RelaxedTo
  <2> QED
    BY <1>4, <2>1 DEF Within
<1>9. r \in Searches(edges)
  BY <1>3 DEF RelaxedTo
<1>10. r.best[from] = 0
  <2>1. Within(s.best, from, 0)
    BY <1>4 DEF SearchFits, Within
  <2>2. Within(r.best, from, 0)
    BY <1>8, <2>1
  <2> QED
    BY <1>4, <2>2 DEF Within
<1>11. to \notin Settled(r)
  BY <1>6 DEF SearchFits
<1>12. \A x \in r.heap : Within(r.best, x.node, x.cost) /\ x.cost >= c
  <2> TAKE x \in r.heap
  <2>1. CASE x \in p.heap
    <3>1. x \in s.heap /\ Within(s.best, x.node, x.cost)
      BY <1>2, <2>1 DEF SearchFits
    <3> QED
      BY <1>1, <1>8, <3>1
  <2>2. CASE x \notin p.heap
    BY <1>3, <2>2 DEF RelaxedTo
  <2> QED
    BY <2>1, <2>2
<1>13. \A n \in Settled(r), x \in r.heap : r.best[n] <= x.cost
  <2> TAKE n \in Settled(r), x \in r.heap
  <2>1. r.best[n] \in Nat /\ r.best[n] <= c
    BY <1>1, <1>6, <1>7
  <2>2. x.cost \in Nat /\ x.cost >= c
    BY <1>9, <1>12 DEF Searches, Entries
  <2> QED
    BY <1>1, <2>1, <2>2
<1>14. \A n \in Settled(r) : \A k \in EdgesAt(edges, n) :
          Within(r.best, Other(edges[k], n), r.best[n] + Weight(edges[k], metric))
  <2> TAKE n \in Settled(r)
  <2> TAKE k \in EdgesAt(edges, n)
  <2>1. CASE n = u
    BY <1>1, <1>3, <1>6, <2>1 DEF RelaxedTo
  <2>2. CASE n \in Settled(s)
    <3>1. Within(s.best, Other(edges[k], n), s.best[n] + Weight(edges[k], metric))
      BY <2>2 DEF SearchFits
    <3>2. s.best[n] + Weight(edges[k], metric) \in Nat /\ Other(edges[k], n) \in Nodes
      BY <1>5, <1>7, <2>2
    <3> QED
      BY <1>6, <1>8, <3>1, <3>2
  <2> QED
    BY <1>6, <2>1, <2>2
<1>15. \A n \in Nodes : r.best[n] = s.best[n] => r.via[n] = s.via[n]
  BY <1>2, <1>3 DEF RelaxedTo
<1>16. \A n \in Nodes \ {from} : r.best[n] = Nothing => r.via[n] = Nothing
  <2> SUFFICES ASSUME NEW n \in Nodes \ {from}, r.best[n] = Nothing PROVE r.via[n] = Nothing
    OBVIOUS
  <2>1. s.best[n] = Nothing
    BY <1>2, <1>3 DEF RelaxedTo, Within
  <2> QED
    BY <1>15, <2>1 DEF SearchFits
<1>17. \A n \in Nodes \ {from} : r.best[n] # Nothing =>
          /\ r.via[n] \in EdgesAt(edges, n) /\ Back(edges, r, n) \in Settled(r)
          /\ r.best[n] = r.best[Back(edges, r, n)] + Weight(edges[r.via[n]], metric)
  <2> SUFFICES ASSUME NEW n \in Nodes \ {from}, r.best[n] # Nothing
               PROVE  /\ r.via[n] \in EdgesAt(edges, n) /\ Back(edges, r, n) \in Settled(r)
                      /\ r.best[n] = r.best[Back(edges, r, n)] + Weight(edges[r.via[n]], metric)
    OBVIOUS
  <2>1. CASE r.best[n] = s.best[n]
    <3>1. r.via[n] = s.via[n] /\ Back(edges, r, n) = Back(edges, s, n)
      BY <1>15, <2>1 DEF Back
    <3>2. /\ s.via[n] \in EdgesAt(edges, n) /\ Back(edges, s, n) \in Settled(s)
          /\ s.best[n] = s.best[Back(edges, s, n)] + Weight(edges[s.via[n]], metric)
      BY <2>1 DEF SearchFits
    <3> QED
      BY <1>6, <2>1, <3>1, <3>2
  <2>2. CASE r.best[n] # s.best[n]
    <3>1. /\ r.via[n] \in EdgesAt(edges, u) /\ n = Other(edges[r.via[n]], u)
          /\ r.best[n] = c + Weight(edges[r.via[n]], metric)
      BY <1>2, <1>3, <2>2 DEF RelaxedTo
    <3>2. r.via[n] \in EdgesAt(edges, n) /\ Back(edges, r, n) = u
      BY <1>1, <1>5, <3>1 DEF Back
    <3> QED
      BY <1>1, <1>6, <3>1, <3>2
  <2> QED
    BY <2>1, <2>2
<1> QED
  BY <1>9, <1>10, <1>11, <1>12, <1>13, <1>14, <1>16, <1>17 DEF SearchFits

-----------------------------------------------------------------------------
(* The route: the ways found *)

\* The edges the rooms settled were reached by.
Used(s, from) == {s.via[n] : n \in Settled(s) \ {from}}

\* Something is a walk to each room settled, read back from it.
Follows(walk, s, edges, from) ==
  \A n \in Settled(s) : walk[n] = IF n = from THEN <<>> ELSE Append(walk[Back(edges, s, n)], s.via[n])

\* The ways a search has found: a walk to each room, of the cost it is reached at; those to rooms
\* settled use no edge twice, and nothing else can be read back.
Ways(walk, s, edges, from, metric) ==
  /\ walk \in [Nodes -> Seq(DOMAIN edges)]
  /\ \A n \in Nodes : walk[n] = IF n = from \/ s.via[n] = Nothing THEN <<>>
                                ELSE Append(walk[Back(edges, s, n)], s.via[n])
  /\ \A n \in Nodes : s.best[n] # Nothing =>
       Leads(edges, walk[n], from, n) /\ Cost(edges, walk[n], metric) = s.best[n]
  /\ \A n \in Settled(s) : IsInjective(walk[n]) /\ ToSet(walk[n]) \subseteq Used(s, from)
  /\ \A other : Follows(other, s, edges, from) => \A n \in Settled(s) : other[n] = walk[n]

\* A number is an edge's, not Nothing.
LEMMA EdgesAreThere ==
  ASSUME NEW E, NEW edges \in Seq(E)
  PROVE  Nothing \notin DOMAIN edges
BY LenProperties, MapAssumption

\* The ways there are before the first pop.
LEMMA WaysBegun ==
  ASSUME NEW edges, NEW metric, Measured(edges, metric), NEW from \in Nodes
  PROVE  Ways([n \in Nodes |-> <<>>], Begun(from), edges, from, metric)
<1> DEFINE s == Begun(from)
           walk == [n \in Nodes |-> <<>>]
<1>1. /\ s.best = [m \in Nodes |-> IF m = from THEN 0 ELSE Nothing] /\ s.via = [m \in Nodes |-> Nothing]
      /\ Settled(s) = {}
  BY BegunFits DEF Begun
<1>2. walk \in [Nodes -> Seq(DOMAIN edges)] /\ \A n \in Nodes : walk[n] = <<>>
  OBVIOUS
<1> HIDE DEF s, walk
<1>3. Cost(edges, <<>>, metric) = 0 /\ Leads(edges, <<>>, from, from)
  BY EmptyWalk
<1>4. \A n \in Nodes : s.via[n] = Nothing /\ (s.best[n] # Nothing => n = from /\ s.best[n] = 0)
  BY <1>1
<1> QED
  BY <1>1, <1>2, <1>3, <1>4 DEF Ways, s, walk

\* The ways are still there when a stale entry is dropped.
LEMMA WaysStay ==
  ASSUME NEW walk, NEW s, NEW r, NEW edges, NEW from, NEW metric, Ways(walk, s, edges, from, metric),
         r.best = s.best, r.via = s.via, Settled(r) = Settled(s)
  PROVE  Ways(walk, r, edges, from, metric)
<1>1. \A n : Back(edges, r, n) = Back(edges, s, n)
  BY DEF Back
<1>2. Used(r, from) = Used(s, from)
  BY DEF Used
<1>3. \A other : Follows(other, r, edges, from) => Follows(other, s, edges, from)
  BY <1>1 DEF Follows
<1>4. \A n \in Nodes : walk[n] = IF n = from \/ r.via[n] = Nothing THEN <<>>
                                  ELSE Append(walk[Back(edges, r, n)], r.via[n])
  BY <1>1 DEF Ways
<1>5. \A n \in Nodes : r.best[n] # Nothing =>
         Leads(edges, walk[n], from, n) /\ Cost(edges, walk[n], metric) = r.best[n]
  BY DEF Ways
<1>6. \A n \in Settled(r) : IsInjective(walk[n]) /\ ToSet(walk[n]) \subseteq Used(r, from)
  BY <1>2 DEF Ways
<1>7. \A other : Follows(other, r, edges, from) => \A n \in Settled(r) : other[n] = walk[n]
  BY <1>3 DEF Ways
<1> QED
  BY <1>4, <1>5, <1>6, <1>7 DEF Ways

\* The edge by which a room not settled yet was reached is none the others were.
LEMMA NewEdge ==
  ASSUME NEW edges, NEW metric, Measured(edges, metric), NEW from, NEW to, NEW s,
         SearchFits(s, edges, from, to, metric), NEW u \in Nodes \ {from}, u \notin Settled(s), s.best[u] # Nothing
  PROVE  s.via[u] \in DOMAIN edges /\ s.via[u] \notin Used(s, from)
<1>1. s.via[u] \in EdgesAt(edges, u)
  BY DEF SearchFits
<1>2. ASSUME NEW n \in Settled(s) \ {from}, s.via[u] = s.via[n] PROVE FALSE
  <2>1. n \in Nodes /\ n # u /\ s.via[n] \in EdgesAt(edges, n) /\ Other(edges[s.via[n]], n) \in Settled(s)
    BY DEF SearchFits, Settled, Back
  <2>2. Other(edges[s.via[n]], n) = u
    BY <1>1, <1>2, <2>1, OtherEnd DEF EdgesAt
  <2> QED
    BY <2>1, <2>2
<1> QED
  BY <1>1, <1>2 DEF Used, EdgesAt

\* A walk to a room that waits uses no edge twice.
LEMMA WayIsSimple ==
  ASSUME NEW E, NEW edges \in Seq(E), NEW metric, Measured(edges, metric), NEW from \in Nodes, NEW to, NEW s,
         SearchFits(s, edges, from, to, metric), NEW walk, Ways(walk, s, edges, from, metric),
         NEW u \in Nodes, u \notin Settled(s), s.best[u] # Nothing
  PROVE  IsInjective(walk[u]) /\ ToSet(walk[u]) \subseteq Used(s, from) \cup {s.via[u]}
<1>1. CASE u = from
  <2>1. walk[u] = <<>>
    BY <1>1 DEF Ways
  <2>2. DOMAIN <<>> = {}
    OBVIOUS
  <2> QED
    BY <2>1, <2>2 DEF IsInjective, ToSet
<1>2. CASE u # from
  <2> DEFINE q == Back(edges, s, u)
             k == s.via[u]
  <2>1. k \in DOMAIN edges /\ k \notin Used(s, from)
    BY <1>2, NewEdge
  <2>2. k # Nothing
    BY <2>1, EdgesAreThere
  <2>3. q \in Settled(s) /\ q \in Nodes
    BY <1>2 DEF SearchFits, Settled
  <2>4. walk[u] = Append(walk[q], k)
    BY <1>2, <2>2 DEF Ways
  <2>5. walk[q] \in Seq(DOMAIN edges) /\ IsInjective(walk[q]) /\ ToSet(walk[q]) \subseteq Used(s, from)
    BY <2>3 DEF Ways
  <2> HIDE DEF q, k
  <2>6. k \notin ToSet(walk[q])
    BY <2>1, <2>5
  <2>7. IsInjective(Append(walk[q], k)) /\ ToSet(Append(walk[q], k)) = ToSet(walk[q]) \cup {k}
    BY <2>1, <2>5, <2>6, Appended
  <2> QED
    BY <2>4, <2>5, <2>7 DEF k
<1> QED
  BY <1>1, <1>2

\* The ways there are once a room is settled.
WaysOn(walk, s, r, u) ==
  [n \in Nodes |-> IF r.best[n] = s.best[n] THEN walk[n] ELSE Append(walk[u], r.via[n])]

\* They are ways again.
LEMMA WaysGrow ==
  ASSUME NEW E, NEW edges \in Seq(E), NEW metric, Measured(edges, metric), NEW from \in Nodes, NEW to \in Nodes,
         NEW s, SearchFits(s, edges, from, to, metric), NEW top, NEW r, SettlesNext(s, r, edges, top, metric),
         top.node # to, NEW walk, Ways(walk, s, edges, from, metric)
  PROVE  Ways(WaysOn(walk, s, r, top.node), r, edges, from, metric)
<1> DEFINE u == top.node
           c == top.cost
           on == WaysOn(walk, s, r, u)
<1>1. SearchFits(r, edges, from, to, metric)
  BY SettlingFits
<1>2. /\ u \in Nodes \ Settled(s) /\ Settled(r) = Settled(s) \cup {u}
      /\ \A n \in Settled(r) : r.best[n] = s.best[n] /\ r.via[n] = s.via[n]
  BY SettledGrows
<1>3. s.best[u] = c /\ c \in Nat /\ c # Nothing
  BY MapAssumption DEF SearchFits, SettlesNext, Searches, Entries
<1>4. Settled(s) \subseteq Nodes /\ Settled(r) \subseteq Nodes
  BY DEF Settled
<1>5. walk \in [Nodes -> Seq(DOMAIN edges)]
  BY DEF Ways
<1>6. \A n \in Nodes : /\ r.best[n] = s.best[n] => on[n] = walk[n] /\ r.via[n] = s.via[n]
                       /\ r.best[n] # s.best[n] => on[n] = Append(walk[u], r.via[n])
  <2>1. \A n \in Nodes : r.best[n] = s.best[n] => r.via[n] = s.via[n]
    <3> DEFINE p == [s EXCEPT !.heap = @ \ {top}]
    <3>1. p.best = s.best /\ p.via = s.via
      BY DEF SearchFits, Searches
    <3>2. RelaxedTo(p, r, edges, top, metric, EdgesAt(edges, u))
      BY DEF SettlesNext
    <3> HIDE DEF p
    <3> QED
      BY <3>1, <3>2 DEF RelaxedTo
  <2> QED
    BY <2>1 DEF WaysOn
<1>7. DOMAIN on = Nodes /\ on = [n \in Nodes |-> on[n]]
  BY DEF WaysOn
<1> HIDE DEF on, u, c
<1>8. \A n \in Settled(r) : on[n] = walk[n]
  BY <1>2, <1>4, <1>6
<1>9. r.best[from] = s.best[from]
  BY <1>1 DEF SearchFits
<1>10. \A n \in Nodes : r.best[n] # s.best[n] =>
          /\ n # from /\ r.best[n] # Nothing /\ r.via[n] \in DOMAIN edges /\ u \in Pair(edges[r.via[n]])
          /\ n = Other(edges[r.via[n]], u) /\ Back(edges, r, n) = u
          /\ r.best[n] = c + Weight(edges[r.via[n]], metric)
  <2> SUFFICES ASSUME NEW n \in Nodes, r.best[n] # s.best[n]
               PROVE  /\ n # from /\ r.best[n] # Nothing /\ r.via[n] \in DOMAIN edges /\ u \in Pair(edges[r.via[n]])
                      /\ n = Other(edges[r.via[n]], u) /\ Back(edges, r, n) = u
                      /\ r.best[n] = c + Weight(edges[r.via[n]], metric)
    OBVIOUS
  <2> DEFINE p == [s EXCEPT !.heap = @ \ {top}]
  <2>1. p.best = s.best
    BY DEF SearchFits, Searches
  <2>2. RelaxedTo(p, r, edges, top, metric, EdgesAt(edges, u))
    BY DEF SettlesNext, u
  <2> HIDE DEF p
  <2>3. /\ r.via[n] \in EdgesAt(edges, u) /\ n = Other(edges[r.via[n]], u)
        /\ r.best[n] = c + Weight(edges[r.via[n]], metric)
    BY <2>1, <2>2 DEF RelaxedTo, u, c
  <2>4. r.best[n] # Nothing
    <3>1. Weight(edges[r.via[n]], metric) \in Nat
      BY <2>3 DEF EdgesAt, Measured
    <3> QED
      BY <1>3, <2>3, <3>1, MapAssumption
  <2>5. Back(edges, r, n) = u
    BY <2>3, OtherEnd DEF Back, EdgesAt
  <2> QED
    BY <1>9, <2>3, <2>4, <2>5 DEF EdgesAt
<1>11. on \in [Nodes -> Seq(DOMAIN edges)]
  <2>1. \A n \in Nodes : on[n] \in Seq(DOMAIN edges)
    <3> TAKE n \in Nodes
    <3>1. walk[n] \in Seq(DOMAIN edges) /\ walk[u] \in Seq(DOMAIN edges)
      BY <1>2, <1>5
    <3>2. CASE r.best[n] = s.best[n]
      BY <1>6, <3>1, <3>2
    <3>3. CASE r.best[n] # s.best[n]
      <4>1. r.via[n] \in DOMAIN edges /\ on[n] = Append(walk[u], r.via[n])
        BY <1>6, <1>10, <3>3
      <4>2. Append(walk[u], r.via[n]) \in Seq(DOMAIN edges)
        BY <3>1, <4>1, AppendProperties
      <4> QED
        BY <4>1, <4>2
    <3> QED
      BY <3>2, <3>3
  <2> QED
    BY <1>7, <2>1
<1>12. Nothing \notin DOMAIN edges
  BY EdgesAreThere
<1>13. \A n \in Nodes : on[n] = IF n = from \/ r.via[n] = Nothing THEN <<>> ELSE Append(on[Back(edges, r, n)], r.via[n])
  <2> TAKE n \in Nodes
  <2>1. CASE r.best[n] # s.best[n]
    <3>1. on[n] = Append(walk[u], r.via[n]) /\ n # from /\ r.via[n] # Nothing /\ Back(edges, r, n) = u
      BY <1>6, <1>10, <1>12, <2>1
    <3>2. on[u] = walk[u]
      BY <1>2, <1>8
    <3> QED
      BY <3>1, <3>2
  <2>2. CASE r.best[n] = s.best[n]
    <3>1. on[n] = walk[n] /\ r.via[n] = s.via[n] /\ Back(edges, r, n) = Back(edges, s, n)
      BY <1>6, <2>2 DEF Back
    <3>2. walk[n] = IF n = from \/ s.via[n] = Nothing THEN <<>> ELSE Append(walk[Back(edges, s, n)], s.via[n])
      BY DEF Ways
    <3>3. n # from /\ s.via[n] # Nothing => Back(edges, s, n) \in Settled(r)
      BY <1>2 DEF SearchFits
    <3> QED
      BY <1>8, <3>1, <3>2, <3>3
  <2> QED
    BY <2>1, <2>2
<1>14. \A n \in Nodes : r.best[n] # Nothing => Leads(edges, on[n], from, n) /\ Cost(edges, on[n], metric) = r.best[n]
  <2> SUFFICES ASSUME NEW n \in Nodes, r.best[n] # Nothing
               PROVE  Leads(edges, on[n], from, n) /\ Cost(edges, on[n], metric) = r.best[n]
    OBVIOUS
  <2>1. CASE r.best[n] = s.best[n]
    BY <1>6, <2>1 DEF Ways
  <2>2. CASE r.best[n] # s.best[n]
    <3>1. walk[u] \in Seq(DOMAIN edges) /\ Leads(edges, walk[u], from, u) /\ Cost(edges, walk[u], metric) = c
      BY <1>2, <1>3 DEF Ways
    <3>2. /\ Cost(edges, Append(walk[u], r.via[n]), metric) = c + Weight(edges[r.via[n]], metric)
          /\ Leads(edges, Append(walk[u], r.via[n]), from, Other(edges[r.via[n]], u))
      BY <1>10, <2>2, <3>1, LongerWalk
    <3> QED
      BY <1>6, <1>10, <2>2, <3>2
  <2> QED
    BY <2>1, <2>2
<1>15. Used(s, from) \subseteq Used(r, from) /\ (u # from => s.via[u] \in Used(r, from))
  <2>1. \A n \in Settled(s) : n \in Settled(r) /\ r.via[n] = s.via[n]
    BY <1>2
  <2>2. u \in Settled(r) /\ r.via[u] = s.via[u]
    BY <1>2
  <2> QED
    BY <2>1, <2>2 DEF Used
<1>16. \A n \in Settled(r) : IsInjective(on[n]) /\ ToSet(on[n]) \subseteq Used(r, from)
  <2> TAKE n \in Settled(r)
  <2>1. CASE n \in Settled(s)
    BY <1>8, <1>15, <2>1 DEF Ways
  <2>2. CASE n = u
    <3>1. IsInjective(walk[u]) /\ ToSet(walk[u]) \subseteq Used(s, from) \cup {s.via[u]}
      BY <1>2, <1>3, WayIsSimple
    <3>2. u = from => ToSet(walk[u]) = {}
      <4>1. u = from => walk[u] = <<>>
        BY DEF Ways
      <4> QED
        BY <4>1 DEF ToSet
    <3> QED
      BY <1>8, <1>15, <2>2, <3>1, <3>2
  <2> QED
    BY <1>2, <2>1, <2>2
<1>17. ASSUME NEW other, Follows(other, r, edges, from), NEW n \in Settled(r) PROVE other[n] = on[n]
  <2>1. \A m \in Settled(s) : r.via[m] = s.via[m] /\ Back(edges, r, m) = Back(edges, s, m)
    BY <1>2 DEF Back
  <2>2. Follows(other, s, edges, from)
    BY <1>2, <1>17, <2>1 DEF Follows
  <2>3. \A m \in Settled(s) : other[m] = walk[m]
    BY <2>2 DEF Ways
  <2>4. other[u] = walk[u]
    <3>1. other[u] = IF u = from THEN <<>> ELSE Append(other[Back(edges, r, u)], r.via[u])
      BY <1>2, <1>17 DEF Follows
    <3>2. r.via[u] = s.via[u] /\ Back(edges, r, u) = Back(edges, s, u)
      BY <1>2 DEF Back
    <3>3. u # from => Back(edges, s, u) \in Settled(s) /\ s.via[u] \in DOMAIN edges
      BY <1>2, <1>3 DEF SearchFits, EdgesAt
    <3>4. walk[u] = IF u = from \/ s.via[u] = Nothing THEN <<>> ELSE Append(walk[Back(edges, s, u)], s.via[u])
      BY <1>2 DEF Ways
    <3> QED
      BY <1>12, <2>3, <3>1, <3>2, <3>3, <3>4
  <2> QED
    BY <1>2, <1>8, <2>3, <2>4
<1> QED
  BY <1>11, <1>13, <1>14, <1>16, <1>17 DEF Ways, on, u

-----------------------------------------------------------------------------
(* The route: what is left to pop *)

\* An edge, and the room it is tried from.
Try(k, n) == [edge |-> k, room |-> n]
Tries(edges) == [edge : DOMAIN edges, room : Nodes]

\* The edges that may still be tried, each in the direction it would be.
Untried(edges, s) == {p \in Tries(edges) : p.edge \in EdgesAt(edges, p.room) /\ p.room \notin Settled(s)}

\* What a search has left to pop at most.
LeftToPop(edges, s) == Cardinality(s.heap) + Cardinality(Untried(edges, s))

\* An edge can be tried in two directions.
LEMMA TwoDirections ==
  ASSUME NEW E, NEW edges \in Seq(E), NEW metric, Measured(edges, metric), NEW s
  PROVE  IsFiniteSet(Untried(edges, s)) /\ Cardinality(Untried(edges, s)) <= 2 * Len(edges)
<1> DEFINE N == Len(edges)
           A == {Try(k, edges[k].a) : k \in 1..N}
           B == {Try(k, edges[k].b) : k \in 1..N}
<1>1. N \in Nat /\ DOMAIN edges = 1..N /\ IsFiniteSet(1..N) /\ Cardinality(1..N) = N
  <2>1. N \in Nat /\ DOMAIN edges = 1..N
    BY LenProperties
  <2> QED
    BY <2>1, FS_Interval
<1>2. IsFiniteSet(A) /\ Cardinality(A) <= N
  <2>1. [k \in 1..N |-> Try(k, edges[k].a)] \in Surjection(1..N, A)
    BY DEF Surjection
  <2> HIDE DEF A, N
  <2> QED
    BY <1>1, <2>1, FS_Surjection
<1>3. IsFiniteSet(B) /\ Cardinality(B) <= N
  <2>1. [k \in 1..N |-> Try(k, edges[k].b)] \in Surjection(1..N, B)
    BY DEF Surjection
  <2> HIDE DEF B, N
  <2> QED
    BY <1>1, <2>1, FS_Surjection
<1>4. Untried(edges, s) \subseteq A \cup B
  <2> SUFFICES ASSUME NEW p \in Untried(edges, s) PROVE p \in A \cup B
    OBVIOUS
  <2>1. p \in Tries(edges) /\ p.edge \in EdgesAt(edges, p.room)
    BY DEF Untried
  <2>2. p = Try(p.edge, p.room) /\ p.edge \in 1..N
    BY <1>1, <2>1 DEF Try, Tries
  <2>3. p.room = edges[p.edge].a \/ p.room = edges[p.edge].b
    BY <2>1 DEF EdgesAt, Pair
  <2> DEFINE k == p.edge
  <2>4. p = Try(k, p.room) /\ k \in 1..N
    BY <2>2
  <2> HIDE DEF k, N
  <2>5. CASE p.room = edges[k].a
    <3>1. p = Try(k, edges[k].a)
      BY <2>4, <2>5
    <3> QED
      BY <2>4, <3>1
  <2>6. CASE p.room = edges[k].b
    <3>1. p = Try(k, edges[k].b)
      BY <2>4, <2>6
    <3> QED
      BY <2>4, <3>1
  <2> QED
    BY <2>3, <2>5, <2>6 DEF k
<1> HIDE DEF A, B, N
<1>5. IsFiniteSet(A \cup B) /\ Cardinality(A \cup B) <= 2 * N
  <2>1. /\ IsFiniteSet(A \cup B) /\ IsFiniteSet(A \cap B)
        /\ Cardinality(A \cup B) = Cardinality(A) + Cardinality(B) - Cardinality(A \cap B)
    BY <1>2, <1>3, FS_Union, FS_Intersection
  <2>2. Cardinality(A) \in Nat /\ Cardinality(B) \in Nat /\ Cardinality(A \cap B) \in Nat
    BY <1>2, <1>3, <2>1, FS_CardinalityType
  <2> QED
    BY <1>1, <1>2, <1>3, <2>1, <2>2
<1>6. /\ IsFiniteSet(Untried(edges, s)) /\ Cardinality(Untried(edges, s)) <= Cardinality(A \cup B)
      /\ Cardinality(Untried(edges, s)) \in Nat /\ Cardinality(A \cup B) \in Nat
  BY <1>4, <1>5, FS_Subset, FS_CardinalityType
<1> QED
  BY <1>1, <1>5, <1>6 DEF N

\* A stale entry is one less to pop.
LEMMA DroppingIsALoss ==
  ASSUME NEW E, NEW edges \in Seq(E), NEW metric, Measured(edges, metric),
         NEW s, IsFiniteSet(s.heap), NEW top \in s.heap,
         NEW r, r.heap = s.heap \ {top}, Settled(r) = Settled(s)
  PROVE  IsFiniteSet(r.heap) /\ LeftToPop(edges, r) = LeftToPop(edges, s) - 1
<1>1. Untried(edges, r) = Untried(edges, s)
  BY DEF Untried
<1>2. IsFiniteSet(s.heap \ {top}) /\ Cardinality(s.heap \ {top}) = Cardinality(s.heap) - 1
  BY FS_RemoveElement
<1>3. Cardinality(s.heap) \in Nat /\ Cardinality(Untried(edges, s)) \in Nat
  BY TwoDirections, FS_CardinalityType
<1>4. Cardinality(r.heap) = Cardinality(s.heap) - 1 /\ IsFiniteSet(r.heap)
  BY <1>2
<1> QED
  BY <1>1, <1>3, <1>4 DEF LeftToPop

\* A room settled adds no more entries than edges are tried that were not.
LEMMA SettlingIsALoss ==
  ASSUME NEW E, NEW edges \in Seq(E), NEW metric, Measured(edges, metric), NEW s, IsFiniteSet(s.heap),
         NEW top \in s.heap, top.node \in Nodes \ Settled(s), NEW r, Settled(r) = Settled(s) \cup {top.node},
         IsFiniteSet(r.heap), Cardinality(r.heap) <= Cardinality(s.heap \ {top}) + Cardinality(EdgesAt(edges, top.node))
  PROVE  LeftToPop(edges, r) <= LeftToPop(edges, s) - 1
<1> DEFINE u == top.node
           ks == EdgesAt(edges, u)
           tried == {Try(k, u) : k \in ks}
           before == Untried(edges, s)
           after == Untried(edges, r)
<1>1. IsFiniteSet(ks) /\ Cardinality(ks) \in Nat
  <2>1. ks \in SUBSET (1..Len(edges)) /\ Len(edges) \in Nat
    BY LenProperties DEF EdgesAt
  <2>2. IsFiniteSet(1..Len(edges))
    BY <2>1, FS_Interval
  <2> HIDE DEF ks
  <2> QED
    BY <2>1, <2>2, FS_Subset, FS_CardinalityType
<1>2. IsFiniteSet(before) /\ IsFiniteSet(after) /\ Cardinality(before) \in Nat /\ Cardinality(after) \in Nat
  BY TwoDirections, FS_CardinalityType
<1>3. \A p \in Tries(edges) :
         /\ p \in before <=> p.edge \in EdgesAt(edges, p.room) /\ p.room \notin Settled(s)
         /\ p \in after <=> p.edge \in EdgesAt(edges, p.room) /\ p.room \notin Settled(s) /\ p.room # u
         /\ p \in tried <=> p.edge \in ks /\ p.room = u
  <2> TAKE p \in Tries(edges)
  <2>1. p = Try(p.edge, p.room)
    BY DEF Try, Tries
  <2>2. p \in before <=> p.edge \in EdgesAt(edges, p.room) /\ p.room \notin Settled(s)
    BY DEF Untried
  <2>3. p \in after <=> p.edge \in EdgesAt(edges, p.room) /\ p.room \notin Settled(s) /\ p.room # u
    BY DEF Untried
  <2>4. p \in tried <=> p.edge \in ks /\ p.room = u
    <3>1. ASSUME p \in tried PROVE p.edge \in ks /\ p.room = u
      <4>1. PICK k \in ks : p = Try(k, u)
        BY <3>1
      <4> HIDE DEF ks, u
      <4> QED
        BY <4>1 DEF Try
    <3>2. ASSUME p.edge \in ks, p.room = u PROVE p \in tried
      <4>1. p = Try(p.edge, u)
        BY <2>1, <3>2
      <4> HIDE DEF ks, u
      <4> QED
        BY <3>2, <4>1
    <3> QED
      BY <3>1, <3>2
  <2> QED
    BY <2>2, <2>3, <2>4
<1>4. before \subseteq Tries(edges) /\ after \subseteq Tries(edges)
      /\ tried \subseteq Tries(edges)
  <2>1. before \subseteq Tries(edges) /\ after \subseteq Tries(edges)
    BY DEF Untried
  <2>2. u \in Nodes /\ ks \subseteq DOMAIN edges
    BY DEF EdgesAt
  <2> HIDE DEF ks, u
  <2>3. tried \subseteq Tries(edges)
    BY <2>2 DEF Try, Tries
  <2> QED
    BY <2>1, <2>3
<1>5. Cardinality(tried) = Cardinality(ks)
  <2>1. [k \in ks |-> Try(k, u)] \in Bijection(ks, tried)
    BY DEF Bijection, Injection, Surjection, IsInjective, Try
  <2> HIDE DEF ks, tried
  <2> QED
    BY <1>1, <2>1, FS_Bijection DEF ExistsBijection
<1> HIDE DEF tried, before, after
<1>10. tried \subseteq before /\ after = before \ tried
  <2>1. \A p \in Tries(edges) : p \in tried => p \in before
    BY <1>3
  <2>2. \A p \in Tries(edges) : p \in after <=> p \in before /\ p \notin tried
    BY <1>3
  <2> QED
    BY <1>4, <2>1, <2>2
<1> HIDE DEF u, ks
<1>6. Cardinality(before \ tried) = Cardinality(before) - Cardinality(tried)
  <2>1. before \cap tried = tried
    BY <1>10
  <2> QED
    BY <1>2, <2>1, FS_Difference
<1>7. Cardinality(after) = Cardinality(before) - Cardinality(ks)
  BY <1>5, <1>6, <1>10
<1>8. Cardinality(s.heap \ {top}) = Cardinality(s.heap) - 1 /\ Cardinality(s.heap) \in Nat /\ Cardinality(r.heap) \in Nat
  BY FS_RemoveElement, FS_CardinalityType
<1>9. Cardinality(r.heap) <= Cardinality(s.heap) - 1 + Cardinality(ks)
  BY <1>8 DEF ks, u
<1> QED
  BY <1>1, <1>2, <1>7, <1>8, <1>9 DEF LeftToPop, before, after

\* A search that goes on.
SearchGoesOn(s, edges, from, to, metric) ==
  /\ SearchFits(s, edges, from, to, metric) /\ IsFiniteSet(s.heap)
  /\ \E walk : Ways(walk, s, edges, from, metric)

\* One that has popped the room it looks for.
Found(s, edges, from, to, metric) ==
  \E t : /\ SearchGoesOn(t, edges, from, to, metric) /\ t.heap # {} /\ Top(t.heap).node = to
         /\ s = [t EXCEPT !.heap = {}]

\* The search begins with no more to pop than it may pop.
LEMMA BegunGoes ==
  ASSUME NEW E, NEW edges \in Seq(E), NEW metric, Measured(edges, metric), NEW from \in Nodes, NEW to \in Nodes
  PROVE  /\ SearchGoesOn(Begun(from), edges, from, to, metric)
         /\ LeftToPop(edges, Begun(from)) <= 1 + 2 * Len(edges)
<1> DEFINE s == Begun(from)
<1>1. s.heap = {Entry(0, from)}
  BY DEF Begun, Entry
<1>2. SearchFits(s, edges, from, to, metric) /\ \E walk : Ways(walk, s, edges, from, metric)
  BY BegunFits, WaysBegun
<1> HIDE DEF s
<1>3. IsFiniteSet(s.heap) /\ Cardinality(s.heap) = 1
  BY <1>1, FS_Singleton
<1>4. /\ Cardinality(Untried(edges, s)) \in Nat /\ Cardinality(Untried(edges, s)) <= 2 * Len(edges)
      /\ Len(edges) \in Nat
  BY TwoDirections, FS_CardinalityType, LenProperties
<1>5. LeftToPop(edges, s) <= 1 + 2 * Len(edges)
  BY <1>3, <1>4 DEF LeftToPop
<1> QED
  BY <1>2, <1>3, <1>5 DEF SearchGoesOn, s

\* A pop leaves less to pop, unless it ends the search.
LEMMA PopIsALoss ==
  ASSUME NEW E, NEW edges \in Seq(E), NEW metric, Measured(edges, metric), NEW from \in Nodes, NEW to \in Nodes,
         NEW s, SearchGoesOn(s, edges, from, to, metric), s.heap # {}
  PROVE  LET r == Settle(s, edges, to, metric)
         IN  \/ Found(r, edges, from, to, metric)
             \/ SearchGoesOn(r, edges, from, to, metric) /\ LeftToPop(edges, r) <= LeftToPop(edges, s) - 1
<1> DEFINE top == Top(s.heap)
           u == top.node
           popped == [s EXCEPT !.heap = @ \ {top}]
           r == Settle(s, edges, to, metric)
<1>1. SearchFits(s, edges, from, to, metric) /\ s \in Searches(edges) /\ IsFiniteSet(s.heap)
  BY DEF SearchGoesOn, SearchFits
<1>2. PICK walk : Ways(walk, s, edges, from, metric)
  BY DEF SearchGoesOn
<1>3. s.heap \in SUBSET Entries
  BY <1>1 DEF Searches
<1>4. top \in s.heap /\ \A x \in s.heap : top.cost <= x.cost
  BY <1>3, TopOf
<1>5. r = IF u = to THEN [s EXCEPT !.heap = {}]
          ELSE IF top.cost > s.best[u] THEN popped
          ELSE RelaxedAt(popped, edges, top, metric)
  BY DEF Settle
<1> HIDE DEF r
<1>6. CASE u = to
  BY <1>5, <1>6 DEF Found, r
<1>7. popped.heap = s.heap \ {top} /\ popped.best = s.best /\ popped.via = s.via /\ popped \in Searches(edges)
  BY <1>1 DEF Searches
<1>8. top.cost \in Nat /\ u \in Nodes /\ Within(s.best, u, top.cost) /\ s.best[u] \in Nat /\ s.best[u] <= top.cost
  BY <1>1, <1>3, <1>4 DEF SearchFits, Within, Searches, Entries
<1>9. LeftToPop(edges, s) \in Nat
  BY <1>1, TwoDirections, FS_CardinalityType DEF LeftToPop
<1>10. CASE u # to /\ top.cost > s.best[u]
  <2>1. r = popped /\ s.best[top.node] < top.cost
    BY <1>5, <1>8, <1>10
  <2>2. SearchFits(r, edges, from, to, metric) /\ Settled(r) = Settled(s)
    BY <1>1, <1>4, <2>1, StaleIsDropped
  <2> HIDE DEF popped, top
  <2>3. Ways(walk, r, edges, from, metric)
    BY <1>2, <1>7, <2>1, <2>2, WaysStay
  <2>4. IsFiniteSet(r.heap) /\ LeftToPop(edges, r) = LeftToPop(edges, s) - 1
    BY <1>1, <1>4, <1>7, <2>1, <2>2, DroppingIsALoss
  <2> QED
    BY <1>9, <2>2, <2>3, <2>4 DEF SearchGoesOn, r
<1>11. CASE u # to /\ ~(top.cost > s.best[u])
  <2> DEFINE ks == EdgesAt(edges, u)
  <2>1. r = RelaxedAt(popped, edges, top, metric) /\ s.best[u] = top.cost
    BY <1>5, <1>8, <1>11
  <2>2. IsFiniteSet(popped.heap) /\ top \in Entries
    BY <1>1, <1>3, <1>4, <1>7, FS_RemoveElement
  <2>3. /\ RelaxedTo(popped, r, edges, top, metric, ks)
        /\ IsFiniteSet(r.heap) /\ Cardinality(r.heap) <= Cardinality(popped.heap) + Cardinality(ks)
    <3> HIDE DEF popped, top
    <3> QED
      BY <1>7, <2>1, <2>2, AllTried DEF u
  <2>4. SettlesNext(s, r, edges, top, metric)
    BY <1>4, <2>1, <2>3 DEF SettlesNext
  <2>5. u \in Nodes \ Settled(s) /\ Settled(r) = Settled(s) \cup {u}
    BY <1>1, <2>4, SettledGrows
  <2>6. SearchFits(r, edges, from, to, metric)
    BY <1>1, <1>11, <2>4, SettlingFits
  <2>7. \E on : Ways(on, r, edges, from, metric)
    BY <1>1, <1>2, <1>11, <2>4, WaysGrow
  <2>8. LeftToPop(edges, r) <= LeftToPop(edges, s) - 1
    <3> HIDE DEF popped, top
    <3> QED
      BY <1>1, <1>4, <1>7, <2>3, <2>5, SettlingIsALoss DEF u
  <2> QED
    BY <2>3, <2>6, <2>7, <2>8 DEF SearchGoesOn, r
<1> QED
  BY <1>6, <1>10, <1>11 DEF r

\* So the search ends: with the room found, or with nothing left to pop.
LEMMA SearchEnds ==
  ASSUME NEW E, NEW edges \in Seq(E), NEW metric, Measured(edges, metric), NEW from \in Nodes, NEW to \in Nodes
  PROVE  LET s == Searched(edges, from, to, metric)
         IN  Found(s, edges, from, to, metric) \/ (SearchGoesOn(s, edges, from, to, metric) /\ s.heap = {})
<1> DEFINE pops == 1 + 2 * Len(edges)
           Fine(s) == SearchGoesOn(s, edges, from, to, metric) \/ Found(s, edges, from, to, metric)
           S == {s \in Searches(edges) : Fine(s)}
           Step(s) == Settle(s, edges, to, metric)
           base == Begun(from)
           Eq(h) == h = [n \in 0..pops |-> IF n = 0 THEN base ELSE Step(h[n - 1])]
           h == CHOOSE h : Eq(h)
           g == [p \in (1..pops) \X S |-> Step(p[2])]
<1>1. Searched(edges, from, to, metric) = h[pops]
  BY DEF Searched
<1>2. pops \in Nat
  BY LenProperties
<1>3. \A s : Fine(s) => s \in Searches(edges)
  BY DEF SearchGoesOn, Found, SearchFits, Searches
<1>4. \A s : Found(s, edges, from, to, metric) => s.heap = {}
  BY DEF Found, SearchGoesOn, SearchFits, Searches
<1>5. \A s : s.heap = {} => Step(s) = s
  BY DEF Settle
<1>6. base \in S
  BY <1>3, BegunGoes
<1>7. \A s \in S : Step(s) \in S
  <2> TAKE s \in S
  <2>1. CASE s.heap = {}
    BY <1>5, <2>1
  <2>2. CASE s.heap # {}
    <3>1. Fine(Step(s))
      BY <1>4, <2>2, PopIsALoss
    <3> QED
      BY <1>3, <3>1
  <2> QED
    BY <2>1, <2>2
<1> HIDE DEF S, Step, base, pops, Fine
<1>8. g \in StepsOn(pops, S)
  BY <1>7 DEF StepsOn
<1>9. \A n \in 1..pops, s \in S : g[<<n, s>>] = Step(s)
  OBVIOUS
<1> HIDE DEF g
<1>10. PICK f : CountsUp(f, pops, S, base, g)
  BY <1>2, <1>6, <1>8, Recursion
<1>11. Eq(f)
  <2>1. \A n \in 1..pops : n - 1 \in 0..pops /\ f[n - 1] \in S
    BY <1>2, <1>10 DEF CountsUp
  <2>2. \A n \in 1..pops : f[n] = Step(f[n - 1])
    BY <1>9, <1>10, <2>1 DEF CountsUp
  <2>3. f \in [0..pops -> S] /\ f[0] = base
    BY <1>10 DEF CountsUp
  <2>4. \A n \in 0..pops : f[n] = IF n = 0 THEN base ELSE Step(f[n - 1])
    BY <1>2, <2>2, <2>3
  <2> QED
    BY <2>3, <2>4
<1>12. Eq(h)
  BY <1>11
<1> HIDE DEF h
<1>13. h[0] = base /\ \A n \in 1..pops : h[n] = Step(h[n - 1])
  BY <1>2, <1>12
<1> DEFINE Left(n) == h[n].heap = {} \/ LeftToPop(edges, h[n]) + n <= pops
           Good == {n \in 0..pops : h[n] \in S /\ Left(n)}
<1>14. 0 \in Good
  <2>1. LeftToPop(edges, base) <= pops /\ LeftToPop(edges, base) \in Nat
    <3>1. SearchGoesOn(base, edges, from, to, metric) /\ LeftToPop(edges, base) <= pops
      BY BegunGoes DEF base, pops
    <3> QED
      BY <3>1, TwoDirections, FS_CardinalityType DEF LeftToPop, SearchGoesOn
  <2> QED
    BY <1>2, <1>6, <1>13, <2>1
<1>15. ASSUME NEW n \in 0..pops, n \in Good, n < pops PROVE n + 1 \in Good
  <2>1. n \in Nat /\ n + 1 \in 1..pops /\ n + 1 \in 0..pops /\ (n + 1) - 1 = n
    BY <1>2, <1>15
  <2>2. h[n] \in S /\ Left(n) /\ h[n + 1] = Step(h[n])
    BY <1>13, <1>15, <2>1
  <2>3. h[n + 1] \in S
    BY <1>7, <2>2
  <2>4. CASE h[n].heap = {}
    BY <1>5, <2>1, <2>2, <2>3, <2>4
  <2>5. CASE h[n].heap # {}
    <3>1. SearchGoesOn(h[n], edges, from, to, metric)
      BY <1>4, <2>2, <2>5 DEF S, Fine
    <3>2. CASE Found(h[n + 1], edges, from, to, metric)
      BY <1>4, <2>1, <2>3, <3>2
    <3>3. CASE SearchGoesOn(h[n + 1], edges, from, to, metric) /\ LeftToPop(edges, h[n + 1]) <= LeftToPop(edges, h[n]) - 1
      <4>1. LeftToPop(edges, h[n]) \in Nat /\ LeftToPop(edges, h[n + 1]) \in Nat
        BY <3>1, <3>3, TwoDirections, FS_CardinalityType DEF LeftToPop, SearchGoesOn
      <4>2. LeftToPop(edges, h[n]) + n <= pops
        BY <2>2, <2>5
      <4>3. LeftToPop(edges, h[n + 1]) + (n + 1) <= pops
        BY <1>2, <2>1, <3>3, <4>1, <4>2
      <4> QED
        BY <2>1, <2>3, <4>3
    <3> QED
      BY <2>2, <2>5, <3>1, <3>2, <3>3, PopIsALoss DEF Step
  <2> QED
    BY <2>4, <2>5
<1> HIDE DEF Good
<1>16. 0..pops \subseteq Good
  BY <1>2, <1>14, <1>15, CountUp
<1>17. h[pops] \in S /\ Left(pops)
  BY <1>2, <1>16 DEF Good
<1>18. SearchGoesOn(h[pops], edges, from, to, metric) => h[pops].heap = {}
  <2> SUFFICES ASSUME SearchGoesOn(h[pops], edges, from, to, metric), LeftToPop(edges, h[pops]) + pops <= pops
               PROVE  h[pops].heap = {}
    BY <1>17
  <2>1. /\ IsFiniteSet(h[pops].heap) /\ Cardinality(h[pops].heap) \in Nat
        /\ Cardinality(Untried(edges, h[pops])) \in Nat
    BY TwoDirections, FS_CardinalityType DEF SearchGoesOn
  <2>2. Cardinality(h[pops].heap) = 0
    BY <1>2, <2>1 DEF LeftToPop
  <2> QED
    BY <2>1, <2>2, FS_EmptySet
<1> QED
  BY <1>1, <1>17, <1>18 DEF S, Fine

-----------------------------------------------------------------------------
(* The route: none costs less *)

\* No walk costs less than what waits.
LEMMA NoneCostsLess ==
  ASSUME NEW E, NEW edges \in Seq(E), NEW metric, Measured(edges, metric), NEW from \in Nodes, NEW to \in Nodes,
         NEW s, SearchFits(s, edges, from, to, metric), NEW w \in Seq(DOMAIN edges), Leads(edges, w, from, to)
  PROVE  Cost(edges, w, metric) \in Nat /\ \E x \in s.heap : x.cost <= Cost(edges, w, metric)
<1> DEFINE N == Len(w)
<1>1. PICK c : CostBy(c, edges, w, metric) /\ Cost(edges, w, metric) = c[N]
  BY CostSteps
<1>2. PICK p : EndBy(p, edges, w, from) /\ End(edges, w, from) = p[N]
  BY EndSteps
<1>3. N \in Nat /\ \A n \in 1..N : w[n] \in DOMAIN edges
  BY LenProperties, ElementOfSeq
<1>4. c \in [0..N -> Nat] /\ p \in [0..N -> Nodes \cup {Nothing}] /\ c[0] = 0 /\ p[0] = from
  BY <1>1, <1>2 DEF CostBy, EndBy
<1>5. s.best \in [Nodes -> Nat \cup {Nothing}] /\ s.heap \in SUBSET Entries /\ Nothing \notin Nat
  BY MapAssumption DEF SearchFits, Searches
<1>6. Nothing \notin Nodes
  BY <1>5 DEF Nodes
<1> HIDE DEF N
<1> DEFINE Least(n) == \/ p[n] = Nothing
                       \/ p[n] \in Settled(s) /\ s.best[p[n]] <= c[n]
                       \/ \E x \in s.heap : x.cost <= c[n]
           Good == {n \in 0..N : Least(n)}
<1>7. ASSUME NEW n \in Nodes, NEW d \in Nat, Within(s.best, n, d)
      PROVE  n \in Settled(s) \/ \E x \in s.heap : x.cost <= d
  <2>1. Entry(s.best[n], n).cost = s.best[n]
    BY DEF Entry
  <2> QED
    BY <1>7, <2>1 DEF Within, Settled
<1>8. 0 \in Good
  <2>1. Within(s.best, from, 0) /\ s.best[from] = 0
    BY <1>5 DEF SearchFits, Within
  <2> QED
    BY <1>3, <1>4, <1>7, <2>1
<1>9. ASSUME NEW n \in 0..N, n \in Good, n < N PROVE n + 1 \in Good
  <2> DEFINE k == w[n + 1]
             v == Weight(edges[k], metric)
             u == p[n]
  <2>1. n + 1 \in 1..N /\ n + 1 \in 0..N /\ (n + 1) - 1 = n
    BY <1>3, <1>9
  <2>2. /\ c[n + 1] = c[n] + v
        /\ p[n + 1] = IF u \in Pair(edges[k]) THEN Other(edges[k], u) ELSE Nothing
    BY <1>1, <1>2, <2>1 DEF CostBy, EndBy, N
  <2>3. k \in DOMAIN edges /\ v \in Nat /\ c[n] \in Nat /\ c[n + 1] \in Nat
    BY <1>3, <1>4, <2>1 DEF Measured
  <2>4. Least(n)
    BY <1>9
  <2> HIDE DEF k, v
  <2>5. CASE u = Nothing
    <3>1. u \notin Pair(edges[k])
      BY <1>6, <2>3, <2>5, OtherEnd
    <3> QED
      BY <2>1, <2>2, <3>1
  <2>6. CASE \E x \in s.heap : x.cost <= c[n]
    <3>1. PICK x \in s.heap : x.cost <= c[n]
      BY <2>6
    <3>2. x.cost \in Nat
      BY <1>5 DEF Entries
    <3>3. x.cost <= c[n + 1]
      BY <2>2, <2>3, <3>1, <3>2
    <3> QED
      BY <2>1, <3>3
  <2>7. CASE u \in Settled(s) /\ s.best[u] <= c[n]
    <3>1. u \in Nodes /\ s.best[u] \in Nat
      BY <1>5, <2>7 DEF Settled
    <3>2. CASE u \notin Pair(edges[k])
      BY <2>1, <2>2, <3>2
    <3>3. CASE u \in Pair(edges[k])
      <4> DEFINE next == Other(edges[k], u)
      <4>1. k \in EdgesAt(edges, u) /\ next \in Nodes
        BY <2>3, <3>3, OtherEnd DEF EdgesAt
      <4>2. Within(s.best, next, s.best[u] + v)
        BY <2>7, <4>1 DEF SearchFits, v
      <4>3. p[n + 1] = next
        BY <2>2, <3>3
      <4> HIDE DEF next
      <4>4. s.best[next] \in Nat /\ s.best[next] <= c[n + 1]
        BY <1>5, <2>2, <2>3, <2>7, <3>1, <4>1, <4>2 DEF Within
      <4>5. Within(s.best, next, c[n + 1])
        BY <1>5, <4>4 DEF Within
      <4> QED
        BY <1>7, <2>1, <2>3, <4>1, <4>3, <4>4, <4>5
    <3> QED
      BY <3>2, <3>3
  <2> QED
    BY <2>4, <2>5, <2>6, <2>7
<1> HIDE DEF Good
<1>10. 0..N \subseteq Good
  BY <1>3, <1>8, <1>9, CountUp
<1>11. Least(N) /\ c[N] \in Nat
  BY <1>3, <1>4, <1>10 DEF Good
<1>12. p[N] = to /\ to \notin Settled(s)
  BY <1>2 DEF Leads, SearchFits
<1> QED
  BY <1>1, <1>6, <1>11, <1>12

\* A walk that uses no edge twice is no longer than there are edges.
LEMMA SimpleIsShort ==
  ASSUME NEW E, NEW edges \in Seq(E), NEW w \in Seq(DOMAIN edges), IsInjective(w)
  PROVE  w \in BoundedSeq(DOMAIN edges, Len(edges))
<1>1. DOMAIN edges = 1..Len(edges) /\ Len(edges) \in Nat /\ Len(w) \in Nat /\ DOMAIN w = 1..Len(w)
  BY LenProperties
<1>2. ToSet(w) \subseteq 1..Len(edges)
  BY <1>1, ElementOfSeq DEF ToSet
<1>3. IsFiniteSet(1..Len(edges)) /\ Cardinality(1..Len(edges)) = Len(edges)
  <2> DEFINE n == Len(edges)
  <2>1. n \in Nat
    BY <1>1
  <2> HIDE DEF n
  <2>2. IsFiniteSet(1..n) /\ Cardinality(1..n) = n
    BY <2>1, FS_Interval
  <2> QED
    BY <2>2 DEF n
<1>4. Cardinality(ToSet(w)) <= Len(edges)
  BY <1>2, <1>3, FS_Subset
<1>5. Len(w) = Cardinality(ToSet(w))
  BY AsLongAs
<1>6. w \in [1..Len(w) -> DOMAIN edges] /\ Len(w) \in 0..Len(edges)
  BY <1>1, <1>4, <1>5, LenProperties
<1> QED
  BY <1>6 DEF BoundedSeq, SeqOf

\* With nothing left to pop, there is no walk and none is read back.
LEMMA NoneFound ==
  ASSUME NEW E, NEW edges \in Seq(E), NEW metric, Measured(edges, metric), NEW from \in Nodes, NEW to \in Nodes,
         NEW s, SearchFits(s, edges, from, to, metric), s.heap = {}
  PROVE  /\ WalkedBack(edges, s.via, from, to) = Nothing
         /\ \A w \in Seq(DOMAIN edges) : ~Leads(edges, w, from, to)
<1>1. s.best[to] = Nothing
  BY DEF SearchFits, Settled
<1>2. from # to
  BY <1>1, MapAssumption DEF SearchFits
<1>3. s.via[to] = Nothing
  BY <1>1, <1>2 DEF SearchFits
<1>4. WalkedBack(edges, s.via, from, to) = Nothing
  BY <1>2, <1>3 DEF WalkedBack
<1> QED
  BY <1>4, NoneCostsLess

\* With the room found, the walk read back is one of those that cost least.
LEMMA LeastFound ==
  ASSUME NEW E, NEW edges \in Seq(E), NEW metric, Measured(edges, metric), NEW from \in Nodes, NEW to \in Nodes,
         NEW s, SearchGoesOn(s, edges, from, to, metric), s.heap # {}, Top(s.heap).node = to
  PROVE  LET walk == WalkedBack(edges, s.via, from, to)
         IN  /\ walk # Nothing /\ walk \in Walks(edges, from, to) /\ walk \in Seq(DOMAIN edges)
             /\ \A w \in Seq(DOMAIN edges) : Leads(edges, w, from, to) =>
                   Cost(edges, walk, metric) <= Cost(edges, w, metric)
<1> DEFINE top == Top(s.heap)
           via == s.via
           Eq(W) == W = [n \in Nodes |-> IF n = from \/ via[n] = Nothing THEN <<>>
                                         ELSE Append(W[Other(edges[via[n]], n)], via[n])]
           W == CHOOSE W : Eq(W)
<1>1. SearchFits(s, edges, from, to, metric) /\ s \in Searches(edges) /\ to \notin Settled(s)
  BY DEF SearchGoesOn, SearchFits
<1>2. PICK ways : Ways(ways, s, edges, from, metric)
  BY DEF SearchGoesOn
<1>3. s.heap \in SUBSET Entries /\ s.best \in [Nodes -> Nat \cup {Nothing}] /\ Nothing \notin Nat
  BY <1>1, MapAssumption DEF Searches
<1>4. top \in s.heap /\ \A x \in s.heap : top.cost <= x.cost /\ x.cost \in Nat
  BY <1>3, TopOf DEF Entries
<1>5. s.best[to] # Nothing /\ s.best[to] = top.cost
  <2>1. s.best[to] # Nothing /\ s.best[to] <= top.cost
    BY <1>1, <1>4 DEF SearchFits, Within
  <2>2. Entry(s.best[to], to) \in s.heap
    BY <1>1, <2>1 DEF Settled
  <2>3. top.cost <= s.best[to]
    BY <1>4, <2>2 DEF Entry
  <2> QED
    BY <1>3, <1>4, <2>1, <2>3
<1>6. Nothing \notin DOMAIN edges
  BY EdgesAreThere
<1>7. \A n \in Nodes \ {from} : s.best[n] # Nothing => via[n] # Nothing /\ Back(edges, s, n) \in Settled(s)
  BY <1>1, <1>6 DEF SearchFits, EdgesAt
<1>8. WalkedBack(edges, via, from, to) = W[to]
  BY <1>5, <1>7 DEF WalkedBack
<1>9. Eq(ways)
  BY <1>2 DEF Ways, Back
<1>10. Eq(W)
  BY <1>9
<1> HIDE DEF W
<1>11. \A n \in Nodes : W[n] = IF n = from \/ via[n] = Nothing THEN <<>> ELSE Append(W[Back(edges, s, n)], via[n])
  BY <1>10 DEF Back
<1>12. Follows(W, s, edges, from)
  BY <1>7, <1>11 DEF Follows, Settled
<1>13. W[to] = ways[to]
  <2>1. \A n \in Settled(s) : W[n] = ways[n]
    BY <1>2, <1>12 DEF Ways
  <2>2. ways[to] = IF to = from \/ via[to] = Nothing THEN <<>> ELSE Append(ways[Back(edges, s, to)], via[to])
    BY <1>2 DEF Ways
  <2> QED
    BY <1>5, <1>7, <1>11, <2>1, <2>2
<1> DEFINE walk == ways[to]
<1>14. /\ walk \in Seq(DOMAIN edges) /\ Leads(edges, walk, from, to) /\ Cost(edges, walk, metric) = top.cost
  BY <1>2, <1>5 DEF Ways
<1>15. IsInjective(walk)
  BY <1>1, <1>2, <1>5, WayIsSimple
<1> HIDE DEF walk
<1>16. walk \in Walks(edges, from, to)
  BY <1>14, <1>15, SimpleIsShort DEF Walks
<1>17. walk # Nothing
  <2>1. DOMAIN edges \subseteq Nat
    BY LenProperties
  <2>2. walk \in Seq(Nat)
    BY <1>14, <2>1
  <2> QED
    BY <2>2, MapAssumption
<1>18. ASSUME NEW w \in Seq(DOMAIN edges), Leads(edges, w, from, to)
       PROVE  Cost(edges, walk, metric) <= Cost(edges, w, metric)
  <2>1. PICK x \in s.heap : x.cost <= Cost(edges, w, metric)
    BY <1>1, <1>18, NoneCostsLess
  <2>2. Cost(edges, w, metric) \in Nat
    BY <1>1, <1>18, NoneCostsLess
  <2> HIDE DEF top
  <2>3. top.cost \in Nat /\ top.cost <= x.cost /\ x.cost \in Nat
    BY <1>4
  <2> QED
    BY <1>14, <2>1, <2>2, <2>3
<1> QED
  BY <1>8, <1>13, <1>14, <1>16, <1>17, <1>18 DEF walk

\* So Shortest finds a walk exactly if there is one, and one that costs least.
LEMMA ShortestIsLeast ==
  ASSUME NEW E, NEW edges \in Seq(E), NEW metric, Measured(edges, metric), NEW from \in Nodes, NEW to \in Nodes
  PROVE  LET walk == Shortest(edges, from, to, metric)
         IN  /\ walk = Nothing => \A w \in Seq(DOMAIN edges) : ~Leads(edges, w, from, to)
             /\ walk # Nothing => /\ walk \in Walks(edges, from, to) /\ walk \in Seq(DOMAIN edges)
                                  /\ \A w \in Seq(DOMAIN edges) : Leads(edges, w, from, to) =>
                                        Cost(edges, walk, metric) <= Cost(edges, w, metric)
<1> DEFINE s == Searched(edges, from, to, metric)
<1>1. Found(s, edges, from, to, metric) \/ (SearchGoesOn(s, edges, from, to, metric) /\ s.heap = {})
  BY SearchEnds
<1>2. Shortest(edges, from, to, metric) = WalkedBack(edges, s.via, from, to)
  BY DEF Shortest
<1> HIDE DEF s
<1>3. CASE SearchGoesOn(s, edges, from, to, metric) /\ s.heap = {}
  BY <1>2, <1>3, NoneFound DEF SearchGoesOn
<1>4. CASE Found(s, edges, from, to, metric)
  <2>1. PICK t : /\ SearchGoesOn(t, edges, from, to, metric) /\ t.heap # {} /\ Top(t.heap).node = to
                 /\ s = [t EXCEPT !.heap = {}]
    BY <1>4 DEF Found
  <2>2. s.via = t.via
    BY <2>1 DEF SearchGoesOn, SearchFits, Searches
  <2> QED
    BY <1>2, <2>1, <2>2, LeastFound
<1> QED
  BY <1>1, <1>3, <1>4

\* What an object passes through are edges between rooms in scope, each with a length.
LEMMA RoutableIsMeasured ==
  ASSUME NEW edges \in Seq(Wires), NEW heights, NEW fit, NEW metric
  PROVE  /\ Routable(edges, heights, fit) \in Seq(Wires)
         /\ Measured(Routable(edges, heights, fit), metric)
<1> DEFINE passable == {e \in ToSet(edges) : Passable(e, heights, fit)}
           routable == Only(edges, passable)
<1>1. Routable(edges, heights, fit) = routable
  BY DEF Routable
<1> HIDE DEF passable
<1>2. routable \in Seq(Wires)
  BY OnlyOf
<1> HIDE DEF routable
<1>3. \A k \in DOMAIN routable : routable[k] \in Wires
  BY <1>2, LenProperties, ElementOfSeq
<1>4. Measured(routable, metric)
  BY <1>3, MapAssumption DEF Measured, WiresOf, Wires, Weight
<1> QED
  BY <1>1, <1>2, <1>4

\* The edges of a walk lead where it does.
LEMMA EdgesLead ==
  ASSUME NEW edges \in Seq(Wires), NEW metric, Measured(edges, metric), NEW walk \in Seq(DOMAIN edges),
         NEW from \in Nodes, NEW to, Leads(edges, walk, from, to)
  PROVE  LET on == [i \in DOMAIN walk |-> edges[walk[i]]]
         IN  /\ on \in Seq(Wires) /\ ToSet(on) \subseteq ToSet(edges)
             /\ Leads(on, [i \in DOMAIN on |-> i], from, to)
<1> DEFINE N == Len(walk)
           on == [i \in DOMAIN walk |-> edges[walk[i]]]
           idx == [i \in DOMAIN on |-> i]
<1>1. N \in Nat /\ DOMAIN walk = 1..N /\ \A i \in 1..N : walk[i] \in DOMAIN edges
  BY LenProperties, ElementOfSeq
<1>2. \A k \in DOMAIN edges : edges[k] \in Wires
  BY LenProperties, ElementOfSeq
<1>3. on \in [1..N -> Wires] /\ \A i \in 1..N : on[i] = edges[walk[i]]
  BY <1>1, <1>2
<1>4. on \in Seq(Wires) /\ DOMAIN on = 1..N
  BY <1>1, <1>3, SeqDef
<1>5. idx \in [1..N -> DOMAIN on] /\ \A i \in 1..N : idx[i] = i
  BY <1>4
<1>6. idx \in Seq(DOMAIN on) /\ Len(idx) = N
  BY <1>1, <1>5, SeqDef, LenProperties
<1> HIDE DEF N, idx, on
<1>7. ToSet(on) \subseteq ToSet(edges)
  BY <1>1, <1>3, <1>4 DEF ToSet
<1>8. Measured(on, metric)
  BY <1>1, <1>3, <1>4 DEF Measured, WiresOf, Weight
<1>9. PICK p : EndBy(p, edges, walk, from) /\ End(edges, walk, from) = p[N]
  BY EndSteps DEF N
<1>10. PICK q : EndBy(q, on, idx, from) /\ End(on, idx, from) = q[N]
  BY <1>6, <1>8, EndSteps
<1>11. /\ q[0] = from
       /\ \A n \in 1..N : q[n] = IF q[n - 1] \in Pair(edges[walk[n]]) THEN Other(edges[walk[n]], q[n - 1]) ELSE Nothing
  BY <1>3, <1>5, <1>6, <1>10 DEF EndBy
<1>12. q[N] = p[N]
  <2>1. Len(walk) \in Nat
    BY <1>1 DEF N
  <2>2. EndBy(p, edges, walk, from)
    BY <1>9
  <2>3. /\ q[0] = from
        /\ \A n \in 1..Len(walk) :
             q[n] = IF q[n - 1] \in Pair(edges[walk[n]]) THEN Other(edges[walk[n]], q[n - 1]) ELSE Nothing
    BY <1>11 DEF N
  <2>4. q[Len(walk)] = p[Len(walk)]
    BY <2>1, <2>2, <2>3, OneEnd
  <2> QED
    BY <2>4 DEF N
<1>13. Leads(on, idx, from, to)
  BY <1>9, <1>10, <1>12 DEF Leads
<1> QED
  BY <1>4, <1>7, <1>13 DEF on, idx

\* Whatever rooms there are and whatever doors, zones, links and passages a read finds: a route is
\* found exactly if there is one, of edges the object fits through, and none costs less.
THEOREM RoutesAreLeast == MapSpec => []RouteIsLeast
<1>1. MapReadFits => RouteIsLeast
  <2> SUFFICES ASSUME MapReadFits, asked # Nothing PROVE RouteIsLeast
    BY DEF RouteIsLeast
  <2> DEFINE edges == EdgesOf(asked.facts)
             routable == Routable(edges, asked.heights, asked.fit)
             from == asked.from
             to == asked.to
             metric == asked.metric
             walk == Shortest(routable, from, to, metric)
             on == [i \in DOMAIN walk |-> routable[walk[i]]]
             costs == {Cost(routable, w, metric) : w \in Walks(routable, from, to)}
  <2>1. routable \in Seq(Wires) /\ Measured(routable, metric)
    BY EdgesAreWires, RoutableIsMeasured DEF MapReadFits
  <2>2. from \in Nodes /\ to \in Nodes
    BY DEF MapReadFits
  <2>3. /\ answer.walk = IF walk = Nothing THEN Nothing ELSE on
        /\ answer.cost = IF walk = Nothing THEN 0 ELSE Cost(routable, walk, metric)
    <3>1. answer = AnswerTo(asked)
      BY DEF MapReadFits
    <3> QED
      BY <3>1 DEF AnswerTo
  <2> HIDE DEF routable, from, to, metric, walk
  <2>4. /\ walk = Nothing => \A w \in Seq(DOMAIN routable) : ~Leads(routable, w, from, to)
        /\ walk # Nothing => /\ walk \in Walks(routable, from, to) /\ walk \in Seq(DOMAIN routable)
                             /\ \A w \in Seq(DOMAIN routable) : Leads(routable, w, from, to) =>
                                   Cost(routable, walk, metric) <= Cost(routable, w, metric)
    BY <2>1, <2>2, ShortestIsLeast DEF walk
  <2>5. \A w \in Walks(routable, from, to) : w \in Seq(DOMAIN routable) /\ Leads(routable, w, from, to)
    <3> TAKE w \in Walks(routable, from, to)
    <3>1. w \in BoundedSeq(DOMAIN routable, Len(routable)) /\ Leads(routable, w, from, to)
      BY DEF Walks
    <3>2. Len(routable) \in Nat
      BY <2>1, LenProperties
    <3>3. PICK n \in 0..Len(routable) : w \in [1..n -> DOMAIN routable]
      BY <3>1 DEF BoundedSeq, SeqOf
    <3>4. w \in Seq(DOMAIN routable)
      BY <3>2, <3>3, SeqDef
    <3> QED
      BY <3>1, <3>4
  <2>6. CASE walk = Nothing
    <3>1. costs = {} /\ answer.walk = Nothing
      BY <2>3, <2>4, <2>5, <2>6
    <3> QED
      BY <3>1 DEF RouteIsLeast, routable, from, to, metric
  <2>7. CASE walk # Nothing
    <3>1. walk \in Walks(routable, from, to) /\ walk \in Seq(DOMAIN routable) /\ Leads(routable, walk, from, to)
      BY <2>4, <2>5, <2>7
    <3>2. on \in Seq(Wires) /\ ToSet(on) \subseteq ToSet(routable) /\ Leads(on, [i \in DOMAIN on |-> i], from, to)
      BY <2>1, <2>2, <3>1, EdgesLead
    <3>3. on # Nothing /\ answer.walk = on /\ answer.cost = Cost(routable, walk, metric)
      <4>1. Wires \subseteq Facts
        BY DEF Wires
      <4>2. on \in Seq(Facts)
        BY <3>2, <4>1
      <4> HIDE DEF on
      <4>3. on # Nothing
        BY <4>2, MapAssumption
      <4> QED
        BY <2>3, <2>7, <4>3
    <3>4. \A c \in costs : Cost(routable, walk, metric) <= c
      BY <2>4, <2>5, <2>7
    <3>5. Cost(routable, walk, metric) \in costs
      BY <3>1
    <3>6. \A w \in Walks(routable, from, to) : Cost(routable, w, metric) \in Nat
      <4> TAKE w \in Walks(routable, from, to)
      <4>1. w \in Seq(DOMAIN routable)
        BY <2>5
      <4>2. PICK f : CostBy(f, routable, w, metric) /\ Cost(routable, w, metric) = f[Len(w)]
        BY <2>1, <4>1, CostSteps
      <4> QED
        BY <4>1, <4>2, LenProperties DEF CostBy
    <3>7. costs \in SUBSET Nat
      BY <3>6
    <3> HIDE DEF costs, on
    <3>8. answer.cost = Min(costs)
      <4> DEFINE c == Cost(routable, walk, metric)
                 m == Min(costs)
      <4>1. c \in costs /\ \A d \in costs : c <= d
        BY <3>4, <3>5
      <4> HIDE DEF c
      <4>2. m \in costs /\ \A d \in costs : m <= d
        BY <4>1 DEF Min
      <4> HIDE DEF m
      <4>3. m = c
        BY <3>7, <4>1, <4>2
      <4> QED
        BY <3>3, <4>3 DEF c, m
    <3> QED
      BY <3>2, <3>3, <3>8 DEF RouteIsLeast, routable, from, to, metric, costs
  <2> QED
    BY <2>6, <2>7
<1> QED
  BY <1>1, ReadsFit, PTL

-----------------------------------------------------------------------------
(* The search by hops: the edges at a room *)

\* What a search by hops holds.
Visits(edges) == [via : [Nodes -> DOMAIN edges \cup {Nothing}], queue : Seq(Nodes)]

\* The rooms it has seen.
SeenBy(s, from) == {n \in Nodes : n = from \/ s.via[n] # Nothing}

\* The search after each edge at a room.
SeenSteps(f, s, edges, from, n, at) ==
  /\ f \in [0..Len(at) -> Visits(edges)] /\ f[0] = s
  /\ \A i \in 1..Len(at) : f[i] = Seen(f[i - 1], edges, from, n, at[i])

\* What one edge does to a search by hops.
LEMMA SeenOf ==
  ASSUME NEW E, NEW edges \in Seq(E), NEW metric, Measured(edges, metric), NEW s \in Visits(edges),
         NEW from \in Nodes, NEW n \in Nodes, NEW k \in DOMAIN edges
  PROVE  LET next == Other(edges[k], n)
             r == Seen(s, edges, from, n, k)
         IN  /\ next \in Nodes /\ r \in Visits(edges)
             /\ next \in SeenBy(s, from) => r = s
             /\ next \notin SeenBy(s, from) => /\ r.via[next] = k /\ \A m \in Nodes \ {next} : r.via[m] = s.via[m]
                                               /\ r.queue = Append(s.queue, next)
                                               /\ SeenBy(r, from) = SeenBy(s, from) \cup {next}
<1> DEFINE next == Other(edges[k], n)
           r == Seen(s, edges, from, n, k)
           known == next = from \/ s.via[next] # Nothing
<1>1. next \in Nodes
  BY OtherEnd
<1>2. s.via \in [Nodes -> DOMAIN edges \cup {Nothing}] /\ s.queue \in Seq(Nodes) /\ k # Nothing
  BY EdgesAreThere DEF Visits
<1>3. r = IF known THEN s ELSE [via |-> [s.via EXCEPT ![next] = k], queue |-> Append(s.queue, next)]
  BY DEF Seen
<1>4. known <=> next \in SeenBy(s, from)
  BY <1>1 DEF SeenBy
<1> HIDE DEF next, r, known
<1>5. CASE known
  BY <1>1, <1>3, <1>4, <1>5 DEF next, r
<1>6. CASE ~known
  <2>1. r.via = [s.via EXCEPT ![next] = k] /\ r.queue = Append(s.queue, next)
    BY <1>3, <1>6
  <2>2. r \in Visits(edges)
    <3>1. [s.via EXCEPT ![next] = k] \in [Nodes -> DOMAIN edges \cup {Nothing}]
      BY <1>1, <1>2
    <3>2. Append(s.queue, next) \in Seq(Nodes)
      BY <1>1, <1>2, AppendProperties
    <3> QED
      BY <1>3, <1>6, <3>1, <3>2 DEF Visits
  <2>3. SeenBy(r, from) = SeenBy(s, from) \cup {next}
    BY <1>1, <1>2, <2>1 DEF SeenBy
  <2>4. r.via[next] = k /\ \A m \in Nodes \ {next} : r.via[m] = s.via[m]
    BY <1>1, <1>2, <2>1
  <2> QED
    BY <1>1, <1>4, <1>6, <2>1, <2>2, <2>3, <2>4 DEF next, r
<1> QED
  BY <1>5, <1>6

\* The edges at a room are gone through one by one.
LEMMA SeeSteps ==
  ASSUME NEW E, NEW edges \in Seq(E), NEW metric, Measured(edges, metric), NEW s \in Visits(edges),
         NEW from \in Nodes, NEW n \in Nodes
  PROVE  LET at == At(edges, n)
         IN  \E f : SeenSteps(f, s, edges, from, n, at) /\ SeenFrom(s, edges, from, n) = f[Len(at)]
<1> DEFINE at == At(edges, n)
           N == Len(at)
           S == Visits(edges)
           Step(x, i) == Seen(x, edges, from, n, at[i])
           Eq(it) == it = [p \in SUBSET (1..N) |-> IF p = {} THEN s ELSE Step(it[p \ {Max(p)}], Max(p))]
           it == CHOOSE it : Eq(it)
           g == [p \in (1..N) \X S |-> Step(p[2], p[1])]
<1>1. N \in Nat /\ DOMAIN at = 1..N /\ s \in S /\ \A i \in 1..N : at[i] \in DOMAIN edges
  BY AtOf, LenProperties, ElementOfSeq
<1>2. SeenFrom(s, edges, from, n) = it[1..N]
  BY <1>1 DEF SeenFrom, FoldLeft, MapThenFoldSet
<1> HIDE DEF at
<1>3. \A i \in 1..N, x \in S : g[<<i, x>>] = Step(x, i)
  OBVIOUS
<1>4. g \in StepsOn(N, S)
  <2>1. \A i \in 1..N, x \in S : Step(x, i) \in S
    BY <1>1, SeenOf
  <2> HIDE DEF Step, N, S
  <2> QED
    BY <2>1 DEF StepsOn
<1> HIDE DEF N, g, Step, S
<1>5. Eq(it)
  <2>1. PICK j : j \in [SUBSET (1..N) -> S] /\ Folds(j, N, s, g)
    <3> HIDE DEF Eq, it
    <3> QED
      BY <1>1, <1>4, Iteration
  <2>2. ASSUME NEW p \in SUBSET (1..N), p # {} PROVE j[p] = Step(j[p \ {Max(p)}], Max(p))
    <3>1. Max(p) \in 1..N /\ p \ {Max(p)} \in SUBSET (1..N)
      BY <1>1, <2>2, GreatestOf
    <3> QED
      BY <1>3, <2>1, <2>2, <3>1 DEF Folds
  <2>3. Eq(j)
    BY <2>1, <2>2 DEF Folds
  <2> QED
    BY <2>3
<1> HIDE DEF it
<1>6. ASSUME NEW p \in SUBSET (1..N), p # {}, it[p \ {Max(p)}] \in S
      PROVE  it[p] = g[<<Max(p), it[p \ {Max(p)}]>>]
  <2>1. Max(p) \in 1..N
    BY <1>1, <1>6, GreatestOf
  <2> QED
    BY <1>3, <1>5, <1>6, <2>1
<1>7. FoldsWithin(it, N, S, s, g)
  BY <1>5, <1>6 DEF FoldsWithin
<1> HIDE DEF Eq
<1>8. PICK f : CountsUp(f, N, S, s, g) /\ it[1..N] = f[N]
  BY <1>1, <1>4, <1>7, FoldSteps
<1>9. \A i \in 1..N : f[i] = Step(f[i - 1], i)
  <2> TAKE i \in 1..N
  <2>1. i - 1 \in 0..N
    BY <1>1
  <2> QED
    BY <1>3, <1>8, <2>1 DEF CountsUp
<1>10. SeenSteps(f, s, edges, from, n, at)
  BY <1>8, <1>9 DEF N, Step, S, CountsUp, SeenSteps
<1> QED
  BY <1>2, <1>8, <1>10 DEF N, at

\* Something is a walk to each room seen, read back from it.
ReadsBack(walk, s, edges, from) ==
  \A n \in SeenBy(s, from) : walk[n] = IF n = from THEN <<>> ELSE Append(walk[Back(edges, s, n)], s.via[n])

\* The walks a search by hops has found, and nothing else can be read back.
WalksSeen(walk, s, edges, from) ==
  /\ walk \in [Nodes -> Seq(DOMAIN edges)]
  /\ \A n \in Nodes : walk[n] = IF n = from \/ s.via[n] = Nothing THEN <<>>
                                ELSE Append(walk[Back(edges, s, n)], s.via[n])
  /\ \A n \in SeenBy(s, from) : Leads(edges, walk[n], from, n)
  /\ \A other : ReadsBack(other, s, edges, from) => \A n \in SeenBy(s, from) : other[n] = walk[n]

\* A search by hops under way: what waits has been seen, and each room was seen from one seen.
VisitFits(s, edges, from) ==
  /\ s \in Visits(edges) /\ ToSet(s.queue) \subseteq SeenBy(s, from)
  /\ \A n \in SeenBy(s, from) \ {from} : s.via[n] \in EdgesAt(edges, n) /\ Back(edges, s, n) \in SeenBy(s, from)
  /\ \E walk : WalksSeen(walk, s, edges, from)

\* What it has left to pop: what waits, and what may still be seen.
LeftToVisit(s, from) == Len(s.queue) + Cardinality(Nodes \ SeenBy(s, from))

\* A room seen is put off the rooms not seen and on the queue.
LEMMA OneMoreSeen ==
  ASSUME NEW E, NEW edges \in Seq(E), NEW metric, Measured(edges, metric), NEW from \in Nodes,
         NEW s, VisitFits(s, edges, from), NEW n \in SeenBy(s, from), NEW k \in EdgesAt(edges, n)
  PROVE  LET r == Seen(s, edges, from, n, k)
         IN  /\ VisitFits(r, edges, from) /\ LeftToVisit(r, from) = LeftToVisit(s, from)
             /\ SeenBy(s, from) \subseteq SeenBy(r, from) /\ Other(edges[k], n) \in SeenBy(r, from)
             /\ ToSet(r.queue) = ToSet(s.queue) \cup (SeenBy(r, from) \ SeenBy(s, from))
<1> DEFINE next == Other(edges[k], n)
           r == Seen(s, edges, from, n, k)
           seen == SeenBy(s, from)
<1>1. s \in Visits(edges) /\ n \in Nodes /\ k \in DOMAIN edges
  BY DEF VisitFits, SeenBy, EdgesAt
<1>2. /\ next \in Nodes /\ r \in Visits(edges)
      /\ next \in seen => r = s
      /\ next \notin seen => /\ r.via[next] = k /\ \A m \in Nodes \ {next} : r.via[m] = s.via[m]
                             /\ r.queue = Append(s.queue, next)
                             /\ SeenBy(r, from) = seen \cup {next}
  <2>1. next \in Nodes /\ r \in Visits(edges) /\ (next \in seen => r = s)
    BY <1>1, SeenOf
  <2>2. next \notin seen => r.queue = Append(s.queue, next)
    BY <1>1, SeenOf
  <2>3. next \notin seen => SeenBy(r, from) = seen \cup {next}
    BY <1>1, SeenOf
  <2>4. next \notin seen => r.via[next] = k
    BY <1>1, SeenOf
  <2>5. next \notin seen => \A m \in Nodes \ {next} : r.via[m] = s.via[m]
    BY <1>1, SeenOf
  <2> HIDE DEF next, r, seen
  <2> QED
    BY <2>1, <2>2, <2>3, <2>4, <2>5
<1>3. /\ next # n /\ n \in Pair(edges[k]) /\ next \in Pair(edges[k]) /\ Other(edges[k], next) = n
  BY <1>1, OtherEnd DEF EdgesAt
<1>4. PICK walk : WalksSeen(walk, s, edges, from)
  BY DEF VisitFits
<1> HIDE DEF r, next
<1>5. CASE next \in seen
  BY <1>2, <1>5 DEF r, next
<1>6. CASE next \notin seen
  <2>1. /\ s.via \in [Nodes -> DOMAIN edges \cup {Nothing}] /\ s.queue \in Seq(Nodes)
        /\ from \in seen /\ seen \subseteq Nodes /\ k # Nothing
    BY <1>1, EdgesAreThere DEF Visits, SeenBy
  <2>2. r.queue = Append(s.queue, next) /\ SeenBy(r, from) = seen \cup {next}
    BY <1>2, <1>6
  <2>3. /\ r.via[next] = k /\ \A m \in Nodes \ {next} : r.via[m] = s.via[m] /\ Back(edges, r, m) = Back(edges, s, m)
        /\ Back(edges, r, next) = n
    BY <1>2, <1>3, <1>6 DEF Back
  <2>4. \A m \in seen \ {from} : s.via[m] \in EdgesAt(edges, m) /\ Back(edges, s, m) \in seen
    BY DEF VisitFits
  <2>5. ToSet(r.queue) = ToSet(s.queue) \cup {next} /\ Len(r.queue) = Len(s.queue) + 1 /\ Len(s.queue) \in Nat
    <3> DEFINE q == s.queue
               N == Len(q)
    <3>1. /\ N \in Nat /\ DOMAIN q = 1..N /\ Len(Append(q, next)) = N + 1
          /\ DOMAIN Append(q, next) = 1..(N + 1) /\ Append(q, next)[N + 1] = next
          /\ \A i \in 1..N : Append(q, next)[i] = q[i]
      BY <1>2, <2>1, AppendProperties, LenProperties
    <3> HIDE DEF q, N
    <3>2. 1..(N + 1) = 1..N \cup {N + 1}
      BY <3>1
    <3>3. ToSet(Append(q, next)) = ToSet(q) \cup {next}
      BY <3>1, <3>2 DEF ToSet
    <3> QED
      BY <2>2, <3>1, <3>3 DEF q, N
  <2>6. LeftToVisit(r, from) = LeftToVisit(s, from)
    <3>1. Nodes \ SeenBy(r, from) = (Nodes \ seen) \ {next} /\ next \in Nodes \ seen
      BY <1>2, <1>6, <2>2
    <3>2. IsFiniteSet(Nodes \ seen) /\ Cardinality(Nodes \ seen) \in Nat
      <4>1. IsFiniteSet(Nodes \ seen)
        BY RoomsAreFinite, FS_Subset
      <4> QED
        BY <4>1, FS_CardinalityType
    <3>3. Cardinality((Nodes \ seen) \ {next}) = Cardinality(Nodes \ seen) - 1
      BY <3>1, <3>2, FS_RemoveElement
    <3>4. Cardinality(Nodes \ SeenBy(r, from)) = Cardinality(Nodes \ seen) - 1
      BY <3>1, <3>3
    <3> DEFINE c == Cardinality(Nodes \ seen)
    <3>5. c \in Nat /\ Cardinality(Nodes \ SeenBy(r, from)) = c - 1
      BY <3>2, <3>4
    <3>6. LeftToVisit(s, from) = Len(s.queue) + c
      BY DEF LeftToVisit
    <3> HIDE DEF c
    <3>7. LeftToVisit(r, from) = (Len(s.queue) + 1) + (c - 1)
      BY <2>5, <3>5 DEF LeftToVisit
    <3> QED
      BY <2>5, <3>5, <3>6, <3>7
  <2>7. \A m \in SeenBy(r, from) \ {from} : r.via[m] \in EdgesAt(edges, m) /\ Back(edges, r, m) \in SeenBy(r, from)
    <3>1. k \in EdgesAt(edges, next)
      BY <1>1, <1>3 DEF EdgesAt
    <3> HIDE DEF seen
    <3> QED
      BY <1>6, <2>1, <2>2, <2>3, <2>4, <3>1 DEF seen
  <2> DEFINE on == [walk EXCEPT ![next] = Append(walk[n], k)]
  <2>8. walk \in [Nodes -> Seq(DOMAIN edges)]
    BY <1>4 DEF WalksSeen
  <2>9. on \in [Nodes -> Seq(DOMAIN edges)] /\ on[next] = Append(walk[n], k) /\ \A m \in Nodes \ {next} : on[m] = walk[m]
    <3>1. walk[n] \in Seq(DOMAIN edges)
      BY <1>1, <2>8
    <3>2. Append(walk[n], k) \in Seq(DOMAIN edges)
      BY <1>1, <3>1, AppendProperties
    <3> QED
      BY <1>2, <2>8, <3>2
  <2> HIDE DEF on, seen
  <2>10. \A m \in Nodes : on[m] = IF m = from \/ r.via[m] = Nothing THEN <<>> ELSE Append(on[Back(edges, r, m)], r.via[m])
    <3> TAKE m \in Nodes
    <3>1. CASE m = next
      <4>1. on[n] = walk[n]
        BY <1>1, <1>3, <2>9
      <4> QED
        BY <1>6, <2>1, <2>3, <2>9, <3>1, <4>1
    <3>2. CASE m # next
      <4>1. on[m] = walk[m] /\ r.via[m] = s.via[m] /\ Back(edges, r, m) = Back(edges, s, m)
        BY <2>3, <2>9, <3>2
      <4>2. walk[m] = IF m = from \/ s.via[m] = Nothing THEN <<>> ELSE Append(walk[Back(edges, s, m)], s.via[m])
        BY <1>4 DEF WalksSeen
      <4>3. m # from /\ s.via[m] # Nothing => Back(edges, s, m) \in seen
        BY <2>4 DEF SeenBy, seen
      <4>4. m # from /\ s.via[m] # Nothing => on[Back(edges, s, m)] = walk[Back(edges, s, m)]
        BY <1>6, <2>1, <2>9, <4>3
      <4> QED
        BY <4>1, <4>2, <4>4
    <3> QED
      BY <3>1, <3>2
  <2>11. \A m \in SeenBy(r, from) : Leads(edges, on[m], from, m)
    <3>1. Leads(edges, on[next], from, next)
      <4>1. Leads(edges, walk[n], from, n) /\ walk[n] \in Seq(DOMAIN edges)
        BY <1>1, <1>4, <2>8 DEF WalksSeen
      <4> QED
        BY <1>1, <1>3, <2>9, <4>1, LongerWalk DEF next
    <3>2. \A m \in seen : Leads(edges, on[m], from, m)
      BY <1>4, <1>6, <2>1, <2>9 DEF WalksSeen, seen
    <3> QED
      BY <2>2, <3>1, <3>2
  <2>12. ASSUME NEW other, ReadsBack(other, r, edges, from), NEW m \in SeenBy(r, from) PROVE other[m] = on[m]
    <3>1. \A i \in seen : i \in SeenBy(r, from) /\ r.via[i] = s.via[i] /\ Back(edges, r, i) = Back(edges, s, i)
      BY <1>6, <2>1, <2>2, <2>3
    <3>2. ReadsBack(other, s, edges, from)
      BY <2>12, <3>1 DEF ReadsBack, seen
    <3>3. \A i \in seen : other[i] = walk[i]
      BY <1>4, <3>2 DEF WalksSeen, seen
    <3>4. other[next] = Append(other[n], k)
      <4>1. next \in SeenBy(r, from) /\ next # from
        BY <1>6, <2>1, <2>2
      <4> QED
        BY <2>3, <2>12, <4>1 DEF ReadsBack
    <3>5. n \in seen
      BY DEF seen
    <3> QED
      BY <1>6, <2>1, <2>2, <2>9, <3>3, <3>4, <3>5
  <2>13. WalksSeen(on, r, edges, from)
    BY <2>9, <2>10, <2>11, <2>12 DEF WalksSeen
  <2>14. ToSet(r.queue) \subseteq SeenBy(r, from) /\ ToSet(r.queue) = ToSet(s.queue) \cup (SeenBy(r, from) \ seen)
    BY <1>6, <2>2, <2>5 DEF VisitFits, seen
  <2>15. VisitFits(r, edges, from)
    BY <1>2, <2>7, <2>13, <2>14 DEF VisitFits
  <2> QED
    BY <2>2, <2>6, <2>14, <2>15 DEF r, next, seen
<1> QED
  BY <1>5, <1>6

\* Every edge at a room that was popped has been gone through.
Closed(s, edges, from) ==
  \A n \in SeenBy(s, from) \ ToSet(s.queue) : \A k \in EdgesAt(edges, n) : Other(edges[k], n) \in SeenBy(s, from)

\* What going through some of the edges at a room makes of a search by hops.
SeenTo(s, r, edges, from, n, ks) ==
  /\ VisitFits(r, edges, from) /\ LeftToVisit(r, from) = LeftToVisit(s, from)
  /\ SeenBy(s, from) \subseteq SeenBy(r, from)
  /\ ToSet(r.queue) = ToSet(s.queue) \cup (SeenBy(r, from) \ SeenBy(s, from))
  /\ \A k \in ks : Other(edges[k], n) \in SeenBy(r, from)

\* All of them are gone through.
LEMMA AllSeen ==
  ASSUME NEW E, NEW edges \in Seq(E), NEW metric, Measured(edges, metric), NEW from \in Nodes,
         NEW s, VisitFits(s, edges, from), NEW n \in SeenBy(s, from)
  PROVE  SeenTo(s, SeenFrom(s, edges, from, n), edges, from, n, EdgesAt(edges, n))
<1> DEFINE at == At(edges, n)
           r == SeenFrom(s, edges, from, n)
           ks == EdgesAt(edges, n)
           N == Len(at)
           Before(i) == {at[j] : j \in 1..i}
<1>1. at \in Seq(DOMAIN edges) /\ ToSet(at) = ks
  BY AtOf
<1>2. PICK f : SeenSteps(f, s, edges, from, n, at) /\ r = f[N]
  <2>1. s \in Visits(edges) /\ n \in Nodes
    BY DEF VisitFits, SeenBy
  <2> QED
    BY <2>1, SeeSteps
<1> HIDE DEF at, r, ks
<1>3. N \in Nat /\ DOMAIN at = 1..N
  BY <1>1, LenProperties
<1>4. Before(N) = ks /\ \A i \in 1..N : at[i] \in ks
  BY <1>1, <1>3 DEF ToSet
<1> HIDE DEF N
<1> DEFINE Good == {i \in 0..N : SeenTo(s, f[i], edges, from, n, Before(i))}
<1>5. 0 \in Good
  <2>1. f[0] = s /\ Before(0) = {}
    BY <1>2 DEF SeenSteps
  <2> HIDE DEF Before
  <2>2. SeenTo(s, s, edges, from, n, {})
    BY DEF SeenTo
  <2> QED
    BY <1>3, <2>1, <2>2
<1>6. ASSUME NEW i \in 0..N, i \in Good, i < N PROVE i + 1 \in Good
  <2>1. i \in Nat /\ i + 1 \in 1..N /\ i + 1 \in 0..N /\ (i + 1) - 1 = i
    BY <1>3, <1>6
  <2> DEFINE k == at[i + 1]
             x == f[i]
             y == f[i + 1]
  <2>2. y = Seen(x, edges, from, n, k)
    BY <1>2, <2>1 DEF SeenSteps, N
  <2>3. k \in EdgesAt(edges, n)
    BY <1>4, <2>1 DEF ks
  <2>4. Before(i + 1) = Before(i) \cup {k}
    <3>1. 1..(i + 1) = 1..i \cup {i + 1}
      BY <2>1
    <3> QED
      BY <3>1
  <2>5. SeenTo(s, x, edges, from, n, Before(i))
    BY <1>6
  <2> HIDE DEF k, x, y, Before
  <2>6. VisitFits(x, edges, from) /\ n \in SeenBy(x, from)
    BY <2>5 DEF SeenTo
  <2>7. /\ VisitFits(y, edges, from) /\ LeftToVisit(y, from) = LeftToVisit(x, from)
        /\ SeenBy(x, from) \subseteq SeenBy(y, from) /\ Other(edges[k], n) \in SeenBy(y, from)
        /\ ToSet(y.queue) = ToSet(x.queue) \cup (SeenBy(y, from) \ SeenBy(x, from))
    BY <2>2, <2>3, <2>6, OneMoreSeen
  <2>8. ToSet(y.queue) = ToSet(s.queue) \cup (SeenBy(y, from) \ SeenBy(s, from))
    BY <2>5, <2>7 DEF SeenTo
  <2>9. \A l \in Before(i + 1) : Other(edges[l], n) \in SeenBy(y, from)
    BY <2>4, <2>5, <2>7 DEF SeenTo
  <2>10. SeenTo(s, y, edges, from, n, Before(i + 1))
    BY <2>5, <2>7, <2>8, <2>9 DEF SeenTo
  <2> QED
    BY <2>1, <2>10 DEF y
<1> HIDE DEF Good
<1>7. 0..N \subseteq Good
  BY <1>3, <1>5, <1>6, CountUp
<1>8. SeenTo(s, f[N], edges, from, n, Before(N))
  <2>1. N \in Good
    BY <1>3, <1>7
  <2> HIDE DEF Before
  <2> QED
    BY <2>1 DEF Good
<1> QED
  BY <1>2, <1>4, <1>8 DEF r, ks

\* A room popped has all its edges gone through, and there is one less to pop.
LEMMA VisitIsALoss ==
  ASSUME NEW E, NEW edges \in Seq(E), NEW metric, Measured(edges, metric), NEW from \in Nodes, NEW to,
         NEW s, VisitFits(s, edges, from), Closed(s, edges, from), s.queue # <<>>, Head(s.queue) # to
  PROVE  LET r == Visit(s, edges, from, to)
         IN  VisitFits(r, edges, from) /\ Closed(r, edges, from) /\ LeftToVisit(r, from) = LeftToVisit(s, from) - 1
<1> DEFINE q == s.queue
           n == Head(s.queue)
           p == [s EXCEPT !.queue = Tail(@)]
           r == Visit(s, edges, from, to)
<1>1. s \in Visits(edges) /\ q \in Seq(Nodes) /\ ToSet(q) \subseteq SeenBy(s, from)
  BY DEF VisitFits, Visits
<1>2. r = SeenFrom(p, edges, from, n)
  BY DEF Visit
<1>3. /\ n \in Nodes /\ Tail(q) \in Seq(Nodes) /\ Len(q) \in Nat /\ Len(Tail(q)) = Len(q) - 1
      /\ ToSet(q) = ToSet(Tail(q)) \cup {n}
  <2> DEFINE M == Len(q)
  <2>1. /\ M \in Nat /\ M # 0 /\ DOMAIN q = 1..M /\ n = q[1] /\ Tail(q) \in Seq(Nodes) /\ Len(Tail(q)) = M - 1
        /\ DOMAIN Tail(q) = 1..(M - 1) /\ \A i \in 1..(M - 1) : Tail(q)[i] = q[i + 1]
    BY <1>1, LenProperties, EmptySeq, HeadTailProperties
  <2> HIDE DEF q, M, n
  <2>2. n \in Nodes
    BY <1>1, <2>1, ElementOfSeq
  <2>3. \A i \in 1..M : i = 1 \/ (i - 1 \in 1..(M - 1) /\ (i - 1) + 1 = i)
    BY <2>1
  <2>4. ToSet(q) \subseteq ToSet(Tail(q)) \cup {n}
    <3> SUFFICES ASSUME NEW x \in ToSet(q), x # n PROVE x \in ToSet(Tail(q))
      OBVIOUS
    <3>1. PICK i \in 1..M : x = q[i]
      BY <2>1 DEF ToSet
    <3>2. i - 1 \in 1..(M - 1) /\ x = Tail(q)[i - 1]
      BY <2>1, <2>3, <3>1
    <3> QED
      BY <2>1, <3>2 DEF ToSet
  <2>5. \A i \in 1..(M - 1) : i + 1 \in 1..M
    BY <2>1
  <2>6. ToSet(Tail(q)) \cup {n} \subseteq ToSet(q)
    <3>1. 1 \in 1..M
      BY <2>1
    <3> QED
      BY <2>1, <2>5, <3>1 DEF ToSet
  <2> QED
    BY <2>1, <2>2, <2>4, <2>6 DEF M
<1>4. p.via = s.via /\ p.queue = Tail(q) /\ p \in Visits(edges)
  BY <1>1, <1>3 DEF Visits
<1> HIDE DEF p, r, q, n
<1>5. SeenBy(p, from) = SeenBy(s, from) /\ n \in SeenBy(p, from) /\ \A m : Back(edges, p, m) = Back(edges, s, m)
  BY <1>1, <1>3, <1>4 DEF SeenBy, Back
<1>6. VisitFits(p, edges, from)
  <2>1. PICK walk : WalksSeen(walk, s, edges, from)
    BY DEF VisitFits
  <2>2. WalksSeen(walk, p, edges, from)
    <3>1. \A other : ReadsBack(other, p, edges, from) => ReadsBack(other, s, edges, from)
      BY <1>4, <1>5 DEF ReadsBack
    <3> QED
      BY <1>4, <1>5, <2>1, <3>1 DEF WalksSeen
  <2>3. ToSet(p.queue) \subseteq SeenBy(p, from)
    BY <1>1, <1>3, <1>4, <1>5
  <2> QED
    BY <1>4, <1>5, <2>2, <2>3 DEF VisitFits
<1>7. SeenTo(p, r, edges, from, n, EdgesAt(edges, n))
  BY <1>2, <1>5, <1>6, AllSeen
<1>8. LeftToVisit(p, from) = LeftToVisit(s, from) - 1
  <2> DEFINE c == Cardinality(Nodes \ SeenBy(s, from))
  <2>1. c \in Nat
    <3>1. IsFiniteSet(Nodes \ SeenBy(s, from))
      BY RoomsAreFinite, FS_Subset
    <3> QED
      BY <3>1, FS_CardinalityType
  <2>2. LeftToVisit(p, from) = (Len(q) - 1) + c /\ LeftToVisit(s, from) = Len(q) + c
    BY <1>3, <1>4, <1>5 DEF LeftToVisit, q
  <2> HIDE DEF c
  <2> QED
    BY <1>3, <2>1, <2>2
<1>9. Closed(r, edges, from)
  <2> SUFFICES ASSUME NEW m \in SeenBy(r, from) \ ToSet(r.queue), NEW k \in EdgesAt(edges, m)
               PROVE  Other(edges[k], m) \in SeenBy(r, from)
    BY DEF Closed
  <2>1. m \in SeenBy(s, from) /\ m \notin ToSet(Tail(q))
    BY <1>4, <1>5, <1>7 DEF SeenTo
  <2>2. CASE m = n
    BY <1>7, <2>2 DEF SeenTo
  <2>3. CASE m # n
    <3>1. m \in SeenBy(s, from) \ ToSet(s.queue)
      BY <1>3, <2>1, <2>3 DEF q
    <3> QED
      BY <1>5, <1>7, <3>1 DEF Closed, SeenTo
  <2> QED
    BY <2>2, <2>3
<1> QED
  BY <1>7, <1>8, <1>9 DEF SeenTo, r

-----------------------------------------------------------------------------
(* The search by hops: to its end *)

\* The search by hops before the first pop.
LEMMA AloneFits ==
  ASSUME NEW E, NEW edges \in Seq(E), NEW metric, Measured(edges, metric), NEW from \in Nodes
  PROVE  /\ VisitFits(Alone(from), edges, from) /\ Closed(Alone(from), edges, from)
         /\ LeftToVisit(Alone(from), from) = NodeCount
<1> DEFINE s == Alone(from)
           walk == [n \in Nodes |-> <<>>]
<1>1. s.via = [m \in Nodes |-> Nothing] /\ s.queue = <<from>> /\ s \in Visits(edges)
  BY DEF Alone, Visits
<1>2. walk \in [Nodes -> Seq(DOMAIN edges)] /\ \A n \in Nodes : walk[n] = <<>>
  OBVIOUS
<1> HIDE DEF s, walk
<1>3. SeenBy(s, from) = {from}
  BY <1>1 DEF SeenBy
<1>4. ToSet(s.queue) = {from} /\ Len(s.queue) = 1
  BY <1>1 DEF ToSet
<1>5. WalksSeen(walk, s, edges, from)
  <2>1. Leads(edges, <<>>, from, from)
    BY EmptyWalk
  <2>2. \A n \in Nodes : s.via[n] = Nothing
    BY <1>1
  <2> QED
    BY <1>2, <1>3, <2>1, <2>2 DEF WalksSeen, ReadsBack
<1>6. VisitFits(s, edges, from) /\ Closed(s, edges, from)
  BY <1>1, <1>3, <1>4, <1>5 DEF VisitFits, Closed
<1>7. Cardinality(Nodes \ {from}) = NodeCount - 1 /\ NodeCount \in Nat
  <2>1. NodeCount \in Nat
    BY MapAssumption
  <2>2. Cardinality(Nodes) = NodeCount
    BY <2>1, FS_Interval DEF Nodes
  <2> QED
    BY <2>1, <2>2, RoomsAreFinite, FS_RemoveElement
<1>8. LeftToVisit(s, from) = NodeCount
  BY <1>3, <1>4, <1>7 DEF LeftToVisit
<1> QED
  BY <1>6, <1>8 DEF s

\* So the search by hops ends: with the room found, or with nothing left to pop.
LEMMA VisitsEnd ==
  ASSUME NEW E, NEW edges \in Seq(E), NEW metric, Measured(edges, metric), NEW from \in Nodes, NEW to \in Nodes
  PROVE  LET s == BreadthFirst(edges, from, to)
         IN  VisitFits(s, edges, from) /\ Closed(s, edges, from) /\ (s.queue = <<>> \/ Head(s.queue) = to)
<1> DEFINE Fine(s) == VisitFits(s, edges, from) /\ Closed(s, edges, from)
           S == {s \in Visits(edges) : Fine(s)}
           Step(s) == Visit(s, edges, from, to)
           Over(s) == s.queue = <<>> \/ Head(s.queue) = to
           base == Alone(from)
           Eq(h) == h = [n \in 0..NodeCount |-> IF n = 0 THEN base ELSE Step(h[n - 1])]
           h == CHOOSE h : Eq(h)
           g == [p \in (1..NodeCount) \X S |-> Step(p[2])]
<1>1. BreadthFirst(edges, from, to) = h[NodeCount]
  BY DEF BreadthFirst
<1>2. NodeCount \in Nat
  BY MapAssumption
<1>3. \A s : Fine(s) => s \in Visits(edges)
  BY DEF VisitFits
<1>4. \A s : Over(s) => Step(s) = s
  BY DEF Visit
<1>5. base \in S /\ LeftToVisit(base, from) = NodeCount
  BY <1>3, AloneFits
<1>6. \A s \in S : ~Over(s) => Step(s) \in S /\ LeftToVisit(Step(s), from) = LeftToVisit(s, from) - 1
  BY <1>3, VisitIsALoss
<1>7. \A s \in S : Step(s) \in S
  BY <1>4, <1>6
<1>8. \A s \in S : LeftToVisit(s, from) \in Nat /\ (LeftToVisit(s, from) = 0 => s.queue = <<>>)
  <2> TAKE s \in S
  <2> DEFINE c == Cardinality(Nodes \ SeenBy(s, from))
  <2>1. c \in Nat
    <3>1. IsFiniteSet(Nodes \ SeenBy(s, from))
      BY RoomsAreFinite, FS_Subset
    <3> QED
      BY <3>1, FS_CardinalityType
  <2>2. s.queue \in Seq(Nodes)
    BY DEF Visits
  <2>3. Len(s.queue) \in Nat /\ (Len(s.queue) = 0 => s.queue = <<>>)
    BY <2>2, LenProperties, EmptySeq
  <2>4. LeftToVisit(s, from) = Len(s.queue) + c
    BY DEF LeftToVisit
  <2> HIDE DEF c
  <2> QED
    BY <2>1, <2>3, <2>4
<1> HIDE DEF S, Step, base, Fine, Over
<1>9. g \in StepsOn(NodeCount, S)
  BY <1>7 DEF StepsOn
<1>10. \A n \in 1..NodeCount, s \in S : g[<<n, s>>] = Step(s)
  OBVIOUS
<1> HIDE DEF g
<1>11. PICK f : CountsUp(f, NodeCount, S, base, g)
  BY <1>2, <1>5, <1>9, Recursion
<1>12. Eq(f)
  <2>1. \A n \in 1..NodeCount : n - 1 \in 0..NodeCount /\ f[n - 1] \in S
    BY <1>2, <1>11 DEF CountsUp
  <2>2. \A n \in 1..NodeCount : f[n] = Step(f[n - 1])
    BY <1>10, <1>11, <2>1 DEF CountsUp
  <2>3. f \in [0..NodeCount -> S] /\ f[0] = base
    BY <1>11 DEF CountsUp
  <2>4. \A n \in 0..NodeCount : f[n] = IF n = 0 THEN base ELSE Step(f[n - 1])
    BY <1>2, <2>2, <2>3
  <2> QED
    BY <2>3, <2>4
<1>13. Eq(h)
  BY <1>12
<1> HIDE DEF h
<1>14. h[0] = base /\ \A n \in 1..NodeCount : h[n] = Step(h[n - 1])
  BY <1>2, <1>13
<1> DEFINE Left(n) == Over(h[n]) \/ LeftToVisit(h[n], from) + n <= NodeCount
           Good == {n \in 0..NodeCount : h[n] \in S /\ Left(n)}
<1>15. 0 \in Good
  BY <1>2, <1>5, <1>14
<1>16. ASSUME NEW n \in 0..NodeCount, n \in Good, n < NodeCount PROVE n + 1 \in Good
  <2>1. n \in Nat /\ n + 1 \in 1..NodeCount /\ n + 1 \in 0..NodeCount /\ (n + 1) - 1 = n
    BY <1>2, <1>16
  <2>2. h[n] \in S /\ Left(n) /\ h[n + 1] = Step(h[n])
    BY <1>14, <1>16, <2>1
  <2>3. h[n + 1] \in S
    BY <1>7, <2>2
  <2>4. CASE Over(h[n])
    BY <1>4, <2>1, <2>2, <2>3, <2>4
  <2>5. CASE ~Over(h[n])
    <3>1. LeftToVisit(h[n + 1], from) = LeftToVisit(h[n], from) - 1 /\ LeftToVisit(h[n], from) + n <= NodeCount
      BY <1>6, <2>2, <2>5
    <3>2. LeftToVisit(h[n], from) \in Nat
      BY <1>8, <2>2
    <3> QED
      BY <1>2, <2>1, <2>3, <3>1, <3>2
  <2> QED
    BY <2>4, <2>5
<1> HIDE DEF Good
<1>17. 0..NodeCount \subseteq Good
  BY <1>2, <1>15, <1>16, CountUp
<1>18. h[NodeCount] \in S /\ Left(NodeCount)
  BY <1>2, <1>17 DEF Good
<1>19. Over(h[NodeCount])
  <2> SUFFICES ASSUME LeftToVisit(h[NodeCount], from) + NodeCount <= NodeCount PROVE Over(h[NodeCount])
    BY <1>18
  <2>1. LeftToVisit(h[NodeCount], from) = 0
    BY <1>2, <1>8, <1>18
  <2> QED
    BY <1>8, <1>18, <2>1 DEF Over
<1> QED
  BY <1>1, <1>18, <1>19 DEF S, Fine, Over

\* What is read back is a walk, and there is none only if the rooms are not joined.
LEMMA BreadthFirstOf ==
  ASSUME NEW E, NEW edges \in Seq(E), NEW metric, Measured(edges, metric), NEW from \in Nodes, NEW to \in Nodes
  PROVE  LET walk == WalkedBack(edges, BreadthFirst(edges, from, to).via, from, to)
         IN  /\ walk = Nothing => ~Joined(edges, from, to)
             /\ walk # Nothing => walk \in Seq(DOMAIN edges) /\ Leads(edges, walk, from, to)
<1> DEFINE s == BreadthFirst(edges, from, to)
           via == s.via
           seen == SeenBy(s, from)
           Eq(W) == W = [n \in Nodes |-> IF n = from \/ via[n] = Nothing THEN <<>>
                                         ELSE Append(W[Other(edges[via[n]], n)], via[n])]
           W == CHOOSE W : Eq(W)
           walk == WalkedBack(edges, via, from, to)
<1>1. VisitFits(s, edges, from) /\ Closed(s, edges, from) /\ (s.queue = <<>> \/ Head(s.queue) = to)
  BY VisitsEnd
<1> HIDE DEF s
<1>2. from # to /\ via[to] = Nothing <=> to \notin seen
  BY DEF SeenBy
<1>3. walk = IF to \notin seen THEN Nothing ELSE W[to]
  BY <1>2 DEF WalkedBack
<1>4. CASE to \notin seen
  <2>1. s.queue = <<>>
    <3> SUFFICES ASSUME s.queue # <<>>, Head(s.queue) = to PROVE FALSE
      BY <1>1
    <3>1. s.queue \in Seq(Nodes) /\ ToSet(s.queue) \subseteq seen
      BY <1>1 DEF VisitFits, Visits
    <3>2. Head(s.queue) = s.queue[1] /\ 1 \in DOMAIN s.queue
      BY <3>1, LenProperties, EmptySeq, HeadTailProperties
    <3> QED
      BY <1>4, <3>1, <3>2 DEF ToSet
  <2>2. ToSet(s.queue) = {}
    BY <2>1 DEF ToSet
  <2>3. \A n \in seen : \A k \in EdgesAt(edges, n) : Other(edges[k], n) \in seen
    BY <1>1, <2>2 DEF Closed
  <2>4. from \in seen /\ seen \in SUBSET Nodes
    BY DEF SeenBy
  <2> HIDE DEF seen
  <2>5. ASSUME NEW k \in DOMAIN edges PROVE Pair(edges[k]) \cap seen \in {{}, Pair(edges[k])}
    <3> SUFFICES ASSUME NEW n \in Pair(edges[k]) \cap seen PROVE Pair(edges[k]) \subseteq seen
      OBVIOUS
    <3>1. Pair(edges[k]) = {n, Other(edges[k], n)} /\ k \in EdgesAt(edges, n)
      BY OtherEnd DEF EdgesAt
    <3> QED
      BY <2>3, <3>1
  <2>6. ~Joined(edges, from, to)
    BY <1>4, <2>4, <2>5 DEF Joined
  <2> QED
    BY <1>3, <1>4, <2>6 DEF s
<1>5. CASE to \in seen
  <2>1. PICK ways : WalksSeen(ways, s, edges, from)
    BY <1>1 DEF VisitFits
  <2>2. Eq(ways)
    BY <2>1 DEF WalksSeen, Back
  <2>3. Eq(W)
    BY <2>2
  <2> HIDE DEF W
  <2>4. \A n \in seen : n = from \/ via[n] # Nothing
    BY DEF SeenBy
  <2>5. ReadsBack(W, s, edges, from)
    <3>1. \A n \in Nodes : W[n] = IF n = from \/ via[n] = Nothing THEN <<>> ELSE Append(W[Back(edges, s, n)], via[n])
      BY <2>3 DEF Back
    <3> QED
      BY <2>4, <3>1 DEF ReadsBack, SeenBy
  <2>6. W[to] = ways[to]
    BY <1>5, <2>1, <2>5 DEF WalksSeen
  <2>7. ways[to] \in Seq(DOMAIN edges) /\ Leads(edges, ways[to], from, to)
    BY <1>5, <2>1 DEF WalksSeen
  <2>8. ways[to] # Nothing
    <3>1. DOMAIN edges \subseteq Nat
      BY LenProperties
    <3>2. ways[to] \in Seq(Nat)
      BY <2>7, <3>1
    <3> QED
      BY <3>2, MapAssumption
  <2> QED
    BY <1>3, <1>5, <2>6, <2>7, <2>8 DEF s
<1> QED
  BY <1>4, <1>5

-----------------------------------------------------------------------------
(* The graph of rooms: limits of height *)

\* The edges of a walk join the rooms it leads from and to.
LEMMA WalkJoins ==
  ASSUME NEW edges, NEW metric, Measured(edges, metric), NEW walk \in Seq(DOMAIN edges),
         NEW from \in Nodes, NEW to \in Nodes, Leads(edges, walk, from, to)
  PROVE  Joined([i \in DOMAIN walk |-> edges[walk[i]]], from, to)
<1> DEFINE N == Len(walk)
           on == [i \in DOMAIN walk |-> edges[walk[i]]]
<1> SUFFICES ASSUME NEW some \in SUBSET Nodes, from \in some, to \notin some,
                    ~ \E k \in DOMAIN on : Pair(on[k]) \cap some \notin {{}, Pair(on[k])}
             PROVE  FALSE
  BY DEF Joined
<1>1. N \in Nat /\ DOMAIN walk = 1..N /\ \A i \in 1..N : walk[i] \in DOMAIN edges
  BY LenProperties, ElementOfSeq
<1>2. PICK f : EndBy(f, edges, walk, from) /\ End(edges, walk, from) = f[N]
  BY EndSteps
<1>3. f[0] = from /\ f[N] = to
  BY <1>2 DEF EndBy, Leads
<1>4. \A n \in 1..N : f[n] = IF f[n - 1] \in Pair(edges[walk[n]]) THEN Other(edges[walk[n]], f[n - 1]) ELSE Nothing
  BY <1>2 DEF EndBy
<1>5. \A n \in 1..N : Pair(edges[walk[n]]) \cap some \in {{}, Pair(edges[walk[n]])}
  BY <1>1
<1> HIDE DEF N, on
<1> DEFINE Good == {n \in 0..N : f[n] \in some \cup {Nothing}}
<1>6. 0 \in Good
  BY <1>1, <1>3
<1>7. ASSUME NEW n \in 0..N, n \in Good, n < N PROVE n + 1 \in Good
  <2>1. n + 1 \in 1..N /\ n + 1 \in 0..N /\ (n + 1) - 1 = n
    BY <1>1, <1>7
  <2> DEFINE e == edges[walk[n + 1]]
  <2>2. f[n + 1] = IF f[n] \in Pair(e) THEN Other(e, f[n]) ELSE Nothing
    BY <1>4, <2>1
  <2>3. Pair(e) \subseteq Nodes /\ Other(e, f[n]) \in Pair(e)
    BY <1>1, <2>1 DEF Measured, WiresOf, Wire, Pair, Other
  <2>4. Nothing \notin Nodes
    BY MapAssumption DEF Nodes
  <2>5. Pair(e) \cap some \in {{}, Pair(e)}
    BY <1>5, <2>1
  <2>6. f[n] \in some \cup {Nothing}
    BY <1>7
  <2> HIDE DEF e
  <2>7. f[n] \in Pair(e) => Other(e, f[n]) \in some
    BY <2>3, <2>4, <2>5, <2>6
  <2> QED
    BY <2>1, <2>2, <2>7
<1> HIDE DEF Good
<1>8. 0..N \subseteq Good
  BY <1>1, <1>6, <1>7, CountUp
<1>9. to \in some \cup {Nothing} /\ Nothing \notin Nodes
  BY <1>1, <1>3, <1>8, MapAssumption DEF Good, Nodes
<1> QED
  BY <1>9

\* The heights one meets at an edge.
HeightsAt(e, heights) == {e.height} \cup {heights[n] : n \in Pair(e)}

\* What is high enough are edges between rooms in scope, all heights at which are.
LEMMA HighOf ==
  ASSUME NEW edges \in Seq(Wires), NEW heights, NEW t
  PROVE  LET high == High(edges, heights, t)
         IN  /\ high \in Seq(Wires) /\ Measured(high, "hops")
             /\ ToSet(high) = {e \in ToSet(edges) : \A v \in HeightsAt(e, heights) : Passes(v, t)}
<1> DEFINE tall == {e \in ToSet(edges) : Passes(e.height, t) /\ \A n \in Pair(e) : Passes(heights[n], t)}
           high == Only(edges, tall)
<1>1. High(edges, heights, t) = high
  BY DEF High
<1>2. tall = {e \in ToSet(edges) : \A v \in HeightsAt(e, heights) : Passes(v, t)}
  BY DEF HeightsAt
<1>3. tall \subseteq ToSet(edges)
  OBVIOUS
<1> HIDE DEF tall
<1>4. high \in Seq(Wires) /\ ToSet(high) = tall
  <2>1. Only(edges, tall) \in Seq(Wires) /\ ToSet(Only(edges, tall)) = ToSet(edges) \cap tall
    BY OnlyOf
  <2> QED
    BY <1>3, <2>1
<1> HIDE DEF high
<1>5. \A k \in DOMAIN high : high[k] \in Wires
  BY <1>4, LenProperties, ElementOfSeq
<1>6. Measured(high, "hops")
  BY <1>5 DEF Measured, WiresOf, Wires, Weight
<1> QED
  BY <1>1, <1>2, <1>4, <1>6

\* The route at a height: there is none only if the rooms are not joined by what is high enough, and
\* it joins them.
LEMMA RouteAtHeightOf ==
  ASSUME NEW edges \in Seq(Wires), NEW heights, NEW t, NEW from \in Nodes, NEW to \in Nodes, from # to
  PROVE  LET high == High(edges, heights, t)
             route == RouteAtHeight(edges, heights, from, to, t)
         IN  /\ route = Nothing => ~Joined(high, from, to)
             /\ route # Nothing => ToSet(route) \subseteq ToSet(high) /\ Joined(route, from, to)
<1> DEFINE high == High(edges, heights, t)
           walk == WalkedBack(high, BreadthFirst(high, from, to).via, from, to)
           on == [i \in DOMAIN walk |-> high[walk[i]]]
<1>1. RouteAtHeight(edges, heights, from, to, t) = IF ~Passes(heights[from], t) \/ walk = Nothing THEN Nothing ELSE on
  BY DEF RouteAtHeight
<1>2. /\ high \in Seq(Wires) /\ Measured(high, "hops")
      /\ ToSet(high) = {e \in ToSet(edges) : \A v \in HeightsAt(e, heights) : Passes(v, t)}
  BY HighOf
<1> HIDE DEF high
<1>3. /\ walk = Nothing => ~Joined(high, from, to)
      /\ walk # Nothing => walk \in Seq(DOMAIN high) /\ Leads(high, walk, from, to)
  BY <1>2, BreadthFirstOf
<1> HIDE DEF walk
<1>4. Joined(high, from, to) => Passes(heights[from], t)
  <2> SUFFICES ASSUME Joined(high, from, to) PROVE Passes(heights[from], t)
    OBVIOUS
  <2>1. {from} \in SUBSET Nodes /\ from \in {from} /\ to \notin {from}
    OBVIOUS
  <2>2. PICK k \in DOMAIN high : Pair(high[k]) \cap {from} \notin {{}, Pair(high[k])}
    BY <2>1 DEF Joined
  <2>3. from \in Pair(high[k]) /\ high[k] \in ToSet(high)
    BY <2>2 DEF ToSet
  <2>4. heights[from] \in HeightsAt(high[k], heights)
    BY <2>3 DEF HeightsAt
  <2> QED
    BY <1>2, <2>3, <2>4
<1>5. CASE walk = Nothing
  BY <1>1, <1>3, <1>5 DEF high
<1>6. CASE walk # Nothing
  <2>1. ToSet(on) \subseteq ToSet(high)
    BY <1>2, <1>3, <1>6, EdgesLead
  <2>2. Joined(on, from, to)
    BY <1>2, <1>3, <1>6, WalkJoins
  <2>3. Joined(high, from, to)
    BY <2>1, <2>2, JoinedByMore
  <2>4. RouteAtHeight(edges, heights, from, to, t) = on
    BY <1>1, <1>4, <1>6, <2>3
  <2>5. on # Nothing
    <3>1. on \in Seq(Wires) /\ Wires \subseteq Facts
      BY <1>2, <1>3, <1>6, EdgesLead DEF Wires
    <3>2. on \in Seq(Facts)
      BY <3>1
    <3> HIDE DEF on
    <3> QED
      BY <3>2, MapAssumption
  <2> QED
    BY <2>1, <2>2, <2>4, <2>5 DEF high
<1> QED
  BY <1>5, <1>6

\* The heights there are: those known of an edge or of a room are among them, and they are finitely
\* many numbers.
LEMMA HeightsThereOf ==
  ASSUME NEW edges \in Seq(Wires), NEW heights \in [Nodes -> Sizes]
  PROVE  /\ HeightsThere(edges, heights) \in SUBSET Nat /\ IsFiniteSet(HeightsThere(edges, heights))
         /\ \A e \in ToSet(edges) : HeightsAt(e, heights) \subseteq HeightsThere(edges, heights) \cup {Nothing}
<1> DEFINE there == HeightsThere(edges, heights)
           ofRooms == {heights[n] : n \in Nodes}
           ofEdges == {e.height : e \in ToSet(edges)}
<1>1. \A e \in ToSet(edges) : e \in Wires /\ Pair(e) \subseteq Nodes /\ e.height \in Sizes
  <2> TAKE e \in ToSet(edges)
  <2>1. e \in Wires
    BY LenProperties, ElementOfSeq DEF ToSet
  <2> QED
    BY <2>1, MapAssumption DEF Wires, Wire, Pair, Sizes
<1>2. HeightsOf(ToSet(edges), heights) \subseteq ofEdges \cup ofRooms
  BY <1>1 DEF HeightsOf
<1>3. ofRooms \subseteq Sizes /\ ofEdges \subseteq Sizes
  BY <1>1
<1>4. IsFiniteSet(ofRooms)
  BY RoomsAreFinite, ValuesAreFinite
<1>5. IsFiniteSet(ofEdges)
  <2> DEFINE g == [k \in DOMAIN edges |-> edges[k].height]
  <2>1. IsFiniteSet(DOMAIN edges) /\ DOMAIN g = DOMAIN edges
    BY LenProperties, FS_Interval
  <2>2. IsFiniteSet({g[k] : k \in DOMAIN edges})
    <3> HIDE DEF g
    <3> QED
      BY <2>1, ValuesAreFinite
  <2>3. ofEdges = {g[k] : k \in DOMAIN edges}
    BY DEF ToSet
  <2> QED
    BY <2>2, <2>3
<1>6. there = (ofRooms \cup HeightsOf(ToSet(edges), heights)) \ {Nothing}
  BY DEF HeightsThere, Met
<1> HIDE DEF there, ofRooms, ofEdges
<1>7. there \subseteq (ofRooms \cup ofEdges) \ {Nothing}
  BY <1>2, <1>6
<1>8. there \in SUBSET Nat
  BY <1>3, <1>7 DEF Sizes
<1>9. IsFiniteSet(there)
  <2>1. IsFiniteSet(ofRooms \cup ofEdges)
    BY <1>4, <1>5, FS_Union
  <2> QED
    BY <1>7, <2>1, FS_Subset
<1>10. ASSUME NEW e \in ToSet(edges) PROVE HeightsAt(e, heights) \subseteq there \cup {Nothing}
  <2>1. HeightsAt(e, heights) \subseteq HeightsOf(ToSet(edges), heights)
    BY DEF HeightsAt, HeightsOf
  <2> QED
    BY <1>6, <2>1
<1> QED
  BY <1>8, <1>9, <1>10 DEF there

\* Rooms are joined at a height exactly if what is high enough for it joins them.
LEMMA HeightsJoinedOf ==
  ASSUME NEW edges \in Seq(Wires), NEW heights \in [Nodes -> Sizes], NEW from \in Nodes, NEW to \in Nodes, from # to
  PROVE  LET joined == HeightsJoined(edges, heights, from, to)
             there == HeightsThere(edges, heights)
         IN  /\ joined = {t \in there : Joined(High(edges, heights, t), from, to)}
             /\ joined # {} => /\ Max(joined) \in joined /\ Max(joined) \in Nat
                               /\ \A t \in joined : Max(joined) >= t
<1> DEFINE joined == HeightsJoined(edges, heights, from, to)
           there == HeightsThere(edges, heights)
<1>1. \A t : RouteAtHeight(edges, heights, from, to, t) # Nothing <=> Joined(High(edges, heights, t), from, to)
  <2> TAKE t
  <2> DEFINE route == RouteAtHeight(edges, heights, from, to, t)
             high == High(edges, heights, t)
  <2>1. /\ route = Nothing => ~Joined(high, from, to)
        /\ route # Nothing => ToSet(route) \subseteq ToSet(high) /\ Joined(route, from, to)
    BY RouteAtHeightOf
  <2> HIDE DEF route, high
  <2>2. route # Nothing => Joined(high, from, to)
    BY <2>1, JoinedByMore
  <2> QED
    BY <2>1, <2>2 DEF route, high
<1>2. joined = {t \in there : Joined(High(edges, heights, t), from, to)}
  BY <1>1 DEF HeightsJoined
<1>3. there \in SUBSET Nat /\ IsFiniteSet(there)
  BY HeightsThereOf
<1> HIDE DEF there, joined
<1>4. joined \in SUBSET Nat /\ IsFiniteSet(joined)
  BY <1>2, <1>3, FS_Subset
<1>5. joined # {} => Max(joined) \in joined /\ \A t \in joined : Max(joined) >= t
  BY <1>4, Highest
<1> QED
  BY <1>2, <1>4, <1>5 DEF joined, there

\* Between two rooms the lowest height on the route at the greatest height that joins them is a
\* limit: they are joined by what is high enough for an object, if it is and they are joined at
\* all; and where every height is known, only if it is.
LEMMA TallestBetweenIsTrue ==
  ASSUME NEW edges \in Seq(Wires), NEW heights \in [Nodes -> Sizes], NEW h \in Nat,
         NEW from \in Nodes, NEW to \in Nodes, from # to
  PROVE  LET tallest == TallestBetween(edges, heights, from, to)
             tall == Joined(High(edges, heights, h), from, to)
         IN  /\ Joined(edges, from, to) /\ Passes(tallest, h) => tall
             /\ tall /\ (\A e \in ToSet(edges) : Nothing \notin HeightsAt(e, heights)) => Passes(tallest, h)
<1> DEFINE there == HeightsThere(edges, heights)
           joined == HeightsJoined(edges, heights, from, to)
           tallest == TallestBetween(edges, heights, from, to)
           high == High(edges, heights, h)
           top == Max(joined)
           route == RouteAtHeight(edges, heights, from, to, top)
           met == Met(HeightsOf(ToSet(route), heights))
           Of(e) == HeightsAt(e, heights)
<1>1. tallest = IF joined = {} \/ met = {} THEN Nothing ELSE Min(met)
  BY DEF TallestBetween, LowestOn
<1>2. \A t : ToSet(High(edges, heights, t)) = {e \in ToSet(edges) : \A v \in Of(e) : Passes(v, t)}
  BY HighOf
<1>3. there \in SUBSET Nat /\ \A e \in ToSet(edges) : Of(e) \subseteq there \cup {Nothing}
  BY HeightsThereOf
<1>4. /\ joined = {t \in there : Joined(High(edges, heights, t), from, to)}
      /\ joined # {} => top \in joined /\ top \in Nat /\ \A t \in joined : top >= t
  BY HeightsJoinedOf
<1>5. joined # {} => ToSet(route) \subseteq ToSet(High(edges, heights, top)) /\ Joined(route, from, to)
  <2>1. joined # {} => route # Nothing
    BY <1>4 DEF HeightsJoined
  <2> QED
    BY <2>1, RouteAtHeightOf
<1>6. met = (UNION {Of(e) : e \in ToSet(route)}) \ {Nothing}
  BY DEF Met, HeightsOf, HeightsAt
<1>7. \A e \in ToSet(route) : Of(e) \subseteq met \cup {Nothing}
  BY <1>6
<1> HIDE DEF there, joined, tallest, route, top, met, Of
<1>8. joined # {} /\ met # {} => /\ tallest \in met /\ \A v \in met : v \in Nat /\ tallest <= v
                                 /\ \A v \in met : v >= top
  <2> SUFFICES ASSUME joined # {}, met # {} PROVE /\ tallest \in met /\ \A v \in met : v \in Nat /\ tallest <= v
                                                  /\ \A v \in met : v >= top
    OBVIOUS
  <2>1. \A v \in met : v \in Nat /\ v >= top
    <3> TAKE v \in met
    <3>1. PICK e \in ToSet(route) : v \in Of(e) /\ v # Nothing
      BY <1>6
    <3>2. e \in ToSet(edges) /\ Passes(v, top)
      BY <1>2, <1>5, <3>1
    <3>3. v \in Nat
      BY <1>3, <3>1, <3>2
    <3>4. top # Nothing
      BY <1>4, MapAssumption
    <3> QED
      BY <3>1, <3>2, <3>3, <3>4 DEF Passes
  <2>2. met \in SUBSET Nat
    BY <2>1
  <2> QED
    BY <1>1, <2>1, <2>2, Lowest
<1>9. Nothing \notin Nat
  BY MapAssumption
<1>10. ASSUME Joined(edges, from, to), Passes(tallest, h) PROVE Joined(high, from, to)
  <2>1. CASE joined = {}
    <3>1. there = {}
      <4> SUFFICES ASSUME there # {} PROVE FALSE
        OBVIOUS
      <4> DEFINE m == Min(there)
      <4>1. m \in there /\ \A v \in there : m <= v
        BY <1>3, Lowest
      <4> HIDE DEF m
      <4>2. \A e \in ToSet(edges) : \A v \in Of(e) : Passes(v, m)
        BY <1>3, <4>1 DEF Passes
      <4>3. ToSet(edges) \subseteq ToSet(High(edges, heights, m))
        BY <1>2, <4>2
      <4>4. Joined(High(edges, heights, m), from, to)
        BY <1>10, <4>3, JoinedByMore
      <4> QED
        BY <1>4, <2>1, <4>1, <4>4
    <3>2. ToSet(edges) \subseteq ToSet(high)
      BY <1>2, <1>3, <3>1 DEF Passes
    <3> QED
      BY <1>10, <3>2, JoinedByMore
  <2>2. CASE joined # {}
    <3>1. \A e \in ToSet(route) : \A v \in Of(e) : Passes(v, h)
      <4> SUFFICES ASSUME NEW v \in met PROVE v >= h
        BY <1>7 DEF Passes
      <4>1. tallest \in met /\ tallest <= v /\ v \in Nat /\ tallest \in Nat
        BY <1>8, <2>2
      <4>2. tallest >= h
        BY <1>9, <1>10, <4>1 DEF Passes
      <4> QED
        BY <4>1, <4>2
    <3>2. ToSet(route) \subseteq ToSet(high)
      BY <1>2, <1>5, <2>2, <3>1
    <3> QED
      BY <1>5, <2>2, <3>2, JoinedByMore
  <2> QED
    BY <2>1, <2>2
<1>11. ASSUME Joined(high, from, to), \A e \in ToSet(edges) : Nothing \notin Of(e) PROVE Passes(tallest, h)
  <2> DEFINE above == {v \in there : v >= h}
             m == Min(above)
  <2>1. PICK e \in ToSet(high) : TRUE
    <3>1. {from} \in SUBSET Nodes /\ from \in {from} /\ to \notin {from}
      OBVIOUS
    <3>2. PICK k \in DOMAIN high : TRUE
      BY <1>11, <3>1 DEF Joined
    <3> QED
      BY <3>2 DEF ToSet
  <2>2. \A d \in ToSet(high) : d \in ToSet(edges) /\ Of(d) \subseteq above
    <3> TAKE d \in ToSet(high)
    <3>1. d \in ToSet(edges) /\ \A v \in Of(d) : Passes(v, h)
      BY <1>2
    <3>2. \A v \in Of(d) : v \in there /\ v # Nothing
      BY <1>3, <1>11, <3>1
    <3> QED
      BY <1>9, <3>1, <3>2 DEF Passes
  <2>3. e.height \in Of(e)
    BY DEF Of, HeightsAt
  <2>4. m \in above /\ \A v \in above : m <= v
    <3>1. above \in SUBSET Nat /\ above # {}
      BY <1>3, <2>1, <2>2, <2>3
    <3> QED
      BY <3>1, Lowest
  <2>5. m \in there /\ m >= h
    BY <2>4
  <2> HIDE DEF above, m
  <2>6. \A d \in ToSet(high) : \A v \in Of(d) : Passes(v, m)
    <3> TAKE d \in ToSet(high)
    <3> TAKE v \in Of(d)
    <3>1. m <= v /\ v \in Nat /\ m \in Nat
      BY <1>3, <2>2, <2>4, <2>5 DEF above
    <3> QED
      BY <3>1 DEF Passes
  <2>7. ToSet(high) \subseteq ToSet(High(edges, heights, m))
    BY <1>2, <2>2, <2>6
  <2>8. Joined(High(edges, heights, m), from, to)
    BY <1>11, <2>7, JoinedByMore
  <2>9. m \in joined /\ top >= m /\ top \in Nat /\ m \in Nat
    BY <1>3, <1>4, <2>5, <2>8
  <2>10. CASE met = {}
    BY <1>1, <2>10 DEF Passes
  <2>11. CASE met # {}
    <3>1. tallest \in met /\ tallest \in Nat /\ tallest >= top
      BY <1>8, <2>9, <2>11
    <3> QED
      BY <2>5, <2>9, <3>1 DEF Passes
  <2> QED
    BY <2>10, <2>11
<1> QED
  BY <1>10, <1>11 DEF tallest, Of

\* Whatever rooms there are and whatever doors, zones, links and passages a read finds: an object
\* gets through below the height an answer gives as the limit, and where every height is known it
\* does not above it.
THEOREM HeightLimitsHold == MapSpec => []HeightLimitsAreTrue
<1>1. MapReadFits => HeightLimitsAreTrue
  <2> SUFFICES ASSUME MapReadFits, asked # Nothing, asked.from # asked.to PROVE HeightLimitsAreTrue
    BY DEF HeightLimitsAreTrue
  <2> DEFINE edges == EdgesOf(asked.facts)
             from == asked.from
             to == asked.to
             heights == asked.heights
             fit == asked.fit
             byHeight == [fit EXCEPT !.width = Nothing]
             high == High(edges, heights, fit.height)
             tallest == TallestBetween(edges, heights, from, to)
             tall == Joined(high, from, to)
  <2>1. edges \in Seq(Wires)
    BY EdgesAreWires DEF MapReadFits
  <2>2. /\ from \in Nodes /\ to \in Nodes /\ from # to
        /\ fit \in [width : Sizes, height : Sizes] /\ heights \in [Nodes -> Sizes]
    BY DEF MapReadFits
  <2>3. answer.tallest = IF fit.height = Nothing THEN Nothing ELSE tallest
    <3>1. answer = AnswerTo(asked)
      BY DEF MapReadFits
    <3> QED
      BY <3>1 DEF AnswerTo
  <2>4. Through(byHeight) <=> tall
    <3>1. byHeight.width = Nothing /\ byHeight.height = fit.height
      BY <2>2
    <3> HIDE DEF byHeight
    <3>2. Routable(edges, heights, byHeight) = high
      BY <3>1 DEF Routable, High, Passable, Passes
    <3> QED
      BY <3>2 DEF Through
  <2> DEFINE unknown == \/ \E n \in Nodes : heights[n] = Nothing
                        \/ \E k \in DOMAIN edges : edges[k].height = Nothing
  <2>5. ~unknown => \A e \in ToSet(edges) : Nothing \notin HeightsAt(e, heights)
    <3> SUFFICES ASSUME ~unknown, NEW k \in DOMAIN edges PROVE Nothing \notin HeightsAt(edges[k], heights)
      BY DEF ToSet
    <3>1. edges[k] \in Wires
      BY <2>1, LenProperties, ElementOfSeq
    <3>2. Pair(edges[k]) \subseteq Nodes
      BY <3>1 DEF Wires, Wire, Pair
    <3> QED
      BY <3>2 DEF HeightsAt
  <2> HIDE DEF edges, from, to, heights, fit
  <2>6. /\ Joined(edges, from, to) /\ Passes(answer.tallest, fit.height) => tall
        /\ ~unknown /\ tall => Passes(answer.tallest, fit.height)
    <3>1. CASE fit.height = Nothing
      <4>1. ToSet(edges) \subseteq ToSet(high)
        BY <2>1, <3>1, HighOf DEF Passes
      <4> QED
        BY <2>3, <3>1, <4>1, JoinedByMore DEF Passes
    <3>2. CASE fit.height # Nothing
      <4>1. fit.height \in Nat
        BY <2>2, <3>2 DEF Sizes
      <4> QED
        BY <2>1, <2>2, <2>3, <2>5, <3>2, <4>1, TallestBetweenIsTrue
    <3> QED
      BY <3>1, <3>2
  <2> QED
    BY <2>4, <2>6 DEF HeightLimitsAreTrue, edges, from, to, heights, fit, byHeight
<1> QED
  BY <1>1, ReadsFit, PTL

\* Both limits of an answer are true of the rooms, the doors and the object asked about.
THEOREM LimitsHold == MapSpec => []LimitsAreTrue
<1>1. WidthLimitsAreTrue /\ HeightLimitsAreTrue => LimitsAreTrue
  BY DEF LimitsAreTrue
<1> QED
  BY <1>1, WidthLimitsHold, HeightLimitsHold, PTL

-----------------------------------------------------------------------------
(* Snapshot ids: the order of their bytes *)

\* s comes first in the order of strings.
LexLess(s, t) ==
  \E n \in 0..Len(s) :
    /\ n < Len(t) /\ \A i \in 1..n : s[i] = t[i]
    /\ n = Len(s) \/ s[n + 1] < t[n + 1]

\* The order of strings is strict, transitive and total.
LEMMA LexIsStrict ==
  ASSUME NEW s \in Seq(Nat)
  PROVE  ~LexLess(s, s)
<1>1. Len(s) \in Nat /\ \A n \in 0..Len(s) : n < Len(s) => s[n + 1] \in Nat
  BY ElementOfSeq
<1> QED
  BY <1>1 DEF LexLess

LEMMA LexGoesOn ==
  ASSUME NEW s \in Seq(Nat), NEW t \in Seq(Nat), NEW u \in Seq(Nat), LexLess(s, t), LexLess(t, u)
  PROVE  LexLess(s, u)
<1>1. /\ Len(s) \in Nat /\ Len(t) \in Nat /\ Len(u) \in Nat
      /\ \A i \in 1..Len(s) : s[i] \in Nat
      /\ \A i \in 1..Len(t) : t[i] \in Nat
      /\ \A i \in 1..Len(u) : u[i] \in Nat
  BY ElementOfSeq
<1>2. PICK n \in 0..Len(s) : /\ n < Len(t) /\ \A i \in 1..n : s[i] = t[i]
                             /\ n = Len(s) \/ s[n + 1] < t[n + 1]
  BY DEF LexLess
<1>3. PICK m \in 0..Len(t) : /\ m < Len(u) /\ \A i \in 1..m : t[i] = u[i]
                             /\ m = Len(t) \/ t[m + 1] < u[m + 1]
  BY DEF LexLess
<1>4. CASE n < m
  <2>1. n < Len(u) /\ n + 1 \in 1..m /\ \A i \in 1..n : i \in 1..m
    BY <1>1, <1>2, <1>3, <1>4
  <2>2. t[n + 1] = u[n + 1] /\ \A i \in 1..n : s[i] = u[i]
    BY <1>2, <1>3, <2>1
  <2> QED
    BY <1>2, <2>1, <2>2 DEF LexLess
<1>5. CASE m < n
  <2>1. m \in Nat /\ n \in Nat /\ n <= Len(s) /\ n < Len(t)
    BY <1>1, <1>2
  <2>3. m \in 0..Len(s) /\ m + 1 \in 1..n /\ m # Len(t) /\ \A i \in 1..m : i \in 1..n
    BY <1>1, <1>5, <2>1
  <2>2. s[m + 1] < u[m + 1] /\ \A i \in 1..m : s[i] = u[i]
    BY <1>2, <1>3, <2>3
  <2> QED
    BY <1>3, <2>2, <2>3 DEF LexLess
<1>6. CASE m = n
  <2>1. t[n + 1] < u[n + 1] /\ \A i \in 1..n : s[i] = u[i]
    BY <1>1, <1>2, <1>3, <1>6
  <2>2. n + 1 \in 1..Len(t) /\ n + 1 \in 1..Len(u)
    BY <1>1, <1>2, <1>3, <1>6
  <2>3. n = Len(s) \/ s[n + 1] < u[n + 1]
    <3> SUFFICES ASSUME n # Len(s) PROVE s[n + 1] < u[n + 1]
      OBVIOUS
    <3>1. n + 1 \in 1..Len(s)
      BY <1>1
    <3>2. s[n + 1] \in Nat /\ t[n + 1] \in Nat /\ u[n + 1] \in Nat
      BY <1>1, <2>2, <3>1
    <3>3. s[n + 1] < t[n + 1] /\ t[n + 1] < u[n + 1]
      BY <1>2, <2>1
    <3>4. \A a, b, c \in Nat : a < b /\ b < c => a < c
      OBVIOUS
    <3> QED
      BY <3>2, <3>3, <3>4, Zenon
  <2> QED
    BY <1>2, <1>3, <1>6, <2>1, <2>3 DEF LexLess
<1> QED
  BY <1>1, <1>4, <1>5, <1>6

LEMMA LexTells ==
  ASSUME NEW s \in Seq(Nat), NEW t \in Seq(Nat), s # t
  PROVE  LexLess(s, t) \/ LexLess(t, s)
<1>1. /\ Len(s) \in Nat /\ Len(t) \in Nat
      /\ \A i \in 1..Len(s) : s[i] \in Nat
      /\ \A i \in 1..Len(t) : t[i] \in Nat
  BY ElementOfSeq
<1> DEFINE Apart == {n \in Nat : n >= Len(s) \/ n >= Len(t) \/ s[n + 1] # t[n + 1]}
<1>2. PICK n \in Apart : \A m \in Apart : n <= m
  <2>1. Len(s) \in Apart /\ Apart \in SUBSET Nat
    BY <1>1
  <2> HIDE DEF Apart
  <2> QED
    BY <2>1, LeastNumber
<1>3. n \in Nat /\ n <= Len(s) /\ n <= Len(t)
  BY <1>1, <1>2
<1>4. ASSUME NEW i \in 1..n PROVE s[i] = t[i]
  <2>1. i - 1 \in Nat /\ i - 1 < n /\ (i - 1) + 1 = i
    BY <1>3
  <2>2. i - 1 \notin Apart
    <3> HIDE DEF Apart
    <3> QED
      BY <1>2, <1>3, <2>1
  <2> QED
    BY <2>1, <2>2
<1>5. CASE n = Len(s) /\ n = Len(t)
  <2>1. s = t
    BY <1>1, <1>4, <1>5, SeqEqual
  <2> QED
    BY <2>1
<1>6. CASE n = Len(s) /\ n < Len(t)
  BY <1>3, <1>4, <1>6 DEF LexLess
<1>7. CASE n < Len(s) /\ n = Len(t)
  BY <1>3, <1>4, <1>7 DEF LexLess
<1>8. CASE n < Len(s) /\ n < Len(t)
  <2>1. s[n + 1] # t[n + 1]
    BY <1>2, <1>3, <1>1, <1>8
  <2>2. n + 1 \in 1..Len(s) /\ n + 1 \in 1..Len(t)
    BY <1>1, <1>3, <1>8
  <2>3. s[n + 1] < t[n + 1] \/ t[n + 1] < s[n + 1]
    BY <1>1, <2>1, <2>2
  <2> QED
    BY <1>1, <1>3, <1>4, <1>8, <2>3 DEF LexLess
<1> QED
  BY <1>1, <1>3, <1>5, <1>6, <1>7, <1>8


-----------------------------------------------------------------------------
(* The text of an id *)

\* The end of an id: nothing, or 46 (a full stop) and a code for each digit.
LEMMA FractionFits ==
  ASSUME NEW id \in Id
  PROVE  /\ Fraction(id) \in Seq(Nat)
         /\ id.fraction \in Seq(0..9) /\ Len(id.fraction) \in Nat /\ DOMAIN id.fraction = 1..Len(id.fraction)
         /\ \A i \in 1..Len(id.fraction) : id.fraction[i] \in 0..9
         /\ id.fraction = <<>> => Fraction(id) = <<>> /\ Len(Fraction(id)) = 0
         /\ id.fraction # <<>> =>
              /\ Len(id.fraction) > 0 /\ Len(Fraction(id)) = Len(id.fraction) + 1 /\ Fraction(id)[1] = 46
              /\ \A i \in 1..Len(id.fraction) : Fraction(id)[i + 1] = 48 + id.fraction[i]
<1> DEFINE f == id.fraction
           n == Len(f)
           g == [i \in DOMAIN f |-> 48 + f[i]]
<1>1. f \in Seq(0..9)
  BY DEF Id
<1>2. n \in Nat /\ DOMAIN f = 1..n /\ \A i \in 1..n : f[i] \in 0..9
  BY <1>1, ElementOfSeq, LenProperties
<1>3. f # <<>> => n > 0
  BY <1>1, EmptySeq
<1> HIDE DEF f, n
<1>4. g \in [1..n -> Nat] /\ \A i \in 1..n : g[i] = 48 + f[i]
  BY <1>2
<1>5. g \in Seq(Nat) /\ Len(g) = n
  BY <1>2, <1>4
<1> HIDE DEF g
<1>6. <<46>> \in Seq(Nat) /\ Len(<<46>>) = 1 /\ <<46>>[1] = 46
  OBVIOUS
<1> DEFINE h == <<46>> \o g
<1>7. /\ h \in Seq(Nat) /\ Len(h) = 1 + n
      /\ \A i \in 1..1 + n : h[i] = IF i <= 1 THEN <<46>>[i] ELSE g[i - 1]
  BY <1>5, <1>6, ConcatProperties
<1> HIDE DEF h
<1>8. h[1] = 46 /\ \A i \in 1..n : h[i + 1] = 48 + f[i]
  <2>1. 1 \in 1..1 + n /\ h[1] = <<46>>[1]
    BY <1>2, <1>7
  <2>2. ASSUME NEW i \in 1..n PROVE h[i + 1] = 48 + f[i]
    <3>1. i + 1 \in 1..1 + n /\ ~(i + 1 <= 1) /\ (i + 1) - 1 = i
      BY <1>2
    <3> QED
      BY <1>4, <1>7, <3>1
  <2> QED
    BY <1>6, <2>1, <2>2
<1>9. Fraction(id) = IF f = <<>> THEN <<>> ELSE h
  BY DEF Fraction, f, g, h
<1>10. <<>> \in Seq(Nat) /\ Len(<<>>) = 0
  OBVIOUS
<1>11. CASE f = <<>>
  BY <1>1, <1>2, <1>9, <1>10, <1>11 DEF f, n
<1>12. CASE f # <<>>
  <2>1. Fraction(id) = h
    BY <1>9, <1>12
  <2>2. n + 1 = 1 + n
    BY <1>2
  <2> QED
    BY <1>1, <1>2, <1>3, <1>7, <1>8, <1>12, <2>1, <2>2 DEF f, n
<1> QED
  BY <1>11, <1>12

\* The fields of an id are numbers.
LEMMA IdFields ==
  ASSUME NEW id \in Id
  PROVE  /\ id.day \in Nat /\ id.separator \in Nat /\ id.hour \in Nat /\ id.mark \in Nat /\ id.rest \in Nat
         /\ id.zone.code \in Nat /\ id.zone.offset \in Nat
         /\ id.hour < 24 /\ id.rest < 3600
<1>1. id.day \in Nat
  BY DEF Id
<1>2. id.separator \in Separators
  BY DEF Id
<1>3. id.hour \in 0..23
  BY DEF Id
<1>4. id.mark \in {Colon, Dash}
  BY DEF Id
<1>5. id.rest \in 0..3599
  BY DEF Id
<1>6. id.zone \in [code : ZoneCodes, offset : 0..1439]
  BY DEF Id
<1>7. id.zone.code \in ZoneCodes /\ id.zone.offset \in 0..1439
  BY <1>6
<1>8. id.separator \in Nat /\ id.mark \in Nat
  BY <1>2, <1>4 DEF Separators, Colon, Dash
<1>9. id.zone.code \in Nat
  BY <1>7 DEF ZoneCodes
<1>10. id.hour \in Nat
  BY <1>3
<1> DEFINE rest == id.rest
           offset == id.zone.offset
<1>11. rest \in 0..3599 /\ offset \in 0..1439
  BY <1>5, <1>7
<1> HIDE DEF rest, offset
<1>12. rest \in Nat /\ rest < 3600 /\ offset \in Nat
  BY <1>11
<1> QED
  BY <1>1, <1>3, <1>8, <1>9, <1>10, <1>12 DEF rest, offset

\* Records with the same fields are the same.
LEMMA SameFields ==
  ASSUME NEW A, NEW B, NEW C, NEW D, NEW E, NEW F, NEW G,
         NEW r \in [day : A, separator : B, hour : C, mark : D, rest : E, fraction : F, zone : G],
         NEW s \in [day : A, separator : B, hour : C, mark : D, rest : E, fraction : F, zone : G],
         r.day = s.day, r.separator = s.separator, r.hour = s.hour, r.mark = s.mark, r.rest = s.rest,
         r.fraction = s.fraction, r.zone = s.zone
  PROVE  r = s
OBVIOUS

\* What two sequences put together are.
LEMMA JoinedFit ==
  ASSUME NEW s \in Seq(Nat), NEW t \in Seq(Nat), NEW m \in Nat, m = Len(s), NEW n \in Nat, n = Len(t)
  PROVE  /\ s \o t \in Seq(Nat) /\ Len(s \o t) = m + n
         /\ \A i \in 1..m + n : (s \o t)[i] = IF i <= m THEN s[i] ELSE t[i - m]
BY ConcatProperties

\* The characters of an id, by their places.
LEMMA TextFits ==
  ASSUME NEW id \in Id
  PROVE  /\ Text(id) \in Seq(Nat) /\ Len(Fraction(id)) \in Nat /\ Len(Text(id)) = Len(Fraction(id)) + 7
         /\ Text(id)[1] = id.day /\ Text(id)[2] = id.separator /\ Text(id)[3] = id.hour
         /\ Text(id)[4] = id.mark /\ Text(id)[5] = id.rest
         /\ \A i \in 1..Len(Fraction(id)) : Text(id)[i + 5] = Fraction(id)[i]
         /\ Text(id)[Len(Fraction(id)) + 6] = id.zone.code /\ Text(id)[Len(Fraction(id)) + 7] = id.zone.offset
<1> DEFINE f == Fraction(id)
           k == Len(f)
           a == <<id.day, id.separator, id.hour, id.mark, id.rest>>
           b == <<id.zone.code, id.zone.offset>>
           c == a \o f
<1>1. f \in Seq(Nat) /\ k \in Nat
  BY FractionFits, LenProperties
<1>2. /\ id.day \in Nat /\ id.separator \in Nat /\ id.hour \in Nat /\ id.mark \in Nat /\ id.rest \in Nat
      /\ id.zone.code \in Nat /\ id.zone.offset \in Nat
  BY IdFields
<1>3. /\ a \in Seq(Nat) /\ Len(a) = 5
      /\ a[1] = id.day /\ a[2] = id.separator /\ a[3] = id.hour /\ a[4] = id.mark /\ a[5] = id.rest
  BY <1>2
<1>4. b \in Seq(Nat) /\ Len(b) = 2 /\ b[1] = id.zone.code /\ b[2] = id.zone.offset
  BY <1>2
<1>5. Text(id) = (a \o f) \o b
  BY DEF Text
<1> HIDE DEF a, b, f
<1>6. c \in Seq(Nat) /\ Len(c) = 5 + k /\ \A i \in 1..5 + k : c[i] = IF i <= 5 THEN a[i] ELSE f[i - 5]
  <2> HIDE DEF k
  <2>1. k = Len(f)
    BY DEF k
  <2> QED
    BY <1>1, <1>3, <2>1, JoinedFit, 5 \in Nat
<1> HIDE DEF c, k
<1>7. /\ c \o b \in Seq(Nat) /\ Len(c \o b) = (5 + k) + 2
      /\ \A i \in 1..(5 + k) + 2 : (c \o b)[i] = IF i <= 5 + k THEN c[i] ELSE b[i - (5 + k)]
  <2> DEFINE m == 5 + k
             n == 2
  <2>1. m \in Nat /\ n \in Nat /\ m = Len(c) /\ n = Len(b) /\ c \in Seq(Nat) /\ b \in Seq(Nat)
    BY <1>1, <1>4, <1>6
  <2> HIDE DEF m, n
  <2>2. /\ c \o b \in Seq(Nat) /\ Len(c \o b) = m + n
        /\ \A i \in 1..m + n : (c \o b)[i] = IF i <= m THEN c[i] ELSE b[i - m]
    BY <2>1, JoinedFit
  <2> QED
    BY <2>2 DEF m, n
<1>8. ASSUME NEW i \in 1..5 PROVE (c \o b)[i] = a[i]
  <2>1. i \in 1..5 + k /\ i \in 1..(5 + k) + 2 /\ i <= 5 + k /\ i <= 5
    BY <1>1
  <2> QED
    BY <1>6, <1>7, <2>1
<1>9. ASSUME NEW i \in 1..k PROVE (c \o b)[i + 5] = f[i]
  <2>1. i + 5 \in 1..5 + k /\ i + 5 \in 1..(5 + k) + 2 /\ i + 5 <= 5 + k /\ ~(i + 5 <= 5) /\ (i + 5) - 5 = i
    BY <1>1
  <2> QED
    BY <1>6, <1>7, <2>1
<1>10. (c \o b)[k + 6] = b[1] /\ (c \o b)[k + 7] = b[2]
  <2>1. /\ k + 6 \in 1..(5 + k) + 2 /\ ~(k + 6 <= 5 + k) /\ (k + 6) - (5 + k) = 1
        /\ k + 7 \in 1..(5 + k) + 2 /\ ~(k + 7 <= 5 + k) /\ (k + 7) - (5 + k) = 2
    BY <1>1
  <2> QED
    BY <1>7, <2>1
<1>11. Text(id) = c \o b
  BY <1>5 DEF c
<1>12. (5 + k) + 2 = k + 7
  BY <1>1
<1>13. /\ Text(id)[1] = id.day /\ Text(id)[2] = id.separator /\ Text(id)[3] = id.hour
       /\ Text(id)[4] = id.mark /\ Text(id)[5] = id.rest
  <2>1. 1 \in 1..5 /\ 2 \in 1..5 /\ 3 \in 1..5 /\ 4 \in 1..5 /\ 5 \in 1..5
    OBVIOUS
  <2>2. \A i \in 1..5 : Text(id)[i] = a[i]
    BY <1>8, <1>11
  <2> QED
    BY <1>3, <2>1, <2>2
<1>14. Text(id)[k + 6] = id.zone.code /\ Text(id)[k + 7] = id.zone.offset
  BY <1>4, <1>10, <1>11
<1>15. Text(id) \in Seq(Nat) /\ Len(Text(id)) = k + 7
  BY <1>7, <1>11, <1>12
<1>16. \A i \in 1..k : Text(id)[i + 5] = f[i]
  BY <1>9, <1>11
<1> QED
  BY <1>1, <1>13, <1>14, <1>15, <1>16 DEF k, f

\* An id can be read off its text.
LEMMA TextTells ==
  ASSUME NEW a \in Id, NEW b \in Id, Text(a) = Text(b)
  PROVE  a = b
<1> DEFINE f == Fraction(a)
           g == Fraction(b)
           k == Len(f)
<1>1. k \in Nat /\ Len(Text(a)) = k + 7 /\ Len(Text(b)) = Len(g) + 7 /\ Len(g) \in Nat
  BY TextFits
<1>2. k = Len(g)
  BY <1>1
<1>3. /\ a.day = b.day /\ a.separator = b.separator /\ a.hour = b.hour /\ a.mark = b.mark /\ a.rest = b.rest
      /\ a.zone.code = b.zone.code /\ a.zone.offset = b.zone.offset
  <2>1. \A id \in Id :
          /\ Text(id)[1] = id.day /\ Text(id)[2] = id.separator /\ Text(id)[3] = id.hour
          /\ Text(id)[4] = id.mark /\ Text(id)[5] = id.rest
    BY TextFits
  <2>2. Text(a)[k + 6] = a.zone.code /\ Text(a)[k + 7] = a.zone.offset
    BY TextFits
  <2>3. Text(b)[Len(g) + 6] = b.zone.code /\ Text(b)[Len(g) + 7] = b.zone.offset
    BY TextFits
  <2> HIDE DEF f, g, k
  <2> QED
    BY <1>2, <2>1, <2>2, <2>3
<1>4. \A i \in 1..k : f[i] = g[i]
  <2>1. (\A i \in 1..k : Text(a)[i + 5] = f[i]) /\ \A i \in 1..Len(g) : Text(b)[i + 5] = g[i]
    BY TextFits
  <2> HIDE DEF f, g, k
  <2> QED
    BY <1>2, <2>1
<1> HIDE DEF f, g, k
<1>5. a.fraction = b.fraction
  <2>1. CASE a.fraction = <<>>
    <3>1. k = 0
      BY <2>1, FractionFits DEF k, f
    <3>2. b.fraction = <<>>
      <4>1. b.fraction # <<>> => Len(b.fraction) \in Nat /\ Len(g) = Len(b.fraction) + 1
        BY FractionFits DEF g
      <4> QED
        BY <1>2, <3>1, <4>1
    <3> QED
      BY <2>1, <3>2
  <2>2. CASE a.fraction # <<>>
    <3>1. Len(a.fraction) \in Nat /\ Len(a.fraction) > 0 /\ k = Len(a.fraction) + 1
      BY <2>2, FractionFits DEF k, f
    <3>2. b.fraction # <<>>
      <4>1. b.fraction = <<>> => Len(g) = 0
        BY FractionFits DEF g
      <4> QED
        BY <1>2, <3>1, <4>1
    <3>3. Len(b.fraction) \in Nat /\ k = Len(b.fraction) + 1
      <4>1. Len(b.fraction) \in Nat /\ Len(g) = Len(b.fraction) + 1
        BY <3>2, FractionFits DEF g
      <4> QED
        BY <1>2, <4>1
    <3>4. Len(a.fraction) = Len(b.fraction)
      BY <3>1, <3>3
    <3>5. ASSUME NEW i \in 1..Len(a.fraction) PROVE a.fraction[i] = b.fraction[i]
      <4>1. i + 1 \in 1..k
        BY <3>1
      <4>2. f[i + 1] = 48 + a.fraction[i] /\ g[i + 1] = 48 + b.fraction[i]
        BY <2>2, <3>2, <3>4, FractionFits DEF f, g
      <4>3. a.fraction[i] \in 0..9 /\ b.fraction[i] \in 0..9
        BY <3>4, FractionFits
      <4> DEFINE x == a.fraction[i]
                 y == b.fraction[i]
      <4> HIDE DEF x, y
      <4>4. x \in Nat /\ y \in Nat /\ 48 + x = 48 + y
        <5>1. x \in 0..9 /\ y \in 0..9
          BY <4>3 DEF x, y
        <5>2. 48 + x = 48 + y
          BY <1>4, <4>1, <4>2, Zenon DEF x, y
        <5> QED
          BY <5>1, <5>2
      <4>5. x = y
        BY <4>4
      <4> QED
        BY <4>5 DEF x, y
    <3>6. a.fraction \in Seq(0..9) /\ b.fraction \in Seq(0..9)
      BY FractionFits
    <3> QED
      BY <3>4, <3>5, <3>6, SeqEqual
  <2> QED
    BY <2>1, <2>2
<1>6. a.zone = b.zone
  <2>1. a.zone \in [code : ZoneCodes, offset : 0..1439] /\ b.zone \in [code : ZoneCodes, offset : 0..1439]
    BY DEF Id
  <2> QED
    BY <1>3, <2>1
<1> DEFINE H == 0..23
           M == {Colon, Dash}
           R == 0..3599
           F == Seq(0..9)
           Z == [code : ZoneCodes, offset : 0..1439]
<1>7. Id = [day : Nat, separator : Separators, hour : H, mark : M, rest : R, fraction : F, zone : Z]
  BY DEF Id
<1> HIDE DEF H, M, R, F, Z
<1> QED
  BY <1>3, <1>5, <1>6, <1>7, SameFields

\* Ids are ordered by their texts, as strings are.
LEMMA BeforeOrders ==
  /\ \A a \in Id : ~Precedes(a, a)
  /\ \A a, b, c \in Id : Precedes(a, b) /\ Precedes(b, c) => Precedes(a, c)
  /\ \A a, b \in Id : a = b \/ Precedes(a, b) \/ Precedes(b, a)
<1>1. \A a, b : Precedes(a, b) <=> LexLess(Text(a), Text(b))
  BY DEF Precedes, LexLess
<1>2. \A a \in Id : Text(a) \in Seq(Nat)
  BY TextFits
<1>3. \A a \in Id : ~Precedes(a, a)
  BY <1>1, <1>2, LexIsStrict
<1>4. \A a, b, c \in Id : Precedes(a, b) /\ Precedes(b, c) => Precedes(a, c)
  BY <1>1, <1>2, LexGoesOn
<1>5. \A a, b \in Id : a = b \/ Precedes(a, b) \/ Precedes(b, a)
  BY <1>1, <1>2, LexTells, TextTells
<1> QED
  BY <1>3, <1>4, <1>5

\* Ids, if there are any, have a last one, and only one.
LEMMA LastOf ==
  ASSUME NEW S \in SUBSET Id, IsFiniteSet(S), S # {}
  PROVE  /\ Greatest(S) \in S /\ \A b \in S : b # Greatest(S) => Precedes(b, Greatest(S))
         /\ \A a \in S : (\A b \in S : b # a => Precedes(b, a)) => a = Greatest(S)
<1> DEFINE After(a) == {b \in S : Precedes(a, b)}
           Counts == {Cardinality(After(a)) : a \in S}
<1>1. \A a \in S : After(a) \in SUBSET S /\ IsFiniteSet(After(a)) /\ Cardinality(After(a)) \in Nat
  <2> TAKE a \in S
  <2>1. After(a) \in SUBSET S
    OBVIOUS
  <2> QED
    BY <2>1, FS_Subset, FS_CardinalityType
<1>2. PICK a \in S : \A b \in S : Cardinality(After(a)) <= Cardinality(After(b))
  <2>1. Counts \in SUBSET Nat /\ Counts # {}
    BY <1>1
  <2>2. PICK n \in Counts : \A m \in Counts : n <= m
    <3> HIDE DEF Counts
    <3> QED
      BY <2>1, LeastNumber
  <2> QED
    BY <2>2
<1>3. After(a) = {}
  <2> SUFFICES ASSUME NEW b \in After(a) PROVE FALSE
    OBVIOUS
  <2>1. After(b) \in SUBSET After(a) /\ b \notin After(b) /\ b \in S
    BY BeforeOrders
  <2> HIDE DEF After
  <2>2. Cardinality(After(b)) <= Cardinality(After(a)) /\ Cardinality(After(b)) # Cardinality(After(a))
    BY <1>1, <2>1, FS_Subset
  <2> QED
    BY <1>1, <1>2, <2>1, <2>2
<1>4. \A b \in S : b # a => Precedes(b, a)
  BY <1>3, BeforeOrders
<1>5. Greatest(S) \in S /\ \A b \in S \ {Greatest(S)} : Precedes(b, Greatest(S))
  <2>1. \E x \in S : \A b \in S \ {x} : Precedes(b, x)
    BY <1>4
  <2> QED
    BY <2>1 DEF Greatest
<1>6. ASSUME NEW c \in S, \A b \in S : b # c => Precedes(b, c) PROVE c = Greatest(S)
  <2> DEFINE l == Greatest(S)
  <2>1. l \in S /\ (l # c => Precedes(l, c) /\ Precedes(c, l))
    BY <1>5, <1>6
  <2> HIDE DEF l
  <2>2. l = c
    BY <2>1, BeforeOrders
  <2> QED
    BY <2>2 DEF l
<1> QED
  BY <1>5, <1>6

-----------------------------------------------------------------------------
(* Ids and the names of their files *)

\* A name differs from its id in the mark alone.
LEMMA NameFits ==
  ASSUME NEW id \in Id
  PROVE  /\ Name(id) \in Id /\ Name(id).mark = Dash /\ IdOf(id) \in Id
         /\ Name(id).day = id.day /\ Name(id).separator = id.separator /\ Name(id).hour = id.hour
         /\ Name(id).rest = id.rest /\ Name(id).fraction = id.fraction /\ Name(id).zone = id.zone
         /\ id.mark = Dash => Name(IdOf(id)) = id
         /\ id.separator = 84 => IdOf(id).mark = Colon
<1> DEFINE H == 0..23
           M == {Colon, Dash}
           R == 0..3599
           F == Seq(0..9)
           Z == [code : ZoneCodes, offset : 0..1439]
<1>1. Id = [day : Nat, separator : Separators, hour : H, mark : M, rest : R, fraction : F, zone : Z]
  BY DEF Id
<1>2. Colon \in M /\ Dash \in M
  OBVIOUS
<1> HIDE DEF H, M, R, F, Z
<1> QED
  BY <1>1, <1>2 DEF Name, IdOf

\* An id can be told by its name, if it is known what marks it has.
LEMMA NameTells ==
  ASSUME NEW a \in Id, NEW b \in Id, a.mark = b.mark, Name(a) = Name(b)
  PROVE  a = b
<1> DEFINE H == 0..23
           M == {Colon, Dash}
           R == 0..3599
           F == Seq(0..9)
           Z == [code : ZoneCodes, offset : 0..1439]
<1>1. Id = [day : Nat, separator : Separators, hour : H, mark : M, rest : R, fraction : F, zone : Z]
  BY DEF Id
<1>2. /\ a.day = b.day /\ a.separator = b.separator /\ a.hour = b.hour /\ a.rest = b.rest
      /\ a.fraction = b.fraction /\ a.zone = b.zone
  BY NameFits
<1> HIDE DEF H, M, R, F, Z
<1> QED
  BY <1>1, <1>2, SameFields

\* The text of a name differs from that of its id in the fourth place.
LEMMA NameText ==
  ASSUME NEW id \in Id
  PROVE  /\ Len(Text(Name(id))) = Len(Text(id))
         /\ \A i \in 1..Len(Text(id)) : Text(Name(id))[i] = IF i = 4 THEN Dash ELSE Text(id)[i]
<1> DEFINE k == Len(Fraction(id))
           s == Text(id)
           t == Text(Name(id))
<1>1. Name(id) \in Id /\ Fraction(Name(id)) = Fraction(id)
  BY NameFits, Zenon DEF Fraction
<1>2. /\ k \in Nat /\ Len(s) = k + 7
      /\ s[1] = id.day /\ s[2] = id.separator /\ s[3] = id.hour /\ s[5] = id.rest
      /\ s[k + 6] = id.zone.code /\ s[k + 7] = id.zone.offset
      /\ \A i \in 1..k : s[i + 5] = Fraction(id)[i]
  BY TextFits
<1>3. /\ Len(t) = Len(Fraction(Name(id))) + 7
      /\ t[1] = Name(id).day /\ t[2] = Name(id).separator /\ t[3] = Name(id).hour /\ t[4] = Name(id).mark
      /\ t[5] = Name(id).rest
      /\ t[Len(Fraction(Name(id))) + 6] = Name(id).zone.code
      /\ t[Len(Fraction(Name(id))) + 7] = Name(id).zone.offset
      /\ \A i \in 1..Len(Fraction(Name(id))) : t[i + 5] = Fraction(Name(id))[i]
  BY <1>1, TextFits
<1>4. /\ Len(t) = k + 7
      /\ t[1] = id.day /\ t[2] = id.separator /\ t[3] = id.hour /\ t[4] = Dash /\ t[5] = id.rest
      /\ t[k + 6] = id.zone.code /\ t[k + 7] = id.zone.offset
      /\ \A i \in 1..k : t[i + 5] = Fraction(id)[i]
  BY <1>1, <1>3, NameFits
<1> HIDE DEF k, s, t
<1>5. ASSUME NEW i \in 1..Len(s) PROVE t[i] = IF i = 4 THEN Dash ELSE s[i]
  <2>1. CASE i \in 1..5
    BY <1>2, <1>4, <2>1
  <2>2. CASE i \in 6..k + 5
    <3>1. i - 5 \in 1..k /\ (i - 5) + 5 = i /\ i # 4
      BY <1>2, <2>2
    <3> QED
      BY <1>2, <1>4, <3>1
  <2>3. CASE i = k + 6 \/ i = k + 7
    <3>1. i # 4
      BY <1>2, <2>3
    <3> QED
      BY <1>2, <1>4, <2>3, <3>1
  <2> QED
    BY <1>2, <2>1, <2>2, <2>3
<1> QED
  BY <1>2, <1>4, <1>5 DEF s, t

\* Ids are in the order of the names of their files.
LEMMA NamesKeepOrder ==
  ASSUME NEW a \in Id, NEW b \in Id, a.mark = b.mark, Precedes(Name(a), Name(b))
  PROVE  Precedes(a, b)
<1> DEFINE s == Text(a)
           t == Text(b)
           p == Text(Name(a))
           q == Text(Name(b))
<1>1. /\ Len(p) = Len(s) /\ \A i \in 1..Len(s) : p[i] = IF i = 4 THEN Dash ELSE s[i]
      /\ Len(q) = Len(t) /\ \A i \in 1..Len(t) : q[i] = IF i = 4 THEN Dash ELSE t[i]
  BY NameText
<1>2. Len(s) \in Nat /\ Len(t) \in Nat /\ s[4] = t[4]
  BY TextFits
<1>3. PICK n \in 0..Len(p) : /\ n < Len(q) /\ \A i \in 1..n : p[i] = q[i]
                             /\ n = Len(p) \/ p[n + 1] < q[n + 1]
  BY DEF Precedes
<1> HIDE DEF s, t, p, q
<1>4. n \in 0..Len(s) /\ n < Len(t)
  BY <1>1, <1>3
<1>5. ASSUME NEW i \in 1..n PROVE s[i] = t[i]
  <2>1. i \in 1..Len(s) /\ i \in 1..Len(t)
    BY <1>2, <1>4
  <2>2. p[i] = q[i]
    BY <1>3
  <2>3. p[i] = (IF i = 4 THEN Dash ELSE s[i]) /\ q[i] = (IF i = 4 THEN Dash ELSE t[i])
    BY <1>1, <2>1
  <2> QED
    BY <1>2, <2>2, <2>3
<1>6. n = Len(s) \/ s[n + 1] < t[n + 1]
  <2> SUFFICES ASSUME n # Len(s) PROVE s[n + 1] < t[n + 1]
    OBVIOUS
  <2>1. n + 1 \in 1..Len(s) /\ n + 1 \in 1..Len(t)
    BY <1>2, <1>4
  <2>2. p[n + 1] < q[n + 1]
    <3>1. n # Len(p)
      BY <1>1
    <3> QED
      BY <1>3, <3>1
  <2>3. n + 1 # 4
    BY <1>1, <2>1, <2>2 DEF Dash
  <2> QED
    BY <1>1, <2>1, <2>2, <2>3
<1> QED
  BY <1>4, <1>5, <1>6 DEF Precedes, s, t

\* The smaller of two ids that are the same up to a character is before the other.
LEMMA FirstApart ==
  ASSUME NEW a \in Id, NEW b \in Id, NEW n \in Nat, n < Len(Text(a)), n < Len(Text(b)),
         \A i \in 1..n : Text(a)[i] = Text(b)[i], Text(a)[n + 1] < Text(b)[n + 1]
  PROVE  Precedes(a, b)
<1>1. n \in 0..Len(Text(a))
  BY TextFits
<1> QED
  BY <1>1 DEF Precedes

\* Of two ids written alike and in UTC, the later is after the other.
LEMMA LaterIsAfter ==
  ASSUME NEW a \in Id, NEW b \in Id, a.zone.offset = 0, b.zone.offset = 0, a.mark = b.mark,
         a.separator = b.separator, Len(a.fraction) = Len(b.fraction), LaterThan(a, b)
  PROVE  Precedes(b, a)
<1> DEFINE s == Text(a)
           t == Text(b)
           k == Len(a.fraction)
<1>1. /\ a.day \in Nat /\ a.hour \in Nat /\ a.rest \in Nat /\ a.hour < 24 /\ a.rest < 3600
      /\ b.day \in Nat /\ b.hour \in Nat /\ b.rest \in Nat /\ b.hour < 24 /\ b.rest < 3600
  BY IdFields
<1>2. /\ s[1] = a.day /\ s[2] = a.separator /\ s[3] = a.hour /\ s[4] = a.mark /\ s[5] = a.rest
      /\ t[1] = b.day /\ t[2] = b.separator /\ t[3] = b.hour /\ t[4] = b.mark /\ t[5] = b.rest
  BY TextFits
<1>3. /\ Len(Fraction(a)) \in Nat /\ Len(s) = Len(Fraction(a)) + 7
      /\ Len(Fraction(b)) \in Nat /\ Len(t) = Len(Fraction(b)) + 7
      /\ (\A i \in 1..Len(Fraction(a)) : s[i + 5] = Fraction(a)[i])
      /\ (\A i \in 1..Len(Fraction(b)) : t[i + 5] = Fraction(b)[i])
  BY TextFits
<1>4. /\ Second(a) = (a.day * 24 + a.hour) * 3600 + a.rest
      /\ Second(b) = (b.day * 24 + b.hour) * 3600 + b.rest
  <2>1. (0 - 0) * 60 = 0 /\ 0 * 60 = 0 /\ \A n \in Nat : n - 0 = n
    OBVIOUS
  <2>2. Second(a) = (a.day * 24 + a.hour) * 3600 + a.rest - 0
    BY <2>1 DEF Second
  <2>3. Second(b) = (b.day * 24 + b.hour) * 3600 + b.rest - 0
    BY <2>1 DEF Second
  <2> QED
    BY <1>1, <2>2, <2>3
<1> DEFINE ad == a.day
           ah == a.hour
           ar == a.rest
           bd == b.day
           bh == b.hour
           br == b.rest
<1> HIDE DEF s, t, ad, ah, ar, bd, bh, br
<1>5. /\ ad \in Nat /\ ah \in Nat /\ ar \in Nat /\ ah < 24 /\ ar < 3600
      /\ bd \in Nat /\ bh \in Nat /\ br \in Nat /\ bh < 24 /\ br < 3600
      /\ Second(a) = (ad * 24 + ah) * 3600 + ar /\ Second(b) = (bd * 24 + bh) * 3600 + br
  BY <1>1, <1>4 DEF ad, ah, ar, bd, bh, br
<1>6. /\ s[1] = ad /\ s[2] = t[2] /\ s[3] = ah /\ s[4] = t[4] /\ s[5] = ar
      /\ t[1] = bd /\ t[3] = bh /\ t[5] = br
  BY <1>2 DEF ad, ah, ar, bd, bh, br
<1>7. CASE Second(a) > Second(b)
  <2>1. bd < ad \/ (bd = ad /\ bh < ah) \/ (bd = ad /\ bh = ah /\ br < ar)
    BY <1>5, <1>7
  <2>2. 0 < Len(s) /\ 2 < Len(s) /\ 4 < Len(s) /\ 0 < Len(t) /\ 2 < Len(t) /\ 4 < Len(t)
    BY <1>3
  <2>3. CASE bd < ad
    <3>1. t[0 + 1] < s[0 + 1] /\ \A i \in 1..0 : t[i] = s[i]
      BY <1>6, <2>3
    <3> QED
      BY <2>2, <3>1, FirstApart DEF s, t
  <2>4. CASE bd = ad /\ bh < ah
    <3>1. t[2 + 1] < s[2 + 1] /\ \A i \in 1..2 : t[i] = s[i]
      BY <1>6, <2>4
    <3> QED
      BY <2>2, <3>1, FirstApart DEF s, t
  <2>5. CASE bd = ad /\ bh = ah /\ br < ar
    <3>1. t[4 + 1] < s[4 + 1] /\ \A i \in 1..4 : t[i] = s[i]
      BY <1>6, <2>5
    <3> QED
      BY <2>2, <3>1, FirstApart DEF s, t
  <2> QED
    BY <2>1, <2>3, <2>4, <2>5
<1>8. CASE ~(Second(a) > Second(b))
  <2>1. Second(a) = Second(b)
    BY <1>8 DEF LaterThan
  <2>2. PICK n \in DOMAIN a.fraction : Digit(a, n) > Digit(b, n) /\ \A i \in 1..(n - 1) : Digit(a, i) = Digit(b, i)
    BY <1>8 DEF LaterThan
  <2>3. ad = bd /\ ah = bh /\ ar = br
    <3>1. (ad * 24 + ah) * 3600 + ar = (bd * 24 + bh) * 3600 + br
      BY <1>5, <2>1
    <3>2. /\ ad \in Nat /\ ah \in Nat /\ ar \in Nat /\ ah < 24 /\ ar < 3600
          /\ bd \in Nat /\ bh \in Nat /\ br \in Nat /\ bh < 24 /\ br < 3600
      BY <1>5
    <3>3. ad * 24 + ah = bd * 24 + bh /\ ar = br
      BY <3>1, <3>2
    <3> QED
      BY <3>2, <3>3
  <2>4. k \in Nat /\ DOMAIN a.fraction = 1..k /\ DOMAIN b.fraction = 1..k /\ n \in 1..k
    BY <2>2, FractionFits
  <2>5. a.fraction # <<>> /\ b.fraction # <<>>
    <3>1. 1..k # {}
      BY <2>4
    <3>2. DOMAIN <<>> = {}
      OBVIOUS
    <3> QED
      BY <2>4, <3>1, <3>2
  <2>6. /\ Len(Fraction(a)) = k + 1 /\ Fraction(a)[1] = 46
        /\ \A i \in 1..k : Fraction(a)[i + 1] = 48 + a.fraction[i] /\ a.fraction[i] \in 0..9
    BY <2>5, FractionFits
  <2>7. /\ Len(Fraction(b)) = k + 1 /\ Fraction(b)[1] = 46
        /\ \A i \in 1..k : Fraction(b)[i + 1] = 48 + b.fraction[i] /\ b.fraction[i] \in 0..9
    BY <2>5, FractionFits
  <2> HIDE DEF k
  <2>8. ASSUME NEW i \in 1..k
        PROVE  /\ s[i + 6] = 48 + Digit(a, i) /\ t[i + 6] = 48 + Digit(b, i)
               /\ Digit(a, i) \in Nat /\ Digit(b, i) \in Nat
    <3>1. i + 1 \in 1..(k + 1) /\ (i + 1) + 5 = i + 6
      BY <2>4
    <3>2. Digit(a, i) = a.fraction[i] /\ Digit(b, i) = b.fraction[i]
      BY <2>4 DEF Digit
    <3>3. s[i + 6] = 48 + a.fraction[i] /\ t[i + 6] = 48 + b.fraction[i]
      <4>1. s[(i + 1) + 5] = Fraction(a)[i + 1] /\ t[(i + 1) + 5] = Fraction(b)[i + 1]
        BY <1>3, <2>6, <2>7, <3>1
      <4>2. Fraction(a)[i + 1] = 48 + a.fraction[i] /\ Fraction(b)[i + 1] = 48 + b.fraction[i]
        BY <2>6, <2>7
      <4> QED
        BY <3>1, <4>1, <4>2
    <3>4. a.fraction[i] \in 0..9 /\ b.fraction[i] \in 0..9
      BY <2>6, <2>7
    <3>5. \A x \in 0..9 : x \in Nat
      OBVIOUS
    <3> QED
      BY <3>2, <3>3, <3>4, <3>5, Zenon
  <2>9. s[6] = 46 /\ t[6] = 46
    <3>1. 1 \in 1..(k + 1) /\ 1 + 5 = 6
      BY <2>4
    <3>2. s[1 + 5] = Fraction(a)[1] /\ t[1 + 5] = Fraction(b)[1]
      BY <1>3, <2>6, <2>7, <3>1
    <3> QED
      BY <2>6, <2>7, <3>1, <3>2
  <2>10. t[n + 6] < s[n + 6]
    <3>1. s[n + 6] = 48 + Digit(a, n) /\ t[n + 6] = 48 + Digit(b, n) /\ Digit(a, n) \in Nat /\ Digit(b, n) \in Nat
      BY <2>4, <2>8
    <3>2. Digit(a, n) > Digit(b, n)
      BY <2>2
    <3> DEFINE x == Digit(a, n)
               y == Digit(b, n)
    <3> HIDE DEF x, y
    <3>3. x \in Nat /\ y \in Nat /\ x > y
      BY <3>1, <3>2 DEF x, y
    <3>4. 48 + y < 48 + x
      BY <3>3
    <3> QED
      BY <3>1, <3>4 DEF x, y
  <2>11. ASSUME NEW i \in 1..(n + 5) PROVE t[i] = s[i]
    <3>1. CASE i \in 1..6
      BY <1>6, <2>3, <2>9, <3>1
    <3>2. CASE i \notin 1..6
      <4>1. i - 6 \in 1..k /\ i - 6 \in 1..(n - 1) /\ (i - 6) + 6 = i
        BY <2>4, <3>2
      <4>2. Digit(a, i - 6) = Digit(b, i - 6)
        BY <2>2, <4>1
      <4>3. s[(i - 6) + 6] = 48 + Digit(a, i - 6) /\ t[(i - 6) + 6] = 48 + Digit(b, i - 6)
        BY <2>8, <4>1
      <4> QED
        BY <4>1, <4>2, <4>3
    <3> QED
      BY <3>1, <3>2
  <2>12. n + 5 \in Nat /\ n + 5 < Len(s) /\ n + 5 < Len(t) /\ (n + 5) + 1 = n + 6
    <3>1. Len(s) = (k + 1) + 7 /\ Len(t) = (k + 1) + 7
      BY <1>3, <2>6, <2>7
    <3> QED
      BY <2>4, <3>1
  <2>13. t[(n + 5) + 1] < s[(n + 5) + 1]
    BY <2>10, <2>12
  <2> QED
    BY <2>11, <2>12, <2>13, FirstApart DEF s, t
<1> QED
  BY <1>7, <1>8

-----------------------------------------------------------------------------
(* The index and the directory *)

\* What is indexed and what is filed are ids, the ones with colons and the others with dashes.
LEMMA WhatIsThere ==
  ASSUME IdTypeOK
  PROVE  /\ \A id \in indexed : id \in Id /\ id.mark = Colon /\ id.zone.offset = 0
         /\ \A name \in onDisk : name \in Id /\ name.mark = Dash /\ name.zone.offset = 0
<1>1. \A id \in Produced : id \in Id /\ id.mark = Colon
  BY IdsAreWritten
<1>2. \A id \in indexed : id \in Produced /\ id.zone.offset = 0
  BY DEF IdTypeOK, Valid
<1>3. ASSUME NEW name \in onDisk PROVE name \in Id /\ name.mark = Dash /\ name.zone.offset = 0
  <2>1. PICK id \in Produced : id.zone.offset = 0 /\ name = Name(id)
    BY DEF IdTypeOK, Valid
  <2> QED
    BY <1>1, <2>1, NameFits
<1> QED
  BY <1>1, <1>2, <1>3

\* What is listed was indexed, or is recovered from the name of a file that no indexed id has.
LEMMA WhatIsListed ==
  ASSUME IdTypeOK
  PROVE  /\ \A id \in ReconciledIds :
              /\ id \in Id /\ Name(id) \in onDisk
              /\ \/ id \in indexed
                 \/ /\ \A other \in indexed : Name(other) # Name(id)
                    /\ id = IdOf(Name(id))
         /\ \A name \in onDisk : \E id \in ReconciledIds : Name(id) = name
<1> DEFINE known == {id \in indexed : Name(id) \in onDisk}
           others == onDisk \ {Name(id) : id \in known}
<1>1. ReconciledIds = known \cup {IdOf(name) : name \in others}
  BY DEF ReconciledIds
<1>2. \A name \in onDisk : name \in Id /\ IdOf(name) \in Id /\ Name(IdOf(name)) = name
  BY WhatIsThere, NameFits
<1>3. ASSUME NEW name \in others, NEW other \in indexed PROVE Name(other) # name
  OBVIOUS
<1>4. ASSUME NEW id \in ReconciledIds
      PROVE  /\ id \in Id /\ Name(id) \in onDisk
             /\ \/ id \in indexed
                \/ /\ \A other \in indexed : Name(other) # Name(id)
                   /\ id = IdOf(Name(id))
  <2>1. CASE id \in known
    BY <2>1, WhatIsThere
  <2>2. CASE id \notin known
    <3>1. PICK name \in others : id = IdOf(name)
      BY <1>1, <2>2
    <3>2. name \in onDisk
      OBVIOUS
    <3> QED
      BY <1>2, <1>3, <3>1, <3>2
  <2> QED
    BY <2>1, <2>2
<1>5. ASSUME NEW name \in onDisk PROVE \E id \in ReconciledIds : Name(id) = name
  BY <1>1, <1>2
<1> QED
  BY <1>4, <1>5

\* The files are listed by the ids they were pushed under, or by ids that give their names back.
LEMMA ListedOnce ==
  ASSUME IdTypeOK
  PROVE  FilesAreListedOnce
<1>1. {Name(id) : id \in ReconciledIds} = onDisk
  BY WhatIsListed
<1>2. ASSUME NEW a \in ReconciledIds, NEW b \in ReconciledIds, Name(a) = Name(b) PROVE a = b
  <2>1. CASE a \in indexed /\ b \in indexed
    BY <1>2, <2>1, WhatIsThere, NameTells
  <2>2. CASE ~(a \in indexed /\ b \in indexed)
    <3>1. a \notin indexed /\ b \notin indexed
      BY <1>2, <2>2, WhatIsListed
    <3> QED
      BY <1>2, <3>1, WhatIsListed
  <2> QED
    BY <2>1, <2>2
<1> QED
  BY <1>1, <1>2 DEF FilesAreListedOnce

\* The ids listed have a last one, and of the files it is the last.
LEMMA NamesLatest ==
  ASSUME IdTypeOK, IsFiniteSet(onDisk)
  PROVE  IndexNamesTheLatest
<1> SUFFICES ASSUME onDisk # {},
                    \A name \in onDisk : name.separator = 84 \/ \E id \in indexed : Name(id) = name
             PROVE  Name(LatestId) = LatestFile
  BY DEF IndexNamesTheLatest
<1>1. ASSUME NEW id \in ReconciledIds PROVE id \in Id /\ id.mark = Colon /\ Name(id) \in onDisk
  <2>1. CASE id \in indexed
    BY <2>1, WhatIsThere, WhatIsListed
  <2>2. CASE id \notin indexed
    <3>1. /\ id \in Id /\ Name(id) \in onDisk /\ id = IdOf(Name(id))
          /\ \A other \in indexed : Name(other) # Name(id)
      BY <2>2, WhatIsListed
    <3>2. Name(id).separator = 84
      BY <3>1
    <3> QED
      BY <3>1, <3>2, NameFits
  <2> QED
    BY <2>1, <2>2
<1>2. onDisk \in SUBSET Id
  BY WhatIsThere
<1>3. LatestFile \in onDisk /\ \A name \in onDisk : name # LatestFile => Precedes(name, LatestFile)
  BY <1>2, LastOf DEF LatestFile
<1>4. PICK id \in ReconciledIds : Name(id) = LatestFile
  BY <1>3, WhatIsListed
<1>5. ASSUME NEW other \in ReconciledIds, other # id PROVE Precedes(other, id)
  <2>1. Name(other) # Name(id)
    BY <1>5, ListedOnce DEF FilesAreListedOnce
  <2>2. Precedes(Name(other), Name(id))
    BY <1>1, <1>3, <1>4, <2>1
  <2> QED
    BY <1>1, <2>2, NamesKeepOrder
<1>6. ReconciledIds \in SUBSET Id /\ ReconciledIds # {}
  BY <1>1, <1>4
<1>7. IsFiniteSet(ReconciledIds)
  <2> DEFINE f == [i \in ReconciledIds |-> Name(i)]
  <2>1. f \in Injection(ReconciledIds, onDisk)
    BY <1>1, ListedOnce DEF Injection, IsInjective, FilesAreListedOnce
  <2> QED
    BY <2>1, FS_Injection
<1>8. id = LatestId
  BY <1>5, <1>6, <1>7, LastOf DEF LatestId
<1> QED
  BY <1>4, <1>8

\* No file is later than the last, if all are written alike.
LEMMA AlikeNewest ==
  ASSUME IdTypeOK, IsFiniteSet(onDisk)
  PROVE  AlikeLastIsNewest
<1> SUFFICES ASSUME onDisk # {},
                    \A a, b \in onDisk : a.separator = b.separator /\ Len(a.fraction) = Len(b.fraction)
             PROVE  IsNewest(LatestFile)
  BY DEF AlikeLastIsNewest
<1> DEFINE l == LatestFile
<1>1. onDisk \in SUBSET Id
  BY WhatIsThere
<1>2. l \in onDisk /\ \A name \in onDisk : name # l => Precedes(name, l)
  BY <1>1, LastOf DEF LatestFile
<1> HIDE DEF l
<1>3. ASSUME NEW other \in onDisk, LaterThan(other, l) PROVE FALSE
  <2>1. /\ other \in Id /\ l \in Id /\ other.mark = l.mark
        /\ other.zone.offset = 0 /\ l.zone.offset = 0
        /\ other.separator = l.separator /\ Len(other.fraction) = Len(l.fraction)
    BY <1>2, WhatIsThere
  <2>2. Precedes(l, other)
    BY <1>3, <2>1, LaterIsAfter
  <2>3. Precedes(other, l) \/ other = l
    BY <1>2
  <2> QED
    BY <2>1, <2>2, <2>3, BeforeOrders
<1> QED
  BY <1>3 DEF IsNewest, l

\* Few files are filed, for one is filed at a time.
IdsFit == IdTypeOK /\ IsFiniteSet(onDisk)

\* The store starts empty.
LEMMA IdsFitAtFirst ==
  IdInit => IdsFit
BY FS_EmptySet DEF IdInit, IdsFit, IdTypeOK

\* Each step keeps what is indexed and filed in order.
LEMMA IdsStayFit ==
  ASSUME IdsFit, [IdNext]_idVars
  PROVE  IdsFit'
<1> USE DEF IdsFit, IdTypeOK
<1>1. ASSUME NEW id \in Produced, PushWhole(id) PROVE IdsFit'
  BY <1>1, FS_AddElement DEF PushWhole
<1>2. ASSUME NEW id \in Produced, PushCutShort(id) PROVE IdsFit'
  BY <1>2 DEF PushCutShort
<1>3. ASSUME NEW id \in indexed, WriteBackWithout(id) PROVE IdsFit'
  BY <1>3 DEF WriteBackWithout
<1>4. ASSUME NEW name \in onDisk, RemoveFile(name) PROVE IdsFit'
  BY <1>4, FS_RemoveElement DEF RemoveFile
<1>5. CASE UNCHANGED idVars
  BY <1>5 DEF idVars
<1> QED
  BY <1>1, <1>2, <1>3, <1>4, <1>5 DEF IdNext

\* What is indexed was pushed in UTC, and what is filed is named after it.
THEOREM IdTypes == IdSpec => []IdTypeOK
<1>1. IdsFit => IdTypeOK
  BY DEF IdsFit
<1> QED
  BY <1>1, IdsFitAtFirst, IdsStayFit, PTL DEF IdSpec

\* "On disagreement the filesystem wins" (reconciled_ids): each file is listed once, and nothing else is.
THEOREM FilesListedOnce == IdSpec => []FilesAreListedOnce
<1>1. IdsFit => FilesAreListedOnce
  BY ListedOnce DEF IdsFit
<1> QED
  BY <1>1, IdsFitAtFirst, IdsStayFit, PTL DEF IdSpec

\* The id the index names as a model's latest is the one of the file that is read (model_index,
\* get_latest_raw).
THEOREM IndexAndFilesAgree == IdSpec => []IndexNamesTheLatest
<1>1. IdsFit => IndexNamesTheLatest
  BY NamesLatest DEF IdsFit
<1> QED
  BY <1>1, IdsFitAtFirst, IdsStayFit, PTL DEF IdSpec

\* The file that is read is the newest (latest_snapshot_file), if all are written alike.
THEOREM LastOfAlikeIsNewest == IdSpec => []AlikeLastIsNewest
<1>1. IdsFit => AlikeLastIsNewest
  BY AlikeNewest DEF IdsFit
<1> QED
  BY <1>1, IdsFitAtFirst, IdsStayFit, PTL DEF IdSpec

\* Ids of one precision are what that takes: of two ids within a second, the one with a fraction is the
\* later, but the last in the order is the one without, as a full stop precedes a Z (contract.rs says
\* that UTC "keeps the store's lexical-max-is-newest ordering sound").
THEOREM PrecisionsMisorder ==
  ASSUME NEW a \in Id, NEW b \in Id,
         a.day = b.day, a.hour = b.hour, a.rest = b.rest, a.separator = b.separator, a.mark = b.mark,
         a.zone.code = 90, a.zone.offset = 0, b.zone.code = 90, b.zone.offset = 0,
         a.fraction = <<>>, b.fraction # <<>>, b.fraction[1] # 0
  PROVE  Valid(a) /\ Valid(b) /\ LaterThan(b, a) /\ Precedes(b, a)
<1>1. Valid(a) /\ Valid(b)
  BY DEF Valid
<1>2. \A id \in Id :
        id.fraction # <<>> =>
          /\ Len(id.fraction) \in Nat /\ Len(id.fraction) > 0 /\ DOMAIN id.fraction = 1..Len(id.fraction)
          /\ \A i \in 1..Len(id.fraction) : id.fraction[i] \in 0..9
          /\ Len(Fraction(id)) = Len(id.fraction) + 1 /\ Fraction(id)[1] = 46
  BY FractionFits
<1>3. /\ Len(b.fraction) \in Nat /\ Len(b.fraction) > 0 /\ DOMAIN b.fraction = 1..Len(b.fraction)
      /\ b.fraction[1] \in 0..9 /\ Len(Fraction(b)) = Len(b.fraction) + 1 /\ Fraction(b)[1] = 46
  BY <1>2
<1>4. LaterThan(b, a)
  <2>1. Second(a) = Second(b)
    BY DEF Second
  <2>2. 1 \in DOMAIN b.fraction /\ 1 \notin DOMAIN a.fraction
    BY <1>3
  <2>3. Digit(b, 1) = b.fraction[1] /\ Digit(a, 1) = 0
    BY <2>2 DEF Digit
  <2>4. Digit(b, 1) > Digit(a, 1) /\ \A i \in 1..(1 - 1) : Digit(b, i) = Digit(a, i)
    BY <1>3, <2>3
  <2>5. \E n \in DOMAIN b.fraction :
          Digit(b, n) > Digit(a, n) /\ \A i \in 1..(n - 1) : Digit(b, i) = Digit(a, i)
    BY <2>2, <2>4
  <2> QED
    BY <2>1, <2>5 DEF LaterThan
<1>5. Precedes(b, a)
  <2>1. Len(Fraction(a)) = 0
    BY FractionFits
  <2>2. \A id \in Id :
          /\ Text(id)[1] = id.day /\ Text(id)[2] = id.separator /\ Text(id)[3] = id.hour
          /\ Text(id)[4] = id.mark /\ Text(id)[5] = id.rest
    BY TextFits
  <2>3. \A id \in Id : /\ \A i \in 1..Len(Fraction(id)) : Text(id)[i + 5] = Fraction(id)[i]
                       /\ Text(id)[Len(Fraction(id)) + 6] = id.zone.code
    BY TextFits
  <2>4. Text(a)[6] = 90
    <3>1. Text(a)[Len(Fraction(a)) + 6] = 90
      BY <2>3
    <3> QED
      BY <2>1, <3>1
  <2>5. Text(b)[6] = 46
    <3>1. 1 \in 1..Len(Fraction(b)) /\ 1 + 5 = 6
      BY <1>3
    <3> QED
      BY <1>3, <2>3, <3>1
  <2>6. Len(Text(a)) = 7 /\ Len(Text(b)) > 7
    <3>1. Len(Text(a)) = Len(Fraction(a)) + 7 /\ Len(Text(b)) = Len(Fraction(b)) + 7
      BY TextFits
    <3> QED
      BY <1>3, <2>1, <3>1
  <2>7. \A k \in 1..5 : Text(b)[k] = Text(a)[k]
    <3>1. /\ Text(b)[1] = Text(a)[1] /\ Text(b)[2] = Text(a)[2] /\ Text(b)[3] = Text(a)[3]
          /\ Text(b)[4] = Text(a)[4] /\ Text(b)[5] = Text(a)[5]
      BY <2>2
    <3> QED
      BY <3>1
  <2> QED
    BY <2>4, <2>5, <2>6, <2>7 DEF Precedes
<1> QED
  BY <1>1, <1>4, <1>5
=============================================================================

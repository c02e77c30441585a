-------------------------- MODULE CostTracker_proofs --------------------------
(***************************************************************************)
(* The budgets of CostTracker for every number of requests, every budget,  *)
(* every period length and every history of costs, restarts and warm-ups.  *)
(***************************************************************************)
EXTENDS CostTracker, SequenceTheorems, WellFoundedInduction, TLAPS

(***************************************************************************)
(* Least and greatest elements.                                            *)
(***************************************************************************)
NatLess == {p \in Nat \X Nat : p[1] < p[2]}

\* A nonempty set of naturals has a least element, and Min returns it.
LEMMA MinOfNaturals ==
  ASSUME NEW S \in SUBSET Nat, S # {}
  PROVE  Min(S) \in S /\ \A j \in S : Min(S) <= j
<1>1. IsWellFoundedOn(NatLess, Nat)
  BY NatLessThanWellFounded DEF OpToRel, NatLess
<1>2. PICK x \in S : \A y \in S : ~ (<<y, x>> \in NatLess)
  BY <1>1, WFMin
<1>3. ASSUME NEW y \in S PROVE x <= y
  <2>1. <<y, x>> \in Nat \X Nat
    OBVIOUS
  <2>2. ~ (<<y, x>>[1] < <<y, x>>[2])
    BY <1>2, <2>1 DEF NatLess
  <2> QED
    BY <2>2
<1> QED
  BY <1>3 DEF Min

\* Max returns the greatest element, if there is one.
LEMMA MaxIs ==
  ASSUME NEW S \in SUBSET Int, NEW x \in S, \A y \in S : y <= x
  PROVE  Max(S) = x
<1>1. Max(S) \in S /\ \A y \in S : Max(S) >= y
  BY DEF Max
<1>2. ASSUME NEW y \in S, y >= x PROVE y = x
  BY <1>2
<1> QED
  BY <1>1, <1>2

\* A nonempty set of indexes has a greatest one.
LEMMA MaxOfIndexes ==
  ASSUME NEW n \in Nat, NEW S \in SUBSET (0 .. n), S # {}
  PROVE  Max(S) \in S /\ \A j \in S : j <= Max(S)
<1> DEFINE T == {n - j : j \in S}
<1>1. T \in SUBSET Nat /\ T # {}
  <2>1. \A j \in S : n - j \in Nat
    OBVIOUS
  <2> QED
    BY <2>1
<1>2. Min(T) \in T /\ \A t \in T : Min(T) <= t
  BY <1>1, MinOfNaturals, Zenon
<1> HIDE DEF T
<1>3. PICK x \in S : Min(T) = n - x
  BY <1>2 DEF T
<1>4. \A j \in S : j <= x
  <2> TAKE j \in S
  <2>1. n - x <= n - j
    BY <1>2, <1>3 DEF T
  <2> QED
    BY <2>1
<1> QED
  BY <1>4 DEF Max

(***************************************************************************)
(* Folds.  A fold over a sequence is a function on sets of indexes, defined*)
(* by recursion on the greatest index: there is one, by extending it one   *)
(* index at a time, and it does one step per index.                        *)
(***************************************************************************)
Folds(f, step, base, n) ==
  f = [s \in SUBSET (1 .. n) |-> IF s = {} THEN base ELSE step[f[s \ {Max(s)}], Max(s)]]

LEMMA FoldExtends ==
  ASSUME NEW n \in Nat, NEW V, NEW base \in V, NEW N, 1 .. n + 1 \subseteq N,
         NEW step \in [V \X N -> V],
         NEW f \in [SUBSET (1 .. n) -> V], Folds(f, step, base, n)
  PROVE  \E g \in [SUBSET (1 .. n + 1) -> V] : Folds(g, step, base, n + 1)
<1> DEFINE g == [s \in SUBSET (1 .. n + 1) |->
                   IF n + 1 \in s THEN step[f[s \ {n + 1}], n + 1] ELSE f[s]]
<1>1. ASSUME NEW s \in SUBSET (1 .. n + 1)
      PROVE  g[s] \in V /\ g[s] = IF s = {} THEN base ELSE step[g[s \ {Max(s)}], Max(s)]
  <2>1. CASE n + 1 \in s
    <3>1. Max(s) = n + 1
      BY <2>1, MaxIs
    <3>2. s \ {n + 1} \in SUBSET (1 .. n) /\ s \ {n + 1} \in SUBSET (1 .. n + 1)
      OBVIOUS
    <3>3. g[s \ {n + 1}] = f[s \ {n + 1}]
      BY <3>2
    <3>4. f[s \ {n + 1}] \in V /\ n + 1 \in N
      BY <3>2
    <3>5. step[f[s \ {n + 1}], n + 1] \in V
      BY <3>4
    <3> QED
      BY <2>1, <3>1, <3>3, <3>5
  <2>2. CASE n + 1 \notin s
    <3>1. s \in SUBSET (1 .. n)
      BY <2>2
    <3>2. f[s] = IF s = {} THEN base ELSE step[f[s \ {Max(s)}], Max(s)]
      BY <3>1 DEF Folds
    <3>3. g[s] = f[s] /\ f[s] \in V
      BY <2>2, <3>1
    <3>4. g[s \ {Max(s)}] = f[s \ {Max(s)}]
      BY <2>2
    <3> QED
      BY <3>2, <3>3, <3>4
  <2> QED
    BY <2>1, <2>2
<1>2. Folds(g, step, base, n + 1) /\ g \in [SUBSET (1 .. n + 1) -> V]
  BY <1>1 DEF Folds
<1> QED
  BY <1>2

LEMMA FoldExists ==
  ASSUME NEW n \in Nat, NEW V, NEW base \in V, NEW step \in [V \X (1 .. n) -> V]
  PROVE  \E f \in [SUBSET (1 .. n) -> V] : Folds(f, step, base, n)
<1> DEFINE Has(m) == \E f \in [SUBSET (1 .. m) -> V] : Folds(f, step, base, m)
           Bad == {m \in Nat : m <= n /\ ~Has(m)}
<1> SUFFICES ASSUME Bad # {} PROVE FALSE
  <2>1. n \in Nat /\ n <= n
    OBVIOUS
  <2>2. Bad = {} => Has(n)
    BY <2>1
  <2> QED
    BY <2>2
<1> DEFINE m == Min(Bad)
<1>1. m \in Bad /\ \A j \in Bad : m <= j
  <2>1. Bad \in SUBSET Nat
    OBVIOUS
  <2> QED
    BY <2>1, MinOfNaturals
<1> HIDE DEF m
<1>2. m # 0
  <2>1. Folds([s \in SUBSET (1 .. 0) |-> base], step, base, 0)
    <3>1. \A s \in SUBSET (1 .. 0) : s = {}
      OBVIOUS
    <3> QED
      BY <3>1 DEF Folds
  <2>2. [s \in SUBSET (1 .. 0) |-> base] \in [SUBSET (1 .. 0) -> V]
    OBVIOUS
  <2>3. Has(0)
    BY <2>1, <2>2
  <2> QED
    BY <1>1, <2>3
<1> HIDE DEF Has
<1>3. m - 1 \in Nat /\ m - 1 \notin Bad /\ m <= n /\ m - 1 <= n /\ m - 1 + 1 = m
  <2>1. m \in Nat /\ m <= n
    BY <1>1
  <2> HIDE DEF Bad
  <2>2. m - 1 \in Nat /\ m - 1 <= n /\ m - 1 + 1 = m /\ ~(m <= m - 1)
    BY <1>2, <2>1
  <2> QED
    BY <1>1, <2>1, <2>2
<1>4. Has(m - 1)
  BY <1>3
<1>5. 1 .. m - 1 + 1 \subseteq 1 .. n
  BY <1>3
<1>6. PICK f \in [SUBSET (1 .. m - 1) -> V] : Folds(f, step, base, m - 1)
  BY <1>4 DEF Has
<1>7. Has(m - 1 + 1)
  BY <1>3, <1>5, <1>6, FoldExtends DEF Has
<1> QED
  BY <1>1, <1>3, <1>7

\* The sums of the first numbers of v.
AddsUp(T, v, n) ==
  /\ T \in [0 .. n -> Nat]
  /\ v \in [1 .. n -> Nat]
  /\ T[0] = 0
  /\ \A m \in 0 .. n - 1 : T[m + 1] = T[m] + v[m + 1]

\* Sums of sequences that agree from some place on grow alike.
LEMMA SumsGrowAlike ==
  ASSUME NEW n \in Nat, NEW k \in Nat, NEW T, NEW U, NEW v, NEW u, AddsUp(T, v, n), AddsUp(U, u, k),
         NEW a \in Nat, NEW l \in Nat, a + l <= n, l <= k,
         \A i \in 1 .. l : v[a + i] = u[i]
  PROVE  T[a + l] = T[a] + U[l]
<1> DEFINE Bad == {m \in Nat : m <= l /\ T[a + m] # T[a] + U[m]}
<1> SUFFICES ASSUME Bad # {} PROVE FALSE
  <2>1. l \in Nat /\ l <= l
    OBVIOUS
  <2> QED
    BY <2>1
<1> DEFINE m == Min(Bad)
<1>1. m \in Bad /\ \A j \in Bad : m <= j
  <2>1. Bad \in SUBSET Nat
    OBVIOUS
  <2> QED
    BY <2>1, MinOfNaturals
<1> HIDE DEF m
<1>2. T[a] \in Nat /\ U[0] = 0
  BY DEF AddsUp
<1>3. m \in Nat /\ m <= l /\ T[a + m] # T[a] + U[m]
  BY <1>1
<1>4. m # 0
  BY <1>2, <1>3
<1>5. m - 1 \in Nat /\ m - 1 <= l /\ m - 1 \notin Bad
  BY <1>1, <1>3, <1>4
<1>6. T[a + (m - 1)] = T[a] + U[m - 1]
  BY <1>5
<1> HIDE DEF Bad
<1>7. T[a + m] = T[a + (m - 1)] + v[a + m]
  <2> DEFINE j == a + (m - 1)
  <2>1. j \in 0 .. n - 1 /\ j + 1 = a + m
    BY <1>3, <1>5
  <2> HIDE DEF j
  <2>2. T[j + 1] = T[j] + v[j + 1]
    BY <2>1 DEF AddsUp
  <2> QED
    BY <2>1, <2>2 DEF j
<1>8. U[m] = U[m - 1] + u[m]
  <2> DEFINE j == m - 1
  <2>1. j \in 0 .. k - 1 /\ j + 1 = m
    BY <1>3, <1>5
  <2> HIDE DEF j
  <2>2. U[j + 1] = U[j] + u[j + 1]
    BY <2>1 DEF AddsUp
  <2> QED
    BY <2>1, <2>2 DEF j
<1>9. v[a + m] = u[m]
  BY <1>3, <1>4
<1>10. U[m - 1] \in Nat /\ u[m] \in Nat
  BY <1>3, <1>4, <1>5 DEF AddsUp
<1> QED
  BY <1>2, <1>3, <1>6, <1>7, <1>8, <1>9, <1>10

(***************************************************************************)
(* What a log of costs has cost after a time.                              *)
(***************************************************************************)
Worth(e, c) == IF e.timestamp > c THEN e.costUsd ELSE 0
Worths(s, c) == [i \in 1 .. Len(s) |-> Worth(s[i], c)]

LEMMA WorthType ==
  ASSUME NEW s \in Seq(Entry), NEW c \in Int
  PROVE  /\ Len(s) \in Nat /\ DOMAIN s = 1 .. Len(s)
         /\ \A i \in 1 .. Len(s) : s[i] \in Entry /\ s[i].timestamp \in Nat /\ s[i].costUsd \in Nat
         /\ Worths(s, c) \in [1 .. Len(s) -> Nat]
<1>1. Len(s) \in Nat /\ DOMAIN s = 1 .. Len(s)
  BY LenProperties
<1>2. \A i \in 1 .. Len(s) : s[i] \in Entry
  BY ElementOfSeq
<1>3. \A i \in 1 .. Len(s) : s[i].timestamp \in Nat /\ s[i].costUsd \in Nat
  BY <1>2 DEF Entry
<1> QED
  BY <1>1, <1>2, <1>3 DEF Worths, Worth

\* A fold that adds what is worth something adds up the worths.
LEMMA FoldAddsUp ==
  ASSUME NEW s \in Seq(Entry), NEW c \in Int, NEW F,
         F = [S \in SUBSET DOMAIN s |->
                IF S = {} THEN 0
                ELSE IF s[Max(S)].timestamp > c THEN F[S \ {Max(S)}] + s[Max(S)].costUsd
                     ELSE F[S \ {Max(S)}]]
  PROVE  AddsUp([m \in 0 .. Len(s) |-> F[1 .. m]], Worths(s, c), Len(s))
<1> DEFINE n == Len(s)
           Bad == {m \in Nat : m <= n /\ F[1 .. m] \notin Nat}
<1>1. /\ n \in Nat /\ DOMAIN s = 1 .. n /\ Worths(s, c) \in [1 .. n -> Nat]
      /\ \A i \in 1 .. n : s[i].costUsd \in Nat
  BY WorthType
<1>2. F[{}] = 0 /\ 1 .. 0 = {}
  BY <1>1
<1>3. ASSUME NEW m \in 0 .. n - 1
      PROVE  F[1 .. m + 1] = IF s[m + 1].timestamp > c THEN F[1 .. m] + s[m + 1].costUsd
                             ELSE F[1 .. m]
  <2>1. 1 .. m + 1 \in SUBSET (1 .. n) /\ m + 1 \in 1 .. m + 1 /\ (1 .. m + 1) \ {m + 1} = 1 .. m
        /\ m + 1 \in 1 .. n /\ 1 .. m + 1 \in SUBSET Int /\ \A y \in 1 .. m + 1 : y <= m + 1
    BY <1>1
  <2>2. Max(1 .. m + 1) = m + 1
    BY <2>1, MaxIs
  <2> QED
    BY <1>1, <2>1, <2>2
<1> HIDE DEF n
<1>4. \A m \in 0 .. n : F[1 .. m] \in Nat
  <2> SUFFICES ASSUME Bad # {} PROVE FALSE
    <3>1. \A m \in 0 .. n : m \in Nat /\ m <= n
      BY <1>1
    <3> QED
      BY <3>1
  <2> DEFINE m == Min(Bad)
  <2>1. m \in Bad /\ \A j \in Bad : m <= j
    <3>1. Bad \in SUBSET Nat
      OBVIOUS
    <3> QED
      BY <3>1, MinOfNaturals
  <2> HIDE DEF m
  <2>2. m \in Nat /\ m <= n /\ F[1 .. m] \notin Nat
    BY <2>1
  <2>3. m # 0
    BY <1>2, <2>2
  <2>4. m - 1 \in Nat /\ m - 1 <= n /\ m - 1 \in 0 .. n - 1 /\ m - 1 + 1 = m /\ ~(m <= m - 1)
        /\ m \in 1 .. n
    BY <1>1, <2>2, <2>3
  <2>5. F[1 .. m - 1] \in Nat
    BY <2>1, <2>4
  <2>6. F[1 .. m - 1 + 1] = IF s[m - 1 + 1].timestamp > c THEN F[1 .. m - 1] + s[m - 1 + 1].costUsd
                            ELSE F[1 .. m - 1]
    BY <1>3, <2>4
  <2>7. F[1 .. m] = IF s[m].timestamp > c THEN F[1 .. m - 1] + s[m].costUsd ELSE F[1 .. m - 1]
    BY ONLY <2>4, <2>6
  <2>8. s[m].costUsd \in Nat
    BY <1>1, <2>4
  <2> QED
    BY ONLY <2>2, <2>5, <2>7, <2>8
<1> DEFINE T == [m \in 0 .. n |-> F[1 .. m]]
<1>5. T \in [0 .. n -> Nat] /\ T[0] = 0
  <2>1. 0 \in 0 .. n
    BY <1>1
  <2> QED
    BY <1>2, <1>4, <2>1
<1>6. ASSUME NEW m \in 0 .. n - 1 PROVE T[m + 1] = T[m] + Worths(s, c)[m + 1]
  <2>1. m \in 0 .. n /\ m + 1 \in 0 .. n /\ m + 1 \in 1 .. n
    BY <1>1
  <2>2. T[m + 1] = F[1 .. m + 1] /\ T[m] = F[1 .. m] /\ F[1 .. m] \in Nat
    BY <1>4, <2>1
  <2>3. Worths(s, c)[m + 1] = IF s[m + 1].timestamp > c THEN s[m + 1].costUsd ELSE 0
    BY <2>1 DEF Worths, Worth, n
  <2>4. F[1 .. m + 1] = IF s[m + 1].timestamp > c THEN F[1 .. m] + s[m + 1].costUsd ELSE F[1 .. m]
    BY <1>3
  <2> HIDE DEF T
  <2> QED
    BY ONLY <2>2, <2>3, <2>4
<1> HIDE DEF T
<1> QED
  BY <1>1, <1>5, <1>6 DEF AddsUp, n, T

\* There is such a fold.
LEMMA CostFoldExists ==
  ASSUME NEW s \in Seq(Entry), NEW c \in Int
  PROVE  \E F : F = [S \in SUBSET DOMAIN s |->
                       IF S = {} THEN 0
                       ELSE IF s[Max(S)].timestamp > c THEN F[S \ {Max(S)}] + s[Max(S)].costUsd
                            ELSE F[S \ {Max(S)}]]
<1> DEFINE n == Len(s)
<1>1. n \in Nat /\ DOMAIN s = 1 .. n /\ \A i \in 1 .. n : s[i].costUsd \in Nat
  BY WorthType
<1> DEFINE step == [p \in Nat \X (1 .. n) |->
                      IF s[p[2]].timestamp > c THEN p[1] + s[p[2]].costUsd ELSE p[1]]
<1>2. step \in [Nat \X (1 .. n) -> Nat]
  BY <1>1
<1>3. \A x \in Nat, i \in 1 .. n :
        step[x, i] = IF s[i].timestamp > c THEN x + s[i].costUsd ELSE x
  OBVIOUS
<1> HIDE DEF step, n
<1>4. PICK f \in [SUBSET (1 .. n) -> Nat] : Folds(f, step, 0, n)
  BY <1>1, <1>2, FoldExists
<1>5. ASSUME NEW S \in SUBSET (1 .. n), S # {}
      PROVE  step[f[S \ {Max(S)}], Max(S)]
               = IF s[Max(S)].timestamp > c THEN f[S \ {Max(S)}] + s[Max(S)].costUsd
                 ELSE f[S \ {Max(S)}]
  <2>1. Max(S) \in S
    <3>1. S \in SUBSET (0 .. n)
      OBVIOUS
    <3> QED
      BY <1>1, <1>5, <3>1, MaxOfIndexes
  <2>2. Max(S) \in 1 .. n /\ f[S \ {Max(S)}] \in Nat
    BY <2>1
  <2> QED
    BY <1>3, <2>2
<1>6. f = [S \in SUBSET (1 .. n) |->
             IF S = {} THEN 0
             ELSE IF s[Max(S)].timestamp > c THEN f[S \ {Max(S)}] + s[Max(S)].costUsd
                  ELSE f[S \ {Max(S)}]]
  BY <1>4, <1>5 DEF Folds
<1> QED
  BY <1>1, <1>6

LEMMA CostIs ==
  ASSUME NEW s \in Seq(Entry), NEW c \in Int
  PROVE  \E T : AddsUp(T, Worths(s, c), Len(s)) /\ CostAfter(s, c) = T[Len(s)]
<1> DEFINE F == CHOOSE iter : iter = [S \in SUBSET DOMAIN s |->
                  IF S = {} THEN 0
                  ELSE LET x == Max(S)
                       IN  IF s[x].timestamp > c THEN iter[S \ {x}] + s[x].costUsd
                           ELSE iter[S \ {x}]]
<1>1. CostAfter(s, c) = F[DOMAIN s]
  BY Zenon DEF CostAfter, FoldLeft, MapThenFoldSet
<1>2. F = [S \in SUBSET DOMAIN s |->
             IF S = {} THEN 0
             ELSE IF s[Max(S)].timestamp > c THEN F[S \ {Max(S)}] + s[Max(S)].costUsd
                  ELSE F[S \ {Max(S)}]]
  BY CostFoldExists
<1> HIDE DEF F
<1>3. Len(s) \in Nat /\ DOMAIN s = 1 .. Len(s)
  BY WorthType
<1> DEFINE T == [m \in 0 .. Len(s) |-> F[1 .. m]]
<1>4. AddsUp(T, Worths(s, c), Len(s))
  BY <1>2, FoldAddsUp
<1>5. T[Len(s)] = F[1 .. Len(s)]
  BY <1>3
<1> HIDE DEF T
<1> QED
  BY <1>1, <1>3, <1>4, <1>5

LEMMA CostType ==
  ASSUME NEW s \in Seq(Entry), NEW c \in Int
  PROVE  CostAfter(s, c) \in Nat
<1>1. PICK T : AddsUp(T, Worths(s, c), Len(s)) /\ CostAfter(s, c) = T[Len(s)]
  BY CostIs
<1>2. Len(s) \in Nat
  BY WorthType
<1> QED
  BY <1>1, <1>2 DEF AddsUp

\* The cost of a log is that of its two parts.
LEMMA CostSplits ==
  ASSUME NEW s \in Seq(Entry), NEW a \in Seq(Entry), NEW b \in Seq(Entry), NEW c \in Int,
         Len(s) = Len(a) + Len(b),
         \A i \in 1 .. Len(a) : s[i] = a[i],
         \A i \in 1 .. Len(b) : s[Len(a) + i] = b[i]
  PROVE  CostAfter(s, c) = CostAfter(a, c) + CostAfter(b, c)
<1>1. PICK T : AddsUp(T, Worths(s, c), Len(s)) /\ CostAfter(s, c) = T[Len(s)]
  BY CostIs
<1>2. PICK A : AddsUp(A, Worths(a, c), Len(a)) /\ CostAfter(a, c) = A[Len(a)]
  BY CostIs
<1>3. PICK B : AddsUp(B, Worths(b, c), Len(b)) /\ CostAfter(b, c) = B[Len(b)]
  BY CostIs
<1>4. Len(s) \in Nat /\ Len(a) \in Nat /\ Len(b) \in Nat
  BY WorthType
<1>5. T[0 + Len(a)] = T[0] + A[Len(a)]
  <2>1. \A i \in 1 .. Len(a) : Worths(s, c)[0 + i] = Worths(a, c)[i]
    BY <1>4 DEF Worths, Worth
  <2>2. 0 \in Nat /\ 0 + Len(a) <= Len(s) /\ Len(a) <= Len(a)
    BY <1>4
  <2> QED
    BY <1>1, <1>2, <1>4, <2>1, <2>2, SumsGrowAlike
<1>6. T[Len(a) + Len(b)] = T[Len(a)] + B[Len(b)]
  <2>1. \A i \in 1 .. Len(b) : Worths(s, c)[Len(a) + i] = Worths(b, c)[i]
    BY <1>4 DEF Worths, Worth
  <2>2. Len(a) + Len(b) <= Len(s) /\ Len(b) <= Len(b)
    BY <1>4
  <2> QED
    BY <1>1, <1>3, <1>4, <2>1, <2>2, SumsGrowAlike
<1>7. T[0] = 0 /\ A[Len(a)] \in Nat /\ 0 + Len(a) = Len(a)
  BY <1>1, <1>2, <1>4 DEF AddsUp
<1> QED
  BY <1>1, <1>2, <1>3, <1>5, <1>6, <1>7

\* What is not later than the time has not cost anything after it.
LEMMA CostOfOlder ==
  ASSUME NEW s \in Seq(Entry), NEW c \in Int, \A i \in 1 .. Len(s) : s[i].timestamp <= c
  PROVE  CostAfter(s, c) = 0
<1>1. PICK T : AddsUp(T, Worths(s, c), Len(s)) /\ CostAfter(s, c) = T[Len(s)]
  BY CostIs
<1>2. Len(s) \in Nat /\ \A i \in 1 .. Len(s) : s[i].timestamp \in Nat
  BY WorthType
<1>3. \A i \in 1 .. Len(s) : Worths(s, c)[i] = 0
  BY <1>2 DEF Worths, Worth
<1> DEFINE Z == [m \in 0 .. Len(s) |-> 0]
           z == [i \in 1 .. Len(s) |-> 0]
<1>4. AddsUp(Z, z, Len(s)) /\ Z[Len(s)] = 0
  BY <1>2 DEF AddsUp
<1>5. \A i \in 1 .. Len(s) : Worths(s, c)[0 + i] = z[i]
  BY <1>3
<1> HIDE DEF Z, z
<1>6. T[0 + Len(s)] = T[0] + Z[Len(s)]
  <2>1. 0 \in Nat /\ 0 + Len(s) <= Len(s) /\ Len(s) <= Len(s)
    BY <1>2
  <2> QED
    BY <1>1, <1>2, <1>4, <1>5, <2>1, SumsGrowAlike
<1>7. T[0] = 0 /\ 0 + Len(s) = Len(s)
  BY <1>1, <1>2 DEF AddsUp
<1> QED
  BY <1>1, <1>4, <1>6, <1>7

LEMMA CostOfNone ==
  ASSUME NEW c \in Int
  PROVE  CostAfter(<<>>, c) = 0
<1>1. <<>> \in Seq(Entry) /\ Len(<<>>) = 0
  BY EmptySeq
<1> DEFINE none == <<>>
<1>2. none \in Seq(Entry) /\ \A i \in 1 .. Len(none) : none[i].timestamp <= c
  BY <1>1
<1> HIDE DEF none
<1>3. CostAfter(none, c) = 0
  BY <1>2, CostOfOlder
<1> QED
  BY <1>3 DEF none

\* A new entry adds what it is worth.
LEMMA CostOfAppend ==
  ASSUME NEW s \in Seq(Entry), NEW e \in Entry, NEW c \in Int
  PROVE  /\ Append(s, e) \in Seq(Entry)
         /\ CostAfter(Append(s, e), c) = CostAfter(s, c) + Worth(e, c)
<1> DEFINE t == Append(s, e)
<1>1. t \in Seq(Entry) /\ Len(t) = Len(s) + 1 /\ t[Len(s) + 1] = e
      /\ \A i \in 1 .. Len(s) : t[i] = s[i]
  BY AppendProperties
<1> HIDE DEF t
<1>2. PICK T : AddsUp(T, Worths(t, c), Len(t)) /\ CostAfter(t, c) = T[Len(t)]
  BY <1>1, CostIs
<1>3. PICK A : AddsUp(A, Worths(s, c), Len(s)) /\ CostAfter(s, c) = A[Len(s)]
  BY CostIs
<1>4. Len(s) \in Nat
  BY WorthType
<1>5. T[0 + Len(s)] = T[0] + A[Len(s)]
  <2>1. \A i \in 1 .. Len(s) : Worths(t, c)[0 + i] = Worths(s, c)[i]
    BY <1>1, <1>4 DEF Worths, Worth
  <2>2. 0 \in Nat /\ 0 + Len(s) <= Len(t) /\ Len(s) <= Len(s) /\ Len(t) \in Nat
    BY <1>1, <1>4
  <2> QED
    BY <1>2, <1>3, <1>4, <2>1, <2>2, SumsGrowAlike
<1>6. T[Len(s) + 1] = T[Len(s)] + Worth(e, c)
  <2>1. Len(s) \in 0 .. Len(t) - 1 /\ Len(s) + 1 \in 1 .. Len(t)
    BY <1>1, <1>4
  <2>2. Worths(t, c)[Len(s) + 1] = Worth(e, c)
    BY <1>1, <2>1 DEF Worths
  <2> QED
    BY <1>2, <2>1, <2>2 DEF AddsUp
<1>7. T[0] = 0 /\ A[Len(s)] \in Nat /\ 0 + Len(s) = Len(s)
  BY <1>2, <1>3, <1>4 DEF AddsUp
<1>8. CostAfter(t, c) = CostAfter(s, c) + Worth(e, c)
  BY <1>1, <1>2, <1>3, <1>5, <1>6, <1>7
<1> QED
  BY <1>1, <1>8 DEF t

\* The later the time, the less has been spent after it.
LEMMA CostShrinks ==
  ASSUME NEW s \in Seq(Entry), NEW c \in Int, NEW d \in Int, c <= d
  PROVE  CostAfter(s, d) <= CostAfter(s, c)
<1>1. PICK T : AddsUp(T, Worths(s, c), Len(s)) /\ CostAfter(s, c) = T[Len(s)]
  BY CostIs
<1>2. PICK U : AddsUp(U, Worths(s, d), Len(s)) /\ CostAfter(s, d) = U[Len(s)]
  BY CostIs
<1> DEFINE n == Len(s)
           Bad == {m \in Nat : m <= n /\ ~(U[m] <= T[m])}
<1>3. n \in Nat /\ \A i \in 1 .. n : s[i].timestamp \in Nat /\ s[i].costUsd \in Nat
  BY WorthType
<1>4. \A i \in 1 .. n : Worths(s, d)[i] <= Worths(s, c)[i]
  BY <1>3 DEF Worths, Worth
<1> HIDE DEF n
<1>5. CASE Bad = {}
  <2>1. n \in Nat /\ n <= n
    BY <1>3
  <2> QED
    BY <1>1, <1>2, <1>5, <2>1 DEF n
<1>6. CASE Bad # {}
  <2> DEFINE m == Min(Bad)
  <2>1. m \in Bad /\ \A j \in Bad : m <= j
    <3>1. Bad \in SUBSET Nat
      OBVIOUS
    <3> QED
      BY <1>6, <3>1, MinOfNaturals
  <2> HIDE DEF m
  <2>2. m \in Nat /\ m <= n /\ ~(U[m] <= T[m])
    BY <2>1
  <2>3. T[0] = 0 /\ U[0] = 0
    BY <1>1, <1>2 DEF AddsUp
  <2>4. m # 0
    BY <2>2, <2>3
  <2> DEFINE j == m - 1
  <2>5. j \in Nat /\ j <= n /\ j \in 0 .. n - 1 /\ j \in 0 .. n /\ j + 1 = m /\ ~(m <= j) /\ m \in 1 .. n
    BY <1>3, <2>2, <2>4
  <2> HIDE DEF j
  <2>6. U[j] <= T[j]
    BY <2>1, <2>5
  <2>7. T[j + 1] = T[j] + Worths(s, c)[j + 1] /\ U[j + 1] = U[j] + Worths(s, d)[j + 1]
        /\ T[j] \in Nat /\ U[j] \in Nat /\ Worths(s, c)[m] \in Nat /\ Worths(s, d)[m] \in Nat
    BY <1>1, <1>2, <2>5 DEF AddsUp, n
  <2>8. Worths(s, d)[m] <= Worths(s, c)[m]
    BY <1>4, <2>5
  <2>9. T[m] = T[j] + Worths(s, c)[m] /\ U[m] = U[j] + Worths(s, d)[m]
    BY ONLY <2>5, <2>7
  <2> QED
    BY ONLY <2>2, <2>6, <2>7, <2>8, <2>9
<1> QED
  BY <1>5, <1>6

\* The report of a time that is not before any entry.
LEMMA SummarizeIs ==
  ASSUME NEW s \in Seq(Entry), NEW from \in Int, NEW to \in Int,
         \A i \in 1 .. Len(s) : s[i].timestamp <= to
  PROVE  Summarize(s, from, to) = CostAfter(s, from - 1)
<1> DEFINE c == from - 1
<1>1. /\ Len(s) \in Nat /\ DOMAIN s = 1 .. Len(s) /\ c \in Int
      /\ \A i \in 1 .. Len(s) : s[i].timestamp \in Nat /\ s[i].costUsd \in Nat
  BY WorthType
<1> DEFINE F == CHOOSE iter : iter = [S \in SUBSET DOMAIN s |->
                  IF S = {} THEN 0
                  ELSE LET x == Max(S)
                       IN  IF from <= s[x].timestamp /\ s[x].timestamp <= to
                           THEN iter[S \ {x}] + s[x].costUsd ELSE iter[S \ {x}]]
<1>2. Summarize(s, from, to) = F[DOMAIN s]
  BY Zenon DEF Summarize, FoldLeft, MapThenFoldSet
<1>3. ASSUME NEW S \in SUBSET DOMAIN s, S # {}
      PROVE  s[Max(S)].timestamp > c <=> from <= s[Max(S)].timestamp /\ s[Max(S)].timestamp <= to
  <2>1. S \in SUBSET (0 .. Len(s))
    BY <1>1
  <2>2. Max(S) \in 1 .. Len(s)
    BY <1>1, <1>3, <2>1, MaxOfIndexes
  <2> QED
    BY <1>1, <2>2
<1> HIDE DEF c
<1>4. PICK G : G = [S \in SUBSET DOMAIN s |->
                      IF S = {} THEN 0
                      ELSE IF s[Max(S)].timestamp > c THEN G[S \ {Max(S)}] + s[Max(S)].costUsd
                           ELSE G[S \ {Max(S)}]]
  BY <1>1, CostFoldExists
<1>5. G = [S \in SUBSET DOMAIN s |->
             IF S = {} THEN 0
             ELSE IF from <= s[Max(S)].timestamp /\ s[Max(S)].timestamp <= to
                  THEN G[S \ {Max(S)}] + s[Max(S)].costUsd ELSE G[S \ {Max(S)}]]
  BY <1>3, <1>4
<1>6. F = [S \in SUBSET DOMAIN s |->
             IF S = {} THEN 0
             ELSE IF from <= s[Max(S)].timestamp /\ s[Max(S)].timestamp <= to
                  THEN F[S \ {Max(S)}] + s[Max(S)].costUsd ELSE F[S \ {Max(S)}]]
  BY <1>5
<1> HIDE DEF F
<1>7. F = [S \in SUBSET DOMAIN s |->
             IF S = {} THEN 0
             ELSE IF s[Max(S)].timestamp > c THEN F[S \ {Max(S)}] + s[Max(S)].costUsd
                  ELSE F[S \ {Max(S)}]]
  BY <1>3, <1>6
<1> DEFINE T == [m \in 0 .. Len(s) |-> F[1 .. m]]
<1>8. AddsUp(T, Worths(s, c), Len(s))
  BY <1>1, <1>7, FoldAddsUp
<1>9. T[Len(s)] = F[1 .. Len(s)]
  BY <1>1
<1> HIDE DEF T
<1>10. PICK A : AddsUp(A, Worths(s, c), Len(s)) /\ CostAfter(s, c) = A[Len(s)]
  BY <1>1, CostIs
<1>11. T[0 + Len(s)] = T[0] + A[Len(s)]
  <2>1. 0 \in Nat /\ 0 + Len(s) <= Len(s) /\ Len(s) <= Len(s)
        /\ \A i \in 1 .. Len(s) : Worths(s, c)[0 + i] = Worths(s, c)[i]
    BY <1>1
  <2> QED
    BY <1>1, <1>8, <1>10, <2>1, SumsGrowAlike
<1>12. T[0] = 0 /\ A[Len(s)] \in Nat /\ 0 + Len(s) = Len(s)
  BY <1>1, <1>8, <1>10 DEF AddsUp
<1>13. F[DOMAIN s] = CostAfter(s, c)
  BY <1>1, <1>9, <1>10, <1>11, <1>12
<1> QED
  BY <1>2, <1>13 DEF c

\* The two parts of a log.
LEMMA FirstPart ==
  ASSUME NEW s \in Seq(Entry), NEW j \in 0 .. Len(s)
  PROVE  LET a == SubSeq(s, 1, j)
         IN  a \in Seq(Entry) /\ Len(a) = j /\ \A i \in 1 .. j : a[i] = s[i]
<1> DEFINE a == SubSeq(s, 1, j)
<1>1. \A i \in 1 .. j : s[i] \in Entry /\ 1 + i - 1 = i
  BY WorthType
<1>2. 1 \in Int /\ j \in Int /\ j - 1 + 1 = j /\ (IF 1 <= j THEN j - 1 + 1 ELSE 0) = j
  BY WorthType
<1>3. /\ a \in Seq(Entry) /\ Len(a) = IF 1 <= j THEN j - 1 + 1 ELSE 0
      /\ \A i \in 1 .. j - 1 + 1 : a[i] = s[1 + i - 1]
  BY <1>1, <1>2, SubSeqProperties
<1> HIDE DEF a
<1> QED
  BY <1>1, <1>2, <1>3 DEF a

LEMMA LastPart ==
  ASSUME NEW s \in Seq(Entry), NEW j \in 0 .. Len(s)
  PROVE  LET b == SubSeq(s, j + 1, Len(s))
         IN  b \in Seq(Entry) /\ Len(b) = Len(s) - j /\ \A i \in 1 .. Len(s) - j : b[i] = s[j + i]
<1> DEFINE b == SubSeq(s, j + 1, Len(s))
           k == j + 1
<1>0. Len(s) \in Nat /\ \A i \in 1 .. Len(s) : s[i] \in Entry
  BY WorthType, 0 \in Int
<1>1. \A i \in k .. Len(s) : s[i] \in Entry
  BY <1>0
<1>2. k \in Int /\ Len(s) \in Int
  BY <1>0
<1> HIDE DEF k
<1>3. /\ SubSeq(s, k, Len(s)) \in Seq(Entry)
      /\ Len(SubSeq(s, k, Len(s))) = IF k <= Len(s) THEN Len(s) - k + 1 ELSE 0
      /\ \A i \in 1 .. Len(s) - k + 1 : SubSeq(s, k, Len(s))[i] = s[k + i - 1]
  BY <1>1, <1>2, SubSeqProperties
<1>4. b = SubSeq(s, k, Len(s))
  BY DEF k
<1> HIDE DEF b
<1>5. (IF k <= Len(s) THEN Len(s) - k + 1 ELSE 0) = Len(s) - j /\ Len(s) - k + 1 = Len(s) - j
  BY <1>0 DEF k
<1>6. \A i \in 1 .. Len(s) - j : k + i - 1 = j + i
  BY <1>0 DEF k
<1> QED
  BY <1>3, <1>4, <1>5, <1>6 DEF b

(***************************************************************************)
(* The logs in memory and in the store: entries no later than now, oldest  *)
(* first.                                                                  *)
(***************************************************************************)
NotAfter(s, t) == \A i \in 1 .. Len(s) : s[i].timestamp <= t
Log(s, t) == s \in Seq(Entry) /\ OldestFirst(s) /\ NotAfter(s, t)

LEMMA NoLog ==
  ASSUME NEW t
  PROVE  Log(<<>>, t)
BY EmptySeq DEF Log, OldestFirst, NotAfter

\* Since drops a prefix of older entries.
LEMMA SinceIs ==
  ASSUME NEW s \in Seq(Entry), NEW from \in Int
  PROVE  \E k \in 0 .. Len(s) :
           /\ Since(s, from) \in Seq(Entry)
           /\ Len(Since(s, from)) = Len(s) - k
           /\ \A i \in 1 .. Len(s) - k : Since(s, from)[i] = s[k + i]
           /\ \A i \in 1 .. k : s[i].timestamp < from
<1> DEFINE recent == {i \in DOMAIN s : s[i].timestamp >= from}
<1>1. Len(s) \in Nat /\ DOMAIN s = 1 .. Len(s)
      /\ \A i \in 1 .. Len(s) : s[i] \in Entry /\ s[i].timestamp \in Nat
  BY WorthType
<1>2. CASE recent = {}
  <2>1. Since(s, from) = <<>>
    BY <1>2 DEF Since
  <2>2. \A i \in 1 .. Len(s) : s[i].timestamp < from
    BY <1>1, <1>2
  <2>3. <<>> \in Seq(Entry) /\ Len(<<>>) = 0 /\ Len(s) \in 0 .. Len(s) /\ Len(s) - Len(s) = 0
    BY <1>1, EmptySeq
  <2>4. Len(Since(s, from)) = Len(s) - Len(s) /\ 1 .. Len(s) - Len(s) = {}
    BY <2>1, <2>3
  <2> QED
    BY <2>1, <2>2, <2>3, <2>4
<1>3. CASE recent # {}
  <2> DEFINE m == Min(recent)
  <2>1. m \in recent /\ \A j \in recent : m <= j
    <3>1. recent \in SUBSET Nat
      BY <1>1
    <3> QED
      BY <1>3, <3>1, MinOfNaturals
  <2>2. m \in 1 .. Len(s)
    BY <1>1, <2>1
  <2>3. Since(s, from) = SubSeq(s, m, Len(s))
    BY <1>3 DEF Since
  <2> HIDE DEF m
  <2> DEFINE k == m - 1
  <2>4. k \in 0 .. Len(s) /\ k + 1 = m /\ \A i \in 1 .. Len(s) - k : m + i - 1 = k + i
        /\ Len(s) - m + 1 = Len(s) - k
    BY <1>1, <2>2
  <2>5. /\ SubSeq(s, m, Len(s)) \in Seq(Entry)
        /\ Len(SubSeq(s, m, Len(s))) = Len(s) - m + 1
        /\ \A i \in 1 .. Len(s) - m + 1 : SubSeq(s, m, Len(s))[i] = s[m + i - 1]
    <3>1. \A i \in m .. Len(s) : s[i] \in Entry
      BY <1>1, <2>2
    <3>2. Len(s) \in 1 .. Len(s) /\ m <= Len(s)
      BY <1>1, <2>2
    <3> QED
      BY <1>1, <2>2, <3>1, <3>2, SubSeqProperties
  <2>6. \A i \in 1 .. k : s[i].timestamp < from
    <3> TAKE i \in 1 .. k
    <3>1. i \in 1 .. Len(s) /\ ~(m <= i)
      BY <1>1, <2>2
    <3>2. i \notin recent
      BY <2>1, <3>1
    <3> QED
      BY <1>1, <3>1, <3>2
  <2> HIDE DEF k
  <2>7. /\ Since(s, from) \in Seq(Entry) /\ Len(Since(s, from)) = Len(s) - k
        /\ \A i \in 1 .. Len(s) - k : Since(s, from)[i] = s[k + i]
    BY ONLY <2>3, <2>4, <2>5
  <2> QED
    BY ONLY <2>4, <2>6, <2>7
<1> QED
  BY <1>2, <1>3

\* So it keeps what was spent since, adds nothing, and leaves a log a log.
LEMMA SinceKeeps ==
  ASSUME NEW s \in Seq(Entry), NEW from \in Int, NEW c \in Int
  PROVE  /\ Since(s, from) \in Seq(Entry)
         /\ CostAfter(Since(s, from), c) <= CostAfter(s, c)
         /\ from <= c + 1 => CostAfter(Since(s, from), c) = CostAfter(s, c)
         /\ \A t \in Nat : Log(s, t) => Log(Since(s, from), t)
<1> DEFINE e == Since(s, from)
<1>1. PICK k \in 0 .. Len(s) :
        /\ e \in Seq(Entry)
        /\ Len(e) = Len(s) - k
        /\ \A i \in 1 .. Len(s) - k : e[i] = s[k + i]
        /\ \A i \in 1 .. k : s[i].timestamp < from
  BY SinceIs
<1> HIDE DEF e
<1>2. Len(s) \in Nat /\ DOMAIN s = 1 .. Len(s) /\ DOMAIN e = 1 .. Len(e) /\ Len(e) \in Nat
      /\ \A i \in 1 .. Len(s) : s[i] \in Entry /\ s[i].timestamp \in Nat
  BY <1>1, WorthType
<1> DEFINE d == SubSeq(s, 1, k)
<1>3. d \in Seq(Entry) /\ Len(d) = k /\ \A i \in 1 .. k : d[i] = s[i]
  BY FirstPart
<1> HIDE DEF d
<1>4. CostAfter(s, c) = CostAfter(d, c) + CostAfter(e, c)
  <2>1. Len(s) = Len(d) + Len(e) /\ Len(s) - k = Len(e)
    BY <1>1, <1>2, <1>3
  <2>2. \A i \in 1 .. Len(d) : s[i] = d[i]
    BY <1>3
  <2>3. \A i \in 1 .. Len(e) : s[Len(d) + i] = e[i]
    BY <1>1, <1>3, <2>1
  <2> QED
    BY <1>1, <1>3, <2>1, <2>2, <2>3, CostSplits
<1>5. CostAfter(d, c) \in Nat /\ CostAfter(e, c) \in Nat
  BY <1>1, <1>3, CostType
<1>6. ASSUME from <= c + 1 PROVE CostAfter(d, c) = 0
  <2>1. \A i \in 1 .. Len(d) : d[i].timestamp <= c
    <3> TAKE i \in 1 .. Len(d)
    <3>1. i \in 1 .. k /\ i \in 1 .. Len(s) /\ d[i] = s[i]
      BY <1>2, <1>3
    <3> QED
      BY <1>1, <1>2, <1>6, <3>1
  <2> QED
    BY <1>3, <2>1, CostOfOlder
<1>7. ASSUME NEW t \in Nat, Log(s, t) PROVE Log(e, t)
  <2>1. \A i \in 1 .. Len(e) : k + i \in 1 .. Len(s) /\ e[i] = s[k + i]
    BY <1>1, <1>2
  <2>2. NotAfter(e, t)
    BY <1>7, <2>1 DEF Log, NotAfter
  <2>3. OldestFirst(e)
    <3> SUFFICES ASSUME NEW i \in 1 .. Len(e), NEW j \in 1 .. Len(e), i < j
                 PROVE  e[i].timestamp <= e[j].timestamp
      BY <1>2 DEF OldestFirst
    <3>1. k + i \in 1 .. Len(s) /\ k + j \in 1 .. Len(s) /\ k + i < k + j
      BY <2>1
    <3> QED
      BY <1>2, <1>7, <2>1, <3>1 DEF Log, OldestFirst
  <2> QED
    BY <1>1, <2>2, <2>3 DEF Log
<1> QED
  BY <1>1, <1>4, <1>5, <1>6, <1>7 DEF e

\* A loaded entry is put behind the entries of its time and before.
LEMMA InsertIs ==
  ASSUME NEW s \in Seq(Entry), NEW e \in Entry
  PROVE  \E j \in 0 .. Len(s) :
           /\ Insert(s, e) \in Seq(Entry)
           /\ Len(Insert(s, e)) = Len(s) + 1
           /\ Insert(s, e)[j + 1] = e
           /\ \A i \in 1 .. j : Insert(s, e)[i] = s[i]
           /\ \A i \in j + 1 .. Len(s) : Insert(s, e)[i + 1] = s[i]
           /\ j # 0 => s[j].timestamp <= e.timestamp
           /\ \A i \in j + 1 .. Len(s) : s[i].timestamp > e.timestamp
<1> DEFINE D == {i \in DOMAIN s : s[i].timestamp <= e.timestamp}
           j == Max({0} \cup D)
<1>1. Len(s) \in Nat /\ DOMAIN s = 1 .. Len(s)
      /\ \A i \in 1 .. Len(s) : s[i] \in Entry /\ s[i].timestamp \in Nat
  BY WorthType
<1>2. j \in {0} \cup D /\ \A i \in {0} \cup D : i <= j
  <2>1. {0} \cup D \in SUBSET (0 .. Len(s)) /\ {0} \cup D # {}
    BY <1>1
  <2> HIDE DEF D
  <2> QED
    BY <1>1, <2>1, MaxOfIndexes
<1>3. Insert(s, e) = SubSeq(s, 1, (1 + j) - 1) \o <<e>> \o SubSeq(s, 1 + j, Len(s))
  <2>1. Insert(s, e) = InsertAt(s, 1 + j, e)
    BY DEF Insert
  <2> HIDE DEF j
  <2> QED
    BY <2>1 DEF InsertAt
<1> HIDE DEF j
<1>4. j \in 0 .. Len(s) /\ (1 + j) - 1 = j /\ 1 + j = j + 1
  BY <1>1, <1>2
<1> DEFINE a == SubSeq(s, 1, j)
           b == SubSeq(s, j + 1, Len(s))
<1>5. a \in Seq(Entry) /\ Len(a) = j /\ \A i \in 1 .. j : a[i] = s[i]
  BY <1>4, FirstPart
<1>6. b \in Seq(Entry) /\ Len(b) = Len(s) - j /\ \A i \in 1 .. Len(s) - j : b[i] = s[j + i]
  BY <1>4, LastPart
<1>7. Insert(s, e) = (a \o <<e>>) \o b
  BY <1>3, <1>4
<1> HIDE DEF a, b
<1> DEFINE ae == a \o <<e>>
<1>8. ae \in Seq(Entry) /\ Len(ae) = j + 1 /\ ae[j + 1] = e /\ \A i \in 1 .. j : ae[i] = s[i]
  <2>1. ae = Append(a, e)
    BY <1>5, AppendIsConcat
  <2> HIDE DEF ae
  <2> QED
    BY <1>5, <2>1, AppendProperties
<1> HIDE DEF ae
<1>9. /\ ae \o b \in Seq(Entry)
      /\ Len(ae \o b) = Len(ae) + Len(b)
      /\ \A i \in 1 .. Len(ae) + Len(b) :
           (ae \o b)[i] = IF i <= Len(ae) THEN ae[i] ELSE b[i - Len(ae)]
  BY <1>6, <1>8, ConcatProperties
<1> DEFINE x == ae \o b
<1>10. x = Insert(s, e)
  BY <1>7 DEF ae
<1> HIDE DEF x
<1>11. Len(x) = Len(s) + 1 /\ Len(ae) + Len(b) = Len(s) + 1
  BY <1>1, <1>4, <1>6, <1>8, <1>9 DEF x
<1>12. x \in Seq(Entry) /\ \A i \in 1 .. Len(s) + 1 : x[i] = IF i <= j + 1 THEN ae[i] ELSE b[i - (j + 1)]
  BY <1>8, <1>9, <1>11 DEF x
<1>13. x[j + 1] = e /\ \A i \in 1 .. j : x[i] = s[i]
  <2>1. j + 1 \in 1 .. Len(s) + 1 /\ j + 1 <= j + 1
        /\ \A i \in 1 .. j : i \in 1 .. Len(s) + 1 /\ i <= j + 1
    BY <1>1, <1>4
  <2> QED
    BY <1>8, <1>12, <2>1
<1>14. ASSUME NEW i \in j + 1 .. Len(s) PROVE x[i + 1] = s[i]
  <2> DEFINE k == i - j
             m == i + 1
  <2>1. m = i + 1 /\ m \in 1 .. Len(s) + 1 /\ ~(m <= j + 1) /\ m - (j + 1) = k
        /\ k \in 1 .. Len(s) - j /\ j + k = i
    BY <1>1, <1>4
  <2> HIDE DEF k, m
  <2>2. x[m] = b[m - (j + 1)]
    BY <1>12, <2>1
  <2>3. b[k] = s[j + k]
    BY <1>6, <2>1
  <2> QED
    BY ONLY <2>1, <2>2, <2>3
<1>15. j # 0 => s[j].timestamp <= e.timestamp
  BY <1>2
<1>16. ASSUME NEW i \in j + 1 .. Len(s) PROVE s[i].timestamp > e.timestamp
  <2>1. i \in 1 .. Len(s) /\ ~(i <= j)
    BY <1>1, <1>4
  <2>2. i \notin D
    BY <1>2, <2>1
  <2>3. e.timestamp \in Nat
    BY DEF Entry
  <2> QED
    BY <1>1, <2>1, <2>2, <2>3
<1> QED
  BY <1>4, <1>10, <1>11, <1>12, <1>13, <1>14, <1>15, <1>16

LEMMA InsertAdds ==
  ASSUME NEW s \in Seq(Entry), NEW e \in Entry, NEW c \in Int
  PROVE  /\ Insert(s, e) \in Seq(Entry)
         /\ CostAfter(Insert(s, e), c) = CostAfter(s, c) + Worth(e, c)
         /\ \A t \in Nat : Log(s, t) /\ e.timestamp <= t => Log(Insert(s, e), t)
<1> DEFINE x == Insert(s, e)
<1>1. PICK j \in 0 .. Len(s) :
        /\ x \in Seq(Entry)
        /\ Len(x) = Len(s) + 1
        /\ x[j + 1] = e
        /\ \A i \in 1 .. j : x[i] = s[i]
        /\ \A i \in j + 1 .. Len(s) : x[i + 1] = s[i]
        /\ j # 0 => s[j].timestamp <= e.timestamp
        /\ \A i \in j + 1 .. Len(s) : s[i].timestamp > e.timestamp
  BY InsertIs
<1> HIDE DEF x
<1>2. Len(s) \in Nat /\ DOMAIN s = 1 .. Len(s) /\ DOMAIN x = 1 .. Len(x) /\ Len(x) \in Nat
      /\ \A i \in 1 .. Len(s) : s[i] \in Entry /\ s[i].timestamp \in Nat
  BY <1>1, WorthType
<1>3. e.timestamp \in Nat /\ Worth(e, c) \in Nat
  BY DEF Entry, Worth
\* The sum: that of the entries before e, of e, and of the entries behind it.
<1> DEFINE a == SubSeq(s, 1, j)
           b == SubSeq(s, j + 1, Len(s))
           ae == Append(a, e)
<1>4. a \in Seq(Entry) /\ Len(a) = j /\ \A i \in 1 .. j : a[i] = s[i]
  BY FirstPart
<1>5. b \in Seq(Entry) /\ Len(b) = Len(s) - j /\ \A i \in 1 .. Len(s) - j : b[i] = s[j + i]
  BY LastPart
<1> HIDE DEF a, b
<1>6. ae \in Seq(Entry) /\ Len(ae) = j + 1 /\ ae[j + 1] = e /\ \A i \in 1 .. j : ae[i] = s[i]
  BY <1>4, AppendProperties
<1>7. CostAfter(ae, c) = CostAfter(a, c) + Worth(e, c)
  BY <1>4, CostOfAppend
<1> HIDE DEF ae
<1>8. CostAfter(s, c) = CostAfter(a, c) + CostAfter(b, c)
  <2>1. Len(s) = Len(a) + Len(b)
    BY <1>2, <1>4, <1>5
  <2>2. \A i \in 1 .. Len(a) : s[i] = a[i]
    BY <1>4
  <2>3. \A i \in 1 .. Len(b) : s[Len(a) + i] = b[i]
    BY <1>4, <1>5
  <2> QED
    BY <1>4, <1>5, <2>1, <2>2, <2>3, CostSplits
<1>9. CostAfter(x, c) = CostAfter(ae, c) + CostAfter(b, c)
  <2>1. Len(x) = Len(ae) + Len(b)
    BY <1>1, <1>2, <1>5, <1>6
  <2>2. \A i \in 1 .. Len(ae) : x[i] = ae[i]
    <3> TAKE i \in 1 .. Len(ae)
    <3>1. i \in 1 .. j \/ i = j + 1
      BY <1>2, <1>6
    <3> QED
      BY <1>1, <1>6, <3>1
  <2>3. \A i \in 1 .. Len(b) : x[Len(ae) + i] = b[i]
    <3> TAKE i \in 1 .. Len(b)
    <3> DEFINE k == j + i
    <3>1. k \in j + 1 .. Len(s) /\ Len(ae) + i = k + 1 /\ i \in 1 .. Len(s) - j
      BY <1>2, <1>5, <1>6
    <3>2. b[i] = s[k]
      BY <1>5, <3>1
    <3> HIDE DEF k
    <3>3. x[k + 1] = s[k]
      BY <1>1, <3>1
    <3> QED
      BY ONLY <3>1, <3>2, <3>3
  <2> QED
    BY <1>1, <1>5, <1>6, <2>1, <2>2, <2>3, CostSplits
<1>10. CostAfter(x, c) = CostAfter(s, c) + Worth(e, c)
  <2>1. CostAfter(a, c) \in Nat /\ CostAfter(b, c) \in Nat
    BY <1>4, <1>5, CostType
  <2> QED
    BY <1>3, <1>7, <1>8, <1>9, <2>1
\* The order.
<1>11. ASSUME NEW t \in Nat, Log(s, t), e.timestamp <= t PROVE Log(x, t)
  <2>1. \A i, k \in 1 .. Len(s) : i <= k => s[i].timestamp <= s[k].timestamp
    BY <1>2, <1>11 DEF Log, OldestFirst
  <2>2. ASSUME NEW i \in 1 .. Len(x)
        PROVE  \/ i \in 1 .. j /\ x[i] = s[i]
               \/ i = j + 1 /\ x[i] = e
               \/ i - 1 \in j + 1 .. Len(s) /\ x[i] = s[i - 1]
    <3>1. i \in 1 .. j \/ i = j + 1 \/ i - 1 \in j + 1 .. Len(s)
      BY <1>1, <1>2
    <3>2. i - 1 + 1 = i
      BY <1>2
    <3> QED
      BY <1>1, <3>1, <3>2
  <2>3. NotAfter(x, t)
    <3> SUFFICES ASSUME NEW i \in 1 .. Len(x) PROVE x[i].timestamp <= t
      BY DEF NotAfter
    <3>1. \A k \in 1 .. Len(s) : s[k].timestamp <= t
      BY <1>11 DEF Log, NotAfter
    <3>2. \A k \in j + 1 .. Len(s) : k \in 1 .. Len(s)
      BY <1>2
    <3>3. \A k \in 1 .. j : k \in 1 .. Len(s)
      BY <1>2
    <3> QED
      BY <1>11, <2>2, <3>1, <3>2, <3>3
  <2>4. \A i \in 1 .. j : s[i].timestamp <= e.timestamp
    <3> TAKE i \in 1 .. j
    <3>1. i \in 1 .. Len(s) /\ j \in 1 .. Len(s) /\ i <= j /\ j # 0
      BY <1>2
    <3>2. s[i].timestamp <= s[j].timestamp /\ s[j].timestamp <= e.timestamp
      BY <1>1, <2>1, <3>1
    <3> QED
      BY <1>2, <1>3, <3>1, <3>2
  <2>5. ASSUME NEW i \in 1 .. Len(x), NEW k \in 1 .. Len(x), i < k
        PROVE  x[i].timestamp <= x[k].timestamp
    <3>1. \A m \in j + 1 .. Len(s) : m \in 1 .. Len(s) /\ e.timestamp <= s[m].timestamp
      BY <1>1, <1>2, <1>3
    <3>2. \A m \in 1 .. j : m \in 1 .. Len(s)
      BY <1>2
    <3>3. CASE i \in 1 .. j /\ x[i] = s[i]
      <4>1. CASE k \in 1 .. j /\ x[k] = s[k]
        BY <2>1, <2>5, <3>2, <3>3, <4>1
      <4>2. CASE k = j + 1 /\ x[k] = e
        BY <2>4, <3>3, <4>2
      <4>3. CASE k - 1 \in j + 1 .. Len(s) /\ x[k] = s[k - 1]
        <5>1. i <= k - 1
          BY <2>5, <3>3, <4>3
        <5> QED
          BY <2>1, <3>1, <3>2, <3>3, <4>3, <5>1
      <4> QED
        BY <2>2, <4>1, <4>2, <4>3
    <3>4. CASE i = j + 1 /\ x[i] = e
      <4>1. k - 1 \in j + 1 .. Len(s) /\ x[k] = s[k - 1]
        BY <2>2, <2>5, <3>4
      <4> QED
        BY <3>1, <3>4, <4>1
    <3>5. CASE i - 1 \in j + 1 .. Len(s) /\ x[i] = s[i - 1]
      <4>1. k - 1 \in j + 1 .. Len(s) /\ x[k] = s[k - 1] /\ i - 1 <= k - 1
        BY <2>2, <2>5, <3>5
      <4> QED
        BY <2>1, <3>1, <3>5, <4>1
    <3> QED
      BY <2>2, <3>3, <3>4, <3>5
  <2>6. OldestFirst(x)
    BY <1>2, <2>5 DEF OldestFirst
  <2> QED
    BY <1>1, <2>3, <2>6 DEF Log
<1> QED
  BY <1>1, <1>10, <1>11 DEF x

\* The store's answer is inserted entry by entry.
LEMMA MergedIs ==
  ASSUME NEW s \in Seq(Entry), NEW l \in Seq(Entry)
  PROVE  \E M : /\ M[0] = s
                /\ \A m \in 0 .. Len(l) - 1 : M[m + 1] = Insert(M[m], l[m + 1])
                /\ Merged(s, l) = M[Len(l)]
<1> DEFINE n == Len(l)
           V == Seq(Entry)
           step == [p \in V \X (1 .. n) |-> Insert(p[1], l[p[2]])]
<1>1. n \in Nat /\ DOMAIN l = 1 .. n /\ \A i \in 1 .. n : l[i] \in Entry
  BY WorthType, 0 \in Int
<1>2. \A x \in V, i \in 1 .. n : Insert(x, l[i]) \in V
  BY <1>1, InsertIs
<1>3. step \in [V \X (1 .. n) -> V] /\ \A x \in V, i \in 1 .. n : step[x, i] = Insert(x, l[i])
  BY <1>2
<1> DEFINE F == CHOOSE iter : iter = [S \in SUBSET DOMAIN l |->
                  IF S = {} THEN s ELSE LET x == Max(S) IN Insert(iter[S \ {x}], l[x])]
<1>4. Merged(s, l) = F[DOMAIN l]
  BY Zenon DEF Merged, FoldLeft, MapThenFoldSet
<1> HIDE DEF step, n, V
<1>5. PICK f \in [SUBSET (1 .. n) -> V] : Folds(f, step, s, n)
  BY <1>1, <1>3, FoldExists DEF V
<1>6. ASSUME NEW S \in SUBSET (1 .. n), S # {}
      PROVE  step[f[S \ {Max(S)}], Max(S)] = Insert(f[S \ {Max(S)}], l[Max(S)])
  <2>1. Max(S) \in S
    <3>1. S \in SUBSET (0 .. n)
      OBVIOUS
    <3> QED
      BY <1>1, <1>6, <3>1, MaxOfIndexes
  <2>2. Max(S) \in 1 .. n /\ f[S \ {Max(S)}] \in V
    BY <2>1
  <2> QED
    BY <1>3, <2>2
<1>7. f = [S \in SUBSET DOMAIN l |->
             IF S = {} THEN s ELSE LET x == Max(S) IN Insert(f[S \ {x}], l[x])]
  BY <1>1, <1>5, <1>6 DEF Folds
<1>8. F = [S \in SUBSET DOMAIN l |->
             IF S = {} THEN s ELSE LET x == Max(S) IN Insert(F[S \ {x}], l[x])]
  BY <1>7
<1> HIDE DEF F
<1> DEFINE M == [m \in 0 .. n |-> F[1 .. m]]
<1>9. M[0] = s
  <2>1. 1 .. 0 = {} /\ 0 \in 0 .. n
    BY <1>1
  <2>2. F[{}] = s
    BY <1>8
  <2> QED
    BY <2>1, <2>2
<1>10. ASSUME NEW m \in 0 .. n - 1 PROVE M[m + 1] = Insert(M[m], l[m + 1])
  <2>1. 1 .. m + 1 \in SUBSET (1 .. n) /\ m + 1 \in 1 .. m + 1 /\ (1 .. m + 1) \ {m + 1} = 1 .. m
        /\ 1 .. m + 1 \in SUBSET Int /\ m + 1 \in 0 .. n /\ m \in 0 .. n
        /\ \A y \in 1 .. m + 1 : y <= m + 1
    BY <1>1
  <2>2. Max(1 .. m + 1) = m + 1
    BY <2>1, MaxIs
  <2>3. F[1 .. m + 1] = Insert(F[1 .. m], l[m + 1])
    BY <1>1, <1>8, <2>1, <2>2
  <2>4. M[m + 1] = F[1 .. m + 1] /\ M[m] = F[1 .. m]
    BY <2>1
  <2> QED
    BY <2>3, <2>4
<1>11. Merged(s, l) = M[n]
  BY <1>1, <1>4
<1> HIDE DEF M
<1> QED
  BY <1>9, <1>10, <1>11 DEF n

\* So the merged log is a log, and costs what the two have cost.
LEMMA MergedAdds ==
  ASSUME NEW t \in Nat, NEW s, Log(s, t), NEW l, Log(l, t)
  PROVE  /\ Log(Merged(s, l), t)
         /\ \A c \in Int : CostAfter(Merged(s, l), c) = CostAfter(s, c) + CostAfter(l, c)
<1> DEFINE n == Len(l)
<1>1. s \in Seq(Entry) /\ l \in Seq(Entry) /\ n \in Nat
      /\ \A i \in 1 .. n : l[i] \in Entry /\ l[i].timestamp <= t
  BY WorthType, 0 \in Int DEF Log, NotAfter
<1>2. PICK M : /\ M[0] = s
               /\ \A m \in 0 .. n - 1 : M[m + 1] = Insert(M[m], l[m + 1])
               /\ Merged(s, l) = M[n]
  BY <1>1, MergedIs
<1> HIDE DEF n
<1> DEFINE Bad == {m \in Nat : m <= n /\ ~Log(M[m], t)}
<1>3. \A m \in 0 .. n : Log(M[m], t)
  <2> SUFFICES ASSUME Bad # {} PROVE FALSE
    <3>1. \A m \in 0 .. n : m \in Nat /\ m <= n
      BY <1>1
    <3> QED
      BY <3>1
  <2> DEFINE m == Min(Bad)
  <2>1. m \in Bad /\ \A j \in Bad : m <= j
    <3>1. Bad \in SUBSET Nat
      OBVIOUS
    <3> QED
      BY <3>1, MinOfNaturals
  <2> HIDE DEF m
  <2>2. m \in Nat /\ m <= n /\ ~Log(M[m], t)
    BY <2>1
  <2>3. m # 0
    BY <1>2, <2>2
  <2> DEFINE j == m - 1
  <2>4. j \in Nat /\ j <= n /\ j \in 0 .. n - 1 /\ j + 1 = m /\ ~(m <= j) /\ m \in 1 .. n
    BY <1>1, <2>2, <2>3
  <2> HIDE DEF j
  <2>5. Log(M[j], t)
    BY <2>1, <2>4
  <2>6. M[m] = Insert(M[j], l[m])
    BY <1>2, <2>4
  <2>7. M[j] \in Seq(Entry) /\ l[m] \in Entry /\ l[m].timestamp <= t
    BY <1>1, <2>4, <2>5 DEF Log
  <2>8. Log(Insert(M[j], l[m]), t)
    BY <2>5, <2>7, InsertAdds, 0 \in Int
  <2> QED
    BY <2>2, <2>6, <2>8
<1>4. ASSUME NEW c \in Int
      PROVE  CostAfter(Merged(s, l), c) = CostAfter(s, c) + CostAfter(l, c)
  <2>1. PICK T : AddsUp(T, Worths(l, c), n) /\ CostAfter(l, c) = T[n]
    BY <1>1, CostIs DEF n
  <2> DEFINE Off == {m \in Nat : m <= n /\ CostAfter(M[m], c) # CostAfter(s, c) + T[m]}
  <2>2. CASE Off = {}
    <3>1. n \in Nat /\ n <= n
      BY <1>1
    <3> QED
      BY <1>2, <2>1, <2>2, <3>1
  <2>3. CASE Off # {}
    <3> DEFINE m == Min(Off)
    <3>1. m \in Off /\ \A j \in Off : m <= j
      <4>1. Off \in SUBSET Nat
        OBVIOUS
      <4> QED
        BY <2>3, <4>1, MinOfNaturals
    <3> HIDE DEF m
    <3>2. m \in Nat /\ m <= n /\ CostAfter(M[m], c) # CostAfter(s, c) + T[m]
      BY <3>1
    <3>3. T[0] = 0 /\ CostAfter(s, c) \in Nat
      BY <1>1, <2>1, CostType DEF AddsUp
    <3>4. m # 0
      BY <1>2, <3>2, <3>3
    <3> DEFINE j == m - 1
    <3>5. j \in Nat /\ j <= n /\ j \in 0 .. n - 1 /\ j \in 0 .. n /\ j + 1 = m /\ ~(m <= j)
          /\ m \in 1 .. n
      BY <1>1, <3>2, <3>4
    <3> HIDE DEF j
    <3>6. CostAfter(M[j], c) = CostAfter(s, c) + T[j]
      BY <3>1, <3>5
    <3>7. M[m] = Insert(M[j], l[m])
      BY <1>2, <3>5
    <3>8. M[j] \in Seq(Entry) /\ l[m] \in Entry
      BY <1>1, <1>3, <3>5 DEF Log
    <3>9. CostAfter(Insert(M[j], l[m]), c) = CostAfter(M[j], c) + Worth(l[m], c)
      BY <3>8, InsertAdds
    <3>10. Worths(l, c)[m] = Worth(l[m], c)
      BY <3>5 DEF Worths, n
    <3>11. T[j + 1] = T[j] + Worths(l, c)[j + 1] /\ T[j] \in Nat /\ Worths(l, c)[m] \in Nat
      BY <2>1, <3>5 DEF AddsUp
    <3>12. T[m] = T[j] + Worth(l[m], c)
      BY ONLY <3>5, <3>10, <3>11
    <3> HIDE DEF Off
    <3>13. CostAfter(M[m], c) = CostAfter(s, c) + T[m]
      BY ONLY <3>3, <3>6, <3>7, <3>9, <3>10, <3>11, <3>12
    <3> QED
      BY <3>2, <3>13
  <2> QED
    BY <2>2, <2>3
<1>5. n \in 0 .. n
  BY <1>1
<1> QED
  BY <1>2, <1>3, <1>4, <1>5

(***************************************************************************)
(* The budget check and its wait loop.                                     *)
(***************************************************************************)
LEMMA Windows ==
  /\ MONTH_MS \in Nat
  /\ \A p \in Period : WindowMs[p] \in Nat /\ WindowMs[p] <= MONTH_MS
BY CostAssumption DEF WindowMs, Period

\* Times that no entry lies between see the same costs.
LEMMA CostSame ==
  ASSUME NEW s \in Seq(Entry), NEW c \in Int, NEW d \in Int, c <= d,
         \A i \in 1 .. Len(s) : s[i].timestamp > d
  PROVE  CostAfter(s, c) = CostAfter(s, d)
<1>1. PICK T : AddsUp(T, Worths(s, c), Len(s)) /\ CostAfter(s, c) = T[Len(s)]
  BY CostIs
<1>2. PICK U : AddsUp(U, Worths(s, d), Len(s)) /\ CostAfter(s, d) = U[Len(s)]
  BY CostIs
<1>3. Len(s) \in Nat /\ \A i \in 1 .. Len(s) : s[i].timestamp \in Nat
  BY WorthType
<1>4. \A i \in 1 .. Len(s) : Worths(s, c)[0 + i] = Worths(s, d)[i]
  BY <1>3 DEF Worths, Worth
<1>5. T[0 + Len(s)] = T[0] + U[Len(s)]
  <2>1. 0 \in Nat /\ 0 + Len(s) <= Len(s) /\ Len(s) <= Len(s)
    BY <1>3
  <2> QED
    BY <1>1, <1>2, <1>3, <1>4, <2>1, SumsGrowAlike
<1>6. T[0] = 0 /\ U[Len(s)] \in Nat /\ 0 + Len(s) = Len(s)
  BY <1>1, <1>2, <1>3 DEF AddsUp
<1> QED
  BY <1>1, <1>2, <1>5, <1>6

\* The clearing time is at most that of each exceeded period and entry.
LEMMA ClearIs ==
  ASSUME NEW s \in Seq(Entry), NEW cost \in Nat, NEW t \in Nat
  PROVE  /\ NextBudgetClearMs(s, cost, t) \in Nat
         /\ \A p \in Period : Exceeds(s, p, cost, t) =>
              \A i \in AgeingOut(s, p, cost, t) :
                NextBudgetClearMs(s, cost, t) <= s[i].timestamp + WindowMs[p]
<1> DEFINE exceeded == {q \in Period : Exceeds(s, q, cost, t)}
           times == {t + MONTH_MS} \cup UNION {ClearsAt(s, p, cost, t) : p \in exceeded}
<1>1. \A p \in Period : ClearsAt(s, p, cost, t) \subseteq Nat
  <2> SUFFICES ASSUME NEW p \in Period, NEW i \in AgeingOut(s, p, cost, t)
               PROVE  s[i].timestamp + WindowMs[p] \in Nat
    BY DEF ClearsAt
  <2>1. i \in DOMAIN s
    BY DEF AgeingOut
  <2>2. s[i].timestamp \in Nat
    BY <2>1, WorthType, 0 \in Int
  <2> QED
    BY <2>2, Windows
<1>2. times \in SUBSET Nat /\ times # {}
  <2>1. t + MONTH_MS \in Nat
    BY Windows
  <2> QED
    BY <1>1, <2>1
<1>3. NextBudgetClearMs(s, cost, t) = Min(times)
  BY DEF NextBudgetClearMs
<1>4. \A p \in exceeded : \A i \in AgeingOut(s, p, cost, t) : s[i].timestamp + WindowMs[p] \in times
  BY DEF ClearsAt
<1> HIDE DEF times
<1>5. Min(times) \in times /\ \A x \in times : Min(times) <= x
  BY <1>2, MinOfNaturals
<1> QED
  BY <1>2, <1>3, <1>4, <1>5

\* A budget that is exceeded stays so until the clearing time.
LEMMA ExceededUntilClear ==
  ASSUME NEW s \in Seq(Entry), OldestFirst(s), NEW cost \in Nat, NEW t0 \in Nat, NEW t \in Nat,
         ~WithinBudget(s, cost, t0), t0 <= t, t < NextBudgetClearMs(s, cost, t0)
  PROVE  ~WithinBudget(s, cost, t)
<1>1. PICK p \in Period : Exceeds(s, p, cost, t0)
  BY DEF WithinBudget
<1> SUFFICES ASSUME ~Exceeds(s, p, cost, t) PROVE FALSE
  BY DEF WithinBudget
<1> DEFINE c == t0 - WindowMs[p]
           d == t - WindowMs[p]
<1>2. c \in Int /\ d \in Int /\ c <= d
  BY Windows
<1>3. budget[p] \in Nat /\ CostAfter(s, c) + cost > budget[p] /\ ~(CostAfter(s, d) + cost > budget[p])
  BY <1>1, CostAssumption DEF Exceeds, Spent
<1>4. /\ Len(s) \in Nat /\ DOMAIN s = 1 .. Len(s)
      /\ \A i \in 1 .. Len(s) : s[i] \in Entry /\ s[i].timestamp \in Nat
  BY WorthType, 0 \in Int
\* j is the last entry that has aged out at t.
<1> DEFINE D == {i \in DOMAIN s : s[i].timestamp <= d}
           j == Max({0} \cup D)
<1>5. j \in {0} \cup D /\ \A i \in {0} \cup D : i <= j
  <2>1. {0} \cup D \in SUBSET (0 .. Len(s)) /\ {0} \cup D # {}
    BY <1>4
  <2> HIDE DEF D
  <2> QED
    BY <1>4, <2>1, MaxOfIndexes
<1> HIDE DEF j
<1>6. j \in 0 .. Len(s)
  BY <1>4, <1>5
<1> DEFINE a == SubSeq(s, 1, j)
           b == SubSeq(s, j + 1, Len(s))
<1>7. a \in Seq(Entry) /\ Len(a) = j /\ \A i \in 1 .. j : a[i] = s[i]
  BY <1>6, FirstPart
<1>8. b \in Seq(Entry) /\ Len(b) = Len(s) - j /\ \A i \in 1 .. Len(s) - j : b[i] = s[j + i]
  BY <1>6, LastPart
<1> HIDE DEF a
<1>9. \A x \in Int : CostAfter(s, x) = CostAfter(a, x) + CostAfter(b, x)
  <2> HIDE DEF b
  <2>1. Len(s) = Len(a) + Len(b)
    BY <1>4, <1>6, <1>7, <1>8
  <2>2. \A i \in 1 .. Len(a) : s[i] = a[i]
    BY <1>7
  <2>3. \A i \in 1 .. Len(b) : s[Len(a) + i] = b[i]
    BY <1>7, <1>8
  <2> QED
    BY <1>7, <1>8, <2>1, <2>2, <2>3, CostSplits
<1>10. \A i \in 1 .. j : a[i] = s[i] /\ s[i].timestamp <= s[j].timestamp
  <2> TAKE i \in 1 .. j
  <2>1. i \in 1 .. Len(s) /\ j \in 1 .. Len(s) /\ (i < j \/ i = j)
    BY <1>4, <1>6
  <2>2. s[i].timestamp <= s[j].timestamp
    BY <1>4, <2>1 DEF OldestFirst
  <2> QED
    BY <1>7, <2>2
<1>11. \A i \in 1 .. Len(b) : b[i].timestamp > d
  <2> TAKE i \in 1 .. Len(b)
  <2> HIDE DEF b, d
  <2> DEFINE k == j + i
  <2>1. k \in 1 .. Len(s) /\ b[i] = s[k] /\ ~(k <= j)
    BY <1>4, <1>6, <1>8
  <2> HIDE DEF k
  <2>2. k \notin D
    BY <1>5, <2>1
  <2>3. ~(s[k].timestamp <= d) /\ s[k].timestamp \in Nat
    BY <1>4, <2>1, <2>2
  <2> QED
    BY <1>2, <2>1, <2>3
<1>12. j # 0 => s[j].timestamp <= d
  BY <1>5
<1>13. CostAfter(b, c) = CostAfter(b, d)
  BY <1>2, <1>8, <1>11, CostSame
<1>14. CostAfter(a, d) = 0
  <2>1. \A i \in 1 .. Len(a) : a[i].timestamp <= d
    <3> TAKE i \in 1 .. Len(a)
    <3>1. i \in 1 .. j /\ j # 0 /\ j \in 1 .. Len(s) /\ i \in 1 .. Len(s)
      BY <1>4, <1>6, <1>7
    <3> QED
      BY <1>2, <1>4, <1>10, <1>12, <3>1
  <2> QED
    BY <1>2, <1>7, <2>1, CostOfOlder
<1>15. CostAfter(b, c) \in Nat /\ CostAfter(a, c) \in Nat
  BY <1>2, <1>7, <1>8, CostType
<1>16. CostAfter(b, c) + cost <= budget[p]
  <2> DEFINE db == CostAfter(b, d)
             cb == CostAfter(b, c)
  <2>1. CostAfter(s, d) = 0 + db /\ cb = db /\ cb \in Nat
    BY <1>2, <1>9, <1>13, <1>14, <1>15
  <2> HIDE DEF db, cb
  <2> QED
    BY <1>3, <2>1 DEF cb
<1>17. j # 0 /\ s[j].timestamp > c
  <2> SUFFICES ASSUME j = 0 \/ ~(s[j].timestamp > c) PROVE FALSE
    OBVIOUS
  <2>1. \A i \in 1 .. Len(a) : a[i].timestamp <= c
    <3> TAKE i \in 1 .. Len(a)
    <3>1. i \in 1 .. j /\ j # 0 /\ j \in 1 .. Len(s) /\ i \in 1 .. Len(s)
      BY <1>4, <1>6, <1>7
    <3> QED
      BY <1>2, <1>4, <1>10, <3>1
  <2>2. CostAfter(a, c) = 0
    BY <1>2, <1>7, <2>1, CostOfOlder
  <2> DEFINE cb == CostAfter(b, c)
  <2>3. CostAfter(s, c) = 0 + cb /\ cb \in Nat /\ cb + cost <= budget[p]
    BY <1>2, <1>9, <1>15, <1>16, <2>2
  <2> HIDE DEF cb
  <2> QED
    BY <1>3, <2>3
<1>18. j \in AgeingOut(s, p, cost, t0)
  <2>1. j \in DOMAIN s
    BY <1>4, <1>6, <1>17
  <2> QED
    BY <1>16, <1>17, <2>1 DEF AgeingOut
<1>19. NextBudgetClearMs(s, cost, t0) \in Nat /\ NextBudgetClearMs(s, cost, t0) <= s[j].timestamp + WindowMs[p]
  BY <1>1, <1>18, ClearIs
<1>20. s[j].timestamp \in Nat /\ WindowMs[p] \in Nat
  BY <1>4, <1>6, <1>17, Windows
<1> QED
  BY <1>12, <1>17, <1>19, <1>20

LEMMA WaitIs ==
  ASSUME now \in Nat, NEW clearAt \in Nat, NEW deadline \in Nat
  PROVE  LET w == WaitMs(clearAt, deadline)
         IN  /\ w \in Nat /\ w >= MIN_WAIT_MS
             /\ w > MIN_WAIT_MS => w <= clearAt - now /\ w <= deadline - now
<1> DEFINE m == Min({clearAt - now, deadline - now})
<1>1. m \in Int /\ m <= clearAt - now /\ m <= deadline - now
  <2>1. CASE clearAt <= deadline
    <3>1. \E x \in {clearAt - now, deadline - now} : \A y \in {clearAt - now, deadline - now} : x <= y
      BY <2>1
    <3> QED
      BY <3>1 DEF Min
  <2>2. CASE ~(clearAt <= deadline)
    <3>1. \E x \in {clearAt - now, deadline - now} : \A y \in {clearAt - now, deadline - now} : x <= y
      BY <2>2
    <3> QED
      BY <3>1 DEF Min
  <2> QED
    BY <2>1, <2>2
<1>2. MIN_WAIT_MS \in Nat
  BY CostAssumption
<1> DEFINE w == Max({MIN_WAIT_MS, m})
<1>3. WaitMs(clearAt, deadline) = w
  BY DEF WaitMs
<1> HIDE DEF m
<1>4. w \in {MIN_WAIT_MS, m} /\ w >= MIN_WAIT_MS /\ w >= m
  <2>1. \E x \in {MIN_WAIT_MS, m} : \A y \in {MIN_WAIT_MS, m} : x >= y
    BY <1>1, <1>2
  <2> QED
    BY <2>1 DEF Max
<1> HIDE DEF w
<1> QED
  BY <1>1, <1>2, <1>3, <1>4

(***************************************************************************)
(* Types; and every log is a log.                                          *)
(***************************************************************************)
State == [pc : {"idle", "sleeping", "running", "fallback"} \cup Outcome, wakeAt : Nat, deadline : Nat]

LogsInv ==
  /\ now \in Nat
  /\ Log(entries, now) /\ Log(persisted, now) /\ Log(loading, now)
  /\ Log(log, now) /\ Log(unsaved, now) /\ Log(missed, now)

RequestsInv ==
  /\ req \in [Request -> State]
  /\ \A r \in Request : req[r].pc = "sleeping" => req[r].wakeAt <= req[r].deadline

ModesInv == onExceeded \in OnExceeded /\ warm \in {"cold", "loading", "warm"} /\ inOrder \in BOOLEAN

CostInv == LogsInv /\ RequestsInv /\ ModesInv

\* What a round of the wait loop may come to.
LEMMA QueueRoundIs ==
  ASSUME now \in Nat, NEW r \in Request, NEW s \in Seq(Entry), NEW deadline \in Nat,
         QueueRound(r, s, deadline)
  PROVE  \/ WithinBudget(s, est[r], now) /\ Set(r, Running)
         \/ /\ ~WithinBudget(s, est[r], now)
            /\ \E wakeAt \in Nat :
                 /\ Set(r, Sleeping(wakeAt, deadline))
                 /\ wakeAt <= deadline
                 /\ wakeAt > now + MIN_WAIT_MS => wakeAt <= NextBudgetClearMs(s, est[r], now)
         \/ Set(r, Ended("timedOut")) /\ now + MIN_WAIT_MS > deadline
<1> DEFINE clearAt == NextBudgetClearMs(s, est[r], now)
           w == WaitMs(clearAt, deadline)
<1>1. clearAt \in Nat
  <2>1. est[r] \in Nat
    BY CostAssumption
  <2> QED
    BY <2>1, ClearIs
<1>2. \/ WithinBudget(s, est[r], now) /\ Set(r, Running)
      \/ ~WithinBudget(s, est[r], now) /\ ~(now + w > deadline) /\ Set(r, Sleeping(now + w, deadline))
      \/ ~WithinBudget(s, est[r], now) /\ now + w > deadline /\ Set(r, Ended("timedOut"))
  BY Zenon DEF QueueRound
<1> HIDE DEF clearAt
<1>3. w \in Nat /\ w >= MIN_WAIT_MS /\ (w > MIN_WAIT_MS => w <= clearAt - now /\ w <= deadline - now)
      /\ MIN_WAIT_MS \in Nat
  BY <1>1, WaitIs, CostAssumption
<1> HIDE DEF w
<1>4. CASE ~WithinBudget(s, est[r], now) /\ ~(now + w > deadline) /\ Set(r, Sleeping(now + w, deadline))
  <2> DEFINE wakeAt == now + w
  <2>1. /\ wakeAt \in Nat /\ Set(r, Sleeping(wakeAt, deadline)) /\ wakeAt <= deadline
        /\ wakeAt > now + MIN_WAIT_MS => wakeAt <= clearAt
    BY <1>1, <1>3, <1>4
  <2> HIDE DEF wakeAt
  <2> QED
    BY <1>4, <2>1 DEF clearAt
<1>5. CASE ~WithinBudget(s, est[r], now) /\ now + w > deadline /\ Set(r, Ended("timedOut"))
  <2>1. now + MIN_WAIT_MS > deadline
    BY <1>3, <1>5
  <2> QED
    BY <1>5, <2>1
<1> QED
  BY <1>2, <1>4, <1>5

\* The steps that evict from the log and change no other.
Evicts ==
  /\ entries' = Evict(entries, now)
  /\ UNCHANGED <<now, onExceeded, persisted, loading, warm, log, unsaved, missed, inOrder>>

LEMMA EvictKeeps ==
  ASSUME NEW s, NEW t \in Nat, Log(s, t), NEW c \in Int
  PROVE  /\ Evict(s, t) \in Seq(Entry) /\ Log(Evict(s, t), t)
         /\ CostAfter(Evict(s, t), c) <= CostAfter(s, c)
         /\ t - MONTH_MS <= c => CostAfter(Evict(s, t), c) = CostAfter(s, c)
<1>1. s \in Seq(Entry)
  BY DEF Log
<1>2. t - MONTH_MS \in Int /\ (t - MONTH_MS <= c => t - MONTH_MS <= c + 1)
  BY Windows
<1> QED
  BY <1>1, <1>2, SinceKeeps DEF Evict

LEMMA AppendLog ==
  ASSUME NEW s, NEW t \in Nat, Log(s, t), NEW e \in Entry, e.timestamp = t
  PROVE  Log(Append(s, e), t)
<1> DEFINE x == Append(s, e)
<1>1. s \in Seq(Entry) /\ Len(s) \in Nat /\ DOMAIN s = 1 .. Len(s)
      /\ \A i \in 1 .. Len(s) : s[i].timestamp \in Nat /\ s[i].timestamp <= t
  BY WorthType, 0 \in Int DEF Log, NotAfter
<1>2. x \in Seq(Entry) /\ Len(x) = Len(s) + 1 /\ x[Len(s) + 1] = e /\ \A i \in 1 .. Len(s) : x[i] = s[i]
  BY <1>1, AppendProperties
<1> HIDE DEF x
<1>3. DOMAIN x = 1 .. Len(x)
  BY <1>2, LenProperties
<1>4. \A i \in 1 .. Len(x) : i \in 1 .. Len(s) \/ i = Len(s) + 1
  BY <1>1, <1>2
<1>5. NotAfter(x, t)
  BY <1>1, <1>2, <1>4 DEF NotAfter
<1>6. ASSUME NEW i \in 1 .. Len(x), NEW j \in 1 .. Len(x), i < j
      PROVE  x[i].timestamp <= x[j].timestamp
  <2>1. i \in 1 .. Len(s)
    BY <1>1, <1>2, <1>6
  <2>2. CASE j \in 1 .. Len(s)
    BY <1>1, <1>2, <1>6, <2>1, <2>2 DEF Log, OldestFirst
  <2>3. CASE j = Len(s) + 1
    BY <1>1, <1>2, <2>1, <2>3
  <2> QED
    BY <1>4, <2>2, <2>3
<1> QED
  BY <1>2, <1>3, <1>5, <1>6 DEF Log, OldestFirst, x

LEMMA LogLater ==
  ASSUME NEW s, NEW t \in Nat, Log(s, t)
  PROVE  Log(s, t + 1)
<1>1. \A i \in 1 .. Len(s) : s[i].timestamp \in Nat
  BY WorthType, 0 \in Int DEF Log
<1> QED
  BY <1>1 DEF Log, NotAfter

\* What is in the store after an append.
LEMMA StoredIs ==
  ASSUME NEW s, now \in Nat, Log(s, now), NEW e \in Entry, e.timestamp = now, NEW c \in Int
  PROVE  LET w == IF Holds(s, e) THEN 0 ELSE Worth(e, c)
         IN  /\ Log(Stored(s, e), now)
             /\ CostAfter(Stored(s, e), c) <= CostAfter(s, c) + w
             /\ now - MONTH_MS <= c => CostAfter(Stored(s, e), c) = CostAfter(s, c) + w
<1> DEFINE x == IF Holds(s, e) THEN s ELSE Append(s, e)
           w == IF Holds(s, e) THEN 0 ELSE Worth(e, c)
           since == now - MONTH_MS + 1
<1>1. s \in Seq(Entry) /\ Worth(e, c) \in Nat
  BY DEF Log, Worth, Entry
<1>2. CostAfter(s, c) \in Nat
  BY <1>1, CostType
<1>3. CostAfter(Append(s, e), c) = CostAfter(s, c) + Worth(e, c)
  BY <1>1, CostOfAppend
<1>4. x \in Seq(Entry) /\ Log(x, now) /\ CostAfter(x, c) = CostAfter(s, c) + w
  <2>1. CASE Holds(s, e)
    BY <1>1, <1>2, <2>1
  <2>2. CASE ~Holds(s, e)
    <3>1. Log(Append(s, e), now)
      BY AppendLog
    <3> QED
      BY <1>3, <2>2, <3>1 DEF Log
  <2> QED
    BY <2>1, <2>2
<1>5. Stored(s, e) = Since(x, since)
  BY DEF Stored
<1> HIDE DEF x, w
<1>6. since \in Int /\ (now - MONTH_MS <= c => since <= c + 1)
  BY Windows
<1> HIDE DEF since
<1>7. /\ CostAfter(Since(x, since), c) <= CostAfter(x, c)
      /\ now - MONTH_MS <= c => CostAfter(Since(x, since), c) = CostAfter(x, c)
      /\ Log(Since(x, since), now)
  BY <1>4, <1>6, SinceKeeps
<1> QED
  BY <1>4, <1>5, <1>7 DEF w

\* Both loads and merges keep logs.
LEMMA LoadedIs ==
  ASSUME NEW s, now \in Nat, Log(s, now), NEW c \in Int
  PROVE  /\ Log(Loaded(s), now)
         /\ CostAfter(Loaded(s), c) <= CostAfter(s, c)
         /\ now - MONTH_MS <= c => CostAfter(Loaded(s), c) = CostAfter(s, c)
<1>1. Loaded(s) = Evict(s, now)
  BY DEF Loaded, Evict
<1> QED
  BY <1>1, EvictKeeps

LEMMA CostInvInit == Init => CostInv
<1> SUFFICES ASSUME Init PROVE CostInv
  OBVIOUS
<1>1. LogsInv
  BY NoLog DEF Init, LogsInv
<1>2. RequestsInv
  BY DEF Init, RequestsInv, State, Idle, At
<1>3. ModesInv
  BY DEF Init, ModesInv
<1> QED
  BY <1>1, <1>2, <1>3 DEF CostInv

LEMMA LogsStep ==
  ASSUME CostInv, [Next]_vars
  PROVE  LogsInv'
<1> USE DEF CostInv, LogsInv
<1>1. CASE Evicts
  <2>1. Log(Evict(entries, now), now)
    BY EvictKeeps, 0 \in Int
  <2> QED
    BY <1>1, <2>1 DEF Evicts
<1>2. ASSUME NEW r \in Request, NEW u \in Usage, NEW appended \in BOOLEAN, Record(r, u, appended)
      PROVE  LogsInv'
  <2> DEFINE e == [timestamp |-> now, usage |-> u, costUsd |-> price[u]]
  <2>1. e \in Entry /\ e.timestamp = now
    BY CostAssumption DEF Entry
  <2>2. /\ entries' = Append(entries, e) /\ now' = now /\ loading' = loading
        /\ persisted' = Stored(persisted, e) \/ persisted' = persisted
        /\ missed' = missed
        /\ \/ log' = Append(log, e) /\ unsaved' = unsaved
           \/ unsaved' = Append(unsaved, e) /\ log' = log
    BY <1>2 DEF Record
  <2> HIDE DEF e
  <2>3. /\ Log(Append(entries, e), now) /\ Log(Append(log, e), now) /\ Log(Append(unsaved, e), now)
        /\ Log(Stored(persisted, e), now)
    BY <2>1, AppendLog, StoredIs, 0 \in Int
  <2> QED
    BY <2>2, <2>3
<1>3. ASSUME NEW r \in Request, CallFails(r) PROVE LogsInv'
  BY <1>3 DEF CallFails
<1>4. CASE Restart
  BY <1>4, NoLog DEF Restart
<1>5. CASE WarmUp
  <2>1. Log(Loaded(persisted), now)
    BY LoadedIs, 0 \in Int
  <2> QED
    BY <1>5, <2>1 DEF WarmUp
<1>6. CASE WarmUpEnds
  <2>1. Log(Merged(entries, loading), now)
    BY MergedAdds
  <2> QED
    BY <1>6, <2>1, NoLog DEF WarmUpEnds
<1>7. CASE Reset
  BY <1>7, NoLog DEF Reset
<1>8. CASE Tick
  BY <1>8, LogLater DEF Tick
<1>9. CASE UNCHANGED vars
  BY <1>9 DEF vars
<1>10. ASSUME NEW r \in Request, Ask(r) \/ Wake(r) PROVE Evicts
  BY <1>10 DEF Ask, Wake, Evicts
<1>11. GetReport => Evicts
  BY DEF GetReport, Evicts
<1> QED
  BY <1>1, <1>2, <1>3, <1>4, <1>5, <1>6, <1>7, <1>8, <1>9, <1>10, <1>11 DEF Next, CostStep, RequestStep

LEMMA RequestsStep ==
  ASSUME CostInv, [Next]_vars
  PROVE  RequestsInv'
<1> USE DEF CostInv, RequestsInv
<1>0. now \in Nat /\ entries \in Seq(Entry) /\ Evict(entries, now) \in Seq(Entry)
  BY EvictKeeps, 0 \in Int DEF LogsInv, Log
<1>1. ASSUME NEW r \in Request, NEW state \in State,
             state.pc = "sleeping" => state.wakeAt <= state.deadline, Set(r, state)
      PROVE  RequestsInv'
  <2>1. req' = [req EXCEPT ![r] = state]
    BY <1>1 DEF Set
  <2>2. req' \in [Request -> State]
    BY <2>1
  <2>3. \A q \in Request : req'[q] = IF q = r THEN state ELSE req[q]
    BY <2>1
  <2> QED
    BY <1>1, <2>2, <2>3
<1>2. Running \in State /\ Running.pc = "running" /\ Fallback \in State /\ Fallback.pc = "fallback"
  BY DEF Running, Fallback, At, State
<1>3. \A outcome \in Outcome : Ended(outcome) \in State /\ Ended(outcome).pc = outcome
  BY DEF Ended, At, State
<1>4. /\ {"recorded", "failed", "overBudget", "timedOut", "lost"} = Outcome
      /\ "sleeping" \notin Outcome
  BY DEF Outcome
<1>5. ASSUME NEW r \in Request, NEW deadline \in Nat, QueueRound(r, Evict(entries, now), deadline)
      PROVE  RequestsInv'
  <2>1. CASE Set(r, Running)
    BY <1>1, <1>2, <2>1
  <2>2. CASE Set(r, Ended("timedOut"))
    BY <1>1, <1>3, <1>4, <2>2
  <2>3. ASSUME NEW wakeAt \in Nat, Set(r, Sleeping(wakeAt, deadline)), wakeAt <= deadline
        PROVE  RequestsInv'
    <3>1. Sleeping(wakeAt, deadline) \in State /\ Sleeping(wakeAt, deadline).wakeAt = wakeAt
          /\ Sleeping(wakeAt, deadline).deadline = deadline
      BY DEF Sleeping, At, State
    <3> QED
      BY <1>1, <2>3, <3>1
  <2> QED
    BY <1>0, <1>5, <2>1, <2>2, <2>3, QueueRoundIs
<1>6. ASSUME NEW r \in Request, Ask(r) PROVE RequestsInv'
  <2>1. CASE onExceeded = "queue"
    <3>1. now + TimeoutMs \in Nat
      BY <1>0, CostAssumption
    <3> QED
      BY <1>5, <1>6, <2>1, <3>1 DEF Ask
  <2>2. CASE onExceeded # "queue"
    <3>1. Set(r, Running) \/ Set(r, Fallback) \/ Set(r, Ended("overBudget"))
      BY <1>6, <2>2 DEF Ask, CheckRound
    <3> QED
      BY <1>1, <1>2, <1>3, <1>4, <3>1
  <2> QED
    BY <2>1, <2>2
<1>7. ASSUME NEW r \in Request, Wake(r) PROVE RequestsInv'
  <2>1. req[r].deadline \in Nat
    BY DEF State
  <2> QED
    BY <1>5, <1>7, <2>1 DEF Wake, NextDeadline
<1>8. ASSUME NEW r \in Request, NEW u \in Usage, NEW appended \in BOOLEAN, Record(r, u, appended)
      PROVE  RequestsInv'
  BY <1>1, <1>3, <1>4, <1>8 DEF Record
<1>9. ASSUME NEW r \in Request, CallFails(r) PROVE RequestsInv'
  BY <1>1, <1>3, <1>4, <1>9 DEF CallFails
<1>10. CASE Restart
  <2>1. \A r \in Request : req'[r] = Ended("lost") \/ req'[r] = req[r]
    BY <1>10 DEF Restart
  <2>2. req' = [r \in Request |-> IF req[r].pc \in {"sleeping", "running", "fallback"}
                                  THEN Ended("lost") ELSE req[r]]
    BY <1>10 DEF Restart
  <2>3. \A r \in Request : req'[r] \in State
    BY <1>3, <1>4, <2>1
  <2>4. req' \in [Request -> State]
    BY <2>2, <2>3
  <2> QED
    BY <1>3, <1>4, <2>1, <2>4
<1>11. CASE UNCHANGED req
  BY <1>11
<1>12. WarmUp \/ WarmUpEnds \/ Reset \/ GetReport \/ Tick \/ UNCHANGED vars => UNCHANGED req
  BY DEF WarmUp, WarmUpEnds, Reset, GetReport, Tick, vars
<1> QED
  BY <1>6, <1>7, <1>8, <1>9, <1>10, <1>11, <1>12 DEF Next, CostStep, RequestStep

LEMMA ModesStep ==
  ASSUME CostInv, [Next]_vars
  PROVE  ModesInv'
<1> USE DEF CostInv, ModesInv
<1>1. ASSUME UNCHANGED <<onExceeded, warm, inOrder>> PROVE ModesInv'
  BY <1>1
<1>2. ASSUME NEW r \in Request, RequestStep(r) \/ Ask(r) PROVE ModesInv'
  BY <1>1, <1>2 DEF RequestStep, Wake, CallFails, Record, Ask
<1>3. Restart \/ WarmUp \/ WarmUpEnds \/ Reset => ModesInv'
  BY DEF Restart, WarmUp, WarmUpEnds, Reset
<1>4. GetReport \/ Tick \/ UNCHANGED vars => UNCHANGED <<onExceeded, warm, inOrder>>
  BY DEF GetReport, Tick, vars
<1> QED
  BY <1>1, <1>2, <1>3, <1>4 DEF Next, CostStep

LEMMA CostStepInv == CostInv /\ [Next]_vars => CostInv'
BY LogsStep, RequestsStep, ModesStep DEF CostInv

LEMMA CostInvariant == Spec => []CostInv
BY CostInvInit, CostStepInv, PTL DEF Spec

\* The types hold, and every log stays oldest first.
THEOREM CostTypeCorrect == Spec => []TypeOK
<1>1. CostInv => TypeOK
  BY DEF CostInv, LogsInv, RequestsInv, ModesInv, Log, State, TypeOK
<1> QED
  BY <1>1, CostInvariant, PTL

(***************************************************************************)
(* Sleepers.                                                               *)
(***************************************************************************)
\* A request goes to sleep, or gives up, only in a round of its own.
LEMMA OwnRound ==
  ASSUME CostInv, [Next]_vars, NEW r \in Request
  PROVE  \/ req'[r] = req[r]
         \/ req'[r].pc \notin {"sleeping", "timedOut"}
         \/ /\ entries' = Evict(entries, now)
            /\ \E deadline \in Nat : /\ QueueRound(r, Evict(entries, now), deadline)
                                     /\ IsAt(r, "sleeping") => deadline = req[r].deadline
<1> USE DEF CostInv
<1>0. req \in [Request -> State] /\ now \in Nat
  BY DEF LogsInv, RequestsInv
<1>1. ASSUME NEW q \in Request, NEW state, Set(q, state), q # r \/ state.pc \notin {"sleeping", "timedOut"}
      PROVE  req'[r] = req[r] \/ req'[r].pc \notin {"sleeping", "timedOut"}
  BY <1>0, <1>1 DEF Set
<1>2. ASSUME NEW q \in Request, q # r, NEW s, NEW deadline, QueueRound(q, s, deadline)
      PROVE  req'[r] = req[r] \/ req'[r].pc \notin {"sleeping", "timedOut"}
  <2>1. \E state : Set(q, state)
    BY <1>2, Zenon DEF QueueRound
  <2> QED
    BY <1>1, <1>2, <2>1
<1>3. /\ Running.pc \notin {"sleeping", "timedOut"} /\ Fallback.pc \notin {"sleeping", "timedOut"}
      /\ \A outcome \in {"overBudget", "recorded", "failed", "lost"} :
           Ended(outcome).pc \notin {"sleeping", "timedOut"}
  BY DEF Running, Fallback, Ended, At
<1>4. ASSUME NEW q \in Request, Ask(q), q # r
      PROVE  req'[r] = req[r] \/ req'[r].pc \notin {"sleeping", "timedOut"}
  <2>1. CASE onExceeded = "queue"
    BY <1>2, <1>4, <2>1 DEF Ask
  <2>2. CASE onExceeded # "queue"
    <3>1. Set(q, Running) \/ Set(q, Fallback) \/ Set(q, Ended("overBudget"))
      BY <1>4, <2>2 DEF Ask, CheckRound
    <3> QED
      BY <1>1, <1>3, <3>1
  <2> QED
    BY <2>1, <2>2
<1>5. CASE Ask(r)
  <2>0. entries' = Evict(entries, now) /\ IsAt(r, "idle")
    BY <1>5 DEF Ask
  <2>1. CASE onExceeded = "queue"
    <3>1. now + TimeoutMs \in Nat
      BY <1>0, CostAssumption
    <3>2. QueueRound(r, Evict(entries, now), now + TimeoutMs) /\ ~IsAt(r, "sleeping")
      BY <1>5, <2>0, <2>1 DEF Ask, IsAt
    <3> QED
      BY <2>0, <3>1, <3>2
  <2>2. CASE onExceeded # "queue"
    <3>1. Set(r, Running) \/ Set(r, Fallback) \/ Set(r, Ended("overBudget"))
      BY <1>5, <2>2 DEF Ask, CheckRound
    <3> QED
      BY <1>1, <1>3, <3>1
  <2> QED
    BY <2>1, <2>2
<1>6. ASSUME NEW q \in Request, Wake(q), q # r
      PROVE  req'[r] = req[r] \/ req'[r].pc \notin {"sleeping", "timedOut"}
  BY <1>2, <1>6 DEF Wake
<1>7. CASE Wake(r)
  <2>1. req[r].deadline \in Nat
    BY <1>0 DEF State
  <2> QED
    BY <1>7, <2>1 DEF Wake, NextDeadline
<1>8. ASSUME NEW q \in Request, NEW u \in Usage, NEW appended \in BOOLEAN, Record(q, u, appended)
      PROVE  req'[r] = req[r] \/ req'[r].pc \notin {"sleeping", "timedOut"}
  BY <1>1, <1>3, <1>8 DEF Record
<1>9. ASSUME NEW q \in Request, CallFails(q)
      PROVE  req'[r] = req[r] \/ req'[r].pc \notin {"sleeping", "timedOut"}
  BY <1>1, <1>3, <1>9 DEF CallFails
<1>10. Restart => req'[r] = req[r] \/ req'[r].pc \notin {"sleeping", "timedOut"}
  BY <1>3 DEF Restart
<1>11. WarmUp \/ WarmUpEnds \/ Reset \/ GetReport \/ Tick \/ UNCHANGED vars => req'[r] = req[r]
  BY DEF WarmUp, WarmUpEnds, Reset, GetReport, Tick, vars
<1> QED
  BY <1>4, <1>5, <1>6, <1>7, <1>8, <1>9, <1>10, <1>11 DEF Next, CostStep, RequestStep

\* Whoever is put to sleep, or told that it timed out.
LEMMA RoundTells ==
  ASSUME CostInv, NEW r \in Request, NEW deadline \in Nat, QueueRound(r, Evict(entries, now), deadline)
  PROVE  /\ req'[r].pc = "timedOut" => now + MIN_WAIT_MS > deadline
         /\ req'[r].pc = "sleeping" =>
              /\ ~WithinBudget(Evict(entries, now), est[r], now)
              /\ req'[r].wakeAt \in Nat /\ req'[r].wakeAt <= deadline
              /\ req'[r].wakeAt > now + MIN_WAIT_MS =>
                   req'[r].wakeAt <= NextBudgetClearMs(Evict(entries, now), est[r], now)
<1> DEFINE s == Evict(entries, now)
<1>1. now \in Nat /\ s \in Seq(Entry) /\ req \in [Request -> State]
  BY EvictKeeps, 0 \in Int DEF CostInv, LogsInv, RequestsInv
<1> HIDE DEF s
<1>2. \A state : Set(r, state) => req'[r] = state
  BY <1>1 DEF Set
<1>3. CASE WithinBudget(s, est[r], now) /\ Set(r, Running)
  BY <1>2, <1>3 DEF Running, At
<1>4. ASSUME ~WithinBudget(s, est[r], now), NEW wakeAt \in Nat, Set(r, Sleeping(wakeAt, deadline)),
             wakeAt <= deadline,
             wakeAt > now + MIN_WAIT_MS => wakeAt <= NextBudgetClearMs(s, est[r], now)
      PROVE  /\ req'[r].pc = "sleeping" /\ req'[r].wakeAt \in Nat /\ req'[r].wakeAt <= deadline
             /\ req'[r].wakeAt > now + MIN_WAIT_MS => req'[r].wakeAt <= NextBudgetClearMs(s, est[r], now)
  <2>1. req'[r].pc = "sleeping" /\ req'[r].wakeAt = wakeAt
    BY <1>2, <1>4 DEF Sleeping, At
  <2> QED
    BY <1>4, <2>1
<1>5. CASE Set(r, Ended("timedOut")) /\ now + MIN_WAIT_MS > deadline
  BY <1>2, <1>5 DEF Ended, At
<1>6. \/ WithinBudget(s, est[r], now) /\ Set(r, Running)
      \/ /\ ~WithinBudget(s, est[r], now)
         /\ \E wakeAt \in Nat :
              /\ Set(r, Sleeping(wakeAt, deadline))
              /\ wakeAt <= deadline
              /\ wakeAt > now + MIN_WAIT_MS => wakeAt <= NextBudgetClearMs(s, est[r], now)
      \/ Set(r, Ended("timedOut")) /\ now + MIN_WAIT_MS > deadline
  BY <1>1, QueueRoundIs DEF s
<1>7. CASE /\ ~WithinBudget(s, est[r], now)
           /\ \E wakeAt \in Nat :
                /\ Set(r, Sleeping(wakeAt, deadline))
                /\ wakeAt <= deadline
                /\ wakeAt > now + MIN_WAIT_MS => wakeAt <= NextBudgetClearMs(s, est[r], now)
  BY <1>4, <1>7 DEF s
<1> QED
  BY <1>3, <1>5, <1>6, <1>7 DEF s

\* A request is held for its timeout: it is given up only when not even the shortest
\* sleep ends before its deadline, and every sleep ends before it.
THEOREM CostHeldUntilDeadline == Spec => HeldUntilDeadline
<1>1. ASSUME CostInv, [Next]_vars, NEW r \in Request, IsAt(r, "sleeping")
      PROVE  /\ req'[r].pc = "timedOut" => now + MIN_WAIT_MS > req[r].deadline
             /\ req'[r].pc = "sleeping" => req'[r].wakeAt <= req[r].deadline
  <2>1. CASE req'[r] = req[r]
    BY <1>1, <2>1 DEF CostInv, RequestsInv, IsAt
  <2>2. ASSUME NEW deadline \in Nat, QueueRound(r, Evict(entries, now), deadline),
               deadline = req[r].deadline
        PROVE  /\ req'[r].pc = "timedOut" => now + MIN_WAIT_MS > req[r].deadline
               /\ req'[r].pc = "sleeping" => req'[r].wakeAt <= req[r].deadline
    BY <1>1, <2>2, RoundTells
  <2> QED
    BY <1>1, <2>1, <2>2, OwnRound
<1>2. CostInv /\ [Next]_vars =>
        [\A r \in Request : IsAt(r, "sleeping") =>
           /\ req'[r].pc = "timedOut" => now + MIN_WAIT_MS > req[r].deadline
           /\ req'[r].pc = "sleeping" => req'[r].wakeAt <= req[r].deadline]_vars
  BY <1>1
<1> QED
  BY <1>2, CostInvariant, PTL DEF Spec, HeldUntilDeadline

\* Nobody sleeps through its chance: until the time it chose to wake up, the shortest
\* sleep aside, the budget stays exceeded if nothing else happens.
THEOREM CostNobodyOversleeps == Spec => NobodyOversleeps
<1>1. ASSUME CostInv, [Next]_vars, NEW r \in Request, req'[r].pc = "sleeping", req'[r] # req[r],
             NEW t \in now + MIN_WAIT_MS .. req'[r].wakeAt - 1
      PROVE  ~WithinBudget(entries', est[r], t)
  <2> DEFINE s == Evict(entries, now)
  <2>1. now \in Nat /\ s \in Seq(Entry) /\ OldestFirst(s)
    BY <1>1, EvictKeeps, 0 \in Int DEF CostInv, LogsInv, Log
  <2>2. PICK deadline \in Nat : QueueRound(r, s, deadline) /\ entries' = s
    BY <1>1, OwnRound
  <2>3. /\ ~WithinBudget(s, est[r], now)
        /\ req'[r].wakeAt \in Nat
        /\ req'[r].wakeAt > now + MIN_WAIT_MS => req'[r].wakeAt <= NextBudgetClearMs(s, est[r], now)
    BY <1>1, <2>2, RoundTells
  <2> HIDE DEF s
  <2>4. est[r] \in Nat /\ MIN_WAIT_MS \in Nat
    BY CostAssumption
  <2>5. NextBudgetClearMs(s, est[r], now) \in Nat
    BY <2>1, <2>4, ClearIs
  <2>6. t \in Nat /\ now <= t /\ t < NextBudgetClearMs(s, est[r], now)
    BY <1>1, <2>1, <2>3, <2>4, <2>5
  <2>7. ~WithinBudget(s, est[r], t)
    BY <2>1, <2>3, <2>4, <2>6, ExceededUntilClear
  <2> QED
    BY <2>2, <2>7
<1>2. CostInv /\ [Next]_vars =>
        [\A r \in Request : req'[r].pc = "sleeping" /\ req'[r] # req[r] =>
           \A t \in now + MIN_WAIT_MS .. req'[r].wakeAt - 1 : ~WithinBudget(entries', est[r], t)]_vars
  BY <1>1
<1> QED
  BY <1>2, CostInvariant, PTL DEF Spec, NobodyOversleeps

(***************************************************************************)
(* No cost is forgotten, and none is counted twice.  What was recorded and *)
(* not lost in a restart is Paid; what of it this process has not loaded   *)
(* is Missed, and is still to be had while the limiter is not warm.        *)
(***************************************************************************)
Paid(c) == CostAfter(log, c) + CostAfter(unsaved, c)

Missed(c) == CostAfter(missed, c)

NothingForgotten ==
  \A c \in Int : now - MONTH_MS <= c =>
    /\ CostAfter(log, c) <= CostAfter(persisted, c)
    /\ Paid(c) <= CostAfter(entries, c) + Missed(c)
    /\ warm = "cold" => Missed(c) <= CostAfter(persisted, c)
    /\ warm = "loading" => Missed(c) <= CostAfter(loading, c)

NothingTwice ==
  inOrder => \A c \in Int :
    /\ CostAfter(persisted, c) <= CostAfter(log, c)
    /\ CostAfter(entries, c) + Missed(c) <= Paid(c)
    /\ warm = "loading" => CostAfter(entries, c) + CostAfter(loading, c) <= Paid(c)

\* What has been spent since c is a number in every log.
Numbers(c) ==
  /\ CostAfter(entries, c) \in Nat /\ CostAfter(persisted, c) \in Nat /\ CostAfter(loading, c) \in Nat
  /\ CostAfter(log, c) \in Nat /\ CostAfter(unsaved, c) \in Nat /\ Missed(c) \in Nat

LEMMA AllNumbers ==
  ASSUME CostInv, NEW c \in Int
  PROVE  Numbers(c)
BY CostType DEF CostInv, LogsInv, Log, Numbers, Missed

\* What a step may do to the costs since c.
KeptSame(c) ==
  /\ CostAfter(persisted, c)' = CostAfter(persisted, c)
  /\ CostAfter(log, c)' = CostAfter(log, c)
  /\ CostAfter(unsaved, c)' = CostAfter(unsaved, c)

Evicting(c) ==
  /\ CostAfter(entries, c)' <= CostAfter(entries, c)
  /\ now - MONTH_MS <= c => CostAfter(entries, c)' = CostAfter(entries, c)
  /\ KeptSame(c) /\ CostAfter(loading, c)' = CostAfter(loading, c) /\ Missed(c)' = Missed(c)
  /\ warm' = warm /\ inOrder' = inOrder

Recording(c) ==
  /\ CostAfter(loading, c)' = CostAfter(loading, c) /\ Missed(c)' = Missed(c)
  /\ warm' = warm /\ inOrder' = inOrder
  /\ \E w \in Nat :
       /\ CostAfter(entries, c)' = CostAfter(entries, c) + w
       /\ \/ /\ CostAfter(persisted, c)' <= CostAfter(persisted, c) + w
             /\ now - MONTH_MS <= c => CostAfter(persisted, c)' = CostAfter(persisted, c) + w
             /\ CostAfter(log, c)' = CostAfter(log, c) + w
             /\ CostAfter(unsaved, c)' = CostAfter(unsaved, c)
          \/ /\ CostAfter(persisted, c)' <= CostAfter(persisted, c)
             /\ now - MONTH_MS <= c => CostAfter(persisted, c)' = CostAfter(persisted, c)
             /\ CostAfter(log, c)' = CostAfter(log, c)
             /\ CostAfter(unsaved, c)' = CostAfter(unsaved, c) + w

Restarting(c) ==
  /\ CostAfter(entries, c)' = 0 /\ CostAfter(loading, c)' = 0 /\ CostAfter(unsaved, c)' = 0
  /\ CostAfter(persisted, c)' = CostAfter(persisted, c) /\ CostAfter(log, c)' = CostAfter(log, c)
  /\ Missed(c)' = CostAfter(log, c)
  /\ warm' = "cold" /\ inOrder' = inOrder

Asking(c) ==
  /\ warm = "cold" /\ warm' = "loading"
  /\ CostAfter(loading, c)' <= CostAfter(persisted, c)
  /\ now - MONTH_MS <= c => CostAfter(loading, c)' = CostAfter(persisted, c)
  /\ inOrder' => inOrder /\ CostAfter(entries, c) = 0
  /\ KeptSame(c) /\ CostAfter(entries, c)' = CostAfter(entries, c) /\ Missed(c)' = Missed(c)

Joining(c) ==
  /\ warm = "loading" /\ warm' = "warm" /\ inOrder' = inOrder
  /\ \/ /\ CostAfter(entries, c)' = CostAfter(entries, c) + CostAfter(loading, c)
        /\ Missed(c)' = 0
     \/ CostAfter(entries, c)' = CostAfter(entries, c) /\ Missed(c)' = Missed(c)
  /\ KeptSame(c)

Resetting(c) ==
  /\ CostAfter(entries, c)' = 0 /\ CostAfter(log, c)' = 0 /\ CostAfter(unsaved, c)' = 0
  /\ Missed(c)' = 0 /\ inOrder' = FALSE /\ warm' = warm
  /\ CostAfter(persisted, c)' = CostAfter(persisted, c) /\ CostAfter(loading, c)' = CostAfter(loading, c)

LEMMA StepSpends ==
  ASSUME CostInv, [Next]_vars, NEW c \in Int
  PROVE  \/ Evicting(c) \/ Recording(c) \/ Restarting(c) \/ Asking(c) \/ Joining(c) \/ Resetting(c)
<1> USE DEF CostInv, LogsInv
<1>1. ASSUME entries' = Evict(entries, now),
             UNCHANGED <<persisted, loading, warm, log, unsaved, missed, inOrder>>
      PROVE  Evicting(c)
  <2>1. /\ CostAfter(Evict(entries, now), c) <= CostAfter(entries, c)
        /\ now - MONTH_MS <= c => CostAfter(Evict(entries, now), c) = CostAfter(entries, c)
    BY EvictKeeps
  <2> QED
    BY <1>1, <2>1, Zenon DEF Evicting, KeptSame, Missed
<1>2. ASSUME UNCHANGED <<entries, persisted, loading, warm, log, unsaved, missed, inOrder>>
      PROVE  Evicting(c)
  <2>1. CostAfter(entries, c) <= CostAfter(entries, c)
    BY AllNumbers DEF Numbers
  <2> QED
    BY <1>2, <2>1, Zenon DEF Evicting, KeptSame, Missed
<1>3. ASSUME NEW r \in Request, NEW u \in Usage, NEW appended \in BOOLEAN, Record(r, u, appended)
      PROVE  Recording(c)
  <2> DEFINE e == [timestamp |-> now, usage |-> u, costUsd |-> price[u]]
             w == Worth(e, c)
             v == IF Holds(persisted, e) THEN 0 ELSE w
  <2>1. e \in Entry /\ e.timestamp = now /\ w \in Nat
    BY CostAssumption DEF Entry, Worth
  <2>2. /\ entries' = Append(entries, e)
        /\ UNCHANGED <<loading, warm, missed, inOrder>>
        /\ \/ /\ persisted' = Stored(persisted, e) /\ ~Holds(persisted, e)
              /\ log' = Append(log, e) /\ unsaved' = unsaved
           \/ /\ \/ persisted' = Stored(persisted, e) /\ Holds(persisted, e)
                 \/ persisted' = persisted
              /\ unsaved' = Append(unsaved, e) /\ log' = log
    BY <1>3 DEF Record
  <2> HIDE DEF e
  <2>3. /\ CostAfter(Append(entries, e), c) = CostAfter(entries, c) + w
        /\ CostAfter(Append(log, e), c) = CostAfter(log, c) + w
        /\ CostAfter(Append(unsaved, e), c) = CostAfter(unsaved, c) + w
    BY <2>1, CostOfAppend DEF Log
  <2>4. /\ CostAfter(Stored(persisted, e), c) <= CostAfter(persisted, c) + v
        /\ now - MONTH_MS <= c => CostAfter(Stored(persisted, e), c) = CostAfter(persisted, c) + v
    BY <2>1, StoredIs
  <2>5. /\ Holds(persisted, e) => v = 0
        /\ ~Holds(persisted, e) => v = w
    OBVIOUS
  <2> HIDE DEF v, w
  <2>6. Missed(c)' = Missed(c)
    BY <2>2 DEF Missed
  <2>7. CASE persisted' = Stored(persisted, e) /\ ~Holds(persisted, e)
             /\ log' = Append(log, e) /\ unsaved' = unsaved
    BY <2>1, <2>2, <2>3, <2>4, <2>5, <2>6, <2>7, Zenon DEF Recording
  <2>8. ASSUME unsaved' = Append(unsaved, e), log' = log,
               \/ persisted' = Stored(persisted, e) /\ Holds(persisted, e)
               \/ persisted' = persisted
        PROVE  Recording(c)
    <3>1. CostAfter(persisted, c) \in Nat
      BY AllNumbers DEF Numbers
    <3>2. CostAfter(persisted, c) + 0 = CostAfter(persisted, c)
      BY <3>1
    <3>3. CostAfter(persisted, c) <= CostAfter(persisted, c)
      BY <3>1
    <3>4. /\ CostAfter(persisted, c)' <= CostAfter(persisted, c)
          /\ now - MONTH_MS <= c => CostAfter(persisted, c)' = CostAfter(persisted, c)
      BY <2>4, <2>5, <2>8, <3>2, <3>3, Zenon
    <3> QED
      BY <2>1, <2>2, <2>3, <2>6, <2>8, <3>4, Zenon DEF Recording
  <2> QED
    BY <2>2, <2>7, <2>8
<1>4. CASE Restart
  <2>1. CostAfter(<<>>, c) = 0
    BY CostOfNone
  <2> QED
    BY <1>4, <2>1, Zenon DEF Restart, Restarting, Missed
<1>5. CASE WarmUp
  <2>1. /\ CostAfter(Loaded(persisted), c) <= CostAfter(persisted, c)
        /\ now - MONTH_MS <= c => CostAfter(Loaded(persisted), c) = CostAfter(persisted, c)
    BY LoadedIs
  <2>2. entries = <<>> => CostAfter(entries, c) = 0
    BY CostOfNone
  <2> QED
    BY <1>5, <2>1, <2>2, Zenon DEF WarmUp, Asking, KeptSame, Missed
<1>6. CASE WarmUpEnds
  <2>1. CostAfter(Merged(entries, loading), c) = CostAfter(entries, c) + CostAfter(loading, c)
    BY MergedAdds
  <2>2. CostAfter(<<>>, c) = 0
    BY CostOfNone
  <2> QED
    BY <1>6, <2>1, <2>2, Zenon DEF WarmUpEnds, Joining, KeptSame, Missed
<1>7. CASE Reset
  <2>1. CostAfter(<<>>, c) = 0
    BY CostOfNone
  <2> QED
    BY <1>7, <2>1, Zenon DEF Reset, Resetting, Missed
<1>8. GetReport => Evicting(c)
  BY <1>1 DEF GetReport
<1>9. ASSUME NEW r \in Request, Ask(r) \/ Wake(r) PROVE Evicting(c)
  BY <1>1, <1>9 DEF Ask, Wake
<1>10. ASSUME NEW r \in Request, CallFails(r) PROVE Evicting(c)
  BY <1>2, <1>10 DEF CallFails
<1>11. Tick \/ UNCHANGED vars => Evicting(c)
  BY <1>2 DEF Tick, vars
<1> QED
  BY <1>3, <1>4, <1>5, <1>6, <1>7, <1>8, <1>9, <1>10, <1>11 DEF Next, CostStep, RequestStep

LEMMA TimeGoesOn ==
  ASSUME CostInv, [Next]_vars
  PROVE  now' \in Nat /\ now <= now'
<1>1. now \in Nat
  BY DEF CostInv, LogsInv
<1>2. Tick => now' = now + 1
  BY DEF Tick
<1>3. ASSUME NEW r \in Request, RequestStep(r) \/ Ask(r) PROVE now' = now
  BY <1>3 DEF RequestStep, Wake, CallFails, Record, Ask
<1>4. Restart \/ WarmUp \/ WarmUpEnds \/ Reset \/ GetReport \/ UNCHANGED vars => now' = now
  BY DEF Restart, WarmUp, WarmUpEnds, Reset, GetReport, vars
<1> QED
  BY <1>1, <1>2, <1>3, <1>4 DEF Next, CostStep

LEMMA ForgottenStep ==
  ASSUME CostInv, NothingForgotten, [Next]_vars
  PROVE  NothingForgotten'
<1> SUFFICES ASSUME NEW c \in Int, now' - MONTH_MS <= c
             PROVE  /\ CostAfter(log, c)' <= CostAfter(persisted, c)'
                    /\ Paid(c)' <= CostAfter(entries, c)' + Missed(c)'
                    /\ warm' = "cold" => Missed(c)' <= CostAfter(persisted, c)'
                    /\ warm' = "loading" => Missed(c)' <= CostAfter(loading, c)'
  BY DEF NothingForgotten
<1> DEFINE L == CostAfter(log, c)
           P == CostAfter(persisted, c)
           E == CostAfter(entries, c)
           O == CostAfter(loading, c)
           U == CostAfter(unsaved, c)
           M == Missed(c)
           L1 == CostAfter(log, c)'
           P1 == CostAfter(persisted, c)'
           E1 == CostAfter(entries, c)'
           O1 == CostAfter(loading, c)'
           U1 == CostAfter(unsaved, c)'
           M1 == Missed(c)'
<1>1. now - MONTH_MS <= c
  BY TimeGoesOn, Windows DEF CostInv, LogsInv
<1>2. /\ L \in Nat /\ P \in Nat /\ E \in Nat /\ O \in Nat /\ U \in Nat /\ M \in Nat
      /\ L1 \in Nat /\ P1 \in Nat /\ E1 \in Nat /\ O1 \in Nat /\ U1 \in Nat /\ M1 \in Nat
  <2>1. Numbers(c)
    BY AllNumbers
  <2>2. CostInv'
    BY CostStepInv
  <2>3. Numbers(c)'
    BY <2>2, CostType DEF CostInv, LogsInv, Log, Numbers, Missed
  <2> QED
    BY <2>1, <2>3 DEF Numbers
<1>3. /\ L <= P /\ L + U <= E + M
      /\ warm = "cold" => M <= P
      /\ warm = "loading" => M <= O
  BY <1>1 DEF NothingForgotten, Paid
<1> DEFINE Kept == /\ L1 <= P1 /\ L1 + U1 <= E1 + M1
                   /\ warm' = "cold" => M1 <= P1
                   /\ warm' = "loading" => M1 <= O1
<1>4. Evicting(c) => Kept
  <2> SUFFICES ASSUME Evicting(c) PROVE Kept
    OBVIOUS
  <2>1. E1 = E /\ P1 = P /\ L1 = L /\ U1 = U /\ O1 = O /\ M1 = M /\ warm' = warm
    BY <1>1 DEF Evicting, KeptSame
  <2> HIDE DEF L, P, E, O, U, M, L1, P1, E1, O1, U1, M1
  <2> QED
    BY <1>2, <1>3, <2>1
<1>5. Recording(c) => Kept
  <2> SUFFICES ASSUME Recording(c) PROVE Kept
    OBVIOUS
  <2>1. PICK w \in Nat :
          /\ E1 = E + w /\ O1 = O /\ M1 = M /\ warm' = warm
          /\ \/ P1 = P + w /\ L1 = L + w /\ U1 = U
             \/ P1 = P /\ L1 = L /\ U1 = U + w
    BY <1>1 DEF Recording
  <2> HIDE DEF L, P, E, O, U, M, L1, P1, E1, O1, U1, M1
  <2> QED
    BY <1>2, <1>3, <2>1
<1>6. Restarting(c) => Kept
  <2> SUFFICES ASSUME Restarting(c) PROVE Kept
    OBVIOUS
  <2>1. E1 = 0 /\ U1 = 0 /\ P1 = P /\ L1 = L /\ M1 = L /\ warm' = "cold"
    BY DEF Restarting
  <2> HIDE DEF L, P, E, O, U, M, L1, P1, E1, O1, U1, M1
  <2> QED
    BY <1>2, <1>3, <2>1
<1>7. Asking(c) => Kept
  <2> SUFFICES ASSUME Asking(c) PROVE Kept
    OBVIOUS
  <2>1. /\ E1 = E /\ P1 = P /\ L1 = L /\ U1 = U /\ O1 = P /\ M1 = M
        /\ warm = "cold" /\ warm' = "loading"
    BY <1>1 DEF Asking, KeptSame
  <2> HIDE DEF L, P, E, O, U, M, L1, P1, E1, O1, U1, M1
  <2> QED
    BY <1>2, <1>3, <2>1
<1>8. Joining(c) => Kept
  <2> SUFFICES ASSUME Joining(c) PROVE Kept
    OBVIOUS
  <2>1. /\ (E1 = E + O /\ M1 = 0) \/ (E1 = E /\ M1 = M)
        /\ P1 = P /\ L1 = L /\ U1 = U /\ warm = "loading" /\ warm' = "warm"
    BY DEF Joining, KeptSame
  <2> HIDE DEF L, P, E, O, U, M, L1, P1, E1, O1, U1, M1
  <2> QED
    BY <1>2, <1>3, <2>1
<1>9. Resetting(c) => Kept
  <2> SUFFICES ASSUME Resetting(c) PROVE Kept
    OBVIOUS
  <2>1. E1 = 0 /\ P1 = P /\ L1 = 0 /\ U1 = 0 /\ M1 = 0
    BY DEF Resetting
  <2> HIDE DEF L, P, E, O, U, M, L1, P1, E1, O1, U1, M1
  <2> QED
    BY <1>2, <1>3, <2>1
<1>10. Kept
  BY <1>4, <1>5, <1>6, <1>7, <1>8, <1>9, StepSpends
<1>11. Paid(c)' = L1 + U1
  BY DEF Paid
<1> QED
  BY <1>10, <1>11

LEMMA TwiceStep ==
  ASSUME CostInv, NothingTwice, [Next]_vars
  PROVE  NothingTwice'
<1> SUFFICES ASSUME inOrder', NEW c \in Int
             PROVE  /\ CostAfter(persisted, c)' <= CostAfter(log, c)'
                    /\ CostAfter(entries, c)' + Missed(c)' <= Paid(c)'
                    /\ warm' = "loading" =>
                         CostAfter(entries, c)' + CostAfter(loading, c)' <= Paid(c)'
  BY DEF NothingTwice
<1> DEFINE L == CostAfter(log, c)
           P == CostAfter(persisted, c)
           E == CostAfter(entries, c)
           O == CostAfter(loading, c)
           U == CostAfter(unsaved, c)
           M == Missed(c)
           L1 == CostAfter(log, c)'
           P1 == CostAfter(persisted, c)'
           E1 == CostAfter(entries, c)'
           O1 == CostAfter(loading, c)'
           U1 == CostAfter(unsaved, c)'
           M1 == Missed(c)'
<1>2. /\ L \in Nat /\ P \in Nat /\ E \in Nat /\ O \in Nat /\ U \in Nat /\ M \in Nat
      /\ L1 \in Nat /\ P1 \in Nat /\ E1 \in Nat /\ O1 \in Nat /\ U1 \in Nat /\ M1 \in Nat
  <2>1. Numbers(c)
    BY AllNumbers
  <2>2. CostInv'
    BY CostStepInv
  <2>3. Numbers(c)'
    BY <2>2, CostType DEF CostInv, LogsInv, Log, Numbers, Missed
  <2> QED
    BY <2>1, <2>3 DEF Numbers
<1>3. inOrder => /\ P <= L /\ E + M <= L + U
                 /\ warm = "loading" => E + O <= L + U
  BY DEF NothingTwice, Paid
<1> DEFINE Kept == /\ P1 <= L1 /\ E1 + M1 <= L1 + U1
                   /\ warm' = "loading" => E1 + O1 <= L1 + U1
<1>4. Evicting(c) => Kept
  <2> SUFFICES ASSUME Evicting(c) PROVE Kept
    OBVIOUS
  <2>1. E1 <= E /\ P1 = P /\ L1 = L /\ U1 = U /\ O1 = O /\ M1 = M /\ warm' = warm /\ inOrder
    BY DEF Evicting, KeptSame
  <2> HIDE DEF L, P, E, O, U, M, L1, P1, E1, O1, U1, M1
  <2> QED
    BY <1>2, <1>3, <2>1
<1>5. Recording(c) => Kept
  <2> SUFFICES ASSUME Recording(c) PROVE Kept
    OBVIOUS
  <2>1. PICK w \in Nat :
          /\ E1 = E + w /\ O1 = O /\ M1 = M /\ warm' = warm /\ inOrder
          /\ \/ P1 <= P + w /\ L1 = L + w /\ U1 = U
             \/ P1 <= P /\ L1 = L /\ U1 = U + w
    BY DEF Recording
  <2> HIDE DEF L, P, E, O, U, M, L1, P1, E1, O1, U1, M1
  <2> QED
    BY <1>2, <1>3, <2>1
<1>6. Restarting(c) => Kept
  <2> SUFFICES ASSUME Restarting(c) PROVE Kept
    OBVIOUS
  <2>1. /\ E1 = 0 /\ U1 = 0 /\ P1 = P /\ L1 = L /\ M1 = L /\ warm' = "cold"
        /\ inOrder
    BY DEF Restarting
  <2> HIDE DEF L, P, E, O, U, M, L1, P1, E1, O1, U1, M1
  <2> QED
    BY <1>2, <1>3, <2>1
<1>7. Asking(c) => Kept
  <2> SUFFICES ASSUME Asking(c) PROVE Kept
    OBVIOUS
  <2>1. /\ E1 = 0 /\ E = 0 /\ P1 = P /\ L1 = L /\ U1 = U /\ O1 <= P /\ M1 = M
        /\ inOrder
    BY DEF Asking, KeptSame
  <2> HIDE DEF L, P, E, O, U, M, L1, P1, E1, O1, U1, M1
  <2> QED
    BY <1>2, <1>3, <2>1
<1>8. Joining(c) => Kept
  <2> SUFFICES ASSUME Joining(c) PROVE Kept
    OBVIOUS
  <2>1. /\ (E1 = E + O /\ M1 = 0) \/ (E1 = E /\ M1 = M)
        /\ P1 = P /\ L1 = L /\ U1 = U /\ warm = "loading" /\ warm' = "warm" /\ inOrder
    BY DEF Joining, KeptSame
  <2> HIDE DEF L, P, E, O, U, M, L1, P1, E1, O1, U1, M1
  <2> QED
    BY <1>2, <1>3, <2>1
<1>9. ~Resetting(c)
  BY DEF Resetting
<1>10. Kept
  BY <1>4, <1>5, <1>6, <1>7, <1>8, <1>9, StepSpends
<1>11. Paid(c)' = L1 + U1
  BY DEF Paid
<1> QED
  BY <1>10, <1>11

LEMMA MoneyInvariant == Spec => [](CostInv /\ NothingForgotten /\ NothingTwice)
<1>1. Init => NothingForgotten /\ NothingTwice
  <2> SUFFICES ASSUME Init PROVE NothingForgotten /\ NothingTwice
    OBVIOUS
  <2>1. \A c \in Int : CostAfter(<<>>, c) = 0
    BY CostOfNone
  <2>2. /\ \A c \in Int : CostAfter(entries, c) = 0 /\ CostAfter(persisted, c) = 0
                          /\ CostAfter(loading, c) = 0 /\ CostAfter(log, c) = 0
                          /\ CostAfter(unsaved, c) = 0 /\ CostAfter(missed, c) = 0
    BY <2>1 DEF Init
  <2> QED
    BY <2>2 DEF NothingForgotten, NothingTwice, Paid, Missed
<1>2. CostInv /\ NothingForgotten /\ NothingTwice /\ [Next]_vars
        => CostInv' /\ NothingForgotten' /\ NothingTwice'
  BY CostStepInv, ForgottenStep, TwiceStep
<1> QED
  BY <1>1, <1>2, CostInvInit, PTL DEF Spec

\* A request is let through by the check alone.
LEMMA LetThrough ==
  ASSUME CostInv, [Next]_vars, NEW r \in Request, ~IsAt(r, "running"), req'[r].pc = "running"
  PROVE  WithinBudget(Evict(entries, now), est[r], now)
<1> USE DEF CostInv
<1>0. req \in [Request -> State]
  BY DEF RequestsInv
<1>1. ASSUME NEW q \in Request, NEW state, Set(q, state), q # r \/ state.pc # "running" PROVE FALSE
  BY <1>0, <1>1 DEF Set, IsAt
<1>2. /\ Fallback.pc # "running" /\ \A outcome \in Outcome : Ended(outcome).pc # "running"
      /\ \A wakeAt, deadline : Sleeping(wakeAt, deadline).pc # "running"
  BY DEF Fallback, Ended, Sleeping, At, Outcome
<1>3. ASSUME NEW q \in Request, NEW s, NEW deadline, QueueRound(q, s, deadline)
      PROVE  q = r /\ WithinBudget(s, est[q], now)
  <2>1. \/ WithinBudget(s, est[q], now) /\ Set(q, Running)
        \/ \E wakeAt : Set(q, Sleeping(wakeAt, deadline))
        \/ Set(q, Ended("timedOut"))
    BY <1>3, Zenon DEF QueueRound
  <2> QED
    BY <1>1, <1>2, <2>1 DEF Outcome
<1>4. ASSUME NEW q \in Request, Ask(q) PROVE q = r /\ WithinBudget(Evict(entries, now), est[q], now)
  <2>1. CASE onExceeded = "queue"
    BY <1>3, <1>4, <2>1 DEF Ask
  <2>2. CASE onExceeded # "queue"
    <3>1. \/ WithinBudget(Evict(entries, now), est[q], now) /\ Set(q, Running)
          \/ Set(q, Fallback) \/ Set(q, Ended("overBudget"))
      BY <1>4, <2>2 DEF Ask, CheckRound
    <3> QED
      BY <1>1, <1>2, <3>1 DEF Outcome
  <2> QED
    BY <2>1, <2>2
<1>5. ASSUME NEW q \in Request, Wake(q) PROVE q = r /\ WithinBudget(Evict(entries, now), est[q], now)
  BY <1>3, <1>5 DEF Wake
<1>6. ASSUME NEW q \in Request, NEW u \in Usage, NEW appended \in BOOLEAN, Record(q, u, appended)
      PROVE  FALSE
  BY <1>1, <1>2, <1>6 DEF Record, Outcome
<1>7. ASSUME NEW q \in Request, CallFails(q) PROVE FALSE
  BY <1>1, <1>2, <1>7 DEF CallFails, Outcome
<1>8. ~Restart
  BY <1>2 DEF Restart, IsAt, Outcome
<1>9. ~WarmUp /\ ~WarmUpEnds /\ ~Reset /\ ~GetReport /\ ~Tick /\ ~(UNCHANGED vars)
  BY DEF WarmUp, WarmUpEnds, Reset, GetReport, Tick, vars, IsAt
<1> QED
  BY <1>4, <1>5, <1>6, <1>7, <1>8, <1>9 DEF Next, CostStep, RequestStep

\* The caps hold against all that was recorded, across evictions, restarts and
\* reloads, save what the store did not keep and what a failed load left unknown.
THEOREM CostCapsSurviveRestarts == Spec => CapsSurviveRestarts
<1>1. ASSUME CostInv, NothingForgotten, [Next]_vars, NEW r \in Request,
             ~IsAt(r, "running"), req'[r].pc = "running",
             NEW p \in Period, budget[p] # Undefined
      PROVE  History(p) + est[r] <= budget[p]
  <2> DEFINE c == now - WindowMs[p]
             s == Evict(entries, now)
  <2>1. now \in Nat /\ Log(entries, now)
    BY <1>1 DEF CostInv, LogsInv
  <2>2. c \in Int /\ now - MONTH_MS <= c
    BY <2>1, Windows
  <2> HIDE DEF c
  <2>3. CostAfter(s, c) = CostAfter(entries, c)
    BY <2>1, <2>2, EvictKeeps
  <2>4. CostAfter(log, c) + CostAfter(unsaved, c) <= CostAfter(entries, c) + CostAfter(missed, c)
    BY <1>1, <2>2 DEF NothingForgotten, Paid, Missed
  <2>5. ~(CostAfter(s, c) + est[r] > budget[p])
    <3>1. ~Exceeds(s, p, est[r], now)
      BY <1>1, LetThrough DEF WithinBudget
    <3> QED
      BY <1>1, <3>1 DEF Exceeds, Spent, c
  <2>6. est[r] \in Nat /\ budget[p] \in Nat /\ Numbers(c)
    BY <1>1, <2>2, AllNumbers, CostAssumption
  <2> HIDE DEF s
  <2>7. CostAfter(log, c) + CostAfter(unsaved, c) - CostAfter(missed, c) + est[r] <= budget[p]
    BY <2>3, <2>4, <2>5, <2>6 DEF Numbers, Missed
  <2> QED
    BY <2>7 DEF History, Spent, c
<1>2. CostInv /\ NothingForgotten /\ NothingTwice /\ [Next]_vars =>
        [\A r \in Request :
           ~IsAt(r, "running") /\ req'[r].pc = "running" =>
             \A p \in Period : budget[p] # Undefined => History(p) + est[r] <= budget[p]]_vars
  BY <1>1
<1> QED
  BY <1>2, MoneyInvariant, PTL DEF Spec, CapsSurviveRestarts

\* Reports and forecasts of a limiter that was warmed up at its start tell what history
\* holds, save what the store did not keep and what a failed load left unknown.
THEOREM CostReportsTellHistory == Spec => []ReportsTellHistory
<1>1. ASSUME CostInv, NothingForgotten, NothingTwice, inOrder, NEW p \in Period
      PROVE  LET s == Evict(entries, now)
             IN  /\ Forecast(s, now)[p] = History(p)
                 /\ Report(s, now)[p] \in Forecast(s, now)[p] .. ReportedHistory(p)
  <2> DEFINE s == Evict(entries, now)
             c == now - WindowMs[p]
             b == c - 1
  <2>1. /\ now \in Nat /\ Log(entries, now) /\ Log(log, now) /\ Log(unsaved, now)
        /\ Log(missed, now) /\ Log(s, now)
    BY <1>1, EvictKeeps, 0 \in Int DEF CostInv, LogsInv
  <2>2. c \in Int /\ now - MONTH_MS <= c
    BY <2>1, Windows
  <2> HIDE DEF c
  <2>3. b \in Int /\ b <= c
    BY <2>2
  <2> HIDE DEF b
  <2>4. /\ Forecast(s, now)[p] = CostAfter(s, c)
        /\ History(p) = CostAfter(log, c) + CostAfter(unsaved, c) - CostAfter(missed, c)
    BY DEF Forecast, History, Spent, c
  <2>5. \A x : Log(x, now) => Report(x, now)[p] = CostAfter(x, b)
    <3> SUFFICES ASSUME NEW x, Log(x, now) PROVE Summarize(x, c, now) = CostAfter(x, b)
      BY DEF Report, c
    <3>1. x \in Seq(Entry) /\ \A i \in 1 .. Len(x) : x[i].timestamp <= now
      BY DEF Log, NotAfter
    <3>2. c \in Int /\ now \in Int
      BY <2>1, <2>2
    <3>3. Summarize(x, c, now) = CostAfter(x, c - 1)
      BY ONLY <3>1, <3>2, SummarizeIs
    <3> QED
      BY <3>3 DEF b
  <2>6. /\ Report(s, now)[p] = CostAfter(s, b)
        /\ ReportedHistory(p) = CostAfter(log, b) + CostAfter(unsaved, b) - CostAfter(missed, b)
    BY <2>1, <2>5 DEF ReportedHistory
  <2>7. /\ CostAfter(s, c) = CostAfter(entries, c) /\ CostAfter(s, b) <= CostAfter(entries, b)
        /\ CostAfter(s, c) <= CostAfter(s, b)
    <3>1. s \in Seq(Entry)
      BY <2>1 DEF Log
    <3> QED
      BY <2>1, <2>2, <2>3, <3>1, EvictKeeps, CostShrinks
  <2>8. Numbers(c) /\ Numbers(b) /\ CostAfter(s, c) \in Nat /\ CostAfter(s, b) \in Nat
    BY <1>1, <2>1, <2>2, <2>3, AllNumbers, CostType DEF Log
  <2>9. /\ Paid(c) <= CostAfter(entries, c) + Missed(c)
        /\ CostAfter(entries, c) + Missed(c) <= Paid(c)
        /\ CostAfter(entries, b) + Missed(b) <= Paid(b)
    BY <1>1, <2>2, <2>3 DEF NothingForgotten, NothingTwice
  <2> HIDE DEF s
  <2>10. CostAfter(s, c) = CostAfter(log, c) + CostAfter(unsaved, c) - CostAfter(missed, c)
    BY <2>7, <2>8, <2>9 DEF Paid, Numbers, Missed
  <2>11. CostAfter(s, b) \in
           CostAfter(s, c) .. CostAfter(log, b) + CostAfter(unsaved, b) - CostAfter(missed, b)
    BY <2>7, <2>8, <2>9 DEF Paid, Numbers, Missed
  <2>12. /\ Forecast(s, now)[p] = History(p)
         /\ Report(s, now)[p] \in Forecast(s, now)[p] .. ReportedHistory(p)
    BY <2>4, <2>6, <2>10, <2>11
  <2> QED
    BY <2>12 DEF s
<1>2. CostInv /\ NothingForgotten /\ NothingTwice => ReportsTellHistory
  BY <1>1 DEF ReportsTellHistory
<1> QED
  BY <1>2, MoneyInvariant, PTL
=============================================================================

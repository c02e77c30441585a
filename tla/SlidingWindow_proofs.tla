------------------------- MODULE SlidingWindow_proofs -------------------------
(***************************************************************************)
(* Facts about the arithmetic of SlidingWindow: what eviction keeps, and   *)
(* that the answer of checkAndRecord is a time.                            *)
(***************************************************************************)
EXTENDS SlidingWindow, SequenceTheorems, WellFoundedInduction, TLAPS

(***************************************************************************)
(* Least and greatest elements.                                            *)
(***************************************************************************)
NatLess == {p \in Nat \X Nat : p[1] < p[2]}

\* A nonempty set of naturals has a least element, and Min returns it.
LEMMA MinOfNaturals ==
  ASSUME NEW S \in SUBSET Nat, S # {}
  PROVE  Min(S) \in S /\ \A j \in S : Min(S) <= j
<1>1. IsWellFoundedOn(NatLess, Nat)
  BY NatLessThanWellFounded DEF OpToRel, NatLess
<1>2. PICK x \in S : \A y \in S : ~ (<<y, x>> \in NatLess)
  BY <1>1, WFMin
<1>3. ASSUME NEW y \in S PROVE x <= y
  <2>1. <<y, x>> \in Nat \X Nat
    OBVIOUS
  <2>2. ~ (<<y, x>>[1] < <<y, x>>[2])
    BY <1>2, <2>1 DEF NatLess
  <2> QED
    BY <2>2
<1> QED
  BY <1>3 DEF Min

\* A nonempty set of naturals with an upper bound has a greatest element, and Max returns it.
LEMMA MaxOfNaturals ==
  ASSUME NEW n \in Nat, NEW s \in SUBSET (0 .. n), s # {}
  PROVE  Max(s) \in s /\ \A j \in s : j <= Max(s)
<1> DEFINE T == {n - j : j \in s}
<1>1. T \in SUBSET Nat /\ T # {}
  <2>1. \A j \in s : n - j \in Nat
    OBVIOUS
  <2> QED
    BY <2>1
<1>2. Min(T) \in T /\ \A t \in T : Min(T) <= t
  BY <1>1, MinOfNaturals, Zenon
<1> HIDE DEF T
<1>3. PICK x \in s : Min(T) = n - x
  BY <1>2 DEF T
<1>4. \A j \in s : j <= x
  <2> TAKE j \in s
  <2>1. n - x <= n - j
    BY <1>2, <1>3 DEF T
  <2> QED
    BY <2>1
<1> QED
  BY <1>4 DEF Max

LEMMA MaxOfIndexes ==
  ASSUME NEW n \in Nat, NEW s \in SUBSET (1 .. n), s # {}
  PROVE  Max(s) \in s /\ \A j \in s : j <= Max(s)
<1>1. s \in SUBSET (0 .. n)
  OBVIOUS
<1> QED
  BY <1>1, MaxOfNaturals

LEMMA MaxIs ==
  ASSUME NEW n \in Nat, NEW s \in SUBSET (1 .. n), n \in s
  PROVE  Max(s) = n
<1> DEFINE m == Max(s)
<1>1. m \in s /\ n <= m
  BY MaxOfIndexes
<1> HIDE DEF m
<1>2. m \in 1 .. n
  BY <1>1
<1> QED
  BY <1>1, <1>2 DEF m

(***************************************************************************)
(* Suffixes.                                                               *)
(***************************************************************************)
Suffix(s, c) == SubSeq(s, c + 1, Len(s))

LEMMA SuffixIs ==
  ASSUME NEW S, NEW s \in Seq(S), NEW c \in 0 .. Len(s)
  PROVE  /\ Suffix(s, c) \in Seq(S)
         /\ Len(Suffix(s, c)) = Len(s) - c
         /\ \A i \in 1 .. Len(s) - c : Suffix(s, c)[i] = s[c + i]
<1>1. Len(s) \in Nat
  BY LenProperties
<1>2. \A i \in c + 1 .. Len(s) : s[i] \in S
  BY <1>1, ElementOfSeq
<1>3. CASE c < Len(s)
  <2>1. c + 1 \in 1 .. Len(s)
    BY <1>1, <1>3
  <2>2. /\ SubSeq(s, c + 1, Len(s)) \in Seq(S)
        /\ Len(SubSeq(s, c + 1, Len(s))) = Len(s) - (c + 1) + 1
        /\ \A i \in 1 .. Len(s) - (c + 1) + 1 : SubSeq(s, c + 1, Len(s))[i] = s[(c + 1) + i - 1]
    BY <1>1, <1>2, <2>1, SubSeqProperties
  <2>3. Len(s) - (c + 1) + 1 = Len(s) - c /\ \A i \in 1 .. Len(s) - c : (c + 1) + i - 1 = c + i
    BY <1>1
  <2> QED
    BY <2>2, <2>3 DEF Suffix
<1>4. CASE c = Len(s)
  <2>1. SubSeq(s, c + 1, Len(s)) = <<>>
    BY <1>1, <1>4, SubSeqEmpty
  <2> QED
    BY <1>1, <1>4, <2>1, EmptySeq DEF Suffix
<1> QED
  BY <1>1, <1>3, <1>4

LEMMA SuffixEnds ==
  ASSUME NEW S, NEW s \in Seq(S)
  PROVE  Suffix(s, 0) = s /\ Suffix(s, Len(s)) = <<>>
<1>1. Len(s) \in Nat /\ 0 \in 0 .. Len(s) /\ Len(s) \in 0 .. Len(s)
  BY LenProperties
<1>2. Suffix(s, 0) = s
  <2>1. Suffix(s, 0) \in Seq(S) /\ Len(Suffix(s, 0)) = Len(s)
        /\ \A i \in 1 .. Len(s) : Suffix(s, 0)[i] = s[i]
    BY <1>1, SuffixIs
  <2> QED
    BY <2>1, SeqEqual
<1>3. Suffix(s, Len(s)) \in Seq(S) /\ Len(Suffix(s, Len(s))) = 0
  BY <1>1, SuffixIs
<1> QED
  BY <1>2, <1>3, EmptySeq

LEMMA SuffixOfSuffix ==
  ASSUME NEW S, NEW s \in Seq(S), NEW c \in 0 .. Len(s), NEW m \in 0 .. Len(s) - c
  PROVE  Suffix(Suffix(s, c), m) = Suffix(s, c + m)
<1> DEFINE e == Suffix(s, c)
<1>1. Len(s) \in Nat /\ c + m \in 0 .. Len(s)
  BY LenProperties
<1>2. e \in Seq(S) /\ Len(e) = Len(s) - c /\ \A i \in 1 .. Len(s) - c : e[i] = s[c + i]
  BY SuffixIs
<1>3. /\ Suffix(s, c + m) \in Seq(S)
      /\ Len(Suffix(s, c + m)) = Len(s) - (c + m)
      /\ \A i \in 1 .. Len(s) - (c + m) : Suffix(s, c + m)[i] = s[c + m + i]
  BY <1>1, SuffixIs
<1> HIDE DEF e
<1>4. /\ Suffix(e, m) \in Seq(S)
      /\ Len(Suffix(e, m)) = Len(e) - m
      /\ \A i \in 1 .. Len(e) - m : Suffix(e, m)[i] = e[m + i]
  <2>1. e \in Seq(S) /\ m \in 0 .. Len(e)
    BY <1>2
  <2> QED
    BY ONLY <2>1, SuffixIs
<1>5. Len(Suffix(e, m)) = Len(Suffix(s, c + m))
  <2>1. Len(s) - c - m = Len(s) - (c + m)
    BY <1>1
  <2>2. Len(Suffix(e, m)) = Len(s) - c - m
    BY <1>2, <1>4
  <2> QED
    BY <1>3, <2>1, <2>2
<1>6. ASSUME NEW i \in 1 .. Len(Suffix(e, m)) PROVE Suffix(e, m)[i] = Suffix(s, c + m)[i]
  <2>1. i \in 1 .. Len(e) - m /\ m + i \in 1 .. Len(s) - c /\ c + (m + i) = c + m + i
        /\ i \in 1 .. Len(s) - (c + m)
    BY <1>1, <1>2, <1>4
  <2> QED
    BY <1>2, <1>3, <1>4, <2>1
<1>7. Suffix(e, m) = Suffix(s, c + m)
  BY <1>3, <1>4, <1>5, <1>6, SeqEqual
<1> QED
  BY <1>7 DEF e

\* SuffixFrom drops exactly the indexes before the first live one.
LEMMA SuffixFromIs ==
  ASSUME NEW S, NEW s \in Seq(S), NEW live \in SUBSET DOMAIN s
  PROVE  \E c \in 0 .. Len(s) :
           /\ SuffixFrom(s, live) = Suffix(s, c)
           /\ \A i \in 1 .. c : i \notin live
           /\ c < Len(s) => c + 1 \in live
<1>1. CASE live = {}
  <2>1. Len(s) \in 0 .. Len(s) /\ ~ (Len(s) < Len(s))
    BY LenProperties
  <2> QED
    BY <1>1, <2>1, SuffixEnds DEF SuffixFrom
<1>2. CASE live # {}
  <2> DEFINE m == Min(live)
  <2>1. m \in live /\ \A j \in live : m <= j
    <3>1. live \in SUBSET Nat
      OBVIOUS
    <3> QED
      BY <1>2, <3>1, MinOfNaturals
  <2>2. m \in 1 .. Len(s)
    BY <2>1
  <2>3. SuffixFrom(s, live) = SubSeq(s, m, Len(s))
    BY <1>2 DEF SuffixFrom
  <2> HIDE DEF m
  <2>4. m - 1 \in 0 .. Len(s) /\ m - 1 + 1 = m
    BY <2>2, LenProperties
  <2>5. SuffixFrom(s, live) = Suffix(s, m - 1)
    BY <2>3, <2>4 DEF Suffix
  <2>6. \A i \in 1 .. m - 1 : i \notin live
    BY <2>1, <2>2
  <2> QED
    BY <2>1, <2>4, <2>5, <2>6
<1> QED
  BY <1>1, <1>2

\* In particular it drops a prefix, none of whose indexes is live.
LEMMA SuffixFromDrops ==
  ASSUME NEW S, NEW s \in Seq(S), NEW live \in SUBSET DOMAIN s
  PROVE  \E c \in 0 .. Len(s) :
           /\ SuffixFrom(s, live) \in Seq(S)
           /\ Len(SuffixFrom(s, live)) = Len(s) - c
           /\ \A i \in 1 .. Len(s) - c : SuffixFrom(s, live)[i] = s[c + i]
           /\ \A i \in 1 .. c : i \notin live
<1>1. PICK c \in 0 .. Len(s) :
        /\ SuffixFrom(s, live) = Suffix(s, c)
        /\ \A i \in 1 .. c : i \notin live
  BY SuffixFromIs
<1>2. /\ Suffix(s, c) \in Seq(S)
      /\ Len(Suffix(s, c)) = Len(s) - c
      /\ \A i \in 1 .. Len(s) - c : Suffix(s, c)[i] = s[c + i]
  BY SuffixIs
<1> QED
  BY <1>1, <1>2

(***************************************************************************)
(* Sums.  A fold over a sequence is the one function on sets of indexes    *)
(* that satisfies the equation of the fold; what it computes is proved by  *)
(* looking at the least index where it would fail.                         *)
(***************************************************************************)
\* f is the fold that adds up v over each set of indexes, the largest index last.
Folds(f, v, n) ==
  f = [s \in SUBSET (1 .. n) |-> IF s = {} THEN 0 ELSE f[s \ {Max(s)}] + v[Max(s)]]

LEMMA FoldExtends ==
  ASSUME NEW n \in Nat, NEW v \in [1 .. n + 1 -> Nat], NEW f, Folds(f, v, n)
  PROVE  \E g : Folds(g, v, n + 1)
<1> DEFINE g == [s \in SUBSET (1 .. n + 1) |->
                   IF n + 1 \in s THEN f[s \ {n + 1}] + v[n + 1] ELSE f[s]]
<1>1. ASSUME NEW s \in SUBSET (1 .. n + 1)
      PROVE  g[s] = IF s = {} THEN 0 ELSE g[s \ {Max(s)}] + v[Max(s)]
  <2>1. CASE n + 1 \in s
    <3>1. Max(s) = n + 1
      BY <2>1, MaxIs
    <3>2. s \ {n + 1} \in SUBSET (1 .. n) /\ s \ {n + 1} \in SUBSET (1 .. n + 1)
      OBVIOUS
    <3>3. g[s \ {n + 1}] = f[s \ {n + 1}]
      BY <3>2
    <3> QED
      BY <2>1, <3>1, <3>3
  <2>2. CASE n + 1 \notin s
    <3>1. s \in SUBSET (1 .. n)
      BY <2>2
    <3>2. f[s] = IF s = {} THEN 0 ELSE f[s \ {Max(s)}] + v[Max(s)]
      BY <3>1 DEF Folds
    <3>3. g[s] = f[s]
      BY <2>2
    <3>4. g[s \ {Max(s)}] = f[s \ {Max(s)}]
      BY <2>2
    <3> QED
      BY <3>2, <3>3, <3>4
  <2> QED
    BY <2>1, <2>2
<1>2. Folds(g, v, n + 1)
  BY <1>1 DEF Folds
<1> QED
  BY <1>2

LEMMA FoldExists ==
  ASSUME NEW n \in Nat, NEW v \in [1 .. n -> Nat]
  PROVE  \A m \in 0 .. n : \E f : Folds(f, v, m)
<1> DEFINE Bad == {m \in Nat : m <= n /\ ~ \E f : Folds(f, v, m)}
<1> SUFFICES ASSUME Bad # {} PROVE FALSE
  <2>1. \A m \in 0 .. n : m \in Nat /\ m <= n
    OBVIOUS
  <2> QED
    BY <2>1
<1> DEFINE m == Min(Bad)
<1>1. m \in Bad /\ \A j \in Bad : m <= j
  BY MinOfNaturals
<1> HIDE DEF m
<1>2. m # 0
  <2>1. Folds([s \in SUBSET (1 .. 0) |-> 0], v, 0)
    BY DEF Folds
  <2> QED
    BY <1>1, <2>1
<1>3. m - 1 \in Nat /\ m - 1 \notin Bad /\ m <= n /\ m - 1 <= n
  BY <1>1, <1>2
<1>4. PICK f : Folds(f, v, m - 1)
  BY <1>3
<1> DEFINE u == [i \in 1 .. m |-> v[i]]
<1>5. u \in [1 .. m - 1 + 1 -> Nat] /\ \A i \in 1 .. m : u[i] = v[i]
  <2>1. m \in Nat /\ m <= n /\ m - 1 + 1 = m
    BY <1>1, <1>3
  <2>2. \A i \in 1 .. m : i \in 1 .. n
    BY <2>1
  <2> QED
    BY <2>1, <2>2
<1> HIDE DEF u
<1>6. Folds(f, u, m - 1)
  <2>1. ASSUME NEW s \in SUBSET (1 .. m - 1), s # {} PROVE u[Max(s)] = v[Max(s)]
    <3>1. Max(s) \in s
      BY <1>3, <2>1, MaxOfIndexes
    <3>2. \A i \in s : i \in 1 .. m
      BY <1>1, <1>3
    <3> QED
      BY <1>5, <3>1, <3>2
  <2> QED
    BY <1>4, <2>1 DEF Folds
<1>7. PICK g : Folds(g, u, m)
  <2>1. \E g : Folds(g, u, m - 1 + 1)
    BY <1>3, <1>5, <1>6, FoldExtends
  <2>2. m - 1 + 1 = m
    BY <1>1
  <2> QED
    BY <2>1, <2>2
<1>8. Folds(g, v, m)
  <2>1. ASSUME NEW s \in SUBSET (1 .. m), s # {} PROVE u[Max(s)] = v[Max(s)]
    <3>1. Max(s) \in s
      BY <1>1, <2>1, MaxOfIndexes
    <3> QED
      BY <1>5, <3>1
  <2> QED
    BY <1>7, <2>1 DEF Folds
<1> QED
  BY <1>1, <1>8

\* Folds of sequences that agree up to m agree on the indexes up to m.
LEMMA FoldsAgree ==
  ASSUME NEW n \in Nat, NEW m \in 0 .. n, NEW v, NEW u, NEW f, NEW g,
         Folds(f, v, n), Folds(g, u, m), \A i \in 1 .. m : u[i] = v[i]
  PROVE  \A s \in SUBSET (1 .. m) : f[s] = g[s]
<1> DEFINE Bad == {k \in Nat : k <= m /\ \E s \in SUBSET (1 .. k) : f[s] # g[s]}
<1> SUFFICES ASSUME Bad # {} PROVE FALSE
  OBVIOUS
<1> DEFINE k == Min(Bad)
<1>1. k \in Bad /\ \A j \in Bad : k <= j
  BY MinOfNaturals
<1> HIDE DEF k
<1>2. PICK s \in SUBSET (1 .. k) : f[s] # g[s]
  BY <1>1
<1>3. k \in Nat /\ k <= m /\ s \in SUBSET (1 .. m) /\ s \in SUBSET (1 .. n)
  BY <1>1, <1>2
<1>4. f[s] = (IF s = {} THEN 0 ELSE f[s \ {Max(s)}] + v[Max(s)])
  BY <1>3 DEF Folds
<1>5. g[s] = (IF s = {} THEN 0 ELSE g[s \ {Max(s)}] + u[Max(s)])
  BY <1>3 DEF Folds
<1>6. s # {}
  BY <1>2, <1>4, <1>5
<1>7. Max(s) \in s /\ \A j \in s : j <= Max(s)
  BY <1>3, <1>6, MaxOfIndexes
<1>8. s \ {Max(s)} \in SUBSET (1 .. k - 1)
  <2> DEFINE x == Max(s)
  <2>1. x \in 1 .. k /\ \A j \in s : j \in 1 .. k /\ j <= x
    BY <1>2, <1>7
  <2> HIDE DEF x
  <2>2. \A j \in s : j # x => j \in 1 .. k - 1
    BY <2>1, <1>3
  <2> QED
    BY <2>2 DEF x
<1>9. k # 0 /\ k - 1 \notin Bad /\ k - 1 \in Nat /\ k - 1 <= m
  <2>1. 1 .. 0 = {}
    OBVIOUS
  <2>2. k # 0
    BY <1>2, <1>6, <2>1
  <2>3. k - 1 \in Nat /\ ~ (k <= k - 1) /\ k - 1 <= m
    BY <2>2, <1>3
  <2> QED
    BY <1>1, <2>2, <2>3
<1>10. f[s \ {Max(s)}] = g[s \ {Max(s)}]
  BY <1>3, <1>8, <1>9
<1> QED
  BY <1>2, <1>3, <1>4, <1>5, <1>7, <1>10

\* The sum of the first n numbers of v.
Total(v, n) == (CHOOSE f : Folds(f, v, n))[1 .. n]

LEMMA TotalFolds ==
  ASSUME NEW n \in Nat, NEW v, NEW f, Folds(f, v, n)
  PROVE  Total(v, n) = f[1 .. n]
<1> DEFINE g == CHOOSE h : Folds(h, v, n)
<1>1. Folds(g, v, n)
  OBVIOUS
<1> HIDE DEF g
<1>2. f[1 .. n] = g[1 .. n]
  BY <1>1, FoldsAgree
<1> QED
  BY <1>2 DEF Total, g

\* The defining equation of the sum, and its type.
LEMMA TotalStep ==
  ASSUME NEW n \in Nat, NEW v \in [1 .. n -> Nat]
  PROVE  /\ Total(v, 0) = 0
         /\ \A m \in 0 .. n - 1 : Total(v, m + 1) = Total(v, m) + v[m + 1]
<1>1. Total(v, 0) = 0
  <2>1. PICK f : Folds(f, v, 0)
    BY FoldExists
  <2>2. Total(v, 0) = f[1 .. 0] /\ 1 .. 0 = {}
    BY <2>1, TotalFolds
  <2>3. f[{}] = 0
    BY <2>1 DEF Folds
  <2> QED
    BY <2>2, <2>3
<1>2. ASSUME NEW m \in 0 .. n - 1 PROVE Total(v, m + 1) = Total(v, m) + v[m + 1]
  <2>1. PICK f : Folds(f, v, m + 1)
    BY FoldExists
  <2>2. PICK g : Folds(g, v, m)
    BY FoldExists
  <2>3. Total(v, m + 1) = f[1 .. m + 1] /\ Total(v, m) = g[1 .. m]
    BY <2>1, <2>2, TotalFolds
  <2>4. f[1 .. m] = g[1 .. m]
    BY <2>1, <2>2, FoldsAgree
  <2>5. Max(1 .. m + 1) = m + 1
    BY MaxIs
  <2>6. (1 .. m + 1) \ {m + 1} = 1 .. m /\ (1 .. m + 1) # {}
    OBVIOUS
  <2>7. f[1 .. m + 1] = f[(1 .. m + 1) \ {Max(1 .. m + 1)}] + v[Max(1 .. m + 1)]
    BY <2>1, <2>6 DEF Folds
  <2> QED
    BY <2>3, <2>4, <2>5, <2>6, <2>7
<1> QED
  BY <1>1, <1>2

LEMMA TotalType ==
  ASSUME NEW n \in Nat, NEW v \in [1 .. n -> Nat]
  PROVE  \A m \in 0 .. n : Total(v, m) \in Nat
<1> DEFINE Bad == {m \in Nat : m <= n /\ Total(v, m) \notin Nat}
<1> SUFFICES ASSUME Bad # {} PROVE FALSE
  OBVIOUS
<1> DEFINE m == Min(Bad)
<1>1. m \in Bad /\ \A j \in Bad : m <= j
  BY MinOfNaturals
<1> HIDE DEF m
<1>2. m # 0
  BY <1>1, TotalStep
<1>3. m - 1 \in 0 .. n - 1 /\ m - 1 \notin Bad /\ m - 1 + 1 = m
  BY <1>1, <1>2
<1>4. Total(v, m - 1 + 1) = Total(v, m - 1) + v[m - 1 + 1]
  BY <1>3, TotalStep
<1>5. v[m] \in Nat
  BY <1>1, <1>2
<1>6. Total(v, m) \in Nat
  BY <1>3, <1>4, <1>5
<1> QED
  BY <1>1, <1>6

\* The sum of all numbers is that of the first k and that of the others.
LEMMA TotalSplits ==
  ASSUME NEW n \in Nat, NEW v \in [1 .. n -> Nat], NEW k \in 0 .. n, NEW u,
         u = [i \in 1 .. n - k |-> v[k + i]]
  PROVE  \A m \in 0 .. n - k : Total(v, k + m) = Total(v, k) + Total(u, m)
<1>0. u \in [1 .. n - k -> Nat] /\ n - k \in Nat
  OBVIOUS
<1> DEFINE Bad == {m \in Nat : m <= n - k /\ Total(v, k + m) # Total(v, k) + Total(u, m)}
<1> SUFFICES ASSUME Bad # {} PROVE FALSE
  <2>1. \A m \in 0 .. n - k : m \in Nat /\ m <= n - k
    OBVIOUS
  <2> QED
    BY <2>1
<1> DEFINE m == Min(Bad)
<1>1. m \in Bad /\ \A j \in Bad : m <= j
  BY MinOfNaturals
<1> HIDE DEF m
<1>2. Total(v, k) \in Nat
  BY TotalType
<1>3. m # 0
  <2>1. Total(u, 0) = 0
    BY <1>0, TotalStep
  <2> QED
    BY <1>1, <1>2, <2>1
<1>4. m - 1 \in 0 .. n - k - 1 /\ m - 1 \notin Bad /\ m - 1 + 1 = m /\ k + m - 1 \in 0 .. n - 1
      /\ k + m - 1 + 1 = k + m /\ k + (m - 1) = k + m - 1 /\ m \in 1 .. n - k
  BY <1>1, <1>3
<1>5. Total(v, k + m - 1) = Total(v, k) + Total(u, m - 1)
  BY <1>1, <1>4
<1>6. Total(v, k + m) = Total(v, k + m - 1) + v[k + m]
  <2>1. Total(v, k + m - 1 + 1) = Total(v, k + m - 1) + v[k + m - 1 + 1]
    BY <1>4, TotalStep
  <2> QED
    BY <1>4, <2>1
<1>7. Total(u, m) = Total(u, m - 1) + u[m]
  <2>1. Total(u, m - 1 + 1) = Total(u, m - 1) + u[m - 1 + 1]
    BY <1>0, <1>4, TotalStep
  <2> QED
    BY <1>4, <2>1
<1>8. u[m] = v[k + m]
  BY <1>4
<1>9. Total(u, m - 1) \in Nat /\ v[k + m] \in Nat
  <2>1. m - 1 \in 0 .. n - k /\ k + m \in 1 .. n
    BY <1>4
  <2> QED
    BY <1>0, <2>1, TotalType
<1> HIDE DEF Bad
<1>10. Total(v, k + m) = Total(v, k) + Total(u, m)
  BY <1>2, <1>5, <1>6, <1>7, <1>8, <1>9
<1> QED
  BY <1>1, <1>10 DEF Bad

\* What the members of a window have at least.
Stamped(E) ==
  \A x \in E : x.timestamp \in Nat /\ x.inputTokens \in Nat /\ x.outputTokens \in Nat

LEMMA EntryStamped == Stamped(Entry)
BY DEF Stamped, Entry

\* The token sums of a window are sums of its numbers.
LEMMA SumInputIsTotal ==
  ASSUME NEW E, Stamped(E), NEW w \in Seq(E)
  PROVE  SumInput(w) = Total([i \in 1 .. Len(w) |-> w[i].inputTokens], Len(w))
<1> DEFINE n == Len(w)
<1> DEFINE v == [i \in 1 .. n |-> w[i].inputTokens]
<1>1. DOMAIN w = 1 .. n /\ n \in Nat /\ v \in [1 .. n -> Nat] /\ n \in 0 .. n
  <2>1. DOMAIN w = 1 .. n /\ n \in Nat
    BY LenProperties
  <2>2. ASSUME NEW i \in 1 .. n PROVE w[i].inputTokens \in Nat
    <3>1. w[i] \in E
      BY ElementOfSeq
    <3> QED
      BY <3>1 DEF Stamped
  <2> QED
    BY <2>1, <2>2
<1> DEFINE F == CHOOSE iter : iter = [s \in SUBSET DOMAIN w |->
                  IF s = {} THEN 0 ELSE LET x == Max(s) IN iter[s \ {x}] + w[x].inputTokens]
<1>2. SumInput(w) = F[DOMAIN w]
  BY Zenon DEF SumInput, FoldLeft, MapThenFoldSet
<1>3. PICK f : Folds(f, v, n)
  BY <1>1, FoldExists
<1> HIDE DEF n
<1>4. \A s \in SUBSET (1 .. n) : s # {} => v[Max(s)] = w[Max(s)].inputTokens
  BY <1>1, MaxOfIndexes
<1> HIDE DEF v
<1>5. f = [s \in SUBSET (1 .. n) |-> IF s = {} THEN 0 ELSE f[s \ {Max(s)}] + w[Max(s)].inputTokens]
  BY <1>3, <1>4 DEF Folds
<1>6. F = [s \in SUBSET (1 .. n) |-> IF s = {} THEN 0 ELSE F[s \ {Max(s)}] + w[Max(s)].inputTokens]
  BY <1>1, <1>5
<1> HIDE DEF F
<1>7. Folds(F, v, n)
  BY <1>4, <1>6 DEF Folds
<1> QED
  BY <1>1, <1>2, <1>7, TotalFolds DEF v, n

LEMMA SumOutputIsTotal ==
  ASSUME NEW E, Stamped(E), NEW w \in Seq(E)
  PROVE  SumOutput(w) = Total([i \in 1 .. Len(w) |-> w[i].outputTokens], Len(w))
<1> DEFINE n == Len(w)
<1> DEFINE v == [i \in 1 .. n |-> w[i].outputTokens]
<1>1. DOMAIN w = 1 .. n /\ n \in Nat /\ v \in [1 .. n -> Nat] /\ n \in 0 .. n
  <2>1. DOMAIN w = 1 .. n /\ n \in Nat
    BY LenProperties
  <2>2. ASSUME NEW i \in 1 .. n PROVE w[i].outputTokens \in Nat
    <3>1. w[i] \in E
      BY ElementOfSeq
    <3> QED
      BY <3>1 DEF Stamped
  <2> QED
    BY <2>1, <2>2
<1> DEFINE F == CHOOSE iter : iter = [s \in SUBSET DOMAIN w |->
                  IF s = {} THEN 0 ELSE LET x == Max(s) IN iter[s \ {x}] + w[x].outputTokens]
<1>2. SumOutput(w) = F[DOMAIN w]
  BY Zenon DEF SumOutput, FoldLeft, MapThenFoldSet
<1>3. PICK f : Folds(f, v, n)
  BY <1>1, FoldExists
<1> HIDE DEF n
<1>4. \A s \in SUBSET (1 .. n) : s # {} => v[Max(s)] = w[Max(s)].outputTokens
  BY <1>1, MaxOfIndexes
<1> HIDE DEF v
<1>5. f = [s \in SUBSET (1 .. n) |-> IF s = {} THEN 0 ELSE f[s \ {Max(s)}] + w[Max(s)].outputTokens]
  BY <1>3, <1>4 DEF Folds
<1>6. F = [s \in SUBSET (1 .. n) |-> IF s = {} THEN 0 ELSE F[s \ {Max(s)}] + w[Max(s)].outputTokens]
  BY <1>1, <1>5
<1> HIDE DEF F
<1>7. Folds(F, v, n)
  BY <1>4, <1>6 DEF Folds
<1> QED
  BY <1>1, <1>2, <1>7, TotalFolds DEF v, n

LEMMA EvictDailyType ==
  ASSUME NEW d \in Seq(Nat), NEW t \in Nat
  PROVE  EvictDaily(d, t) \in Seq(Nat)
<1> DEFINE live == {i \in DOMAIN d : d[i] > t - DAY_MS}
<1>1. live \in SUBSET DOMAIN d
  OBVIOUS
<1>2. EvictDaily(d, t) = SuffixFrom(d, live)
  BY DEF EvictDaily
<1> HIDE DEF live
<1> QED
  BY <1>1, <1>2, SuffixFromDrops

\* Eviction keeps entries only.
LEMMA EvictWindowType ==
  ASSUME NEW E, Stamped(E), NEW w \in Seq(E), NEW t \in Nat
  PROVE  EvictWindow(w, t) \in Seq(E)
<1> DEFINE live == {i \in DOMAIN w : w[i].timestamp > t - WINDOW_MS}
<1>1. live \in SUBSET DOMAIN w
  OBVIOUS
<1>2. EvictWindow(w, t) = SuffixFrom(w, live)
  BY DEF EvictWindow
<1> HIDE DEF live
<1> QED
  BY <1>1, <1>2, SuffixFromDrops

\* The time an entry of the window expires, or one window from now.
LEMMA SlotAfterType ==
  ASSUME NEW E, Stamped(E), NEW w \in Seq(E), NEW enough \in SUBSET DOMAIN w, NEW t \in Nat
  PROVE  SlotAfter(w, enough, t) \in Nat
<1>1. CASE enough = {}
  BY <1>1, WindowAssumption DEF SlotAfter
<1>2. CASE enough # {}
  <2>1. Min(enough) \in DOMAIN w
    <3>1. enough \in SUBSET Nat
      OBVIOUS
    <3> QED
      BY <1>2, <3>1, MinOfNaturals
  <2> DEFINE m == Min(enough)
  <2> HIDE DEF m
  <2>2. m \in 1 .. Len(w)
    BY <2>1 DEF m
  <2>3. w[m] \in E
    BY <2>2, ElementOfSeq
  <2>4. w[m].timestamp \in Nat
    BY <2>3 DEF Stamped
  <2>5. SlotAfter(w, enough, t) = w[m].timestamp + WINDOW_MS + 1
    BY <1>2 DEF SlotAfter, m
  <2> QED
    BY <2>4, <2>5, WindowAssumption
<1> QED
  BY <1>1, <1>2

\* The answer of checkAndRecord is a time.
LEMMA CheckReplyType ==
  ASSUME NEW L, NEW E, Stamped(E), NEW w \in Seq(E), NEW d \in Seq(Nat), NEW until \in Nat, NEW est,
         NEW t \in Nat
  PROVE  CheckReply(L, w, d, until, est, t) \in Nat
<1> DEFINE e == EvictWindow(w, t)
<1> DEFINE f == EvictDaily(d, t)
<1>1. e \in Seq(E) /\ f \in Seq(Nat)
  BY EvictWindowType, EvictDailyType
<1> HIDE DEF e, f
<1>2. OldestOf(e, t) + WINDOW_MS + 1 \in Nat
  <2>1. CASE e = <<>>
    BY <2>1, WindowAssumption DEF OldestOf
  <2>2. CASE e # <<>>
    <3>1. 1 \in 1 .. Len(e)
      BY <1>1, <2>2, EmptySeq, LenProperties
    <3>2. e[1] \in E
      BY <1>1, <3>1, ElementOfSeq
    <3>3. e[1].timestamp \in Nat
      BY <3>2 DEF Stamped
    <3> QED
      BY <2>2, <3>3, WindowAssumption DEF OldestOf
  <2> QED
    BY <2>1, <2>2
<1>3. OldestDaily(f, t) + DAY_MS + 1 \in Nat
  <2>1. CASE f = <<>>
    BY <2>1, WindowAssumption DEF OldestDaily
  <2>2. CASE f # <<>>
    <3>1. 1 \in 1 .. Len(f)
      BY <1>1, <2>2, EmptySeq, LenProperties
    <3>2. f[1] \in Nat
      BY <1>1, <3>1, ElementOfSeq
    <3> QED
      BY <2>2, <3>2, WindowAssumption DEF OldestDaily
  <2> QED
    BY <2>1, <2>2
<1>4. ItpmNextSlot(e, L.itpm, est, t) \in Nat
  <2>1. ItpmEnough(e, L.itpm, est) \in SUBSET DOMAIN e
    BY DEF ItpmEnough
  <2> QED
    BY <1>1, <2>1, SlotAfterType DEF ItpmNextSlot
<1>5. OtpmNextSlot(e, L.otpm, t) \in Nat
  <2> DEFINE enough == {i \in DOMAIN e : SumOutput(SubSeq(e, i + 1, Len(e))) < L.otpm}
  <2>1. enough \in SUBSET DOMAIN e
    OBVIOUS
  <2>2. OtpmNextSlot(e, L.otpm, t) = SlotAfter(e, enough, t)
    BY DEF OtpmNextSlot
  <2> HIDE DEF enough
  <2> QED
    BY <1>1, <2>1, <2>2, SlotAfterType
<1> QED
  BY <1>2, <1>3, <1>4, <1>5 DEF CheckReply, e, f

(***************************************************************************)
(* Eviction as time passes: what a window loses between two moments.       *)
(***************************************************************************)
LEMMA LaterSuffix ==
  ASSUME NEW S, NEW s \in Seq(S), NEW v \in [1 .. Len(s) -> Nat], NEW span \in Nat,
         NEW t \in Nat, NEW u \in Nat, t <= u
  PROVE  \E c \in 0 .. Len(s) : \E m \in 0 .. Len(s) - c :
           /\ SuffixFrom(s, {i \in DOMAIN s : v[i] > t - span}) = Suffix(s, c)
           /\ SuffixFrom(s, {i \in DOMAIN s : v[i] > u - span}) = Suffix(Suffix(s, c), m)
           /\ \A i \in 1 .. m : v[c + i] + span <= u
           /\ c + m < Len(s) => v[c + m + 1] + span > u
           /\ c < Len(s) => v[c + 1] + span > t
<1> DEFINE A == {i \in DOMAIN s : v[i] > t - span}
<1> DEFINE B == {i \in DOMAIN s : v[i] > u - span}
<1>1. A \in SUBSET DOMAIN s /\ B \in SUBSET DOMAIN s
  OBVIOUS
<1>2. Len(s) \in Nat /\ DOMAIN s = 1 .. Len(s)
  BY LenProperties
<1>3. \A i \in 1 .. Len(s) : /\ i \in A <=> v[i] + span > t
                             /\ i \in B <=> v[i] + span > u
  <2> TAKE i \in 1 .. Len(s)
  <2>1. v[i] \in Nat
    OBVIOUS
  <2> QED
    BY <1>2, <2>1
<1> HIDE DEF A, B
<1>4. PICK c \in 0 .. Len(s) :
        /\ SuffixFrom(s, A) = Suffix(s, c)
        /\ \A i \in 1 .. c : i \notin A
        /\ c < Len(s) => c + 1 \in A
  BY <1>1, SuffixFromIs
<1>5. PICK b \in 0 .. Len(s) :
        /\ SuffixFrom(s, B) = Suffix(s, b)
        /\ \A i \in 1 .. b : i \notin B
        /\ b < Len(s) => b + 1 \in B
  BY <1>1, SuffixFromIs
<1>6. c <= b
  <2> SUFFICES ASSUME b < c PROVE FALSE
    BY <1>2
  <2>1. b + 1 \in 1 .. c /\ b + 1 \in 1 .. Len(s)
    BY <1>2
  <2>2. v[b + 1] \in Nat /\ v[b + 1] + span > u /\ ~ (v[b + 1] + span > t)
    BY <1>2, <1>3, <1>4, <1>5, <2>1
  <2> QED
    BY <2>2
<1> DEFINE m == b - c
<1>7. m \in 0 .. Len(s) - c /\ c + m = b
  BY <1>2, <1>6
<1>8. SuffixFrom(s, B) = Suffix(Suffix(s, c), m)
  BY <1>5, <1>7, SuffixOfSuffix
<1> HIDE DEF m
<1>9. \A i \in 1 .. m : v[c + i] + span <= u
  <2> TAKE i \in 1 .. m
  <2>1. c + i \in 1 .. b /\ c + i \in 1 .. Len(s)
    BY <1>2, <1>7
  <2>2. v[c + i] \in Nat /\ ~ (v[c + i] + span > u)
    BY <1>3, <1>5, <2>1
  <2> QED
    BY <2>2
<1>10. c + m < Len(s) => v[c + m + 1] + span > u
  <2> SUFFICES ASSUME b < Len(s) PROVE v[b + 1] + span > u
    BY <1>7
  <2>1. b + 1 \in B /\ b + 1 \in 1 .. Len(s)
    BY <1>2, <1>5
  <2> QED
    BY <1>3, <2>1
<1>11. c < Len(s) => v[c + 1] + span > t
  <2> SUFFICES ASSUME c < Len(s) PROVE v[c + 1] + span > t
    OBVIOUS
  <2>1. c + 1 \in A /\ c + 1 \in 1 .. Len(s)
    BY <1>2, <1>4
  <2> QED
    BY <1>3, <2>1
<1> QED
  BY <1>4, <1>7, <1>8, <1>9, <1>10, <1>11 DEF A, B

LEMMA SomeLeft ==
  ASSUME NEW n \in Nat, NEW c \in 0 .. n, n - c # 0
  PROVE  1 \in 1 .. n - c /\ c + 1 \in 1 .. n /\ c < n
OBVIOUS

\* Between t and u the window loses the first entries, those that expire, and no other.
LEMMA EvictLater ==
  ASSUME NEW E, Stamped(E), NEW w \in Seq(E), NEW t \in Nat, NEW u \in Nat, t <= u
  PROVE  LET e == EvictWindow(w, t) IN
         /\ e \in Seq(E)
         /\ Len(e) <= Len(w)
         /\ \E c \in 0 .. Len(w) : e = Suffix(w, c)
         /\ e # <<>> => e[1].timestamp + WINDOW_MS > t
         /\ \E m \in 0 .. Len(e) :
              /\ EvictWindow(w, u) = Suffix(e, m)
              /\ \A i \in 1 .. m : e[i].timestamp + WINDOW_MS <= u
              /\ m < Len(e) => e[m + 1].timestamp + WINDOW_MS > u
<1> DEFINE v == [i \in 1 .. Len(w) |-> w[i].timestamp]
<1>1. v \in [1 .. Len(w) -> Nat] /\ \A i \in 1 .. Len(w) : v[i] = w[i].timestamp
  <2>1. ASSUME NEW i \in 1 .. Len(w) PROVE w[i].timestamp \in Nat
    <3>1. w[i] \in E
      BY ElementOfSeq
    <3> QED
      BY <3>1 DEF Stamped
  <2> QED
    BY <2>1
<1> HIDE DEF v
<1>2. Len(w) \in Nat /\ DOMAIN w = 1 .. Len(w) /\ WINDOW_MS \in Nat
  BY LenProperties, WindowAssumption
<1>3. /\ EvictWindow(w, t) = SuffixFrom(w, {i \in DOMAIN w : v[i] > t - WINDOW_MS})
      /\ EvictWindow(w, u) = SuffixFrom(w, {i \in DOMAIN w : v[i] > u - WINDOW_MS})
  <2>1. /\ {i \in DOMAIN w : w[i].timestamp > t - WINDOW_MS} = {i \in DOMAIN w : v[i] > t - WINDOW_MS}
        /\ {i \in DOMAIN w : w[i].timestamp > u - WINDOW_MS} = {i \in DOMAIN w : v[i] > u - WINDOW_MS}
    BY <1>1, <1>2
  <2> QED
    BY <2>1, Zenon DEF EvictWindow
<1>3a. PICK c \in 0 .. Len(w) : \E m \in 0 .. Len(w) - c :
        /\ EvictWindow(w, t) = Suffix(w, c)
        /\ EvictWindow(w, u) = Suffix(Suffix(w, c), m)
        /\ \A i \in 1 .. m : v[c + i] + WINDOW_MS <= u
        /\ c + m < Len(w) => v[c + m + 1] + WINDOW_MS > u
        /\ c < Len(w) => v[c + 1] + WINDOW_MS > t
  <2>1. \E c \in 0 .. Len(w) : \E m \in 0 .. Len(w) - c :
           /\ SuffixFrom(w, {i \in DOMAIN w : v[i] > t - WINDOW_MS}) = Suffix(w, c)
           /\ SuffixFrom(w, {i \in DOMAIN w : v[i] > u - WINDOW_MS}) = Suffix(Suffix(w, c), m)
           /\ \A i \in 1 .. m : v[c + i] + WINDOW_MS <= u
           /\ c + m < Len(w) => v[c + m + 1] + WINDOW_MS > u
           /\ c < Len(w) => v[c + 1] + WINDOW_MS > t
    BY <1>1, <1>2, LaterSuffix
  <2> QED
    BY <1>3, <2>1
<1>4. PICK m \in 0 .. Len(w) - c :
        /\ EvictWindow(w, t) = Suffix(w, c)
        /\ EvictWindow(w, u) = Suffix(Suffix(w, c), m)
        /\ \A i \in 1 .. m : v[c + i] + WINDOW_MS <= u
        /\ c + m < Len(w) => v[c + m + 1] + WINDOW_MS > u
        /\ c < Len(w) => v[c + 1] + WINDOW_MS > t
  BY <1>3a
<1> DEFINE e == Suffix(w, c)
<1>5. e \in Seq(E) /\ Len(e) = Len(w) - c /\ \A i \in 1 .. Len(w) - c : e[i] = w[c + i]
  BY SuffixIs
<1> HIDE DEF e
<1>6. m \in 0 .. Len(e) /\ Len(e) <= Len(w)
  BY <1>2, <1>5
<1>7. \A i \in 1 .. m : e[i].timestamp + WINDOW_MS <= u
  <2> TAKE i \in 1 .. m
  <2>1. i \in 1 .. Len(w) - c /\ c + i \in 1 .. Len(w)
    BY <1>2
  <2> QED
    BY <1>1, <1>4, <1>5, <2>1
<1>8. m < Len(e) => e[m + 1].timestamp + WINDOW_MS > u
  <2> SUFFICES ASSUME m < Len(e) PROVE e[m + 1].timestamp + WINDOW_MS > u
    OBVIOUS
  <2>1. m + 1 \in 1 .. Len(w) - c /\ c + m + 1 \in 1 .. Len(w) /\ c + (m + 1) = c + m + 1
        /\ c + m < Len(w)
    BY <1>2, <1>5
  <2> QED
    BY <1>1, <1>4, <1>5, <2>1
<1>9. e # <<>> => e[1].timestamp + WINDOW_MS > t
  <2> SUFFICES ASSUME e # <<>> PROVE e[1].timestamp + WINDOW_MS > t
    OBVIOUS
  <2>1. Len(e) # 0
    BY <1>5, EmptySeq
  <2>0. Len(w) - c # 0
    BY <1>5, <2>1
  <2>2. 1 \in 1 .. Len(w) - c /\ c + 1 \in 1 .. Len(w) /\ c < Len(w)
    BY <1>2, <2>0, SomeLeft
  <2> QED
    BY <1>1, <1>4, <1>5, <2>2
<1> QED
  BY <1>4, <1>5, <1>6, <1>7, <1>8, <1>9 DEF e

LEMMA EvictDailyLater ==
  ASSUME NEW d \in Seq(Nat), NEW t \in Nat, NEW u \in Nat, t <= u
  PROVE  LET f == EvictDaily(d, t) IN
         /\ f \in Seq(Nat)
         /\ Len(f) <= Len(d)
         /\ \E c \in 0 .. Len(d) : f = Suffix(d, c)
         /\ f # <<>> => f[1] + DAY_MS > t
         /\ \E m \in 0 .. Len(f) :
              /\ EvictDaily(d, u) = Suffix(f, m)
              /\ \A i \in 1 .. m : f[i] + DAY_MS <= u
              /\ m < Len(f) => f[m + 1] + DAY_MS > u
<1>2. Len(d) \in Nat /\ DOMAIN d = 1 .. Len(d) /\ DAY_MS \in Nat /\ d \in [1 .. Len(d) -> Nat]
  BY LenProperties, WindowAssumption
<1>3a. PICK c \in 0 .. Len(d) : \E m \in 0 .. Len(d) - c :
        /\ EvictDaily(d, t) = Suffix(d, c)
        /\ EvictDaily(d, u) = Suffix(Suffix(d, c), m)
        /\ \A i \in 1 .. m : d[c + i] + DAY_MS <= u
        /\ c + m < Len(d) => d[c + m + 1] + DAY_MS > u
        /\ c < Len(d) => d[c + 1] + DAY_MS > t
  <2>1. \E c \in 0 .. Len(d) : \E m \in 0 .. Len(d) - c :
           /\ SuffixFrom(d, {i \in DOMAIN d : d[i] > t - DAY_MS}) = Suffix(d, c)
           /\ SuffixFrom(d, {i \in DOMAIN d : d[i] > u - DAY_MS}) = Suffix(Suffix(d, c), m)
           /\ \A i \in 1 .. m : d[c + i] + DAY_MS <= u
           /\ c + m < Len(d) => d[c + m + 1] + DAY_MS > u
           /\ c < Len(d) => d[c + 1] + DAY_MS > t
    BY <1>2, LaterSuffix
  <2> QED
    BY <2>1 DEF EvictDaily
<1>4. PICK m \in 0 .. Len(d) - c :
        /\ EvictDaily(d, t) = Suffix(d, c)
        /\ EvictDaily(d, u) = Suffix(Suffix(d, c), m)
        /\ \A i \in 1 .. m : d[c + i] + DAY_MS <= u
        /\ c + m < Len(d) => d[c + m + 1] + DAY_MS > u
        /\ c < Len(d) => d[c + 1] + DAY_MS > t
  BY <1>3a
<1> DEFINE f == Suffix(d, c)
<1>5. f \in Seq(Nat) /\ Len(f) = Len(d) - c /\ \A i \in 1 .. Len(d) - c : f[i] = d[c + i]
  BY SuffixIs
<1> HIDE DEF f
<1>6. m \in 0 .. Len(f) /\ Len(f) <= Len(d)
  BY <1>2, <1>5
<1>7. \A i \in 1 .. m : f[i] + DAY_MS <= u
  <2> TAKE i \in 1 .. m
  <2>1. i \in 1 .. Len(d) - c
    BY <1>2
  <2> QED
    BY <1>4, <1>5, <2>1
<1>8. m < Len(f) => f[m + 1] + DAY_MS > u
  <2> SUFFICES ASSUME m < Len(f) PROVE f[m + 1] + DAY_MS > u
    OBVIOUS
  <2>1. m + 1 \in 1 .. Len(d) - c /\ c + (m + 1) = c + m + 1 /\ c + m < Len(d)
    BY <1>2, <1>5
  <2>2. f[m + 1] = d[c + (m + 1)]
    BY <1>5, <2>1
  <2> QED
    BY <1>4, <2>1, <2>2
<1>9. f # <<>> => f[1] + DAY_MS > t
  <2> SUFFICES ASSUME f # <<>> PROVE f[1] + DAY_MS > t
    OBVIOUS
  <2>1. Len(f) # 0
    BY <1>5, EmptySeq
  <2>0. Len(d) - c # 0
    BY <1>5, <2>1
  <2>2. 1 \in 1 .. Len(d) - c /\ c + 1 \in 1 .. Len(d) /\ c < Len(d)
    BY <1>2, <2>0, SomeLeft
  <2> QED
    BY <1>4, <1>5, <2>2
<1> QED
  BY <1>4, <1>5, <1>6, <1>7, <1>8, <1>9 DEF f

\* A suffix adds up to no more than the whole, and nothing to 0.
LEMMA SumInputOfSuffix ==
  ASSUME NEW E, Stamped(E), NEW w \in Seq(E), NEW c \in 0 .. Len(w)
  PROVE  SumInput(w) \in Nat /\ SumInput(Suffix(w, c)) \in Nat
         /\ SumInput(Suffix(w, c)) <= SumInput(w)
<1> DEFINE n == Len(w)
<1> DEFINE v == [i \in 1 .. n |-> w[i].inputTokens]
<1> DEFINE u == [i \in 1 .. n - c |-> v[c + i]]
<1>1. n \in Nat /\ n \in 0 .. n /\ n - c \in 0 .. n - c /\ c + (n - c) = n /\ c \in 0 .. n
  BY LenProperties
<1>2. v \in [1 .. n -> Nat]
  <2>1. ASSUME NEW i \in 1 .. n PROVE w[i].inputTokens \in Nat
    <3>1. w[i] \in E
      BY ElementOfSeq
    <3> QED
      BY <3>1 DEF Stamped
  <2> QED
    BY <2>1
<1>3. SumInput(w) = Total(v, n)
  BY SumInputIsTotal
<1>4. SumInput(Suffix(w, c)) = Total(u, n - c)
  <2> DEFINE s == Suffix(w, c)
  <2>1. s \in Seq(E) /\ Len(s) = n - c /\ \A i \in 1 .. n - c : s[i] = w[c + i]
    BY SuffixIs
  <2>2. SumInput(s) = Total([i \in 1 .. Len(s) |-> s[i].inputTokens], Len(s))
    BY <2>1, SumInputIsTotal
  <2> HIDE DEF s
  <2>3. [i \in 1 .. Len(s) |-> s[i].inputTokens] = u
    <3>1. \A i \in 1 .. n - c : c + i \in 1 .. n
      BY <1>1
    <3>2. \A i \in 1 .. n - c : s[i].inputTokens = v[c + i]
      BY <2>1, <3>1
    <3> QED
      BY <2>1, <3>2
  <2> QED
    BY <2>1, <2>2, <2>3 DEF s
<1> HIDE DEF v
<1>5. u \in [1 .. n - c -> Nat] /\ n - c \in Nat
  BY <1>1, <1>2
<1>6. Total(v, c + (n - c)) = Total(v, c) + Total(u, n - c)
  BY <1>1, <1>2, TotalSplits
<1>7. Total(v, n) \in Nat /\ Total(v, c) \in Nat
  BY <1>1, <1>2, TotalType
<1>8. Total(u, n - c) \in Nat
  BY <1>1, <1>5, TotalType
<1> HIDE DEF u, n
<1>9. Total(v, n) = Total(v, c) + Total(u, n - c)
  BY <1>1, <1>6
<1> QED
  BY <1>3, <1>4, <1>7, <1>8, <1>9

LEMMA SumInputOfNone == SumInput(<<>>) = 0
<1> DEFINE v == [i \in 1 .. 0 |-> <<>>[i].inputTokens]
<1>1. <<>> \in Seq(Entry) /\ Len(<<>>) = 0
  BY EmptySeq
<1>2. SumInput(<<>>) = Total([i \in 1 .. Len(<<>>) |-> <<>>[i].inputTokens], Len(<<>>))
  BY <1>1, SumInputIsTotal, EntryStamped
<1>3. SumInput(<<>>) = Total(v, 0)
  BY <1>1, <1>2
<1>4. v \in [1 .. 0 -> Nat]
  OBVIOUS
<1> HIDE DEF v
<1> QED
  BY <1>3, <1>4, TotalStep

LEMMA SumOutputOfSuffix ==
  ASSUME NEW E, Stamped(E), NEW w \in Seq(E), NEW c \in 0 .. Len(w)
  PROVE  SumOutput(w) \in Nat /\ SumOutput(Suffix(w, c)) \in Nat
         /\ SumOutput(Suffix(w, c)) <= SumOutput(w)
<1> DEFINE n == Len(w)
<1> DEFINE v == [i \in 1 .. n |-> w[i].outputTokens]
<1> DEFINE u == [i \in 1 .. n - c |-> v[c + i]]
<1>1. n \in Nat /\ n \in 0 .. n /\ n - c \in 0 .. n - c /\ c + (n - c) = n /\ c \in 0 .. n
  BY LenProperties
<1>2. v \in [1 .. n -> Nat]
  <2>1. ASSUME NEW i \in 1 .. n PROVE w[i].outputTokens \in Nat
    <3>1. w[i] \in E
      BY ElementOfSeq
    <3> QED
      BY <3>1 DEF Stamped
  <2> QED
    BY <2>1
<1>3. SumOutput(w) = Total(v, n)
  BY SumOutputIsTotal
<1>4. SumOutput(Suffix(w, c)) = Total(u, n - c)
  <2> DEFINE s == Suffix(w, c)
  <2>1. s \in Seq(E) /\ Len(s) = n - c /\ \A i \in 1 .. n - c : s[i] = w[c + i]
    BY SuffixIs
  <2>2. SumOutput(s) = Total([i \in 1 .. Len(s) |-> s[i].outputTokens], Len(s))
    BY <2>1, SumOutputIsTotal
  <2> HIDE DEF s
  <2>3. [i \in 1 .. Len(s) |-> s[i].outputTokens] = u
    <3>1. \A i \in 1 .. n - c : c + i \in 1 .. n
      BY <1>1
    <3>2. \A i \in 1 .. n - c : s[i].outputTokens = v[c + i]
      BY <2>1, <3>1
    <3> QED
      BY <2>1, <3>2
  <2> QED
    BY <2>1, <2>2, <2>3 DEF s
<1> HIDE DEF v
<1>5. u \in [1 .. n - c -> Nat] /\ n - c \in Nat
  BY <1>1, <1>2
<1>6. Total(v, c + (n - c)) = Total(v, c) + Total(u, n - c)
  BY <1>1, <1>2, TotalSplits
<1>7. Total(v, n) \in Nat /\ Total(v, c) \in Nat
  BY <1>1, <1>2, TotalType
<1>8. Total(u, n - c) \in Nat
  BY <1>1, <1>5, TotalType
<1> HIDE DEF u, n
<1>9. Total(v, n) = Total(v, c) + Total(u, n - c)
  BY <1>1, <1>6
<1> QED
  BY <1>3, <1>4, <1>7, <1>8, <1>9

LEMMA SumOutputOfNone == SumOutput(<<>>) = 0
<1> DEFINE v == [i \in 1 .. 0 |-> <<>>[i].outputTokens]
<1>1. <<>> \in Seq(Entry) /\ Len(<<>>) = 0
  BY EmptySeq
<1>2. SumOutput(<<>>) = Total([i \in 1 .. Len(<<>>) |-> <<>>[i].outputTokens], Len(<<>>))
  BY <1>1, SumOutputIsTotal, EntryStamped
<1>3. SumOutput(<<>>) = Total(v, 0)
  BY <1>1, <1>2
<1>4. v \in [1 .. 0 -> Nat]
  OBVIOUS
<1> HIDE DEF v
<1> QED
  BY <1>3, <1>4, TotalStep

(***************************************************************************)
(* Told times: what a refused caller is told, and what becomes of it.      *)
(***************************************************************************)
\* The window is in the order of its admissions.
Ascending(w) == \A i \in 1 .. Len(w) : \A j \in i .. Len(w) : w[i].timestamp <= w[j].timestamp

LEMMA SuffixAscending ==
  ASSUME NEW E, Stamped(E), NEW w \in Seq(E), NEW c \in 0 .. Len(w), Ascending(w)
  PROVE  Ascending(Suffix(w, c))
<1> DEFINE e == Suffix(w, c)
<1>1. e \in Seq(E) /\ Len(e) = Len(w) - c /\ \A i \in 1 .. Len(w) - c : e[i] = w[c + i]
  BY SuffixIs
<1>2. Len(w) \in Nat
  BY LenProperties
<1> HIDE DEF e
<1>3. ASSUME NEW i \in 1 .. Len(e), NEW j \in i .. Len(e)
      PROVE  e[i].timestamp <= e[j].timestamp
  <2>1. i \in 1 .. Len(w) - c /\ j \in 1 .. Len(w) - c
    BY <1>1, <1>2
  <2>2. c + i \in 1 .. Len(w) /\ c + j \in c + i .. Len(w)
    BY <1>2, <2>1
  <2> QED
    BY <1>1, <2>1, <2>2 DEF Ascending
<1> QED
  BY <1>3 DEF Ascending, e

LEMMA EntryTime ==
  ASSUME NEW E, Stamped(E), NEW w \in Seq(E), NEW i \in 1 .. Len(w)
  PROVE  w[i].timestamp \in Nat
<1>1. w[i] \in E
  BY ElementOfSeq
<1> QED
  BY <1>1 DEF Stamped

\* Up to two milliseconds before the told slot too few entries have gone.
LEMMA SlotNotEarlier ==
  ASSUME NEW E, Stamped(E), NEW w \in Seq(E), Ascending(w), NEW t \in Nat,
         NEW enough \in SUBSET DOMAIN EvictWindow(w, t)
  PROVE  LET e == EvictWindow(w, t)
             told == SlotAfter(e, enough, t)
         IN  /\ told \in Nat /\ told > t
             /\ \A u \in t .. told - 2 :
                  \E m \in 0 .. Len(e) : EvictWindow(w, u) = Suffix(e, m) /\ m \notin enough
<1> DEFINE e == EvictWindow(w, t)
<1> DEFINE told == SlotAfter(e, enough, t)
<1>1. e \in Seq(E) /\ (e # <<>> => e[1].timestamp + WINDOW_MS > t) /\ Ascending(e)
  <2>1. \E c \in 0 .. Len(w) : e = Suffix(w, c)
    BY EvictLater
  <2>2. Ascending(e)
    BY <2>1, SuffixAscending
  <2> QED
    BY <2>2, EvictLater
<1>2. \A u \in Nat : t <= u =>
        \E m \in 0 .. Len(e) : /\ EvictWindow(w, u) = Suffix(e, m)
                               /\ \A i \in 1 .. m : e[i].timestamp + WINDOW_MS <= u
  BY EvictLater
<1> HIDE DEF e
<1>3. told \in Nat
  BY <1>1, SlotAfterType DEF e
<1>4. Len(e) \in Nat /\ DOMAIN e = 1 .. Len(e) /\ WINDOW_MS \in Nat \ {0}
  BY <1>1, LenProperties, WindowAssumption
<1>5. CASE enough = {}
  <2>1. told = t + WINDOW_MS + 1
    BY <1>5 DEF SlotAfter
  <2>2. \A u \in t .. told - 2 : u \in Nat /\ t <= u
    BY <1>3
  <2> QED
    BY <1>2, <1>3, <1>4, <1>5, <2>1, <2>2 DEF e
<1>6. CASE enough # {}
  <2> DEFINE x == Min(enough)
  <2>1. x \in enough /\ \A j \in enough : x <= j
    <3>1. enough \in SUBSET Nat
      BY <1>4 DEF e
    <3> QED
      BY <1>6, <3>1, MinOfNaturals
  <2>2. told = e[x].timestamp + WINDOW_MS + 1
    BY <1>6 DEF SlotAfter
  <2> HIDE DEF x
  <2>3. x \in 1 .. Len(e)
    BY <1>4, <2>1 DEF e
  <2>4. e # <<>> /\ 1 \in 1 .. Len(e) /\ x \in 1 .. Len(e)
    BY <1>1, <1>4, <2>3, EmptySeq
  <2>5. e[1].timestamp \in Nat /\ e[x].timestamp \in Nat /\ e[1].timestamp <= e[x].timestamp
    BY <1>1, <2>4, EntryTime DEF Ascending
  <2>6. told > t
    BY <1>1, <1>4, <2>2, <2>4, <2>5
  <2>7. ASSUME NEW u \in t .. told - 2
        PROVE  \E m \in 0 .. Len(e) : EvictWindow(w, u) = Suffix(e, m) /\ m \notin enough
    <3>1. u \in Nat /\ t <= u /\ u < e[x].timestamp + WINDOW_MS
      BY <1>3, <1>4, <2>2, <2>5
    <3>2. PICK m \in 0 .. Len(e) : /\ EvictWindow(w, u) = Suffix(e, m)
                                   /\ \A i \in 1 .. m : e[i].timestamp + WINDOW_MS <= u
      BY <1>2, <3>1
    <3>3. ~ (x <= m)
      <4> SUFFICES ASSUME x <= m PROVE FALSE
        OBVIOUS
      <4>1. x \in 1 .. m
        BY <1>4, <2>3
      <4>2. e[x].timestamp + WINDOW_MS <= u
        BY <3>2, <4>1
      <4> QED
        BY <1>4, <2>5, <3>1, <4>2
    <3>4. m \notin enough
      BY <2>1, <3>3
    <3> QED
      BY <3>2, <3>4
  <2> QED
    BY <1>3, <2>6, <2>7 DEF e
<1> QED
  BY <1>5, <1>6

\* At the told slot enough entries have gone.
LEMMA SlotSuffices ==
  ASSUME NEW E, Stamped(E), NEW w \in Seq(E), Ascending(w), NEW t \in Nat,
         NEW enough \in SUBSET DOMAIN EvictWindow(w, t), enough # {}
  PROVE  LET e == EvictWindow(w, t)
             told == SlotAfter(e, enough, t)
         IN  \E m \in 0 .. Len(e) : \E x \in enough :
               EvictWindow(w, told) = Suffix(e, m) /\ x <= m
<1> DEFINE e == EvictWindow(w, t)
<1> DEFINE told == SlotAfter(e, enough, t)
<1> DEFINE x == Min(enough)
<1>1. e \in Seq(E) /\ Ascending(e)
  <2>1. e \in Seq(E) /\ \E c \in 0 .. Len(w) : e = Suffix(w, c)
    BY EvictLater
  <2> QED
    BY <2>1, SuffixAscending
<1>2. \A u \in Nat : t <= u =>
        \E m \in 0 .. Len(e) : /\ EvictWindow(w, u) = Suffix(e, m)
                               /\ m < Len(e) => e[m + 1].timestamp + WINDOW_MS > u
  BY EvictLater
<1>3. told \in Nat /\ t <= told
  BY SlotNotEarlier
<1>4. x \in enough
  <2>1. enough \in SUBSET Nat
    BY <1>1, LenProperties
  <2> QED
    BY <2>1, MinOfNaturals
<1>5. told = e[x].timestamp + WINDOW_MS + 1
  BY DEF SlotAfter
<1>6. x \in 1 .. Len(e)
  BY <1>1, <1>4, LenProperties
<1>7. PICK m \in 0 .. Len(e) : /\ EvictWindow(w, told) = Suffix(e, m)
                               /\ m < Len(e) => e[m + 1].timestamp + WINDOW_MS > told
  BY <1>2, <1>3
<1> HIDE DEF e, told, x
<1>8. x <= m
  <2> SUFFICES ASSUME m < x PROVE FALSE
    BY <1>6
  <2>1. Len(e) \in Nat
    BY <1>1, LenProperties
  <2>2. m < Len(e) /\ m + 1 \in 1 .. Len(e) /\ x \in m + 1 .. Len(e) /\ x \in 1 .. Len(e)
    BY <1>6, <2>1
  <2>3. e[m + 1].timestamp <= e[x].timestamp /\ e[m + 1].timestamp \in Nat /\ e[x].timestamp \in Nat
    BY <1>1, <2>2, EntryTime DEF Ascending
  <2> DEFINE p == e[m + 1].timestamp
             q == e[x].timestamp
  <2>4. /\ p \in Nat /\ q \in Nat /\ WINDOW_MS \in Nat
        /\ p <= q /\ told = q + WINDOW_MS + 1 /\ p + WINDOW_MS > told
    BY <1>5, <1>7, <2>2, <2>3, WindowAssumption
  <2> HIDE DEF p, q
  <2> QED
    BY ONLY <2>4
<1> QED
  BY <1>4, <1>7, <1>8 DEF e, told

(***************************************************************************)
(* The answers of checkAndRecord and nextSlotMs.                           *)
(***************************************************************************)
\* At time t the request passes the first n of the five checks.
Passes(n, L, w, d, until, est, t) ==
  /\ n >= 1 => t >= until
  /\ n >= 2 => ~RpmFull(L, EvictWindow(w, t))
  /\ n >= 3 => ~ItpmFull(L, EvictWindow(w, t), est)
  /\ n >= 4 => ~RpdFull(L, EvictDaily(d, t))
  /\ n >= 5 => ~OtpmFull(L, EvictWindow(w, t))

\* The oldest times, and the slots that are told from them.
LEMMA OldestTold ==
  ASSUME NEW E, Stamped(E), NEW w \in Seq(E), NEW d \in Seq(Nat), NEW t \in Nat
  PROVE  /\ OldestOf(EvictWindow(w, t), t) + WINDOW_MS + 1 \in Nat
         /\ OldestOf(EvictWindow(w, t), t) + WINDOW_MS + 1 > t + 1
         /\ OldestDaily(EvictDaily(d, t), t) + DAY_MS + 1 \in Nat
         /\ OldestDaily(EvictDaily(d, t), t) + DAY_MS + 1 > t + 1
<1> DEFINE e == EvictWindow(w, t)
<1> DEFINE f == EvictDaily(d, t)
<1>1. e \in Seq(E) /\ (e # <<>> => e[1].timestamp + WINDOW_MS > t)
  BY EvictLater
<1>2. f \in Seq(Nat) /\ (f # <<>> => f[1] + DAY_MS > t)
  BY EvictDailyLater
<1> HIDE DEF e, f
<1>3. e # <<>> => e[1].timestamp \in Nat
  <2> SUFFICES ASSUME e # <<>> PROVE e[1].timestamp \in Nat
    OBVIOUS
  <2>1. 1 \in 1 .. Len(e)
    BY <1>1, EmptySeq, LenProperties
  <2> QED
    BY <1>1, <2>1, EntryTime
<1>4. f # <<>> => f[1] \in Nat
  <2> SUFFICES ASSUME f # <<>> PROVE f[1] \in Nat
    OBVIOUS
  <2>1. 1 \in 1 .. Len(f)
    BY <1>2, EmptySeq, LenProperties
  <2> QED
    BY <1>2, <2>1, ElementOfSeq
<1>5. OldestOf(e, t) + WINDOW_MS + 1 \in Nat /\ OldestOf(e, t) + WINDOW_MS + 1 > t + 1
  BY <1>1, <1>3, WindowAssumption DEF OldestOf
<1>6. OldestDaily(f, t) + DAY_MS + 1 \in Nat /\ OldestDaily(f, t) + DAY_MS + 1 > t + 1
  BY <1>2, <1>4, WindowAssumption DEF OldestDaily
<1> QED
  BY <1>5, <1>6 DEF e, f

\* The time told by the first check that fails.
LEMMA ReplyTold ==
  ASSUME NEW L, NEW w, NEW d, NEW until \in Nat, NEW est, NEW t \in Nat
  PROVE  LET e == EvictWindow(w, t)
             told == CheckReply(L, w, d, until, est, t)
             passes(n) == Passes(n, L, w, d, until, est, t)
         IN  /\ ~passes(1) => told = until
             /\ passes(1) /\ ~passes(2) => told = OldestOf(e, t) + WINDOW_MS + 1
             /\ passes(2) /\ ~passes(3) => told = ItpmNextSlot(e, L.itpm, est, t)
             /\ passes(3) /\ ~passes(4) => told = OldestDaily(EvictDaily(d, t), t) + DAY_MS + 1
             /\ passes(4) /\ ~passes(5) => told = OtpmNextSlot(e, L.otpm, t)
             /\ passes(5) => told = 0
<1> DEFINE e == EvictWindow(w, t)
<1> DEFINE f == EvictDaily(d, t)
<1> DEFINE passes(n) == Passes(n, L, w, d, until, est, t)
<1>1. /\ passes(1) <=> t >= until
      /\ passes(2) <=> passes(1) /\ ~RpmFull(L, e)
      /\ passes(3) <=> passes(2) /\ ~ItpmFull(L, e, est)
      /\ passes(4) <=> passes(3) /\ ~RpdFull(L, f)
      /\ passes(5) <=> passes(4) /\ ~OtpmFull(L, e)
  BY DEF Passes
<1>2. CheckReply(L, w, d, until, est, t) =
        IF t < until THEN until
        ELSE IF RpmFull(L, e) THEN OldestOf(e, t) + WINDOW_MS + 1
        ELSE IF ItpmFull(L, e, est) THEN ItpmNextSlot(e, L.itpm, est, t)
        ELSE IF RpdFull(L, f) THEN OldestDaily(f, t) + DAY_MS + 1
        ELSE IF OtpmFull(L, e) THEN OtpmNextSlot(e, L.otpm, t)
        ELSE 0
  BY DEF CheckReply
<1>3. t >= until <=> ~ (t < until)
  OBVIOUS
<1> HIDE DEF e, f, passes
<1>4. /\ ~passes(1) => CheckReply(L, w, d, until, est, t) = until
      /\ passes(1) /\ ~passes(2) => CheckReply(L, w, d, until, est, t) = OldestOf(e, t) + WINDOW_MS + 1
      /\ passes(2) /\ ~passes(3) => CheckReply(L, w, d, until, est, t) = ItpmNextSlot(e, L.itpm, est, t)
      /\ passes(3) /\ ~passes(4) => CheckReply(L, w, d, until, est, t) = OldestDaily(f, t) + DAY_MS + 1
      /\ passes(4) /\ ~passes(5) => CheckReply(L, w, d, until, est, t) = OtpmNextSlot(e, L.otpm, t)
      /\ passes(5) => CheckReply(L, w, d, until, est, t) = 0
  BY <1>1, <1>2, <1>3
<1> QED
  BY <1>4 DEF e, f, passes

\* The tokens that keep a request out, and those that the loop finds to be enough.
LEMMA ItpmNotEnough ==
  ASSUME NEW L \in Limits, NEW E, Stamped(E), NEW e \in Seq(E), NEW est \in Nat, ItpmFull(L, e, est),
         NEW m \in 0 .. Len(e), m \notin ItpmEnough(e, L.itpm, est)
  PROVE  ItpmFull(L, Suffix(e, m), est)
<1>1. Len(e) \in Nat /\ DOMAIN e = 1 .. Len(e) /\ L.itpm \in Nat
  BY LenProperties DEF Limits, ItpmFull
<1>2. CASE m = 0
  BY <1>2, SuffixEnds
<1>3. CASE m # 0
  <2>1. m \in DOMAIN e
    BY <1>1, <1>3
  <2>2. ~ (SumInput(Suffix(e, m)) + est <= L.itpm)
    BY <2>1 DEF ItpmEnough, Suffix
  <2>3. SumInput(Suffix(e, m)) \in Nat
    BY SumInputOfSuffix
  <2> QED
    BY <1>1, <2>2, <2>3 DEF ItpmFull
<1> QED
  BY <1>2, <1>3

OtpmEnough(e, limit) == {i \in DOMAIN e : SumOutput(SubSeq(e, i + 1, Len(e))) < limit}

LEMMA OtpmNotEnough ==
  ASSUME NEW L \in Limits, NEW E, Stamped(E), NEW e \in Seq(E), OtpmFull(L, e),
         NEW m \in 0 .. Len(e), m \notin OtpmEnough(e, L.otpm)
  PROVE  OtpmFull(L, Suffix(e, m))
<1>1. Len(e) \in Nat /\ DOMAIN e = 1 .. Len(e) /\ L.otpm \in Nat
  BY LenProperties DEF Limits, OtpmFull
<1>2. CASE m = 0
  BY <1>2, SuffixEnds
<1>3. CASE m # 0
  <2>1. m \in DOMAIN e
    BY <1>1, <1>3
  <2>2. ~ (SumOutput(Suffix(e, m)) < L.otpm)
    BY <2>1 DEF OtpmEnough, Suffix
  <2>3. SumOutput(Suffix(e, m)) \in Nat
    BY SumOutputOfSuffix
  <2> QED
    BY <1>1, <2>2, <2>3 DEF OtpmFull
<1> QED
  BY <1>2, <1>3

LEMMA OtpmSlot ==
  ASSUME NEW e, NEW limit, NEW t
  PROVE  OtpmNextSlot(e, limit, t) = SlotAfter(e, OtpmEnough(e, limit), t)
BY Zenon DEF OtpmNextSlot, OtpmEnough

\* checkAndRecord answers 0 exactly when the request passes all five checks; otherwise
\* the time it tells is in the future.
LEMMA ReplyZero ==
  ASSUME NEW L \in Limits, NEW E, Stamped(E), NEW w \in Seq(E), Ascending(w), NEW d \in Seq(Nat),
         NEW until \in Nat, NEW est \in Nat, NEW t \in Nat
  PROVE  LET told == CheckReply(L, w, d, until, est, t)
         IN  /\ told \in Nat
             /\ told = 0 <=> Passes(5, L, w, d, until, est, t)
             /\ told # 0 => told > t
<1> DEFINE e == EvictWindow(w, t)
<1> DEFINE told == CheckReply(L, w, d, until, est, t)
<1> DEFINE passes(n) == Passes(n, L, w, d, until, est, t)
<1>1. told \in Nat
  BY CheckReplyType
<1>2. ItpmNextSlot(e, L.itpm, est, t) > t
  <2>1. ItpmEnough(e, L.itpm, est) \in SUBSET DOMAIN EvictWindow(w, t)
    BY DEF ItpmEnough
  <2> QED
    BY <2>1, SlotNotEarlier DEF ItpmNextSlot
<1>3. OtpmNextSlot(e, L.otpm, t) > t
  <2>1. OtpmEnough(e, L.otpm) \in SUBSET DOMAIN EvictWindow(w, t)
    BY DEF OtpmEnough
  <2> QED
    BY <2>1, SlotNotEarlier, OtpmSlot
<1>4. OldestOf(e, t) + WINDOW_MS + 1 > t + 1 /\ OldestDaily(EvictDaily(d, t), t) + DAY_MS + 1 > t + 1
      /\ OldestOf(e, t) + WINDOW_MS + 1 \in Nat /\ OldestDaily(EvictDaily(d, t), t) + DAY_MS + 1 \in Nat
  BY OldestTold
<1>5. ~passes(1) => until > t
  BY DEF Passes
<1>6. /\ ~passes(1) => told = until
      /\ passes(1) /\ ~passes(2) => told = OldestOf(e, t) + WINDOW_MS + 1
      /\ passes(2) /\ ~passes(3) => told = ItpmNextSlot(e, L.itpm, est, t)
      /\ passes(3) /\ ~passes(4) => told = OldestDaily(EvictDaily(d, t), t) + DAY_MS + 1
      /\ passes(4) /\ ~passes(5) => told = OtpmNextSlot(e, L.otpm, t)
      /\ passes(5) => told = 0
  BY ReplyTold
<1> HIDE DEF e, told, passes
<1>7. ~passes(5) => told > t
  BY <1>1, <1>2, <1>3, <1>4, <1>5, <1>6
<1>8. told # 0 => ~passes(5)
  BY <1>6
<1>9. ~passes(5) => told # 0
  BY <1>1, <1>7
<1> QED
  BY <1>1, <1>7, <1>8, <1>9 DEF told, passes

\* Before the told time, less the rounding millisecond, the request is refused again.
LEMMA ReplyNotLate ==
  ASSUME NEW L \in Limits, NEW E, Stamped(E), NEW w \in Seq(E), Ascending(w), NEW d \in Seq(Nat),
         NEW until \in Nat, NEW est \in Nat, NEW t \in Nat,
         CheckReply(L, w, d, until, est, t) # 0,
         NEW u \in t .. CheckReply(L, w, d, until, est, t) - 2
  PROVE  CheckReply(L, w, d, until, est, u) # 0
<1> DEFINE e == EvictWindow(w, t)
<1> DEFINE f == EvictDaily(d, t)
<1> DEFINE told == CheckReply(L, w, d, until, est, t)
<1> DEFINE passes(n) == Passes(n, L, w, d, until, est, t)
<1>1. told \in Nat /\ told > t /\ ~passes(5)
  BY ReplyZero
<1>2. u \in Nat /\ t <= u /\ u <= told - 2
  BY <1>1
<1>3. SUFFICES ~Passes(5, L, w, d, until, est, u)
  BY <1>2, ReplyZero
<1>4. /\ ~passes(1) => told = until
      /\ passes(1) /\ ~passes(2) => told = OldestOf(e, t) + WINDOW_MS + 1
      /\ passes(2) /\ ~passes(3) => told = ItpmNextSlot(e, L.itpm, est, t)
      /\ passes(3) /\ ~passes(4) => told = OldestDaily(EvictDaily(d, t), t) + DAY_MS + 1
      /\ passes(4) /\ ~passes(5) => told = OtpmNextSlot(e, L.otpm, t)
  BY ReplyTold
<1>5. e \in Seq(E) /\ f \in Seq(Nat) /\ Len(e) \in Nat /\ Len(f) \in Nat
  <2>1. e \in Seq(E) /\ f \in Seq(Nat)
    BY <1>2, EvictLater, EvictDailyLater
  <2> QED
    BY <2>1, LenProperties
<1>6. PICK m \in 0 .. Len(e) : /\ EvictWindow(w, u) = Suffix(e, m)
                               /\ \A i \in 1 .. m : e[i].timestamp + WINDOW_MS <= u
  BY <1>2, EvictLater
<1>7. PICK n \in 0 .. Len(f) : /\ EvictDaily(d, u) = Suffix(f, n)
                               /\ \A i \in 1 .. n : f[i] + DAY_MS <= u
  BY <1>2, EvictDailyLater
<1>8. CASE ~passes(1)
  <2>1. told = until
    BY <1>4, <1>8
  <2> HIDE DEF told
  <2> QED
    BY <1>1, <1>2, <2>1 DEF Passes
<1>9. CASE passes(1) /\ ~passes(2)
  <2>1. told = OldestOf(e, t) + WINDOW_MS + 1 /\ RpmFull(L, e)
    BY <1>4, <1>9 DEF Passes
  <2>2. m = 0
    <3> SUFFICES ASSUME m # 0 PROVE FALSE
      OBVIOUS
    <3> HIDE DEF e, told
    <3>1. 1 \in 1 .. m /\ 1 \in 1 .. Len(e)
      BY <1>5
    <3>2. e # <<>> /\ e[1].timestamp \in Nat
      BY <1>5, <3>1, EmptySeq, EntryTime
    <3>3. e[1].timestamp + WINDOW_MS <= u
      BY <1>6, <3>1
    <3>4. told = e[1].timestamp + WINDOW_MS + 1
      BY <2>1, <3>2 DEF OldestOf
    <3> QED
      BY <1>2, <3>2, <3>3, <3>4, WindowAssumption
  <2>3. EvictWindow(w, u) = e
    BY <1>5, <1>6, <2>2, SuffixEnds
  <2> HIDE DEF e
  <2> QED
    BY <2>1, <2>3 DEF Passes
<1>10. CASE passes(2) /\ ~passes(3)
  <2> DEFINE enough == ItpmEnough(e, L.itpm, est)
  <2>1. told = SlotAfter(e, enough, t) /\ ItpmFull(L, e, est)
    BY <1>4, <1>10 DEF Passes, ItpmNextSlot
  <2>2. enough \in SUBSET DOMAIN EvictWindow(w, t)
    BY DEF ItpmEnough
  <2>3. PICK x \in 0 .. Len(e) : EvictWindow(w, u) = Suffix(e, x) /\ x \notin enough
    <3> HIDE DEF told, enough
    <3>1. \A v \in t .. told - 2 :
            \E x \in 0 .. Len(e) : EvictWindow(w, v) = Suffix(e, x) /\ x \notin enough
      BY <2>1, <2>2, SlotNotEarlier
    <3> QED
      BY <3>1 DEF told
  <2> HIDE DEF e
  <2>4. ItpmFull(L, Suffix(e, x), est)
    BY <1>5, <2>1, <2>3, ItpmNotEnough
  <2> QED
    BY <2>3, <2>4 DEF Passes
<1>11. CASE passes(3) /\ ~passes(4)
  <2>1. told = OldestDaily(f, t) + DAY_MS + 1 /\ RpdFull(L, f)
    BY <1>4, <1>11 DEF Passes
  <2>2. n = 0
    <3> SUFFICES ASSUME n # 0 PROVE FALSE
      OBVIOUS
    <3> HIDE DEF f, told
    <3>1. 1 \in 1 .. n /\ 1 \in 1 .. Len(f)
      BY <1>5
    <3>2. f # <<>> /\ f[1] \in Nat
      BY <1>5, <3>1, EmptySeq, ElementOfSeq
    <3>3. f[1] + DAY_MS <= u
      BY <1>7, <3>1
    <3>4. told = f[1] + DAY_MS + 1
      BY <2>1, <3>2 DEF OldestDaily
    <3> DEFINE p == f[1]
    <3>5. /\ p \in Nat /\ DAY_MS \in Nat /\ p + DAY_MS <= u
          /\ told = p + DAY_MS + 1 /\ u <= told - 2
      BY <1>2, <3>2, <3>3, <3>4, WindowAssumption
    <3> HIDE DEF p
    <3> QED
      BY ONLY <3>5
  <2>3. EvictDaily(d, u) = f
    BY <1>5, <1>7, <2>2, SuffixEnds
  <2> HIDE DEF f
  <2> QED
    BY <2>1, <2>3 DEF Passes
<1>12. CASE passes(4) /\ ~passes(5)
  <2> DEFINE enough == OtpmEnough(e, L.otpm)
  <2>1. told = SlotAfter(e, enough, t) /\ OtpmFull(L, e)
    BY <1>4, <1>12, OtpmSlot DEF Passes
  <2>2. enough \in SUBSET DOMAIN EvictWindow(w, t)
    BY DEF OtpmEnough
  <2>3. PICK x \in 0 .. Len(e) : EvictWindow(w, u) = Suffix(e, x) /\ x \notin enough
    <3> HIDE DEF told, enough
    <3>1. \A v \in t .. told - 2 :
            \E x \in 0 .. Len(e) : EvictWindow(w, v) = Suffix(e, x) /\ x \notin enough
      BY <2>1, <2>2, SlotNotEarlier
    <3> QED
      BY <3>1 DEF told
  <2> HIDE DEF e
  <2>4. OtpmFull(L, Suffix(e, x))
    BY <1>5, <2>1, <2>3, OtpmNotEnough
  <2> QED
    BY <2>3, <2>4 DEF Passes
<1> QED
  BY <1>1, <1>8, <1>9, <1>10, <1>11, <1>12

\* A check that is passed stays passed while nothing is recorded.
LEMMA PassesLater ==
  ASSUME NEW L \in Limits, NEW E, Stamped(E), NEW w \in Seq(E), NEW d \in Seq(Nat),
         NEW until \in Nat, NEW est \in Nat, NEW t \in Nat, NEW u \in Nat, t <= u,
         NEW n \in 0 .. 5, Passes(n, L, w, d, until, est, t)
  PROVE  Passes(n, L, w, d, until, est, u)
<1> DEFINE e == EvictWindow(w, t)
<1> DEFINE f == EvictDaily(d, t)
<1>1. e \in Seq(E) /\ f \in Seq(Nat) /\ Len(e) \in Nat /\ Len(f) \in Nat
  <2>1. e \in Seq(E) /\ f \in Seq(Nat)
    BY EvictLater, EvictDailyLater
  <2> QED
    BY <2>1, LenProperties
<1>2. PICK m \in 0 .. Len(e) : EvictWindow(w, u) = Suffix(e, m)
  <2> SUFFICES \E m \in 0 .. Len(e) : EvictWindow(w, u) = Suffix(e, m)
    OBVIOUS
  <2>1. \E m \in 0 .. Len(e) :
          /\ EvictWindow(w, u) = Suffix(e, m)
          /\ \A i \in 1 .. m : e[i].timestamp + WINDOW_MS <= u
          /\ m < Len(e) => e[m + 1].timestamp + WINDOW_MS > u
    BY EvictLater
  <2> HIDE DEF e
  <2> QED
    BY <2>1
<1>3. PICK k \in 0 .. Len(f) : EvictDaily(d, u) = Suffix(f, k)
  BY EvictDailyLater
<1>4. /\ n >= 1 => t >= until
      /\ n >= 2 => ~RpmFull(L, e)
      /\ n >= 3 => ~ItpmFull(L, e, est)
      /\ n >= 4 => ~RpdFull(L, f)
      /\ n >= 5 => ~OtpmFull(L, e)
  BY DEF Passes
<1> HIDE DEF e, f
<1>5. Len(Suffix(e, m)) <= Len(e) /\ Len(Suffix(e, m)) \in Nat
  <2>1. Len(Suffix(e, m)) = Len(e) - m
    BY <1>1, SuffixIs
  <2> QED
    BY <1>1, <2>1
<1>6. Len(Suffix(f, k)) <= Len(f) /\ Len(Suffix(f, k)) \in Nat
  <2>1. Len(Suffix(f, k)) = Len(f) - k
    BY <1>1, SuffixIs
  <2> QED
    BY <1>1, <2>1
<1>7. /\ SumInput(e) \in Nat /\ SumInput(Suffix(e, m)) \in Nat /\ SumInput(Suffix(e, m)) <= SumInput(e)
      /\ SumOutput(e) \in Nat /\ SumOutput(Suffix(e, m)) \in Nat
      /\ SumOutput(Suffix(e, m)) <= SumOutput(e)
  BY <1>1, SumInputOfSuffix, SumOutputOfSuffix
<1>8. ~RpmFull(L, e) => ~RpmFull(L, Suffix(e, m))
  BY <1>1, <1>5 DEF RpmFull, Limits
<1>9. ~ItpmFull(L, e, est) => ~ItpmFull(L, Suffix(e, m), est)
  BY <1>7 DEF ItpmFull, Limits
<1>10. ~RpdFull(L, f) => ~RpdFull(L, Suffix(f, k))
  BY <1>1, <1>6 DEF RpdFull, Limits
<1>11. ~OtpmFull(L, e) => ~OtpmFull(L, Suffix(e, m))
  BY <1>7 DEF OtpmFull, Limits
<1>12. t >= until => u >= until
  OBVIOUS
<1> QED
  BY <1>2, <1>3, <1>4, <1>8, <1>9, <1>10, <1>11, <1>12 DEF Passes

\* What it means that an empty store would admit the request.
Fits(L, est) ==
  /\ L.rpm > 0
  /\ L.itpm # Undefined => est <= L.itpm
  /\ L.rpd # Undefined => L.rpd > 0
  /\ L.otpm # Undefined => L.otpm > 0

LEMMA FitsEmptyStore ==
  ASSUME NEW L \in Limits, NEW est \in Nat, NEW t \in Nat,
         CheckReply(L, <<>>, <<>>, 0, est, t) = 0
  PROVE  Fits(L, est)
<1>1. <<>> \in Seq(Entry) /\ <<>> \in Seq(Nat) /\ Len(<<>>) = 0 /\ Ascending(<<>>) /\ t <= t
  BY EmptySeq DEF Ascending
<1>2. EvictWindow(<<>>, t) = <<>>
  <2>1. EvictWindow(<<>>, t) \in Seq(Entry) /\ Len(EvictWindow(<<>>, t)) <= 0
    BY <1>1, EvictLater, EntryStamped
  <2> QED
    BY <2>1, EmptySeq, LenProperties
<1>3. EvictDaily(<<>>, t) = <<>>
  <2>1. EvictDaily(<<>>, t) \in Seq(Nat) /\ Len(EvictDaily(<<>>, t)) <= 0
    BY <1>1, EvictDailyLater
  <2> QED
    BY <2>1, EmptySeq, LenProperties
<1>4. Passes(5, L, <<>>, <<>>, 0, est, t)
  BY <1>1, ReplyZero, EntryStamped
<1>5. ~RpmFull(L, <<>>) /\ ~ItpmFull(L, <<>>, est) /\ ~RpdFull(L, <<>>) /\ ~OtpmFull(L, <<>>)
  BY <1>2, <1>3, <1>4 DEF Passes
<1>6. L.rpm > 0
  BY <1>1, <1>5 DEF RpmFull, Limits
<1>7. L.itpm # Undefined => est <= L.itpm
  BY <1>5, SumInputOfNone DEF ItpmFull, Limits
<1>8. L.rpd # Undefined => L.rpd > 0
  BY <1>1, <1>5 DEF RpdFull, Limits
<1>9. L.otpm # Undefined => L.otpm > 0
  BY <1>5, SumOutputOfNone DEF OtpmFull, Limits
<1> QED
  BY <1>6, <1>7, <1>8, <1>9 DEF Fits

\* The token loops of such a request find entries that are enough.
LEMMA ItpmSomeEnough ==
  ASSUME NEW L \in Limits, NEW E, Stamped(E), NEW e \in Seq(E), NEW est \in Nat, ItpmFull(L, e, est),
         est <= L.itpm
  PROVE  ItpmEnough(e, L.itpm, est) # {}
<1>1. e # <<>>
  BY SumInputOfNone DEF ItpmFull, Limits
<1>2. Len(e) \in DOMAIN e
  BY <1>1, LenProperties, EmptySeq
<1>3. SumInput(SubSeq(e, Len(e) + 1, Len(e))) = 0
  BY SuffixEnds, SumInputOfNone DEF Suffix
<1>4. Len(e) \in ItpmEnough(e, L.itpm, est)
  BY <1>2, <1>3 DEF ItpmEnough
<1> QED
  BY <1>4

LEMMA OtpmSomeEnough ==
  ASSUME NEW L \in Limits, NEW E, Stamped(E), NEW e \in Seq(E), OtpmFull(L, e), L.otpm > 0
  PROVE  OtpmEnough(e, L.otpm) # {}
<1>1. e # <<>>
  BY SumOutputOfNone DEF OtpmFull, Limits
<1>2. Len(e) \in DOMAIN e
  BY <1>1, LenProperties, EmptySeq
<1>3. SumOutput(SubSeq(e, Len(e) + 1, Len(e))) = 0
  BY SuffixEnds, SumOutputOfNone DEF Suffix
<1>4. Len(e) \in OtpmEnough(e, L.otpm)
  BY <1>2, <1>3 DEF OtpmEnough
<1> QED
  BY <1>4

\* At the time told by a failed check that check is passed.
LEMMA RpmSlotSuffices ==
  ASSUME NEW L \in Limits, NEW E, Stamped(E), NEW w \in Seq(E), Len(w) <= L.rpm, L.rpm > 0, NEW t \in Nat,
         RpmFull(L, EvictWindow(w, t))
  PROVE  ~RpmFull(L, EvictWindow(w, OldestOf(EvictWindow(w, t), t) + WINDOW_MS + 1))
<1> DEFINE e == EvictWindow(w, t)
<1> DEFINE told == OldestOf(e, t) + WINDOW_MS + 1
<1>1. told \in Nat /\ t <= told
  <2>1. <<>> \in Seq(Nat)
    BY EmptySeq
  <2>2. told \in Nat /\ told > t + 1
    BY <2>1, OldestTold
  <2> HIDE DEF told
  <2> QED
    BY <2>2
<1>2. e \in Seq(E) /\ Len(e) <= Len(w) /\ Len(e) \in Nat /\ Len(w) \in Nat
  <2>1. e \in Seq(E) /\ Len(e) <= Len(w)
    BY EvictLater
  <2> QED
    BY <2>1, LenProperties
<1>3. PICK m \in 0 .. Len(e) : /\ EvictWindow(w, told) = Suffix(e, m)
                               /\ m < Len(e) => e[m + 1].timestamp + WINDOW_MS > told
  BY <1>1, EvictLater
<1> HIDE DEF told
<1>4. Len(e) >= L.rpm /\ L.rpm \in Nat
  BY DEF RpmFull, Limits
<1> HIDE DEF e
<1>5. Len(e) > 0 /\ e # <<>> /\ 1 \in 1 .. Len(e)
  BY <1>2, <1>4, EmptySeq
<1>6. m # 0
  <2> SUFFICES ASSUME m = 0 PROVE FALSE
    OBVIOUS
  <2>1. e[1].timestamp + WINDOW_MS > told
    BY <1>3, <1>5
  <2>2. told = e[1].timestamp + WINDOW_MS + 1
    BY <1>5 DEF told, OldestOf, e
  <2>3. e[1].timestamp \in Nat
    BY <1>2, <1>5, EntryTime
  <2> QED
    BY <2>1, <2>2, <2>3, WindowAssumption
<1>7. Len(Suffix(e, m)) = Len(e) - m
  BY <1>2, SuffixIs
<1>8. ~ (Len(Suffix(e, m)) >= L.rpm)
  BY <1>2, <1>4, <1>6, <1>7
<1> QED
  BY <1>3, <1>8 DEF RpmFull, told, e

LEMMA RpdSlotSuffices ==
  ASSUME NEW L \in Limits, NEW d \in Seq(Nat), L.rpd # Undefined => Len(d) <= L.rpd /\ L.rpd > 0,
         NEW t \in Nat, RpdFull(L, EvictDaily(d, t))
  PROVE  ~RpdFull(L, EvictDaily(d, OldestDaily(EvictDaily(d, t), t) + DAY_MS + 1))
<1> DEFINE f == EvictDaily(d, t)
<1> DEFINE told == OldestDaily(f, t) + DAY_MS + 1
<1>1. told \in Nat /\ t <= told
  <2>1. <<>> \in Seq(Entry)
    BY EmptySeq
  <2>2. told \in Nat /\ told > t + 1
    BY <2>1, OldestTold, EntryStamped
  <2> HIDE DEF told
  <2> QED
    BY <2>2
<1>2. f \in Seq(Nat) /\ Len(f) <= Len(d) /\ Len(f) \in Nat /\ Len(d) \in Nat
  <2>1. f \in Seq(Nat) /\ Len(f) <= Len(d)
    BY EvictDailyLater
  <2> QED
    BY <2>1, LenProperties
<1>3. PICK m \in 0 .. Len(f) : /\ EvictDaily(d, told) = Suffix(f, m)
                               /\ m < Len(f) => f[m + 1] + DAY_MS > told
  BY <1>1, EvictDailyLater
<1> HIDE DEF told
<1>4. Len(f) >= L.rpd /\ L.rpd \in Nat /\ Len(d) <= L.rpd /\ L.rpd > 0
  BY DEF RpdFull, Limits
<1> HIDE DEF f
<1>5. Len(f) > 0 /\ f # <<>> /\ 1 \in 1 .. Len(f)
  BY <1>2, <1>4, EmptySeq
<1>6. m # 0
  <2> SUFFICES ASSUME m = 0 PROVE FALSE
    OBVIOUS
  <2>1. f[1] + DAY_MS > told
    BY <1>3, <1>5
  <2>2. told = f[1] + DAY_MS + 1
    BY <1>5 DEF told, OldestDaily, f
  <2>3. f[1] \in Nat
    BY <1>2, <1>5, ElementOfSeq
  <2> QED
    BY <2>1, <2>2, <2>3, WindowAssumption
<1>7. Len(Suffix(f, m)) = Len(f) - m
  BY <1>2, SuffixIs
<1>8. ~ (Len(Suffix(f, m)) >= L.rpd)
  BY <1>2, <1>4, <1>6, <1>7
<1> QED
  BY <1>3, <1>8 DEF RpdFull, told, f

LEMMA ItpmSlotSuffices ==
  ASSUME NEW L \in Limits, NEW E, Stamped(E), NEW w \in Seq(E), Ascending(w), NEW est \in Nat, NEW t \in Nat,
         ItpmFull(L, EvictWindow(w, t), est), est <= L.itpm
  PROVE  ~ItpmFull(L, EvictWindow(w, ItpmNextSlot(EvictWindow(w, t), L.itpm, est, t)), est)
<1> DEFINE e == EvictWindow(w, t)
<1> DEFINE enough == ItpmEnough(e, L.itpm, est)
<1> DEFINE told == SlotAfter(e, enough, t)
<1>1. e \in Seq(E) /\ enough # {} /\ L.itpm \in Nat
  <2>1. e \in Seq(E)
    BY EvictLater
  <2> QED
    BY <2>1, ItpmSomeEnough DEF ItpmFull, Limits
<1>2. enough \in SUBSET DOMAIN e
  BY DEF ItpmEnough
<1>3. PICK m \in 0 .. Len(e) : \E x \in enough : EvictWindow(w, told) = Suffix(e, m) /\ x <= m
  <2> HIDE DEF enough
  <2> QED
    BY <1>1, <1>2, SlotSuffices
<1>4. PICK x \in enough : EvictWindow(w, told) = Suffix(e, m) /\ x <= m
  BY <1>3
<1>5. SumInput(Suffix(e, x)) + est <= L.itpm /\ x \in DOMAIN e
  BY DEF ItpmEnough, Suffix
<1> HIDE DEF e, enough, told
<1>6. x \in 0 .. Len(e) /\ m - x \in 0 .. Len(e) - x /\ x + (m - x) = m
  <2>1. Len(e) \in Nat /\ x \in 1 .. Len(e)
    BY <1>1, <1>5, LenProperties
  <2> QED
    BY <1>4, <2>1
<1>7. Suffix(e, x) \in Seq(E) /\ Len(Suffix(e, x)) = Len(e) - x
  BY <1>1, <1>6, SuffixIs
<1>8. Suffix(Suffix(e, x), m - x) = Suffix(e, m)
  BY <1>1, <1>6, SuffixOfSuffix
<1>9. /\ SumInput(Suffix(e, x)) \in Nat /\ SumInput(Suffix(e, m)) \in Nat
      /\ SumInput(Suffix(e, m)) <= SumInput(Suffix(e, x))
  BY <1>6, <1>7, <1>8, SumInputOfSuffix
<1>10. ~ItpmFull(L, Suffix(e, m), est)
  BY <1>1, <1>5, <1>9 DEF ItpmFull
<1>11. EvictWindow(w, told) = Suffix(e, m)
  BY <1>4
<1> QED
  BY <1>10, <1>11 DEF told, e, enough, ItpmNextSlot

LEMMA OtpmSlotSuffices ==
  ASSUME NEW L \in Limits, NEW E, Stamped(E), NEW w \in Seq(E), Ascending(w), NEW t \in Nat,
         OtpmFull(L, EvictWindow(w, t)), L.otpm > 0
  PROVE  ~OtpmFull(L, EvictWindow(w, OtpmNextSlot(EvictWindow(w, t), L.otpm, t)))
<1> DEFINE e == EvictWindow(w, t)
<1> DEFINE enough == OtpmEnough(e, L.otpm)
<1> DEFINE told == SlotAfter(e, enough, t)
<1>1. e \in Seq(E) /\ enough # {} /\ L.otpm \in Nat
  <2>1. e \in Seq(E)
    BY EvictLater
  <2> QED
    BY <2>1, OtpmSomeEnough DEF OtpmFull, Limits
<1>2. enough \in SUBSET DOMAIN e
  BY DEF OtpmEnough
<1>3. PICK m \in 0 .. Len(e) : \E x \in enough : EvictWindow(w, told) = Suffix(e, m) /\ x <= m
  <2> HIDE DEF enough
  <2> QED
    BY <1>1, <1>2, SlotSuffices
<1>4. PICK x \in enough : EvictWindow(w, told) = Suffix(e, m) /\ x <= m
  BY <1>3
<1>5. SumOutput(Suffix(e, x)) < L.otpm /\ x \in DOMAIN e
  BY DEF OtpmEnough, Suffix
<1> HIDE DEF e, enough, told
<1>6. x \in 0 .. Len(e) /\ m - x \in 0 .. Len(e) - x /\ x + (m - x) = m
  <2>1. Len(e) \in Nat /\ x \in 1 .. Len(e)
    BY <1>1, <1>5, LenProperties
  <2> QED
    BY <1>4, <2>1
<1>7. Suffix(e, x) \in Seq(E) /\ Len(Suffix(e, x)) = Len(e) - x
  BY <1>1, <1>6, SuffixIs
<1>8. Suffix(Suffix(e, x), m - x) = Suffix(e, m)
  BY <1>1, <1>6, SuffixOfSuffix
<1>9. /\ SumOutput(Suffix(e, x)) \in Nat /\ SumOutput(Suffix(e, m)) \in Nat
      /\ SumOutput(Suffix(e, m)) <= SumOutput(Suffix(e, x))
  BY <1>6, <1>7, <1>8, SumOutputOfSuffix
<1>10. ~OtpmFull(L, Suffix(e, m))
  BY <1>1, <1>5, <1>9 DEF OtpmFull
<1>11. EvictWindow(w, told) = Suffix(e, m)
  BY <1>4
<1> QED
  BY <1>10, <1>11, OtpmSlot DEF told, e, enough

\* A caller that has passed n checks has passed the next one after one more sleep.
LEMMA SleepPasses ==
  ASSUME NEW L \in Limits, NEW E, Stamped(E), NEW w \in Seq(E), Ascending(w), Len(w) <= L.rpm,
         NEW d \in Seq(Nat), L.rpd # Undefined => Len(d) <= L.rpd,
         NEW until \in Nat, NEW est \in Nat, NEW t \in Nat,
         Fits(L, est),
         NEW n \in 0 .. 4, Passes(n, L, w, d, until, est, t), NEW u,
         u = IF CheckReply(L, w, d, until, est, t) = 0 THEN t ELSE CheckReply(L, w, d, until, est, t)
  PROVE  u \in Nat /\ u >= t /\ Passes(n + 1, L, w, d, until, est, u)
<1> DEFINE e == EvictWindow(w, t)
<1> DEFINE told == CheckReply(L, w, d, until, est, t)
<1> DEFINE passes(i, time) == Passes(i, L, w, d, until, est, time)
<1>1. /\ L.rpm > 0
      /\ L.itpm # Undefined => est <= L.itpm
      /\ L.rpd # Undefined => L.rpd > 0
      /\ L.otpm # Undefined => L.otpm > 0
  BY DEF Fits
<1>2. told \in Nat /\ (told = 0 <=> passes(5, t)) /\ (told # 0 => told > t)
  BY ReplyZero
<1>3. u \in Nat /\ t <= u
  BY <1>2
<1>4. CASE passes(n + 1, t)
  BY <1>3, <1>4, PassesLater, n + 1 \in 0 .. 5
<1>5. CASE ~passes(n + 1, t)
  <2>1. u = told
    <3>1. ~passes(5, t)
      BY <1>5 DEF Passes
    <3> QED
      BY <1>2, <3>1
  <2>2. passes(n, u)
    BY <1>3, PassesLater, n \in 0 .. 5
  <2>3. /\ ~passes(1, t) => told = until
        /\ passes(1, t) /\ ~passes(2, t) => told = OldestOf(e, t) + WINDOW_MS + 1
        /\ passes(2, t) /\ ~passes(3, t) => told = ItpmNextSlot(e, L.itpm, est, t)
        /\ passes(3, t) /\ ~passes(4, t) => told = OldestDaily(EvictDaily(d, t), t) + DAY_MS + 1
        /\ passes(4, t) /\ ~passes(5, t) => told = OtpmNextSlot(e, L.otpm, t)
    BY ReplyTold
  <2> HIDE DEF told
  <2>4. CASE n = 0
    <3>1. u = until
      BY <1>5, <2>1, <2>3, <2>4
    <3> QED
      BY <1>3, <2>4, <3>1 DEF Passes
  <2>5. CASE n = 1
    <3>1. u = OldestOf(e, t) + WINDOW_MS + 1 /\ RpmFull(L, e)
      BY <1>5, <2>1, <2>3, <2>5 DEF Passes
    <3>2. ~RpmFull(L, EvictWindow(w, u))
      BY <1>1, <3>1, RpmSlotSuffices
    <3> QED
      BY <1>3, <2>2, <2>5, <3>2 DEF Passes
  <2>6. CASE n = 2
    <3>1. u = ItpmNextSlot(e, L.itpm, est, t) /\ ItpmFull(L, e, est)
      BY <1>5, <2>1, <2>3, <2>6 DEF Passes
    <3>2. ~ItpmFull(L, EvictWindow(w, u), est)
      BY <1>1, <3>1, ItpmSlotSuffices DEF ItpmFull
    <3> QED
      BY <1>3, <2>2, <2>6, <3>2 DEF Passes
  <2>7. CASE n = 3
    <3>1. u = OldestDaily(EvictDaily(d, t), t) + DAY_MS + 1 /\ RpdFull(L, EvictDaily(d, t))
      BY <1>5, <2>1, <2>3, <2>7 DEF Passes
    <3>2. ~RpdFull(L, EvictDaily(d, u))
      BY <1>1, <3>1, RpdSlotSuffices
    <3> QED
      BY <1>3, <2>2, <2>7, <3>2 DEF Passes
  <2>8. CASE n = 4
    <3>1. u = OtpmNextSlot(e, L.otpm, t) /\ OtpmFull(L, e)
      BY <1>5, <2>1, <2>3, <2>8 DEF Passes
    <3>2. ~OtpmFull(L, EvictWindow(w, u))
      BY <1>1, <3>1, OtpmSlotSuffices DEF OtpmFull
    <3> QED
      BY <1>3, <2>2, <2>8, <3>2 DEF Passes
  <2> QED
    BY <1>3, <2>4, <2>5, <2>6, <2>7, <2>8
<1> QED
  BY <1>4, <1>5

\* nextSlotMs and checkAndRecord agree: on whether a slot is free, and for a request that
\* an empty store would admit the first is never earlier than the second.
LEMMA NextSlotAgrees ==
  ASSUME NEW L \in Limits, NEW E, Stamped(E), NEW w \in Seq(E), Ascending(w), NEW d \in Seq(Nat),
         NEW until \in Nat, NEW est \in Nat, NEW t \in Nat \ {0}
  PROVE  LET told == CheckReply(L, w, d, until, est, t)
             next == NextSlotReply(L, w, d, until, est, t)
         IN  /\ next \in Nat
             /\ next = 0 <=> told = 0
             /\ CheckReply(L, <<>>, <<>>, 0, est, t) = 0 => next >= told
<1> DEFINE e == EvictWindow(w, t)
<1> DEFINE f == EvictDaily(d, t)
<1> DEFINE told == CheckReply(L, w, d, until, est, t)
<1> DEFINE next == NextSlotReply(L, w, d, until, est, t)
<1> DEFINE passes(i) == Passes(i, L, w, d, until, est, t)
<1>1. told \in Nat /\ (told = 0 <=> passes(5)) /\ (told # 0 => told > t)
  BY ReplyZero
<1>2. /\ ~passes(1) => told = until
      /\ passes(1) /\ ~passes(2) => told = OldestOf(e, t) + WINDOW_MS + 1
      /\ passes(2) /\ ~passes(3) => told = ItpmNextSlot(e, L.itpm, est, t)
      /\ passes(3) /\ ~passes(4) => told = OldestDaily(f, t) + DAY_MS + 1
      /\ passes(4) /\ ~passes(5) => told = OtpmNextSlot(e, L.otpm, t)
  BY ReplyTold
<1>3. e \in Seq(E) /\ f \in Seq(Nat) /\ Len(e) \in Nat /\ Len(f) \in Nat
  <2>1. t <= t
    OBVIOUS
  <2>2. e \in Seq(E) /\ f \in Seq(Nat)
    BY <2>1, EvictLater, EvictDailyLater
  <2> QED
    BY <2>2, LenProperties
<1>4. /\ passes(1) <=> t >= until
      /\ passes(2) <=> passes(1) /\ ~RpmFull(L, e)
      /\ passes(3) <=> passes(2) /\ ~ItpmFull(L, e, est)
      /\ passes(4) <=> passes(3) /\ ~RpdFull(L, f)
      /\ passes(5) <=> passes(4) /\ ~OtpmFull(L, e)
  BY DEF Passes
<1>5. CASE ~passes(1)
  <2>1. next = until
    BY <1>4, <1>5 DEF NextSlotReply
  <2> QED
    BY <1>1, <1>2, <1>4, <1>5, <2>1
<1>6. CASE passes(1) /\ (RpmFull(L, e) \/ ItpmFull(L, e, est))
  <2> DEFINE a == OldestOf(e, t) + WINDOW_MS + 1
  <2> DEFINE b == ItpmNextSlot(e, L.itpm, est, t)
  <2> DEFINE c == OldestDaily(f, t) + DAY_MS + 1
  <2> DEFINE o == OtpmNextSlot(e, L.otpm, t)
  <2> DEFINE A == IF RpmFull(L, e) /\ e # <<>> THEN {a} ELSE {}
  <2> DEFINE B == IF ItpmFull(L, e, est) /\ ItpmEnough(e, L.itpm, est) # {} THEN {b} ELSE {}
  <2> DEFINE C == IF RpdFull(L, f) /\ f # <<>> THEN {c} ELSE {}
  <2> DEFINE O == IF OtpmFull(L, e) THEN {o} ELSE {}
  <2> DEFINE S == {t} \cup A \cup B \cup C \cup O
  <2>1. next = Max(S)
    <3>1. ~ (t < until)
      BY <1>4, <1>6
    <3> QED
      BY <1>6, <3>1 DEF NextSlotReply, NextSlotInWindows
  <2>2. a \in Nat /\ c \in Nat
    BY OldestTold
  <2>3. b \in Nat
    <3>1. ItpmEnough(e, L.itpm, est) \in SUBSET DOMAIN e
      BY DEF ItpmEnough
    <3> QED
      BY <1>3, <3>1, SlotAfterType DEF ItpmNextSlot
  <2>4. o \in Nat
    <3>1. OtpmEnough(e, L.otpm) \in SUBSET DOMAIN e
      BY DEF OtpmEnough
    <3> QED
      BY <1>3, <3>1, SlotAfterType, OtpmSlot
  <2>5. told = IF RpmFull(L, e) THEN a ELSE b
    BY <1>2, <1>4, <1>6
  <2>6. told # 0
    BY <1>1, <1>4, <1>6
  <2> HIDE DEF a, b, c, o, e, f, told, next
  <2> DEFINE n == t + a + b + c + o
  <2>7. n \in Nat /\ S \in SUBSET (0 .. n) /\ S # {} /\ t \in S
    <3>1. n \in Nat /\ t \in 0 .. n /\ a \in 0 .. n /\ b \in 0 .. n /\ c \in 0 .. n /\ o \in 0 .. n
      BY <2>2, <2>3, <2>4
    <3> QED
      BY <3>1
  <2>8. Max(S) \in S /\ \A j \in S : j <= Max(S)
    <3> HIDE DEF n, S
    <3> QED
      BY <2>7, MaxOfNaturals
  <2>9. Max(S) \in Nat /\ Max(S) # 0
    <3> DEFINE x == Max(S)
    <3> HIDE DEF S, n
    <3>1. x \in 0 .. n /\ t <= x
      BY <2>7, <2>8
    <3> HIDE DEF x
    <3>2. x \in Nat /\ x # 0
      BY <2>7, <3>1
    <3> QED
      BY <3>2 DEF x
  <2>10. ASSUME CheckReply(L, <<>>, <<>>, 0, est, t) = 0 PROVE told \in S
    <3>1. L.rpm > 0 /\ (L.itpm # Undefined => est <= L.itpm)
      BY <2>10, FitsEmptyStore DEF Fits
    <3>2. CASE RpmFull(L, e)
      <4>1. e # <<>>
        BY <3>1, <3>2, EmptySeq DEF RpmFull, Limits
      <4> QED
        BY <2>5, <3>2, <4>1
    <3>3. CASE ~RpmFull(L, e)
      <4>1. ItpmFull(L, e, est)
        BY <1>6, <3>3
      <4>2. ItpmEnough(e, L.itpm, est) # {}
        BY <1>3, <3>1, <4>1, ItpmSomeEnough DEF ItpmFull
      <4> QED
        BY <2>5, <3>3, <4>1, <4>2
    <3> QED
      BY <3>2, <3>3
  <2>11. CheckReply(L, <<>>, <<>>, 0, est, t) = 0 => Max(S) >= told
    <3> HIDE DEF S
    <3> QED
      BY <1>1, <2>8, <2>9, <2>10
  <2> QED
    BY <2>1, <2>6, <2>9, <2>11 DEF told, next
<1>7. CASE passes(3)
  <2>1. next = IF RpdFull(L, f) THEN OldestDaily(f, t) + DAY_MS + 1
               ELSE IF OtpmFull(L, e) THEN OtpmNextSlot(e, L.otpm, t)
               ELSE 0
    <3>1. ~ (t < until) /\ ~RpmFull(L, e) /\ ~ItpmFull(L, e, est)
      BY <1>4, <1>7
    <3> QED
      BY <3>1 DEF NextSlotReply, NextSlotInWindows
  <2> HIDE DEF told, next, e, f, passes
  <2>2. passes(5) => told = 0
    BY <1>1
  <2>3. next = told
    BY <1>2, <1>4, <1>7, <2>1, <2>2
  <2> QED
    BY <1>1, <2>3 DEF told, next
<1> QED
  BY <1>4, <1>5, <1>6, <1>7
=============================================================================

--------------------------- MODULE RedisStore_proofs ---------------------------
(***************************************************************************)
(* What several processes on one Redis can rely on, for every number of    *)
(* processes, every limit, every window length, every history, and every   *)
(* difference of clocks and delay of commands the buffer covers.           *)
(***************************************************************************)
EXTENDS RedisStore, SlidingWindow_proofs, FiniteSetTheorems

(***************************************************************************)
(* The sorted sets.                                                        *)
(***************************************************************************)
Member == [timestamp : Nat, inputTokens : Nat, outputTokens : Nat, id : Nat \X Nat]
DayMember == [timestamp : Nat, id : Nat \X Nat]

Timed(E) == \A e \in E : e.timestamp \in Nat

LEMMA MembersTimed == Timed(Member) /\ Timed(DayMember) /\ Stamped(Member)
BY DEF Timed, Member, DayMember, Stamped

\* What InsertAt returns.
IsInsertion(z, s, k, m) ==
  /\ Len(z) = Len(s) + 1
  /\ \A i \in 1 .. Len(s) + 1 : z[i] = IF i < k THEN s[i] ELSE IF i = k THEN m ELSE s[i - 1]

LEMMA InsertIs ==
  ASSUME NEW S, NEW s \in Seq(S), NEW k \in 1 .. Len(s) + 1, NEW m \in S
  PROVE  InsertAt(s, k, m) \in Seq(S) /\ IsInsertion(InsertAt(s, k, m), s, k, m)
<1> DEFINE a == SubSeq(s, 1, k - 1)
<1> DEFINE z == SubSeq(s, k, Len(s))
<1>1. Len(s) \in Nat /\ k \in Nat /\ \A i \in 1 .. Len(s) : s[i] \in S
  BY LenProperties, ElementOfSeq
<1>2. a \in Seq(S) /\ Len(a) = k - 1 /\ \A i \in 1 .. k - 1 : a[i] = s[i]
  <2>1. 1 \in Int /\ k - 1 \in Int /\ \A i \in 1 .. k - 1 : s[i] \in S
    BY <1>1
  <2> QED
    BY <1>1, <2>1, SubSeqProperties
<1>3. z \in Seq(S) /\ Len(z) = Len(s) - k + 1 /\ \A i \in 1 .. Len(s) - k + 1 : z[i] = s[k + i - 1]
  <2>1. k \in Int /\ Len(s) \in Int /\ \A i \in k .. Len(s) : s[i] \in S
    BY <1>1
  <2> QED
    BY <1>1, <2>1, SubSeqProperties
<1>4. <<m>> \in Seq(S) /\ Len(<<m>>) = 1 /\ <<m>>[1] = m
  OBVIOUS
<1> HIDE DEF a, z
<1> DEFINE b == a \o <<m>>
<1>5. b \in Seq(S) /\ Len(b) = k /\ \A i \in 1 .. k : b[i] = IF i < k THEN s[i] ELSE m
  <2>1. /\ b \in Seq(S) /\ Len(b) = Len(a) + 1
        /\ \A i \in 1 .. Len(a) + 1 : b[i] = IF i <= Len(a) THEN a[i] ELSE <<m>>[i - Len(a)]
    BY <1>2, <1>4, ConcatProperties
  <2> HIDE DEF b
  <2> QED
    BY <1>1, <1>2, <1>4, <2>1
<1> HIDE DEF b
<1>6. /\ b \o z \in Seq(S) /\ Len(b \o z) = Len(b) + Len(z)
      /\ \A i \in 1 .. Len(b) + Len(z) : (b \o z)[i] = IF i <= Len(b) THEN b[i] ELSE z[i - Len(b)]
  BY <1>3, <1>5, ConcatProperties
<1>7. InsertAt(s, k, m) = b \o z
  BY DEF InsertAt, a, b, z
<1>8. Len(b) + Len(z) = Len(s) + 1
  BY <1>1, <1>3, <1>5
<1>9. ASSUME NEW i \in 1 .. Len(s) + 1
      PROVE  (b \o z)[i] = IF i < k THEN s[i] ELSE IF i = k THEN m ELSE s[i - 1]
  <2>1. CASE i <= k
    BY <1>1, <1>5, <1>6, <1>8, <2>1
  <2>2. CASE i > k
    <3>1. i - k \in 1 .. Len(s) - k + 1 /\ k + (i - k) - 1 = i - 1
      BY <1>1, <2>2
    <3>2. z[i - k] = s[i - 1]
      BY <1>3, <3>1
    <3> QED
      BY <1>1, <1>5, <1>6, <1>8, <2>2, <3>2
  <2>3. i <= k \/ i > k
    BY <1>1
  <2> QED
    BY Zenon, <2>1, <2>2, <2>3
<1>10. IsInsertion(b \o z, s, k, m)
  BY <1>6, <1>8, <1>9 DEF IsInsertion
<1> QED
  BY <1>6, <1>7, <1>10

\* What RemoveAt returns.
LEMMA RemoveIs ==
  ASSUME NEW S, NEW s \in Seq(S), NEW k \in 1 .. Len(s)
  PROVE  /\ RemoveAt(s, k) \in Seq(S)
         /\ Len(RemoveAt(s, k)) = Len(s) - 1
         /\ \A i \in 1 .. Len(s) - 1 : RemoveAt(s, k)[i] = IF i < k THEN s[i] ELSE s[i + 1]
<1> DEFINE a == SubSeq(s, 1, k - 1)
<1> DEFINE z == SubSeq(s, k + 1, Len(s))
<1>1. Len(s) \in Nat /\ k \in Nat /\ \A i \in 1 .. Len(s) : s[i] \in S
  BY LenProperties, ElementOfSeq
<1>2. a \in Seq(S) /\ Len(a) = k - 1 /\ \A i \in 1 .. k - 1 : a[i] = s[i]
  <2>1. 1 \in Int /\ k - 1 \in Int /\ \A i \in 1 .. k - 1 : s[i] \in S
    BY <1>1
  <2> QED
    BY <1>1, <2>1, SubSeqProperties
<1>3. z \in Seq(S) /\ Len(z) = Len(s) - k /\ \A i \in 1 .. Len(s) - k : z[i] = s[k + i]
  <2>1. k + 1 \in Int /\ Len(s) \in Int /\ \A i \in k + 1 .. Len(s) : s[i] \in S
    BY <1>1
  <2> QED
    BY <1>1, <2>1, SubSeqProperties
<1> HIDE DEF a, z
<1>4. /\ a \o z \in Seq(S) /\ Len(a \o z) = Len(a) + Len(z)
      /\ \A i \in 1 .. Len(a) + Len(z) : (a \o z)[i] = IF i <= Len(a) THEN a[i] ELSE z[i - Len(a)]
  BY <1>2, <1>3, ConcatProperties
<1>5. RemoveAt(s, k) = a \o z
  BY DEF RemoveAt, a, z
<1>6. Len(a) + Len(z) = Len(s) - 1
  BY <1>1, <1>2, <1>3
<1>7. ASSUME NEW i \in 1 .. Len(s) - 1
      PROVE  (a \o z)[i] = IF i < k THEN s[i] ELSE s[i + 1]
  <2>1. CASE i < k
    BY <1>1, <1>2, <1>4, <1>6, <2>1
  <2>2. CASE i >= k
    <3>1. i - (k - 1) \in 1 .. Len(s) - k /\ k + (i - (k - 1)) = i + 1
      BY <1>1, <2>2
    <3>2. z[i - (k - 1)] = s[i + 1]
      BY <1>3, <3>1
    <3> QED
      BY <1>1, <1>2, <1>4, <1>6, <2>2, <3>2
  <2>3. i < k \/ i >= k
    BY <1>1
  <2> QED
    BY Zenon, <2>1, <2>2, <2>3
<1> QED
  BY <1>4, <1>5, <1>6, <1>7

\* On sequences of members the two readings of sortedness are one.
LEMMA SortedAscends ==
  ASSUME NEW E, Timed(E), NEW s \in Seq(E)
  PROVE  Sorted(s) <=> Ascending(s)
<1>1. DOMAIN s = 1 .. Len(s) /\ Len(s) \in Nat /\ \A i \in 1 .. Len(s) : s[i].timestamp \in Nat
  BY LenProperties, ElementOfSeq DEF Timed
<1> QED
  BY <1>1 DEF Sorted, Ascending

\* A sequence without one of its members stays sorted.
LEMMA RemoveKeepsSorted ==
  ASSUME NEW E, Timed(E), NEW s \in Seq(E), Sorted(s), NEW k \in 1 .. Len(s)
  PROVE  Sorted(RemoveAt(s, k))
<1> DEFINE r == RemoveAt(s, k)
<1>1. /\ r \in Seq(E) /\ Len(r) = Len(s) - 1
      /\ \A i \in 1 .. Len(s) - 1 : r[i] = IF i < k THEN s[i] ELSE s[i + 1]
  BY RemoveIs
<1>2. DOMAIN s = 1 .. Len(s) /\ DOMAIN r = 1 .. Len(r) /\ Len(s) \in Nat
  BY <1>1, LenProperties
<1> HIDE DEF r
<1>3. ASSUME NEW i \in DOMAIN r, NEW j \in DOMAIN r, i < j PROVE r[i].timestamp <= r[j].timestamp
  <2> DEFINE a == IF i < k THEN i ELSE i + 1
  <2> DEFINE b == IF j < k THEN j ELSE j + 1
  <2>1. a \in DOMAIN s /\ b \in DOMAIN s /\ a < b
    BY <1>1, <1>2, <1>3
  <2>2. r[i] = s[a] /\ r[j] = s[b]
    BY <1>1, <1>2
  <2> HIDE DEF a, b
  <2> QED
    BY <2>1, <2>2 DEF Sorted
<1> QED
  BY <1>3 DEF r, Sorted

\* A member put before the first later one keeps a sequence sorted.
LEMMA InsertKeepsSorted ==
  ASSUME NEW E, Timed(E), NEW s \in Seq(E), Sorted(s), NEW m \in E, NEW k \in 1 .. Len(s) + 1,
         \A i \in 1 .. k - 1 : s[i].timestamp <= m.timestamp,
         \A i \in k .. Len(s) : m.timestamp <= s[i].timestamp
  PROVE  Sorted(InsertAt(s, k, m))
<1> DEFINE r == InsertAt(s, k, m)
<1>1. /\ r \in Seq(E) /\ Len(r) = Len(s) + 1
      /\ \A i \in 1 .. Len(s) + 1 : r[i] = IF i < k THEN s[i] ELSE IF i = k THEN m ELSE s[i - 1]
  <2>1. r \in Seq(E) /\ IsInsertion(r, s, k, m)
    BY InsertIs, Zenon
  <2> HIDE DEF r
  <2> QED
    BY <2>1 DEF IsInsertion
<1>2. DOMAIN s = 1 .. Len(s) /\ DOMAIN r = 1 .. Len(r) /\ Len(s) \in Nat
  BY <1>1, LenProperties
<1> HIDE DEF r
<1>3. ASSUME NEW i \in DOMAIN r, NEW j \in DOMAIN r, i < j PROVE r[i].timestamp <= r[j].timestamp
  <2>1. CASE i = k
    <3>1. r[i] = m /\ r[j] = s[j - 1] /\ j - 1 \in k .. Len(s)
      BY <1>1, <1>2, <1>3, <2>1
    <3> QED
      BY <3>1
  <2>2. CASE j = k
    <3>1. r[j] = m /\ r[i] = s[i] /\ i \in 1 .. k - 1
      BY <1>1, <1>2, <1>3, <2>2
    <3> QED
      BY <3>1
  <2>3. CASE i # k /\ j # k
    <3> DEFINE a == IF i < k THEN i ELSE i - 1
    <3> DEFINE b == IF j < k THEN j ELSE j - 1
    <3>1. a \in DOMAIN s /\ b \in DOMAIN s /\ a < b
      BY <1>1, <1>2, <1>3, <2>3
    <3>2. r[i] = s[a] /\ r[j] = s[b]
      BY <1>1, <1>2, <2>3
    <3> HIDE DEF a, b
    <3> QED
      BY <3>1, <3>2 DEF Sorted
  <2> QED
    BY <2>1, <2>2, <2>3
<1> QED
  BY <1>3 DEF r, Sorted

\* m is added to s by putting it at place k of r, what is left of s.
AddsTo(s, m, r, k) ==
  /\ ZAdd(s, m) = InsertAt(r, k, m)
  /\ r = s \/ \E i \in 1 .. Len(s) : SameMember(m, s[i]) /\ r = RemoveAt(s, i)
  /\ (\A i \in 1 .. Len(s) : ~SameMember(m, s[i])) => r = s
  /\ Sorted(s) => Sorted(r) /\ Sorted(InsertAt(r, k, m))

\* ZADD removes at most the member it adds, and puts it before the first later one.
LEMMA ZAddIs ==
  ASSUME NEW E, Timed(E), NEW s \in Seq(E), NEW m \in E
  PROVE  \E r \in Seq(E) : \E k \in 1 .. Len(r) + 1 : AddsTo(s, m, r, k)
<1> DEFINE same == {i \in DOMAIN s : SameMember(m, s[i])}
<1> DEFINE r == IF same = {} THEN s ELSE RemoveAt(s, Min(same))
<1> DEFINE later == {i \in DOMAIN r : r[i].timestamp > m.timestamp}
<1> DEFINE k == IF later = {} THEN Len(r) + 1 ELSE Min(later)
<1>1. ZAdd(s, m) = InsertAt(r, k, m)
  BY DEF ZAdd
<1>2. Len(s) \in Nat /\ DOMAIN s = 1 .. Len(s) /\ m.timestamp \in Nat
  BY LenProperties DEF Timed
<1>3. same # {} => Min(same) \in same
  <2>1. same \in SUBSET Nat
    BY <1>2
  <2> HIDE DEF same
  <2> QED
    BY <2>1, MinOfNaturals
<1>4. same # {} => Min(same) \in 1 .. Len(s) /\ SameMember(m, s[Min(same)])
  BY <1>2, <1>3
<1>5. r \in Seq(E) /\ (r = s \/ \E i \in 1 .. Len(s) : SameMember(m, s[i]) /\ r = RemoveAt(s, i))
  <2>1. CASE same = {}
    BY <2>1
  <2>2. CASE same # {}
    <3> DEFINE i == Min(same)
    <3>1. r = RemoveAt(s, i) /\ i \in 1 .. Len(s) /\ SameMember(m, s[i])
      BY <1>4, <2>2
    <3> HIDE DEF i, r
    <3>2. RemoveAt(s, i) \in Seq(E)
      BY <3>1, RemoveIs
    <3> QED
      BY <3>1, <3>2
  <2> QED
    BY <2>1, <2>2
<1>6. (\A i \in 1 .. Len(s) : ~SameMember(m, s[i])) => r = s
  BY <1>2
<1>7. Sorted(s) => Sorted(r)
  <2> HIDE DEF r
  <2> QED
    BY <1>5, RemoveKeepsSorted
<1> HIDE DEF r
<1>8. Len(r) \in Nat /\ DOMAIN r = 1 .. Len(r) /\ \A i \in 1 .. Len(r) : r[i].timestamp \in Nat
  BY <1>5, LenProperties, ElementOfSeq DEF Timed
<1>9. later # {} => Min(later) \in later /\ \A j \in later : Min(later) <= j
  <2>1. later \in SUBSET Nat
    BY <1>8
  <2> HIDE DEF later
  <2> QED
    BY <2>1, MinOfNaturals
<1>10. k \in 1 .. Len(r) + 1
  <2>1. CASE later = {}
    BY <1>8, <2>1
  <2>2. CASE later # {}
    <3>1. k = Min(later) /\ Min(later) \in later
      BY <1>9, <2>2
    <3> HIDE DEF k
    <3> QED
      BY <1>8, <3>1
  <2> QED
    BY <2>1, <2>2
<1>11. ASSUME NEW i \in 1 .. k - 1 PROVE r[i].timestamp <= m.timestamp
  <2>1. i \in 1 .. Len(r)
    BY <1>8, <1>10
  <2>2. i \notin later
    <3> DEFINE x == Min(later)
    <3>1. i \in later => later # {} /\ k = x
      OBVIOUS
    <3>2. later # {} => \A j \in later : x <= j
      BY <1>9
    <3> HIDE DEF x, later, k
    <3> QED
      BY <1>8, <1>10, <3>1, <3>2
  <2> QED
    BY <1>2, <1>8, <2>1, <2>2
<1>12. ASSUME Sorted(r), NEW i \in k .. Len(r) PROVE m.timestamp <= r[i].timestamp
  <2>1. i \in 1 .. Len(r) /\ k \in 1 .. Len(r)
    BY <1>8, <1>10
  <2>2. k \in later
    <3>1. later # {}
      <4>1. later = {} => k = Len(r) + 1
        OBVIOUS
      <4> HIDE DEF k, later
      <4> QED
        BY <1>8, <2>1, <4>1
    <3> QED
      BY <1>9, <3>1
  <2>3. m.timestamp < r[k].timestamp /\ r[k].timestamp \in Nat /\ r[i].timestamp \in Nat
    BY <1>2, <1>8, <2>1, <2>2
  <2> HIDE DEF k
  <2>4. i = k \/ k < i
    BY <2>1
  <2>5. k < i => r[k].timestamp <= r[i].timestamp
    BY <1>8, <1>12, <2>1 DEF Sorted
  <2> QED
    BY <1>2, <2>3, <2>4, <2>5
<1> HIDE DEF k
<1>13. Sorted(s) => Sorted(InsertAt(r, k, m))
  BY <1>5, <1>7, <1>10, <1>11, <1>12, InsertKeepsSorted
<1> QED
  BY <1>1, <1>5, <1>6, <1>7, <1>10, <1>13 DEF AddsTo

\* A sorted set grows by at most one member, and stays a sorted set.
LEMMA ZAddType ==
  ASSUME NEW E, Timed(E), NEW s \in Seq(E), NEW m \in E
  PROVE  /\ ZAdd(s, m) \in Seq(E)
         /\ Len(ZAdd(s, m)) <= Len(s) + 1
         /\ ZAdd(s, m) # <<>>
         /\ Sorted(s) => Sorted(ZAdd(s, m))
<1>1. PICK r \in Seq(E) : \E k \in 1 .. Len(r) + 1 : AddsTo(s, m, r, k)
  BY ZAddIs
<1>2. PICK k \in 1 .. Len(r) + 1 : AddsTo(s, m, r, k)
  BY <1>1
<1>3. ZAdd(s, m) \in Seq(E) /\ Len(ZAdd(s, m)) = Len(r) + 1
  <2>1. InsertAt(r, k, m) \in Seq(E) /\ IsInsertion(InsertAt(r, k, m), r, k, m)
    BY InsertIs, Zenon
  <2> QED
    BY <1>2, <2>1 DEF AddsTo, IsInsertion
<1>4. Len(r) \in Nat /\ Len(s) \in Nat
  BY LenProperties
<1>5. Len(r) <= Len(s)
  <2>1. \A i \in 1 .. Len(s) : Len(RemoveAt(s, i)) = Len(s) - 1
    BY RemoveIs
  <2> QED
    BY <1>2, <1>4, <2>1 DEF AddsTo
<1>6. ZAdd(s, m) # <<>>
  BY <1>3, <1>4, EmptySeq
<1> QED
  BY <1>2, <1>3, <1>4, <1>5, <1>6 DEF AddsTo

(***************************************************************************)
(* A sorted set is to remember the recent admissions by their ids.         *)
(***************************************************************************)

\* Every member of s has its id and its time in r.
Carries(s, r) ==
  \A i \in 1 .. Len(s) : \E j \in 1 .. Len(r) : r[j].id = s[i].id /\ r[j].timestamp = s[i].timestamp

\* No two members have the same id.
Distinct(s) == \A i, j \in 1 .. Len(s) : s[i].id = s[j].id => i = j

\* A new member is added to those already there.
LEMMA ZAddNew ==
  ASSUME NEW E, Timed(E), NEW s \in Seq(E), NEW m \in E,
         \A i \in 1 .. Len(s) : ~SameMember(m, s[i])
  PROVE  /\ Carries(s, ZAdd(s, m))
         /\ \E j \in 1 .. Len(ZAdd(s, m)) : ZAdd(s, m)[j] = m
         /\ Distinct(s) /\ (\A i \in 1 .. Len(s) : s[i].id # m.id) => Distinct(ZAdd(s, m))
<1>1. PICK k \in 1 .. Len(s) + 1 : ZAdd(s, m) = InsertAt(s, k, m)
  <2>1. PICK r \in Seq(E) : \E k \in 1 .. Len(r) + 1 : AddsTo(s, m, r, k)
    BY ZAddIs
  <2>2. r = s
    BY <2>1 DEF AddsTo
  <2> QED
    BY <2>1, <2>2 DEF AddsTo
<1> DEFINE z == InsertAt(s, k, m)
<1>2. /\ Len(z) = Len(s) + 1
      /\ \A i \in 1 .. Len(s) + 1 : z[i] = IF i < k THEN s[i] ELSE IF i = k THEN m ELSE s[i - 1]
  <2>1. IsInsertion(z, s, k, m)
    BY InsertIs, Zenon
  <2> HIDE DEF z
  <2> QED
    BY <2>1 DEF IsInsertion
<1>3. Len(s) \in Nat
  BY LenProperties
<1> HIDE DEF z
<1>4. Carries(s, z)
  <2> SUFFICES ASSUME NEW i \in 1 .. Len(s) PROVE \E j \in 1 .. Len(z) : z[j] = s[i]
    BY Zenon DEF Carries
  <2>1. CASE i < k
    BY <1>2, <1>3, <2>1
  <2>2. CASE ~ (i < k)
    <3>1. i + 1 \in 1 .. Len(z) /\ ~ (i + 1 < k) /\ i + 1 # k /\ (i + 1) - 1 = i
      BY <1>2, <1>3, <2>2
    <3>2. z[i + 1] = s[i]
      BY <1>2, <3>1
    <3> QED
      BY <3>1, <3>2
  <2> QED
    BY <2>1, <2>2
<1>5. k \in 1 .. Len(z) /\ z[k] = m
  BY <1>2, <1>3
<1>6. ASSUME Distinct(s), \A i \in 1 .. Len(s) : s[i].id # m.id PROVE Distinct(z)
  <2> SUFFICES ASSUME NEW i \in 1 .. Len(z), NEW j \in 1 .. Len(z), z[i].id = z[j].id PROVE i = j
    BY DEF Distinct
  <2> DEFINE a(x) == IF x < k THEN x ELSE x - 1
  <2>1. \A x \in 1 .. Len(z) : x # k => a(x) \in 1 .. Len(s) /\ z[x] = s[a(x)]
    BY <1>2, <1>3
  <2>2. \A x \in 1 .. Len(z) : x # k => z[x].id # m.id
    BY <1>6, <2>1
  <2>3. CASE i = k \/ j = k
    BY <1>5, <2>2, <2>3
  <2>4. CASE i # k /\ j # k
    <3>1. a(i) = a(j)
      BY <1>6, <2>1, <2>4 DEF Distinct
    <3> QED
      BY <1>3, <2>4, <3>1
  <2> QED
    BY <2>3, <2>4
<1> QED
  BY <1>1, <1>4, <1>5, <1>6 DEF z

\* Removing a member and adding it anew with the same id and time.
LEMMA ZAddAnew ==
  ASSUME NEW s \in Seq(Member), Distinct(s), NEW x \in 1 .. Len(s), NEW m \in Member,
         m.id = s[x].id, m.timestamp = s[x].timestamp
  PROVE  /\ Carries(s, ZAdd(RemoveAt(s, x), m))
         /\ Distinct(ZAdd(RemoveAt(s, x), m))
<1> DEFINE r == RemoveAt(s, x)
<1>1. /\ r \in Seq(Member) /\ Len(r) = Len(s) - 1
      /\ \A i \in 1 .. Len(s) - 1 : r[i] = IF i < x THEN s[i] ELSE s[i + 1]
  BY RemoveIs
<1>2. Len(s) \in Nat
  BY LenProperties
<1> HIDE DEF r
<1> DEFINE a(i) == IF i < x THEN i ELSE i + 1
<1>3. \A i \in 1 .. Len(r) : a(i) \in 1 .. Len(s) /\ a(i) # x /\ r[i] = s[a(i)]
  BY <1>1, <1>2
<1>4. \A i \in 1 .. Len(r) : r[i].id # m.id
  BY <1>3 DEF Distinct
<1>5. Distinct(r)
  <2> SUFFICES ASSUME NEW i \in 1 .. Len(r), NEW j \in 1 .. Len(r), r[i].id = r[j].id PROVE i = j
    BY DEF Distinct
  <2>1. a(i) = a(j)
    BY <1>3 DEF Distinct
  <2> QED
    BY <1>1, <1>2, <2>1
<1>6. \A i \in 1 .. Len(r) : ~SameMember(m, r[i])
  <2> SUFFICES ASSUME NEW i \in 1 .. Len(r), SameMember(m, r[i]) PROVE FALSE
    OBVIOUS
  <2>1. r[i] \in Member
    BY <1>1, ElementOfSeq
  <2>2. [m EXCEPT !.timestamp = 0].id = m.id /\ [r[i] EXCEPT !.timestamp = 0].id = r[i].id
    BY <2>1 DEF Member
  <2> QED
    BY <1>4, <2>2 DEF SameMember
<1> DEFINE z == ZAdd(r, m)
<1>7. /\ Carries(r, z) /\ Distinct(z)
      /\ \E j \in 1 .. Len(z) : z[j] = m
  BY <1>1, <1>4, <1>5, <1>6, ZAddNew, MembersTimed
<1> HIDE DEF z
<1>8. Carries(s, z)
  <2> SUFFICES ASSUME NEW i \in 1 .. Len(s)
               PROVE  \E j \in 1 .. Len(z) : z[j].id = s[i].id /\ z[j].timestamp = s[i].timestamp
    BY Zenon DEF Carries
  <2>1. CASE i = x
    BY <1>7, <2>1
  <2>2. CASE i # x
    <3> DEFINE b == IF i < x THEN i ELSE i - 1
    <3>1. b \in 1 .. Len(r) /\ a(b) = i
      BY <1>1, <1>2, <2>2
    <3>2. r[b] = s[i]
      BY <1>3, <3>1
    <3> HIDE DEF b
    <3> QED
      BY <1>7, <3>1, <3>2 DEF Carries
  <2> QED
    BY <2>1, <2>2
<1> QED
  BY <1>7, <1>8 DEF z, r

\* The admissions that may still count at time t, over a window of the given span.
Recent(l, span, t) == {n \in 1 .. Len(l) : l[n] + span > t + MaxSkew + MaxDelay}

\* Each recent admission has a member of its own, not much older than it is.
Recalls(s, l, span, t) ==
  \E h :
    /\ \A n \in Recent(l, span, t) :
         \E i \in 1 .. Len(s) : s[i].id = h[n] /\ s[i].timestamp + MaxDelay >= l[n]
    /\ \A m, n \in Recent(l, span, t) : h[m] = h[n] => m = n

\* What must be remembered only grows less as time passes.
LEMMA RecallsLater ==
  ASSUME NEW s, NEW l \in Seq(Nat), NEW span \in Nat, NEW t \in Nat, NEW u \in Nat, t <= u,
         Recalls(s, l, span, t)
  PROVE  Recalls(s, l, span, u)
<1>1. Recent(l, span, u) \subseteq Recent(l, span, t)
  BY RedisAssumption, ElementOfSeq, LenProperties DEF Recent
<1> QED
  BY <1>1 DEF Recalls

\* Nothing is forgotten while the members keep their ids and times.
LEMMA RecallsCarried ==
  ASSUME NEW s, NEW r, NEW l, NEW span, NEW t, Carries(s, r), Recalls(s, l, span, t)
  PROVE  Recalls(r, l, span, t)
<1>1. PICK h : /\ \A n \in Recent(l, span, t) :
                    \E i \in 1 .. Len(s) : s[i].id = h[n] /\ s[i].timestamp + MaxDelay >= l[n]
               /\ \A m, n \in Recent(l, span, t) : h[m] = h[n] => m = n
  BY DEF Recalls
<1>2. ASSUME NEW n \in Recent(l, span, t)
      PROVE  \E i \in 1 .. Len(r) : r[i].id = h[n] /\ r[i].timestamp + MaxDelay >= l[n]
  BY <1>1, <1>2 DEF Carries
<1> QED
  BY <1>1, <1>2 DEF Recalls

\* Eviction by a clock at most MaxSkew ahead drops the member of no recent admission.
LEMMA RecallsEvicted ==
  ASSUME NEW E, Timed(E), NEW s \in Seq(E), NEW l \in Seq(Nat), NEW span \in Nat,
         NEW t \in Nat, NEW clock \in Nat, clock <= t + MaxSkew,
         Recalls(s, l, span, t), NEW r,
         r = SuffixFrom(s, {i \in DOMAIN s : s[i].timestamp > clock - span})
  PROVE  Recalls(r, l, span, t)
<1> USE RedisAssumption
<1> DEFINE live == {i \in DOMAIN s : s[i].timestamp > clock - span}
<1>1. PICK c \in 0 .. Len(s) :
        /\ r \in Seq(E) /\ Len(r) = Len(s) - c
        /\ \A i \in 1 .. Len(s) - c : r[i] = s[c + i]
        /\ \A i \in 1 .. c : i \notin live
  <2>1. live \in SUBSET DOMAIN s /\ r = SuffixFrom(s, live)
    OBVIOUS
  <2> HIDE DEF live
  <2>2. \E d \in 0 .. Len(s) :
          /\ SuffixFrom(s, live) \in Seq(E)
          /\ Len(SuffixFrom(s, live)) = Len(s) - d
          /\ \A i \in 1 .. Len(s) - d : SuffixFrom(s, live)[i] = s[d + i]
          /\ \A i \in 1 .. d : i \notin live
    BY <2>1, SuffixFromDrops
  <2> QED
    BY ONLY <2>1, <2>2
<1>2. PICK h : /\ \A n \in Recent(l, span, t) :
                    \E i \in 1 .. Len(s) : s[i].id = h[n] /\ s[i].timestamp + MaxDelay >= l[n]
               /\ \A m, n \in Recent(l, span, t) : h[m] = h[n] => m = n
  BY DEF Recalls
<1>3. Len(s) \in Nat /\ DOMAIN s = 1 .. Len(s)
  BY LenProperties
<1>4. ASSUME NEW n \in Recent(l, span, t)
      PROVE  \E j \in 1 .. Len(r) : r[j].id = h[n] /\ r[j].timestamp + MaxDelay >= l[n]
  <2>1. n \in 1 .. Len(l) /\ l[n] + span > t + MaxSkew + MaxDelay /\ l[n] \in Nat
    BY ElementOfSeq DEF Recent
  <2>2. PICK i \in 1 .. Len(s) : s[i].id = h[n] /\ s[i].timestamp + MaxDelay >= l[n]
    BY <1>2
  <2>3. s[i].timestamp \in Nat
    BY ElementOfSeq DEF Timed
  <2>4. i \in live
    <3> DEFINE x == s[i].timestamp
               y == l[n]
    <3>1. /\ x \in Nat /\ y \in Nat /\ x + MaxDelay >= y /\ y + span > t + MaxSkew + MaxDelay
          /\ MaxSkew \in Nat /\ MaxDelay \in Nat /\ clock <= t + MaxSkew
      BY <2>1, <2>2, <2>3
    <3> HIDE DEF x, y
    <3>2. x > clock - span
      BY ONLY <3>1, span \in Nat, t \in Nat, clock \in Nat
    <3>3. s[i].timestamp > clock - span
      BY <3>2 DEF x
    <3> QED
      BY <1>3, <3>3
  <2>5. i > c
    <3> HIDE DEF live
    <3> QED
      BY <1>1, <2>4
  <2> USE <1>1, <1>3, <2>5
  <2>6. i - c \in 1 .. Len(r) /\ i - c \in 1 .. Len(s) - c /\ c + (i - c) = i
    BY ONLY Len(r) = Len(s) - c, Len(s) \in Nat, c \in 0 .. Len(s), i \in 1 .. Len(s), i > c
  <2>7. r[i - c] = s[i]
    BY <1>1, <2>6
  <2> QED
    BY <2>2, <2>6, <2>7
<1> QED
  BY ONLY <1>2, <1>4 DEF Recalls

\* A sorted set evicted has members it had before, and no two with one id.
LEMMA EvictedMembers ==
  ASSUME NEW E, NEW s \in Seq(E), NEW live \in SUBSET DOMAIN s, NEW r, r = SuffixFrom(s, live)
  PROVE  /\ r \in Seq(E) /\ Len(r) <= Len(s)
         /\ \A i \in 1 .. Len(r) : \E j \in 1 .. Len(s) : r[i] = s[j]
         /\ Distinct(s) => Distinct(r)
         /\ Sorted(s) => Sorted(r)
<1>1. PICK c \in 0 .. Len(s) :
        /\ r \in Seq(E) /\ Len(r) = Len(s) - c
        /\ \A i \in 1 .. Len(s) - c : r[i] = s[c + i]
  BY SuffixFromDrops
<1>2. Len(s) \in Nat /\ DOMAIN s = 1 .. Len(s) /\ DOMAIN r = 1 .. Len(r)
  BY <1>1, LenProperties
<1>3. \A i \in 1 .. Len(r) : c + i \in 1 .. Len(s) /\ r[i] = s[c + i]
  BY <1>1, <1>2
<1>4. Distinct(s) => Distinct(r)
  <2> SUFFICES ASSUME Distinct(s), NEW i \in 1 .. Len(r), NEW j \in 1 .. Len(r), r[i].id = r[j].id
               PROVE  i = j
    BY DEF Distinct
  <2>1. c + i = c + j
    BY <1>3 DEF Distinct
  <2> QED
    BY <2>1
<1>5. Sorted(s) => Sorted(r)
  <2> SUFFICES ASSUME Sorted(s), NEW i \in DOMAIN r, NEW j \in DOMAIN r, i < j
               PROVE  r[i].timestamp <= r[j].timestamp
    BY DEF Sorted
  <2>1. c + i < c + j /\ i \in 1 .. Len(r) /\ j \in 1 .. Len(r)
    BY <1>2
  <2>2. c + i \in DOMAIN s /\ c + j \in DOMAIN s /\ r[i] = s[c + i] /\ r[j] = s[c + j]
    BY <1>2, <1>3, <2>1
  <2> QED
    BY <2>1, <2>2 DEF Sorted
<1> QED
  BY <1>1, <1>2, <1>3, <1>4, <1>5

\* An admission puts its own member there, with an id no other has.
LEMMA RecallsAdmitted ==
  ASSUME NEW s, NEW r, NEW l \in Seq(Nat), NEW span \in Nat, NEW t \in Nat,
         Recalls(s, l, span, t), Carries(s, r), NEW m,
         \A i \in 1 .. Len(s) : s[i].id # m.id, \E j \in 1 .. Len(r) : r[j] = m,
         m.timestamp + MaxDelay >= t
  PROVE  Recalls(r, Append(l, t), span, t)
<1>1. PICK h : /\ \A n \in Recent(l, span, t) :
                    \E i \in 1 .. Len(s) : s[i].id = h[n] /\ s[i].timestamp + MaxDelay >= l[n]
               /\ \A i, n \in Recent(l, span, t) : h[i] = h[n] => i = n
  BY DEF Recalls
<1> DEFINE l2 == Append(l, t)
<1>2. /\ Len(l2) = Len(l) + 1 /\ Len(l) \in Nat
      /\ \A i \in 1 .. Len(l) : l2[i] = l[i]
      /\ l2[Len(l) + 1] = t
  BY AppendProperties, LenProperties
<1> HIDE DEF l2
<1> DEFINE g == [n \in 1 .. Len(l) + 1 |-> IF n = Len(l) + 1 THEN m.id ELSE h[n]]
<1>3. ASSUME NEW n \in Recent(l2, span, t), n # Len(l) + 1
      PROVE  n \in Recent(l, span, t) /\ g[n] = h[n] /\ l2[n] = l[n]
  BY <1>2, <1>3 DEF Recent
<1>4. ASSUME NEW n \in Recent(l2, span, t), n = Len(l) + 1
      PROVE  g[n] = m.id /\ l2[n] = t
  BY <1>2, <1>4 DEF Recent
<1> HIDE DEF g
<1>5. ASSUME NEW n \in Recent(l2, span, t), n # Len(l) + 1 PROVE g[n] # m.id
  BY <1>1, <1>3, <1>5
<1>6. ASSUME NEW n \in Recent(l2, span, t)
      PROVE  \E j \in 1 .. Len(r) : r[j].id = g[n] /\ r[j].timestamp + MaxDelay >= l2[n]
  <2>1. CASE n = Len(l) + 1
    BY <1>4, <2>1
  <2>2. CASE n # Len(l) + 1
    <3>1. PICK i \in 1 .. Len(s) : s[i].id = h[n] /\ s[i].timestamp + MaxDelay >= l[n]
      BY <1>1, <1>3, <2>2
    <3> QED
      BY <1>3, <2>2, <3>1 DEF Carries
  <2> QED
    BY <2>1, <2>2
<1>7. ASSUME NEW i \in Recent(l2, span, t), NEW n \in Recent(l2, span, t), g[i] = g[n] PROVE i = n
  BY <1>1, <1>3, <1>4, <1>5, <1>7
<1>8. Recalls(r, l2, span, t)
  BY <1>6, <1>7 DEF Recalls
<1> QED
  BY <1>8 DEF l2

\* So many admissions as there are fewer members than cannot all be recent: the one
\* 'limit' places before the next was at least a span ago, but for skew and delay.
LEMMA RecallsSpan ==
  ASSUME NEW E, NEW s \in Seq(E), NEW l \in Seq(Nat), NEW span \in Nat, NEW t \in Nat,
         Recalls(s, l, span, t), \A i, j \in 1 .. Len(l) : i <= j => l[i] <= l[j],
         NEW limit \in Nat, Len(s) < limit, NEW a \in 1 .. Len(l), a + limit = Len(l) + 1
  PROVE  t >= l[a] + span - (MaxSkew + MaxDelay)
<1> USE RedisAssumption
<1> SUFFICES ASSUME ~ (t >= l[a] + span - (MaxSkew + MaxDelay)) PROVE FALSE
  OBVIOUS
<1>1. Len(l) \in Nat /\ Len(s) \in Nat /\ \A i \in 1 .. Len(l) : l[i] \in Nat
  BY LenProperties, ElementOfSeq
<1>2. \A n \in a .. Len(l) : n \in Recent(l, span, t)
  <2> TAKE n \in a .. Len(l)
  <2>1. n \in 1 .. Len(l) /\ a <= n
    BY <1>1
  <2>2. l[a] <= l[n] /\ l[a] \in Nat /\ l[n] \in Nat
    BY <1>1, <2>1
  <2>3. l[n] + span > t + MaxSkew + MaxDelay
    <3>1. MaxSkew \in Nat /\ MaxDelay \in Nat /\ ~ (t >= l[a] + span - (MaxSkew + MaxDelay))
      OBVIOUS
    <3> QED
      BY ONLY <2>2, <3>1, span \in Nat, t \in Nat
  <2> QED
    BY <2>1, <2>3 DEF Recent
<1>3. PICK h : /\ \A n \in Recent(l, span, t) :
                    \E i \in 1 .. Len(s) : s[i].id = h[n] /\ s[i].timestamp + MaxDelay >= l[n]
               /\ \A m, n \in Recent(l, span, t) : h[m] = h[n] => m = n
  BY DEF Recalls
<1> DEFINE place(n) == CHOOSE i \in 1 .. Len(s) : s[i].id = h[n]
<1> DEFINE f == [n \in a .. Len(l) |-> place(n)]
<1>4. \A n \in a .. Len(l) : place(n) \in 1 .. Len(s) /\ s[place(n)].id = h[n]
  BY <1>2, <1>3
<1>5. f \in [a .. Len(l) -> 1 .. Len(s)] /\ \A n \in a .. Len(l) : s[f[n]].id = h[n]
  BY <1>4
<1> HIDE DEF f
<1>6. f \in Injection(a .. Len(l), 1 .. Len(s))
  <2>1. \A m, n \in a .. Len(l) : f[m] = f[n] => m = n
    BY <1>2, <1>3, <1>5
  <2> QED
    BY <1>5, <2>1 DEF Injection, IsInjective
<1>7. Cardinality(a .. Len(l)) = Len(l) - a + 1 /\ Cardinality(1 .. Len(s)) = Len(s)
      /\ IsFiniteSet(1 .. Len(s))
  <2> DEFINE x == Len(l)
  <2> DEFINE y == Len(s)
  <2>1. a \in Int /\ x \in Int /\ y \in Int /\ 1 \in Int /\ ~ (a > x)
    BY <1>1
  <2>2. (1 > y => y = 0) /\ y - 1 + 1 = y
    BY <1>1
  <2> HIDE DEF x, y
  <2>3. Cardinality(a .. x) = x - a + 1
    BY <2>1, FS_Interval
  <2>4. Cardinality(1 .. y) = y /\ IsFiniteSet(1 .. y)
    BY <2>1, <2>2, FS_Interval
  <2> QED
    BY <2>3, <2>4 DEF x, y
<1>8. Cardinality(a .. Len(l)) <= Cardinality(1 .. Len(s))
  BY <1>6, <1>7, FS_Injection
<1> QED
  BY <1>1, <1>7, <1>8

(***************************************************************************)
(* The keys in Redis.                                                      *)
(***************************************************************************)
Key(E) == [value : Seq(E), expireAt : Nat \cup {Undefined}]

LEMMA KeyTypes ==
  ASSUME NEW E, now \in Nat
  PROVE  /\ NoKey \in Key(E)
         /\ \A v \in Seq(E), ttl \in Nat :
              KeyFor(v, ttl) \in Key(E) /\ KeyFor(v, ttl).value = v
              /\ KeyFor(v, ttl).expireAt = now + ttl
         /\ \A k \in Key(E), v \in Seq(E) :
              /\ Put(k, v) \in Key(E) /\ Put(k, v).value = v
              /\ Put(k, v).expireAt \in {Undefined, k.expireAt}
         /\ \A k \in Key(E) : Get(k) \in Seq(E) /\ Get(k) \in {<<>>, k.value}
<1>1. NoKey \in Key(E)
  BY EmptySeq DEF NoKey, Key
<1>2. ASSUME NEW v \in Seq(E), NEW ttl \in Nat
      PROVE  /\ KeyFor(v, ttl) \in Key(E) /\ KeyFor(v, ttl).value = v
             /\ KeyFor(v, ttl).expireAt = now + ttl
  BY DEF KeyFor, Key
<1>3. ASSUME NEW k \in Key(E), NEW v \in Seq(E)
      PROVE  /\ Put(k, v) \in Key(E) /\ Put(k, v).value = v
             /\ Put(k, v).expireAt \in {Undefined, k.expireAt}
  <2>1. CASE v = <<>>
    BY <1>1, <2>1 DEF Put, NoKey
  <2>2. CASE v # <<>>
    BY <2>2 DEF Put, Key
  <2> QED
    BY <2>1, <2>2
<1>4. ASSUME NEW k \in Key(E) PROVE Get(k) \in Seq(E) /\ Get(k) \in {<<>>, k.value}
  BY EmptySeq DEF Get, Key
<1> QED
  BY <1>1, <1>2, <1>3, <1>4

\* The times of the daily set, and what is left of them, are those of its members.
LEMMA TimesType ==
  ASSUME NEW d \in Seq(DayMember)
  PROVE  Times(d) \in Seq(Nat) /\ Len(Times(d)) = Len(d)
<1>1. DOMAIN d = 1 .. Len(d) /\ Len(d) \in Nat
  BY LenProperties
<1>2. \A i \in 1 .. Len(d) : d[i].timestamp \in Nat
  BY ElementOfSeq, MembersTimed DEF Timed
<1> QED
  BY <1>1, <1>2 DEF Times

LEMMA ScriptLimitsType ==
  ASSUME NEW w, Len(w) \in Nat
  PROVE  ScriptLimits(w) \in Limits /\ ScriptLimits(w).rpm > 0
BY RedisAssumption DEF ScriptLimits, Given, Limits

\* The limits of a script but for the number of requests do not depend on the window,
\* and that one is exhausted by a part of the window only if rpm is given.
LEMMA ScriptLimitsAgree ==
  ASSUME NEW w, NEW e, Len(w) \in Nat, Len(e) \in Nat, Len(e) <= Len(w)
  PROVE  LET L == ScriptLimits(w)
             M == ScriptLimits(e)
         IN  /\ L.itpm = M.itpm /\ L.rpd = M.rpd /\ L.otpm = M.otpm
             /\ L.rpd = Given(limits.rpd) /\ L.itpm = Given(limits.itpm)
             /\ RpmFull(L, e) <=> RpmFull(M, e)
             /\ ~RpmFull(L, e) /\ limits.rpm # 0 => Len(e) < limits.rpm
BY RedisAssumption DEF ScriptLimits, RpmFull, Limits

\* What a sorted set of the window holds after eviction.
LEMMA EvictedWindow ==
  ASSUME NEW w \in Seq(Member), NEW clock \in Nat
  PROVE  LET e == EvictWindow(w, clock) IN
         /\ e \in Seq(Member) /\ Len(e) <= Len(w) /\ Len(e) \in Nat
         /\ Sorted(w) => Sorted(e)
         /\ Distinct(w) => Distinct(e)
         /\ \A i \in 1 .. Len(e) : \E j \in 1 .. Len(w) : e[i] = w[j]
<1> DEFINE live == {i \in DOMAIN w : w[i].timestamp > clock - WINDOW_MS}
<1> DEFINE e == EvictWindow(w, clock)
<1>1. live \in SUBSET DOMAIN w /\ e = SuffixFrom(w, live)
  BY DEF EvictWindow
<1> HIDE DEF live, e
<1>2. /\ e \in Seq(Member) /\ Len(e) <= Len(w)
      /\ \A i \in 1 .. Len(e) : \E j \in 1 .. Len(w) : e[i] = w[j]
      /\ Distinct(w) => Distinct(e)
      /\ Sorted(w) => Sorted(e)
  BY <1>1, EvictedMembers
<1> QED
  BY <1>2, LenProperties DEF e

LEMMA EvictedDaily ==
  ASSUME NEW d \in Seq(DayMember), NEW clock \in Nat
  PROVE  LET e == EvictDailySet(d, clock) IN
         /\ e \in Seq(DayMember) /\ Len(e) <= Len(d) /\ Len(e) \in Nat
         /\ Sorted(d) => Sorted(e)
         /\ Distinct(d) => Distinct(e)
         /\ \A i \in 1 .. Len(e) : \E j \in 1 .. Len(d) : e[i] = d[j]
<1> DEFINE live == {i \in DOMAIN d : d[i].timestamp > clock - DAY_MS}
<1> DEFINE e == EvictDailySet(d, clock)
<1>1. live \in SUBSET DOMAIN d /\ e = SuffixFrom(d, live)
  BY DEF EvictDailySet
<1> HIDE DEF live, e
<1>2. /\ e \in Seq(DayMember) /\ Len(e) <= Len(d)
      /\ \A i \in 1 .. Len(e) : \E j \in 1 .. Len(d) : e[i] = d[j]
      /\ Distinct(d) => Distinct(e)
      /\ Sorted(d) => Sorted(e)
  BY <1>1, EvictedMembers
<1> QED
  BY <1>2, LenProperties DEF e

(***************************************************************************)
(* The types of the commands under way and of the keys, and what is known  *)
(* of the clock a command carries.                                         *)
(***************************************************************************)
Command ==
  [script : {"check"}, at : Nat, now : Nat, est : Nat, id : Nat \X Nat]
    \cup [script : {"reconcile"}, at : Nat, input : Nat, output : Nat]
    \cup [script : {"set"}, at : Nat, until : Nat, ttl : Nat]
    \cup [script : {"next"}, at : Nat, now : Nat]

\* It left at most MaxDelay ago; and a backoff it sets lasts, with the skew of the clocks,
\* a buffer longer than it says.
UnderWay(c, i, t) ==
  /\ c.at <= t /\ t <= c.at + MaxDelay
  /\ c.script \in {"check", "next"} => c.now = c.at + offset[i]
  /\ c.script = "set" => c.at + c.ttl + MaxSkew >= c.until + BUFFER_MS

Keys ==
  /\ window \in Key(Member) /\ daily \in Key(DayMember) /\ backoff \in Key(Nat)
  /\ Sorted(window.value) /\ Sorted(daily.value)
  /\ limits.rpm # 0 => Len(window.value) <= limits.rpm

Commands ==
  /\ sent \in [Instance -> Seq(Command)]
  /\ \A i \in Instance : \A n \in 1 .. Len(sent[i]) : UnderWay(sent[i][n], i, now)

History ==
  /\ log \in Seq(Nat)
  /\ \A i \in 1 .. Len(log) : log[i] <= now
  /\ \A i, j \in 1 .. Len(log) : i <= j => log[i] <= log[j]

IInv ==
  /\ now \in Nat \ {0}
  /\ counter \in [Instance -> Nat]
  /\ Keys /\ Commands /\ History

LEMMA IInvTypeOK == IInv => TypeOK
BY DEF IInv, TypeOK, Keys, History, Key, Member, DayMember

LEMMA InitIInv == Init => IInv
<1> SUFFICES ASSUME Init PROVE IInv
  OBVIOUS
<1> USE RedisAssumption
<1>1. now = 1 /\ counter \in [Instance -> Nat] /\ now \in Nat
  BY DEF Init
<1>2. window \in Key(Member) /\ daily \in Key(DayMember) /\ backoff \in Key(Nat)
  <2>1. \A E : NoKey \in Key(E)
    BY <1>1, KeyTypes
  <2> QED
    BY <2>1 DEF Init
<1>3. Keys
  <2>1. window.value = <<>> /\ daily.value = <<>>
    BY DEF Init, NoKey
  <2>2. Sorted(<<>>) /\ Len(<<>>) = 0
    BY EmptySeq DEF Sorted
  <2> QED
    BY <1>2, <2>1, <2>2 DEF Keys, Limits
<1>4. Commands
  BY EmptySeq DEF Init, Commands
<1>5. History
  BY EmptySeq DEF Init, History
<1> QED
  BY <1>1, <1>3, <1>4, <1>5 DEF IInv

(***************************************************************************)
(* Sending a command.                                                      *)
(***************************************************************************)
LEMMA SendKeepsIInv ==
  ASSUME IInv, NEW i \in Instance, NEW c \in Command, UnderWay(c, i, now), Send(i, c),
         counter' \in [Instance -> Nat], UNCHANGED <<now, redis, log>>
  PROVE  IInv'
<1>1. /\ sent \in [Instance -> Seq(Command)] /\ now' = now /\ log' = log
      /\ window' = window /\ daily' = daily /\ backoff' = backoff
  BY DEF IInv, Commands, redis
<1>2. sent' = [sent EXCEPT ![i] = Append(sent[i], c)]
  BY DEF Send
<1>3. /\ Append(sent[i], c) \in Seq(Command) /\ Len(Append(sent[i], c)) = Len(sent[i]) + 1
      /\ \A n \in 1 .. Len(sent[i]) : Append(sent[i], c)[n] = sent[i][n]
      /\ Append(sent[i], c)[Len(sent[i]) + 1] = c /\ Len(sent[i]) \in Nat
  BY <1>1, AppendProperties, LenProperties
<1>4. \A j \in Instance : sent'[j] = IF j = i THEN Append(sent[i], c) ELSE sent[j]
  BY <1>1, <1>2
<1>5. ASSUME NEW j \in Instance, NEW n \in 1 .. Len(sent'[j]) PROVE UnderWay(sent'[j][n], j, now)
  <2>1. CASE j = i /\ n = Len(sent[i]) + 1
    BY <1>3, <1>4, <2>1
  <2>2. CASE ~ (j = i /\ n = Len(sent[i]) + 1)
    <3>1. n \in 1 .. Len(sent[j]) /\ sent'[j][n] = sent[j][n]
      <4>1. CASE j = i
        <5>1. n \in 1 .. Len(sent[i]) + 1
          BY <1>3, <1>4, <4>1
        <5>2. n \in 1 .. Len(sent[i])
          BY <1>3, <2>2, <4>1, <5>1
        <5> QED
          BY <1>3, <1>4, <4>1, <5>2
      <4>2. CASE j # i
        BY <1>4, <4>2
      <4> QED
        BY <4>1, <4>2
    <3> QED
      BY <3>1 DEF IInv, Commands
  <2> QED
    BY <2>1, <2>2
<1>6. Commands'
  BY <1>1, <1>2, <1>3, <1>5 DEF Commands
<1>7. Keys' /\ History'
  BY <1>1 DEF IInv, Keys, History
<1> QED
  BY <1>1, <1>6, <1>7 DEF IInv

LEMMA ClockType ==
  ASSUME now \in Nat, NEW i \in Instance
  PROVE  Clock(i) \in Nat /\ Clock(i) >= now /\ Clock(i) <= now + MaxSkew /\ Clock(i) = now + offset[i]
BY RedisAssumption DEF Clock

\* A backoff set for a delay lives a buffer longer.
LEMMA BackoffTtlIs ==
  ASSUME NEW clock \in Nat, NEW delay \in Nat
  PROVE  BackoffTtl(clock + delay, clock) = delay + BUFFER_MS /\ delay + BUFFER_MS \in Nat
<1>1. (clock + delay) - clock = delay
  OBVIOUS
<1>2. Max({0, delay}) = delay
  <2>1. {0, delay} \in SUBSET (0 .. delay) /\ {0, delay} # {}
    OBVIOUS
  <2>2. Max({0, delay}) \in {0, delay} /\ \A j \in {0, delay} : j <= Max({0, delay})
    BY <2>1, MaxOfNaturals
  <2> QED
    BY <2>1, <2>2
<1> QED
  BY <1>1, <1>2, RedisAssumption DEF BackoffTtl

LEMMA CallKeepsIInv ==
  ASSUME IInv, NEW i \in Instance, Call(i)
  PROVE  IInv'
<1> USE RedisAssumption
<1>1. now \in Nat /\ counter \in [Instance -> Nat]
  BY DEF IInv
<1>2. Clock(i) \in Nat /\ Clock(i) = now + offset[i] /\ Clock(i) <= now + MaxSkew
  BY <1>1, ClockType
<1>3. CASE \E est \in Estimate : SendCheckAndRecord(i, est)
  <2> PICK est \in Estimate : SendCheckAndRecord(i, est)
    BY <1>3
  <2> DEFINE c == [script |-> "check", at |-> now, now |-> Clock(i), est |-> est, id |-> MemberId(i)]
  <2>1. c \in Command
    BY <1>1, <1>2 DEF Command, MemberId
  <2>2. UnderWay(c, i, now)
    BY <1>1, <1>2 DEF UnderWay
  <2>3. Send(i, c) /\ counter' \in [Instance -> Nat] /\ UNCHANGED <<now, redis, log>>
    BY <1>1 DEF SendCheckAndRecord
  <2> HIDE DEF c
  <2> QED
    BY <2>1, <2>2, <2>3, SendKeepsIInv
<1>4. CASE \E input, output \in Usage : SendReconcile(i, input, output)
  <2> PICK input \in Usage, output \in Usage : SendReconcile(i, input, output)
    BY <1>4
  <2> DEFINE c == [script |-> "reconcile", at |-> now, input |-> input, output |-> output]
  <2>1. c \in Command
    BY <1>1 DEF Command
  <2>2. UnderWay(c, i, now)
    BY <1>1 DEF UnderWay
  <2>3. Send(i, c) /\ counter' \in [Instance -> Nat] /\ UNCHANGED <<now, redis, log>>
    BY <1>1 DEF SendReconcile
  <2> HIDE DEF c
  <2> QED
    BY <2>1, <2>2, <2>3, SendKeepsIInv
<1>5. CASE \E delay \in Delay : SendSetBackoff(i, delay)
  <2> PICK delay \in Delay : SendSetBackoff(i, delay)
    BY <1>5
  <2> DEFINE ttl == BackoffTtl(Clock(i) + delay, Clock(i))
  <2> DEFINE c == [script |-> "set", at |-> now, until |-> Clock(i) + delay, ttl |-> ttl]
  <2>1. delay \in Nat
    OBVIOUS
  <2>2. ttl = delay + BUFFER_MS
    BY <1>2, <2>1, BackoffTtlIs
  <2> HIDE DEF ttl
  <2>3. c \in Command
    BY <1>1, <1>2, <2>1, <2>2 DEF Command
  <2>4. UnderWay(c, i, now)
    BY <1>1, <1>2, <2>1, <2>2 DEF UnderWay
  <2>5. Send(i, c) /\ counter' \in [Instance -> Nat] /\ UNCHANGED <<now, redis, log>>
    BY <1>1 DEF SendSetBackoff, ttl
  <2> HIDE DEF c
  <2> QED
    BY <2>3, <2>4, <2>5, SendKeepsIInv
<1>6. CASE SendNextSlot(i)
  <2> DEFINE c == [script |-> "next", at |-> now, now |-> Clock(i)]
  <2>1. c \in Command
    BY <1>1, <1>2 DEF Command
  <2>2. UnderWay(c, i, now)
    BY <1>1, <1>2 DEF UnderWay
  <2>3. Send(i, c) /\ counter' \in [Instance -> Nat] /\ UNCHANGED <<now, redis, log>>
    BY <1>1, <1>6 DEF SendNextSlot
  <2> HIDE DEF c
  <2> QED
    BY <2>1, <2>2, <2>3, SendKeepsIInv
<1> QED
  BY <1>3, <1>4, <1>5, <1>6 DEF Call

(***************************************************************************)
(* What a script reads, and when it admits a request.                      *)
(***************************************************************************)
LEMMA ReadKeys ==
  ASSUME IInv
  PROVE  /\ Get(window) \in Seq(Member) /\ Sorted(Get(window)) /\ Len(Get(window)) \in Nat
         /\ Get(daily) \in Seq(DayMember) /\ Sorted(Get(daily)) /\ Len(Get(daily)) \in Nat
         /\ limits.rpm # 0 => Len(Get(window)) <= limits.rpm
         /\ Times(Get(daily)) \in Seq(Nat)
         /\ Until \in Nat
<1>1. now \in Nat /\ Keys
  BY DEF IInv
<1>2. /\ Get(window) \in Seq(Member) /\ Get(window) \in {<<>>, window.value}
      /\ Get(daily) \in Seq(DayMember) /\ Get(daily) \in {<<>>, daily.value}
      /\ Get(backoff) \in Seq(Nat)
  BY <1>1, KeyTypes DEF Keys
<1>3. Sorted(<<>>) /\ Len(<<>>) = 0
  BY EmptySeq DEF Sorted
<1>4. Sorted(Get(window)) /\ Sorted(Get(daily)) /\ (limits.rpm # 0 => Len(Get(window)) <= limits.rpm)
  BY <1>1, <1>2, <1>3, RedisAssumption DEF Keys, Limits
<1>5. Len(Get(window)) \in Nat /\ Len(Get(daily)) \in Nat
  BY <1>2, LenProperties
<1>6. Until \in Nat
  <2>1. CASE Get(backoff) = <<>>
    BY <2>1 DEF Until
  <2>2. CASE Get(backoff) # <<>>
    <3>1. 1 \in 1 .. Len(Get(backoff))
      BY <1>2, <2>2, EmptySeq
    <3>2. Get(backoff)[1] \in Nat
      BY <1>2, <3>1, ElementOfSeq
    <3> QED
      BY <2>2, <3>2 DEF Until
  <2> QED
    BY <2>1, <2>2
<1> QED
  BY <1>2, <1>4, <1>5, <1>6, TimesType

\* Evicting the daily set leaves the members whose times the daily window keeps.
LEMMA EvictedTimes ==
  ASSUME NEW d \in Seq(DayMember), NEW clock \in Nat
  PROVE  Len(EvictDaily(Times(d), clock)) = Len(EvictDailySet(d, clock))
<1>1. Times(d) \in Seq(Nat) /\ Len(Times(d)) = Len(d) /\ Len(d) \in Nat
  BY TimesType, LenProperties
<1>2. DOMAIN Times(d) = DOMAIN d /\ DOMAIN d = 1 .. Len(d)
      /\ \A i \in DOMAIN d : Times(d)[i] = d[i].timestamp
  BY LenProperties DEF Times
<1> DEFINE live == {i \in DOMAIN d : d[i].timestamp > clock - DAY_MS}
<1>3. {i \in DOMAIN Times(d) : Times(d)[i] > clock - DAY_MS} = live
  BY <1>2
<1>4. EvictDaily(Times(d), clock) = SuffixFrom(Times(d), live)
      /\ EvictDailySet(d, clock) = SuffixFrom(d, live)
  BY <1>3 DEF EvictDaily, EvictDailySet
<1>5. live \in SUBSET (1 .. Len(d))
  BY <1>2
<1> HIDE DEF live
<1>6. CASE live = {}
  BY <1>4, <1>6 DEF SuffixFrom
<1>7. CASE live # {}
  <2> DEFINE m == Min(live)
  <2>1. m \in 1 .. Len(d)
    <3>1. live \in SUBSET Nat
      BY <1>5
    <3> QED
      BY <1>5, <1>7, <3>1, MinOfNaturals
  <2> HIDE DEF m
  <2>2. m \in Int /\ Len(d) \in Int /\ m <= Len(d)
        /\ (\A i \in m .. Len(d) : d[i] \in DayMember /\ Times(d)[i] \in Nat)
    BY <1>1, <2>1, ElementOfSeq
  <2>3. Len(SubSeq(d, m, Len(d))) = Len(d) - m + 1
    BY <2>2, SubSeqProperties
  <2>4. Len(SubSeq(Times(d), m, Len(d))) = Len(d) - m + 1
    BY <2>2, SubSeqProperties
  <2> QED
    BY <1>1, <1>4, <1>7, <2>3, <2>4 DEF SuffixFrom, m
<1> QED
  BY <1>6, <1>7

\* A check is admitted exactly when it passes the backoff and each of the limits.
LEMMA ReplyIs ==
  ASSUME IInv, NEW est \in Nat, NEW clock \in Nat
  PROVE  LET L == ScriptLimits(Get(window)) IN
         /\ ReplyAt(est, clock) \in Nat
         /\ ReplyAt(est, clock) = 0 <=> Passes(5, L, Get(window), Times(Get(daily)), Until, est, clock)
         /\ ReplyAt(est, clock) # 0 => ReplyAt(est, clock) > clock
<1> DEFINE w == Get(window)
<1> DEFINE d == Times(Get(daily))
<1> DEFINE L == ScriptLimits(w)
<1>1. w \in Seq(Member) /\ Sorted(w) /\ Len(w) \in Nat /\ d \in Seq(Nat) /\ Until \in Nat
  BY ReadKeys
<1>2. L \in Limits
  BY <1>1, ScriptLimitsType
<1>3. Ascending(w) /\ Stamped(Member)
  BY <1>1, SortedAscends, MembersTimed
<1>4. ReplyAt(est, clock) = CheckReply(L, w, d, Until, est, clock)
  BY DEF ReplyAt
<1> HIDE DEF w, d, L
<1>5. LET told == CheckReply(L, w, d, Until, est, clock)
      IN  /\ told \in Nat
          /\ told = 0 <=> Passes(5, L, w, d, Until, est, clock)
          /\ told # 0 => told > clock
  BY <1>1, <1>2, <1>3, ReplyZero
<1> QED
  BY <1>4, <1>5 DEF w, d, L

\* An admission finds the backoff over and the window and the day below their limits.
LEMMA AdmissionFits ==
  ASSUME IInv, NEW est \in Nat, NEW clock \in Nat, ReplyAt(est, clock) = 0
  PROVE  /\ Until <= clock
         /\ limits.rpm # 0 => Len(EvictWindow(Get(window), clock)) < limits.rpm
         /\ Given(limits.rpd) # Undefined => Len(EvictDailySet(Get(daily), clock)) < limits.rpd
<1> DEFINE w == Get(window)
<1> DEFINE L == ScriptLimits(w)
<1> DEFINE e == EvictWindow(w, clock)
<1> DEFINE d == Get(daily)
<1>1. Passes(5, L, w, Times(d), Until, est, clock)
  BY ReplyIs
<1>2. w \in Seq(Member) /\ Len(w) \in Nat /\ d \in Seq(DayMember) /\ Until \in Nat
  BY ReadKeys
<1>3. Until <= clock /\ ~RpmFull(L, e) /\ ~RpdFull(L, EvictDaily(Times(d), clock))
  BY <1>1 DEF Passes
<1>4. Len(e) \in Nat /\ Len(e) <= Len(w)
  BY <1>2, EvictedWindow
<1> HIDE DEF w, d, e
<1>5. limits.rpm # 0 => Len(e) < limits.rpm
  BY <1>2, <1>3, <1>4, ScriptLimitsAgree
<1>6. L.rpd = Given(limits.rpd)
  BY DEF ScriptLimits
<1>7. Given(limits.rpd) # Undefined => limits.rpd \in Nat /\ Given(limits.rpd) = limits.rpd
  BY RedisAssumption DEF Given, Limits
<1>8. Given(limits.rpd) # Undefined => Len(EvictDailySet(d, clock)) < limits.rpd
  <2>1. Len(EvictDaily(Times(d), clock)) = Len(EvictDailySet(d, clock))
        /\ Len(EvictDailySet(d, clock)) \in Nat
    BY <1>2, EvictedTimes, EvictedDaily
  <2> QED
    BY <1>3, <1>6, <1>7, <2>1 DEF RpdFull
<1> QED
  BY <1>3, <1>5, <1>8 DEF w, d, e

(***************************************************************************)
(* Executing a command.                                                    *)
(***************************************************************************)
LEMMA LogAdmission ==
  ASSUME IInv, now' = now, log' = Append(log, now)
  PROVE  History'
<1>1. now \in Nat /\ History /\ log \in Seq(Nat)
  BY DEF IInv, History
<1>2. /\ log' \in Seq(Nat) /\ Len(log') = Len(log) + 1 /\ Len(log) \in Nat
      /\ \A i \in 1 .. Len(log) : log'[i] = log[i]
      /\ log'[Len(log) + 1] = now
  BY <1>1, AppendProperties, LenProperties
<1>3. \A i \in 1 .. Len(log') : i \in 1 .. Len(log) \/ i = Len(log) + 1
  BY <1>2
<1>4. ASSUME NEW i \in 1 .. Len(log') PROVE log'[i] <= now
  BY <1>1, <1>2, <1>3 DEF History
<1>5. ASSUME NEW i \in 1 .. Len(log'), NEW j \in 1 .. Len(log'), i <= j PROVE log'[i] <= log'[j]
  <2>1. CASE j = Len(log) + 1
    BY <1>2, <1>4, <2>1
  <2>2. CASE j \in 1 .. Len(log)
    <3>1. i \in 1 .. Len(log)
      BY <1>2, <1>5, <2>2
    <3> QED
      BY <1>1, <1>2, <1>5, <2>2, <3>1 DEF History
  <2> QED
    BY <1>3, <2>1, <2>2
<1> QED
  BY <1>2, <1>4, <1>5 DEF History

LEMMA CheckKeepsKeys ==
  ASSUME IInv, NEW c \in Command, now' = now, CheckAndRecord(c)
  PROVE  Keys' /\ History'
<1> USE RedisAssumption
<1> DEFINE w == EvictWindow(Get(window), c.now)
<1> DEFINE d == EvictDailySet(Get(daily), c.now)
<1> DEFINE m == [timestamp |-> c.now, inputTokens |-> c.est, outputTokens |-> 0, id |-> c.id]
<1> DEFINE n == [timestamp |-> c.now, id |-> c.id]
<1>1. c.script = "check" /\ c.now \in Nat /\ c.est \in Nat /\ c.id \in Nat \X Nat
  BY DEF CheckAndRecord, Command
<1>2. now \in Nat /\ Keys /\ History
  BY DEF IInv
<1>3. m \in Member /\ n \in DayMember /\ Timed(Member) /\ Timed(DayMember)
  BY <1>1, MembersTimed DEF Member, DayMember
<1>4. /\ w \in Seq(Member) /\ Sorted(w) /\ Len(w) \in Nat
      /\ limits.rpm # 0 => Len(w) <= limits.rpm
  <2>1. Get(window) \in Seq(Member) /\ Sorted(Get(window)) /\ Len(Get(window)) \in Nat
        /\ (limits.rpm # 0 => Len(Get(window)) <= limits.rpm)
    BY ReadKeys
  <2>2. w \in Seq(Member) /\ Len(w) <= Len(Get(window)) /\ Len(w) \in Nat /\ Sorted(w)
    BY <1>1, <2>1, EvictedWindow
  <2> HIDE DEF w
  <2> QED
    BY <2>1, <2>2 DEF Limits
<1>5. d \in Seq(DayMember) /\ Sorted(d)
  <2>1. Get(daily) \in Seq(DayMember) /\ Sorted(Get(daily))
    BY ReadKeys
  <2> QED
    BY <1>1, <2>1, EvictedDaily
<1>6. ZAdd(w, m) \in Seq(Member) /\ Sorted(ZAdd(w, m)) /\ Len(ZAdd(w, m)) <= Len(w) + 1
      /\ Len(ZAdd(w, m)) \in Nat
  <2> HIDE DEF w, m
  <2>1. ZAdd(w, m) \in Seq(Member) /\ Sorted(ZAdd(w, m)) /\ Len(ZAdd(w, m)) <= Len(w) + 1
    BY <1>3, <1>4, ZAddType
  <2> QED
    BY <2>1, LenProperties
<1>7. ZAdd(d, n) \in Seq(DayMember) /\ Sorted(ZAdd(d, n))
  <2> HIDE DEF d, n
  <2> QED
    BY <1>3, <1>5, ZAddType
<1>8. ReplyAt(c.est, c.now) = 0 /\ limits.rpm # 0 => Len(w) < limits.rpm
  BY <1>1, AdmissionFits
<1> DEFINE W == KeyFor(ZAdd(w, m), WINDOW_MS + BUFFER_MS)
<1> DEFINE D == KeyFor(ZAdd(d, n), DAY_MS + BUFFER_MS)
<1>9. /\ W \in Key(Member) /\ W.value = ZAdd(w, m)
      /\ D \in Key(DayMember) /\ D.value = ZAdd(d, n)
  <2>1. WINDOW_MS + BUFFER_MS \in Nat /\ DAY_MS + BUFFER_MS \in Nat
    BY WindowAssumption
  <2> HIDE DEF w, m, d, n
  <2>2. W \in Key(Member) /\ W.value = ZAdd(w, m)
    BY <1>2, <1>6, <2>1, KeyTypes
  <2>3. D \in Key(DayMember) /\ D.value = ZAdd(d, n)
    BY <1>2, <1>7, <2>1, KeyTypes
  <2> QED
    BY <2>2, <2>3
<1>10. /\ Put(window, w) \in Key(Member) /\ Put(window, w).value = w
       /\ Put(daily, d) \in Key(DayMember) /\ Put(daily, d).value = d
  <2> HIDE DEF w, d
  <2> QED
    BY <1>2, <1>4, <1>5, KeyTypes DEF Keys
<1>11. /\ (window' = W /\ ReplyAt(c.est, c.now) = 0) \/ window' \in {window, Put(window, w)}
       /\ daily' \in {D, daily, Put(daily, d)}
       /\ backoff' = backoff
       /\ log' = Append(log, now) \/ log' = log
  BY DEF CheckAndRecord
<1> HIDE DEF w, m, d, n, W, D
<1>12. Keys'
  <2>1. /\ window' \in Key(Member) /\ Sorted(window'.value)
        /\ limits.rpm # 0 => Len(window'.value) <= limits.rpm
    <3>1. CASE window' = W /\ ReplyAt(c.est, c.now) = 0
      BY <1>4, <1>6, <1>8, <1>9, <3>1 DEF Limits
    <3>2. CASE window' \in {window, Put(window, w)}
      BY <1>2, <1>4, <1>10, <3>2 DEF Keys
    <3> QED
      BY <1>11, <3>1, <3>2
  <2>2. daily' \in Key(DayMember) /\ Sorted(daily'.value)
    BY <1>2, <1>5, <1>7, <1>9, <1>10, <1>11 DEF Keys
  <2> QED
    BY <1>2, <1>11, <2>1, <2>2 DEF Keys
<1>13. History'
  <2>1. CASE log' = log
    BY <1>2, <2>1 DEF History
  <2>2. CASE log' = Append(log, now)
    BY <2>2, LogAdmission
  <2> QED
    BY <1>11, <2>1, <2>2
<1> QED
  BY <1>12, <1>13

LEMMA ReconcileKeepsKeys ==
  ASSUME IInv, NEW c \in Command, now' = now, Reconcile(c)
  PROVE  Keys' /\ History'
<1> USE RedisAssumption
<1> DEFINE w == Get(window)
<1> DEFINE actual(m) == [m EXCEPT !.inputTokens = c.input, !.outputTokens = c.output]
<1>1. c.script = "reconcile" /\ c.input \in Nat /\ c.output \in Nat
  BY DEF Reconcile, Command
<1>2. now \in Nat /\ Keys /\ History
  BY DEF IInv
<1>3. daily' = daily /\ backoff' = backoff /\ log' = log
  BY DEF Reconcile
<1>4. w \in Seq(Member) /\ Sorted(w) /\ Len(w) \in Nat /\ DOMAIN w = 1 .. Len(w)
      /\ (limits.rpm # 0 => Len(w) <= limits.rpm)
  BY ReadKeys, LenProperties
<1>5. CASE window' = window
  BY <1>2, <1>3, <1>5 DEF Keys, History
<1>6. CASE window' # window
  <2>1. PICK i \in DOMAIN w :
          window' = [Put(window, RemoveAt(w, i)) EXCEPT !.value = ZAdd(@, actual(w[i]))]
    BY <1>6 DEF Reconcile
  <2> DEFINE r == RemoveAt(w, i)
  <2> DEFINE z == ZAdd(r, actual(w[i]))
  <2> HIDE DEF w
  <2>2. r \in Seq(Member) /\ Len(r) = Len(w) - 1 /\ Sorted(r)
    BY <1>4, RemoveIs, RemoveKeepsSorted, MembersTimed
  <2>3. actual(w[i]) \in Member
    <3>1. w[i] \in Member
      BY <1>4, ElementOfSeq
    <3> QED
      BY <1>1, <3>1 DEF Member
  <2> HIDE DEF r
  <2>4. z \in Seq(Member) /\ Sorted(z) /\ Len(z) <= Len(w) /\ Len(z) \in Nat
    <3> DEFINE a == actual(w[i])
    <3>1. a \in Member
      BY <2>3
    <3> HIDE DEF a
    <3>2. ZAdd(r, a) \in Seq(Member) /\ Sorted(ZAdd(r, a)) /\ Len(ZAdd(r, a)) <= Len(r) + 1
      BY <2>2, <3>1, ZAddType, MembersTimed
    <3>3. Len(ZAdd(r, a)) \in Nat
      BY <3>2, LenProperties
    <3> QED
      BY <1>4, <2>2, <3>2, <3>3 DEF a
  <2>5. Put(window, r) \in Key(Member) /\ Put(window, r).value = r
    BY <1>2, <2>2, KeyTypes DEF Keys
  <2>6. window' = [Put(window, r) EXCEPT !.value = z]
    BY <2>1, <2>5 DEF r
  <2> HIDE DEF z
  <2>7. window' \in Key(Member) /\ window'.value = z
    BY <2>4, <2>5, <2>6 DEF Key
  <2>8. Keys'
    BY <1>2, <1>3, <1>4, <2>4, <2>7 DEF Keys, Limits
  <2> QED
    BY <1>2, <1>3, <2>8 DEF History
<1> QED
  BY <1>5, <1>6

LEMMA SetBackoffKeepsKeys ==
  ASSUME IInv, NEW c \in Command, now' = now, SetBackoff(c)
  PROVE  Keys' /\ History'
<1>1. c.until \in Nat /\ c.ttl \in Nat
  BY DEF SetBackoff, Command
<1>2. <<c.until>> \in Seq(Nat) /\ now \in Nat /\ Keys /\ History
  BY <1>1 DEF IInv
<1>3. backoff' \in Key(Nat)
  BY <1>1, <1>2, KeyTypes DEF SetBackoff
<1> QED
  BY <1>2, <1>3 DEF SetBackoff, Keys, History

LEMMA NextSlotKeepsKeys ==
  ASSUME IInv, NEW c \in Command, now' = now, NextSlot(c)
  PROVE  Keys' /\ History'
<1> DEFINE w == EvictWindow(Get(window), c.now)
<1> DEFINE d == EvictDailySet(Get(daily), c.now)
<1>1. c.now \in Nat
  BY DEF NextSlot, Command
<1>2. now \in Nat /\ Keys /\ History
  BY DEF IInv
<1>3. /\ Get(window) \in Seq(Member) /\ Sorted(Get(window)) /\ Len(Get(window)) \in Nat
      /\ limits.rpm # 0 => Len(Get(window)) <= limits.rpm
      /\ Get(daily) \in Seq(DayMember) /\ Sorted(Get(daily))
  BY ReadKeys
<1>4. /\ w \in Seq(Member) /\ Sorted(w) /\ Len(w) \in Nat /\ Len(w) <= Len(Get(window))
      /\ d \in Seq(DayMember) /\ Sorted(d)
  BY <1>1, <1>3, EvictedWindow, EvictedDaily
<1>5. window' \in {window, Put(window, w)} /\ daily' \in {daily, Put(daily, d)}
      /\ backoff' = backoff /\ log' = log
  BY DEF NextSlot
<1> HIDE DEF w, d
<1>6. /\ Put(window, w) \in Key(Member) /\ Put(window, w).value = w
      /\ Put(daily, d) \in Key(DayMember) /\ Put(daily, d).value = d
  BY <1>2, <1>4, KeyTypes DEF Keys
<1>7. limits.rpm # 0 => Len(w) <= limits.rpm
  BY <1>3, <1>4, RedisAssumption DEF Limits
<1> QED
  BY <1>2, <1>4, <1>5, <1>6, <1>7 DEF Keys, History

\* The command at the head of a queue.
LEMMA HeadIs ==
  ASSUME IInv, NEW i \in Instance, sent[i] # <<>>
  PROVE  /\ Head(sent[i]) \in Command
         /\ UnderWay(Head(sent[i]), i, now)
         /\ Tail(sent[i]) \in Seq(Command)
         /\ Len(Tail(sent[i])) = Len(sent[i]) - 1
         /\ \A n \in 1 .. Len(Tail(sent[i])) : Tail(sent[i])[n] = sent[i][n + 1]
         /\ Head(sent[i]) = sent[i][1] /\ Len(sent[i]) \in Nat \ {0}
<1>1. sent[i] \in Seq(Command) /\ \A n \in 1 .. Len(sent[i]) : UnderWay(sent[i][n], i, now)
  BY DEF IInv, Commands
<1>2. Len(sent[i]) \in Nat \ {0}
  BY <1>1, EmptySeq
<1>3. Head(sent[i]) = sent[i][1]
  OBVIOUS
<1>4. UnderWay(Head(sent[i]), i, now)
  BY <1>1, <1>2, <1>3
<1> DEFINE s == sent[i]
<1> HIDE DEF s
<1>5. Head(s) \in Command /\ Tail(s) \in Seq(Command) /\ Len(Tail(s)) = Len(s) - 1
      /\ \A n \in 1 .. Len(Tail(s)) : Tail(s)[n] = s[n + 1]
  <2>1. s \in Seq(Command) /\ s # <<>>
    BY <1>1 DEF s
  <2> QED
    BY <2>1, HeadTailProperties
<1> QED
  BY <1>2, <1>3, <1>4, <1>5 DEF s

\* The commands left when the oldest one of a process is gone, or all of them.
LEMMA FewerCommands ==
  ASSUME IInv, NEW i \in Instance, sent[i] # <<>>, now' = now, NEW s,
         s \in {Tail(sent[i]), <<>>}, sent' = [sent EXCEPT ![i] = s]
  PROVE  Commands'
<1>1. Commands /\ sent \in [Instance -> Seq(Command)]
  BY DEF IInv, Commands
<1>2. s \in Seq(Command) /\ \A n \in 1 .. Len(s) : UnderWay(s[n], i, now)
  <2>1. CASE s = Tail(sent[i])
    <3>1. \A n \in 1 .. Len(s) : s[n] = sent[i][n + 1] /\ n + 1 \in 1 .. Len(sent[i])
      BY <2>1, HeadIs
    <3> QED
      BY <1>1, <2>1, <3>1, HeadIs DEF Commands
  <2>2. CASE s = <<>>
    BY <2>2, EmptySeq
  <2> QED
    BY <2>1, <2>2
<1> QED
  BY <1>1, <1>2 DEF Commands

LEMMA ExecuteKeepsIInv ==
  ASSUME IInv, NEW i \in Instance, Execute(i)
  PROVE  IInv'
<1> DEFINE c == Head(sent[i])
<1>1. /\ sent[i] # <<>> /\ now' = now /\ counter' = counter
      /\ CheckAndRecord(c) \/ Reconcile(c) \/ SetBackoff(c) \/ NextSlot(c)
      /\ sent' = [sent EXCEPT ![i] = Tail(sent[i])]
  BY DEF Execute
<1>2. c \in Command
  BY <1>1, HeadIs
<1> HIDE DEF c
<1>3. Keys' /\ History'
  BY <1>1, <1>2, CheckKeepsKeys, ReconcileKeepsKeys, SetBackoffKeepsKeys, NextSlotKeepsKeys
<1>4. Commands'
  BY <1>1, FewerCommands
<1> QED
  BY <1>1, <1>3, <1>4 DEF IInv

LEMMA DisconnectKeepsIInv ==
  ASSUME IInv, NEW i \in Instance, Disconnect(i)
  PROVE  IInv'
<1>1. /\ sent[i] # <<>> /\ now' = now /\ counter' = counter
      /\ sent' = [sent EXCEPT ![i] = <<>>]
      /\ window' = window /\ daily' = daily /\ backoff' = backoff /\ log' = log
  BY DEF Disconnect, redis
<1>2. Commands'
  BY <1>1, FewerCommands
<1> QED
  BY <1>1, <1>2 DEF IInv, Keys, History

LEMMA TickKeepsIInv ==
  ASSUME IInv, Tick
  PROVE  IInv'
<1> USE RedisAssumption
<1>1. /\ now \in Nat \ {0} /\ now' = now + 1 /\ counter' = counter /\ sent' = sent
      /\ window' = window /\ daily' = daily /\ backoff' = backoff /\ log' = log
  BY DEF IInv, Tick, redis
<1>2. sent \in [Instance -> Seq(Command)]
  BY DEF IInv, Commands
<1>3. ASSUME NEW i \in Instance, NEW n \in 1 .. Len(sent[i]) PROVE UnderWay(sent[i][n], i, now + 1)
  <2>1. n \in DOMAIN sent[i] /\ sent[i][n] \in Command
    BY <1>2, LenProperties, ElementOfSeq
  <2>2. now < sent[i][n].at + MaxDelay
    BY <2>1 DEF Tick
  <2>3. UnderWay(sent[i][n], i, now) /\ sent[i][n].at \in Nat
    BY <2>1 DEF IInv, Commands, Command
  <2> QED
    BY <1>1, <2>2, <2>3 DEF UnderWay
<1>4. Commands'
  BY <1>1, <1>2, <1>3 DEF Commands
<1>5. Keys' /\ History'
  BY <1>1, ElementOfSeq DEF IInv, Keys, History
<1> QED
  BY <1>1, <1>4, <1>5 DEF IInv

LEMMA NextIInv == IInv /\ [Next]_vars => IInv'
<1> SUFFICES ASSUME IInv, [Next]_vars PROVE IInv'
  OBVIOUS
<1>1. CASE Tick
  BY <1>1, TickKeepsIInv
<1>2. ASSUME NEW i \in Instance, Call(i) \/ Execute(i) \/ Disconnect(i) PROVE IInv'
  BY <1>2, CallKeepsIInv, ExecuteKeepsIInv, DisconnectKeepsIInv
<1>3. CASE UNCHANGED vars
  BY <1>3 DEF vars, redis, IInv, Keys, Commands, History
<1> QED
  BY <1>1, <1>2, <1>3 DEF Next

LEMMA RedisInvariant == Spec => []IInv
BY InitIInv, NextIInv, PTL DEF Spec

\* The sorted sets stay sorted, whatever the order in which commands with different
\* clocks arrive, and none ever holds more members than its limit.
THEOREM RedisTypeCorrect == Spec => []TypeOK
BY RedisInvariant, IInvTypeOK, PTL

(***************************************************************************)
(* The estimate of LUA_NEXT_SLOT.                                          *)
(***************************************************************************)

\* The two scripts agree on whether a slot is free, and the estimate is not before the
\* time a refused check is told.
LEMMA NextSlotAtAgrees ==
  ASSUME IInv, NEW est \in Nat, NEW clock \in Nat \ {0}
  PROVE  LET told == ReplyAt(est, clock)
             estimate == NextSlotAt(est, clock)
         IN  /\ estimate = 0 <=> told = 0
             /\ CanFit(est) => estimate >= told
<1> USE RedisAssumption
<1> DEFINE v == Get(window)
<1> DEFINE w == EvictWindow(v, clock)
<1> DEFINE dv == Times(Get(daily))
<1> DEFINE d == EvictDaily(dv, clock)
<1> DEFINE L0 == ScriptLimits(v)
<1> DEFINE L == ScriptLimits(w)
<1> DEFINE told == ReplyAt(est, clock)
<1> DEFINE estimate == NextSlotAt(est, clock)
<1> DEFINE a == OldestOf(w, clock) + WINDOW_MS + 1
<1> DEFINE b == ItpmNextSlot(w, L.itpm, est, clock)
<1> DEFINE e == OldestDaily(d, clock) + DAY_MS + 1
<1> DEFINE o == OtpmNextSlot(w, L.otpm, clock)
<1> DEFINE A == IF RpmFull(L, w) THEN {a} ELSE {}
<1> DEFINE B == IF ItpmFull(L, w, est) /\ ItpmEnough(w, L.itpm, est) # {} THEN {b} ELSE {}
<1> DEFINE C == IF RpdFull(L, d) THEN {e} ELSE {}
<1> DEFINE O == IF OtpmFull(L, w) THEN {o} ELSE {}
<1> DEFINE S == {clock} \cup A \cup B \cup C \cup O
<1> DEFINE free == ~RpmFull(L, w) /\ ~ItpmFull(L, w, est) /\ ~RpdFull(L, d) /\ ~OtpmFull(L, w)
<1>1. /\ v \in Seq(Member) /\ Sorted(v) /\ Len(v) \in Nat
      /\ dv \in Seq(Nat) /\ Until \in Nat /\ Stamped(Member)
  BY ReadKeys, MembersTimed
<1>2. /\ told \in Nat
      /\ told = 0 <=> Passes(5, L0, v, dv, Until, est, clock)
      /\ told # 0 => told > clock
  BY ReplyIs
<1>3. estimate = IF clock < Until THEN Until ELSE IF free THEN 0 ELSE Max(S)
  BY DEF NextSlotAt
<1>4. w \in Seq(Member) /\ Len(w) \in Nat /\ Len(w) <= Len(v)
  <2> HIDE DEF v
  <2> QED
    BY <1>1, EvictedWindow
<1>5. L \in Limits /\ L0 \in Limits
  <2> HIDE DEF v, w
  <2> QED
    BY <1>1, <1>4, ScriptLimitsType
<1>6. L0.itpm = L.itpm /\ L0.rpd = L.rpd /\ L0.otpm = L.otpm /\ (RpmFull(L0, w) <=> RpmFull(L, w))
      /\ L.itpm = Given(limits.itpm)
  <2> HIDE DEF v, w
  <2> QED
    BY <1>1, <1>4, ScriptLimitsAgree
<1>7. d \in Seq(Nat)
  <2> HIDE DEF dv
  <2> QED
    BY <1>1, EvictDailyType
<1>8. a \in Nat /\ e \in Nat
  <2> HIDE DEF v, dv
  <2> QED
    BY <1>1, OldestTold
<1>9. b \in Nat
  <2>1. ItpmEnough(w, L.itpm, est) \in SUBSET DOMAIN w
    BY DEF ItpmEnough
  <2> HIDE DEF w, L
  <2> QED
    BY <1>1, <1>4, <2>1, SlotAfterType DEF ItpmNextSlot
<1>10. o \in Nat
  <2>1. OtpmEnough(w, L.otpm) \in SUBSET DOMAIN w
    BY DEF OtpmEnough
  <2> HIDE DEF w, L
  <2> QED
    BY <1>1, <1>4, <2>1, SlotAfterType, OtpmSlot
<1>11. ItpmFull(L0, w, est) <=> ItpmFull(L, w, est)
  BY <1>6 DEF ItpmFull
<1>12. (RpdFull(L0, d) <=> RpdFull(L, d)) /\ (OtpmFull(L0, w) <=> OtpmFull(L, w))
  BY <1>6 DEF RpdFull, OtpmFull
<1> DEFINE p(i) == Passes(i, L0, v, dv, Until, est, clock)
<1>13. /\ ~p(1) => told = Until
       /\ p(1) /\ ~p(2) => told = OldestOf(w, clock) + WINDOW_MS + 1
       /\ p(2) /\ ~p(3) => told = ItpmNextSlot(w, L0.itpm, est, clock)
       /\ p(3) /\ ~p(4) => told = OldestDaily(d, clock) + DAY_MS + 1
       /\ p(4) /\ ~p(5) => told = OtpmNextSlot(w, L0.otpm, clock)
  <2>1. told = CheckReply(L0, v, dv, Until, est, clock)
    BY DEF ReplyAt
  <2> HIDE DEF told
  <2> HIDE DEF v, dv, L0
  <2> QED
    BY <1>1, <2>1, ReplyTold
<1>14. /\ p(1) <=> clock >= Until
       /\ p(2) <=> p(1) /\ ~RpmFull(L, w)
       /\ p(3) <=> p(2) /\ ~ItpmFull(L, w, est)
       /\ p(4) <=> p(3) /\ ~RpdFull(L, d)
       /\ p(5) <=> p(4) /\ ~OtpmFull(L, w)
  <2>1. /\ p(1) <=> clock >= Until
        /\ p(2) <=> p(1) /\ ~RpmFull(L0, w)
        /\ p(3) <=> p(2) /\ ~ItpmFull(L0, w, est)
        /\ p(4) <=> p(3) /\ ~RpdFull(L0, d)
        /\ p(5) <=> p(4) /\ ~OtpmFull(L0, w)
    BY DEF Passes
  <2> HIDE DEF p, w, d, L, L0
  <2> QED
    BY <1>6, <1>11, <1>12, <2>1
<1>15. CanFit(est) /\ ItpmFull(L, w, est) => ItpmEnough(w, L.itpm, est) # {}
  <2> SUFFICES ASSUME CanFit(est), ItpmFull(L, w, est) PROVE ItpmEnough(w, L.itpm, est) # {}
    OBVIOUS
  <2>1. L.itpm # Undefined
    BY DEF ItpmFull
  <2>2. est <= L.itpm
    BY <1>6, <2>1 DEF CanFit, Given
  <2> HIDE DEF w, L
  <2> QED
    BY <1>1, <1>4, <1>5, <2>2, ItpmSomeEnough
<1> HIDE DEF v, w, dv, d, L, L0, told, estimate, p, a, b, e, o
<1>16. CASE ~p(1)
  BY <1>1, <1>2, <1>3, <1>13, <1>14, <1>16 DEF told, estimate
<1>17. CASE p(5)
  <2>1. told = 0
    BY <1>2, <1>17 DEF p
  <2>2. free /\ clock >= Until
    BY <1>14, <1>17
  <2>3. estimate = 0
    BY <1>1, <1>3, <2>2
  <2> QED
    BY <2>1, <2>3 DEF told, estimate
<1>18. CASE p(1) /\ ~p(5)
  <2>1. told # 0
    BY <1>2, <1>18 DEF p
  <2>2. estimate = Max(S)
    BY <1>1, <1>3, <1>14, <1>18
  <2> DEFINE n == clock + a + b + e + o
  <2>3. n \in Nat /\ S \in SUBSET (0 .. n) /\ S # {} /\ clock \in S
    <3>1. n \in Nat /\ clock \in 0 .. n /\ a \in 0 .. n /\ b \in 0 .. n /\ e \in 0 .. n /\ o \in 0 .. n
      BY <1>8, <1>9, <1>10
    <3> HIDE DEF n
    <3> QED
      BY <3>1
  <2>4. Max(S) \in S /\ \A j \in S : j <= Max(S)
    <3> HIDE DEF n, S
    <3> QED
      BY <2>3, MaxOfNaturals
  <2>5. estimate \in Nat /\ estimate # 0
    <3> HIDE DEF S, n
    <3>1. estimate \in 0 .. n /\ clock <= estimate
      BY <2>2, <2>3, <2>4
    <3> QED
      BY <2>3, <3>1
  <2>6. CanFit(est) => told \in S
    <3>1. CASE RpmFull(L, w)
      BY <1>13, <1>14, <1>18, <3>1 DEF a
    <3>2. CASE ~RpmFull(L, w) /\ ItpmFull(L, w, est)
      BY <1>6, <1>13, <1>14, <1>15, <1>18, <3>2 DEF b
    <3>3. CASE ~RpmFull(L, w) /\ ~ItpmFull(L, w, est) /\ RpdFull(L, d)
      BY <1>13, <1>14, <1>18, <3>3 DEF e
    <3>4. CASE ~RpmFull(L, w) /\ ~ItpmFull(L, w, est) /\ ~RpdFull(L, d) /\ OtpmFull(L, w)
      BY <1>6, <1>13, <1>14, <1>18, <3>4 DEF o
    <3> QED
      BY <1>14, <1>18, <3>1, <3>2, <3>3, <3>4
  <2>7. CanFit(est) => estimate >= told
    <3> HIDE DEF S
    <3> QED
      BY <2>2, <2>4, <2>6
  <2> QED
    BY <2>1, <2>5, <2>7 DEF told, estimate
<1>19. p(5) => p(1)
  BY <1>14
<1> QED
  BY <1>16, <1>17, <1>18, <1>19

\* LUA_NEXT_SLOT repeats the checks of LUA_CHECK_AND_RECORD in a script of its own: in
\* every state and for every clock they agree, and the estimate never promises a slot
\* before the time a refused caller is told.
THEOREM RedisEstimateAgrees == Spec => []EstimateAgrees
<1>1. IInv => EstimateAgrees
  <2> SUFFICES ASSUME IInv, NEW i \in Instance, NEW est \in Estimate
               PROVE  LET told == ReplyAt(est, Clock(i))
                          estimate == NextSlotAt(est, Clock(i))
                      IN  /\ estimate = 0 <=> told = 0
                          /\ CanFit(est) => estimate >= told
    BY DEF EstimateAgrees
  <2>1. now \in Nat \ {0}
    BY DEF IInv
  <2>2. Clock(i) \in Nat \ {0}
    BY <2>1, ClockType
  <2>3. est \in Nat
    BY RedisAssumption
  <2> QED
    BY <2>2, <2>3, NextSlotAtAgrees
<1> QED
  BY <1>1, RedisInvariant, PTL

(***************************************************************************)
(* The backoff.                                                            *)
(***************************************************************************)

\* A backoff is kept, with the skew of the clocks, a buffer longer than it lasts.
BackoffKept ==
  backoff.value # <<>> =>
    backoff.expireAt \in Nat /\ backoff.expireAt + MaxSkew >= backoff.value[1] + BUFFER_MS

LEMMA InitBackoffKept == Init => BackoffKept
BY DEF Init, NoKey, BackoffKept

LEMMA NextBackoffKept == IInv /\ BackoffKept /\ [Next]_vars => BackoffKept'
<1> SUFFICES ASSUME IInv, BackoffKept, [Next]_vars PROVE BackoffKept'
  OBVIOUS
<1> USE RedisAssumption
<1>1. CASE backoff' = backoff
  BY <1>1 DEF BackoffKept
<1>2. ASSUME NEW i \in Instance, Execute(i), SetBackoff(Head(sent[i])) PROVE BackoffKept'
  <2> DEFINE c == Head(sent[i])
  <2>1. sent[i] # <<>>
    BY <1>2 DEF Execute
  <2>2. c \in Command /\ UnderWay(c, i, now) /\ now \in Nat
    BY <2>1, HeadIs DEF IInv
  <2>3. c.script = "set" /\ backoff' = KeyFor(<<c.until>>, c.ttl)
    BY <1>2 DEF SetBackoff
  <2> HIDE DEF c
  <2>4. c.until \in Nat /\ c.ttl \in Nat /\ c.at \in Nat
    BY <2>2, <2>3 DEF Command
  <2>5. backoff'.value = <<c.until>> /\ backoff'.expireAt = now + c.ttl
    BY <2>3 DEF KeyFor
  <2>6. backoff'.value[1] = c.until
    BY <2>5
  <2>7. now + c.ttl + MaxSkew >= c.until + BUFFER_MS
    BY <2>2, <2>3, <2>4 DEF UnderWay
  <2> QED
    BY <2>2, <2>4, <2>5, <2>6, <2>7 DEF BackoffKept
<1>3. ASSUME NEW i \in Instance, Call(i) \/ Execute(i) \/ Disconnect(i), backoff' # backoff
      PROVE  Execute(i) /\ SetBackoff(Head(sent[i]))
  BY <1>3 DEF Call, SendCheckAndRecord, SendReconcile, SendSetBackoff, SendNextSlot, Disconnect, redis,
              Execute, CheckAndRecord, Reconcile, NextSlot
<1>4. Tick \/ UNCHANGED vars => backoff' = backoff
  BY DEF Tick, vars, redis
<1> QED
  BY <1>1, <1>2, <1>3, <1>4 DEF Next

\* An admission comes of a check at the head of the one queue that changes.
LEMMA AdmissionIs ==
  ASSUME IInv, [Next]_vars, log' # log
  PROVE  \E i \in Instance :
           /\ sent[i] # <<>> /\ CheckAndRecord(Head(sent[i])) /\ ReplyAt(Head(sent[i]).est, Head(sent[i]).now) = 0
           /\ sent' = [sent EXCEPT ![i] = Tail(@)] /\ now' = now /\ log' = Append(log, now)
<1>1. ~ Tick /\ ~ UNCHANGED vars
  BY DEF Tick, vars
<1>2. \A i \in Instance : ~ Call(i) /\ ~ Disconnect(i)
  BY DEF Call, SendCheckAndRecord, SendReconcile, SendSetBackoff, SendNextSlot, Disconnect
<1>3. PICK i \in Instance : Execute(i)
  BY <1>1, <1>2 DEF Next
<1> DEFINE c == Head(sent[i])
<1>4. /\ sent[i] # <<>> /\ sent' = [sent EXCEPT ![i] = Tail(@)] /\ now' = now
      /\ CheckAndRecord(c) \/ Reconcile(c) \/ SetBackoff(c) \/ NextSlot(c)
  BY <1>3 DEF Execute
<1> HIDE DEF c
<1>5. CheckAndRecord(c)
  BY <1>4 DEF Reconcile, SetBackoff, NextSlot
<1>6. ReplyAt(c.est, c.now) = 0 /\ log' = Append(log, now)
  BY <1>5 DEF CheckAndRecord
<1> QED
  BY <1>4, <1>5, <1>6 DEF c

\* No clock of an admitted check is before the end of a backoff set earlier, not even
\* when the key has expired: the buffer outlasts the skew of the clocks and the delay of
\* commands together.
THEOREM RedisBackoffHonoured == Spec => BackoffHonoured
<1> DEFINE A == \A i \in Instance :
                  log' # log /\ sent'[i] # sent[i] /\ backoff.value # <<>> =>
                    Head(sent[i]).now >= backoff.value[1]
<1>1. IInv /\ BackoffKept /\ [Next]_vars => [A]_vars
  <2> SUFFICES ASSUME IInv, BackoffKept, [Next]_vars, NEW i \in Instance,
                      log' # log, sent'[i] # sent[i], backoff.value # <<>>
               PROVE  Head(sent[i]).now >= backoff.value[1]
    OBVIOUS
  <2> USE RedisAssumption
  <2>1. PICK j \in Instance :
          /\ sent[j] # <<>> /\ CheckAndRecord(Head(sent[j])) /\ ReplyAt(Head(sent[j]).est, Head(sent[j]).now) = 0
          /\ sent' = [sent EXCEPT ![j] = Tail(@)] /\ now' = now /\ log' = Append(log, now)
    BY AdmissionIs
  <2>2. i = j
    BY <2>1 DEF IInv, Commands
  <2> DEFINE c == Head(sent[i])
  <2>3. c \in Command /\ UnderWay(c, i, now) /\ CheckAndRecord(c) /\ ReplyAt(c.est, c.now) = 0
    BY <2>1, <2>2, HeadIs
  <2>4. c.script = "check"
    BY <2>3 DEF CheckAndRecord
  <2> HIDE DEF c
  <2>5. c.est \in Nat /\ c.now \in Nat /\ c.at \in Nat /\ now \in Nat
    BY <2>3, <2>4 DEF Command, IInv
  <2>6. Until <= c.now
    BY <2>3, <2>5, AdmissionFits
  <2>7. c.now + MaxDelay >= now
    <3>1. c.now = c.at + offset[i] /\ now <= c.at + MaxDelay /\ offset[i] \in Nat
      BY <2>3, <2>4 DEF UnderWay
    <3> QED
      BY <2>5, <3>1
  <2>8. backoff.value[1] \in Nat
    <3>1. backoff.value \in Seq(Nat)
      BY DEF IInv, Keys, Key
    <3>2. 1 \in 1 .. Len(backoff.value)
      BY <3>1, EmptySeq
    <3> QED
      BY <3>1, <3>2, ElementOfSeq
  <2>9. backoff.expireAt \in Nat /\ backoff.expireAt + MaxSkew >= backoff.value[1] + BUFFER_MS
    BY DEF BackoffKept
  <2>10. CASE backoff.expireAt <= now
    <3> DEFINE x == backoff.expireAt
               b == backoff.value[1]
    <3>1. x \in Nat /\ b \in Nat /\ x + MaxSkew >= b + BUFFER_MS /\ x <= now
      BY <2>8, <2>9, <2>10
    <3>2. BUFFER_MS \in Nat /\ MaxSkew \in Nat /\ MaxDelay \in Nat /\ MaxSkew + MaxDelay <= BUFFER_MS
      BY RedisAssumption
    <3> HIDE DEF x, b
    <3>3. c.now >= b
      BY ONLY <2>5, <2>7, <3>1, <3>2
    <3> QED
      BY <3>3 DEF c, b
  <2>11. CASE ~ (backoff.expireAt <= now)
    <3>1. Get(backoff) = backoff.value
      BY <2>11 DEF Get
    <3>2. Until = backoff.value[1]
      BY <3>1 DEF Until
    <3> QED
      BY <2>6, <2>5, <2>8, <3>2 DEF c
  <2> QED
    BY <2>10, <2>11
<1>2. Spec => []BackoffKept
  BY RedisInvariant, InitBackoffKept, NextBackoffKept, PTL DEF Spec
<1>3. BackoffHonoured <=> [][A]_vars
  BY DEF BackoffHonoured
<1> HIDE DEF A
<1>4. Spec => [][A]_vars
  BY <1>1, <1>2, RedisInvariant, PTL DEF Spec
<1> QED
  BY <1>3, <1>4, PTL

(***************************************************************************)
(* The promise.  A request number is drawn with the clock of its process,  *)
(* so two processes can draw the same; the scripts then take the second    *)
(* request for the first.  The promise holds as long as no check under way *)
(* carries the id of a member that is there, and of one process always.    *)
(***************************************************************************)
Fresh(id, s) == \A j \in 1 .. Len(s) : s[j].id # id

NoTwins ==
  \A i \in Instance : \A n \in 1 .. Len(sent[i]) :
    sent[i][n].script = "check" =>
      Fresh(sent[i][n].id, Get(window)) /\ Fresh(sent[i][n].id, Get(daily))

GetAt(k, t) == IF k.expireAt # Undefined /\ k.expireAt <= t THEN <<>> ELSE k.value

\* What the promise needs of a key: it recalls the recent admissions, its members have
\* different ids, and it does not expire before the last of them stops counting.
KeyRecalls(k, l, span, t) ==
  /\ Recalls(GetAt(k, t), l, span, t)
  /\ Distinct(GetAt(k, t))
  /\ k.expireAt # Undefined => \A n \in 1 .. Len(l) : l[n] + span + BUFFER_MS <= k.expireAt

LEMMA NoneDistinct == Distinct(<<>>)
BY EmptySeq DEF Distinct

LEMMA TickRecalls ==
  ASSUME NEW E, NEW k \in Key(E), NEW l \in Seq(Nat), NEW span \in Nat, NEW t \in Nat,
         KeyRecalls(k, l, span, t)
  PROVE  KeyRecalls(k, l, span, t + 1)
<1> USE RedisAssumption
<1>1. k.expireAt # Undefined => k.expireAt \in Nat
  BY DEF Key
<1>2. CASE GetAt(k, t + 1) = GetAt(k, t)
  <2>1. Recalls(GetAt(k, t), l, span, t + 1)
    <3>1. t <= t + 1 /\ t + 1 \in Nat
      OBVIOUS
    <3> QED
      BY <3>1, RecallsLater DEF KeyRecalls
  <2> QED
    BY <1>2, <2>1 DEF KeyRecalls
<1>3. CASE GetAt(k, t + 1) # GetAt(k, t)
  <2>1. GetAt(k, t + 1) = <<>> /\ k.expireAt # Undefined /\ k.expireAt <= t + 1
    BY <1>1, <1>3 DEF GetAt
  <2>2. Recent(l, span, t + 1) = {}
    <3> SUFFICES ASSUME NEW n \in Recent(l, span, t + 1) PROVE FALSE
      OBVIOUS
    <3>1. n \in 1 .. Len(l) /\ l[n] + span > t + 1 + MaxSkew + MaxDelay /\ l[n] \in Nat
      BY ElementOfSeq DEF Recent
    <3>2. l[n] + span + BUFFER_MS <= k.expireAt
      BY <2>1, <3>1 DEF KeyRecalls
    <3> QED
      BY <1>1, <2>1, <3>1, <3>2
  <2>3. Recalls(<<>>, l, span, t + 1)
    BY <2>2 DEF Recalls
  <2> QED
    BY <2>1, <2>3, NoneDistinct DEF KeyRecalls
<1> QED
  BY <1>2, <1>3

\* What is left of a sorted set, by a clock and over a window of the given span.
Left(s, clock, span) == SuffixFrom(s, {i \in DOMAIN s : s[i].timestamp > clock - span})

LEMMA EvictedRecalls ==
  ASSUME NEW E, Timed(E), NEW k \in Key(E), NEW l \in Seq(Nat), NEW span \in Nat, now \in Nat,
         KeyRecalls(k, l, span, now), NEW clock \in Nat, clock <= now + MaxSkew, NEW v,
         v = Left(Get(k), clock, span)
  PROVE  /\ Recalls(v, l, span, now) /\ Distinct(v) /\ v \in Seq(E)
         /\ \A i \in 1 .. Len(v) : \E j \in 1 .. Len(Get(k)) : v[i] = Get(k)[j]
         /\ KeyRecalls(Put(k, v), l, span, now)
<1> DEFINE s == Get(k)
<1> DEFINE live == {i \in DOMAIN s : s[i].timestamp > clock - span}
<1>1. s \in Seq(E) /\ s \in {<<>>, k.value} /\ s = GetAt(k, now)
  BY KeyTypes DEF Get, GetAt
<1>2. Recalls(s, l, span, now) /\ Distinct(s)
  BY <1>1 DEF KeyRecalls
<1>3. v = SuffixFrom(s, live) /\ live \in SUBSET DOMAIN s
  BY DEF Left
<1>4. Recalls(v, l, span, now)
  <2> HIDE DEF s
  <2> QED
    BY <1>1, <1>2, <1>3, RecallsEvicted
<1> HIDE DEF s, live
<1>5. v \in Seq(E) /\ Len(v) <= Len(s) /\ Distinct(v)
      /\ \A i \in 1 .. Len(v) : \E j \in 1 .. Len(s) : v[i] = s[j]
  <2>1. /\ v \in Seq(E) /\ Len(v) <= Len(s)
        /\ \A i \in 1 .. Len(v) : \E j \in 1 .. Len(s) : v[i] = s[j]
        /\ Distinct(s) => Distinct(v)
        /\ Sorted(s) => Sorted(v)
    BY SMTT(30), <1>1, <1>3, EvictedMembers
  <2> QED
    BY <1>2, <2>1
<1>6. KeyRecalls(Put(k, v), l, span, now)
  <2>1. CASE v = <<>>
    <3>1. Put(k, v) = NoKey /\ GetAt(NoKey, now) = <<>> /\ NoKey.expireAt = Undefined
      BY <2>1 DEF Put, NoKey, GetAt
    <3> QED
      BY <1>4, <1>5, <2>1, <3>1 DEF KeyRecalls
  <2>2. CASE v # <<>>
    <3>1. s # <<>>
      <4>1. Len(v) \in Nat \ {0} /\ Len(s) \in Nat
        BY <1>1, <1>5, <2>2, EmptySeq, LenProperties
      <4> QED
        BY <1>5, <4>1, EmptySeq
    <3>2. ~ (k.expireAt # Undefined /\ k.expireAt <= now)
      BY <1>1, <3>1 DEF GetAt
    <3>3. Put(k, v).value = v /\ Put(k, v).expireAt = k.expireAt
      BY <2>2 DEF Put, Key
    <3>4. GetAt(Put(k, v), now) = v
      BY <3>2, <3>3 DEF GetAt
    <3> QED
      BY <1>4, <1>5, <3>3, <3>4 DEF KeyRecalls
  <2> QED
    BY <2>1, <2>2
<1> QED
  BY <1>4, <1>5, <1>6 DEF s

LEMMA AdmittedRecalls ==
  ASSUME NEW E, Timed(E), NEW l \in Seq(Nat), NEW span \in Nat, span > 0, now \in Nat,
         \A n \in 1 .. Len(l) : l[n] <= now,
         NEW v \in Seq(E), Recalls(v, l, span, now), Distinct(v),
         NEW m \in E, Fresh(m.id, v), m.timestamp + MaxDelay >= now,
         \A e \in E : SameMember(m, e) => m.id = e.id
  PROVE  KeyRecalls(KeyFor(ZAdd(v, m), span + BUFFER_MS), Append(l, now), span, now)
<1> USE RedisAssumption
<1> DEFINE z == ZAdd(v, m)
<1>1. \A i \in 1 .. Len(v) : v[i].id # m.id /\ ~SameMember(m, v[i])
  BY ElementOfSeq DEF Fresh
<1>2. /\ Carries(v, z) /\ Distinct(z)
      /\ \E j \in 1 .. Len(z) : z[j] = m
  BY <1>1, ZAddNew
<1>3. z \in Seq(E)
  BY ZAddType
<1> HIDE DEF z
<1>4. Recalls(z, Append(l, now), span, now)
  BY <1>1, <1>2, RecallsAdmitted
<1> DEFINE k == KeyFor(z, span + BUFFER_MS)
<1>5. k.value = z /\ k.expireAt = now + (span + BUFFER_MS)
  BY DEF KeyFor
<1>6. GetAt(k, now) = z
  <2>1. ~ (now + (span + BUFFER_MS) <= now)
    OBVIOUS
  <2> HIDE DEF k
  <2> QED
    BY <1>5, <2>1 DEF GetAt
<1>7. \A n \in 1 .. Len(Append(l, now)) : Append(l, now)[n] + span + BUFFER_MS <= k.expireAt
  <2>1. /\ Len(Append(l, now)) = Len(l) + 1 /\ Len(l) \in Nat
        /\ \A i \in 1 .. Len(l) : Append(l, now)[i] = l[i] /\ l[i] \in Nat
        /\ Append(l, now)[Len(l) + 1] = now
    BY AppendProperties, LenProperties, ElementOfSeq
  <2> DEFINE x == Append(l, now)
  <2>2. \A n \in 1 .. Len(x) : x[n] <= now /\ x[n] \in Nat
    BY <2>1
  <2> HIDE DEF k, x
  <2>3. \A n \in 1 .. Len(x) : x[n] + span + BUFFER_MS <= now + (span + BUFFER_MS)
    BY <2>2
  <2> QED
    BY <1>5, <2>3 DEF x
<1> HIDE DEF k
<1>8. KeyRecalls(k, Append(l, now), span, now)
  BY <1>2, <1>4, <1>6, <1>7 DEF KeyRecalls
<1> QED
  BY <1>8 DEF k, z

\* Both keys recall what they count; the daily one is there only with a daily limit.
Recollection ==
  /\ KeyRecalls(window, log, WINDOW_MS, now)
  /\ Given(limits.rpd) # Undefined => KeyRecalls(daily, log, DAY_MS, now)

LEMMA InitRecollection == Init => Recollection
<1> SUFFICES ASSUME Init PROVE Recollection
  OBVIOUS
<1>1. log = <<>> /\ GetAt(window, now) = <<>> /\ GetAt(daily, now) = <<>>
      /\ window.expireAt = Undefined /\ daily.expireAt = Undefined
  BY DEF Init, NoKey, GetAt
<1>2. \A span : Recent(<<>>, span, now) = {}
  BY EmptySeq DEF Recent
<1>3. \A span : Recalls(<<>>, <<>>, span, now)
  BY <1>2 DEF Recalls
<1> QED
  BY <1>1, <1>3, NoneDistinct DEF Recollection, KeyRecalls

\* A member with the id of a check is the member of that check.
LEMMA SameMemberSameId ==
  /\ \A m, e \in Member : SameMember(m, e) => m.id = e.id
  /\ \A m, e \in DayMember : SameMember(m, e) => m.id = e.id
<1>1. ASSUME NEW m \in Member, NEW e \in Member, SameMember(m, e) PROVE m.id = e.id
  <2>1. [m EXCEPT !.timestamp = 0].id = m.id /\ [e EXCEPT !.timestamp = 0].id = e.id
    BY DEF Member
  <2> QED
    BY <1>1, <2>1 DEF SameMember
<1>2. ASSUME NEW m \in DayMember, NEW e \in DayMember, SameMember(m, e) PROVE m.id = e.id
  <2>1. [m EXCEPT !.timestamp = 0].id = m.id /\ [e EXCEPT !.timestamp = 0].id = e.id
    BY DEF DayMember
  <2> QED
    BY <1>2, <2>1 DEF SameMember
<1> QED
  BY <1>1, <1>2

\* The clock of a command is at most MaxSkew ahead and at most MaxDelay behind.
LEMMA ClockOfCommand ==
  ASSUME now \in Nat, NEW i \in Instance, NEW c \in Command, UnderWay(c, i, now),
         c.script \in {"check", "next"}
  PROVE  c.now \in Nat /\ c.now <= now + MaxSkew /\ c.now + MaxDelay >= now
<1>1. c.now \in Nat /\ c.at \in Nat
  BY DEF Command
<1>2. c.now = c.at + offset[i] /\ c.at <= now /\ now <= c.at + MaxDelay
  BY DEF UnderWay
<1>3. offset[i] \in Nat /\ offset[i] <= MaxSkew
  BY RedisAssumption
<1> QED
  BY <1>1, <1>2, <1>3, RedisAssumption

LEMMA CheckKeepsRecollection ==
  ASSUME IInv, Recollection, NEW i \in Instance, NEW c \in Command, UnderWay(c, i, now),
         Fresh(c.id, Get(window)), Fresh(c.id, Get(daily)),
         now' = now, CheckAndRecord(c)
  PROVE  Recollection'
<1> USE RedisAssumption
<1> DEFINE w == EvictWindow(Get(window), c.now)
<1> DEFINE d == EvictDailySet(Get(daily), c.now)
<1> DEFINE m == [timestamp |-> c.now, inputTokens |-> c.est, outputTokens |-> 0, id |-> c.id]
<1> DEFINE n == [timestamp |-> c.now, id |-> c.id]
<1>1. c.script = "check" /\ c.now \in Nat /\ c.est \in Nat /\ c.id \in Nat \X Nat
  BY DEF CheckAndRecord, Command
<1>2. /\ now \in Nat /\ Keys /\ log \in Seq(Nat) /\ \A x \in 1 .. Len(log) : log[x] <= now
      /\ window \in Key(Member) /\ daily \in Key(DayMember)
  BY DEF IInv, History, Keys
<1>3. m \in Member /\ n \in DayMember /\ Timed(Member) /\ Timed(DayMember)
      /\ m.id = c.id /\ n.id = c.id /\ m.timestamp = c.now /\ n.timestamp = c.now
  BY <1>1, MembersTimed DEF Member, DayMember
<1>4. c.now <= now + MaxSkew /\ c.now + MaxDelay >= now
  BY <1>1, <1>2, ClockOfCommand
<1>5. WINDOW_MS \in Nat /\ WINDOW_MS > 0 /\ DAY_MS \in Nat /\ DAY_MS > 0
  BY WindowAssumption
<1>6. KeyRecalls(window, log, WINDOW_MS, now)
  BY DEF Recollection
<1>7. /\ Recalls(w, log, WINDOW_MS, now) /\ Distinct(w) /\ w \in Seq(Member)
      /\ \A x \in 1 .. Len(w) : \E j \in 1 .. Len(Get(window)) : w[x] = Get(window)[j]
      /\ KeyRecalls(Put(window, w), log, WINDOW_MS, now)
  <2>1. w = Left(Get(window), c.now, WINDOW_MS)
    BY DEF EvictWindow, Left
  <2> HIDE DEF w
  <2>2. now \in Nat /\ Timed(Member) /\ window \in Key(Member) /\ log \in Seq(Nat) /\ WINDOW_MS \in Nat
        /\ c.now \in Nat /\ c.now <= now + MaxSkew
    BY <1>1, <1>2, <1>3, <1>4, <1>5
  <2> QED
    BY ONLY <1>6, <2>1, <2>2, EvictedRecalls
<1>8. ASSUME KeyRecalls(daily, log, DAY_MS, now)
      PROVE  /\ Recalls(d, log, DAY_MS, now) /\ Distinct(d) /\ d \in Seq(DayMember)
             /\ \A x \in 1 .. Len(d) : \E j \in 1 .. Len(Get(daily)) : d[x] = Get(daily)[j]
             /\ KeyRecalls(Put(daily, d), log, DAY_MS, now)
  <2>1. d = Left(Get(daily), c.now, DAY_MS)
    BY DEF EvictDailySet, Left
  <2> HIDE DEF d
  <2>2. now \in Nat /\ Timed(DayMember) /\ daily \in Key(DayMember) /\ log \in Seq(Nat) /\ DAY_MS \in Nat
        /\ c.now \in Nat /\ c.now <= now + MaxSkew
    BY <1>1, <1>2, <1>3, <1>4, <1>5
  <2> QED
    BY ONLY <1>8, <2>1, <2>2, EvictedRecalls
<1> DEFINE admitted == ReplyAt(c.est, c.now) = 0
<1> DEFINE W == KeyFor(ZAdd(w, m), WINDOW_MS + BUFFER_MS)
<1> DEFINE D == KeyFor(ZAdd(d, n), DAY_MS + BUFFER_MS)
<1>9. ScriptLimits(w).rpd = Given(limits.rpd)
  BY DEF ScriptLimits
<1>10. /\ window' = W \/ ~admitted
       /\ admitted \/ window' \in {window, Put(window, w)}
       /\ Given(limits.rpd) # Undefined => daily' = D \/ ~admitted
       /\ Given(limits.rpd) # Undefined => admitted \/ daily' \in {daily, Put(daily, d)}
       /\ log' = IF admitted THEN Append(log, now) ELSE log
  BY <1>9 DEF CheckAndRecord
<1> HIDE DEF w, d, m, n, W, D, admitted
<1>11. Fresh(m.id, w)
  BY <1>3, <1>7 DEF Fresh
<1>12. KeyRecalls(daily, log, DAY_MS, now) => Fresh(n.id, d)
  BY <1>3, <1>8 DEF Fresh
<1>13. CASE ~admitted
  BY <1>6, <1>7, <1>8, <1>10, <1>13 DEF Recollection
<1>14. CASE admitted
  <2>1. KeyRecalls(W, Append(log, now), WINDOW_MS, now)
    <3>1. \A e \in Member : SameMember(m, e) => m.id = e.id
      BY <1>3, SameMemberSameId
    <3> QED
      BY <1>2, <1>3, <1>4, <1>5, <1>7, <1>11, <3>1, AdmittedRecalls DEF W
  <2>2. KeyRecalls(daily, log, DAY_MS, now) => KeyRecalls(D, Append(log, now), DAY_MS, now)
    <3>1. \A e \in DayMember : SameMember(n, e) => n.id = e.id
      BY <1>3, SameMemberSameId
    <3> QED
      BY <1>2, <1>3, <1>4, <1>5, <1>8, <1>12, <3>1, AdmittedRecalls DEF D
  <2> QED
    BY <1>10, <1>14, <2>1, <2>2 DEF Recollection
<1> QED
  BY <1>13, <1>14

LEMMA ReconcileKeepsRecollection ==
  ASSUME IInv, Recollection, NEW c \in Command, now' = now, Reconcile(c)
  PROVE  Recollection'
<1> DEFINE w == Get(window)
<1> DEFINE actual(m) == [m EXCEPT !.inputTokens = c.input, !.outputTokens = c.output]
<1>1. c.script = "reconcile" /\ c.input \in Nat /\ c.output \in Nat
  BY DEF Reconcile, Command
<1>2. now \in Nat /\ window \in Key(Member) /\ daily' = daily /\ log' = log
  BY DEF IInv, Keys, Reconcile
<1>3. w \in Seq(Member) /\ Len(w) \in Nat /\ DOMAIN w = 1 .. Len(w)
  BY ReadKeys, LenProperties
<1>4. CASE window' = window
  BY <1>2, <1>4 DEF Recollection
<1>5. CASE window' # window
  <2>1. PICK i \in DOMAIN w :
          window' = [Put(window, RemoveAt(w, i)) EXCEPT !.value = ZAdd(@, actual(w[i]))]
    BY <1>5 DEF Reconcile
  <2>2. w = window.value /\ ~ (window.expireAt # Undefined /\ window.expireAt <= now)
    BY <1>3, <2>1 DEF Get
  <2>3. GetAt(window, now) = w
    BY <2>2 DEF GetAt
  <2> DEFINE r == RemoveAt(w, i)
  <2> DEFINE z == ZAdd(r, actual(w[i]))
  <2> HIDE DEF w
  <2>4. r \in Seq(Member)
    BY <1>3, RemoveIs
  <2>5. actual(w[i]) \in Member /\ actual(w[i]).id = w[i].id /\ actual(w[i]).timestamp = w[i].timestamp
    <3>1. w[i] \in Member
      BY <1>3, ElementOfSeq
    <3> QED
      BY <1>1, <3>1 DEF Member
  <2>6. Recalls(w, log, WINDOW_MS, now) /\ Distinct(w)
    BY <2>3 DEF Recollection, KeyRecalls
  <2>7. Carries(w, z) /\ Distinct(z)
    <3> DEFINE a == actual(w[i])
    <3>1. a \in Member /\ a.id = w[i].id /\ a.timestamp = w[i].timestamp
      BY <2>5
    <3> HIDE DEF a
    <3>2. i \in 1 .. Len(w)
      BY <1>3
    <3> QED
      BY <1>3, <2>6, <3>1, <3>2, ZAddAnew DEF a
  <2> HIDE DEF r
  <2>8. /\ Put(window, r) \in Key(Member) /\ Put(window, r).value = r
        /\ Put(window, r).expireAt \in {Undefined, window.expireAt}
    BY <1>2, <2>4, KeyTypes
  <2>9. window' = [Put(window, r) EXCEPT !.value = z]
    BY <2>1, <2>8 DEF r
  <2> HIDE DEF z
  <2>10. window'.value = z /\ window'.expireAt \in {Undefined, window.expireAt}
    BY <2>8, <2>9 DEF Key
  <2>11. GetAt(window', now) = z
    BY <2>2, <2>10 DEF GetAt
  <2>12. Recalls(z, log, WINDOW_MS, now)
    BY <2>6, <2>7, RecallsCarried
  <2>13. KeyRecalls(window', log, WINDOW_MS, now)
    BY <2>7, <2>10, <2>11, <2>12 DEF KeyRecalls, Recollection
  <2> QED
    BY <1>2, <2>13 DEF Recollection
<1> QED
  BY <1>4, <1>5

LEMMA NextSlotKeepsRecollection ==
  ASSUME IInv, Recollection, NEW i \in Instance, NEW c \in Command, UnderWay(c, i, now),
         now' = now, NextSlot(c)
  PROVE  Recollection'
<1> DEFINE w == EvictWindow(Get(window), c.now)
<1> DEFINE d == EvictDailySet(Get(daily), c.now)
<1>1. /\ now \in Nat /\ log \in Seq(Nat) /\ c.script = "next"
      /\ window \in Key(Member) /\ daily \in Key(DayMember)
      /\ Timed(Member) /\ Timed(DayMember) /\ WINDOW_MS \in Nat /\ DAY_MS \in Nat
  BY MembersTimed, WindowAssumption DEF IInv, History, Keys, NextSlot
<1>2. c.now \in Nat /\ c.now <= now + MaxSkew
  BY <1>1, ClockOfCommand
<1>3. KeyRecalls(window, log, WINDOW_MS, now) => KeyRecalls(Put(window, w), log, WINDOW_MS, now)
  <2>1. w = Left(Get(window), c.now, WINDOW_MS)
    BY DEF EvictWindow, Left
  <2> HIDE DEF w
  <2> QED
    BY ONLY <1>1, <1>2, <2>1, EvictedRecalls
<1>4. KeyRecalls(daily, log, DAY_MS, now) => KeyRecalls(Put(daily, d), log, DAY_MS, now)
  <2>1. d = Left(Get(daily), c.now, DAY_MS)
    BY DEF EvictDailySet, Left
  <2> HIDE DEF d
  <2> QED
    BY ONLY <1>1, <1>2, <2>1, EvictedRecalls
<1>5. window' \in {window, Put(window, w)} /\ daily' \in {daily, Put(daily, d)} /\ log' = log
  BY DEF NextSlot
<1> QED
  BY <1>3, <1>4, <1>5 DEF Recollection

LEMMA NextRecollection == IInv /\ Recollection /\ NoTwins /\ [Next]_vars => Recollection'
<1> SUFFICES ASSUME IInv, Recollection, NoTwins, [Next]_vars PROVE Recollection'
  OBVIOUS
<1>1. ASSUME NEW i \in Instance, Execute(i) PROVE Recollection'
  <2> DEFINE c == Head(sent[i])
  <2>1. sent[i] # <<>> /\ now' = now
        /\ (CheckAndRecord(c) \/ Reconcile(c) \/ SetBackoff(c) \/ NextSlot(c))
    BY <1>1 DEF Execute
  <2>2. c \in Command /\ UnderWay(c, i, now) /\ c = sent[i][1] /\ 1 \in 1 .. Len(sent[i])
    BY <2>1, HeadIs
  <2>3. c.script = "check" => Fresh(c.id, Get(window)) /\ Fresh(c.id, Get(daily))
    BY <2>2 DEF NoTwins
  <2> HIDE DEF c
  <2>4. CASE CheckAndRecord(c)
    BY <2>1, <2>2, <2>3, <2>4, CheckKeepsRecollection DEF CheckAndRecord
  <2>5. CASE Reconcile(c)
    BY <2>1, <2>2, <2>5, ReconcileKeepsRecollection
  <2>6. CASE SetBackoff(c)
    BY <2>1, <2>6 DEF SetBackoff, Recollection
  <2>7. CASE NextSlot(c)
    BY <2>1, <2>2, <2>7, NextSlotKeepsRecollection
  <2> QED
    BY <2>1, <2>4, <2>5, <2>6, <2>7
<1>2. CASE Tick
  <2>1. /\ now' = now + 1 /\ window' = window /\ daily' = daily /\ log' = log
        /\ now \in Nat /\ log \in Seq(Nat) /\ WINDOW_MS \in Nat /\ DAY_MS \in Nat
        /\ window \in Key(Member) /\ daily \in Key(DayMember)
    BY <1>2, WindowAssumption DEF Tick, redis, IInv, History, Keys
  <2> QED
    BY <2>1, TickRecalls DEF Recollection
<1>3. ASSUME NEW i \in Instance, Call(i) \/ Disconnect(i) PROVE UNCHANGED <<now, redis, log>>
  BY <1>3 DEF Call, SendCheckAndRecord, SendReconcile, SendSetBackoff, SendNextSlot, Disconnect
<1>4. UNCHANGED <<now, redis, log>> => Recollection'
  BY DEF redis, Recollection
<1>5. UNCHANGED vars => UNCHANGED <<now, redis, log>>
  BY DEF vars
<1> QED
  BY <1>1, <1>2, <1>3, <1>4, <1>5 DEF Next

\* What the abstract store promises, of the whole history.
Spans(limit, span) ==
  limit # Undefined =>
    \A a \in 1 .. Len(log) :
      a + limit \in 1 .. Len(log) => log[a + limit] >= log[a] + span - (MaxSkew + MaxDelay)

Bounds == Spans(Given(limits.rpm), WINDOW_MS) /\ Spans(Given(limits.rpd), DAY_MS)

\* An admission that finds fewer than 'limit' members keeps the distance.
LEMMA AdmissionSpans ==
  ASSUME IInv, now' = now, log' = Append(log, now), NEW E, NEW s \in Seq(E), NEW span \in Nat,
         Recalls(s, log, span, now), NEW limit \in Nat, limit > 0, Len(s) < limit, Spans(limit, span)
  PROVE  Spans(limit, span)'
<1>1. now \in Nat /\ log \in Seq(Nat) /\ \A i, j \in 1 .. Len(log) : i <= j => log[i] <= log[j]
  BY DEF IInv, History
<1>2. /\ Len(log') = Len(log) + 1 /\ Len(log) \in Nat
      /\ \A i \in 1 .. Len(log) : log'[i] = log[i]
      /\ log'[Len(log) + 1] = now
  BY <1>1, AppendProperties, LenProperties
<1>3. limit # Undefined
  BY WindowAssumption
<1>4. ASSUME NEW a \in 1 .. Len(log'), a + limit \in 1 .. Len(log')
      PROVE  log'[a + limit] >= log'[a] + span - (MaxSkew + MaxDelay)
  <2>1. a \in 1 .. Len(log)
    BY <1>2, <1>4
  <2>2. CASE a + limit = Len(log) + 1
    <3>1. now >= log[a] + span - (MaxSkew + MaxDelay)
      BY <1>1, <2>1, <2>2, RecallsSpan
    <3> QED
      BY <1>2, <2>1, <2>2, <3>1
  <2>3. CASE a + limit # Len(log) + 1
    <3>1. a + limit \in 1 .. Len(log)
      <4>1. a + limit \in 1 .. Len(log) + 1 /\ Len(log) \in Nat
        BY <1>2, <1>4
      <4> QED
        BY ONLY <2>3, <4>1
    <3> QED
      BY <1>2, <1>3, <2>1, <3>1 DEF Spans
  <2> QED
    BY <2>2, <2>3
<1> QED
  BY <1>4 DEF Spans

LEMMA GivenIs ==
  /\ Given(limits.rpm) # Undefined => limits.rpm \in Nat /\ limits.rpm > 0 /\ Given(limits.rpm) = limits.rpm
  /\ Given(limits.rpd) # Undefined => limits.rpd \in Nat /\ limits.rpd > 0 /\ Given(limits.rpd) = limits.rpd
BY RedisAssumption DEF Given, Limits

LEMMA NextBounds == IInv /\ Recollection /\ Bounds /\ [Next]_vars => Bounds'
<1> SUFFICES ASSUME IInv, Recollection, Bounds, [Next]_vars PROVE Bounds'
  OBVIOUS
<1>1. CASE log' = log
  BY <1>1 DEF Bounds, Spans
<1>2. CASE log' # log
  <2>1. PICK i \in Instance :
          /\ sent[i] # <<>> /\ CheckAndRecord(Head(sent[i])) /\ ReplyAt(Head(sent[i]).est, Head(sent[i]).now) = 0
          /\ sent' = [sent EXCEPT ![i] = Tail(@)] /\ now' = now /\ log' = Append(log, now)
    BY <1>2, AdmissionIs
  <2> DEFINE c == Head(sent[i])
  <2>2. c \in Command /\ UnderWay(c, i, now) /\ c.script = "check" /\ ReplyAt(c.est, c.now) = 0
    BY <2>1, HeadIs DEF CheckAndRecord
  <2> HIDE DEF c
  <2>3. c.est \in Nat /\ c.now \in Nat
    BY <2>2 DEF Command
  <2>4. /\ now \in Nat /\ log \in Seq(Nat)
        /\ window \in Key(Member) /\ daily \in Key(DayMember)
        /\ Timed(Member) /\ Timed(DayMember) /\ WINDOW_MS \in Nat /\ DAY_MS \in Nat
        /\ c.now <= now + MaxSkew
    BY <2>2, MembersTimed, WindowAssumption, ClockOfCommand DEF IInv, History, Keys
  <2> DEFINE w == EvictWindow(Get(window), c.now)
  <2> DEFINE d == EvictDailySet(Get(daily), c.now)
  <2>5. /\ limits.rpm # 0 => Len(w) < limits.rpm
        /\ Given(limits.rpd) # Undefined => Len(d) < limits.rpd
    BY <2>2, <2>3, AdmissionFits
  <2>6. Recalls(w, log, WINDOW_MS, now) /\ w \in Seq(Member)
    <3>1. w = Left(Get(window), c.now, WINDOW_MS) /\ KeyRecalls(window, log, WINDOW_MS, now)
      BY DEF EvictWindow, Left, Recollection
    <3> HIDE DEF w
    <3> QED
      BY ONLY <2>3, <2>4, <3>1, EvictedRecalls
  <2>7. Given(limits.rpd) # Undefined => Recalls(d, log, DAY_MS, now) /\ d \in Seq(DayMember)
    <3>1. d = Left(Get(daily), c.now, DAY_MS)
          /\ (Given(limits.rpd) # Undefined => KeyRecalls(daily, log, DAY_MS, now))
      BY DEF EvictDailySet, Left, Recollection
    <3> HIDE DEF d
    <3> QED
      BY ONLY <2>3, <2>4, <3>1, EvictedRecalls
  <2> HIDE DEF w, d
  <2>8. Spans(Given(limits.rpm), WINDOW_MS)'
    <3>1. CASE Given(limits.rpm) = Undefined
      BY <3>1 DEF Spans
    <3>2. CASE Given(limits.rpm) # Undefined
      BY <2>1, <2>4, <2>5, <2>6, <3>2, GivenIs, AdmissionSpans DEF Bounds
    <3> QED
      BY <3>1, <3>2
  <2>9. Spans(Given(limits.rpd), DAY_MS)'
    <3>1. CASE Given(limits.rpd) = Undefined
      BY <3>1 DEF Spans
    <3>2. CASE Given(limits.rpd) # Undefined
      BY <2>1, <2>4, <2>5, <2>7, <3>2, GivenIs, AdmissionSpans DEF Bounds
    <3> QED
      BY <3>1, <3>2
  <2> QED
    BY <2>8, <2>9 DEF Bounds
<1> QED
  BY <1>1, <1>2

\* Every step is a step of the promise, or changes nothing it speaks of.
LEMMA StepImplements ==
  IInv /\ Bounds' /\ [Next]_vars => [Promise!Next]_<<now, [k \in {"key"} |-> log]>>
<1> SUFFICES ASSUME IInv, Bounds', [Next]_vars
             PROVE  Promise!Next \/ UNCHANGED <<now, [k \in {"key"} |-> log]>>
  OBVIOUS
<1>1. CASE log' # log
  <2>1. now' = now /\ log' = Append(log, now) /\ now \in Nat /\ log \in Seq(Nat)
    BY <1>1, AdmissionIs DEF IInv, History
  <2>2. DOMAIN log' = 1 .. Len(log')
    BY <2>1, AppendProperties, LenProperties
  <2>3. Promise!Bounded(log', Given(limits.rpm), WINDOW_MS)
    BY <2>2 DEF Bounds, Spans, Promise!Bounded
  <2>4. Promise!Bounded(log', Given(limits.rpd), DAY_MS)
    BY <2>2 DEF Bounds, Spans, Promise!Bounded
  <2>5. Promise!Admit("key")
    BY <2>1, <2>3, <2>4 DEF Promise!Admit
  <2> QED
    BY <2>5 DEF Promise!Next
<1>2. CASE log' = log /\ Tick
  BY <1>2 DEF Tick, IInv, Promise!Next, Promise!Wait
<1>3. CASE log' = log /\ ~Tick
  <2>1. now' = now
    BY <1>3 DEF Next, Call, SendCheckAndRecord, SendReconcile, SendSetBackoff, SendNextSlot, Execute,
                Disconnect, vars
  <2> QED
    BY <1>3, <2>1
<1> QED
  BY <1>1, <1>2, <1>3

\* The processes together keep the limits, whatever each one's clock says, however late
\* its commands arrive and whatever expires, for any number of processes and any limits,
\* as long as no two requests within a window carry the same id.
THEOREM RedisKeepsPromise == Spec /\ []NoTwins => KeepsPromise
<1>1. Init => Promise!Init
  BY DEF Init, Promise!Init
<1>2. Init => Bounds
  BY EmptySeq DEF Init, Bounds, Spans
<1> QED
  BY <1>1, <1>2, InitRecollection, NextRecollection, NextBounds, StepImplements, RedisInvariant, PTL
  DEF Spec, KeepsPromise, Promise!Spec

(***************************************************************************)
(* A process alone never draws an id twice: it numbers its requests, and   *)
(* its commands reach Redis in the order in which it numbered them.        *)
(***************************************************************************)

\* The members of r have ids of members of s, or the id of a check.
Owns(r, s, id) == \A j \in 1 .. Len(r) : r[j].id = id \/ \E k \in 1 .. Len(s) : r[j].id = s[k].id

\* The number in an id.
Number(c) == c.id[2]

IsCheck(c) == c.script = "check"

\* Every member is numbered before every check under way, and those in their order.
Numbered(i, s) ==
  \A j \in 1 .. Len(s) :
    /\ s[j].id[2] <= counter[i]
    /\ \A n \in 1 .. Len(sent[i]) : IsCheck(sent[i][n]) => s[j].id[2] < Number(sent[i][n])

InTurn(i) ==
  /\ \A n \in 1 .. Len(sent[i]) : IsCheck(sent[i][n]) => Number(sent[i][n]) <= counter[i]
  /\ \A m, n \in 1 .. Len(sent[i]) :
       m < n /\ IsCheck(sent[i][m]) /\ IsCheck(sent[i][n]) => Number(sent[i][m]) < Number(sent[i][n])

Turns == \A i \in Instance : InTurn(i) /\ Numbered(i, window.value) /\ Numbered(i, daily.value)

LEMMA ZAddOwns ==
  ASSUME NEW E, Timed(E), NEW s \in Seq(E), NEW m \in E
  PROVE  Owns(ZAdd(s, m), s, m.id)
<1>1. PICK r \in Seq(E) : \E k \in 1 .. Len(r) + 1 : AddsTo(s, m, r, k)
  BY ZAddIs
<1>2. PICK k \in 1 .. Len(r) + 1 : AddsTo(s, m, r, k)
  BY <1>1
<1> DEFINE z == InsertAt(r, k, m)
<1>3. /\ Len(z) = Len(r) + 1
      /\ \A i \in 1 .. Len(r) + 1 : z[i] = IF i < k THEN r[i] ELSE IF i = k THEN m ELSE r[i - 1]
  <2>1. IsInsertion(z, r, k, m)
    BY InsertIs, Zenon
  <2> HIDE DEF z
  <2> QED
    BY <2>1 DEF IsInsertion
<1>4. Len(r) \in Nat /\ Len(s) \in Nat
  BY LenProperties
<1>5. ZAdd(s, m) = z
  BY <1>2 DEF AddsTo
<1> HIDE DEF z
<1>6. \A i \in 1 .. Len(z) : z[i] = m \/ \E j \in 1 .. Len(r) : z[i] = r[j]
  <2> TAKE i \in 1 .. Len(z)
  <2>1. CASE i < k
    <3>1. i \in 1 .. Len(r) /\ z[i] = r[i]
      BY <1>3, <1>4, <2>1
    <3> QED
      BY <3>1
  <2>2. CASE i = k
    BY <1>3, <2>2
  <2>3. CASE ~ (i < k) /\ i # k
    <3>1. i - 1 \in 1 .. Len(r) /\ z[i] = r[i - 1]
      BY <1>3, <1>4, <2>3
    <3> QED
      BY <3>1
  <2> QED
    BY <2>1, <2>2, <2>3
<1>7. \A j \in 1 .. Len(r) : \E x \in 1 .. Len(s) : r[j] = s[x]
  <2>1. CASE r = s
    BY <2>1
  <2>2. ASSUME NEW i \in 1 .. Len(s), r = RemoveAt(s, i)
        PROVE  \A j \in 1 .. Len(r) : \E x \in 1 .. Len(s) : r[j] = s[x]
    <3>1. Len(r) = Len(s) - 1 /\ \A j \in 1 .. Len(s) - 1 : r[j] = IF j < i THEN s[j] ELSE s[j + 1]
      BY <2>2, RemoveIs
    <3> TAKE j \in 1 .. Len(r)
    <3>2. j \in 1 .. Len(s) /\ j + 1 \in 1 .. Len(s) /\ r[j] \in {s[j], s[j + 1]}
      BY <1>4, <3>1
    <3> QED
      BY <3>2
  <2> QED
    BY <1>2, <2>1, <2>2 DEF AddsTo
<1> QED
  BY <1>5, <1>6, <1>7 DEF Owns

\* What an eviction leaves of a key has ids of its members.
LEMMA EvictedOwns ==
  ASSUME now \in Nat
  PROVE  /\ \A k \in Key(Member), clock \in Nat : \A id : Owns(EvictWindow(Get(k), clock), k.value, id)
         /\ \A k \in Key(DayMember), clock \in Nat : \A id : Owns(EvictDailySet(Get(k), clock), k.value, id)
<1>1. ASSUME NEW k \in Key(Member), NEW clock \in Nat, NEW id
      PROVE  Owns(EvictWindow(Get(k), clock), k.value, id)
  <2>1. Get(k) \in Seq(Member) /\ Get(k) \in {<<>>, k.value}
    BY KeyTypes
  <2>2. \A i \in 1 .. Len(EvictWindow(Get(k), clock)) :
          \E j \in 1 .. Len(Get(k)) : EvictWindow(Get(k), clock)[i] = Get(k)[j]
    BY <2>1, EvictedWindow
  <2> QED
    BY <2>1, <2>2, EmptySeq DEF Owns
<1>2. ASSUME NEW k \in Key(DayMember), NEW clock \in Nat, NEW id
      PROVE  Owns(EvictDailySet(Get(k), clock), k.value, id)
  <2>1. Get(k) \in Seq(DayMember) /\ Get(k) \in {<<>>, k.value}
    BY KeyTypes
  <2>2. \A i \in 1 .. Len(EvictDailySet(Get(k), clock)) :
          \E j \in 1 .. Len(Get(k)) : EvictDailySet(Get(k), clock)[i] = Get(k)[j]
    BY <2>1, EvictedDaily
  <2> QED
    BY <2>1, <2>2, EmptySeq DEF Owns
<1> QED
  BY <1>1, <1>2

LEMMA OwnsOwns ==
  ASSUME NEW r, NEW s, NEW v, NEW id, Owns(r, s, id), Owns(s, v, id)
  PROVE  Owns(r, v, id)
BY DEF Owns

\* No script puts a member in a key but the one of a check.
LEMMA CheckOwns ==
  ASSUME IInv, NEW c \in Command, CheckAndRecord(c)
  PROVE  Owns(window'.value, window.value, c.id) /\ Owns(daily'.value, daily.value, c.id)
<1> USE RedisAssumption
<1> DEFINE w == EvictWindow(Get(window), c.now)
<1> DEFINE d == EvictDailySet(Get(daily), c.now)
<1> DEFINE m == [timestamp |-> c.now, inputTokens |-> c.est, outputTokens |-> 0, id |-> c.id]
<1> DEFINE n == [timestamp |-> c.now, id |-> c.id]
<1>1. c.script = "check" /\ c.now \in Nat /\ c.est \in Nat /\ c.id \in Nat \X Nat
  BY DEF CheckAndRecord, Command
<1>2. now \in Nat /\ window \in Key(Member) /\ daily \in Key(DayMember)
  BY DEF IInv, Keys
<1>3. m \in Member /\ n \in DayMember /\ Timed(Member) /\ Timed(DayMember) /\ m.id = c.id /\ n.id = c.id
  BY <1>1, MembersTimed DEF Member, DayMember
<1>4. w \in Seq(Member) /\ d \in Seq(DayMember)
  <2>1. Get(window) \in Seq(Member) /\ Get(daily) \in Seq(DayMember)
    BY ReadKeys
  <2> QED
    BY <1>1, <2>1, EvictedWindow, EvictedDaily
<1>5. Owns(w, window.value, c.id) /\ Owns(d, daily.value, c.id)
  BY <1>1, <1>2, EvictedOwns
<1>6. Owns(window.value, window.value, c.id) /\ Owns(daily.value, daily.value, c.id)
  BY DEF Owns
<1>7. /\ window' \in {KeyFor(ZAdd(w, m), WINDOW_MS + BUFFER_MS), window, Put(window, w)}
      /\ daily' \in {KeyFor(ZAdd(d, n), DAY_MS + BUFFER_MS), daily, Put(daily, d)}
  BY DEF CheckAndRecord
<1> HIDE DEF w, d, m, n
<1>8. /\ KeyFor(ZAdd(w, m), WINDOW_MS + BUFFER_MS).value = ZAdd(w, m)
      /\ KeyFor(ZAdd(d, n), DAY_MS + BUFFER_MS).value = ZAdd(d, n)
  BY DEF KeyFor
<1>9. Put(window, w).value = w /\ Put(daily, d).value = d
  BY <1>2, <1>4, KeyTypes
<1>10. Owns(ZAdd(w, m), w, c.id) /\ Owns(ZAdd(d, n), d, c.id)
  <2>1. Owns(ZAdd(w, m), w, m.id)
    BY ONLY <1>3, <1>4, ZAddOwns
  <2>2. Owns(ZAdd(d, n), d, n.id)
    BY ONLY <1>3, <1>4, ZAddOwns
  <2> QED
    BY <1>3, <2>1, <2>2
<1>11. Owns(ZAdd(w, m), window.value, c.id) /\ Owns(ZAdd(d, n), daily.value, c.id)
  BY <1>5, <1>10, OwnsOwns
<1> QED
  BY <1>5, <1>6, <1>7, <1>8, <1>9, <1>11

LEMMA OtherOwns ==
  ASSUME IInv, NEW c \in Command, Reconcile(c) \/ SetBackoff(c) \/ NextSlot(c), NEW id
  PROVE  Owns(window'.value, window.value, id) /\ Owns(daily'.value, daily.value, id)
<1>1. now \in Nat /\ window \in Key(Member) /\ daily \in Key(DayMember)
  BY DEF IInv, Keys
<1>2. Owns(window.value, window.value, id) /\ Owns(daily.value, daily.value, id)
  BY DEF Owns
<1>3. CASE SetBackoff(c)
  BY <1>2, <1>3 DEF SetBackoff
<1>4. CASE NextSlot(c)
  <2> DEFINE w == EvictWindow(Get(window), c.now)
  <2> DEFINE d == EvictDailySet(Get(daily), c.now)
  <2>1. c.now \in Nat
    BY <1>4 DEF NextSlot, Command
  <2>2. w \in Seq(Member) /\ d \in Seq(DayMember)
    <3>1. Get(window) \in Seq(Member) /\ Get(daily) \in Seq(DayMember)
      BY ReadKeys
    <3> QED
      BY <2>1, <3>1, EvictedWindow, EvictedDaily
  <2>3. Owns(w, window.value, id) /\ Owns(d, daily.value, id)
    BY <1>1, <2>1, EvictedOwns
  <2>4. window' \in {window, Put(window, w)} /\ daily' \in {daily, Put(daily, d)}
    BY <1>4 DEF NextSlot
  <2> HIDE DEF w, d
  <2>5. Put(window, w).value = w /\ Put(daily, d).value = d
    BY <1>1, <2>2, KeyTypes
  <2> QED
    BY <1>2, <2>3, <2>4, <2>5
<1>5. CASE Reconcile(c)
  <2> DEFINE w == Get(window)
  <2> DEFINE actual(m) == [m EXCEPT !.inputTokens = c.input, !.outputTokens = c.output]
  <2>1. daily' = daily /\ c.input \in Nat /\ c.output \in Nat
    BY <1>5 DEF Reconcile, Command
  <2>2. w \in Seq(Member) /\ w \in {<<>>, window.value} /\ Len(w) \in Nat /\ DOMAIN w = 1 .. Len(w)
    BY <1>1, KeyTypes, LenProperties
  <2>3. CASE window' = window
    BY <1>2, <2>1, <2>3
  <2>4. CASE window' # window
    <3>1. PICK i \in DOMAIN w :
            window' = [Put(window, RemoveAt(w, i)) EXCEPT !.value = ZAdd(@, actual(w[i]))]
      BY <1>5, <2>4 DEF Reconcile
    <3> DEFINE r == RemoveAt(w, i)
    <3> DEFINE a == actual(w[i])
    <3> DEFINE z == ZAdd(r, a)
    <3> HIDE DEF w
    <3>2. i \in 1 .. Len(w) /\ w[i] \in Member
      BY <2>2, ElementOfSeq
    <3>3. r \in Seq(Member) /\ Len(r) = Len(w) - 1
          /\ \A j \in 1 .. Len(w) - 1 : r[j] = IF j < i THEN w[j] ELSE w[j + 1]
      BY <2>2, <3>2, RemoveIs
    <3>4. a \in Member /\ a.id = w[i].id
      BY <2>1, <3>2 DEF Member
    <3>5. Put(window, r) \in Key(Member) /\ Put(window, r).value = r
      <4> HIDE DEF r
      <4> QED
        BY <1>1, <3>3, KeyTypes
    <3>6. window' = [Put(window, r) EXCEPT !.value = z]
      BY <3>1, <3>5
    <3> HIDE DEF r, a
    <3>7. Owns(z, r, w[i].id)
      BY <3>3, <3>4, ZAddOwns, MembersTimed
    <3> HIDE DEF z
    <3>8. window'.value = z
      BY <3>5, <3>6 DEF Key
    <3>9. \A j \in 1 .. Len(r) : j \in 1 .. Len(w) /\ j + 1 \in 1 .. Len(w) /\ r[j] \in {w[j], w[j + 1]}
      BY <2>2, <3>3
    <3>10. \A j \in 1 .. Len(r) : \E x \in 1 .. Len(w) : r[j] = w[x]
      BY <3>9
    <3>11. w = window.value
      BY <2>2, <3>2, EmptySeq
    <3>12. Owns(z, window.value, id)
      BY <3>2, <3>7, <3>10, <3>11 DEF Owns
    <3> QED
      BY <1>2, <2>1, <3>8, <3>12
  <2> QED
    BY <2>3, <2>4
<1> QED
  BY <1>3, <1>4, <1>5

LEMMA NumbersType ==
  ASSUME IInv, NEW i \in Instance
  PROVE  /\ counter[i] \in Nat /\ Len(sent[i]) \in Nat
         /\ \A n \in 1 .. Len(sent[i]) : IsCheck(sent[i][n]) => Number(sent[i][n]) \in Nat
         /\ Len(window.value) \in Nat /\ Len(daily.value) \in Nat
         /\ \A j \in 1 .. Len(window.value) : window.value[j].id[2] \in Nat
         /\ \A j \in 1 .. Len(daily.value) : daily.value[j].id[2] \in Nat
<1>1. /\ counter[i] \in Nat /\ sent[i] \in Seq(Command)
      /\ window.value \in Seq(Member) /\ daily.value \in Seq(DayMember)
  BY DEF IInv, Commands, Keys, Key
<1>2. \A n \in 1 .. Len(sent[i]) : sent[i][n] \in Command
  BY <1>1, ElementOfSeq
<1>3. \A c \in Command : IsCheck(c) => Number(c) \in Nat
  BY DEF Command, IsCheck, Number
<1>4. \A j \in 1 .. Len(window.value) : window.value[j] \in Member
  BY <1>1, ElementOfSeq
<1>5. \A j \in 1 .. Len(daily.value) : daily.value[j] \in DayMember
  BY <1>1, ElementOfSeq
<1>6. (\A m \in Member : m.id[2] \in Nat) /\ (\A m \in DayMember : m.id[2] \in Nat)
  BY DEF Member, DayMember
<1> QED
  BY <1>1, <1>2, <1>3, <1>4, <1>5, <1>6, LenProperties

\* A command is put last, and numbered last if it is a check.
LEMMA SendInTurn ==
  ASSUME IInv, Turns, NEW i \in Instance, \A j \in Instance : j = i,
         NEW c \in Command, Send(i, c), UNCHANGED <<now, redis, log>>,
         IsCheck(c) => Number(c) = counter[i] + 1 /\ counter'[i] = counter[i] + 1,
         ~IsCheck(c) => counter' = counter
  PROVE  Turns'
<1>1. /\ counter[i] \in Nat /\ Len(sent[i]) \in Nat /\ sent[i] \in Seq(Command)
      /\ \A n \in 1 .. Len(sent[i]) : IsCheck(sent[i][n]) => Number(sent[i][n]) \in Nat
  BY NumbersType DEF IInv, Commands
<1>2. sent'[i] = Append(sent[i], c)
  BY DEF Send, IInv, Commands
<1>3. /\ Len(sent'[i]) = Len(sent[i]) + 1
      /\ \A n \in 1 .. Len(sent[i]) : sent'[i][n] = sent[i][n]
      /\ sent'[i][Len(sent[i]) + 1] = c
  BY <1>1, <1>2, AppendProperties
<1>4. counter'[i] \in Nat /\ counter'[i] >= counter[i]
      /\ (IsCheck(c) => Number(c) = counter'[i] /\ counter[i] < counter'[i])
  BY <1>1
<1>5. \A n \in 1 .. Len(sent'[i]) : n \in 1 .. Len(sent[i]) \/ n = Len(sent[i]) + 1
  BY <1>1, <1>3
<1>6. InTurn(i)'
  <2>1. ASSUME NEW n \in 1 .. Len(sent'[i]), IsCheck(sent'[i][n])
        PROVE  Number(sent'[i][n]) <= counter'[i]
    BY <1>1, <1>3, <1>4, <1>5, <2>1 DEF Turns, InTurn
  <2>2. ASSUME NEW m \in 1 .. Len(sent'[i]), NEW n \in 1 .. Len(sent'[i]), m < n,
               IsCheck(sent'[i][m]), IsCheck(sent'[i][n])
        PROVE  Number(sent'[i][m]) < Number(sent'[i][n])
    <3>1. m \in 1 .. Len(sent[i]) /\ sent'[i][m] = sent[i][m]
      BY <1>1, <1>3, <2>2
    <3>2. CASE n \in 1 .. Len(sent[i])
      BY <1>3, <2>2, <3>1, <3>2 DEF Turns, InTurn
    <3>3. CASE n = Len(sent[i]) + 1
      <4>1. Number(sent[i][m]) <= counter[i] /\ Number(sent[i][m]) \in Nat
        BY <1>1, <2>2, <3>1 DEF Turns, InTurn
      <4>2. Number(sent'[i][n]) = counter'[i] /\ counter[i] < counter'[i]
        BY <1>3, <1>4, <2>2, <3>3
      <4> QED
        BY <1>1, <1>4, <3>1, <4>1, <4>2
    <3> QED
      BY <1>5, <3>2, <3>3
  <2> QED
    BY <2>1, <2>2 DEF InTurn, IsCheck, Number
<1>7. window' = window /\ daily' = daily
  BY DEF redis
<1>8. ASSUME NEW s, \A j \in 1 .. Len(s) : s[j].id[2] \in Nat, Numbered(i, s)
      PROVE  \A j \in 1 .. Len(s) :
               /\ s[j].id[2] <= counter'[i]
               /\ \A n \in 1 .. Len(sent'[i]) :
                    IsCheck(sent'[i][n]) => s[j].id[2] < Number(sent'[i][n])
  <2> TAKE j \in 1 .. Len(s)
  <2>1. s[j].id[2] <= counter[i] /\ s[j].id[2] \in Nat
    BY <1>8 DEF Numbered
  <2>2. s[j].id[2] <= counter'[i]
    BY <1>1, <1>4, <2>1
  <2>3. ASSUME NEW n \in 1 .. Len(sent'[i]), IsCheck(sent'[i][n]) PROVE s[j].id[2] < Number(sent'[i][n])
    <3>1. CASE n \in 1 .. Len(sent[i])
      BY <1>3, <1>8, <2>3, <3>1 DEF Numbered
    <3>2. CASE n = Len(sent[i]) + 1
      BY <1>1, <1>3, <1>4, <2>1, <2>3, <3>2
    <3> QED
      BY <1>5, <3>1, <3>2
  <2> QED
    BY <2>2, <2>3
<1>9. Numbered(i, window.value)' /\ Numbered(i, daily.value)'
  <2>1. Numbered(i, window.value) /\ Numbered(i, daily.value)
    BY DEF Turns
  <2>2. /\ \A j \in 1 .. Len(window.value) : window.value[j].id[2] \in Nat
        /\ \A j \in 1 .. Len(daily.value) : daily.value[j].id[2] \in Nat
    BY NumbersType
  <2> QED
    BY <1>7, <1>8, <2>1, <2>2 DEF Numbered, IsCheck, Number
<1> QED
  BY <1>6, <1>9 DEF Turns

\* A queue that loses its oldest command, or all, stays in turn; a check that leaves it
\* was numbered before those that stay.
LEMMA LeaveInTurn ==
  ASSUME IInv, Turns, NEW i \in Instance, \A j \in Instance : j = i, counter' = counter,
         sent[i] # <<>>, NEW q \in {Tail(sent[i]), <<>>}, sent' = [sent EXCEPT ![i] = q],
         NEW x, x = sent[i][1],
         \/ window' = window /\ daily' = daily
         \/ /\ IsCheck(x)
            /\ Owns(window'.value, window.value, x.id) /\ Owns(daily'.value, daily.value, x.id)
         \/ \A id : Owns(window'.value, window.value, id) /\ Owns(daily'.value, daily.value, id)
  PROVE  Turns'
<1>1. /\ Len(sent[i]) \in Nat \ {0} /\ Len(Tail(sent[i])) = Len(sent[i]) - 1
      /\ \A n \in 1 .. Len(Tail(sent[i])) : Tail(sent[i])[n] = sent[i][n + 1]
      /\ counter[i] \in Nat
      /\ \A n \in 1 .. Len(sent[i]) : IsCheck(sent[i][n]) => Number(sent[i][n]) \in Nat
  BY HeadIs, NumbersType
<1>2. sent'[i] = q
  BY DEF IInv, Commands
<1>3. \A n \in 1 .. Len(q) : n + 1 \in 1 .. Len(sent[i]) /\ q[n] = sent[i][n + 1]
  <2>1. CASE q = <<>>
    BY <2>1, EmptySeq
  <2>2. CASE q = Tail(sent[i])
    BY <1>1, <2>2
  <2> QED
    BY <2>1, <2>2
<1>4. Len(q) \in Nat
  <2>1. CASE q = <<>>
    BY <2>1, EmptySeq
  <2>2. CASE q = Tail(sent[i])
    BY <1>1, <2>2
  <2> QED
    BY <2>1, <2>2
<1>5. InTurn(i)'
  <2>1. InTurn(i)
    BY DEF Turns
  <2>2. ASSUME NEW n \in 1 .. Len(q), IsCheck(q[n]) PROVE Number(q[n]) <= counter[i]
    BY <1>3, <2>1, <2>2 DEF InTurn
  <2>3. ASSUME NEW m \in 1 .. Len(q), NEW n \in 1 .. Len(q), m < n, IsCheck(q[m]), IsCheck(q[n])
        PROVE  Number(q[m]) < Number(q[n])
    <3>1. m + 1 \in 1 .. Len(sent[i]) /\ n + 1 \in 1 .. Len(sent[i]) /\ m + 1 < n + 1
          /\ q[m] = sent[i][m + 1] /\ q[n] = sent[i][n + 1]
      BY <1>3, <1>4, <2>3
    <3> QED
      BY <2>1, <2>3, <3>1 DEF InTurn
  <2> QED
    BY <1>2, <2>2, <2>3 DEF InTurn, IsCheck, Number
<1>6. ASSUME IsCheck(x) PROVE /\ Number(x) <= counter[i]
                              /\ \A n \in 1 .. Len(q) : IsCheck(q[n]) => Number(x) < Number(q[n])
  <2>1. InTurn(i) /\ 1 \in 1 .. Len(sent[i])
    BY <1>1 DEF Turns
  <2>2. ASSUME NEW n \in 1 .. Len(q), IsCheck(q[n]) PROVE Number(x) < Number(q[n])
    <3>1. n + 1 \in 1 .. Len(sent[i]) /\ 1 < n + 1 /\ q[n] = sent[i][n + 1]
      BY <1>3, <1>4
    <3> QED
      BY <1>6, <2>1, <2>2, <3>1 DEF InTurn
  <2> QED
    BY <1>6, <2>1, <2>2 DEF InTurn
<1> DEFINE Before(k) == k <= counter[i] /\ \A n \in 1 .. Len(q) : IsCheck(q[n]) => k < Number(q[n])
<1>7. ASSUME NEW s, Numbered(i, s) PROVE \A j \in 1 .. Len(s) : Before(s[j].id[2])
  BY <1>3, <1>7 DEF Numbered
<1>8. ASSUME NEW s, NEW r, Numbered(i, s),
             r = s \/ (IsCheck(x) /\ Owns(r, s, x.id)) \/ \A id : Owns(r, s, id)
      PROVE  \A j \in 1 .. Len(r) : Before(r[j].id[2])
  <2>1. \A j \in 1 .. Len(s) : Before(s[j].id[2])
    BY <1>7, <1>8
  <2>2. IsCheck(x) => Before(x.id[2])
    BY <1>6 DEF Number
  <2> HIDE DEF Before
  <2>3. CASE r = s
    BY <2>1, <2>3
  <2>4. CASE IsCheck(x) /\ Owns(r, s, x.id)
    BY <2>1, <2>2, <2>4 DEF Owns
  <2>5. CASE \A id : Owns(r, s, id)
    <3> TAKE j \in 1 .. Len(r)
    <3>1. PICK id : id # r[j].id
      <4>1. 0 # r[j].id \/ 1 # r[j].id
        OBVIOUS
      <4> QED
        BY <4>1
    <3>2. \E k \in 1 .. Len(s) : r[j].id = s[k].id
      BY <2>5, <3>1 DEF Owns
    <3> QED
      BY <2>1, <3>2
  <2> QED
    BY <1>8, <2>3, <2>4, <2>5
<1>9. Numbered(i, window.value) /\ Numbered(i, daily.value)
  BY DEF Turns
<1>10. /\ \A j \in 1 .. Len(window'.value) : Before(window'.value[j].id[2])
       /\ \A j \in 1 .. Len(daily'.value) : Before(daily'.value[j].id[2])
  <2> HIDE DEF Before
  <2> QED
    BY <1>8, <1>9
<1>11. Numbered(i, window.value)' /\ Numbered(i, daily.value)'
  BY <1>2, <1>10 DEF Numbered, IsCheck, Number
<1> QED
  BY <1>5, <1>11 DEF Turns

LEMMA NextTurns ==
  ASSUME IInv, Turns, [Next]_vars, \A i, j \in Instance : i = j
  PROVE  Turns'
<1>1. ASSUME NEW i \in Instance, Execute(i) PROVE Turns'
  <2> DEFINE c == Head(sent[i])
  <2>1. /\ sent[i] # <<>> /\ counter' = counter /\ sent' = [sent EXCEPT ![i] = Tail(sent[i])]
        /\ CheckAndRecord(c) \/ Reconcile(c) \/ SetBackoff(c) \/ NextSlot(c)
    BY <1>1 DEF Execute
  <2>2. c \in Command /\ c = sent[i][1]
    BY <2>1, HeadIs
  <2> HIDE DEF c
  <2>3. \/ IsCheck(c) /\ Owns(window'.value, window.value, c.id) /\ Owns(daily'.value, daily.value, c.id)
        \/ \A id : Owns(window'.value, window.value, id) /\ Owns(daily'.value, daily.value, id)
    <3>1. CASE CheckAndRecord(c)
      BY <2>2, <3>1, CheckOwns DEF CheckAndRecord, IsCheck
    <3>2. CASE Reconcile(c) \/ SetBackoff(c) \/ NextSlot(c)
      BY <2>2, <3>2, OtherOwns
    <3> QED
      BY <2>1, <3>1, <3>2
  <2> QED
    BY <2>1, <2>2, <2>3, LeaveInTurn
<1>2. ASSUME NEW i \in Instance, Disconnect(i) PROVE Turns'
  <2>1. /\ sent[i] # <<>> /\ counter' = counter /\ sent' = [sent EXCEPT ![i] = <<>>]
        /\ window' = window /\ daily' = daily
    BY <1>2 DEF Disconnect, redis
  <2> QED
    BY <2>1, LeaveInTurn
<1>3. ASSUME NEW i \in Instance, NEW est \in Estimate, SendCheckAndRecord(i, est) PROVE Turns'
  <2> DEFINE c == [script |-> "check", at |-> now, now |-> Clock(i), est |-> est, id |-> MemberId(i)]
  <2>1. c \in Command /\ IsCheck(c) /\ Number(c) = counter[i] + 1
    <3>1. now \in Nat /\ counter[i] \in Nat /\ Clock(i) \in Nat /\ est \in Nat
      BY ClockType, RedisAssumption DEF IInv
    <3> QED
      BY <3>1 DEF Command, MemberId, IsCheck, Number
  <2>2. Send(i, c) /\ counter'[i] = counter[i] + 1 /\ UNCHANGED <<now, redis, log>>
    BY <1>3 DEF SendCheckAndRecord, IInv
  <2> HIDE DEF c
  <2> QED
    BY <2>1, <2>2, SendInTurn
<1>4. ASSUME NEW i \in Instance, NEW c \in Command, ~IsCheck(c), Send(i, c), counter' = counter,
             UNCHANGED <<now, redis, log>>
      PROVE  Turns'
  BY <1>4, SendInTurn
<1>5. ASSUME NEW i \in Instance, NEW input \in Usage, NEW output \in Usage, SendReconcile(i, input, output)
      PROVE  Turns'
  <2> DEFINE c == [script |-> "reconcile", at |-> now, input |-> input, output |-> output]
  <2>1. c \in Command /\ ~IsCheck(c)
    BY RedisAssumption DEF IInv, Command, IsCheck
  <2>2. Send(i, c) /\ counter' = counter /\ UNCHANGED <<now, redis, log>>
    BY <1>5 DEF SendReconcile
  <2> HIDE DEF c
  <2> QED
    BY <1>4, <2>1, <2>2
<1>6. ASSUME NEW i \in Instance, NEW delay \in Delay, SendSetBackoff(i, delay) PROVE Turns'
  <2> DEFINE ttl == BackoffTtl(Clock(i) + delay, Clock(i))
  <2> DEFINE c == [script |-> "set", at |-> now, until |-> Clock(i) + delay, ttl |-> ttl]
  <2>1. now \in Nat /\ Clock(i) \in Nat /\ delay \in Nat
    BY ClockType, RedisAssumption DEF IInv
  <2>2. ttl \in Nat
    BY <2>1, BackoffTtlIs
  <2>3. Send(i, c) /\ counter' = counter /\ UNCHANGED <<now, redis, log>>
    BY <1>6 DEF SendSetBackoff
  <2> HIDE DEF ttl
  <2>4. c \in Command /\ ~IsCheck(c)
    BY <2>1, <2>2 DEF Command, IsCheck
  <2> HIDE DEF c
  <2> QED
    BY <1>4, <2>3, <2>4
<1>7. ASSUME NEW i \in Instance, SendNextSlot(i) PROVE Turns'
  <2> DEFINE c == [script |-> "next", at |-> now, now |-> Clock(i)]
  <2>1. c \in Command /\ ~IsCheck(c)
    BY ClockType DEF IInv, Command, IsCheck
  <2>2. Send(i, c) /\ counter' = counter /\ UNCHANGED <<now, redis, log>>
    BY <1>7 DEF SendNextSlot
  <2> HIDE DEF c
  <2> QED
    BY <1>4, <2>1, <2>2
<1>8. CASE Tick \/ UNCHANGED vars
  BY <1>8 DEF Tick, vars, redis, Turns, InTurn, Numbered, IsCheck, Number
<1> QED
  BY <1>1, <1>2, <1>3, <1>5, <1>6, <1>7, <1>8 DEF Next, Call

LEMMA TurnsNoTwins == IInv /\ Turns => NoTwins
<1> SUFFICES ASSUME IInv, Turns, NEW i \in Instance, NEW n \in 1 .. Len(sent[i]), IsCheck(sent[i][n])
             PROVE  Fresh(sent[i][n].id, Get(window)) /\ Fresh(sent[i][n].id, Get(daily))
  BY DEF NoTwins, IsCheck
<1> DEFINE id == sent[i][n].id
<1>1. id[2] \in Nat
  BY NumbersType DEF Number
<1>2. \A j \in 1 .. Len(window.value) : window.value[j].id[2] < id[2] /\ window.value[j].id[2] \in Nat
  BY NumbersType DEF Turns, Numbered, Number
<1>3. \A j \in 1 .. Len(daily.value) : daily.value[j].id[2] < id[2] /\ daily.value[j].id[2] \in Nat
  BY NumbersType DEF Turns, Numbered, Number
<1>4. Get(window) \in {<<>>, window.value} /\ Get(daily) \in {<<>>, daily.value}
  BY KeyTypes DEF IInv, Keys
<1> HIDE DEF id
<1>5. Fresh(id, <<>>)
  BY EmptySeq DEF Fresh
<1>6. Fresh(id, window.value) /\ Fresh(id, daily.value)
  BY <1>1, <1>2, <1>3 DEF Fresh
<1> QED
  BY <1>4, <1>5, <1>6 DEF id

\* A process alone never draws an id twice, so that it keeps the promise whatever becomes
\* of its commands.
THEOREM LoneProcessKeepsPromise ==
  ASSUME \A i, j \in Instance : i = j
  PROVE  Spec => KeepsPromise
<1>1. Init => Turns
  BY EmptySeq DEF Init, NoKey, Turns, InTurn, Numbered
<1>2. IInv /\ Turns /\ [Next]_vars => Turns'
  BY NextTurns
<1>3. Spec => []NoTwins
  BY <1>1, <1>2, RedisInvariant, TurnsNoTwins, PTL DEF Spec
<1> QED
  BY <1>3, RedisKeepsPromise, PTL
=============================================================================

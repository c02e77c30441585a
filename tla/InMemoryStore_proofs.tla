------------------------- MODULE InMemoryStore_proofs -------------------------
(***************************************************************************)
(* The sliding-window promise of InMemoryStore for every number of keys,   *)
(* every limit, every window length and every history; and, in the last    *)
(* part, what KeyStatus, which extends that store, tells about its keys.   *)
(***************************************************************************)
EXTENDS KeyStatus, SlidingWindow_proofs

(***************************************************************************)
(* The inductive invariant.  RpmBound speaks of the whole history, the     *)
(* guard of Record only of the window; Remembers ties the two together:    *)
(* the window is the end of the history, and what came before it is at     *)
(* least one window old.                                                   *)
(***************************************************************************)
Remembers(w, l, t) ==
  /\ Len(w) <= Len(l)
  /\ \A i \in 1 .. Len(w) : w[i].timestamp = l[Len(l) - Len(w) + i]
  /\ \A i \in 1 .. Len(l) - Len(w) : l[i] + WINDOW_MS <= t

IInv ==
  /\ TypeOK
  /\ \A k \in Key : Remembers(windows[k], log[k], now)
  /\ RpmBound

\* Evicting the window of the current time keeps it the end of the history.
LEMMA EvictWindowRemembers ==
  ASSUME NEW w \in Seq(Entry), NEW l \in Seq(Nat), NEW t \in Nat, Remembers(w, l, t)
  PROVE  /\ EvictWindow(w, t) \in Seq(Entry)
         /\ Len(EvictWindow(w, t)) <= Len(w)
         /\ Remembers(EvictWindow(w, t), l, t)
<1> DEFINE live == {i \in DOMAIN w : w[i].timestamp > t - WINDOW_MS}
<1> DEFINE e == SuffixFrom(w, live)
<1>1. PICK c \in 0 .. Len(w) :
        /\ e \in Seq(Entry)
        /\ Len(e) = Len(w) - c
        /\ \A i \in 1 .. Len(w) - c : e[i] = w[c + i]
        /\ \A i \in 1 .. c : i \notin live
  <2>1. live \in SUBSET DOMAIN w
    OBVIOUS
  <2> QED
    BY <2>1, SuffixFromDrops
<1>2. EvictWindow(w, t) = e
  BY DEF EvictWindow
<1>3. \A i \in 1 .. c : w[i].timestamp + WINDOW_MS <= t
  <2> TAKE i \in 1 .. c
  <2>1. i \in DOMAIN w /\ w[i] \in Entry
    BY ElementOfSeq
  <2>2. w[i].timestamp \in Nat
    BY <2>1 DEF Entry
  <2> QED
    BY <1>1, <2>1, <2>2, WindowAssumption
<1> HIDE DEF live, e
<1>4. Len(w) \in Nat /\ Len(l) \in Nat /\ Len(e) \in Nat /\ Len(w) <= Len(l)
  BY <1>1, LenProperties DEF Remembers
<1>5. \A i \in 1 .. Len(e) : e[i].timestamp = l[Len(l) - Len(e) + i]
  <2> TAKE i \in 1 .. Len(e)
  <2>1. e[i] = w[c + i] /\ c + i \in 1 .. Len(w)
    BY <1>1, <1>4
  <2>2. w[c + i].timestamp = l[Len(l) - Len(w) + (c + i)]
    BY <2>1 DEF Remembers
  <2>3. Len(l) - Len(w) + (c + i) = Len(l) - Len(e) + i
    BY <1>1, <1>4
  <2> QED
    BY <2>1, <2>2, <2>3
<1>6. \A i \in 1 .. Len(l) - Len(e) : l[i] + WINDOW_MS <= t
  <2> TAKE i \in 1 .. Len(l) - Len(e)
  <2>1. CASE i <= Len(l) - Len(w)
    BY <1>4, <2>1 DEF Remembers
  <2>2. CASE i > Len(l) - Len(w)
    <3> DEFINE j == i - (Len(l) - Len(w))
    <3>1. j \in 1 .. c /\ j \in 1 .. Len(w) /\ Len(l) - Len(w) + j = i
      <4>1. Len(e) = Len(w) - c /\ i \in Int /\ i <= Len(l) - Len(e)
        BY <1>1, <1>4
      <4> QED
        BY ONLY <4>1, <1>4, <2>2, c \in 0 .. Len(w)
    <3>2. w[j].timestamp = l[Len(l) - Len(w) + j]
      BY <3>1 DEF Remembers
    <3>3. w[j].timestamp = l[i]
      BY <3>1, <3>2
    <3>4. w[j].timestamp + WINDOW_MS <= t
      BY <1>3, <3>1
    <3> QED
      BY <3>3, <3>4
  <2> QED
    BY <1>4, <2>1, <2>2
<1>7. Remembers(e, l, t)
  BY <1>1, <1>4, <1>5, <1>6 DEF Remembers
<1>8. e \in Seq(Entry) /\ Len(e) <= Len(w)
  BY <1>1, <1>4
<1> QED
  BY <1>2, <1>7, <1>8

\* checkAndRecord answers 0 only when the evicted window is below the rpm limit.
LEMMA AdmittedBelowRpm ==
  ASSUME NEW L \in Limits, NEW w, NEW d, NEW until \in Nat, NEW cost, NEW t \in Nat,
         EvictWindow(w, t) \in Seq(Entry), CheckReply(L, w, d, until, cost, t) = 0
  PROVE  Len(EvictWindow(w, t)) < L.rpm
<1> DEFINE e == EvictWindow(w, t)
<1>1. OldestOf(e, t) \in Nat
  <2>1. CASE e = <<>>
    BY <2>1 DEF OldestOf
  <2>2. CASE e # <<>>
    <3>1. 1 \in DOMAIN e
      BY <2>2, EmptySeq, LenProperties
    <3>2. e[1] \in Entry
      BY <3>1, ElementOfSeq
    <3> QED
      BY <2>2, <3>2 DEF OldestOf, Entry
  <2> QED
    BY <2>1, <2>2
<1>2. OldestOf(e, t) + WINDOW_MS + 1 # 0
  BY <1>1, WindowAssumption
<1>3. ~ (t < until)
  BY DEF CheckReply
<1>4. ~ RpmFull(L, e)
  BY <1>2, <1>3 DEF CheckReply
<1> QED
  BY <1>4, LenProperties DEF RpmFull, Limits

(***************************************************************************)
(* The invariant holds initially and every step keeps it.                  *)
(***************************************************************************)
LEMMA InitIInv == Init => IInv
<1> SUFFICES ASSUME Init PROVE IInv
  OBVIOUS
<1> USE StoreAssumption
<1>1. TypeOK
  BY EmptySeq DEF Init, TypeOK, Limits
<1>2. \A k \in Key : Remembers(windows[k], log[k], now)
  BY EmptySeq DEF Init, Remembers
<1>3. RpmBound
  BY EmptySeq DEF Init, RpmBound
<1> QED
  BY <1>1, <1>2, <1>3 DEF IInv

\* Pruning keeps every key's window the end of its history.
LEMMA PrunedRemembers ==
  ASSUME NEW ws \in [Key -> Seq(Entry)], NEW ls \in [Key -> Seq(Nat)], NEW t \in Nat,
         \A k \in Key : Len(ws[k]) <= limits.rpm,
         \A k \in Key : Remembers(ws[k], ls[k], t),
         NEW due \in BOOLEAN, NEW ps,
         ps = IF due THEN [k \in Key |-> EvictWindow(ws[k], t)] ELSE ws
  PROVE  /\ ps \in [Key -> Seq(Entry)]
         /\ \A k \in Key : Len(ps[k]) <= limits.rpm
         /\ \A k \in Key : Remembers(ps[k], ls[k], t)
<1>1. \A k \in Key : /\ EvictWindow(ws[k], t) \in Seq(Entry)
                     /\ Len(EvictWindow(ws[k], t)) <= limits.rpm
                     /\ Remembers(EvictWindow(ws[k], t), ls[k], t)
  <2> TAKE k \in Key
  <2>1. /\ EvictWindow(ws[k], t) \in Seq(Entry)
        /\ Len(EvictWindow(ws[k], t)) <= Len(ws[k])
        /\ Remembers(EvictWindow(ws[k], t), ls[k], t)
    BY EvictWindowRemembers
  <2> QED
    BY <2>1, LenProperties, StoreAssumption DEF Limits
<1> QED
  BY <1>1

\* Appending the admission of time t to a window and to the history it ends.
LEMMA AppendRemembers ==
  ASSUME NEW w \in Seq(Entry), NEW l \in Seq(Nat), NEW t \in Nat, Remembers(w, l, t),
         NEW x \in Entry, x.timestamp = t
  PROVE  Remembers(Append(w, x), Append(l, t), t)
<1> DEFINE w2 == Append(w, x)
<1> DEFINE l2 == Append(l, t)
<1>1. /\ w2 \in Seq(Entry) /\ Len(w2) = Len(w) + 1
      /\ \A i \in 1 .. Len(w) : w2[i] = w[i]
      /\ w2[Len(w) + 1] = x
  BY AppendProperties
<1>2. /\ l2 \in Seq(Nat) /\ Len(l2) = Len(l) + 1
      /\ \A i \in 1 .. Len(l) : l2[i] = l[i]
      /\ l2[Len(l) + 1] = t
  BY AppendProperties
<1>3. Len(w) \in Nat /\ Len(l) \in Nat
  BY LenProperties
<1> HIDE DEF w2, l2
<1>4. \A i \in 1 .. Len(w2) : w2[i].timestamp = l2[Len(l2) - Len(w2) + i]
  <2> TAKE i \in 1 .. Len(w2)
  <2>1. CASE i = Len(w) + 1
    BY <1>1, <1>2, <1>3, <2>1
  <2>2. CASE i \in 1 .. Len(w)
    <3>1. w[i].timestamp = l[Len(l) - Len(w) + i] /\ Len(l) - Len(w) + i \in 1 .. Len(l)
      BY <1>3, <2>2 DEF Remembers
    <3>2. Len(l2) - Len(w2) + i = Len(l) - Len(w) + i
      BY <1>1, <1>2, <1>3, <2>2
    <3>3. w2[i] = w[i] /\ l2[Len(l) - Len(w) + i] = l[Len(l) - Len(w) + i]
      BY <1>1, <1>2, <2>2, <3>1
    <3> QED
      BY <3>1, <3>2, <3>3
  <2> QED
    BY <1>1, <1>3, <2>1, <2>2
<1>5. \A i \in 1 .. Len(l2) - Len(w2) : l2[i] + WINDOW_MS <= t
  <2> TAKE i \in 1 .. Len(l2) - Len(w2)
  <2>1. i \in 1 .. Len(l) - Len(w) /\ i \in 1 .. Len(l)
    BY <1>1, <1>2, <1>3
  <2>2. l2[i] = l[i]
    BY <1>2, <2>1
  <2> QED
    BY <2>1, <2>2 DEF Remembers
<1>6. Len(w2) <= Len(l2)
  BY <1>1, <1>2, <1>3 DEF Remembers
<1>7. Remembers(w2, l2, t)
  BY <1>4, <1>5, <1>6 DEF Remembers
<1> QED
  BY <1>7 DEF w2, l2

\* An admission that finds fewer than rpm requests in the window is at least one
\* window later than the admission rpm places before it.
LEMMA AppendKeepsSpan ==
  ASSUME NEW w \in Seq(Entry), NEW l \in Seq(Nat), NEW t \in Nat, Remembers(w, l, t),
         NEW rpm \in Nat, Len(w) < rpm,
         \A i \in DOMAIN l : i + rpm \in DOMAIN l => l[i + rpm] >= l[i] + WINDOW_MS
  PROVE  \A i \in DOMAIN Append(l, t) :
           i + rpm \in DOMAIN Append(l, t)
             => Append(l, t)[i + rpm] >= Append(l, t)[i] + WINDOW_MS
<1> DEFINE l2 == Append(l, t)
<1>1. /\ l2 \in Seq(Nat) /\ Len(l2) = Len(l) + 1
      /\ \A i \in 1 .. Len(l) : l2[i] = l[i]
      /\ l2[Len(l) + 1] = t
  BY AppendProperties
<1>2. Len(w) \in Nat /\ Len(l) \in Nat /\ DOMAIN l = 1 .. Len(l) /\ DOMAIN l2 = 1 .. Len(l2)
  BY <1>1, LenProperties
<1> HIDE DEF l2
<1>3. ASSUME NEW i \in DOMAIN l2, i + rpm \in DOMAIN l2
      PROVE  l2[i + rpm] >= l2[i] + WINDOW_MS
  <2>1. i \in 1 .. Len(l)
    BY <1>1, <1>2, <1>3
  <2>2. CASE i + rpm = Len(l) + 1
    <3>1. i \in 1 .. Len(l) - Len(w)
      BY <1>2, <2>1, <2>2
    <3>2. l[i] + WINDOW_MS <= t
      BY <3>1 DEF Remembers
    <3>3. l[i] \in Nat
      BY <2>1, ElementOfSeq
    <3> QED
      BY <1>1, <2>1, <2>2, <3>2, <3>3, WindowAssumption
  <2>3. CASE i + rpm \in 1 .. Len(l)
    BY <1>1, <1>2, <2>1, <2>3
  <2> QED
    BY <1>1, <1>2, <1>3, <2>2, <2>3
<1> QED
  BY <1>3 DEF l2

\* The arithmetic of the prune counter.
LEMMA PruneCounterType ==
  ASSUME NEW c \in 0 .. PRUNE_EVERY - 1
  PROVE  (c + 1) % PRUNE_EVERY \in 0 .. PRUNE_EVERY - 1
BY StoreAssumption

\* Recording a request keeps the invariant.
LEMMA RecordKeepsIInv ==
  ASSUME IInv, NEW k0 \in Key, NEW cost \in Estimate, Record(k0, cost)
  PROVE  IInv'
<1> USE StoreAssumption
<1> DEFINE e == EvictWindow(windows[k0], now)
<1> DEFINE x == [timestamp |-> now, inputTokens |-> cost, outputTokens |-> 0]
<1> DEFINE ws == [windows EXCEPT ![k0] = Append(e, x)]
<1> DEFINE ds == IF limits.rpd = Undefined THEN dailyWindows
                 ELSE [dailyWindows EXCEPT ![k0] = Append(EvictDaily(@, now), now)]
<1>1. TypeOK /\ Remembers(windows[k0], log[k0], now) /\ RpmBound
  BY DEF IInv
<1>2. /\ windows[k0] \in Seq(Entry) /\ log[k0] \in Seq(Nat) /\ now \in Nat
      /\ backoffs[k0] \in Nat /\ dailyWindows[k0] \in Seq(Nat) /\ x \in Entry
  BY <1>1 DEF TypeOK, Entry
<1>3. e \in Seq(Entry) /\ Remembers(e, log[k0], now)
  BY <1>1, <1>2, EvictWindowRemembers
<1>4. Len(e) < limits.rpm
  BY <1>2, <1>3, AdmittedBelowRpm DEF Record, ReplyAt
<1>5. /\ now' = now /\ asked' = asked
      /\ log' = [log EXCEPT ![k0] = Append(@, now)]
      /\ pruneCounter' = (pruneCounter + 1) % PRUNE_EVERY
      /\ Pruned(pruneCounter' = 0, ws, ds)
  BY DEF Record
<1> HIDE DEF e, x
<1>6. ws \in [Key -> Seq(Entry)] /\ \A k \in Key : Len(ws[k]) <= limits.rpm
  <2>1. Append(e, x) \in Seq(Entry) /\ Len(Append(e, x)) = Len(e) + 1
    BY <1>2, <1>3, AppendProperties
  <2>2. Len(e) + 1 <= limits.rpm
    BY <1>3, <1>4, LenProperties DEF Limits
  <2> QED
    BY <1>1, <2>1, <2>2 DEF TypeOK
<1>7. log' \in [Key -> Seq(Nat)]
  BY <1>1, <1>2, <1>5, AppendProperties DEF TypeOK
<1>8. \A k \in Key : Remembers(ws[k], log'[k], now)
  <2>1. Remembers(Append(e, x), Append(log[k0], now), now)
    BY <1>2, <1>3, AppendRemembers DEF x
  <2> QED
    BY <1>1, <1>5, <2>1 DEF TypeOK, IInv
<1>9. ds \in [Key -> Seq(Nat)]
  <2>1. Append(EvictDaily(dailyWindows[k0], now), now) \in Seq(Nat)
    BY <1>2, EvictDailyType, AppendProperties
  <2> QED
    BY <1>1, <2>1 DEF TypeOK
<1> HIDE DEF ws, ds
<1>10. /\ windows' \in [Key -> Seq(Entry)]
       /\ \A k \in Key : Len(windows'[k]) <= limits.rpm
       /\ \A k \in Key : Remembers(windows'[k], log'[k], now)
  <2>1. windows' = IF pruneCounter' = 0 THEN [k \in Key |-> EvictWindow(ws[k], now)] ELSE ws
    BY <1>5 DEF Pruned
  <2> QED
    BY <1>2, <1>6, <1>7, <1>8, <2>1, PrunedRemembers
<1>11. dailyWindows' \in [Key -> Seq(Nat)]
  BY <1>2, <1>5, <1>9, EvictDailyType DEF Pruned
<1>12. backoffs' \in [Key -> Nat]
  BY <1>1, <1>5 DEF Pruned, TypeOK
<1>13. pruneCounter' \in 0 .. PRUNE_EVERY - 1
  BY <1>1, <1>5, PruneCounterType DEF TypeOK
<1>14. RpmBound'
  <2>1. limits.rpm \in Nat
    BY DEF Limits
  <2>2. ASSUME NEW k \in Key
        PROVE  \A i \in DOMAIN log'[k] : i + limits.rpm \in DOMAIN log'[k]
                 => log'[k][i + limits.rpm] >= log'[k][i] + WINDOW_MS
    <3>1. CASE k = k0
      <4>1. log'[k] = Append(log[k0], now)
        BY <1>1, <1>5, <3>1 DEF TypeOK
      <4>2. \A i \in DOMAIN log[k0] : i + limits.rpm \in DOMAIN log[k0]
              => log[k0][i + limits.rpm] >= log[k0][i] + WINDOW_MS
        BY <1>1 DEF RpmBound
      <4> QED
        BY <1>2, <1>3, <1>4, <2>1, <4>1, <4>2, AppendKeepsSpan
    <3>2. CASE k # k0
      <4>1. log'[k] = log[k]
        BY <1>1, <1>5, <3>2 DEF TypeOK
      <4> QED
        BY <1>1, <4>1 DEF RpmBound
    <3> QED
      BY <3>1, <3>2
  <2> QED
    BY <2>2 DEF RpmBound
<1>15. TypeOK'
  BY <1>1, <1>5, <1>7, <1>10, <1>11, <1>12, <1>13 DEF TypeOK
<1> QED
  BY <1>5, <1>10, <1>14, <1>15 DEF IInv

\* A step that at most evicts one key's windows and admits nothing keeps the invariant.
LEMMA EvictionKeepsIInv ==
  ASSUME IInv, NEW k0 \in Key, UNCHANGED <<now, backoffs, pruneCounter, log, asked>>,
         NEW w, w \in {windows[k0], EvictWindow(windows[k0], now)},
         windows' = [windows EXCEPT ![k0] = w],
         NEW d, d \in {dailyWindows[k0], EvictDaily(dailyWindows[k0], now)},
         dailyWindows' = [dailyWindows EXCEPT ![k0] = d]
  PROVE  IInv'
<1> USE StoreAssumption
<1>1. TypeOK /\ RpmBound
  BY DEF IInv
<1>2. /\ windows[k0] \in Seq(Entry) /\ log[k0] \in Seq(Nat) /\ now \in Nat
      /\ Len(windows[k0]) <= limits.rpm /\ dailyWindows[k0] \in Seq(Nat)
      /\ Remembers(windows[k0], log[k0], now)
  BY <1>1 DEF TypeOK, IInv
<1>3. w \in Seq(Entry) /\ Len(w) <= Len(windows[k0]) /\ Remembers(w, log[k0], now)
  BY <1>2, EvictWindowRemembers, LenProperties
<1>4. Len(w) <= limits.rpm
  BY <1>2, <1>3, LenProperties DEF Limits
<1>5. windows' \in [Key -> Seq(Entry)] /\ \A k \in Key : Len(windows'[k]) <= limits.rpm
  BY <1>1, <1>3, <1>4 DEF TypeOK
<1>6. dailyWindows' \in [Key -> Seq(Nat)]
  BY <1>1, <1>2, EvictDailyType DEF TypeOK
<1>7. TypeOK'
  BY <1>1, <1>5, <1>6 DEF TypeOK
<1>8. \A k \in Key : Remembers(windows'[k], log'[k], now')
  BY <1>1, <1>3 DEF TypeOK, IInv
<1>9. RpmBound'
  BY <1>1 DEF RpmBound
<1> QED
  BY <1>7, <1>8, <1>9 DEF IInv

\* Reconciling rewrites token counts of one entry and no timestamp.
LEMMA ReconcileKeepsIInv ==
  ASSUME IInv, NEW k0 \in Key, NEW input \in Usage, NEW output \in Usage,
         Reconcile(k0, input, output)
  PROVE  IInv'
<1> USE StoreAssumption
<1> DEFINE w == windows[k0]
<1> DEFINE open == {i \in DOMAIN w : w[i].outputTokens = 0 /\ w[i].inputTokens > 0}
<1> DEFINE m == Max(open)
<1> DEFINE x == [timestamp |-> w[m].timestamp, inputTokens |-> input, outputTokens |-> output]
<1>1. TypeOK /\ RpmBound /\ Remembers(w, log[k0], now)
  BY DEF IInv
<1>2. w \in Seq(Entry) /\ Len(w) <= limits.rpm
  BY <1>1 DEF TypeOK
<1>3. /\ windows' = [windows EXCEPT ![k0] = ReplaceAt(@, m, x)]
      /\ UNCHANGED <<now, dailyWindows, backoffs, pruneCounter, log, asked>>
  BY DEF Reconcile
<1> DEFINE v == ReplaceAt(w, m, x)
<1>4. v = [w EXCEPT ![m] = x]
  BY DEF ReplaceAt
<1>5. v \in Seq(Entry) /\ Len(v) = Len(w)
      /\ \A i \in 1 .. Len(w) : v[i].timestamp = w[i].timestamp
  <2>1. CASE m \in DOMAIN w
    <3>1. w[m] \in Entry
      <4> HIDE DEF m, w
      <4> QED
        BY <1>2, <2>1, ElementOfSeq
    <3>2. x \in Entry
      BY <3>1 DEF Entry
    <3> HIDE DEF m, w
    <3>3. v \in Seq(Entry) /\ Len(v) = Len(w)
          /\ \A i \in 1 .. Len(w) : v[i] = IF i = m THEN x ELSE w[i]
      BY <1>2, <1>4, <2>1, <3>2, ExceptSeq, LenProperties
    <3> QED
      BY <3>3
  <2>2. CASE m \notin DOMAIN w
    <3> HIDE DEF m, w, x
    <3>1. v = w
      BY <1>2, <1>4, <2>2
    <3> QED
      BY <1>2, <3>1
  <2> QED
    BY <2>1, <2>2
<1>6. windows' = [windows EXCEPT ![k0] = v]
  BY <1>3
<1> HIDE DEF v
<1>7. Remembers(v, log[k0], now)
  BY <1>1, <1>5 DEF Remembers
<1>8. TypeOK'
  BY <1>1, <1>2, <1>3, <1>5, <1>6 DEF TypeOK
<1>9. \A k \in Key : Remembers(windows'[k], log'[k], now')
  BY <1>1, <1>3, <1>6, <1>7 DEF TypeOK, IInv
<1>10. RpmBound'
  BY <1>1, <1>3 DEF RpmBound
<1> QED
  BY <1>8, <1>9, <1>10 DEF IInv

LEMMA ResetKeepsIInv == ASSUME IInv, Reset PROVE IInv'
<1> USE StoreAssumption
<1>1. TypeOK
  BY DEF IInv
<1>2. TypeOK'
  BY <1>1, EmptySeq DEF Reset, TypeOK, Limits
<1>3. \A k \in Key : Remembers(windows'[k], log'[k], now')
  BY EmptySeq DEF Reset, Remembers
<1>4. RpmBound'
  BY EmptySeq DEF Reset, RpmBound
<1> QED
  BY <1>2, <1>3, <1>4 DEF IInv

LEMMA SetBackoffKeepsIInv ==
  ASSUME IInv, NEW k0 \in Key, NEW delay \in Delay, SetBackoff(k0, delay)
  PROVE  IInv'
<1> USE StoreAssumption
<1>1. TypeOK
  BY DEF IInv
<1>2. now + delay \in Nat
  BY <1>1 DEF TypeOK
<1>3. TypeOK'
  BY <1>1, <1>2 DEF SetBackoff, TypeOK
<1>4. \A k \in Key : Remembers(windows'[k], log'[k], now')
  BY DEF SetBackoff, IInv
<1>5. RpmBound'
  BY DEF SetBackoff, IInv, RpmBound
<1> QED
  BY <1>3, <1>4, <1>5 DEF IInv

\* Time passing only makes the forgotten part of the history older.
LEMMA TickKeepsIInv == ASSUME IInv, Tick PROVE IInv'
<1>1. TypeOK /\ now' = now + 1 /\ UNCHANGED <<storeVars, log, asked>>
  BY DEF Tick, IInv
<1>2. TypeOK'
  BY <1>1 DEF TypeOK, storeVars
<1>3. ASSUME NEW k \in Key PROVE Remembers(windows'[k], log'[k], now')
  <2>1. Remembers(windows[k], log[k], now) /\ windows' = windows /\ log' = log
    BY <1>1 DEF IInv, storeVars
  <2>2. log[k] \in Seq(Nat) /\ windows[k] \in Seq(Entry) /\ now \in Nat
    BY <1>1 DEF TypeOK
  <2>3. ASSUME NEW i \in 1 .. Len(log[k]) - Len(windows[k])
        PROVE  log[k][i] + WINDOW_MS <= now + 1
    <3>1. log[k][i] + WINDOW_MS <= now
      BY <2>1 DEF Remembers
    <3>2. log[k][i] \in Nat
      <4>1. Len(log[k]) \in Nat /\ Len(windows[k]) \in Nat
        BY <2>2, LenProperties
      <4>2. i \in 1 .. Len(log[k])
        BY <4>1
      <4> QED
        BY <2>2, <4>2, ElementOfSeq
    <3> QED
      BY <2>2, <3>1, <3>2, WindowAssumption
  <2> QED
    BY <1>1, <2>1, <2>3 DEF Remembers
<1>4. RpmBound'
  BY <1>1 DEF IInv, RpmBound, storeVars
<1> QED
  BY <1>2, <1>3, <1>4 DEF IInv

\* Each of the actions that only evict is an instance of EvictionKeepsIInv.
LEMMA EvictingActionsKeepIInv ==
  ASSUME IInv, NEW k \in Key,
         (\E cost \in Estimate : Refuse(k, cost)) \/ NextSlotMs(k) \/ Snapshot(k)
  PROVE  IInv'
<1>0. /\ windows = [windows EXCEPT ![k] = windows[k]]
      /\ dailyWindows = [dailyWindows EXCEPT ![k] = dailyWindows[k]]
  BY DEF IInv, TypeOK
<1>1. ASSUME NEW cost \in Estimate, Refuse(k, cost) PROVE IInv'
  <2> DEFINE w == IF now < backoffs[k] THEN windows[k] ELSE EvictWindow(windows[k], now)
  <2>1. PICK d \in {dailyWindows[k], EvictDaily(dailyWindows[k], now)} :
          dailyWindows' = [dailyWindows EXCEPT ![k] = d]
    BY <1>1 DEF Refuse
  <2>2. /\ windows' = [windows EXCEPT ![k] = w]
        /\ UNCHANGED <<now, backoffs, pruneCounter, log, asked>>
    BY <1>1 DEF Refuse
  <2>3. w \in {windows[k], EvictWindow(windows[k], now)}
    OBVIOUS
  <2> QED
    BY <2>1, <2>2, <2>3, EvictionKeepsIInv
<1>2. CASE NextSlotMs(k)
  <2> DEFINE d == IF limits.rpd # Undefined THEN EvictDaily(dailyWindows[k], now)
                  ELSE dailyWindows[k]
  <2> DEFINE w == EvictWindow(windows[k], now)
  <2>1. /\ windows' = [windows EXCEPT ![k] = w]
        /\ dailyWindows' = [dailyWindows EXCEPT ![k] = d]
        /\ UNCHANGED <<now, backoffs, pruneCounter, log, asked>>
    BY <1>2 DEF NextSlotMs
  <2>2. d \in {dailyWindows[k], EvictDaily(dailyWindows[k], now)}
    OBVIOUS
  <2> QED
    BY <2>1, <2>2, EvictionKeepsIInv
<1>3. CASE Snapshot(k)
  <2> DEFINE w == EvictWindow(windows[k], now)
  <2>1. /\ windows' = [windows EXCEPT ![k] = w]
        /\ UNCHANGED <<now, dailyWindows, backoffs, pruneCounter, log, asked>>
    BY <1>3 DEF Snapshot
  <2> QED
    BY <1>0, <2>1, EvictionKeepsIInv
<1> QED
  BY <1>1, <1>2, <1>3

LEMMA NextKeepsIInv == IInv /\ [Next]_vars => IInv'
<1> SUFFICES ASSUME IInv, [Next]_vars PROVE IInv'
  OBVIOUS
<1>1. ASSUME NEW k \in Key, NEW cost \in Estimate, CheckAndRecord(k, cost) PROVE IInv'
  BY <1>1, RecordKeepsIInv, EvictingActionsKeepIInv DEF CheckAndRecord
<1>2. ASSUME NEW k \in Key, NEW input \in Usage, NEW output \in Usage,
             Reconcile(k, input, output)
      PROVE  IInv'
  BY <1>2, ReconcileKeepsIInv
<1>3. ASSUME NEW k \in Key, NEW delay \in Delay, SetBackoff(k, delay) PROVE IInv'
  BY <1>3, SetBackoffKeepsIInv
<1>4. ASSUME NEW k \in Key, NextSlotMs(k) \/ Snapshot(k) PROVE IInv'
  BY <1>4, EvictingActionsKeepIInv
<1>5. CASE Reset
  BY <1>5, ResetKeepsIInv
<1>6. CASE Tick
  BY <1>6, TickKeepsIInv
<1>7. CASE UNCHANGED vars
  BY <1>7 DEF vars, storeVars, IInv, TypeOK, Remembers, RpmBound
<1> QED
  BY <1>1, <1>2, <1>3, <1>4, <1>5, <1>6, <1>7 DEF Next, StoreNext, KeyStep

\* The invariant holds in every reachable state.
LEMMA IInvInvariant == Spec => []IInv
<1>1. Init => IInv
  BY InitIInv
<1>2. IInv /\ [Next]_vars => IInv'
  BY NextKeepsIInv
<1> QED
  BY <1>1, <1>2, PTL DEF Spec

\* Every state of the store is well typed and no window outgrows its rpm limit
\* (getOrCreateWindow, evictWindow, the RPM check of checkAndRecord).
THEOREM StoreTypeCorrect == Spec => []TypeOK
<1>1. IInv => TypeOK
  BY DEF IInv
<1> QED
  BY <1>1, IInvInvariant, PTL

\* checkAndRecord never admits more than rpm requests for a key in any interval of
\* WINDOW_MS, whatever is evicted, pruned or reconciled in between.
THEOREM StoreRpmBound == Spec => []RpmBound
<1>1. IInv => RpmBound
  BY DEF IInv
<1> QED
  BY <1>1, IInvInvariant, PTL

(***************************************************************************)
(* Backoffs.  The store keeps the latest time asked for until it is over,  *)
(* and a prune forgets it only then.                                       *)
(***************************************************************************)
BackoffInv == \A k \in Key : backoffs[k] = asked[k] \/ (backoffs[k] = 0 /\ asked[k] < now)

\* A prune keeps the invariant, whatever it makes of the windows.
LEMMA PrunedKeepsBackoffs ==
  ASSUME TypeOK, BackoffInv, NEW due, NEW ws, NEW ds, Pruned(due, ws, ds),
         UNCHANGED <<now, asked>>
  PROVE  BackoffInv'
<1> SUFFICES ASSUME NEW k \in Key
             PROVE  backoffs'[k] = asked[k] \/ (backoffs'[k] = 0 /\ asked[k] < now)
  BY DEF BackoffInv
<1>1. backoffs'[k] = backoffs[k] \/ (backoffs'[k] = 0 /\ backoffs[k] < now)
  BY DEF Pruned, StaleBackoff
<1>2. backoffs[k] = asked[k] \/ (backoffs[k] = 0 /\ asked[k] < now)
  BY DEF BackoffInv
<1>3. backoffs[k] \in Nat /\ asked[k] \in Nat /\ now \in Nat
  BY DEF TypeOK
<1> QED
  BY <1>1, <1>2, <1>3

LEMMA SetBackoffKeepsBackoffs ==
  ASSUME TypeOK, BackoffInv, NEW k0 \in Key, NEW delay \in Delay, SetBackoff(k0, delay)
  PROVE  BackoffInv'
<1> SUFFICES ASSUME NEW k \in Key
             PROVE  backoffs'[k] = asked'[k] \/ (backoffs'[k] = 0 /\ asked'[k] < now)
  BY DEF BackoffInv, SetBackoff
<1>1. /\ backoffs[k] \in Nat /\ asked[k] \in Nat /\ now \in Nat /\ now + delay \in Nat
      /\ now + delay >= now
  BY StoreAssumption DEF TypeOK
<1>2. backoffs[k] = asked[k] \/ (backoffs[k] = 0 /\ asked[k] < now)
  BY DEF BackoffInv
<1>3. CASE k # k0
  BY <1>2, <1>3 DEF SetBackoff, TypeOK
<1>4. CASE k = k0
  <2>1. /\ backoffs'[k] = IF now + delay > backoffs[k] THEN now + delay ELSE backoffs[k]
        /\ asked'[k] = IF now + delay > asked[k] THEN now + delay ELSE asked[k]
    BY <1>4 DEF SetBackoff, TypeOK
  <2> QED
    BY <1>1, <1>2, <2>1
<1> QED
  BY <1>3, <1>4

LEMMA NextKeepsBackoffs == IInv /\ BackoffInv /\ [Next]_vars => BackoffInv'
<1> SUFFICES ASSUME TypeOK, BackoffInv, [Next]_vars PROVE BackoffInv'
  BY DEF IInv
<1>1. ASSUME NEW k \in Key, NEW cost \in Estimate, Record(k, cost) PROVE BackoffInv'
  BY <1>1, PrunedKeepsBackoffs DEF Record
<1>2. ASSUME NEW k \in Key, NEW delay \in Delay, SetBackoff(k, delay) PROVE BackoffInv'
  BY <1>2, SetBackoffKeepsBackoffs
<1>3. CASE Reset
  BY <1>3 DEF Reset, BackoffInv
<1>4. CASE Tick
  <2>1. now' = now + 1 /\ UNCHANGED <<backoffs, asked>>
    BY <1>4 DEF Tick, storeVars
  <2> QED
    BY <2>1 DEF BackoffInv, TypeOK
<1>5. ASSUME UNCHANGED <<now, backoffs, asked>> PROVE BackoffInv'
  BY <1>5 DEF BackoffInv
<1>6. ASSUME NEW k \in Key, NEW cost \in Estimate, Refuse(k, cost) PROVE BackoffInv'
  BY <1>5, <1>6 DEF Refuse
<1>7. ASSUME NEW k \in Key, NEW input \in Usage, NEW output \in Usage,
             Reconcile(k, input, output)
      PROVE  BackoffInv'
  BY <1>5, <1>7 DEF Reconcile
<1>8. ASSUME NEW k \in Key, NextSlotMs(k) \/ Snapshot(k) PROVE BackoffInv'
  BY <1>5, <1>8 DEF NextSlotMs, Snapshot
<1>9. CASE UNCHANGED vars
  BY <1>5, <1>9 DEF vars, storeVars
<1> QED
  BY <1>1, <1>2, <1>3, <1>4, <1>6, <1>7, <1>8, <1>9 DEF Next, StoreNext, KeyStep, CheckAndRecord

\* A request is admitted only when the backoff the store holds is over.
LEMMA RecordedWhenOver ==
  ASSUME TypeOK, Next, NEW k \in Key, Recorded(k)
  PROVE  now >= backoffs[k]
<1>1. Len(log[k]) \in Nat /\ Len(log'[k]) > Len(log[k])
  BY LenProperties DEF TypeOK, Recorded
<1>2. ~Reset
  <2> SUFFICES ASSUME Reset PROVE FALSE
    OBVIOUS
  <2>1. log'[k] = <<>>
    BY DEF Reset
  <2> QED
    BY <1>1, <2>1, EmptySeq
<1>3. log' # log
  BY <1>1
<1>4. PICK k1 \in Key, cost \in Estimate : Record(k1, cost)
  BY <1>2, <1>3 DEF Next, StoreNext, KeyStep, CheckAndRecord, Refuse, Reconcile, SetBackoff,
         NextSlotMs, Snapshot, Tick
<1>5. k1 = k
  BY <1>1, <1>4 DEF Record, TypeOK
<1>6. backoffs[k] \in Nat /\ now \in Nat
  BY DEF TypeOK
<1>7. CheckReply(limits, windows[k], dailyWindows[k], backoffs[k], cost, now) = 0
  BY <1>4, <1>5 DEF Record, ReplyAt
<1> QED
  BY <1>6, <1>7 DEF CheckReply

\* setBackoff and checkAndRecord: nothing is admitted before the latest time any answer of
\* the provider asked for, through shorter backoffs and prunes, for any keys and delays.
THEOREM StoreBackoffHonoured == Spec => BackoffHonoured
<1>1. Init => BackoffInv
  BY DEF Init, BackoffInv
<1>2. Spec => []BackoffInv
  BY <1>1, NextKeepsBackoffs, IInvInvariant, PTL DEF Spec
<1>3. IInv /\ BackoffInv /\ [Next]_vars => [\A k \in Key : Recorded(k) => now >= asked[k]]_vars
  <2> SUFFICES ASSUME TypeOK, BackoffInv, Next, NEW k \in Key, Recorded(k)
               PROVE  now >= asked[k]
    BY DEF IInv, vars
  <2>1. now >= backoffs[k]
    BY RecordedWhenOver
  <2>2. backoffs[k] = asked[k] \/ asked[k] < now
    BY DEF BackoffInv
  <2>3. now \in Nat /\ asked[k] \in Nat
    BY DEF TypeOK
  <2> QED
    BY <2>1, <2>2, <2>3
<1> QED
  BY <1>2, <1>3, IInvInvariant, PTL DEF Spec, BackoffHonoured

(***************************************************************************)
(* The refinement of StorePromise: the minute and the daily limit hold     *)
(* over the whole history.  The daily list is kept, evicted and pruned by  *)
(* other code than the minute window, and has an invariant of its own: it  *)
(* is the end of the history, and what came before it is at least a day    *)
(* old.                                                                    *)
(***************************************************************************)
RemembersDay(d, l, t) ==
  /\ Len(d) <= Len(l)
  /\ \A i \in 1 .. Len(d) : d[i] = l[Len(l) - Len(d) + i]
  /\ \A i \in 1 .. Len(l) - Len(d) : l[i] + DAY_MS <= t

\* Of any n + 1 consecutive times the last comes a day after the first.
DaySpan(l, n) ==
  \A i \in DOMAIN l : i + n \in DOMAIN l => l[i + n] >= l[i] + DAY_MS

DailyOf(ds, ls, t) == \A k \in Key : RemembersDay(ds[k], ls[k], t)

DayInv ==
  limits.rpd # Undefined =>
    /\ DailyOf(dailyWindows, log, now)
    /\ \A k \in Key : DaySpan(log[k], limits.rpd)

\* Evicting the daily list of the current time keeps it the end of the history.
LEMMA EvictDailyRemembers ==
  ASSUME NEW d \in Seq(Nat), NEW l \in Seq(Nat), NEW t \in Nat, RemembersDay(d, l, t)
  PROVE  EvictDaily(d, t) \in Seq(Nat) /\ RemembersDay(EvictDaily(d, t), l, t)
<1> DEFINE live == {i \in DOMAIN d : d[i] > t - DAY_MS}
<1> DEFINE e == SuffixFrom(d, live)
<1>1. PICK c \in 0 .. Len(d) :
        /\ e \in Seq(Nat)
        /\ Len(e) = Len(d) - c
        /\ \A i \in 1 .. Len(d) - c : e[i] = d[c + i]
        /\ \A i \in 1 .. c : i \notin live
  <2>1. live \in SUBSET DOMAIN d
    OBVIOUS
  <2> QED
    BY <2>1, SuffixFromDrops
<1>2. EvictDaily(d, t) = e
  BY DEF EvictDaily
<1>3. \A i \in 1 .. c : d[i] + DAY_MS <= t
  <2> TAKE i \in 1 .. c
  <2>1. i \in DOMAIN d /\ d[i] \in Nat
    BY ElementOfSeq
  <2> QED
    BY <1>1, <2>1, WindowAssumption
<1> HIDE DEF live, e
<1>4. Len(d) \in Nat /\ Len(l) \in Nat /\ Len(e) \in Nat /\ Len(d) <= Len(l)
  BY <1>1, LenProperties DEF RemembersDay
<1>5. \A i \in 1 .. Len(e) : e[i] = l[Len(l) - Len(e) + i]
  <2> TAKE i \in 1 .. Len(e)
  <2>1. e[i] = d[c + i] /\ c + i \in 1 .. Len(d)
    BY <1>1, <1>4
  <2>2. d[c + i] = l[Len(l) - Len(d) + (c + i)]
    BY <2>1 DEF RemembersDay
  <2>3. Len(l) - Len(d) + (c + i) = Len(l) - Len(e) + i
    BY <1>1, <1>4
  <2> QED
    BY <2>1, <2>2, <2>3
<1>6. \A i \in 1 .. Len(l) - Len(e) : l[i] + DAY_MS <= t
  <2> TAKE i \in 1 .. Len(l) - Len(e)
  <2>1. CASE i <= Len(l) - Len(d)
    BY <1>4, <2>1 DEF RemembersDay
  <2>2. CASE i > Len(l) - Len(d)
    <3> DEFINE j == i - (Len(l) - Len(d))
    <3>1. j \in 1 .. c /\ j \in 1 .. Len(d) /\ Len(l) - Len(d) + j = i
      <4>1. Len(e) = Len(d) - c /\ i \in Int /\ i <= Len(l) - Len(e)
        BY <1>1, <1>4
      <4> QED
        BY ONLY <4>1, <1>4, <2>2, c \in 0 .. Len(d)
    <3>2. d[j] = l[Len(l) - Len(d) + j]
      BY <3>1 DEF RemembersDay
    <3>3. d[j] = l[i]
      BY <3>1, <3>2
    <3>4. d[j] + DAY_MS <= t
      BY <1>3, <3>1
    <3> QED
      BY <3>3, <3>4
  <2> QED
    BY <1>4, <2>1, <2>2
<1>7. RemembersDay(e, l, t)
  BY <1>1, <1>4, <1>5, <1>6 DEF RemembersDay
<1> QED
  BY <1>1, <1>2, <1>7

\* Appending an admission to the daily list and to the history it ends.
LEMMA AppendRemembersDay ==
  ASSUME NEW d \in Seq(Nat), NEW l \in Seq(Nat), NEW t \in Nat, RemembersDay(d, l, t)
  PROVE  RemembersDay(Append(d, t), Append(l, t), t)
<1> DEFINE d2 == Append(d, t)
<1> DEFINE l2 == Append(l, t)
<1>1. /\ d2 \in Seq(Nat) /\ Len(d2) = Len(d) + 1
      /\ \A i \in 1 .. Len(d) : d2[i] = d[i]
      /\ d2[Len(d) + 1] = t
  BY AppendProperties
<1>2. /\ l2 \in Seq(Nat) /\ Len(l2) = Len(l) + 1
      /\ \A i \in 1 .. Len(l) : l2[i] = l[i]
      /\ l2[Len(l) + 1] = t
  BY AppendProperties
<1>3. Len(d) \in Nat /\ Len(l) \in Nat
  BY LenProperties
<1> HIDE DEF d2, l2
<1>4. \A i \in 1 .. Len(d2) : d2[i] = l2[Len(l2) - Len(d2) + i]
  <2> TAKE i \in 1 .. Len(d2)
  <2>1. CASE i = Len(d) + 1
    BY <1>1, <1>2, <1>3, <2>1
  <2>2. CASE i \in 1 .. Len(d)
    <3>1. d[i] = l[Len(l) - Len(d) + i] /\ Len(l) - Len(d) + i \in 1 .. Len(l)
      BY <1>3, <2>2 DEF RemembersDay
    <3>2. Len(l2) - Len(d2) + i = Len(l) - Len(d) + i
      BY <1>1, <1>2, <1>3, <2>2
    <3>3. d2[i] = d[i] /\ l2[Len(l) - Len(d) + i] = l[Len(l) - Len(d) + i]
      BY <1>1, <1>2, <2>2, <3>1
    <3> QED
      BY <3>1, <3>2, <3>3
  <2> QED
    BY <1>1, <1>3, <2>1, <2>2
<1>5. \A i \in 1 .. Len(l2) - Len(d2) : l2[i] + DAY_MS <= t
  <2> TAKE i \in 1 .. Len(l2) - Len(d2)
  <2>1. i \in 1 .. Len(l) - Len(d) /\ i \in 1 .. Len(l)
    BY <1>1, <1>2, <1>3
  <2>2. l2[i] = l[i]
    BY <1>2, <2>1
  <2> QED
    BY <2>1, <2>2 DEF RemembersDay
<1>6. Len(d2) <= Len(l2)
  BY <1>1, <1>2, <1>3 DEF RemembersDay
<1>7. RemembersDay(d2, l2, t)
  BY <1>4, <1>5, <1>6 DEF RemembersDay
<1> QED
  BY <1>7 DEF d2, l2

\* An admission that finds fewer than n requests in the daily list is at least a day
\* later than the admission n places before it.
LEMMA AppendKeepsDaySpan ==
  ASSUME NEW d \in Seq(Nat), NEW l \in Seq(Nat), NEW t \in Nat, RemembersDay(d, l, t),
         NEW n \in Nat, Len(d) < n, DaySpan(l, n)
  PROVE  DaySpan(Append(l, t), n)
<1> DEFINE l2 == Append(l, t)
<1>1. /\ l2 \in Seq(Nat) /\ Len(l2) = Len(l) + 1
      /\ \A i \in 1 .. Len(l) : l2[i] = l[i]
      /\ l2[Len(l) + 1] = t
  BY AppendProperties
<1>2. Len(d) \in Nat /\ Len(l) \in Nat /\ DOMAIN l = 1 .. Len(l) /\ DOMAIN l2 = 1 .. Len(l2)
  BY <1>1, LenProperties
<1> HIDE DEF l2
<1>3. ASSUME NEW i \in DOMAIN l2, i + n \in DOMAIN l2
      PROVE  l2[i + n] >= l2[i] + DAY_MS
  <2>1. i \in 1 .. Len(l)
    BY <1>1, <1>2, <1>3
  <2>2. CASE i + n = Len(l) + 1
    <3>1. i \in 1 .. Len(l) - Len(d)
      BY <1>2, <2>1, <2>2
    <3>2. l[i] + DAY_MS <= t
      BY <3>1 DEF RemembersDay
    <3>3. l[i] \in Nat
      BY <2>1, ElementOfSeq
    <3> QED
      BY <1>1, <2>1, <2>2, <3>2, <3>3, WindowAssumption
  <2>3. CASE i + n \in 1 .. Len(l)
    BY <1>1, <1>2, <2>1, <2>3 DEF DaySpan
  <2> QED
    BY <1>1, <1>2, <1>3, <2>2, <2>3
<1> QED
  BY <1>3 DEF l2, DaySpan

\* A told time lies behind the entry it waits for.
LEMMA SlotAfterPositive ==
  ASSUME NEW w \in Seq(Entry), NEW enough \in SUBSET DOMAIN w, NEW t \in Nat
  PROVE  SlotAfter(w, enough, t) # 0
<1>1. CASE enough = {}
  BY <1>1, WindowAssumption DEF SlotAfter
<1>2. CASE enough # {}
  <2> DEFINE m == Min(enough)
  <2>1. enough \in SUBSET Nat
    OBVIOUS
  <2>2. m \in 1 .. Len(w)
    BY <1>2, <2>1, MinOfNaturals
  <2> HIDE DEF m
  <2>3. w[m] \in Entry
    BY <2>2, ElementOfSeq
  <2>4. w[m].timestamp \in Nat
    BY <2>3 DEF Entry
  <2>5. SlotAfter(w, enough, t) = w[m].timestamp + WINDOW_MS + 1
    BY <1>2 DEF SlotAfter, m
  <2> QED
    BY <2>4, <2>5, WindowAssumption
<1> QED
  BY <1>1, <1>2

\* checkAndRecord answers 0 only when the evicted daily list is below the rpd limit.
LEMMA AdmittedBelowRpd ==
  ASSUME NEW L \in Limits, L.rpd # Undefined, NEW w \in Seq(Entry), NEW d \in Seq(Nat),
         NEW until \in Nat, NEW cost, NEW t \in Nat, CheckReply(L, w, d, until, cost, t) = 0
  PROVE  Len(EvictDaily(d, t)) < L.rpd
<1> DEFINE e == EvictWindow(w, t)
<1> DEFINE f == EvictDaily(d, t)
<1>1. e \in Seq(Entry) /\ f \in Seq(Nat)
  BY EvictWindowType, EntryStamped, EvictDailyType
<1>2. t \in Nat /\ WINDOW_MS \in Nat /\ DAY_MS \in Nat
  BY WindowAssumption
<1> HIDE DEF e, f
<1>3. OldestDaily(f, t) + DAY_MS + 1 # 0
  <2>1. CASE f = <<>>
    BY <1>2, <2>1 DEF OldestDaily
  <2>2. CASE f # <<>>
    <3>1. 1 \in 1 .. Len(f)
      BY <1>1, <2>2, EmptySeq, LenProperties
    <3>2. f[1] \in Nat
      BY <1>1, <3>1, ElementOfSeq
    <3> QED
      BY <1>2, <2>2, <3>2 DEF OldestDaily
  <2> QED
    BY <2>1, <2>2
<1>4. OldestOf(e, t) + WINDOW_MS + 1 # 0
  <2>1. CASE e = <<>>
    BY <1>2, <2>1 DEF OldestOf
  <2>2. CASE e # <<>>
    <3>1. 1 \in 1 .. Len(e)
      BY <1>1, <2>2, EmptySeq, LenProperties
    <3>2. e[1] \in Entry
      BY <1>1, <3>1, ElementOfSeq
    <3>3. e[1].timestamp \in Nat
      BY <3>2 DEF Entry
    <3> QED
      BY <1>2, <2>2, <3>3 DEF OldestOf
  <2> QED
    BY <2>1, <2>2
<1>5. ItpmNextSlot(e, L.itpm, cost, t) # 0
  <2>1. ItpmEnough(e, L.itpm, cost) \in SUBSET DOMAIN e
    BY DEF ItpmEnough
  <2> QED
    BY <1>1, <2>1, SlotAfterPositive DEF ItpmNextSlot
<1>6. ~ RpdFull(L, f)
  BY <1>3, <1>4, <1>5 DEF CheckReply, e, f
<1>7. Len(f) \in Nat /\ L.rpd \in Nat
  BY <1>1, LenProperties DEF Limits
<1> QED
  BY <1>6, <1>7 DEF RpdFull, f

\* Pruning keeps every key's daily list the end of its history.
LEMMA PrunedRemembersDay ==
  ASSUME NEW ds \in [Key -> Seq(Nat)], NEW ls \in [Key -> Seq(Nat)], NEW t \in Nat,
         DailyOf(ds, ls, t), NEW due \in BOOLEAN, NEW ps,
         ps = IF due THEN [k \in Key |-> EvictDaily(ds[k], t)] ELSE ds
  PROVE  DailyOf(ps, ls, t)
<1>1. \A k \in Key : RemembersDay(EvictDaily(ds[k], t), ls[k], t)
  BY EvictDailyRemembers DEF DailyOf
<1> QED
  BY <1>1 DEF DailyOf

LEMMA InitDayInv == Init => DayInv
<1> SUFFICES ASSUME Init PROVE DayInv
  OBVIOUS
<1>1. DailyOf(dailyWindows, log, now)
  BY EmptySeq DEF Init, DailyOf, RemembersDay
<1>2. \A k \in Key : DaySpan(log[k], limits.rpd)
  BY EmptySeq DEF Init, DaySpan
<1> QED
  BY <1>1, <1>2 DEF DayInv

\* Recording a request keeps the invariant.
LEMMA RecordKeepsDayInv ==
  ASSUME IInv, DayInv, NEW k0 \in Key, NEW cost \in Estimate, Record(k0, cost)
  PROVE  DayInv'
<1> SUFFICES ASSUME limits.rpd # Undefined
             PROVE  /\ DailyOf(dailyWindows, log, now)'
                    /\ \A k \in Key : DaySpan(log'[k], limits.rpd)
  BY DEF DayInv
<1> USE StoreAssumption
<1> DEFINE f == EvictDaily(dailyWindows[k0], now)
<1> DEFINE ds == [dailyWindows EXCEPT ![k0] = Append(f, now)]
<1>1. TypeOK /\ DailyOf(dailyWindows, log, now) /\ \A k \in Key : DaySpan(log[k], limits.rpd)
  BY DEF IInv, DayInv
<1>2. /\ windows[k0] \in Seq(Entry) /\ log[k0] \in Seq(Nat) /\ now \in Nat
      /\ backoffs[k0] \in Nat /\ dailyWindows[k0] \in Seq(Nat)
      /\ log \in [Key -> Seq(Nat)] /\ dailyWindows \in [Key -> Seq(Nat)]
  BY <1>1 DEF TypeOK
<1>3. f \in Seq(Nat) /\ RemembersDay(f, log[k0], now)
  BY <1>1, <1>2, EvictDailyRemembers DEF DailyOf
<1>4. Len(f) < limits.rpd /\ limits.rpd \in Nat
  <2>1. CheckReply(limits, windows[k0], dailyWindows[k0], backoffs[k0], cost, now) = 0
    BY DEF Record, ReplyAt
  <2> QED
    BY <1>2, <2>1, AdmittedBelowRpd DEF Limits
<1>5. /\ now' = now
      /\ log' = [log EXCEPT ![k0] = Append(@, now)]
      /\ dailyWindows' = IF pruneCounter' = 0 THEN [k \in Key |-> EvictDaily(ds[k], now)] ELSE ds
  BY DEF Record, Pruned
<1> HIDE DEF f
<1>6. ds \in [Key -> Seq(Nat)] /\ log' \in [Key -> Seq(Nat)]
  BY <1>2, <1>3, <1>5, AppendProperties
<1>7. DailyOf(ds, log', now)
  <2>1. RemembersDay(Append(f, now), Append(log[k0], now), now)
    BY <1>2, <1>3, AppendRemembersDay
  <2> QED
    BY <1>1, <1>2, <1>5, <2>1 DEF DailyOf
<1> HIDE DEF ds
<1>8. DailyOf(dailyWindows', log', now)
  BY <1>2, <1>5, <1>6, <1>7, PrunedRemembersDay
<1>9. \A k \in Key : DaySpan(log'[k], limits.rpd)
  <2>1. DaySpan(Append(log[k0], now), limits.rpd)
    BY <1>1, <1>2, <1>3, <1>4, AppendKeepsDaySpan
  <2> QED
    BY <1>1, <1>2, <1>5, <2>1
<1>10. DailyOf(dailyWindows, log, now)'
  BY <1>5, <1>8 DEF DailyOf
<1> QED
  BY <1>9, <1>10

\* A step that at most evicts one key's daily list and admits nothing keeps it.
LEMMA EvictionKeepsDayInv ==
  ASSUME IInv, DayInv, NEW k0 \in Key, UNCHANGED <<now, log>>,
         NEW d, d \in {dailyWindows[k0], EvictDaily(dailyWindows[k0], now)},
         dailyWindows' = [dailyWindows EXCEPT ![k0] = d]
  PROVE  DayInv'
<1> SUFFICES ASSUME limits.rpd # Undefined
             PROVE  /\ DailyOf(dailyWindows, log, now)'
                    /\ \A k \in Key : DaySpan(log'[k], limits.rpd)
  BY DEF DayInv
<1>1. TypeOK /\ DailyOf(dailyWindows, log, now) /\ \A k \in Key : DaySpan(log[k], limits.rpd)
  BY DEF IInv, DayInv
<1>2. /\ log[k0] \in Seq(Nat) /\ now \in Nat /\ dailyWindows \in [Key -> Seq(Nat)]
      /\ dailyWindows[k0] \in Seq(Nat)
  BY <1>1 DEF TypeOK
<1>3. RemembersDay(d, log[k0], now)
  BY <1>1, <1>2, EvictDailyRemembers DEF DailyOf
<1>4. DailyOf(dailyWindows', log, now)
  BY <1>1, <1>2, <1>3 DEF DailyOf
<1> QED
  BY <1>1, <1>4 DEF DailyOf

\* Time passing only makes the forgotten part of the history older.
LEMMA TickKeepsDayInv == ASSUME IInv, DayInv, Tick PROVE DayInv'
<1> SUFFICES ASSUME limits.rpd # Undefined
             PROVE  /\ DailyOf(dailyWindows, log, now)'
                    /\ \A k \in Key : DaySpan(log'[k], limits.rpd)
  BY DEF DayInv
<1>1. /\ TypeOK /\ DailyOf(dailyWindows, log, now)
      /\ now' = now + 1 /\ UNCHANGED <<storeVars, log, asked>>
      /\ \A k \in Key : DaySpan(log[k], limits.rpd)
  BY DEF IInv, DayInv, Tick
<1>2. dailyWindows' = dailyWindows /\ log' = log
  BY <1>1 DEF storeVars
<1>3. ASSUME NEW k \in Key PROVE RemembersDay(dailyWindows[k], log[k], now + 1)
  <2>1. RemembersDay(dailyWindows[k], log[k], now)
    BY <1>1 DEF DailyOf
  <2>2. log[k] \in Seq(Nat) /\ dailyWindows[k] \in Seq(Nat) /\ now \in Nat
    BY <1>1 DEF TypeOK
  <2>3. ASSUME NEW i \in 1 .. Len(log[k]) - Len(dailyWindows[k])
        PROVE  log[k][i] + DAY_MS <= now + 1
    <3>1. log[k][i] + DAY_MS <= now
      BY <2>1 DEF RemembersDay
    <3>2. log[k][i] \in Nat
      <4>1. Len(log[k]) \in Nat /\ Len(dailyWindows[k]) \in Nat
        BY <2>2, LenProperties
      <4>2. i \in 1 .. Len(log[k])
        BY <4>1
      <4> QED
        BY <2>2, <4>2, ElementOfSeq
    <3> QED
      BY <2>2, <3>1, <3>2, WindowAssumption
  <2> QED
    BY <2>1, <2>3 DEF RemembersDay
<1> QED
  BY <1>1, <1>2, <1>3 DEF DailyOf

LEMMA ResetKeepsDayInv == ASSUME Reset PROVE DayInv'
<1>1. DailyOf(dailyWindows, log, now)'
  BY EmptySeq DEF Reset, DailyOf, RemembersDay
<1>2. \A k \in Key : DaySpan(log[k], limits.rpd)'
  BY EmptySeq DEF Reset, DaySpan
<1> QED
  BY <1>1, <1>2 DEF DayInv

\* A step that neither admits nor touches the daily lists.
LEMMA OtherStepsKeepDayInv ==
  ASSUME DayInv, UNCHANGED <<now, dailyWindows, log>> PROVE DayInv'
BY DEF DayInv, DailyOf

LEMMA RefuseKeepsDayInv ==
  ASSUME IInv, DayInv, NEW k \in Key, NEW cost \in Estimate, Refuse(k, cost)
  PROVE  DayInv'
<1>1. PICK d \in {dailyWindows[k], EvictDaily(dailyWindows[k], now)} :
        dailyWindows' = [dailyWindows EXCEPT ![k] = d]
  BY DEF Refuse
<1>2. UNCHANGED <<now, log>>
  BY DEF Refuse
<1> QED
  BY <1>1, <1>2, EvictionKeepsDayInv

LEMMA NextSlotKeepsDayInv ==
  ASSUME IInv, DayInv, NEW k \in Key, NextSlotMs(k) PROVE DayInv'
<1>1. PICK d \in {dailyWindows[k], EvictDaily(dailyWindows[k], now)} :
        dailyWindows' = [dailyWindows EXCEPT ![k] = d]
  BY DEF NextSlotMs
<1>2. UNCHANGED <<now, log>>
  BY DEF NextSlotMs
<1> QED
  BY <1>1, <1>2, EvictionKeepsDayInv

LEMMA NextKeepsDayInv == IInv /\ DayInv /\ [Next]_vars => DayInv'
<1> SUFFICES ASSUME IInv, DayInv, [Next]_vars PROVE DayInv'
  OBVIOUS
<1>1. ASSUME NEW k \in Key, NEW cost \in Estimate, CheckAndRecord(k, cost) PROVE DayInv'
  BY <1>1, RecordKeepsDayInv, RefuseKeepsDayInv DEF CheckAndRecord
<1>2. ASSUME NEW k \in Key, NEW input \in Usage, NEW output \in Usage,
             Reconcile(k, input, output)
      PROVE  DayInv'
  BY <1>2, OtherStepsKeepDayInv DEF Reconcile
<1>3. ASSUME NEW k \in Key, NEW delay \in Delay, SetBackoff(k, delay) PROVE DayInv'
  BY <1>3, OtherStepsKeepDayInv DEF SetBackoff
<1>4. ASSUME NEW k \in Key, NextSlotMs(k) PROVE DayInv'
  BY <1>4, NextSlotKeepsDayInv
<1>5. ASSUME NEW k \in Key, Snapshot(k) PROVE DayInv'
  BY <1>5, OtherStepsKeepDayInv DEF Snapshot
<1>6. CASE Reset
  BY <1>6, ResetKeepsDayInv
<1>7. CASE Tick
  BY <1>7, TickKeepsDayInv
<1>8. CASE UNCHANGED vars
  BY <1>8, OtherStepsKeepDayInv DEF vars, storeVars
<1> QED
  BY <1>1, <1>2, <1>3, <1>4, <1>5, <1>6, <1>7, <1>8 DEF Next, StoreNext, KeyStep

\* The two spans are what the promise calls bounded.
LEMMA SpansAreBounds ==
  ASSUME NEW l \in Seq(Nat), NEW n \in Nat
  PROVE  /\ DaySpan(l, n) => Promise!Bounded(l, n, DAY_MS)
         /\ (\A i \in DOMAIN l : i + n \in DOMAIN l => l[i + n] >= l[i] + WINDOW_MS)
              => Promise!Bounded(l, n, WINDOW_MS)
<1>1. \A i \in DOMAIN l : l[i] \in Nat
  BY ElementOfSeq
<1>2. \A i \in DOMAIN l : l[i] + DAY_MS - 0 = l[i] + DAY_MS /\ l[i] + WINDOW_MS - 0 = l[i] + WINDOW_MS
  BY <1>1, WindowAssumption
<1> QED
  BY <1>2 DEF Promise!Bounded, DaySpan

\* A record is an admission the promise allows.
LEMMA RecordAdmits ==
  ASSUME IInv, IInv', DayInv', NEW k \in Key, NEW cost \in Estimate, Record(k, cost)
  PROVE  Promise!Admit(k)
<1>1. log' = [log EXCEPT ![k] = Append(@, now)] /\ UNCHANGED now
  BY DEF Record
<1>2. log'[k] \in Seq(Nat)
  BY DEF IInv, TypeOK
<1>3. limits.rpm \in Nat /\ (limits.rpd # Undefined => limits.rpd \in Nat)
  BY StoreAssumption DEF Limits
<1>4. Promise!Bounded(log'[k], limits.rpm, WINDOW_MS)
  <2>1. \A i \in DOMAIN log'[k] : i + limits.rpm \in DOMAIN log'[k]
          => log'[k][i + limits.rpm] >= log'[k][i] + WINDOW_MS
    BY DEF IInv, RpmBound
  <2> QED
    BY <1>2, <1>3, <2>1, SpansAreBounds
<1>5. Promise!Bounded(log'[k], limits.rpd, DAY_MS)
  <2>1. CASE limits.rpd = Undefined
    BY <2>1 DEF Promise!Bounded
  <2>2. CASE limits.rpd # Undefined
    <3>1. DaySpan(log'[k], limits.rpd)
      BY <2>2 DEF DayInv
    <3> QED
      BY <1>2, <1>3, <2>2, <3>1, SpansAreBounds
  <2> QED
    BY <2>1, <2>2
<1> QED
  BY <1>1, <1>4, <1>5 DEF Promise!Admit

\* Every step of the store is a step of the promise, or changes nothing it speaks of.
LEMMA StepImplements ==
  IInv /\ IInv' /\ DayInv' /\ [Next]_vars => [Promise!Next]_<<now, log>>
<1> SUFFICES ASSUME IInv, IInv', DayInv', [Next]_vars
             PROVE  Promise!Next \/ UNCHANGED <<now, log>>
  OBVIOUS
<1>1. ASSUME NEW k \in Key, NEW cost \in Estimate, Record(k, cost) PROVE Promise!Next
  BY <1>1, RecordAdmits DEF Promise!Next
<1>2. ASSUME NEW k \in Key, NEW cost \in Estimate, Refuse(k, cost) PROVE UNCHANGED <<now, log>>
  BY <1>2 DEF Refuse
<1>3. ASSUME NEW k \in Key, NEW input \in Usage, NEW output \in Usage,
             Reconcile(k, input, output)
      PROVE  UNCHANGED <<now, log>>
  BY <1>3 DEF Reconcile
<1>4. ASSUME NEW k \in Key, NEW delay \in Delay, SetBackoff(k, delay)
      PROVE  UNCHANGED <<now, log>>
  BY <1>4 DEF SetBackoff
<1>5. ASSUME NEW k \in Key, NextSlotMs(k) \/ Snapshot(k) PROVE UNCHANGED <<now, log>>
  BY <1>5 DEF NextSlotMs, Snapshot
<1>6. CASE Reset
  BY <1>6 DEF Reset, Promise!Next, Promise!Forget
<1>7. CASE Tick
  <2>1. now \in Nat
    BY DEF IInv, TypeOK
  <2> QED
    BY <1>7, <2>1 DEF Tick, Promise!Next, Promise!Wait
<1>8. CASE UNCHANGED vars
  BY <1>8 DEF vars
<1> QED
  BY <1>1, <1>2, <1>3, <1>4, <1>5, <1>6, <1>7, <1>8
  DEF Next, StoreNext, KeyStep, CheckAndRecord

\* The in-memory store keeps the promise of the store interface: whatever it evicts,
\* prunes and reconciles, it admits for a key no more than rpm requests in a window and
\* no more than rpd in a day, for any limits, keys and prune interval.
THEOREM StoreKeepsPromise == Spec => KeepsPromise
<1>1. Init => Promise!Init
  BY DEF Init, Promise!Init
<1>2. Init => DayInv
  BY InitDayInv
<1>3. IInv /\ DayInv /\ [Next]_vars => DayInv'
  BY NextKeepsDayInv
<1>4. IInv /\ IInv' /\ DayInv' /\ [Next]_vars => [Promise!Next]_<<now, log>>
  BY StepImplements
<1> QED
  BY <1>1, <1>2, <1>3, <1>4, IInvInvariant, PTL DEF Spec, KeepsPromise, Promise!Spec

(***************************************************************************)
(* Waiting.  What a refused caller is told rests on three facts: a window  *)
(* is in the order of its admissions, a daily list never outgrows its      *)
(* limit, and the clock is not at 0, the answer that means "admitted".     *)
(***************************************************************************)
InOrder(w, t) == Ascending(w) /\ \A i \in 1 .. Len(w) : w[i].timestamp <= t

OrderInv == now > 0 /\ \A k \in Key : InOrder(windows[k], now)

DailyBounded == limits.rpd # Undefined => \A k \in Key : Len(dailyWindows[k]) <= limits.rpd

LEMMA EvictInOrder ==
  ASSUME NEW w \in Seq(Entry), NEW t \in Nat, NEW u \in Nat, InOrder(w, u)
  PROVE  InOrder(EvictWindow(w, t), u)
<1>1. PICK c \in 0 .. Len(w) : EvictWindow(w, t) = Suffix(w, c)
  <2>1. t <= t
    OBVIOUS
  <2> QED
    BY <2>1, EvictLater, EntryStamped
<1> DEFINE e == Suffix(w, c)
<1>2. e \in Seq(Entry) /\ Len(e) = Len(w) - c /\ \A i \in 1 .. Len(w) - c : e[i] = w[c + i]
  BY SuffixIs
<1>3. Ascending(e)
  BY SuffixAscending, EntryStamped DEF InOrder
<1>4. Len(w) \in Nat
  BY LenProperties
<1> HIDE DEF e
<1>5. ASSUME NEW i \in 1 .. Len(e) PROVE e[i].timestamp <= u
  <2>1. i \in 1 .. Len(w) - c /\ c + i \in 1 .. Len(w)
    BY <1>2, <1>4
  <2> QED
    BY <1>2, <2>1 DEF InOrder
<1> QED
  BY <1>1, <1>3, <1>5 DEF e, InOrder

LEMMA AppendInOrder ==
  ASSUME NEW w \in Seq(Entry), NEW t \in Nat, InOrder(w, t), NEW x \in Entry, x.timestamp = t
  PROVE  InOrder(Append(w, x), t)
<1> DEFINE v == Append(w, x)
<1>1. /\ v \in Seq(Entry) /\ Len(v) = Len(w) + 1
      /\ \A i \in 1 .. Len(w) : v[i] = w[i]
      /\ v[Len(w) + 1] = x
  BY AppendProperties
<1>2. Len(w) \in Nat
  BY LenProperties
<1> HIDE DEF v
<1>3. ASSUME NEW i \in 1 .. Len(v) PROVE v[i].timestamp <= t
  <2>1. CASE i = Len(w) + 1
    BY <1>1, <2>1
  <2>2. CASE i \in 1 .. Len(w)
    BY <1>1, <2>2 DEF InOrder
  <2> QED
    BY <1>1, <1>2, <2>1, <2>2
<1>4. ASSUME NEW i \in 1 .. Len(v), NEW j \in i .. Len(v)
      PROVE  v[i].timestamp <= v[j].timestamp
  <2>1. CASE j = Len(w) + 1
    BY <1>1, <1>3, <2>1
  <2>2. CASE j \in 1 .. Len(w)
    <3>1. i \in 1 .. Len(w) /\ j \in i .. Len(w)
      BY <1>2, <2>2
    <3> QED
      BY <1>1, <2>2, <3>1 DEF InOrder, Ascending
  <2> QED
    BY <1>1, <1>2, <2>1, <2>2
<1> QED
  BY <1>3, <1>4 DEF v, InOrder, Ascending

\* Windows with the same times are in the same order; later a window is still in order.
LEMMA SameTimesInOrder ==
  ASSUME NEW w \in Seq(Entry), NEW v, NEW t \in Nat, InOrder(w, t), Len(v) = Len(w),
         \A i \in 1 .. Len(w) : v[i].timestamp = w[i].timestamp
  PROVE  InOrder(v, t)
<1>1. Len(w) \in Nat
  BY LenProperties
<1>2. \A i \in 1 .. Len(w) : \A j \in i .. Len(w) : j \in 1 .. Len(w)
  BY <1>1
<1> QED
  BY <1>2 DEF InOrder, Ascending

LEMMA LaterInOrder ==
  ASSUME NEW w \in Seq(Entry), NEW t \in Nat, InOrder(w, t)
  PROVE  InOrder(w, t + 1)
<1>1. \A i \in 1 .. Len(w) : w[i].timestamp \in Nat
  BY EntryTime, EntryStamped
<1> QED
  BY <1>1 DEF InOrder

LEMMA RecordKeepsOrder ==
  ASSUME IInv, OrderInv, NEW k0 \in Key, NEW cost \in Estimate, Record(k0, cost)
  PROVE  OrderInv'
<1> USE StoreAssumption
<1> DEFINE e == EvictWindow(windows[k0], now)
<1> DEFINE x == [timestamp |-> now, inputTokens |-> cost, outputTokens |-> 0]
<1> DEFINE ws == [windows EXCEPT ![k0] = Append(e, x)]
<1>1. /\ now \in Nat /\ windows \in [Key -> Seq(Entry)] /\ x \in Entry
      /\ now > 0 /\ \A k \in Key : InOrder(windows[k], now)
  BY DEF IInv, TypeOK, OrderInv, Entry
<1>2. /\ now' = now
      /\ windows' = IF pruneCounter' = 0 THEN [k \in Key |-> EvictWindow(ws[k], now)] ELSE ws
  BY DEF Record, Pruned
<1> HIDE DEF x
<1>3. e \in Seq(Entry) /\ InOrder(e, now)
  BY <1>1, EvictInOrder, EvictWindowType, EntryStamped
<1> HIDE DEF e
<1>4. Append(e, x) \in Seq(Entry) /\ InOrder(Append(e, x), now)
  BY <1>1, <1>3, AppendInOrder, AppendProperties DEF x
<1>5. ws \in [Key -> Seq(Entry)] /\ \A k \in Key : InOrder(ws[k], now)
  BY <1>1, <1>4
<1> HIDE DEF ws
<1>6. \A k \in Key : InOrder(EvictWindow(ws[k], now), now)
  BY <1>1, <1>5, EvictInOrder
<1> QED
  BY <1>1, <1>2, <1>5, <1>6 DEF OrderInv

LEMMA NextKeepsOrder == IInv /\ OrderInv /\ [Next]_vars => OrderInv'
<1> SUFFICES ASSUME IInv, OrderInv, [Next]_vars PROVE OrderInv'
  OBVIOUS
<1>0. /\ now \in Nat /\ windows \in [Key -> Seq(Entry)]
      /\ now > 0 /\ \A k \in Key : InOrder(windows[k], now)
  BY DEF IInv, TypeOK, OrderInv
<1>1. ASSUME now' = now, NEW k0 \in Key, NEW w \in {windows[k0], EvictWindow(windows[k0], now)},
             windows' = [windows EXCEPT ![k0] = w]
      PROVE  OrderInv'
  <2>1. InOrder(w, now)
    BY <1>0, EvictInOrder
  <2> QED
    BY <1>0, <1>1, <2>1 DEF OrderInv
<1>2. ASSUME NEW k \in Key, NEW cost \in Estimate, CheckAndRecord(k, cost) PROVE OrderInv'
  <2>1. ASSUME Refuse(k, cost) PROVE OrderInv'
    <3>1. now' = now /\ windows' = [windows EXCEPT ![k] =
            IF now < backoffs[k] THEN windows[k] ELSE EvictWindow(windows[k], now)]
      BY <2>1 DEF Refuse
    <3> QED
      BY <1>1, <3>1
  <2> QED
    BY <1>2, <2>1, RecordKeepsOrder DEF CheckAndRecord
<1>3. ASSUME NEW k \in Key, NEW input \in Usage, NEW output \in Usage,
             Reconcile(k, input, output)
      PROVE  OrderInv'
  <2> DEFINE w == windows[k]
  <2> DEFINE open == {i \in DOMAIN w : w[i].outputTokens = 0 /\ w[i].inputTokens > 0}
  <2> DEFINE m == Max(open)
  <2> DEFINE x == [timestamp |-> w[m].timestamp, inputTokens |-> input, outputTokens |-> output]
  <2> DEFINE v == [w EXCEPT ![m] = x]
  <2>1. now' = now /\ windows' = [windows EXCEPT ![k] = v]
    BY <1>3 DEF Reconcile, ReplaceAt
  <2>2. w \in Seq(Entry) /\ InOrder(w, now)
    BY <1>0
  <2>3. Len(v) = Len(w) /\ \A i \in 1 .. Len(w) : v[i].timestamp = w[i].timestamp
    <3> HIDE DEF m, w
    <3>1. DOMAIN w = 1 .. Len(w) /\ Len(w) \in Nat
      BY <2>2, LenProperties
    <3>2. DOMAIN v = DOMAIN w /\ \A i \in DOMAIN w : v[i] = IF i = m THEN x ELSE w[i]
      BY <2>2
    <3>3. Len(v) = Len(w)
      BY <3>1, <3>2
    <3> QED
      BY <3>1, <3>2, <3>3
  <2> HIDE DEF v, w
  <2>4. InOrder(v, now)
    BY <1>0, <2>2, <2>3, SameTimesInOrder
  <2> QED
    BY <1>0, <2>1, <2>4 DEF OrderInv
<1>4. ASSUME NEW k \in Key, NextSlotMs(k) \/ Snapshot(k) PROVE OrderInv'
  <2>1. now' = now /\ windows' = [windows EXCEPT ![k] = EvictWindow(windows[k], now)]
    BY <1>4 DEF NextSlotMs, Snapshot
  <2> QED
    BY <1>1, <2>1
<1>5. CASE Reset
  <2>1. now' = now /\ \A k \in Key : windows'[k] = <<>>
    BY <1>5 DEF Reset
  <2>2. InOrder(<<>>, now)
    BY EmptySeq DEF InOrder, Ascending
  <2> QED
    BY <1>0, <2>1, <2>2 DEF OrderInv
<1>6. CASE Tick
  <2>1. now' = now + 1 /\ windows' = windows
    BY <1>6 DEF Tick, storeVars
  <2> QED
    BY <1>0, <2>1, LaterInOrder DEF OrderInv
<1>7. CASE UNCHANGED <<now, windows>>
  BY <1>7 DEF OrderInv
<1>8. ASSUME NEW k \in Key, NEW delay \in Delay, SetBackoff(k, delay) PROVE OrderInv'
  BY <1>7, <1>8 DEF SetBackoff
<1>9. CASE UNCHANGED vars
  BY <1>7, <1>9 DEF vars, storeVars
<1> QED
  BY <1>2, <1>3, <1>4, <1>5, <1>6, <1>8, <1>9 DEF Next, StoreNext, KeyStep

LEMMA OrderInvariant == Spec => []OrderInv
<1>1. Init => OrderInv
  BY EmptySeq DEF Init, OrderInv, InOrder, Ascending
<1> QED
  BY <1>1, NextKeepsOrder, IInvInvariant, PTL DEF Spec

\* A daily list only grows when it is below its limit.
LEMMA RecordKeepsDailyBound ==
  ASSUME IInv, DailyBounded, NEW k0 \in Key, NEW cost \in Estimate, Record(k0, cost)
  PROVE  DailyBounded'
<1> SUFFICES ASSUME limits.rpd # Undefined
             PROVE  \A k \in Key : Len(dailyWindows'[k]) <= limits.rpd
  BY DEF DailyBounded
<1> USE StoreAssumption
<1> DEFINE f == EvictDaily(dailyWindows[k0], now)
<1> DEFINE ds == [dailyWindows EXCEPT ![k0] = Append(f, now)]
<1>1. /\ windows[k0] \in Seq(Entry) /\ now \in Nat /\ backoffs[k0] \in Nat
      /\ dailyWindows \in [Key -> Seq(Nat)] /\ limits.rpd \in Nat
      /\ \A k \in Key : Len(dailyWindows[k]) <= limits.rpd
  BY DEF IInv, TypeOK, DailyBounded, Limits
<1>2. f \in Seq(Nat)
  BY <1>1, EvictDailyType
<1>3. Len(f) < limits.rpd
  BY <1>1, AdmittedBelowRpd DEF Record, ReplyAt
<1>4. dailyWindows' = IF pruneCounter' = 0 THEN [k \in Key |-> EvictDaily(ds[k], now)] ELSE ds
  BY DEF Record, Pruned
<1> HIDE DEF f
<1>5. Append(f, now) \in Seq(Nat) /\ Len(Append(f, now)) <= limits.rpd
  <2>1. Append(f, now) \in Seq(Nat) /\ Len(Append(f, now)) = Len(f) + 1
    BY <1>1, <1>2, AppendProperties
  <2>2. Len(f) \in Nat
    BY <1>2, LenProperties
  <2> QED
    BY <1>1, <1>3, <2>1, <2>2
<1>6. ds \in [Key -> Seq(Nat)] /\ \A k \in Key : Len(ds[k]) <= limits.rpd
  BY <1>1, <1>5
<1> HIDE DEF ds
<1>7. \A k \in Key : Len(EvictDaily(ds[k], now)) <= limits.rpd
  <2> TAKE k \in Key
  <2>1. /\ ds[k] \in Seq(Nat) /\ EvictDaily(ds[k], now) \in Seq(Nat) /\ now <= now
        /\ Len(ds[k]) <= limits.rpd
    BY <1>1, <1>6, EvictDailyType
  <2>2. Len(EvictDaily(ds[k], now)) <= Len(ds[k])
    BY <1>1, <2>1, EvictDailyLater
  <2>3. Len(EvictDaily(ds[k], now)) \in Nat /\ Len(ds[k]) \in Nat
    BY <2>1, LenProperties
  <2> QED
    BY <1>1, <2>1, <2>2, <2>3
<1> QED
  BY <1>4, <1>6, <1>7

LEMMA NextKeepsDailyBound == IInv /\ DailyBounded /\ [Next]_vars => DailyBounded'
<1> SUFFICES ASSUME IInv, DailyBounded, limits.rpd # Undefined, [Next]_vars
             PROVE  \A k \in Key : Len(dailyWindows'[k]) <= limits.rpd
  BY DEF DailyBounded
<1>0. /\ now \in Nat /\ dailyWindows \in [Key -> Seq(Nat)] /\ limits.rpd \in Nat
      /\ \A k \in Key : Len(dailyWindows[k]) <= limits.rpd
  BY StoreAssumption DEF IInv, TypeOK, DailyBounded, Limits
<1> DEFINE Goal == \A k \in Key : Len(dailyWindows'[k]) <= limits.rpd
<1>1. ASSUME NEW k0 \in Key, NEW d \in {dailyWindows[k0], EvictDaily(dailyWindows[k0], now)},
             dailyWindows' = [dailyWindows EXCEPT ![k0] = d]
      PROVE  Goal
  <2>1. Len(EvictDaily(dailyWindows[k0], now)) <= limits.rpd
    <3>1. /\ dailyWindows[k0] \in Seq(Nat) /\ EvictDaily(dailyWindows[k0], now) \in Seq(Nat)
          /\ now <= now /\ Len(dailyWindows[k0]) <= limits.rpd
      BY <1>0, EvictDailyType
    <3>2. Len(EvictDaily(dailyWindows[k0], now)) <= Len(dailyWindows[k0])
      BY <1>0, <3>1, EvictDailyLater
    <3>3. Len(EvictDaily(dailyWindows[k0], now)) \in Nat /\ Len(dailyWindows[k0]) \in Nat
      BY <3>1, LenProperties
    <3> QED
      BY <1>0, <3>1, <3>2, <3>3
  <2>2. Len(d) <= limits.rpd
    BY <1>0, <2>1
  <2> QED
    BY <1>0, <1>1, <2>2
<1>2. ASSUME NEW k \in Key, NEW cost \in Estimate, CheckAndRecord(k, cost) PROVE Goal
  <2>1. CASE Refuse(k, cost)
    <3>1. PICK d \in {dailyWindows[k], EvictDaily(dailyWindows[k], now)} :
            dailyWindows' = [dailyWindows EXCEPT ![k] = d]
      BY <2>1 DEF Refuse
    <3> QED
      BY <1>1, <3>1
  <2>2. CASE Record(k, cost)
    BY <2>2, RecordKeepsDailyBound DEF DailyBounded
  <2> QED
    BY <1>2, <2>1, <2>2 DEF CheckAndRecord
<1>3. ASSUME NEW k \in Key, NextSlotMs(k) PROVE Goal
  <2>1. PICK d \in {dailyWindows[k], EvictDaily(dailyWindows[k], now)} :
          dailyWindows' = [dailyWindows EXCEPT ![k] = d]
    BY <1>3 DEF NextSlotMs
  <2> QED
    BY <1>1, <2>1
<1>4. CASE Reset
  <2>1. \A k \in Key : dailyWindows'[k] = <<>>
    BY <1>4 DEF Reset
  <2> QED
    BY <1>0, <2>1, EmptySeq
<1>5. CASE UNCHANGED dailyWindows
  BY <1>0, <1>5
<1>6. ASSUME NEW k \in Key, NEW input \in Usage, NEW output \in Usage,
             Reconcile(k, input, output)
      PROVE  Goal
  BY <1>5, <1>6 DEF Reconcile
<1>7. ASSUME NEW k \in Key, NEW delay \in Delay, SetBackoff(k, delay) PROVE Goal
  BY <1>5, <1>7 DEF SetBackoff
<1>8. ASSUME NEW k \in Key, Snapshot(k) PROVE Goal
  BY <1>5, <1>8 DEF Snapshot
<1>9. CASE Tick
  BY <1>5, <1>9 DEF Tick, storeVars
<1>10. CASE UNCHANGED vars
  BY <1>5, <1>10 DEF vars, storeVars
<1> HIDE DEF Goal
<1> QED
  BY <1>2, <1>3, <1>4, <1>6, <1>7, <1>8, <1>9, <1>10 DEF Next, StoreNext, KeyStep, Goal

LEMMA DailyBoundInvariant == Spec => []DailyBounded
<1>1. Init => DailyBounded
  BY EmptySeq, StoreAssumption DEF Init, DailyBounded, Limits
<1> QED
  BY <1>1, NextKeepsDailyBound, IInvInvariant, PTL DEF Spec

\* What the lemmas about told times ask of a key and a request.
LEMMA ReadyToAsk ==
  ASSUME IInv, OrderInv, NEW k \in Key, NEW cost \in Estimate
  PROVE  /\ limits \in Limits /\ windows[k] \in Seq(Entry) /\ Ascending(windows[k])
         /\ dailyWindows[k] \in Seq(Nat) /\ backoffs[k] \in Nat /\ cost \in Nat
         /\ now \in Nat \ {0} /\ Len(windows[k]) <= limits.rpm
BY StoreAssumption DEF IInv, TypeOK, OrderInv, InOrder

\* checkAndRecord: the time a refusal tells is in the future and never later than one
\* millisecond after the first moment at which the request would be admitted, whichever
\* limit refuses it, for all limits, windows and estimates.
THEOREM StoreRefusalTight == Spec => []RefusalTight
<1>1. IInv /\ OrderInv => RefusalTight
  <2> SUFFICES ASSUME IInv, OrderInv, NEW k \in Key, NEW cost \in Estimate, ReplyAt(k, cost, now) # 0
               PROVE  /\ ReplyAt(k, cost, now) > now
                      /\ \A t \in now .. ReplyAt(k, cost, now) - 2 : ReplyAt(k, cost, t) # 0
    BY DEF RefusalTight
  <2>1. /\ limits \in Limits /\ windows[k] \in Seq(Entry) /\ Ascending(windows[k])
        /\ dailyWindows[k] \in Seq(Nat) /\ backoffs[k] \in Nat /\ cost \in Nat
        /\ now \in Nat
    BY ReadyToAsk
  <2>2. ReplyAt(k, cost, now) > now
    BY <2>1, ReplyZero, EntryStamped DEF ReplyAt
  <2>3. \A t \in now .. ReplyAt(k, cost, now) - 2 : ReplyAt(k, cost, t) # 0
    BY <2>1, ReplyNotLate, EntryStamped DEF ReplyAt
  <2> QED
    BY <2>2, <2>3
<1> QED
  BY <1>1, IInvInvariant, OrderInvariant, PTL

\* nextSlotMs and checkAndRecord, two pieces of code, agree on whether a slot is free, and
\* the first never promises an earlier slot than the second to a request that can fit.
THEOREM StoreEstimateAgrees == Spec => []EstimateAgrees
<1>1. IInv /\ OrderInv => EstimateAgrees
  <2> SUFFICES ASSUME IInv, OrderInv, NEW k \in Key, NEW cost \in Estimate
               PROVE  LET told == ReplyAt(k, cost, now)
                          next == NextSlotReply(limits, windows[k], dailyWindows[k], backoffs[k],
                                                cost, now)
                      IN  (next = 0 <=> told = 0) /\ (CanFit(cost) => next >= told)
    BY DEF EstimateAgrees
  <2>1. /\ limits \in Limits /\ windows[k] \in Seq(Entry) /\ Ascending(windows[k])
        /\ dailyWindows[k] \in Seq(Nat) /\ backoffs[k] \in Nat /\ cost \in Nat
        /\ now \in Nat \ {0}
    BY ReadyToAsk
  <2> QED
    BY <2>1, NextSlotAgrees, EntryStamped DEF ReplyAt, CanFit
<1> QED
  BY <1>1, IInvInvariant, OrderInvariant, PTL

\* checkAndRecord: a caller that is alone, sleeps as told and asks again is admitted after
\* at most five sleeps, one for the backoff and one for each of the four limits.
THEOREM StoreLoneWaiterAdmitted == Spec => []LoneWaiterAdmitted
<1>1. IInv /\ OrderInv /\ DailyBounded => LoneWaiterAdmitted
  <2> SUFFICES ASSUME IInv, OrderInv, DailyBounded, NEW k \in Key, NEW cost \in Estimate, CanFit(cost)
               PROVE  LET sleep(t) == IF ReplyAt(k, cost, t) = 0 THEN t ELSE ReplyAt(k, cost, t)
                          woken == sleep(sleep(sleep(sleep(sleep(now)))))
                      IN  ReplyAt(k, cost, woken) = 0
    BY DEF LoneWaiterAdmitted
  <2> DEFINE sleep(t) == IF ReplyAt(k, cost, t) = 0 THEN t ELSE ReplyAt(k, cost, t)
  <2> DEFINE passes(n, t) == Passes(n, limits, windows[k], dailyWindows[k], backoffs[k], cost, t)
  <2>1. /\ limits \in Limits /\ windows[k] \in Seq(Entry) /\ Ascending(windows[k])
        /\ dailyWindows[k] \in Seq(Nat) /\ backoffs[k] \in Nat /\ cost \in Nat
        /\ now \in Nat /\ Len(windows[k]) <= limits.rpm
        /\ limits.rpd # Undefined => Len(dailyWindows[k]) <= limits.rpd
    BY ReadyToAsk DEF DailyBounded
  <2>2. Fits(limits, cost)
    BY <2>1, FitsEmptyStore DEF CanFit
  <2>3. ASSUME NEW n \in 0 .. 4, NEW t \in Nat, passes(n, t)
        PROVE  sleep(t) \in Nat /\ passes(n + 1, sleep(t))
    BY <2>1, <2>2, <2>3, SleepPasses, EntryStamped DEF ReplyAt
  <2>4. passes(0, now)
    BY DEF Passes
  <2> HIDE DEF passes, sleep
  <2> DEFINE t1 == sleep(now)
  <2> DEFINE t2 == sleep(t1)
  <2> DEFINE t3 == sleep(t2)
  <2> DEFINE t4 == sleep(t3)
  <2> DEFINE t5 == sleep(t4)
  <2> HIDE DEF t1, t2, t3, t4, t5
  <2>5. t1 \in Nat /\ passes(1, t1)
    BY <2>1, <2>3, <2>4 DEF t1
  <2>6. t2 \in Nat /\ passes(2, t2)
    BY <2>3, <2>5 DEF t2
  <2>7. t3 \in Nat /\ passes(3, t3)
    BY <2>3, <2>6 DEF t3
  <2>8. t4 \in Nat /\ passes(4, t4)
    BY <2>3, <2>7 DEF t4
  <2>9. t5 \in Nat /\ passes(5, t5)
    BY <2>3, <2>8 DEF t5
  <2>10. ReplyAt(k, cost, t5) = 0
    BY <2>1, <2>9, ReplyZero, EntryStamped DEF ReplyAt, passes
  <2> QED
    BY <2>10 DEF t1, t2, t3, t4, t5, sleep
<1> QED
  BY <1>1, IInvInvariant, OrderInvariant, DailyBoundInvariant, PTL


(***************************************************************************)
(* What a limiter tells about its keys.  A key is busy while a request of  *)
(* the last minute is in its window or a call waits in its queue.          *)
(***************************************************************************)
Live(w, t) == \E i \in 1 .. Len(w) : w[i].timestamp + WINDOW_MS > t

\* Eviction keeps something exactly of the windows in which something is live, and
\* what it keeps is live.
LEMMA EvictKeepsLive ==
  ASSUME NEW w \in Seq(Entry), NEW t \in Nat
  PROVE  /\ Len(EvictWindow(w, t)) > 0 <=> Live(w, t)
         /\ Live(EvictWindow(w, t), t) <=> Live(w, t)
<1> DEFINE live == {i \in DOMAIN w : w[i].timestamp > t - WINDOW_MS}
<1>0. /\ DOMAIN w = 1 .. Len(w) /\ Len(w) \in Nat /\ WINDOW_MS \in Nat
      /\ \A i \in 1 .. Len(w) : w[i].timestamp \in Nat
  <2>1. \A i \in 1 .. Len(w) : w[i] \in Entry
    BY ElementOfSeq
  <2> QED
    BY <2>1, LenProperties, WindowAssumption DEF Entry
<1>1. \A i \in 1 .. Len(w) : i \in live <=> w[i].timestamp + WINDOW_MS > t
  BY <1>0
<1>2. EvictWindow(w, t) = SuffixFrom(w, live)
  BY DEF EvictWindow
<1>3. live \in SUBSET DOMAIN w
  OBVIOUS
<1> HIDE DEF live
<1>4. PICK c \in 0 .. Len(w) :
        /\ SuffixFrom(w, live) = Suffix(w, c)
        /\ \A i \in 1 .. c : i \notin live
        /\ c < Len(w) => c + 1 \in live
  BY <1>3, SuffixFromIs
<1> DEFINE e == Suffix(w, c)
<1>5. e \in Seq(Entry) /\ Len(e) = Len(w) - c /\ \A i \in 1 .. Len(w) - c : e[i] = w[c + i]
  BY SuffixIs
<1>6. EvictWindow(w, t) = e
  BY <1>2, <1>4
<1> HIDE DEF e
<1>7. Live(w, t) <=> c < Len(w)
  <2>1. ASSUME c < Len(w) PROVE Live(w, t)
    BY <1>0, <1>1, <1>4, <2>1 DEF Live
  <2>2. ASSUME NEW i \in 1 .. Len(w), w[i].timestamp + WINDOW_MS > t PROVE c < Len(w)
    <3>1. i \notin 1 .. c
      BY <1>1, <1>4, <2>2
    <3> QED
      BY <1>0, <3>1
  <2> QED
    BY <2>1, <2>2 DEF Live
<1>8. Live(e, t) <=> c < Len(w)
  <2>1. ASSUME c < Len(w) PROVE Live(e, t)
    <3>1. 1 \in 1 .. Len(w) - c /\ c + 1 \in 1 .. Len(w)
      BY <1>0, <2>1
    <3>2. w[c + 1].timestamp + WINDOW_MS > t
      BY <1>1, <1>4, <2>1, <3>1
    <3>3. 1 \in 1 .. Len(e) /\ e[1] = w[c + 1]
      BY <1>5, <3>1
    <3> QED
      BY <3>2, <3>3 DEF Live
  <2>2. ASSUME NEW i \in 1 .. Len(e) PROVE c < Len(w)
    BY <1>0, <1>5
  <2> QED
    BY <2>1, <2>2 DEF Live
<1>9. Len(e) > 0 <=> c < Len(w)
  BY <1>0, <1>5
<1> QED
  BY <1>6, <1>7, <1>8, <1>9

-----------------------------------------------------------------------------
(* The store under the calls.  Reading a status and pruning names evict    *)
(* many windows at once; every other step is one of the store.             *)

\* Some windows are evicted, and nothing else of the store changes.
Evicting ==
  /\ \E K \in SUBSET Key :
       windows' = [k \in Key |-> IF k \in K THEN EvictWindow(windows[k], now) ELSE windows[k]]
  /\ UNCHANGED <<now, dailyWindows, backoffs, pruneCounter, log, asked>>

StoreInv == IInv /\ BackoffInv /\ OrderInv

LEMMA EvictingKeepsStore == ASSUME StoreInv, Evicting PROVE StoreInv'
<1>0. /\ TypeOK /\ RpmBound /\ now \in Nat
      /\ \A k \in Key : /\ windows[k] \in Seq(Entry) /\ log[k] \in Seq(Nat)
                        /\ Len(windows[k]) <= limits.rpm /\ Len(windows[k]) \in Nat
                        /\ Remembers(windows[k], log[k], now) /\ InOrder(windows[k], now)
  BY LenProperties DEF StoreInv, IInv, TypeOK, OrderInv
<1>1. PICK K \in SUBSET Key :
        windows' = [k \in Key |-> IF k \in K THEN EvictWindow(windows[k], now) ELSE windows[k]]
  BY DEF Evicting
<1>2. ASSUME NEW k \in Key
      PROVE  /\ windows'[k] \in Seq(Entry) /\ Len(windows'[k]) <= limits.rpm
             /\ Remembers(windows'[k], log[k], now) /\ InOrder(windows'[k], now)
  <2> DEFINE e == EvictWindow(windows[k], now)
  <2>1. e \in Seq(Entry) /\ Len(e) <= Len(windows[k]) /\ Remembers(e, log[k], now)
    BY <1>0, EvictWindowRemembers
  <2>2. InOrder(e, now)
    BY <1>0, EvictInOrder
  <2>3. Len(e) \in Nat /\ limits.rpm \in Nat
    BY <2>1, LenProperties, StoreAssumption DEF Limits
  <2>4. windows'[k] = e \/ windows'[k] = windows[k]
    BY <1>1
  <2> HIDE DEF e
  <2>5. Len(e) <= limits.rpm
    BY <1>0, <2>1, <2>3
  <2> QED
    BY <1>0, <2>1, <2>2, <2>4, <2>5
<1>3. windows' \in [Key -> Seq(Entry)]
  BY <1>1, <1>2
<1>4. UNCHANGED <<now, dailyWindows, backoffs, pruneCounter, log, asked>>
  BY DEF Evicting
<1>5. TypeOK'
  BY <1>0, <1>2, <1>3, <1>4 DEF TypeOK
<1>6. IInv'
  BY <1>0, <1>2, <1>4, <1>5 DEF IInv, RpmBound
<1>7. BackoffInv' /\ OrderInv'
  BY <1>2, <1>4 DEF StoreInv, BackoffInv, OrderInv
<1> QED
  BY <1>6, <1>7 DEF StoreInv

Pc == {"idle", "granted", "refused", "waiting", "orphaned", "running"}

StatusTyped == call \in [Call -> [pc : Pc, time : Nat]] /\ known \subseteq Key /\ keyMeta \subseteq Key

LEMMA StepOfStore ==
  ASSUME StatusTyped, [StatusNext]_statusVars
  PROVE  [Next]_vars \/ Evicting
<1>1. ASSUME NEW c \in Call, NEW to, StoreAnswers(c, to) PROVE Next
  BY <1>1, KeyStatusAssumption DEF StoreAnswers, CheckAndRecord, KeyStep, StoreNext, Next
<1>2. ASSUME NEW c \in Call, Execute(c) \/ Drain(c) PROVE Next
  BY <1>1, <1>2 DEF Execute, Drain
<1>3. ASSUME NEW c \in Call, Proceed(c) PROVE [Next]_vars \/ Evicting
  <2>1. CASE executeCount' = 0
    BY <1>3, <2>1 DEF Proceed, PruneKeyMeta, Evicting, StatusTyped
  <2>2. CASE executeCount' # 0
    BY <1>3, <2>2 DEF Proceed, vars, storeVars
  <2> QED
    BY <2>1, <2>2
<1>4. ASSUME NEW c \in Call, Enqueue(c) \/ QueueTimeout(c) \/ Finish(c) PROVE UNCHANGED vars
  BY <1>4 DEF Enqueue, QueueTimeout, Finish
<1>5. ASSUME NEW c \in Call, ToldToWait(c) PROVE Next
  BY <1>5, KeyStatusAssumption DEF ToldToWait, KeyStep, StoreNext, Next
<1>6. CASE GetStatus
  BY <1>6 DEF GetStatus, Evicting, StatusTyped
<1>7. ASSUME NEW m, AskWait(m) PROVE Next
  BY <1>7 DEF AskWait, Resolved, KeyStep, StoreNext, Next, StatusTyped
<1>8. CASE ResetAll
  BY <1>8 DEF ResetAll, StoreNext, Next
<1>9. CASE UNCHANGED statusVars
  BY <1>9 DEF statusVars
<1> QED
  BY <1>2, <1>3, <1>4, <1>5, <1>6, <1>7, <1>8, <1>9 DEF StatusNext, StatusStep, CallStep, Next

LEMMA StatusKeepsStore == StatusTyped /\ StoreInv /\ [StatusNext]_statusVars => StoreInv'
<1> SUFFICES ASSUME StatusTyped, StoreInv, [StatusNext]_statusVars PROVE StoreInv'
  OBVIOUS
<1>1. CASE [Next]_vars
  BY <1>1, NextKeepsIInv, NextKeepsBackoffs, NextKeepsOrder DEF StoreInv
<1>2. CASE Evicting
  BY <1>2, EvictingKeepsStore
<1> QED
  BY <1>1, <1>2, StepOfStore

LEMMA StatusKeepsTypes ==
  now \in Nat /\ StatusTyped /\ [StatusNext]_statusVars => StatusTyped'
<1> SUFFICES ASSUME now \in Nat, StatusTyped, [StatusNext]_statusVars PROVE StatusTyped'
  OBVIOUS
<1>0. \A pc \in Pc, t \in Nat : At(pc, t) \in [pc : Pc, time : Nat]
  BY DEF At
<1>1. now + TimeoutMs \in Nat /\ keyOf \in [Call -> Key]
  BY KeyStatusAssumption
<1>2. ASSUME NEW c \in Call, CallStep(c) PROVE StatusTyped'
  <2>1. known' \in SUBSET Key /\ keyMeta' \in SUBSET Key
    BY <1>1, <1>2 DEF CallStep, Execute, Proceed, PruneKeyMeta, Enqueue, Drain, QueueTimeout, ToldToWait,
                      Finish, pipelineVars, StatusTyped
  <2>2. call' = call \/ \E to \in [pc : Pc, time : Nat] : Go(c, to)
    BY <1>0, <1>1, <1>2 DEF CallStep, Execute, StoreAnswers, Proceed, Enqueue, Drain, QueueTimeout,
                            ToldToWait, Finish, StatusTyped, Pc
  <2> QED
    BY <2>1, <2>2 DEF Go, StatusTyped
<1>3. CASE GetStatus \/ (\E k \in Key : AskWait(modelOf[k])) \/ UNCHANGED <<call, pipelineVars>>
  BY <1>3 DEF GetStatus, AskWait, pipelineVars, StatusTyped
<1>4. CASE ResetAll
  BY <1>0, <1>1, <1>4 DEF ResetAll, StatusTyped, Pc
<1> QED
  BY <1>2, <1>3, <1>4 DEF StatusNext, StatusStep, statusVars

-----------------------------------------------------------------------------
(* Names.  A key that was not backed off is known and named while it is    *)
(* busy.  What keeps a prune from forgetting the name of a call that was   *)
(* refused, and is about to wait, is the request it was refused for, which *)
(* is still in the window: time does not pass before the call has queued.  *)

\* On an empty minute window no request is refused, whatever its time.
AdmitsWhenIdle ==
  limits.rpd = Undefined /\ Fits(limits, 0) /\ \A c \in Call : Fits(limits, est[c])

Named(k) ==
  asked[k] = 0 =>
    /\ Live(windows[k], now) \/ Queued(k) # {} => k \in known \cap keyMeta
    /\ \A c \in Call : keyOf[c] = k /\ IsAt(c, "refused") => Live(windows[k], now)

StatusInv == StatusTyped /\ StoreInv /\ \A k \in Key : Named(k)

\* What a step may do to the windows.
LEMMA LiveAfter ==
  ASSUME StoreInv, NEW k \in Key
  PROVE  /\ now' = now /\ windows'[k] \in {windows[k], EvictWindow(windows[k], now)}
              => (Live(windows[k], now)' <=> Live(windows[k], now))
         /\ Evicting => windows'[k] \in {windows[k], EvictWindow(windows[k], now)} /\ now' = now
         /\ Tick => (Live(windows[k], now)' => Live(windows[k], now))
<1>1. windows[k] \in Seq(Entry) /\ now \in Nat
  BY DEF StoreInv, IInv, TypeOK
<1>2. ASSUME now' = now, windows'[k] \in {windows[k], EvictWindow(windows[k], now)}
      PROVE  Live(windows[k], now)' <=> Live(windows[k], now)
  <2>1. Live(EvictWindow(windows[k], now), now) <=> Live(windows[k], now)
    BY <1>1, EvictKeepsLive
  <2>2. Live(windows[k], now)' <=> Live(windows'[k], now)
    BY <1>2 DEF Live
  <2> QED
    BY <1>2, <2>1, <2>2
<1>3. ASSUME Tick, Live(windows[k], now)' PROVE Live(windows[k], now)
  <2>1. now' = now + 1 /\ windows' = windows
    BY <1>3 DEF Tick, storeVars
  <2>2. PICK i \in 1 .. Len(windows[k]) : windows[k][i].timestamp + WINDOW_MS > now + 1
    BY <1>3, <2>1 DEF Live
  <2>3. windows[k][i] \in Entry
    BY <1>1, ElementOfSeq
  <2>4. windows[k][i].timestamp + WINDOW_MS > now
    <3>1. windows[k][i].timestamp \in Nat /\ WINDOW_MS \in Nat
      BY <2>3, WindowAssumption DEF Entry
    <3> QED
      BY ONLY <1>1, <2>2, <3>1
  <2> QED
    BY <2>4 DEF Live
<1>4. Evicting => windows'[k] \in {windows[k], EvictWindow(windows[k], now)} /\ now' = now
  BY DEF Evicting
<1> QED
  BY <1>2, <1>3, <1>4

\* A request that is admitted is live.
LEMMA RecordMakesLive ==
  ASSUME StoreInv, NEW k \in Key, NEW e \in Estimate, Record(k, e)
  PROVE  Live(windows[k], now)'
<1> DEFINE entry == [timestamp |-> now, inputTokens |-> e, outputTokens |-> 0]
           w == EvictWindow(windows[k], now)
           ws == [windows EXCEPT ![k] = Append(w, entry)]
<1>1. now \in Nat /\ windows[k] \in Seq(Entry) /\ windows \in [Key -> Seq(Entry)]
  BY DEF StoreInv, IInv, TypeOK
<1>2. w \in Seq(Entry) /\ entry \in Entry
  <2>1. w \in Seq(Entry)
    BY <1>1, EvictWindowType, EntryStamped
  <2>2. e \in Nat
    BY StoreAssumption
  <2> QED
    BY <1>1, <2>1, <2>2 DEF Entry
<1>3. ws[k] = Append(w, entry)
  BY <1>1
<1> HIDE DEF w
<1>4. ws[k] \in Seq(Entry) /\ Live(ws[k], now)
  <2>1. Append(w, entry) \in Seq(Entry) /\ Len(Append(w, entry)) = Len(w) + 1
        /\ Append(w, entry)[Len(w) + 1] = entry
    BY <1>2, AppendProperties
  <2>2. Len(w) + 1 \in 1 .. Len(w) + 1 /\ entry.timestamp + WINDOW_MS > now
    BY <1>1, <1>2, LenProperties, WindowAssumption
  <2> QED
    BY <1>3, <2>1, <2>2 DEF Live
<1>5. now' = now /\ \E ds : Pruned(pruneCounter' = 0, ws, ds)
  BY DEF Record, w, entry
<1> HIDE DEF ws
<1>6. windows'[k] \in {ws[k], EvictWindow(ws[k], now)} /\ now' = now
  BY <1>5 DEF Pruned
<1>7. Live(windows'[k], now)
  <2>1. Live(EvictWindow(ws[k], now), now)
    BY <1>1, <1>4, EvictKeepsLive
  <2> QED
    BY <1>4, <1>6, <2>1
<1> QED
  BY <1>6, <1>7 DEF Live

\* The store touches the windows of other keys, and those of a key it refuses, at most
\* by evicting.
LEMMA AnswerTouches ==
  ASSUME StoreInv, NEW k \in Key, NEW j \in Key, NEW e \in Estimate,
         Refuse(j, e) \/ (Record(j, e) /\ j # k)
  PROVE  windows'[k] \in {windows[k], EvictWindow(windows[k], now)} /\ now' = now /\ asked' = asked
<1>0. windows \in [Key -> Seq(Entry)]
  BY DEF StoreInv, IInv, TypeOK
<1>1. CASE Refuse(j, e)
  BY <1>0, <1>1 DEF Refuse
<1>2. CASE Record(j, e) /\ j # k
  <2> DEFINE entry == [timestamp |-> now, inputTokens |-> e, outputTokens |-> 0]
             ws == [windows EXCEPT ![j] = Append(EvictWindow(windows[j], now), entry)]
  <2>1. now' = now /\ asked' = asked /\ \E ds : Pruned(pruneCounter' = 0, ws, ds)
    BY <1>2 DEF Record
  <2>2. ws[k] = windows[k]
    BY <1>0, <1>2
  <2> HIDE DEF ws
  <2> QED
    BY <2>1, <2>2 DEF Pruned
<1> QED
  BY <1>1, <1>2

\* A request that fits is admitted by an empty store.
LEMMA FitsAdmitted ==
  ASSUME NEW e \in Nat, Fits(limits, e), NEW t \in Nat
  PROVE  CheckReply(limits, <<>>, <<>>, 0, e, t) = 0
<1>1. <<>> \in Seq(Entry) /\ <<>> \in Seq(Nat) /\ Len(<<>>) = 0 /\ Ascending(<<>>) /\ t <= t
      /\ limits \in Limits
  BY EmptySeq, StoreAssumption DEF Ascending
<1>2. EvictWindow(<<>>, t) = <<>>
  <2>1. EvictWindow(<<>>, t) \in Seq(Entry) /\ Len(EvictWindow(<<>>, t)) <= 0
    BY <1>1, EvictLater, EntryStamped
  <2> QED
    BY <2>1, EmptySeq, LenProperties
<1>3. EvictDaily(<<>>, t) = <<>>
  <2>1. EvictDaily(<<>>, t) \in Seq(Nat) /\ Len(EvictDaily(<<>>, t)) <= 0
    BY <1>1, EvictDailyLater
  <2> QED
    BY <2>1, EmptySeq, LenProperties
<1>4. ~RpmFull(limits, <<>>) /\ ~RpdFull(limits, <<>>)
  BY <1>1 DEF RpmFull, RpdFull, Fits, Limits
<1>5. ~ItpmFull(limits, <<>>, e)
  BY <1>1, SumInputOfNone DEF ItpmFull, Fits, Limits
<1>6. ~OtpmFull(limits, <<>>)
  BY <1>1, SumOutputOfNone DEF OtpmFull, Fits, Limits
<1>7. Passes(5, limits, <<>>, <<>>, 0, e, t)
  BY <1>2, <1>3, <1>4, <1>5, <1>6 DEF Passes
<1>8. ASSUME NEW w \in Seq(Entry), Ascending(w), NEW d \in Seq(Nat), NEW until \in Nat,
             Passes(5, limits, w, d, until, e, t)
      PROVE  CheckReply(limits, w, d, until, e, t) = 0
  BY <1>1, <1>8, ReplyZero, EntryStamped
<1>9. 0 \in Nat
  OBVIOUS
<1> QED
  BY <1>1, <1>7, <1>8, <1>9

\* Without a backoff, only a busy key refuses.
LEMMA RefusesWhenBusy ==
  ASSUME StoreInv, limits.rpd = Undefined, NEW e \in Nat, Fits(limits, e), NEW k \in Key,
         asked[k] = 0, ReplyAt(k, e, now) # 0
  PROVE  Live(windows[k], now)
<1> SUFFICES ASSUME ~Live(windows[k], now) PROVE FALSE
  OBVIOUS
<1>1. windows[k] \in Seq(Entry) /\ now \in Nat /\ now > 0 /\ limits \in Limits
  BY StoreAssumption DEF StoreInv, IInv, TypeOK, OrderInv
<1>2. backoffs[k] = 0
  BY DEF StoreInv, BackoffInv
<1>3. EvictWindow(windows[k], now) = <<>>
  <2>1. EvictWindow(windows[k], now) \in Seq(Entry) /\ ~(Len(EvictWindow(windows[k], now)) > 0)
    BY <1>1, EvictWindowType, EntryStamped, EvictKeepsLive
  <2> QED
    BY <2>1, EmptySeq, LenProperties
<1>4. ~RpmFull(limits, <<>>)
  BY <1>1, EmptySeq DEF RpmFull, Fits, Limits
<1>5. ~ItpmFull(limits, <<>>, e)
  BY <1>1, SumInputOfNone DEF ItpmFull, Fits, Limits
<1>6. ~OtpmFull(limits, <<>>)
  BY <1>1, SumOutputOfNone DEF OtpmFull, Fits, Limits
<1>7. Passes(5, limits, windows[k], dailyWindows[k], backoffs[k], e, now)
  BY <1>1, <1>2, <1>3, <1>4, <1>5, <1>6 DEF Passes, RpdFull
<1>8. dailyWindows[k] \in Seq(Nat) /\ backoffs[k] \in Nat /\ Ascending(windows[k])
  BY DEF StoreInv, IInv, TypeOK, OrderInv, InOrder
<1>9. CheckReply(limits, windows[k], dailyWindows[k], backoffs[k], e, now) = 0
  BY <1>1, <1>7, <1>8, ReplyZero, EntryStamped
<1> QED
  BY <1>9 DEF ReplyAt

LEMMA AnswerKeepsNamed ==
  ASSUME AdmitsWhenIdle, StatusInv, NEW c \in Call, NEW to, StoreAnswers(c, to),
         to.pc = "refused" \/ (to = call[c] /\ IsAt(c, "waiting")), ~IsAt(c, "refused"),
         keyOf[c] \in known', keyOf[c] \in keyMeta',
         known \subseteq known', keyMeta \subseteq keyMeta',
         NEW k \in Key
  PROVE  Named(k)'
<1>0. /\ StoreInv /\ Named(k) /\ keyOf[c] \in Key /\ est[c] \in Estimate /\ est[c] \in Nat
      /\ call \in [Call -> [pc : Pc, time : Nat]]
  BY KeyStatusAssumption, StoreAssumption DEF StatusInv, StatusTyped
<1>1. \A d \in Call \ {c} : call'[d] = call[d]
  BY <1>0 DEF StoreAnswers, Go
<1>2. call'[c] = to \/ call'[c] = At("granted", 0)
  BY <1>0 DEF StoreAnswers, Go
<1>3. asked' = asked /\ now' = now
  BY DEF StoreAnswers, Record, Refuse
<1>4. CASE keyOf[c] = k
  <2>1. CASE Record(k, est[c])
    BY <1>0, <1>4, <2>1, RecordMakesLive DEF Named
  <2>2. CASE Refuse(k, est[c]) /\ asked[k] = 0
    <3>1. Live(windows[k], now)
      BY <1>0, <2>2, RefusesWhenBusy DEF AdmitsWhenIdle, Refuse
    <3>2. Live(windows[k], now)'
      BY <1>0, <2>2, <3>1, AnswerTouches, LiveAfter
    <3> QED
      BY <1>4, <3>2 DEF Named
  <2> QED
    BY <1>3, <1>4, <2>1, <2>2 DEF StoreAnswers, Named
<1>5. CASE keyOf[c] # k
  <2>1. Live(windows[k], now)' <=> Live(windows[k], now)
    <3>1. windows'[k] \in {windows[k], EvictWindow(windows[k], now)}
      BY <1>0, <1>5, AnswerTouches DEF StoreAnswers
    <3> QED
      BY <1>0, <1>3, <3>1, LiveAfter
  <2>2. Queued(k)' = Queued(k)
    BY <1>1, <1>5 DEF Queued, IsAt
  <2>3. \A d \in Call : keyOf[d] = k => call'[d] = call[d]
    BY <1>1, <1>5
  <2> QED
    BY <1>0, <1>3, <2>1, <2>2, <2>3 DEF Named, IsAt
<1> QED
  BY <1>4, <1>5

\* A step that leaves the queue and the names of the key alone, and its backoff.
LEMMA StillNamed ==
  ASSUME NEW k \in Key, Named(k), asked'[k] = asked[k], Live(windows[k], now)' <=> Live(windows[k], now),
         Queued(k)' \subseteq Queued(k), k \in known \cap keyMeta => k \in known' \cap keyMeta',
         \A c \in Call : keyOf[c] = k /\ IsAt(c, "refused")' => IsAt(c, "refused")
  PROVE  Named(k)'
BY DEF Named

LEMMA CallKeepsNamed ==
  ASSUME AdmitsWhenIdle, StatusInv, NEW c \in Call, CallStep(c), NEW k \in Key
  PROVE  Named(k)'
<1>0. /\ StoreInv /\ Named(k) /\ call \in [Call -> [pc : Pc, time : Nat]]
      /\ known \subseteq Key /\ keyMeta \subseteq Key
      /\ keyOf[c] \in Key /\ est[c] \in Estimate
  BY KeyStatusAssumption DEF StatusInv, StatusTyped
<1>1. ASSUME NEW to, Go(c, to) PROVE call'[c] = to /\ \A d \in Call \ {c} : call'[d] = call[d]
  BY <1>0, <1>1 DEF Go
<1>2. ASSUME NEW to, Go(c, to), to.pc \notin {"waiting", "refused"}
      PROVE  /\ Queued(k)' \subseteq Queued(k)
             /\ \A d \in Call : keyOf[d] = k /\ IsAt(d, "refused")' => IsAt(d, "refused")
  <2>1. call'[c] = to /\ \A d \in Call \ {c} : call'[d] = call[d]
    BY <1>1, <1>2
  <2> QED
    BY <1>2, <2>1 DEF Queued, IsAt
<1>3. CASE Execute(c)
  <2>1. ~IsAt(c, "refused") /\ keyOf[c] \in known' /\ keyOf[c] \in keyMeta'
        /\ known \subseteq known' /\ keyMeta \subseteq keyMeta'
    BY <1>3 DEF Execute, IsAt
  <2>2. StoreAnswers(c, At("refused", 0)) /\ At("refused", 0).pc = "refused"
    BY <1>3 DEF Execute, At
  <2> QED
    BY <2>1, <2>2, AnswerKeepsNamed
<1>4. CASE Drain(c)
  <2>0. ~IsAt(c, "refused") /\ IsAt(c, "waiting") /\ Quiet /\ UNCHANGED <<known, keyMeta>>
        /\ StoreAnswers(c, call[c])
    BY <1>4 DEF Drain, pipelineVars, IsAt
  <2>1. CASE keyOf[c] \in known \cap keyMeta
    BY <2>0, <2>1, AnswerKeepsNamed
  <2>2. CASE keyOf[c] \notin known \cap keyMeta
    <3>1. c \in Queued(keyOf[c])
      BY <2>0 DEF Queued
    <3>2. asked[keyOf[c]] # 0
      BY <1>0, <2>2, <3>1 DEF StatusInv, Named
    <3>3. CASE keyOf[c] = k
      BY <2>0, <3>2, <3>3 DEF StoreAnswers, Record, Refuse, Named
    <3>4. CASE keyOf[c] # k
      <4>1. windows'[k] \in {windows[k], EvictWindow(windows[k], now)} /\ now' = now /\ asked' = asked
        BY <1>0, <2>0, <3>4, AnswerTouches DEF StoreAnswers
      <4>2. Live(windows[k], now)' <=> Live(windows[k], now)
        BY <1>0, <4>1, LiveAfter
      <4>3. \A d \in Call : keyOf[d] = k => call'[d] = call[d]
        BY <1>1, <2>0, <3>4 DEF StoreAnswers
      <4>4. Queued(k)' \subseteq Queued(k)
        BY <4>3 DEF Queued, IsAt
      <4> QED
        BY <1>0, <2>0, <4>1, <4>2, <4>3, <4>4, StillNamed DEF IsAt
    <3> QED
      BY <3>3, <3>4
  <2> QED
    BY <2>1, <2>2
<1>5. CASE Proceed(c)
  <2>1. UNCHANGED <<now, asked, known>> /\ Go(c, At("running", 0)) /\ At("running", 0).pc = "running"
    BY <1>5 DEF Proceed, At
  <2>2. /\ Queued(k)' \subseteq Queued(k)
        /\ \A d \in Call : keyOf[d] = k /\ IsAt(d, "refused")' => IsAt(d, "refused")
    BY <1>2, <2>1
  <2>3. Live(windows[k], now)' <=> Live(windows[k], now)
    <3>1. windows'[k] \in {windows[k], EvictWindow(windows[k], now)}
      BY <1>5 DEF Proceed, PruneKeyMeta
    <3> QED
      BY <1>0, <2>1, <3>1, LiveAfter
  <2>4. CASE UNCHANGED keyMeta
    BY <1>0, <2>1, <2>2, <2>3, <2>4, StillNamed
  <2>5. CASE keyMeta' = {j \in keyMeta : ~Idle(j)}
    <3>1. CASE Idle(k)
      <4>1. windows[k] \in Seq(Entry) /\ now \in Nat
        BY <1>0 DEF StoreInv, IInv, TypeOK
      <4>2. ~Live(windows[k], now) /\ Queued(k) = {}
        BY <3>1, <4>1, EvictKeepsLive DEF Idle, Requests
      <4> QED
        BY <1>0, <2>1, <2>2, <2>3, <4>2 DEF Named
    <3>2. CASE ~Idle(k)
      BY <1>0, <2>1, <2>2, <2>3, <2>5, <3>2, StillNamed
    <3> QED
      BY <3>1, <3>2
  <2> QED
    BY <1>5, <2>4, <2>5 DEF Proceed, PruneKeyMeta
<1>6. CASE Enqueue(c)
  <2>1. UNCHANGED <<now, windows, asked, known, keyMeta>> /\ IsAt(c, "refused")
    BY <1>6 DEF Enqueue, vars, storeVars, pipelineVars
  <2>2. PICK to : Go(c, to) /\ to.pc \in {"waiting", "idle"}
    BY <1>6 DEF Enqueue, At
  <2>3. call'[c] = to /\ \A d \in Call \ {c} : call'[d] = call[d]
    BY <1>1, <2>2
  <2>4. CASE keyOf[c] = k
    BY <1>0, <2>1, <2>2, <2>3, <2>4 DEF Named, IsAt
  <2>5. CASE keyOf[c] # k
    <3>1. Queued(k)' = Queued(k)
      BY <2>3, <2>5 DEF Queued, IsAt
    <3> QED
      BY <1>0, <2>1, <2>3, <2>5, <3>1 DEF Named, IsAt
  <2> QED
    BY <2>4, <2>5
<1>7. CASE QueueTimeout(c) \/ Finish(c)
  <2>1. UNCHANGED <<now, windows, asked, known, keyMeta>>
    BY <1>7 DEF QueueTimeout, Finish, vars, storeVars, pipelineVars
  <2>2. Go(c, At("idle", 0)) /\ At("idle", 0).pc = "idle"
    BY <1>7 DEF QueueTimeout, Finish, At
  <2>3. /\ Queued(k)' \subseteq Queued(k)
        /\ \A d \in Call : keyOf[d] = k /\ IsAt(d, "refused")' => IsAt(d, "refused")
    BY <1>2, <2>2
  <2> QED
    BY <1>0, <2>1, <2>3, StillNamed
<1>8. CASE ToldToWait(c)
  <2>1. UNCHANGED <<now, windows, call, known, keyMeta>>
    BY <1>8 DEF ToldToWait, SetBackoff, pipelineVars
  <2>2. asked'[k] = asked[k] \/ asked'[k] # 0
    BY <1>0, <1>8, StoreAssumption DEF ToldToWait, SetBackoff, StoreInv, IInv, TypeOK, OrderInv
  <2> QED
    BY <1>0, <2>1, <2>2 DEF Named, Queued, IsAt
<1> QED
  BY <1>3, <1>4, <1>5, <1>6, <1>7, <1>8 DEF CallStep

LEMMA StatusKeepsInv ==
  ASSUME AdmitsWhenIdle
  PROVE  StatusInv /\ [StatusNext]_statusVars => StatusInv'
<1> SUFFICES ASSUME StatusInv, [StatusNext]_statusVars PROVE StatusInv'
  OBVIOUS
<1>0. StatusTyped /\ StoreInv /\ now \in Nat /\ \A k \in Key : Named(k)
  BY DEF StatusInv, StoreInv, IInv, TypeOK
<1>1. StatusTyped' /\ StoreInv'
  BY <1>0, StatusKeepsTypes, StatusKeepsStore
<1>2. ASSUME NEW k \in Key PROVE Named(k)'
  <2>1. ASSUME NEW c \in Call, CallStep(c) PROVE Named(k)'
    BY <2>1, CallKeepsNamed
  <2>2. ASSUME UNCHANGED <<now, asked, call, known, keyMeta>>,
               windows'[k] \in {windows[k], EvictWindow(windows[k], now)}
        PROVE  Named(k)'
    <3>1. Live(windows[k], now)' <=> Live(windows[k], now)
      BY <1>0, <2>2, LiveAfter
    <3> QED
      BY <1>0, <2>2, <3>1 DEF Named, Queued, IsAt
  <2>3. CASE GetStatus
    BY <2>2, <2>3 DEF GetStatus, pipelineVars
  <2>4. ASSUME NEW m, AskWait(m) PROVE Named(k)'
    <3>1. windows \in [Key -> Seq(Entry)]
      BY <1>0 DEF StoreInv, IInv, TypeOK
    <3> QED
      BY <2>2, <2>4, <3>1 DEF AskWait, NextSlotMs, pipelineVars
  <2>5. CASE ResetAll
    <3>1. Len(windows'[k]) = 0
      BY <2>5, EmptySeq DEF ResetAll, Reset
    <3>2. ~Live(windows[k], now)'
      BY <3>1 DEF Live
    <3>3. \A c \in Call : call'[c].pc \notin {"waiting", "refused"}
      <4> TAKE c \in Call
      <4>1. CASE IsAt(c, "waiting")
        BY <2>5, <4>1, Zenon DEF ResetAll, At
      <4> QED
        BY <2>5, <4>1 DEF ResetAll, At, IsAt
    <3> QED
      BY <3>2, <3>3 DEF Named, Queued, IsAt
  <2>6. CASE Quiet /\ Tick /\ UNCHANGED <<call, pipelineVars>>
    <3>1. UNCHANGED <<asked, call, known, keyMeta>>
      BY <2>6 DEF Tick, pipelineVars
    <3>2. Live(windows[k], now)' => Live(windows[k], now)
      BY <1>0, <2>6, LiveAfter
    <3>3. \A c \in Call : ~IsAt(c, "refused")'
      BY <2>6, <3>1 DEF Quiet, IsAt
    <3> QED
      BY <1>0, <3>1, <3>2, <3>3 DEF Named, Queued, IsAt
  <2>7. CASE UNCHANGED statusVars
    BY <2>2, <2>7 DEF statusVars, vars, storeVars, pipelineVars
  <2> QED
    BY <2>1, <2>3, <2>4, <2>5, <2>6, <2>7 DEF StatusNext, StatusStep
<1> QED
  BY <1>1, <1>2 DEF StatusInv

LEMMA StatusInvariant ==
  ASSUME AdmitsWhenIdle
  PROVE  StatusSpec => []StatusInv
<1>1. StatusInit => StatusInv
  <2> SUFFICES ASSUME StatusInit PROVE StatusInv
    OBVIOUS
  <2>1. StatusTyped
    BY DEF StatusInit, StatusTyped, At, Pc
  <2>2. StoreInv
    <3>1. Init
      BY DEF StatusInit
    <3>2. IInv
      BY <3>1, InitIInv
    <3>3. BackoffInv /\ OrderInv
      BY <3>1, EmptySeq DEF Init, BackoffInv, OrderInv, InOrder, Ascending
    <3> QED
      BY <3>2, <3>3 DEF StoreInv
  <2>3. ASSUME NEW k \in Key PROVE Named(k)
    <3>1. Len(windows[k]) = 0 /\ \A c \in Call : call[c].pc = "idle"
      BY EmptySeq DEF StatusInit, Init, At
    <3> QED
      BY <3>1 DEF Named, Live, Queued, IsAt
  <2> QED
    BY <2>1, <2>2, <2>3 DEF StatusInv
<1>2. StatusInv /\ [StatusNext]_statusVars => StatusInv'
  BY StatusKeepsInv
<1> QED
  BY <1>1, <1>2, PTL DEF StatusSpec

LEMMA BusyIs ==
  ASSUME StatusInv, NEW k \in Key, Busy(k), asked[k] = 0
  PROVE  k \in known \cap keyMeta
<1>1. windows[k] \in Seq(Entry) /\ now \in Nat /\ Named(k)
  BY DEF StatusInv, StoreInv, IInv, TypeOK
<1> QED
  BY <1>1, EvictKeepsLive DEF Busy, Requests, Named

\* getStatus and the middleware show every key that has requests of the last minute or
\* calls in its queue by its name, whatever prunes forget and whenever they run.
THEOREM StatusBusyKeysShown ==
  ASSUME AdmitsWhenIdle
  PROVE  StatusSpec => []BusyKeysShown
<1>1. StatusInv => BusyKeysShown
  BY BusyIs DEF BusyKeysShown, Shown, Status, ModelId, Busy
<1> QED
  BY <1>1, StatusInvariant, PTL

\* NextSlotAgrees for the windows of the store.
LEMMA SlotAgrees ==
  ASSUME limits \in Limits, NEW w \in Seq(Entry), Ascending(w), NEW d \in Seq(Nat),
         NEW until \in Nat, NEW e \in Nat, NEW t \in Nat \ {0},
         CheckReply(limits, <<>>, <<>>, 0, e, t) = 0
  PROVE  LET refusal == CheckReply(limits, w, d, until, e, t)
             next == NextSlotReply(limits, w, d, until, e, t)
         IN  next \in Nat /\ (next = 0 <=> refusal = 0) /\ next >= refusal
<1>1. Stamped(Entry)
  BY EntryStamped
<1> QED
  BY <1>1, NextSlotAgrees

\* estimatedWait is 0 exactly when a request of the model would go through at once.
THEOREM StatusWaitTold ==
  ASSUME AdmitsWhenIdle
  PROVE  StatusSpec => []WaitTold
<1>1. StatusInv => WaitTold
  <2> SUFFICES ASSUME StatusInv, NEW k \in Key \ Scoped, Busy(k), asked[k] = 0, OneProvider(k),
                      NEW wait \in EstimatedWait(modelOf[k])
               PROVE  wait = 0 <=> ReplyAt(k, 0, now) = 0
    BY DEF WaitTold
  <2> DEFINE told == CheckReply(limits, windows[k], dailyWindows[k], backoffs[k], 0, now)
             slot == NextSlotReply(limits, windows[k], dailyWindows[k], backoffs[k], 0, now)
  <2>0. 0 \in Nat
    OBVIOUS
  <2>1. k \in Resolved(modelOf[k])
    BY BusyIs DEF Resolved
  <2>2. Resolved(modelOf[k]) = {k}
    BY <2>1 DEF Resolved, OneProvider, StatusInv, StatusTyped
  <2>3. wait = IF slot > now THEN slot - now ELSE 0
    BY <2>1, <2>2 DEF EstimatedWait, WaitOf
  <2>4. /\ limits \in Limits /\ windows[k] \in Seq(Entry) /\ Ascending(windows[k])
        /\ dailyWindows[k] \in Seq(Nat) /\ backoffs[k] \in Nat /\ now \in Nat \ {0}
    BY StoreAssumption DEF StatusInv, StoreInv, IInv, TypeOK, OrderInv, InOrder
  <2>5. CheckReply(limits, <<>>, <<>>, 0, 0, now) = 0
    BY <2>4, FitsAdmitted DEF AdmitsWhenIdle
  <2>6. slot \in Nat /\ (slot = 0 <=> told = 0) /\ slot >= told
    BY <2>0, <2>4, <2>5, SlotAgrees
  <2>7. told \in Nat /\ (told # 0 => told > now)
    BY <2>0, <2>4, ReplyZero, EntryStamped
  <2> HIDE DEF told, slot
  <2>8. wait = 0 <=> told = 0
    BY <2>3, <2>4, <2>6, <2>7
  <2> QED
    BY <2>8 DEF told, ReplyAt
<1> QED
  BY <1>1, StatusInvariant, PTL
=============================================================================

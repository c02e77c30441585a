------------------------ MODULE RateLimitEngine_proofs ------------------------
(***************************************************************************)
(* Proofs about RateLimitEngine, for any number of requests, drain loops,  *)
(* resets and limits, with a local or a remote store: its types, that no   *)
(* wakeup of the queue and no concurrency slot is lost or leaked, and that *)
(* the queues are kept in order, drained in order and searched rightly.    *)
(***************************************************************************)
EXTENDS RateLimitEngine, SlidingWindow_proofs, FiniteSetTheorems

Home == LocalId \cup {None}
Place == [pc : ControlPoint, home : Home, time : Nat]
DrainState == [local : Home, head : Request \cup {Nobody}, reply : Nat]

\* A request inside the engine holds a LocalState that was made, and no time while it
\* is queued.
Lives(place) ==
  /\ place.pc \notin Outcome \cup {"idle"} => place.home \in 1 .. created
  /\ place.pc \in {"waiting", "parked"} => place.time = 0

\* The LocalStates: the entry of the map is the last one made, requests and drains
\* hold only states that were made, nobody is inside the engine without one, and
\* those not made yet have empty queues.
Structure ==
  /\ local # None => local = created
  /\ local = None => created < MaxLocals
  /\ \A r \in Request : Lives(req[r])
  /\ \A d \in Drain : Draining(d) => drain[d].local \in 1 .. created /\ drain[d].head # Nobody
  /\ \A g \in LocalId : g > created => waiters[g] = <<>>

IInv == TypeOK /\ Structure /\ NoLostWakeup

(***************************************************************************)
(* Types of the building blocks.                                           *)
(***************************************************************************)

\* The control points are well formed.
LEMMA PlacesTyped ==
  ASSUME NEW g \in Home, NEW t \in Nat
  PROVE  /\ Idle \in Place /\ Checking(g, t) \in Place /\ Waiting(g) \in Place
         /\ Granted(g) \in Place /\ Parked(g) \in Place /\ Woken(g) \in Place
         /\ Executing(g) \in Place
         /\ \A outcome \in Outcome : Ended(outcome) \in Place
BY DEF Idle, Checking, Waiting, Granted, Parked, Woken, Executing, Ended, At, Place, Home,
       ControlPoint

\* A call of the store answers a time and leaves a window.
LEMMA StoreCallTyped ==
  ASSUME TypeOK, NEW r \in Request, NEW call \in StoreCalls(r)
  PROVE  call.reply \in Nat /\ call.window \in Seq(Entry) /\ call.recorded \in SUBSET Request
<1> DEFINE answer == CheckReply(limits, window, <<>>, backoff, est[r], now)
<1> DEFINE entry == [timestamp |-> now, inputTokens |-> est[r], outputTokens |-> 0]
<1> DEFINE live == EvictWindow(window, now)
<1>1. answer \in Nat
  BY EmptySeq, EntryStamped, CheckReplyType DEF TypeOK
<1>2. live \in Seq(Entry)
  BY EvictWindowType, EntryStamped DEF TypeOK
<1>3. entry \in Entry
  BY EngineAssumption DEF TypeOK, Entry
<1>4. Append(live, entry) \in Seq(Entry)
  BY <1>2, <1>3, AppendProperties
<1>5. recorded \cup {r} \in SUBSET Request /\ recorded \in SUBSET Request
      /\ window \in Seq(Entry)
  BY DEF TypeOK
<1>6. call \in {IF answer = 0
                THEN [reply |-> 0, window |-> Append(live, entry), recorded |-> recorded \cup {r}]
                ELSE [reply |-> answer, window |-> live, recorded |-> recorded],
                [reply |-> 0, window |-> window, recorded |-> recorded]}
  BY DEF StoreCalls
<1> HIDE DEF answer, entry, live
<1> QED
  BY <1>1, <1>2, <1>4, <1>5, <1>6

LEMMA ScheduleDrainTyped ==
  ASSUME TypeOK, NEW at \in Nat, ScheduleDrain(at)
  PROVE  drainAt' \in [LocalId -> Nat]
BY DEF TypeOK, ScheduleDrain

\* What is left of the microtasks when an answer is handled.
LEMMA MicrotasksTyped ==
  ASSUME TypeOK
  PROVE  /\ \A p : Answered(p) \/ IsNext(p) => AfterAnswer \in Seq(Request \cup Drain)
         /\ \A p : IsNext(p) => Tail(microtasks) \in Seq(Request \cup Drain)
BY HeadTailProperties DEF TypeOK, AfterAnswer, Answered, IsNext

LEMMA AwaitStoreTyped ==
  ASSUME NEW p \in Request \cup Drain, NEW queue \in Seq(Request \cup Drain),
         AwaitStore(p, queue)
  PROVE  microtasks' \in Seq(Request \cup Drain)
BY AppendProperties DEF AwaitStore

(***************************************************************************)
(* Insertion into and removal from a queue.                                *)
(***************************************************************************)

LEMMA InsertAtProperties ==
  ASSUME NEW S, NEW s \in Seq(S), NEW p \in 1 .. Len(s) + 1, NEW x \in S
  PROVE  /\ InsertAt(s, p, x) \in Seq(S)
         /\ Len(InsertAt(s, p, x)) = Len(s) + 1
         /\ \A i \in 1 .. Len(s) + 1 :
              InsertAt(s, p, x)[i] = IF i < p THEN s[i] ELSE IF i = p THEN x ELSE s[i - 1]
<1> DEFINE n == Len(s)
<1> DEFINE a == SubSeq(s, 1, p - 1)
<1> DEFINE b == SubSeq(s, p, n)
<1> DEFINE ax == Append(a, x)
<1>1. n \in Nat /\ p \in Int /\ 1 <= p /\ p <= n + 1
  BY LenProperties
<1>2. \A i \in 1 .. n : s[i] \in S
  BY ElementOfSeq
<1>3. /\ a \in Seq(S) /\ Len(a) = p - 1
      /\ \A i \in 1 .. p - 1 : a[i] = s[i]
  BY <1>1, <1>2, SubSeqProperties
<1>4. /\ b \in Seq(S) /\ Len(b) = n - p + 1
      /\ \A i \in 1 .. n - p + 1 : b[i] = s[p + i - 1]
  BY <1>1, <1>2, SubSeqProperties
<1>5. InsertAt(s, p, x) = ax \o b
  <2>1. InsertAt(s, p, x) = (a \o <<x>>) \o b
    BY DEF InsertAt
  <2>2. a \o <<x>> = ax
    BY <1>3, AppendIsConcat
  <2> QED
    BY <2>1, <2>2
<1> HIDE DEF n, a, b
<1>6. /\ ax \in Seq(S) /\ Len(ax) = p
      /\ \A i \in 1 .. p - 1 : ax[i] = a[i]
      /\ ax[p] = x
  BY <1>1, <1>3, AppendProperties
<1> HIDE DEF ax
<1>7. /\ ax \o b \in Seq(S)
      /\ Len(ax \o b) = Len(ax) + Len(b)
      /\ \A i \in 1 .. Len(ax) + Len(b) :
           (ax \o b)[i] = IF i <= Len(ax) THEN ax[i] ELSE b[i - Len(ax)]
  BY <1>4, <1>6, ConcatProperties
<1>8. Len(ax) + Len(b) = n + 1
  BY <1>1, <1>4, <1>6
<1>9. ASSUME NEW i \in 1 .. n + 1
      PROVE  (ax \o b)[i] = IF i < p THEN s[i] ELSE IF i = p THEN x ELSE s[i - 1]
  <2>0. i \in Int /\ 1 <= i /\ i <= n + 1
    BY <1>1
  <2>1. CASE i < p
    <3>1. i \in 1 .. p - 1 /\ i <= p
      BY <1>1, <2>0, <2>1
    <3> QED
      BY <1>3, <1>6, <1>7, <1>8, <2>1, <3>1
  <2>2. CASE i = p
    <3>1. i <= p /\ ~(i < p)
      BY <1>1, <2>2
    <3> QED
      BY <1>6, <1>7, <1>8, <2>2, <3>1
  <2>3. CASE i > p
    <3>1. /\ i - p \in 1 .. n - p + 1 /\ p + (i - p) - 1 = i - 1
          /\ ~(i <= p) /\ ~(i < p) /\ i # p
      BY <1>1, <2>0, <2>3
    <3>2. b[i - p] = s[i - 1]
      BY <1>4, <3>1
    <3>3. (ax \o b)[i] = b[i - p]
      BY <1>6, <1>7, <1>8, <3>1
    <3> QED
      BY <3>1, <3>2, <3>3
  <2>4. i < p \/ i = p \/ i > p
    BY <1>1, <2>0
  <2> QED
    BY <2>1, <2>2, <2>3, <2>4
<1> QED
  BY <1>5, <1>7, <1>8, <1>9 DEF n

LEMMA RemoveAtProperties ==
  ASSUME NEW S, NEW s \in Seq(S), NEW p \in 1 .. Len(s)
  PROVE  /\ RemoveAt(s, p) \in Seq(S)
         /\ Len(RemoveAt(s, p)) = Len(s) - 1
         /\ \A i \in 1 .. Len(s) - 1 : RemoveAt(s, p)[i] = IF i < p THEN s[i] ELSE s[i + 1]
<1> DEFINE n == Len(s)
<1> DEFINE a == SubSeq(s, 1, p - 1)
<1> DEFINE b == SubSeq(s, p + 1, n)
<1>1. n \in Nat /\ p \in Int /\ 1 <= p /\ p <= n
  BY LenProperties
<1>2. \A i \in 1 .. n : s[i] \in S
  BY ElementOfSeq
<1>3. /\ a \in Seq(S) /\ Len(a) = p - 1
      /\ \A i \in 1 .. p - 1 : a[i] = s[i]
  BY <1>1, <1>2, SubSeqProperties
<1>4. /\ b \in Seq(S) /\ Len(b) = n - p
      /\ \A i \in 1 .. n - p : b[i] = s[p + i]
  <2> DEFINE q == p + 1
  <2>1. q \in Int /\ 1 <= q /\ q <= n + 1 /\ n - q + 1 = n - p
    BY <1>1
  <2>2. \A i \in 1 .. n - p : q + i - 1 = p + i
    BY <1>1
  <2>3. b = SubSeq(s, q, n)
    OBVIOUS
  <2> HIDE DEF q, n, b
  <2>4. /\ b \in Seq(S) /\ Len(b) = n - q + 1
        /\ \A i \in 1 .. n - q + 1 : b[i] = s[q + i - 1]
    BY <1>1, <1>2, <2>1, <2>3, SubSeqProperties DEF n
  <2>5. ASSUME NEW i \in 1 .. n - p
        PROVE  b[i] = s[p + i]
    BY <2>1, <2>2, <2>4
  <2> QED
    BY <2>1, <2>4, <2>5
<1>5. RemoveAt(s, p) = a \o b
  BY DEF RemoveAt
<1> HIDE DEF n, a, b
<1>6. /\ a \o b \in Seq(S) /\ Len(a \o b) = Len(a) + Len(b)
      /\ \A i \in 1 .. Len(a) + Len(b) :
           (a \o b)[i] = IF i <= Len(a) THEN a[i] ELSE b[i - Len(a)]
  BY <1>3, <1>4, ConcatProperties
<1>7. Len(a) + Len(b) = n - 1
  BY <1>1, <1>3, <1>4
<1>8. ASSUME NEW i \in 1 .. n - 1
      PROVE  (a \o b)[i] = IF i < p THEN s[i] ELSE s[i + 1]
  <2>0. i \in Int /\ 1 <= i /\ i <= n - 1
    BY <1>1
  <2>1. CASE i < p
    <3>1. i \in 1 .. p - 1 /\ i <= p - 1
      BY <1>1, <2>0, <2>1
    <3> QED
      BY <1>3, <1>6, <1>7, <2>1, <3>1
  <2>2. CASE i >= p
    <3>1. /\ i - (p - 1) \in 1 .. n - p /\ p + (i - (p - 1)) = i + 1
          /\ ~(i <= p - 1) /\ ~(i < p)
      BY <1>1, <2>0, <2>2
    <3>2. b[i - (p - 1)] = s[i + 1]
      BY <1>4, <3>1
    <3>3. (a \o b)[i] = b[i - (p - 1)]
      BY <1>3, <1>6, <1>7, <3>1
    <3> QED
      BY <3>1, <3>2, <3>3
  <2>3. i < p \/ i >= p
    BY <1>1, <2>0
  <2> QED
    BY <2>1, <2>2, <2>3
<1> QED
  BY <1>5, <1>6, <1>7, <1>8 DEF n

LEMMA FrontProperties ==
  ASSUME NEW S, NEW s \in Seq(S), s # <<>>
  PROVE  /\ Front(s) \in Seq(S)
         /\ Len(Front(s)) = Len(s) - 1
         /\ \A i \in 1 .. Len(s) - 1 : Front(s)[i] = s[i]
<1> DEFINE m == Len(s) - 1
<1>1. Len(s) \in Nat /\ Len(s) # 0
  BY EmptySeq, LenProperties
<1>2. m \in Nat /\ 1 <= m + 1 /\ m <= Len(s) /\ m - 1 + 1 = m
  BY <1>1
<1>3. \A i \in 1 .. m : s[i] \in S
  BY <1>1, ElementOfSeq
<1>4. Front(s) = SubSeq(s, 1, m)
  BY DEF Front
<1> HIDE DEF m
<1>5. /\ SubSeq(s, 1, m) \in Seq(S) /\ Len(SubSeq(s, 1, m)) = m
      /\ \A i \in 1 .. m : SubSeq(s, 1, m)[i] = s[i]
  BY <1>2, <1>3, SubSeqProperties
<1> QED
  BY <1>4, <1>5 DEF m

\* The place of a new waiter is a place of the queue or the one behind it.
LEMMA InsertionPointType ==
  ASSUME NEW queue \in Seq(Waiter), NEW w
  PROVE  InsertionPoint(queue, w) \in 1 .. Len(queue) + 1
<1> DEFINE places == {i \in DOMAIN queue : Before(w, queue[i])} \cup {Len(queue) + 1}
<1>1. Len(queue) \in Nat /\ DOMAIN queue = 1 .. Len(queue)
  BY LenProperties
<1>2. places \in SUBSET (1 .. Len(queue) + 1) /\ places # {}
  BY <1>1
<1>3. InsertionPoint(queue, w) = Min(places)
  BY DEF InsertionPoint
<1> HIDE DEF places
<1>4. places \in SUBSET Nat
  BY <1>1, <1>2
<1>5. Min(places) \in places
  BY <1>2, <1>4, MinOfNaturals
<1> QED
  BY <1>2, <1>3, <1>5

LEMMA InsertedTyped ==
  ASSUME NEW queue \in Seq(Waiter), NEW w \in Waiter
  PROVE  Inserted(queue, w) \in Seq(Waiter)
BY InsertionPointType, InsertAtProperties DEF Inserted

LEMMA WithoutTyped ==
  ASSUME NEW S, NEW s \in Seq(S), NEW at \in SUBSET DOMAIN s
  PROVE  /\ Without(s, at) \in Seq(S)
         /\ s = <<>> => Without(s, at) = <<>>
<1>1. CASE at = {}
  BY <1>1 DEF Without
<1>2. CASE at # {}
  <2>1. at \in SUBSET Nat /\ DOMAIN s = 1 .. Len(s)
    BY LenProperties
  <2>2. Min(at) \in at
    BY <1>2, <2>1, MinOfNaturals
  <2>3. Min(at) \in 1 .. Len(s)
    BY <2>1, <2>2
  <2>4. s # <<>>
    BY <2>3, EmptySeq
  <2>5. RemoveAt(s, Min(at)) \in Seq(S)
    BY <2>3, RemoveAtProperties
  <2> QED
    BY <1>2, <2>4, <2>5 DEF Without
<1> QED
  BY <1>1, <1>2

(***************************************************************************)
(* Parts of the inductive step that several actions share.                 *)
(***************************************************************************)

LEMMA HomesTyped ==
  ASSUME TypeOK
  PROVE  \A g \in 1 .. created : g \in LocalId /\ g \in Home /\ g # None
BY EngineAssumption DEF TypeOK, LocalId, None, Home

\* Where the steps of acquire leave a request.
LEMMA PlacesLive ==
  ASSUME TypeOK, NEW g \in 1 .. created, NEW t \in Nat
  PROVE  /\ Lives(Checking(g, t)) /\ Lives(Waiting(g)) /\ Lives(Granted(g)) /\ Lives(Parked(g))
         /\ Lives(Woken(g)) /\ Lives(Executing(g))
         /\ \A outcome \in Outcome : Lives(Ended(outcome))
BY DEF Lives, Checking, Waiting, Granted, Parked, Woken, Executing, Ended, At

LEMMA SetKeepsPlaces ==
  ASSUME IInv, NEW r \in Request, NEW place \in Place, Lives(place), Set(r, place)
  PROVE  req' \in [Request -> Place] /\ \A q \in Request : Lives(req'[q])
BY DEF IInv, TypeOK, Structure, Set, Place, Home

\* A request inside the engine has a LocalState.
LEMMA HomeOfRequest ==
  ASSUME IInv, NEW r \in Request, req[r].pc \notin Outcome \cup {"idle"}
  PROVE  req[r].home \in 1 .. created /\ req[r].home \in LocalId
BY HomesTyped DEF IInv, Structure, Lives

\* Steps that lengthen no queue and touch no timer and no drain lose no wakeup.
LEMMA WakeupKept ==
  ASSUME NoLostWakeup, UNCHANGED <<local, drainAt, drain>>,
         \A g \in LocalId : waiters[g] = <<>> => waiters'[g] = <<>>,
         local \in LocalId \cup {None}
  PROVE  NoLostWakeup'
BY DEF NoLostWakeup

LEMMA TakeConcurrencySlotKeeps ==
  ASSUME IInv, NEW r \in Request, req[r].pc \notin Outcome \cup {"idle"},
         TakeConcurrencySlot(r)
  PROVE  /\ req' \in [Request -> Place] /\ \A q \in Request : Lives(req'[q])
         /\ active' \in [LocalId -> Nat] /\ parked' \in [LocalId -> Seq(Request)]
<1> DEFINE g == req[r].home
<1>1. g \in 1 .. created /\ g \in LocalId /\ g \in Home
  BY HomeOfRequest DEF Home
<1>2. /\ active \in [LocalId -> Nat] /\ parked \in [LocalId -> Seq(Request)]
      /\ active[g] \in Nat /\ parked[g] \in Seq(Request)
  BY <1>1 DEF IInv, TypeOK
<1>3. PICK place \in {Executing(g), Ended("aborted"), Parked(g)} : Set(r, place)
  BY DEF TakeConcurrencySlot
<1>4. place \in Place /\ Lives(place)
  BY <1>1, PlacesTyped, PlacesLive DEF IInv, Outcome
<1>5. req' \in [Request -> Place] /\ \A q \in Request : Lives(req'[q])
  BY <1>3, <1>4, SetKeepsPlaces
<1>6. active' = active \/ active' = [active EXCEPT ![g] = @ + 1]
  BY DEF TakeConcurrencySlot
<1>7. active' \in [LocalId -> Nat]
  BY <1>1, <1>2, <1>6
<1>8. parked' = parked \/ parked' = [parked EXCEPT ![g] = Append(@, r)]
  BY DEF TakeConcurrencySlot
<1>9. Append(parked[g], r) \in Seq(Request)
  BY <1>2, AppendProperties
<1>10. parked' \in [LocalId -> Seq(Request)]
  BY <1>1, <1>2, <1>8, <1>9
<1> QED
  BY <1>5, <1>7, <1>10

(***************************************************************************)
(* The steps of a request.                                                 *)
(***************************************************************************)

LEMMA FailFastKeeps ==
  ASSUME IInv, NEW r \in Request, FailFast(r)
  PROVE  IInv'
<1>1. Ended("aborted") \in Place /\ Lives(Ended("aborted"))
  BY PlacesTyped DEF Outcome, Lives, Ended, At, Home, None
<1>2. req' \in [Request -> Place] /\ \A q \in Request : Lives(req'[q])
  BY <1>1, SetKeepsPlaces DEF FailFast
<1>3. UNCHANGED <<now, aborted, mapVars, queueVars, drain, microtasks, storeVars>>
  BY DEF FailFast
<1>4. TypeOK'
  BY <1>2, <1>3 DEF IInv, TypeOK, Place, Home, mapVars, queueVars, storeVars
<1>5. Structure'
  BY <1>2, <1>3 DEF IInv, Structure, Lives, Draining, mapVars, queueVars, storeVars
<1>6. NoLostWakeup'
  BY <1>3, WakeupKept DEF IInv, TypeOK, mapVars, queueVars
<1> QED
  BY <1>4, <1>5, <1>6 DEF IInv

LEMMA ArriveKeeps ==
  ASSUME IInv, NEW r \in Request, Arrive(r)
  PROVE  IInv'
<1>1. PICK call \in StoreCalls(r) : StoreBecomes(call) /\ Set(r, Checking(local', call.reply))
  BY DEF Arrive
<1>2. call.reply \in Nat /\ call.window \in Seq(Entry) /\ call.recorded \in SUBSET Request
  BY <1>1, StoreCallTyped DEF IInv
<1>3. window' \in Seq(Entry) /\ backoff' \in Nat /\ recorded' \subseteq Request
  BY <1>1, <1>2 DEF StoreBecomes, IInv, TypeOK
<1>4. UNCHANGED <<now, aborted, queueVars, drain>>
  BY DEF Arrive
<1>5. /\ local' = IF local = None THEN created + 1 ELSE local
      /\ created' = IF local = None THEN created + 1 ELSE created
  BY DEF Arrive
<1>6. /\ created \in Nat /\ created <= MaxLocals /\ MaxLocals \in Nat
      /\ local # None => local = created
      /\ local = None => created < MaxLocals
  BY EngineAssumption DEF IInv, TypeOK, Structure, LocalId, None
<1>7. /\ local' = created' /\ created' \in LocalId /\ created' # None
      /\ local' \in 1 .. created' /\ 1 .. created \subseteq 1 .. created'
      /\ created' >= created
  <2>1. created' \in Nat /\ created' >= 1 /\ created' >= created /\ created' <= MaxLocals
    BY <1>5, <1>6 DEF None
  <2>2. local' = created'
    BY <1>5, <1>6
  <2> QED
    BY <1>6, <2>1, <2>2 DEF LocalId, None
<1>8. microtasks' \in Seq(Request \cup Drain)
  <2>1. AwaitStore(r, microtasks) /\ microtasks \in Seq(Request \cup Drain)
    BY DEF Arrive, IInv, TypeOK
  <2> QED
    BY <2>1, AwaitStoreTyped
<1>9. Checking(local', call.reply) \in Place
  BY <1>2, <1>7, PlacesTyped DEF Home
<1>10. req' = [req EXCEPT ![r] = Checking(local', call.reply)] /\ req \in [Request -> Place]
  BY <1>1 DEF Set, IInv, TypeOK, Place, Home
<1>11. req' \in [Request -> Place]
  BY <1>9, <1>10
<1>12. ASSUME NEW q \in Request
       PROVE  Lives(req[q])'
  <2>1. CASE q = r
    <3>1. req'[q] = Checking(local', call.reply)
      BY <1>10, <2>1
    <3> QED
      BY <1>7, <3>1 DEF Lives, Checking, At
  <2>2. CASE q # r
    <3>1. req'[q] = req[q] /\ Lives(req[q])
      BY <1>10, <2>2 DEF IInv, Structure
    <3> QED
      BY <1>7, <3>1 DEF Lives
  <2> QED
    BY <2>1, <2>2
<1>13. TypeOK'
  <2>1. created' \in LocalId \cup {None} /\ local' \in LocalId \cup {None}
    BY <1>7
  <2> QED
    BY <1>3, <1>4, <1>8, <1>11, <2>1 DEF IInv, TypeOK, Place, Home, queueVars
<1>14. Structure'
  <2>1. \A d \in Drain : Draining(d)' => drain'[d].local \in 1 .. created' /\ drain'[d].head # Nobody
    BY <1>4, <1>7 DEF IInv, Structure, Draining
  <2>2. \A g \in LocalId : g > created' => waiters'[g] = <<>>
    BY <1>4, <1>6, <1>7 DEF IInv, Structure, queueVars, LocalId
  <2> QED
    BY <1>7, <1>12, <2>1, <2>2 DEF Structure
<1>15. NoLostWakeup'
  <2>1. CASE local = None
    <3>1. local' \in LocalId /\ local' > created
      BY <1>5, <1>6, <1>7, <2>1
    <3>2. waiters'[local'] = <<>>
      BY <1>4, <3>1 DEF IInv, Structure, queueVars
    <3> QED
      BY <3>2 DEF NoLostWakeup
  <2>2. CASE local # None
    BY <1>4, <1>5, <2>2 DEF IInv, NoLostWakeup, queueVars
  <2> QED
    BY <2>1, <2>2
<1> QED
  BY <1>13, <1>14, <1>15 DEF IInv

\* Admit and Proceed: the steps that go on to the semaphore.
LEMMA PastRateLimitKeeps ==
  ASSUME IInv, NEW r \in Request, req[r].pc \notin Outcome \cup {"idle"},
         TakeConcurrencySlot(r), microtasks' \in Seq(Request \cup Drain),
         UNCHANGED <<now, aborted, mapVars, waiters, drainAt, drain, storeVars>>
  PROVE  IInv'
<1>1. /\ req' \in [Request -> Place] /\ \A q \in Request : Lives(req'[q])
      /\ active' \in [LocalId -> Nat] /\ parked' \in [LocalId -> Seq(Request)]
  BY TakeConcurrencySlotKeeps
<1>2. TypeOK'
  BY <1>1 DEF IInv, TypeOK, Place, Home, mapVars, storeVars
<1>3. Structure'
  BY <1>1 DEF IInv, Structure, Lives, Draining, mapVars
<1>4. NoLostWakeup'
  BY WakeupKept DEF IInv, TypeOK, mapVars
<1> QED
  BY <1>2, <1>3, <1>4 DEF IInv

LEMMA AdmitKeeps ==
  ASSUME IInv, NEW r \in Request, Admit(r)
  PROVE  IInv'
<1>1. req[r].pc \notin Outcome \cup {"idle"}
  BY DEF Admit, IsAt, Outcome
<1>2. microtasks' \in Seq(Request \cup Drain)
  BY MicrotasksTyped DEF Admit, IInv
<1> QED
  BY <1>1, <1>2, PastRateLimitKeeps DEF Admit

LEMMA ProceedKeeps ==
  ASSUME IInv, NEW r \in Request, Proceed(r)
  PROVE  IInv'
<1>1. req[r].pc \notin Outcome \cup {"idle"}
  BY DEF Proceed, IsAt, Outcome
<1>2. microtasks' \in Seq(Request \cup Drain)
  BY MicrotasksTyped DEF Proceed, IInv
<1> QED
  BY <1>1, <1>2, PastRateLimitKeeps DEF Proceed

LEMMA RejectFullKeeps ==
  ASSUME IInv, NEW r \in Request, RejectFull(r)
  PROVE  IInv'
<1>1. Ended("queueFull") \in Place /\ Lives(Ended("queueFull"))
  BY PlacesTyped DEF Outcome, Lives, Ended, At, Home, None
<1>2. req' \in [Request -> Place] /\ \A q \in Request : Lives(req'[q])
  BY <1>1, SetKeepsPlaces DEF RejectFull
<1>3. UNCHANGED <<now, aborted, mapVars, queueVars, drain, storeVars>>
  BY DEF RejectFull
<1>4. microtasks' \in Seq(Request \cup Drain)
  BY MicrotasksTyped DEF RejectFull, IInv
<1>5. TypeOK'
  BY <1>2, <1>3, <1>4 DEF IInv, TypeOK, Place, Home, mapVars, queueVars, storeVars
<1>6. Structure'
  BY <1>2, <1>3 DEF IInv, Structure, Lives, Draining, mapVars, queueVars, storeVars
<1>7. NoLostWakeup'
  BY <1>3, WakeupKept DEF IInv, TypeOK, mapVars, queueVars
<1> QED
  BY <1>5, <1>6, <1>7 DEF IInv

LEMMA ResumeKeeps ==
  ASSUME IInv, NEW r \in Request, Resume(r)
  PROVE  IInv'
<1> DEFINE g == req[r].home
<1>1. g \in 1 .. created /\ g \in LocalId /\ g \in Home
  BY HomeOfRequest DEF Resume, IsAt, Outcome, Home
<1>2. Executing(g) \in Place /\ Lives(Executing(g))
  BY <1>1, PlacesTyped, PlacesLive DEF IInv
<1>3. req' \in [Request -> Place] /\ \A q \in Request : Lives(req'[q])
  BY <1>2, SetKeepsPlaces DEF Resume
<1>4. active' \in [LocalId -> Nat]
  <2>1. active \in [LocalId -> Nat] /\ active[g] + 1 \in Nat
    BY <1>1 DEF IInv, TypeOK
  <2> QED
    BY <1>1, <2>1 DEF Resume
<1>5. UNCHANGED <<now, aborted, mapVars, waiters, parked, drainAt, drain, storeVars>>
  BY DEF Resume
<1>6. microtasks' \in Seq(Request \cup Drain)
  BY MicrotasksTyped DEF Resume, IInv
<1>7. TypeOK'
  BY <1>3, <1>4, <1>5, <1>6 DEF IInv, TypeOK, Place, Home, mapVars, storeVars
<1>8. Structure'
  BY <1>3, <1>5 DEF IInv, Structure, Lives, Draining, mapVars
<1>9. NoLostWakeup'
  BY <1>5, WakeupKept DEF IInv, TypeOK, mapVars
<1> QED
  BY <1>7, <1>8, <1>9 DEF IInv

LEMMA EnqueueKeeps ==
  ASSUME IInv, NEW r \in Request, Enqueue(r)
  PROVE  IInv'
<1> DEFINE g == req[r].home
<1> DEFINE queue == waiters[g]
<1> DEFINE full == Full(queue)
<1> DEFINE w == [id |-> r, priority |-> priority[r], enqueued |-> now]
<1> DEFINE room == IF full THEN Front(queue) ELSE queue
<1>1. g \in 1 .. created /\ g \in LocalId /\ g \in Home
  BY HomeOfRequest DEF Enqueue, IsAt, Outcome, Home
<1>2. UNCHANGED <<now, aborted, mapVars, parked, active, drain, storeVars>>
  BY DEF Enqueue
<1>3. waiters' \in [LocalId -> Seq(Waiter)]
  <2>1. queue \in Seq(Waiter) /\ waiters \in [LocalId -> Seq(Waiter)]
    BY <1>1 DEF IInv, TypeOK
  <2>2. full => queue # <<>>
    BY DEF Enqueue, CanDrop
  <2>3. room \in Seq(Waiter)
    BY <2>1, <2>2, FrontProperties
  <2>4. w \in Waiter
    BY EngineAssumption DEF IInv, TypeOK, Waiter
  <2>5. Inserted(room, w) \in Seq(Waiter)
    BY <2>3, <2>4, InsertedTyped
  <2>6. waiters' = [waiters EXCEPT ![g] = Inserted(room, w)]
    BY DEF Enqueue
  <2> QED
    BY <1>1, <2>1, <2>5, <2>6
<1>4. ASSUME NEW q \in Request
      PROVE  req'[q] \in Place /\ Lives(req'[q])
  <2>1. req'[q] \in {Waiting(g), Ended("queueFull"), req[q]}
    BY DEF Enqueue
  <2>2. /\ Waiting(g) \in Place /\ Lives(Waiting(g))
        /\ Ended("queueFull") \in Place /\ Lives(Ended("queueFull"))
    BY <1>1, PlacesTyped, PlacesLive DEF IInv, Outcome
  <2>3. req[q] \in Place /\ Lives(req[q])
    BY DEF IInv, TypeOK, Structure, Place, Home
  <2> QED
    BY <2>1, <2>2, <2>3
<1>5. req' \in [Request -> Place]
  <2>1. req' = [q \in Request |-> req'[q]]
    BY DEF Enqueue
  <2> QED
    BY <1>4, <2>1
<1>6. req[r].time \in Nat /\ req[r].time > now /\ now \in Nat /\ ScheduleDrain(req[r].time)
  BY DEF Enqueue, IInv, TypeOK
<1>7. drainAt' \in [LocalId -> Nat]
  BY <1>6, ScheduleDrainTyped DEF IInv
<1>8. microtasks' \in Seq(Request \cup Drain)
  BY MicrotasksTyped DEF Enqueue, IInv
<1>9. TypeOK'
  BY <1>2, <1>3, <1>5, <1>7, <1>8 DEF IInv, TypeOK, Place, Home, mapVars, storeVars
<1>10. Structure'
  <2>1. \A h \in LocalId : h > created => waiters'[h] = waiters[h]
    BY <1>1 DEF Enqueue, LocalId, IInv, TypeOK
  <2> QED
    BY <1>2, <1>4, <2>1 DEF IInv, Structure, Lives, Draining, mapVars
<1>11. NoLostWakeup'
  <2>1. local # None => drainAt'[local] # None
    BY <1>6 DEF ScheduleDrain, None, IInv, TypeOK
  <2> QED
    BY <1>2, <2>1 DEF NoLostWakeup, mapVars
<1> QED
  BY <1>9, <1>10, <1>11 DEF IInv

\* The request that is woken has a LocalState because it was parked.
LEMMA FinishKeeps ==
  ASSUME IInv, QueuesMatch, NEW r \in Request, Finish(r)
  PROVE  IInv'
<1> DEFINE next == Wakes
<1>1. UNCHANGED <<now, aborted, mapVars, waiters, drainAt, drain, storeVars>>
  BY DEF Finish
<1>2. /\ active \in [LocalId -> Nat] /\ parked \in [LocalId -> Seq(Request)]
      /\ microtasks \in Seq(Request \cup Drain)
      /\ local \in LocalId \cup {None} /\ None \notin LocalId
  BY DEF IInv, TypeOK, LocalId, None
<1>3. active' \in [LocalId -> Nat]
  <2>1. CASE Releases
    <3>1. local \in LocalId /\ active[local] - 1 \in Nat
      BY <1>2, <2>1 DEF Releases
    <3> QED
      BY <1>2, <2>1, <3>1 DEF Finish
  <2>2. CASE ~Releases
    BY <1>2, <2>2 DEF Finish
  <2> QED
    BY <2>1, <2>2
<1>4. next # Nobody =>
        /\ local \in LocalId /\ parked[local] \in Seq(Request) /\ parked[local] # <<>>
        /\ next = Head(parked[local])
  BY <1>2 DEF Wakes, Releases
<1>5. next # Nobody => next \in Request /\ Tail(parked[local]) \in Seq(Request)
  BY <1>4, HeadTailProperties
<1>6. parked' \in [LocalId -> Seq(Request)]
  BY <1>2, <1>4, <1>5 DEF Finish
<1>7. microtasks' \in Seq(Request \cup Drain)
  BY <1>2, <1>5, AppendProperties DEF Finish
<1>8. next # Nobody => req[next] = Parked(local)
  <2> HAVE next # Nobody
  <2>1. 1 \in DOMAIN parked[local] /\ Head(parked[local]) = parked[local][1]
    BY <1>4, LenProperties, EmptySeq
  <2> QED
    BY <1>4, <2>1 DEF QueuesMatch
<1>9. ASSUME NEW q \in Request
      PROVE  req'[q] \in Place /\ Lives(req'[q])
  <2>1. req'[q] = IF q = r THEN Ended("finished")
                  ELSE IF q = next THEN Woken(req[q].home) ELSE req[q]
    BY DEF Finish
  <2>2. Ended("finished") \in Place /\ Lives(Ended("finished"))
    BY PlacesTyped DEF Outcome, Lives, Ended, At, Home, None
  <2>3. req[q] \in Place /\ Lives(req[q])
    BY DEF IInv, TypeOK, Structure, Place, Home
  <2>4. ASSUME q = next
        PROVE  Woken(req[q].home) \in Place /\ Lives(Woken(req[q].home))
    <3>1. next # Nobody
      BY <2>4, EngineAssumption
    <3>2. req[q].pc \notin Outcome \cup {"idle"}
      BY <1>8, <2>4, <3>1 DEF Parked, At, Outcome
    <3>3. req[q].home \in 1 .. created /\ req[q].home \in Home
      BY <3>2, HomeOfRequest DEF Home
    <3> QED
      BY <3>3, PlacesTyped, PlacesLive DEF IInv
  <2> QED
    BY <2>1, <2>2, <2>3, <2>4
<1>10. req' \in [Request -> Place]
  <2>1. req' = [q \in Request |-> req'[q]]
    BY DEF Finish
  <2> QED
    BY <1>9, <2>1
<1>11. TypeOK'
  BY <1>1, <1>3, <1>6, <1>7, <1>10 DEF IInv, TypeOK, Place, Home, mapVars, storeVars
<1>12. Structure'
  BY <1>1, <1>9 DEF IInv, Structure, Lives, Draining, mapVars
<1>13. NoLostWakeup'
  BY <1>1, WakeupKept DEF IInv, TypeOK, mapVars
<1> QED
  BY <1>11, <1>12, <1>13 DEF IInv

(***************************************************************************)
(* The steps of the drain loop.                                            *)
(***************************************************************************)

\* The loop stops on an empty queue, and otherwise runs on over its LocalState.
LEMMA DrainLoopKeeps ==
  ASSUME IInv, NEW d \in Drain, NEW g \in 1 .. created, NEW queue \in Seq(Waiter),
         NEW pending \in Seq(Request \cup Drain), DrainLoop(d, g, queue, pending)
  PROVE  /\ drain' \in [Drain -> DrainState]
         /\ \A e \in Drain : e # d => drain'[e] = drain[e]
         /\ drain'[d].local # None => drain'[d].local = g /\ drain'[d].head # Nobody
         /\ queue # <<>> => drain'[d].local = g
         /\ microtasks' \in Seq(Request \cup Drain)
         /\ window' \in Seq(Entry) /\ backoff' \in Nat /\ recorded' \subseteq Request
<1>1. drain \in [Drain -> DrainState] /\ g \in Home /\ g # None
  BY HomesTyped DEF IInv, TypeOK, DrainState, Home
<1>2. window \in Seq(Entry) /\ backoff \in Nat /\ recorded \subseteq Request
  BY DEF IInv, TypeOK
<1>3. CASE /\ queue = <<>>
           /\ drain' = [drain EXCEPT ![d] = NotDraining]
           /\ microtasks' = pending
           /\ UNCHANGED storeVars
  <2>1. NotDraining \in DrainState
    BY DEF NotDraining, DrainState, Home
  <2>2. drain'[d].local = None
    BY <1>1, <1>3 DEF NotDraining
  <2> QED
    BY <1>1, <1>2, <1>3, <2>1, <2>2 DEF storeVars
<1>4. CASE /\ queue # <<>>
           /\ \E call \in StoreCalls(Head(queue).id) :
                /\ StoreBecomes(call)
                /\ drain' = [drain EXCEPT ![d] =
                               [local |-> g, head |-> Head(queue).id, reply |-> call.reply]]
           /\ AwaitStore(d, pending)
  <2>1. Head(queue).id \in Request
    <3>1. Head(queue) \in Waiter
      BY <1>4, HeadTailProperties
    <3> QED
      BY <3>1 DEF Waiter
  <2>2. PICK call \in StoreCalls(Head(queue).id) :
               /\ StoreBecomes(call)
               /\ drain' = [drain EXCEPT ![d] =
                              [local |-> g, head |-> Head(queue).id, reply |-> call.reply]]
    BY <1>4
  <2>3. call.reply \in Nat /\ call.window \in Seq(Entry) /\ call.recorded \in SUBSET Request
    BY <2>1, <2>2, StoreCallTyped DEF IInv
  <2>4. window' \in Seq(Entry) /\ backoff' \in Nat /\ recorded' \subseteq Request
    BY <1>2, <2>2, <2>3 DEF StoreBecomes
  <2>5. [local |-> g, head |-> Head(queue).id, reply |-> call.reply] \in DrainState
    BY <1>1, <2>1, <2>3 DEF DrainState
  <2>6. drain'[d] = [local |-> g, head |-> Head(queue).id, reply |-> call.reply]
    BY <1>1, <2>2
  <2>7. drain' \in [Drain -> DrainState] /\ \A e \in Drain : e # d => drain'[e] = drain[e]
    BY <1>1, <2>2, <2>5
  <2>8. microtasks' \in Seq(Request \cup Drain)
    BY <1>4, AwaitStoreTyped
  <2>9. drain'[d].local = g /\ drain'[d].head # Nobody
    BY <2>1, <2>6, EngineAssumption
  <2> QED
    BY <2>4, <2>7, <2>8, <2>9
<1> QED
  BY <1>3, <1>4 DEF DrainLoop

LEMMA FireDrainKeeps ==
  ASSUME IInv, NEW g \in LocalId, NEW d \in Drain, FireDrain(g, d)
  PROVE  IInv'
<1>1. UNCHANGED <<now, req, aborted, mapVars, waiters, parked, active>>
  BY DEF FireDrain
<1>2. drainAt' \in [LocalId -> Nat]
  BY DEF FireDrain, IInv, TypeOK, None
<1>3. CASE local = None
  <2>1. UNCHANGED <<drain, microtasks, storeVars>>
    BY <1>3 DEF FireDrain
  <2>2. TypeOK'
    BY <1>1, <1>2, <2>1 DEF IInv, TypeOK, mapVars, storeVars
  <2>3. Structure'
    BY <1>1, <2>1 DEF IInv, Structure, Lives, Draining, mapVars
  <2>4. NoLostWakeup'
    BY <1>1, <1>3 DEF NoLostWakeup, mapVars
  <2> QED
    BY <2>2, <2>3, <2>4 DEF IInv
<1>4. CASE local # None
  <2>1. DrainLoop(d, local, waiters[local], microtasks)
    BY <1>4 DEF FireDrain
  <2>2. /\ local \in LocalId /\ local \in 1 .. created /\ waiters[local] \in Seq(Waiter)
        /\ microtasks \in Seq(Request \cup Drain)
    <3>1. local \in LocalId
      BY <1>4 DEF IInv, TypeOK
    <3>2. local = created /\ local \in Nat /\ local >= 1
      BY <1>4, <3>1, EngineAssumption DEF IInv, Structure, LocalId
    <3>3. waiters[local] \in Seq(Waiter) /\ microtasks \in Seq(Request \cup Drain)
      BY <3>1 DEF IInv, TypeOK
    <3> QED
      BY <3>1, <3>2, <3>3
  <2>3. /\ drain' \in [Drain -> DrainState]
        /\ \A e \in Drain : e # d => drain'[e] = drain[e]
        /\ drain'[d].local # None => drain'[d].local = local /\ drain'[d].head # Nobody
        /\ waiters[local] # <<>> => drain'[d].local = local
        /\ microtasks' \in Seq(Request \cup Drain)
        /\ window' \in Seq(Entry) /\ backoff' \in Nat /\ recorded' \subseteq Request
    BY <2>1, <2>2, DrainLoopKeeps
  <2>4. TypeOK'
    BY <1>1, <1>2, <2>3 DEF IInv, TypeOK, mapVars, DrainState, Home
  <2>5. Structure'
    <3>1. \A e \in Drain : Draining(e)' =>
            drain'[e].local \in 1 .. created /\ drain'[e].head # Nobody
      BY <2>2, <2>3 DEF IInv, Structure, Draining
    <3> QED
      BY <1>1, <3>1 DEF IInv, Structure, Lives, mapVars
  <2>6. NoLostWakeup'
    BY <1>1, <2>3 DEF NoLostWakeup, mapVars
  <2> QED
    BY <2>4, <2>5, <2>6 DEF IInv
<1> QED
  BY <1>3, <1>4

\* The told time is in the future and so a time to arm the timer for.
LEMMA DrainBlockedKeeps ==
  ASSUME IInv, NEW d \in Drain, DrainBlocked(d)
  PROVE  IInv'
<1>1. UNCHANGED <<now, req, aborted, mapVars, waiters, parked, active, storeVars>>
  BY DEF DrainBlocked
<1>2. microtasks' \in Seq(Request \cup Drain)
  BY MicrotasksTyped DEF DrainBlocked, IInv
<1>3. /\ drain[d].reply \in Nat /\ drain[d].reply > now /\ now \in Nat
      /\ ScheduleDrain(drain[d].reply)
  BY DEF DrainBlocked, IInv, TypeOK
<1>4. drainAt' \in [LocalId -> Nat]
  BY <1>3, ScheduleDrainTyped DEF IInv
<1>5. drain' = [drain EXCEPT ![d] = NotDraining] /\ drain \in [Drain -> DrainState]
  BY DEF DrainBlocked, IInv, TypeOK, DrainState, Home
<1>6. NotDraining \in DrainState /\ NotDraining.local = None
  BY DEF NotDraining, DrainState, Home
<1>7. drain' \in [Drain -> DrainState]
  BY <1>5, <1>6
<1>8. TypeOK'
  BY <1>1, <1>2, <1>4, <1>7 DEF IInv, TypeOK, mapVars, storeVars, DrainState, Home
<1>9. Structure'
  <2>1. \A e \in Drain : Draining(e)' =>
          drain'[e].local \in 1 .. created /\ drain'[e].head # Nobody
    BY <1>5, <1>6 DEF IInv, Structure, Draining
  <2> QED
    BY <1>1, <2>1 DEF IInv, Structure, Lives, mapVars
<1>10. NoLostWakeup'
  <2>1. local # None => drainAt'[local] # None
    BY <1>3 DEF ScheduleDrain, None, IInv, TypeOK
  <2>2. local' = local
    BY <1>1 DEF mapVars
  <2> QED
    BY <2>1, <2>2 DEF NoLostWakeup
<1> QED
  BY <1>8, <1>9, <1>10 DEF IInv

LEMMA DrainGrantsKeeps ==
  ASSUME IInv, NEW d \in Drain, DrainGrants(d)
  PROVE  IInv'
<1> DEFINE g == drain[d].local
<1> DEFINE r == drain[d].head
<1> DEFINE rest == IF IsHead(r, waiters[g]) THEN Tail(waiters[g]) ELSE waiters[g]
<1> DEFINE pending == IF IsHead(r, waiters[g]) THEN Append(AfterAnswer, r) ELSE AfterAnswer
<1>1. UNCHANGED <<now, aborted, mapVars, parked, active, drainAt>>
  BY DEF DrainGrants
<1>2. /\ g \in 1 .. created /\ g \in LocalId /\ r \in Request
      /\ waiters \in [LocalId -> Seq(Waiter)] /\ waiters[g] \in Seq(Waiter)
  BY HomesTyped DEF DrainGrants, IInv, Structure, TypeOK
<1>3. rest \in Seq(Waiter) /\ (waiters[g] = <<>> => rest = <<>>)
  BY <1>2, HeadTailProperties DEF IsHead
<1>4. pending \in Seq(Request \cup Drain)
  <2>1. AfterAnswer \in Seq(Request \cup Drain)
    BY MicrotasksTyped DEF DrainGrants, IInv
  <2> QED
    BY <1>2, <2>1, AppendProperties
<1>5. waiters' = [waiters EXCEPT ![g] = rest] /\ DrainLoop(d, g, rest, pending)
  BY DEF DrainGrants
<1>6. /\ drain' \in [Drain -> DrainState]
      /\ \A e \in Drain : e # d => drain'[e] = drain[e]
      /\ drain'[d].local # None => drain'[d].local = g /\ drain'[d].head # Nobody
      /\ rest # <<>> => drain'[d].local = g
      /\ microtasks' \in Seq(Request \cup Drain)
      /\ window' \in Seq(Entry) /\ backoff' \in Nat /\ recorded' \subseteq Request
  BY <1>2, <1>3, <1>4, <1>5, DrainLoopKeeps
<1>7. req' \in [Request -> Place] /\ \A q \in Request : Lives(req'[q])
  <2>1. PICK place \in {Granted(g), req[r]} : Set(r, place)
    BY DEF DrainGrants, Set
  <2>2. Granted(g) \in Place /\ Lives(Granted(g))
    BY <1>2, PlacesTyped, PlacesLive DEF IInv, Home
  <2>3. req[r] \in Place /\ Lives(req[r])
    BY <1>2 DEF IInv, TypeOK, Structure, Place, Home
  <2> QED
    BY <1>2, <2>1, <2>2, <2>3, SetKeepsPlaces
<1>8. waiters' \in [LocalId -> Seq(Waiter)]
  BY <1>2, <1>3, <1>5
<1> HIDE DEF rest, pending
<1>9. TypeOK'
  BY <1>1, <1>6, <1>7, <1>8 DEF IInv, TypeOK, mapVars, DrainState, Place, Home
<1>10. Structure'
  <2>1. \A e \in Drain : Draining(e)' =>
          drain'[e].local \in 1 .. created /\ drain'[e].head # Nobody
    BY <1>2, <1>6 DEF IInv, Structure, Draining
  <2>2. \A h \in LocalId : h > created => waiters'[h] = <<>>
    BY <1>2, <1>3, <1>5 DEF IInv, Structure
  <2> QED
    BY <1>1, <1>7, <2>1, <2>2 DEF IInv, Structure, Lives, mapVars
<1>11. NoLostWakeup'
  <2> SUFFICES ASSUME local # None, waiters'[local] # <<>>
               PROVE  drainAt[local] # None \/ \E e \in Drain : drain'[e].local = local
    BY <1>1 DEF NoLostWakeup, mapVars
  <2>1. local \in LocalId
    BY DEF IInv, TypeOK
  <2>2. CASE local = g
    <3>1. rest # <<>>
      BY <1>2, <1>5, <2>2
    <3> QED
      BY <1>6, <2>2, <3>1
  <2>3. CASE local # g
    <3>1. waiters'[local] = waiters[local]
      BY <1>2, <1>5, <2>1, <2>3
    <3>2. drainAt[local] # None \/ \E e \in Drain : drain[e].local = local
      BY <3>1 DEF IInv, NoLostWakeup
    <3> QED
      BY <1>6, <2>3, <3>2
  <2> QED
    BY <2>2, <2>3
<1> QED
  BY <1>9, <1>10, <1>11 DEF IInv

(***************************************************************************)
(* Timeouts, aborts, shutdown, reset, and the clock.                       *)
(***************************************************************************)

LEMMA TimeoutFiresKeeps ==
  ASSUME IInv, NEW r \in Request, TimeoutFires(r)
  PROVE  IInv'
<1> DEFINE g == req[r].home
<1>1. UNCHANGED <<now, aborted, mapVars, parked, active, drainAt, drain, microtasks, storeVars>>
  BY DEF TimeoutFires
<1>2. Ended("timedOut") \in Place /\ Lives(Ended("timedOut"))
  BY PlacesTyped DEF Outcome, Lives, Ended, At, Home, None
<1>3. req' \in [Request -> Place] /\ \A q \in Request : Lives(req'[q])
  BY <1>2, SetKeepsPlaces DEF TimeoutFires
<1>4. g \in LocalId /\ waiters \in [LocalId -> Seq(Waiter)] /\ waiters[g] \in Seq(Waiter)
  BY HomeOfRequest DEF TimeoutFires, IsAt, Outcome, IInv, TypeOK
<1>5. /\ Without(waiters[g], PlacesOf(r, waiters[g])) \in Seq(Waiter)
      /\ waiters[g] = <<>> => Without(waiters[g], PlacesOf(r, waiters[g])) = <<>>
  BY <1>4, WithoutTyped DEF PlacesOf
<1>6. waiters' = [waiters EXCEPT ![g] = Without(waiters[g], PlacesOf(r, waiters[g]))]
  BY DEF TimeoutFires
<1>7. /\ waiters' \in [LocalId -> Seq(Waiter)]
      /\ \A h \in LocalId : waiters[h] = <<>> => waiters'[h] = <<>>
  BY <1>4, <1>5, <1>6
<1>8. TypeOK'
  BY <1>1, <1>3, <1>7 DEF IInv, TypeOK, Place, Home, mapVars, storeVars
<1>9. Structure'
  BY <1>1, <1>3, <1>7 DEF IInv, Structure, Lives, Draining, mapVars
<1>10. NoLostWakeup'
  BY <1>1, <1>7, WakeupKept DEF IInv, TypeOK, mapVars
<1> QED
  BY <1>8, <1>9, <1>10 DEF IInv

LEMMA AbortKeeps ==
  ASSUME IInv, NEW r \in Request, Abort(r)
  PROVE  IInv'
<1> DEFINE g == req[r].home
<1>1. UNCHANGED <<now, mapVars, active, drainAt, drain, microtasks, storeVars>>
  BY DEF Abort
<1>2. aborted' \subseteq Request
  BY DEF Abort, IInv, TypeOK
<1>3. Ended("aborted") \in Place /\ Lives(Ended("aborted"))
  BY PlacesTyped DEF Outcome, Lives, Ended, At, Home, None
<1>4. req' \in [Request -> Place] /\ \A q \in Request : Lives(req'[q])
  <2>1. req' = req \/ Set(r, Ended("aborted"))
    BY DEF Abort, Set
  <2>2. req \in [Request -> Place] /\ \A q \in Request : Lives(req[q])
    BY DEF IInv, TypeOK, Structure, Place, Home
  <2> QED
    BY <1>3, <2>1, <2>2, SetKeepsPlaces
<1>5. /\ waiters' \in [LocalId -> Seq(Waiter)]
      /\ \A h \in LocalId : waiters[h] = <<>> => waiters'[h] = <<>>
  <2>1. waiters \in [LocalId -> Seq(Waiter)]
    BY DEF IInv, TypeOK
  <2>2. CASE IsAt(r, "waiting")
    <3>1. g \in LocalId /\ waiters[g] \in Seq(Waiter)
      BY <2>1, <2>2, HomeOfRequest DEF IsAt, Outcome
    <3>2. /\ Without(waiters[g], PlacesOf(r, waiters[g])) \in Seq(Waiter)
          /\ waiters[g] = <<>> => Without(waiters[g], PlacesOf(r, waiters[g])) = <<>>
      BY <3>1, WithoutTyped DEF PlacesOf
    <3>3. waiters' = [waiters EXCEPT ![g] = Without(waiters[g], PlacesOf(r, waiters[g]))]
      BY <2>2 DEF Abort
    <3> QED
      BY <2>1, <3>1, <3>2, <3>3
  <2>3. CASE ~IsAt(r, "waiting")
    BY <2>1, <2>3 DEF Abort
  <2> QED
    BY <2>2, <2>3
<1>6. parked' \in [LocalId -> Seq(Request)]
  <2>1. parked \in [LocalId -> Seq(Request)]
    BY DEF IInv, TypeOK
  <2>2. CASE IsAt(r, "parked")
    <3>1. g \in LocalId /\ parked[g] \in Seq(Request)
      BY <2>1, <2>2, HomeOfRequest DEF IsAt, Outcome
    <3>2. Without(parked[g], ParkedPlacesOf(r, parked[g])) \in Seq(Request)
      BY <3>1, WithoutTyped DEF ParkedPlacesOf
    <3>3. parked' = [parked EXCEPT ![g] = Without(parked[g], ParkedPlacesOf(r, parked[g]))]
      BY <2>2 DEF Abort
    <3> QED
      BY <2>1, <3>1, <3>2, <3>3
  <2>3. CASE ~IsAt(r, "parked")
    BY <2>1, <2>3 DEF Abort
  <2> QED
    BY <2>2, <2>3
<1>7. TypeOK'
  BY <1>1, <1>2, <1>4, <1>5, <1>6 DEF IInv, TypeOK, Place, Home, mapVars, storeVars
<1>8. Structure'
  BY <1>1, <1>4, <1>5 DEF IInv, Structure, Lives, Draining, mapVars
<1>9. NoLostWakeup'
  BY <1>1, <1>5, WakeupKept DEF IInv, TypeOK, mapVars
<1> QED
  BY <1>7, <1>8, <1>9 DEF IInv

LEMMA RejectQueuedKeeps ==
  ASSUME IInv, RejectQueued
  PROVE  /\ req' \in [Request -> Place] /\ \A q \in Request : Lives(req'[q])
         /\ waiters' \in [LocalId -> Seq(Waiter)]
         /\ \A g \in LocalId : waiters[g] = <<>> => waiters'[g] = <<>>
         /\ parked' \in [LocalId -> Seq(Request)]
<1>1. /\ waiters \in [LocalId -> Seq(Waiter)] /\ parked \in [LocalId -> Seq(Request)]
      /\ req \in [Request -> Place] /\ \A q \in Request : Lives(req[q])
  BY DEF IInv, TypeOK, Structure, Place, Home
<1>2. CASE local = None
  BY <1>1, <1>2 DEF RejectQueued
<1>3. CASE local # None
  <2>1. Ended("shutdown") \in Place /\ Lives(Ended("shutdown"))
    BY PlacesTyped DEF Outcome, Lives, Ended, At, Home, None
  <2>2. req' \in [Request -> Place] /\ \A q \in Request : Lives(req'[q])
    BY <1>1, <1>3, <2>1 DEF RejectQueued
  <2>3. waiters' = [waiters EXCEPT ![local] = <<>>] /\ parked' = [parked EXCEPT ![local] = <<>>]
    BY <1>3 DEF RejectQueued
  <2> QED
    BY <1>1, <2>2, <2>3, EmptySeq
<1> QED
  BY <1>2, <1>3

LEMMA ShutdownKeeps ==
  ASSUME IInv, Shutdown
  PROVE  IInv'
<1>1. /\ RejectQueued
      /\ UNCHANGED <<now, aborted, mapVars, active, drainAt, drain, microtasks, storeVars>>
  BY DEF Shutdown
<1>2. /\ req' \in [Request -> Place] /\ \A q \in Request : Lives(req'[q])
      /\ waiters' \in [LocalId -> Seq(Waiter)]
      /\ \A g \in LocalId : waiters[g] = <<>> => waiters'[g] = <<>>
      /\ parked' \in [LocalId -> Seq(Request)]
  BY <1>1, RejectQueuedKeeps
<1>3. TypeOK'
  BY <1>1, <1>2 DEF IInv, TypeOK, Place, Home, mapVars, storeVars
<1>4. Structure'
  BY <1>1, <1>2 DEF IInv, Structure, Lives, Draining, mapVars
<1>5. NoLostWakeup'
  BY <1>1, <1>2, WakeupKept DEF IInv, TypeOK, mapVars
<1> QED
  BY <1>3, <1>4, <1>5 DEF IInv

LEMMA ResetKeeps ==
  ASSUME IInv, Reset
  PROVE  IInv'
<1>1. /\ RejectQueued /\ local' = None /\ created < MaxLocals
      /\ UNCHANGED <<now, aborted, created, active, drainAt, drain, microtasks, recorded>>
  BY DEF Reset
<1>2. /\ req' \in [Request -> Place] /\ \A q \in Request : Lives(req'[q])
      /\ waiters' \in [LocalId -> Seq(Waiter)]
      /\ \A g \in LocalId : waiters[g] = <<>> => waiters'[g] = <<>>
      /\ parked' \in [LocalId -> Seq(Request)]
  BY <1>1, RejectQueuedKeeps
<1>3. window' \in Seq(Entry) /\ backoff' \in Nat
  BY EmptySeq DEF Reset, IInv, TypeOK
<1>4. TypeOK'
  BY <1>1, <1>2, <1>3 DEF IInv, TypeOK, Place, Home
<1>5. Structure'
  BY <1>1, <1>2 DEF IInv, Structure, Lives, Draining
<1>6. NoLostWakeup'
  BY <1>1 DEF NoLostWakeup
<1> QED
  BY <1>4, <1>5, <1>6 DEF IInv

LEMMA ApplyBackoffKeeps ==
  ASSUME IInv, NEW delay \in Delay, ApplyBackoff(delay)
  PROVE  IInv'
<1>1. backoff' \in Nat
  <2>1. now \in Nat /\ delay \in Nat /\ backoff \in Nat
    BY EngineAssumption DEF IInv, TypeOK
  <2> QED
    BY <2>1 DEF ApplyBackoff
<1>2. UNCHANGED <<now, req, aborted, mapVars, queueVars, drain, microtasks, window, recorded>>
  BY DEF ApplyBackoff
<1>3. TypeOK'
  BY <1>1, <1>2 DEF IInv, TypeOK, mapVars, queueVars
<1>4. Structure'
  BY <1>2 DEF IInv, Structure, Lives, Draining, mapVars, queueVars
<1>5. NoLostWakeup'
  BY <1>2, WakeupKept DEF IInv, TypeOK, mapVars, queueVars
<1> QED
  BY <1>3, <1>4, <1>5 DEF IInv

LEMMA TickKeeps ==
  ASSUME IInv, Tick
  PROVE  IInv'
<1>1. now' \in Nat
  BY DEF Tick, IInv, TypeOK
<1>2. UNCHANGED <<req, aborted, mapVars, queueVars, drain, microtasks, storeVars>>
  BY DEF Tick
<1>3. TypeOK'
  BY <1>1, <1>2 DEF IInv, TypeOK, mapVars, queueVars, storeVars
<1>4. Structure'
  BY <1>2 DEF IInv, Structure, Lives, Draining, mapVars, queueVars
<1>5. NoLostWakeup'
  BY <1>2, WakeupKept DEF IInv, TypeOK, mapVars, queueVars
<1> QED
  BY <1>3, <1>4, <1>5 DEF IInv

(***************************************************************************)
(* Queues that lose or gain one place.                                     *)
(***************************************************************************)

\* t is s without its k-th element.
LosesPlace(t, s, k) ==
  \E f \in [DOMAIN t -> DOMAIN s] :
    /\ \A i \in DOMAIN t : t[i] = s[f[i]] /\ f[i] # k
    /\ \A i, j \in DOMAIN t : f[i] = f[j] => i = j
    /\ \A j \in DOMAIN s : j # k => \E i \in DOMAIN t : f[i] = j

\* t is s without one place that holds x.
Drops(t, s, x) == \E k \in DOMAIN s : s[k] = x /\ LosesPlace(t, s, k)

LEMMA ShiftLosesPlace ==
  ASSUME NEW S, NEW s \in Seq(S), NEW t \in Seq(S), NEW k \in 1 .. Len(s),
         Len(t) = Len(s) - 1,
         \A i \in 1 .. Len(t) : t[i] = IF i < k THEN s[i] ELSE s[i + 1]
  PROVE  LosesPlace(t, s, k)
<1> DEFINE n == Len(s)
<1> DEFINE m == Len(t)
<1> DEFINE f == [i \in 1 .. m |-> IF i < k THEN i ELSE i + 1]
<1>1. /\ n \in Nat /\ m \in Nat /\ m = n - 1 /\ k \in Int /\ 1 <= k /\ k <= n
      /\ DOMAIN s = 1 .. n /\ DOMAIN t = 1 .. m
  BY LenProperties
<1>2. \A i \in 1 .. m : t[i] = IF i < k THEN s[i] ELSE s[i + 1]
  OBVIOUS
<1> HIDE DEF n, m
<1>3. f \in [1 .. m -> 1 .. n]
  BY <1>1
<1>4. ASSUME NEW i \in 1 .. m
      PROVE  t[i] = s[f[i]] /\ f[i] # k
  <2>1. CASE i < k
    BY <1>1, <1>2, <2>1
  <2>2. CASE ~(i < k)
    <3>1. f[i] = i + 1 /\ f[i] # k
      BY <1>1, <2>2
    <3> QED
      BY <1>2, <2>2, <3>1
  <2> QED
    BY <2>1, <2>2
<1>5. \A i, j \in 1 .. m : f[i] = f[j] => i = j
  BY <1>1
<1>6. ASSUME NEW j \in 1 .. n, j # k
      PROVE  \E i \in 1 .. m : f[i] = j
  <2>1. CASE j < k
    <3>1. j \in 1 .. m /\ f[j] = j
      BY <1>1, <2>1
    <3> QED
      BY <3>1
  <2>2. CASE j > k
    <3>1. j - 1 \in 1 .. m /\ f[j - 1] = j
      BY <1>1, <2>2
    <3> QED
      BY <3>1
  <2>3. j < k \/ j > k
    BY <1>1, <1>6
  <2> QED
    BY <2>1, <2>2, <2>3
<1> HIDE DEF f
<1>7. /\ f \in [DOMAIN t -> DOMAIN s]
      /\ \A i \in DOMAIN t : t[i] = s[f[i]] /\ f[i] # k
      /\ \A i, j \in DOMAIN t : f[i] = f[j] => i = j
      /\ \A j \in DOMAIN s : j # k => \E i \in DOMAIN t : f[i] = j
  BY <1>1, <1>3, <1>4, <1>5, <1>6
<1> QED
  BY <1>7 DEF LosesPlace

LEMMA TailDrops ==
  ASSUME NEW S, NEW s \in Seq(S), s # <<>>
  PROVE  Tail(s) \in Seq(S) /\ Drops(Tail(s), s, Head(s))
<1>1. /\ Len(s) \in Nat /\ Len(s) # 0 /\ DOMAIN s = 1 .. Len(s)
      /\ Tail(s) \in Seq(S) /\ Head(s) = s[1]
      /\ Len(Tail(s)) = Len(s) - 1 /\ \A i \in 1 .. Len(Tail(s)) : Tail(s)[i] = s[i + 1]
  <2>1. Len(s) \in Nat /\ Len(s) # 0 /\ DOMAIN s = 1 .. Len(s)
    BY EmptySeq, LenProperties
  <2>2. /\ Tail(s) \in Seq(S) /\ Len(Tail(s)) = Len(s) - 1
        /\ \A i \in 1 .. Len(Tail(s)) : Tail(s)[i] = s[i + 1]
    BY HeadTailProperties
  <2>3. Head(s) = s[1]
    OBVIOUS
  <2> QED
    BY <2>1, <2>2, <2>3
<1>2. 1 \in 1 .. Len(s)
  BY <1>1
<1>3. \A i \in 1 .. Len(Tail(s)) : ~(i < 1)
  BY <1>1
<1>4. LosesPlace(Tail(s), s, 1)
  BY <1>1, <1>2, <1>3, ShiftLosesPlace
<1> QED
  BY <1>1, <1>2, <1>4 DEF Drops

LEMMA FrontDrops ==
  ASSUME NEW S, NEW s \in Seq(S), s # <<>>
  PROVE  Front(s) \in Seq(S) /\ Drops(Front(s), s, Last(s))
<1>1. /\ Len(s) \in Nat /\ Len(s) # 0 /\ DOMAIN s = 1 .. Len(s)
      /\ Front(s) \in Seq(S) /\ Len(Front(s)) = Len(s) - 1
      /\ \A i \in 1 .. Len(Front(s)) : Front(s)[i] = s[i]
  BY EmptySeq, LenProperties, FrontProperties
<1>2. Len(s) \in 1 .. Len(s)
  BY <1>1
<1>3. \A i \in 1 .. Len(Front(s)) : i < Len(s)
  BY <1>1
<1>4. LosesPlace(Front(s), s, Len(s))
  BY <1>1, <1>2, <1>3, ShiftLosesPlace
<1>5. Last(s) = s[Len(s)]
  BY DEF Last
<1> QED
  BY <1>1, <1>2, <1>4, <1>5 DEF Drops

LEMMA WithoutDrops ==
  ASSUME NEW S, NEW s \in Seq(S), NEW at \in SUBSET DOMAIN s, at # {}
  PROVE  /\ Without(s, at) \in Seq(S)
         /\ \E k \in at : Drops(Without(s, at), s, s[k])
<1>1. at \in SUBSET Nat /\ DOMAIN s = 1 .. Len(s) /\ Len(s) \in Nat
  BY LenProperties
<1>2. Min(at) \in at /\ Min(at) \in 1 .. Len(s)
  BY <1>1, MinOfNaturals
<1>3. Without(s, at) = RemoveAt(s, Min(at))
  BY DEF Without
<1>4. /\ Without(s, at) \in Seq(S) /\ Len(Without(s, at)) = Len(s) - 1
      /\ \A i \in 1 .. Len(Without(s, at)) :
           Without(s, at)[i] = IF i < Min(at) THEN s[i] ELSE s[i + 1]
  BY <1>2, <1>3, RemoveAtProperties
<1>5. LosesPlace(Without(s, at), s, Min(at))
  BY <1>2, <1>4, ShiftLosesPlace
<1> QED
  BY <1>1, <1>2, <1>4, <1>5 DEF Drops

\* Without its new place, the queue a waiter was inserted into is what it was.
LEMMA InsertedDrops ==
  ASSUME NEW queue \in Seq(Waiter), NEW w \in Waiter
  PROVE  /\ Inserted(queue, w) \in Seq(Waiter)
         /\ Drops(queue, Inserted(queue, w), w)
<1>0. PICK k \in 1 .. Len(queue) + 1 : k = InsertionPoint(queue, w)
  BY InsertionPointType
<1> DEFINE t == InsertAt(queue, k, w)
<1> DEFINE n == Len(queue)
<1>1. n \in Nat /\ k \in 1 .. n + 1 /\ t = Inserted(queue, w)
  BY <1>0, LenProperties DEF Inserted
<1>2. /\ t \in Seq(Waiter) /\ Len(t) = n + 1
      /\ \A i \in 1 .. n + 1 : t[i] = IF i < k THEN queue[i] ELSE IF i = k THEN w ELSE queue[i - 1]
  BY <1>0, InsertAtProperties
<1>3. DOMAIN t = 1 .. n + 1
  BY <1>2, LenProperties
<1> HIDE DEF t, n
<1>4. t[k] = w
  <2>1. ~(k < k)
    BY <1>1
  <2> QED
    BY <1>1, <1>2, <2>1
<1>5. ASSUME NEW i \in 1 .. n
      PROVE  queue[i] = IF i < k THEN t[i] ELSE t[i + 1]
  <2>1. /\ i \in 1 .. n + 1 /\ i + 1 \in 1 .. n + 1 /\ (i + 1) - 1 = i
        /\ ~(i < k) => ~(i + 1 < k) /\ i + 1 # k
    BY <1>1
  <2> QED
    BY <1>2, <2>1
<1>6. LosesPlace(queue, t, k)
  <2>1. n = Len(t) - 1 /\ k \in 1 .. Len(t)
    BY <1>1, <1>2
  <2> QED
    BY <1>2, <1>5, <2>1, ShiftLosesPlace DEF n
<1>7. Drops(queue, t, w)
  BY <1>1, <1>3, <1>4, <1>6 DEF Drops
<1> QED
  BY <1>1, <1>2, <1>7

(***************************************************************************)
(* The queues match the requests: the two halves of QueuesMatch, for any   *)
(* queues ws or ps and any control points rq.                              *)
(***************************************************************************)

WaitersMatch(ws, rq) ==
  /\ \A g \in LocalId : \A i \in DOMAIN ws[g] :
       /\ rq[ws[g][i].id] = Waiting(g)
       /\ \A j \in DOMAIN ws[g] : ws[g][i].id = ws[g][j].id => i = j
  /\ \A r \in Request : \A g \in LocalId :
       rq[r] = Waiting(g) => \E i \in DOMAIN ws[g] : ws[g][i].id = r

ParkedMatch(ps, rq) ==
  /\ \A g \in LocalId : \A i \in DOMAIN ps[g] :
       /\ rq[ps[g][i]] = Parked(g)
       /\ \A j \in DOMAIN ps[g] : ps[g][i] = ps[g][j] => i = j
  /\ \A r \in Request : \A g \in LocalId :
       rq[r] = Parked(g) => \E i \in DOMAIN ps[g] : ps[g][i] = r

LEMMA QueuesMatchHalves ==
  /\ QueuesMatch <=> WaitersMatch(waiters, req) /\ ParkedMatch(parked, req)
  /\ QueuesMatch' <=> WaitersMatch(waiters', req') /\ ParkedMatch(parked', req')
BY DEF QueuesMatch, WaitersMatch, ParkedMatch, PlacesOf, ParkedPlacesOf

\* A step that moves nobody in or out of a control point.
SameAt(pc, rq, rq2) ==
  \A q \in Request : rq2[q] = rq[q] \/ (rq[q].pc # pc /\ rq2[q].pc # pc)

LEMMA WaitersMatchKept ==
  ASSUME NEW ws \in [LocalId -> Seq(Waiter)], NEW rq, NEW rq2,
         WaitersMatch(ws, rq), SameAt("waiting", rq, rq2)
  PROVE  WaitersMatch(ws, rq2)
<1>1. ASSUME NEW q \in Request, NEW g \in LocalId
      PROVE  rq2[q] = Waiting(g) <=> rq[q] = Waiting(g)
  BY DEF SameAt, Waiting, At
<1>2. ASSUME NEW g \in LocalId, NEW i \in DOMAIN ws[g]
      PROVE  ws[g][i].id \in Request
  <2>1. ws[g][i] \in Waiter
    BY ElementOfSeq, LenProperties
  <2> QED
    BY <2>1 DEF Waiter
<1> QED
  BY <1>1, <1>2 DEF WaitersMatch

LEMMA ParkedMatchKept ==
  ASSUME NEW ps \in [LocalId -> Seq(Request)], NEW rq, NEW rq2,
         ParkedMatch(ps, rq), SameAt("parked", rq, rq2)
  PROVE  ParkedMatch(ps, rq2)
<1>1. ASSUME NEW q \in Request, NEW g \in LocalId
      PROVE  rq2[q] = Parked(g) <=> rq[q] = Parked(g)
  BY DEF SameAt, Parked, At
<1>2. ASSUME NEW g \in LocalId, NEW i \in DOMAIN ps[g]
      PROVE  ps[g][i] \in Request
  BY ElementOfSeq, LenProperties
<1> QED
  BY <1>1, <1>2 DEF ParkedMatch

\* Only the queue of g changes: it becomes t.
OnlyQueue(g, t, ws, ws2) == ws2[g] = t /\ \A h \in LocalId : h # g => ws2[h] = ws[h]

\* Only r changes its control point.
OnlyMoves(r, rq, rq2) == \A q \in Request : q # r => rq2[q] = rq[q]

\* A waiter leaves its queue and its control point at once.
LEMMA WaitersMatchLeave ==
  ASSUME NEW ws \in [LocalId -> Seq(Waiter)], NEW rq, NEW rq2, NEW g \in LocalId,
         NEW t \in Seq(Waiter), NEW x, NEW who, NEW ws2,
         who = x.id, OnlyQueue(g, t, ws, ws2),
         WaitersMatch(ws, rq), Drops(t, ws[g], x),
         OnlyMoves(who, rq, rq2),
         rq2[who].pc # "waiting"
  PROVE  WaitersMatch(ws2, rq2)
<1> DEFINE s == ws[g]
<1>0. PICK k \in DOMAIN s : s[k].id = who /\ LosesPlace(t, s, k)
  BY DEF Drops
<1>1. PICK f \in [DOMAIN t -> DOMAIN s] :
        /\ \A i \in DOMAIN t : t[i] = s[f[i]] /\ f[i] # k
        /\ \A i, j \in DOMAIN t : f[i] = f[j] => i = j
        /\ \A j \in DOMAIN s : j # k => \E i \in DOMAIN t : f[i] = j
  BY <1>0 DEF LosesPlace
<1>2. /\ ws2[g] = t
      /\ \A h \in LocalId : h # g => ws2[h] = ws[h]
      /\ \A q \in Request : q # who => rq2[q] = rq[q]
  BY DEF OnlyQueue, OnlyMoves
<1> USE <1>0, <1>2
<1>3. ASSUME NEW h \in LocalId, NEW i \in DOMAIN ws[h]
      PROVE  ws[h][i].id \in Request
  <2>1. ws[h][i] \in Waiter
    BY ElementOfSeq, LenProperties
  <2> QED
    BY <2>1 DEF Waiter
<1>4. \A h, h2 \in LocalId : h # h2 => Waiting(h) # Waiting(h2)
  BY DEF Waiting, At
<1>5. ASSUME NEW i \in DOMAIN t
      PROVE  t[i].id # who /\ rq2[t[i].id] = Waiting(g)
  <2>1. f[i] \in DOMAIN s /\ f[i] # k /\ t[i] = s[f[i]]
    BY <1>1
  <2>2. s[f[i]].id # who /\ rq[s[f[i]].id] = Waiting(g)
    BY <2>1 DEF WaitersMatch
  <2> QED
    BY <1>3, <2>1, <2>2
<1>6. ASSUME NEW i \in DOMAIN t, NEW j \in DOMAIN t, t[i].id = t[j].id
      PROVE  i = j
  <2>1. f[i] \in DOMAIN s /\ f[j] \in DOMAIN s /\ s[f[i]].id = s[f[j]].id
    BY <1>1, <1>6
  <2>2. f[i] = f[j]
    BY <2>1 DEF WaitersMatch
  <2> QED
    BY <1>1, <2>2
<1>7. ASSUME NEW h \in LocalId, h # g, NEW i \in DOMAIN ws[h]
      PROVE  rq2[ws[h][i].id] = Waiting(h)
  <2>1. rq[ws[h][i].id] = Waiting(h) /\ rq[who] = Waiting(g)
    BY DEF WaitersMatch
  <2> QED
    BY <1>3, <1>4, <1>7, <2>1
<1>8. ASSUME NEW r \in Request, NEW h \in LocalId, rq2[r] = Waiting(h)
      PROVE  \E i \in DOMAIN ws2[h] : ws2[h][i].id = r
  <2>1. r # who /\ rq[r] = Waiting(h)
    BY <1>8 DEF Waiting, At
  <2>2. PICK j \in DOMAIN ws[h] : ws[h][j].id = r
    BY <2>1 DEF WaitersMatch
  <2>3. CASE h = g
    <3>1. j # k
      BY <2>1, <2>2, <2>3
    <3>2. PICK i \in DOMAIN t : f[i] = j
      BY <1>1, <2>2, <2>3, <3>1
    <3>3. t[i].id = r
      BY <1>1, <2>2, <2>3, <3>2
    <3> QED
      BY <1>2, <2>3, <3>3
  <2>4. CASE h # g
    BY <1>2, <2>2, <2>4
  <2> QED
    BY <2>3, <2>4
<1>9. \A h \in LocalId : \A i \in DOMAIN ws2[h] :
        /\ rq2[ws2[h][i].id] = Waiting(h)
        /\ \A j \in DOMAIN ws2[h] : ws2[h][i].id = ws2[h][j].id => i = j
  <2> TAKE h \in LocalId
  <2>1. CASE h = g
    BY <1>2, <1>5, <1>6, <2>1
  <2>2. CASE h # g
    BY <1>2, <1>7, <2>2 DEF WaitersMatch
  <2> QED
    BY <2>1, <2>2
<1>10. WaitersMatch(ws2, rq2)
  BY <1>8, <1>9 DEF WaitersMatch
<1> QED
  BY <1>10

LEMMA ParkedMatchLeave ==
  ASSUME NEW ps \in [LocalId -> Seq(Request)], NEW rq, NEW rq2, NEW g \in LocalId,
         NEW t \in Seq(Request), NEW x, NEW who, NEW ps2,
         who = x, OnlyQueue(g, t, ps, ps2),
         ParkedMatch(ps, rq), Drops(t, ps[g], x),
         OnlyMoves(who, rq, rq2),
         rq2[who].pc # "parked"
  PROVE  ParkedMatch(ps2, rq2)
<1> DEFINE s == ps[g]
<1>0. PICK k \in DOMAIN s : s[k] = who /\ LosesPlace(t, s, k)
  BY DEF Drops
<1>1. PICK f \in [DOMAIN t -> DOMAIN s] :
        /\ \A i \in DOMAIN t : t[i] = s[f[i]] /\ f[i] # k
        /\ \A i, j \in DOMAIN t : f[i] = f[j] => i = j
        /\ \A j \in DOMAIN s : j # k => \E i \in DOMAIN t : f[i] = j
  BY <1>0 DEF LosesPlace
<1>2. /\ ps2[g] = t
      /\ \A h \in LocalId : h # g => ps2[h] = ps[h]
      /\ \A q \in Request : q # who => rq2[q] = rq[q]
  BY DEF OnlyQueue, OnlyMoves
<1> USE <1>0, <1>2
<1>3. ASSUME NEW h \in LocalId, NEW i \in DOMAIN ps[h]
      PROVE  ps[h][i] \in Request
  BY ElementOfSeq, LenProperties
<1>4. \A h, h2 \in LocalId : h # h2 => Parked(h) # Parked(h2)
  BY DEF Parked, At
<1>5. ASSUME NEW i \in DOMAIN t
      PROVE  t[i] # who /\ rq2[t[i]] = Parked(g)
  <2>1. f[i] \in DOMAIN s /\ f[i] # k /\ t[i] = s[f[i]]
    BY <1>1
  <2>2. s[f[i]] # who /\ rq[s[f[i]]] = Parked(g)
    BY <2>1 DEF ParkedMatch
  <2> QED
    BY <1>3, <2>1, <2>2
<1>6. ASSUME NEW i \in DOMAIN t, NEW j \in DOMAIN t, t[i] = t[j]
      PROVE  i = j
  <2>1. f[i] \in DOMAIN s /\ f[j] \in DOMAIN s /\ s[f[i]] = s[f[j]]
    BY <1>1, <1>6
  <2>2. f[i] = f[j]
    BY <2>1 DEF ParkedMatch
  <2> QED
    BY <1>1, <2>2
<1>7. ASSUME NEW h \in LocalId, h # g, NEW i \in DOMAIN ps[h]
      PROVE  rq2[ps[h][i]] = Parked(h)
  <2>1. rq[ps[h][i]] = Parked(h) /\ rq[who] = Parked(g)
    BY DEF ParkedMatch
  <2> QED
    BY <1>3, <1>4, <1>7, <2>1
<1>8. ASSUME NEW r \in Request, NEW h \in LocalId, rq2[r] = Parked(h)
      PROVE  \E i \in DOMAIN ps2[h] : ps2[h][i] = r
  <2>1. r # who /\ rq[r] = Parked(h)
    BY <1>8 DEF Parked, At
  <2>2. PICK j \in DOMAIN ps[h] : ps[h][j] = r
    BY <2>1 DEF ParkedMatch
  <2>3. CASE h = g
    <3>1. j # k
      BY <2>1, <2>2, <2>3
    <3>2. PICK i \in DOMAIN t : f[i] = j
      BY <1>1, <2>2, <2>3, <3>1
    <3>3. t[i] = r
      BY <1>1, <2>2, <2>3, <3>2
    <3> QED
      BY <1>2, <2>3, <3>3
  <2>4. CASE h # g
    BY <1>2, <2>2, <2>4
  <2> QED
    BY <2>3, <2>4
<1>9. \A h \in LocalId : \A i \in DOMAIN ps2[h] :
        /\ rq2[ps2[h][i]] = Parked(h)
        /\ \A j \in DOMAIN ps2[h] : ps2[h][i] = ps2[h][j] => i = j
  <2> TAKE h \in LocalId
  <2>1. CASE h = g
    BY <1>2, <1>5, <1>6, <2>1
  <2>2. CASE h # g
    BY <1>2, <1>7, <2>2 DEF ParkedMatch
  <2> QED
    BY <2>1, <2>2
<1>10. ParkedMatch(ps2, rq2)
  BY <1>8, <1>9 DEF ParkedMatch
<1> QED
  BY <1>10

\* A request joins the queue t of g, in place k, and its control point at once.
LEMMA WaitersMatchJoin ==
  ASSUME NEW ws \in [LocalId -> Seq(Waiter)], NEW rq, NEW rq2, NEW g \in LocalId,
         NEW t \in Seq(Waiter), NEW x, NEW who, NEW ws2,
         who = x.id, OnlyQueue(g, t, ws, ws2),
         WaitersMatch(ws, rq), Drops(ws[g], t, x),
         rq[who].pc # "waiting", rq2[who] = Waiting(g),
         OnlyMoves(who, rq, rq2)
  PROVE  WaitersMatch(ws2, rq2)
<1> DEFINE s == ws[g]
<1>0. PICK k \in DOMAIN t : t[k].id = who /\ LosesPlace(s, t, k)
  BY DEF Drops
<1>1. PICK f \in [DOMAIN s -> DOMAIN t] :
        /\ \A i \in DOMAIN s : s[i] = t[f[i]] /\ f[i] # k
        /\ \A i, j \in DOMAIN s : f[i] = f[j] => i = j
        /\ \A j \in DOMAIN t : j # k => \E i \in DOMAIN s : f[i] = j
  BY <1>0 DEF LosesPlace
<1>2. /\ ws2[g] = t
      /\ \A h \in LocalId : h # g => ws2[h] = ws[h]
      /\ \A q \in Request : q # who => rq2[q] = rq[q]
  BY DEF OnlyQueue, OnlyMoves
<1> USE <1>0, <1>2
<1>3. ASSUME NEW h \in LocalId, NEW i \in DOMAIN ws[h]
      PROVE  /\ ws[h][i].id \in Request /\ ws[h][i].id # who
             /\ rq2[ws[h][i].id] = Waiting(h)
  <2>1. ws[h][i] \in Waiter
    BY ElementOfSeq, LenProperties
  <2>2. rq[ws[h][i].id] = Waiting(h)
    BY DEF WaitersMatch
  <2>3. ws[h][i].id \in Request
    BY <2>1 DEF Waiter
  <2>4. ws[h][i].id # who
    BY <2>2 DEF Waiting, At
  <2> QED
    BY <2>2, <2>3, <2>4
<1>4. ASSUME NEW j \in DOMAIN t
      PROVE  rq2[t[j].id] = Waiting(g) /\ (j # k => t[j].id # who)
  <2>1. CASE j = k
    BY <2>1
  <2>2. CASE j # k
    <3>1. PICK i \in DOMAIN s : f[i] = j
      BY <1>1, <2>2
    <3>2. t[j] = s[i]
      BY <1>1, <3>1
    <3> QED
      BY <1>3, <3>2
  <2> QED
    BY <2>1, <2>2
<1>5. ASSUME NEW i \in DOMAIN t, NEW j \in DOMAIN t, t[i].id = t[j].id
      PROVE  i = j
  <2>1. CASE i = k \/ j = k
    BY <1>4, <1>5, <2>1
  <2>2. CASE i # k /\ j # k
    <3>1. PICK i0 \in DOMAIN s, j0 \in DOMAIN s : f[i0] = i /\ f[j0] = j
      BY <1>1, <2>2
    <3>2. s[i0].id = s[j0].id
      BY <1>1, <1>5, <3>1
    <3>3. i0 = j0
      BY <3>2 DEF WaitersMatch
    <3> QED
      BY <3>1, <3>3
  <2> QED
    BY <2>1, <2>2
<1>6. ASSUME NEW r \in Request, NEW h \in LocalId, rq2[r] = Waiting(h)
      PROVE  \E i \in DOMAIN ws2[h] : ws2[h][i].id = r
  <2>1. CASE r = who
    <3>1. h = g
      <4>1. Waiting(h) = Waiting(g)
        BY <1>6, <2>1
      <4> QED
        BY <4>1 DEF Waiting, At
    <3> QED
      BY <1>2, <2>1, <3>1
  <2>2. CASE r # who
    <3>0. rq[r] = Waiting(h)
      BY <1>6, <2>2
    <3>1. PICK j \in DOMAIN ws[h] : ws[h][j].id = r
      BY ONLY <3>0, WaitersMatch(ws, rq) DEF WaitersMatch
    <3>2. CASE h = g
      <4>1. f[j] \in DOMAIN t /\ t[f[j]].id = r
        BY <1>1, <3>1, <3>2
      <4> QED
        BY <1>2, <3>2, <4>1
    <3>3. CASE h # g
      BY <1>2, <3>1, <3>3
    <3> QED
      BY <3>2, <3>3
  <2> QED
    BY <2>1, <2>2
<1>7. \A h \in LocalId : \A i \in DOMAIN ws2[h] :
        /\ rq2[ws2[h][i].id] = Waiting(h)
        /\ \A j \in DOMAIN ws2[h] : ws2[h][i].id = ws2[h][j].id => i = j
  <2> TAKE h \in LocalId
  <2>1. CASE h = g
    BY <1>2, <1>4, <1>5, <2>1
  <2>2. CASE h # g
    BY <1>2, <1>3, <2>2 DEF WaitersMatch
  <2> QED
    BY <2>1, <2>2
<1>8. WaitersMatch(ws2, rq2)
  BY <1>6, <1>7 DEF WaitersMatch
<1> QED
  BY <1>8

\* The same for the list of concurrency waiters.
LEMMA ParkedMatchJoin ==
  ASSUME NEW ps \in [LocalId -> Seq(Request)], NEW rq, NEW rq2, NEW g \in LocalId,
         NEW t \in Seq(Request), NEW x, NEW who, NEW ps2,
         who = x, OnlyQueue(g, t, ps, ps2),
         ParkedMatch(ps, rq), Drops(ps[g], t, x),
         rq[who].pc # "parked", rq2[who] = Parked(g),
         OnlyMoves(who, rq, rq2)
  PROVE  ParkedMatch(ps2, rq2)
<1> DEFINE s == ps[g]
<1>0. PICK k \in DOMAIN t : t[k] = who /\ LosesPlace(s, t, k)
  BY DEF Drops
<1>1. PICK f \in [DOMAIN s -> DOMAIN t] :
        /\ \A i \in DOMAIN s : s[i] = t[f[i]] /\ f[i] # k
        /\ \A i, j \in DOMAIN s : f[i] = f[j] => i = j
        /\ \A j \in DOMAIN t : j # k => \E i \in DOMAIN s : f[i] = j
  BY <1>0 DEF LosesPlace
<1>2. /\ ps2[g] = t
      /\ \A h \in LocalId : h # g => ps2[h] = ps[h]
      /\ \A q \in Request : q # who => rq2[q] = rq[q]
  BY DEF OnlyQueue, OnlyMoves
<1> USE <1>0, <1>2
<1>3. ASSUME NEW h \in LocalId, NEW i \in DOMAIN ps[h]
      PROVE  /\ ps[h][i] \in Request /\ ps[h][i] # who
             /\ rq2[ps[h][i]] = Parked(h)
  <2>2. rq[ps[h][i]] = Parked(h)
    BY DEF ParkedMatch
  <2>3. ps[h][i] \in Request
    BY ElementOfSeq, LenProperties
  <2>4. ps[h][i] # who
    BY <2>2 DEF Parked, At
  <2> QED
    BY <2>2, <2>3, <2>4
<1>4. ASSUME NEW j \in DOMAIN t
      PROVE  rq2[t[j]] = Parked(g) /\ (j # k => t[j] # who)
  <2>1. CASE j = k
    BY <2>1
  <2>2. CASE j # k
    <3>1. PICK i \in DOMAIN s : f[i] = j
      BY <1>1, <2>2
    <3>2. t[j] = s[i]
      BY <1>1, <3>1
    <3> QED
      BY <1>3, <3>2
  <2> QED
    BY <2>1, <2>2
<1>5. ASSUME NEW i \in DOMAIN t, NEW j \in DOMAIN t, t[i] = t[j]
      PROVE  i = j
  <2>1. CASE i = k \/ j = k
    BY <1>4, <1>5, <2>1
  <2>2. CASE i # k /\ j # k
    <3>1. PICK i0 \in DOMAIN s, j0 \in DOMAIN s : f[i0] = i /\ f[j0] = j
      BY <1>1, <2>2
    <3>2. s[i0] = s[j0]
      BY <1>1, <1>5, <3>1
    <3>3. i0 = j0
      BY <3>2 DEF ParkedMatch
    <3> QED
      BY <3>1, <3>3
  <2> QED
    BY <2>1, <2>2
<1>6. ASSUME NEW r \in Request, NEW h \in LocalId, rq2[r] = Parked(h)
      PROVE  \E i \in DOMAIN ps2[h] : ps2[h][i] = r
  <2>1. CASE r = who
    <3>1. h = g
      <4>1. Parked(h) = Parked(g)
        BY <1>6, <2>1
      <4> QED
        BY <4>1 DEF Parked, At
    <3> QED
      BY <1>2, <2>1, <3>1
  <2>2. CASE r # who
    <3>0. rq[r] = Parked(h)
      BY <1>6, <2>2
    <3>1. PICK j \in DOMAIN ps[h] : ps[h][j] = r
      BY ONLY <3>0, ParkedMatch(ps, rq) DEF ParkedMatch
    <3>2. CASE h = g
      <4>1. f[j] \in DOMAIN t /\ t[f[j]] = r
        BY <1>1, <3>1, <3>2
      <4> QED
        BY <1>2, <3>2, <4>1
    <3>3. CASE h # g
      BY <1>2, <3>1, <3>3
    <3> QED
      BY <3>2, <3>3
  <2> QED
    BY <2>1, <2>2
<1>7. \A h \in LocalId : \A i \in DOMAIN ps2[h] :
        /\ rq2[ps2[h][i]] = Parked(h)
        /\ \A j \in DOMAIN ps2[h] : ps2[h][i] = ps2[h][j] => i = j
  <2> TAKE h \in LocalId
  <2>1. CASE h = g
    BY <1>2, <1>4, <1>5, <2>1
  <2>2. CASE h # g
    BY <1>2, <1>3, <2>2 DEF ParkedMatch
  <2> QED
    BY <2>1, <2>2
<1>8. ParkedMatch(ps2, rq2)
  BY <1>6, <1>7 DEF ParkedMatch
<1> QED
  BY <1>8

LEMMA AppendDrops ==
  ASSUME NEW S, NEW s \in Seq(S), NEW x \in S
  PROVE  /\ Append(s, x) \in Seq(S)
         /\ Drops(s, Append(s, x), x)
<1> DEFINE t == Append(s, x)
<1> DEFINE n == Len(s)
<1>1. /\ n \in Nat /\ t \in Seq(S) /\ Len(t) = n + 1 /\ t[n + 1] = x
      /\ \A i \in 1 .. n : t[i] = s[i]
  BY LenProperties, AppendProperties
<1>2. DOMAIN t = 1 .. n + 1
  BY <1>1, LenProperties
<1> HIDE DEF t
<1>3. LosesPlace(s, t, n + 1)
  <2>1. n + 1 \in 1 .. Len(t) /\ Len(s) = Len(t) - 1
    BY <1>1
  <2>2. \A i \in 1 .. Len(s) : s[i] = IF i < n + 1 THEN t[i] ELSE t[i + 1]
    BY <1>1
  <2> QED
    BY <1>1, <2>1, <2>2, ShiftLosesPlace
<1>4. n + 1 \in DOMAIN t
  BY <1>1, <1>2
<1>5. Drops(s, t, x)
  BY <1>1, <1>3, <1>4 DEF Drops
<1> QED
  BY <1>1, <1>5 DEF t

\* Everyone queued in g is rejected.
RejectsAll(g, rq, rq2) ==
  \A q \in Request : rq2[q] = IF rq[q] \in {Waiting(g), Parked(g)}
                              THEN Ended("shutdown") ELSE rq[q]

\* When everyone queued in g is rejected and its queues are emptied, the others match.
LEMMA MatchEmptied ==
  ASSUME NEW ws \in [LocalId -> Seq(Waiter)], NEW ps \in [LocalId -> Seq(Request)],
         NEW rq, NEW rq2, NEW g \in LocalId, NEW ws2, NEW ps2,
         WaitersMatch(ws, rq), ParkedMatch(ps, rq), RejectsAll(g, rq, rq2),
         OnlyQueue(g, <<>>, ws, ws2), OnlyQueue(g, <<>>, ps, ps2)
  PROVE  WaitersMatch(ws2, rq2) /\ ParkedMatch(ps2, rq2)
<1>1. /\ ws2[g] = <<>> /\ ps2[g] = <<>>
      /\ \A h \in LocalId : h # g => ws2[h] = ws[h] /\ ps2[h] = ps[h]
      /\ \A q \in Request : rq2[q] = IF rq[q] \in {Waiting(g), Parked(g)}
                                     THEN Ended("shutdown") ELSE rq[q]
  BY DEF OnlyQueue, RejectsAll
<1> USE <1>1
<1>2. /\ \A h \in LocalId, i \in DOMAIN <<>> : FALSE
      /\ \A h, h2 \in LocalId : h # h2 => Waiting(h) # Waiting(h2) /\ Parked(h) # Parked(h2)
      /\ \A h, h2 \in LocalId : /\ Waiting(h) # Parked(h2)
                                /\ Waiting(h) # Ended("shutdown")
                                /\ Parked(h) # Ended("shutdown")
  BY DEF Waiting, Parked, Ended, At
<1>3. ASSUME NEW h \in LocalId, h # g
      PROVE  /\ \A i \in DOMAIN ws[h] : ws[h][i].id \in Request /\ rq2[ws[h][i].id] = Waiting(h)
             /\ \A i \in DOMAIN ps[h] : ps[h][i] \in Request /\ rq2[ps[h][i]] = Parked(h)
  <2>1. ASSUME NEW i \in DOMAIN ws[h]
        PROVE  ws[h][i].id \in Request
    <3>1. ws[h][i] \in Waiter
      BY ElementOfSeq, LenProperties
    <3> QED
      BY <3>1 DEF Waiter
  <2>2. \A i \in DOMAIN ps[h] : ps[h][i] \in Request
    BY ElementOfSeq, LenProperties
  <2>3. \A i \in DOMAIN ws[h] : rq[ws[h][i].id] = Waiting(h)
    BY DEF WaitersMatch
  <2>4. \A i \in DOMAIN ps[h] : rq[ps[h][i]] = Parked(h)
    BY DEF ParkedMatch
  <2>5. ASSUME NEW q \in Request, rq[q] \in {Waiting(h), Parked(h)}
        PROVE  rq2[q] = rq[q]
    <3>1. rq[q] # Waiting(g) /\ rq[q] # Parked(g)
      BY <1>2, <1>3, <2>5
    <3> QED
      BY <3>1
  <2> QED
    BY <2>1, <2>2, <2>3, <2>4, <2>5
<1>4. ASSUME NEW r \in Request, NEW h \in LocalId
      PROVE  /\ rq2[r] = Waiting(h) => h # g /\ rq[r] = Waiting(h)
             /\ rq2[r] = Parked(h) => h # g /\ rq[r] = Parked(h)
  BY <1>2
<1>5. WaitersMatch(ws2, rq2)
  <2>1. \A h \in LocalId : \A i \in DOMAIN ws2[h] :
          /\ rq2[ws2[h][i].id] = Waiting(h)
          /\ \A j \in DOMAIN ws2[h] : ws2[h][i].id = ws2[h][j].id => i = j
    <3> TAKE h \in LocalId
    <3>1. CASE h = g
      BY <1>1, <3>1
    <3>2. CASE h # g
      BY <1>1, <1>3, <3>2 DEF WaitersMatch
    <3> QED
      BY <3>1, <3>2
  <2>2. ASSUME NEW r \in Request, NEW h \in LocalId, rq2[r] = Waiting(h)
        PROVE  \E i \in DOMAIN ws2[h] : ws2[h][i].id = r
    <3>1. h # g /\ rq[r] = Waiting(h)
      BY <1>4, <2>2
    <3>2. \E i \in DOMAIN ws[h] : ws[h][i].id = r
      BY <3>1 DEF WaitersMatch
    <3> QED
      BY <1>1, <3>1, <3>2
  <2> QED
    BY <2>1, <2>2 DEF WaitersMatch
<1>6. ParkedMatch(ps2, rq2)
  <2>1. \A h \in LocalId : \A i \in DOMAIN ps2[h] :
          /\ rq2[ps2[h][i]] = Parked(h)
          /\ \A j \in DOMAIN ps2[h] : ps2[h][i] = ps2[h][j] => i = j
    <3> TAKE h \in LocalId
    <3>1. CASE h = g
      BY <1>1, <3>1
    <3>2. CASE h # g
      BY <1>1, <1>3, <3>2 DEF ParkedMatch
    <3> QED
      BY <3>1, <3>2
  <2>2. ASSUME NEW r \in Request, NEW h \in LocalId, rq2[r] = Parked(h)
        PROVE  \E i \in DOMAIN ps2[h] : ps2[h][i] = r
    <3>1. h # g /\ rq[r] = Parked(h)
      BY <1>4, <2>2
    <3>2. \E i \in DOMAIN ps[h] : ps[h][i] = r
      BY <3>1 DEF ParkedMatch
    <3> QED
      BY <1>1, <3>1, <3>2
  <2> QED
    BY <2>1, <2>2 DEF ParkedMatch
<1> QED
  BY <1>5, <1>6

(***************************************************************************)
(* Every step keeps the queues matched.                                    *)
(***************************************************************************)

\* Steps that leave the queues alone, and nobody's waiting or parking either.
LEMMA OtherStepsMatch ==
  ASSUME IInv, QueuesMatch, UNCHANGED <<waiters, parked>>,
         SameAt("waiting", req, req'), SameAt("parked", req, req')
  PROVE  QueuesMatch'
<1>1. waiters \in [LocalId -> Seq(Waiter)] /\ parked \in [LocalId -> Seq(Request)]
  BY DEF IInv, TypeOK
<1>2. WaitersMatch(waiters, req) /\ ParkedMatch(parked, req)
  BY QueuesMatchHalves
<1>3. WaitersMatch(waiters, req') /\ ParkedMatch(parked, req')
  BY <1>1, <1>2, WaitersMatchKept, ParkedMatchKept
<1> QED
  BY <1>3, QueuesMatchHalves

\* Who sets only its own control point, from one outside the queues to another.
LEMMA SetOutside ==
  ASSUME IInv, NEW r \in Request, NEW place, NEW pc, Set(r, place),
         req[r].pc # pc, place.pc # pc
  PROVE  SameAt(pc, req, req')
BY DEF SameAt, Set, IInv, TypeOK

LEMMA TakeConcurrencySlotMatch ==
  ASSUME IInv, QueuesMatch, NEW r \in Request, req[r].pc \in {"checking", "granted"},
         TakeConcurrencySlot(r), UNCHANGED waiters
  PROVE  QueuesMatch'
<1> DEFINE g == req[r].home
<1>1. /\ waiters \in [LocalId -> Seq(Waiter)] /\ parked \in [LocalId -> Seq(Request)]
      /\ req \in [Request -> Place]
  BY DEF IInv, TypeOK, Place, Home
<1>2. g \in LocalId
  BY HomeOfRequest DEF Outcome
<1>3. WaitersMatch(waiters, req) /\ ParkedMatch(parked, req)
  BY QueuesMatchHalves
<1>4. CASE parked' = parked /\ \E place \in {Executing(g), Ended("aborted")} : Set(r, place)
  <2>1. PICK place \in {Executing(g), Ended("aborted")} : Set(r, place)
    BY <1>4
  <2>2. place.pc # "waiting" /\ place.pc # "parked"
    BY <2>1 DEF Executing, Ended, At
  <2>3. SameAt("waiting", req, req') /\ SameAt("parked", req, req')
    BY <2>1, <2>2, SetOutside
  <2> QED
    BY <1>4, <2>3, OtherStepsMatch
<1>5. CASE Set(r, Parked(g)) /\ parked' = [parked EXCEPT ![g] = Append(@, r)]
  <2> DEFINE t == Append(parked[g], r)
  <2>1. parked[g] \in Seq(Request)
    BY <1>1, <1>2
  <2>2. t \in Seq(Request) /\ Drops(parked[g], t, r)
    BY <2>1, AppendDrops
  <2>3. req' = [req EXCEPT ![r] = Parked(g)] /\ parked' = [parked EXCEPT ![g] = t]
    BY <1>5 DEF Set
  <2> HIDE DEF t
  <2>4. req'[r] = Parked(g) /\ OnlyMoves(r, req, req')
    BY <1>1, <2>3 DEF OnlyMoves
  <2>5. ParkedMatch(parked', req')
    <3>1. OnlyQueue(g, t, parked, parked')
      BY <1>1, <1>2, <2>3 DEF OnlyQueue
    <3>2. req[r].pc # "parked"
      OBVIOUS
    <3> QED
      BY <1>1, <1>2, <1>3, <2>2, <2>4, <3>1, <3>2, ParkedMatchJoin
  <2>6. SameAt("waiting", req, req')
    BY <1>5, SetOutside DEF Parked, At
  <2>7. WaitersMatch(waiters', req')
    BY <1>1, <1>3, <2>6, WaitersMatchKept
  <2> QED
    BY <2>5, <2>7, QueuesMatchHalves
<1> QED
  BY <1>4, <1>5 DEF TakeConcurrencySlot

LEMMA EnqueueMatch ==
  ASSUME IInv, QueuesMatch, NEW r \in Request, Enqueue(r)
  PROVE  QueuesMatch'
<1> DEFINE g == req[r].home
<1> DEFINE queue == waiters[g]
<1> DEFINE full == Full(queue)
<1> DEFINE w == [id |-> r, priority |-> priority[r], enqueued |-> now]
<1> DEFINE room == IF full THEN Front(queue) ELSE queue
<1> DEFINE ws1 == [waiters EXCEPT ![g] = room]
<1> DEFINE rq1 == [q \in Request |-> IF full /\ q = Last(queue).id THEN Ended("queueFull")
                                     ELSE req[q]]
<1>1. /\ waiters \in [LocalId -> Seq(Waiter)] /\ parked \in [LocalId -> Seq(Request)]
      /\ req \in [Request -> Place]
  BY DEF IInv, TypeOK, Place, Home
<1>2. g \in LocalId /\ req[r].pc = "checking" /\ queue \in Seq(Waiter)
  BY <1>1, HomeOfRequest DEF Enqueue, IsAt, Outcome
<1>3. WaitersMatch(waiters, req) /\ ParkedMatch(parked, req)
  BY QueuesMatchHalves
<1>4. /\ waiters' = [waiters EXCEPT ![g] = Inserted(room, w)]
      /\ req' = [q \in Request |-> IF q = r THEN Waiting(g)
                                   ELSE IF full /\ q = Last(queue).id THEN Ended("queueFull")
                                   ELSE req[q]]
      /\ full => queue # <<>>
      /\ parked' = parked
  BY DEF Enqueue, CanDrop
<1>5. ASSUME full
      PROVE  /\ Front(queue) \in Seq(Waiter) /\ Drops(Front(queue), queue, Last(queue))
             /\ Last(queue).id \in Request /\ req[Last(queue).id] = Waiting(g)
  <2>1. Front(queue) \in Seq(Waiter) /\ Drops(Front(queue), queue, Last(queue))
    BY <1>2, <1>4, <1>5, FrontDrops
  <2>2. PICK k \in DOMAIN queue : queue[k] = Last(queue)
    BY <2>1 DEF Drops
  <2>3. queue[k] \in Waiter
    BY <1>2, <2>2, ElementOfSeq, LenProperties
  <2>4. queue[k].id \in Request
    BY <2>3 DEF Waiter
  <2>5. req[queue[k].id] = Waiting(g)
    BY <1>2, <1>3, <2>2 DEF WaitersMatch
  <2> QED
    BY <2>1, <2>2, <2>4, <2>5
<1>6. room \in Seq(Waiter)
  BY <1>2, <1>5
<1>7. WaitersMatch(ws1, rq1)
  <2>1. CASE full
    <3> DEFINE last == Last(queue)
    <3>1. Drops(room, queue, last)
      BY <1>5, <2>1
    <3>2. OnlyMoves(last.id, req, rq1) /\ rq1[last.id] = Ended("queueFull")
      BY <1>5, <2>1 DEF OnlyMoves
    <3>3. rq1[last.id].pc # "waiting"
      BY <3>2 DEF Ended, At
    <3>4. OnlyQueue(g, room, waiters, ws1)
      BY <1>1, <1>2 DEF OnlyQueue
    <3> HIDE DEF rq1, room, last, ws1
    <3> QED
      BY <1>1, <1>2, <1>3, <1>6, <3>1, <3>2, <3>3, <3>4, WaitersMatchLeave
  <2>2. CASE ~full
    <3>1. ws1 = waiters /\ rq1 = req
      BY <1>1, <2>2
    <3> QED
      BY <1>3, <3>1
  <2> QED
    BY <2>1, <2>2
<1>8. w \in Waiter
  BY EngineAssumption DEF IInv, TypeOK, Waiter
<1>9. ws1 \in [LocalId -> Seq(Waiter)] /\ ws1[g] = room
  BY <1>1, <1>2, <1>6
<1>10. Inserted(room, w) \in Seq(Waiter) /\ Drops(room, Inserted(room, w), w)
  BY <1>6, <1>8, InsertedDrops
<1>11. w.id = r
  OBVIOUS
<1>12. /\ rq1[r].pc # "waiting" /\ req'[r] = Waiting(g)
       /\ OnlyMoves(r, rq1, req')
  <2>1. req[r].pc # "waiting"
    BY <1>2
  <2>2. full => r # Last(queue).id
    BY <1>5, <2>1 DEF Waiting, At
  <2> QED
    BY <1>4, <2>1, <2>2 DEF OnlyMoves
<1>13. waiters' = [ws1 EXCEPT ![g] = Inserted(room, w)]
  BY <1>1, <1>2, <1>4
<1> DEFINE t == Inserted(room, w)
<1>14. WaitersMatch(waiters', req')
  <2>1. /\ t \in Seq(Waiter) /\ w.id = r /\ Drops(ws1[g], t, w)
        /\ OnlyQueue(g, t, ws1, waiters')
    BY <1>2, <1>9, <1>10, <1>11, <1>13 DEF OnlyQueue
  <2> HIDE DEF t, ws1, rq1, w
  <2> QED
    BY <1>2, <1>7, <1>9, <1>12, <2>1, WaitersMatchJoin
<1>15. ParkedMatch(parked', req')
  <2>1. SameAt("parked", req, req')
    <3> SUFFICES ASSUME NEW q \in Request, req'[q] # req[q]
                 PROVE  req[q].pc # "parked" /\ req'[q].pc # "parked"
      BY DEF SameAt
    <3>1. CASE q = r
      <4>1. req'[q] = Waiting(g)
        BY <1>4, <3>1
      <4> QED
        BY <1>2, <3>1, <4>1 DEF Waiting, At
    <3>2. CASE q # r /\ full /\ q = Last(queue).id
      <4>1. req'[q] = Ended("queueFull") /\ req[q] = Waiting(g)
        BY <1>4, <1>5, <3>2
      <4> QED
        BY <4>1 DEF Waiting, Ended, At
    <3> QED
      BY <1>4, <3>1, <3>2
  <2> QED
    BY <1>1, <1>3, <1>4, <2>1, ParkedMatchKept
<1> QED
  BY <1>14, <1>15, QueuesMatchHalves

LEMMA FinishMatch ==
  ASSUME IInv, QueuesMatch, NEW r \in Request, Finish(r)
  PROVE  QueuesMatch'
<1> DEFINE next == Wakes
<1>1. /\ waiters \in [LocalId -> Seq(Waiter)] /\ parked \in [LocalId -> Seq(Request)]
      /\ req \in [Request -> Place] /\ local \in LocalId \cup {None} /\ None \notin LocalId
  BY DEF IInv, TypeOK, Place, Home, LocalId, None
<1>2. WaitersMatch(waiters, req) /\ ParkedMatch(parked, req)
  BY QueuesMatchHalves
<1>3. /\ req[r].pc = "executing" /\ waiters' = waiters
      /\ parked' = IF next # Nobody THEN [parked EXCEPT ![local] = Tail(@)] ELSE parked
      /\ req' = [q \in Request |-> IF q = r THEN Ended("finished")
                                   ELSE IF q = next THEN Woken(req[q].home) ELSE req[q]]
  BY DEF Finish, IsAt
<1>4. CASE next = Nobody
  <2>1. \A q \in Request : q # next
    BY <1>4, EngineAssumption
  <2>2. \A q \in Request : req'[q] = IF q = r THEN Ended("finished") ELSE req[q]
    BY <1>3, <2>1
  <2>3. SameAt("waiting", req, req') /\ SameAt("parked", req, req')
    BY <1>3, <2>2 DEF SameAt, Ended, At
  <2> QED
    BY <1>3, <1>4, <2>3, OtherStepsMatch
<1>5. CASE next # Nobody
  <2> DEFINE t == Tail(parked[local])
  <2> DEFINE rq1 == [q \in Request |-> IF q = r THEN Ended("finished") ELSE req[q]]
  <2>1. /\ local \in LocalId /\ parked[local] \in Seq(Request) /\ parked[local] # <<>>
        /\ next = Head(parked[local])
    BY <1>1, <1>5 DEF Wakes, Releases
  <2>2. t \in Seq(Request) /\ Drops(t, parked[local], next)
    BY <2>1, TailDrops
  <2>3. next \in Request /\ req[next] = Parked(local)
    <3>1. next \in Request
      BY <2>1, HeadTailProperties
    <3>2. PICK k \in DOMAIN parked[local] : parked[local][k] = next
      BY <2>2 DEF Drops
    <3> QED
      BY <1>2, <2>1, <3>1, <3>2 DEF ParkedMatch
  <2>4. next # r
    BY <1>3, <2>3 DEF Parked, At
  <2>5. OnlyMoves(next, rq1, req') /\ req'[next] = Woken(req[next].home)
    BY <1>3, <2>3, <2>4 DEF OnlyMoves
  <2>6. ParkedMatch(parked, rq1)
    <3>1. SameAt("parked", req, rq1)
      BY <1>3 DEF SameAt, Ended, At
    <3> QED
      BY <1>1, <1>2, <3>1, ParkedMatchKept
  <2>7. OnlyQueue(local, t, parked, parked') /\ req'[next].pc # "parked"
    BY <1>1, <1>3, <1>5, <2>1, <2>5 DEF OnlyQueue, Woken, At
  <2>8. SameAt("waiting", req, req')
    <3> SUFFICES ASSUME NEW q \in Request, req'[q] # req[q]
                 PROVE  req[q].pc # "waiting" /\ req'[q].pc # "waiting"
      BY DEF SameAt
    <3>1. CASE q = r
      BY <1>3, <3>1 DEF Ended, At
    <3>2. CASE q = next
      BY <2>3, <2>5, <3>2 DEF Parked, Woken, At
    <3> QED
      BY <1>3, <3>1, <3>2
  <2> HIDE DEF t, rq1, next
  <2>9. ParkedMatch(parked', req')
    BY <1>1, <2>1, <2>2, <2>5, <2>6, <2>7, ParkedMatchLeave
  <2>10. WaitersMatch(waiters', req')
    BY <1>1, <1>2, <1>3, <2>8, WaitersMatchKept
  <2> QED
    BY <2>9, <2>10, QueuesMatchHalves
<1> QED
  BY <1>4, <1>5

LEMMA DrainGrantsMatch ==
  ASSUME IInv, QueuesMatch, NEW d \in Drain, DrainGrants(d)
  PROVE  QueuesMatch'
<1> DEFINE g == drain[d].local
<1> DEFINE r == drain[d].head
<1> DEFINE head == Head(waiters[g])
<1>1. /\ waiters \in [LocalId -> Seq(Waiter)] /\ parked \in [LocalId -> Seq(Request)]
      /\ req \in [Request -> Place]
  BY DEF IInv, TypeOK, Place, Home
<1>2. g \in LocalId /\ r \in Request
  BY HomesTyped DEF DrainGrants, IInv, Structure, TypeOK
<1>3. WaitersMatch(waiters, req) /\ ParkedMatch(parked, req)
  BY QueuesMatchHalves
<1>4. CASE ~IsHead(r, waiters[g])
  <2>1. req' = req /\ waiters' = waiters /\ parked' = parked
    BY <1>1, <1>4 DEF DrainGrants
  <2>2. SameAt("waiting", req, req') /\ SameAt("parked", req, req')
    BY <2>1 DEF SameAt
  <2> QED
    BY <2>1, <2>2, OtherStepsMatch
<1>5. CASE IsHead(r, waiters[g])
  <2> DEFINE t == Tail(waiters[g])
  <2>1. waiters[g] \in Seq(Waiter) /\ waiters[g] # <<>> /\ head.id = r
    BY <1>1, <1>2, <1>5 DEF IsHead
  <2>2. t \in Seq(Waiter) /\ Drops(t, waiters[g], head)
    BY <2>1, TailDrops
  <2>3. /\ waiters' = [waiters EXCEPT ![g] = t] /\ req' = [req EXCEPT ![r] = Granted(g)]
        /\ parked' = parked
    BY <1>5 DEF DrainGrants
  <2> HIDE DEF t, head
  <2>4. OnlyQueue(g, t, waiters, waiters') /\ OnlyMoves(r, req, req') /\ req'[r] = Granted(g)
    BY <1>1, <1>2, <2>3 DEF OnlyQueue, OnlyMoves
  <2>5. req'[r].pc # "waiting"
    BY <2>4 DEF Granted, At
  <2>6. WaitersMatch(waiters', req')
    BY <1>1, <1>2, <1>3, <2>1, <2>2, <2>4, <2>5, WaitersMatchLeave
  <2>7. SameAt("parked", req, req')
    <3>1. PICK k \in DOMAIN waiters[g] : waiters[g][k] = head
      BY <2>2 DEF Drops
    <3>2. req[r] = Waiting(g)
      BY <1>2, <1>3, <2>1, <3>1 DEF WaitersMatch
    <3> QED
      BY <2>4, <3>2 DEF SameAt, OnlyMoves, Waiting, Granted, At
  <2>8. ParkedMatch(parked', req')
    BY <1>1, <1>3, <2>3, <2>7, ParkedMatchKept
  <2> QED
    BY <2>6, <2>8, QueuesMatchHalves
<1> QED
  BY <1>4, <1>5

\* Who is queued is queued where it says.
LEMMA WaitingPlace ==
  ASSUME IInv, QueuesMatch, NEW r \in Request, IsAt(r, "waiting")
  PROVE  /\ req[r].home \in LocalId
         /\ PlacesOf(r, waiters[req[r].home]) # {}
<1>1. req[r].home \in LocalId
  BY HomeOfRequest DEF IsAt, Outcome
<1>2. req[r] \in Place /\ req[r].pc = "waiting" /\ req[r].time = 0
  BY DEF IInv, TypeOK, Structure, Lives, IsAt, Place, Home
<1>3. req[r] = Waiting(req[r].home)
  BY <1>2 DEF Place, Waiting, At
<1> QED
  BY <1>1, <1>3 DEF QueuesMatch

LEMMA ParkedPlace ==
  ASSUME IInv, QueuesMatch, NEW r \in Request, IsAt(r, "parked")
  PROVE  /\ req[r].home \in LocalId
         /\ ParkedPlacesOf(r, parked[req[r].home]) # {}
<1>1. req[r].home \in LocalId
  BY HomeOfRequest DEF IsAt, Outcome
<1>2. req[r] \in Place /\ req[r].pc = "parked" /\ req[r].time = 0
  BY DEF IInv, TypeOK, Structure, Lives, IsAt, Place, Home
<1>3. req[r] = Parked(req[r].home)
  BY <1>2 DEF Place, Parked, At
<1> QED
  BY <1>1, <1>3 DEF QueuesMatch

\* A waiter leaves the queue for an end of its acquire: a timeout or an abort.
LEMMA WaiterLeavesMatch ==
  ASSUME IInv, QueuesMatch, NEW r \in Request, IsAt(r, "waiting"), UNCHANGED parked,
         NEW outcome \in Outcome, Set(r, Ended(outcome)),
         waiters' = [waiters EXCEPT ![req[r].home] =
                       Without(waiters[req[r].home], PlacesOf(r, waiters[req[r].home]))]
  PROVE  QueuesMatch'
<1> DEFINE g == req[r].home
<1> DEFINE t == Without(waiters[g], PlacesOf(r, waiters[g]))
<1>1. /\ waiters \in [LocalId -> Seq(Waiter)] /\ parked \in [LocalId -> Seq(Request)]
      /\ req \in [Request -> Place]
  BY DEF IInv, TypeOK, Place, Home
<1>2. WaitersMatch(waiters, req) /\ ParkedMatch(parked, req)
  BY QueuesMatchHalves
<1>3. g \in LocalId /\ PlacesOf(r, waiters[g]) # {} /\ waiters[g] \in Seq(Waiter)
  BY <1>1, WaitingPlace
<1>4. PlacesOf(r, waiters[g]) \in SUBSET DOMAIN waiters[g]
  BY DEF PlacesOf
<1>5. t \in Seq(Waiter) /\ \E k \in PlacesOf(r, waiters[g]) : Drops(t, waiters[g], waiters[g][k])
  BY <1>3, <1>4, WithoutDrops
<1>6. PICK k \in PlacesOf(r, waiters[g]) : Drops(t, waiters[g], waiters[g][k])
  BY <1>5
<1> DEFINE w == waiters[g][k]
<1>7. w.id = r /\ Drops(t, waiters[g], w)
  BY <1>6 DEF PlacesOf
<1>8. waiters' = [waiters EXCEPT ![g] = t]
  OBVIOUS
<1> HIDE DEF t, w
<1>9. /\ OnlyQueue(g, t, waiters, waiters') /\ OnlyMoves(r, req, req')
      /\ req'[r] = Ended(outcome)
  BY <1>1, <1>3, <1>8 DEF OnlyQueue, OnlyMoves, Set
<1>10. Ended(outcome).pc # "waiting" /\ Ended(outcome).pc # "parked"
  BY DEF Ended, At, Outcome
<1>11. WaitersMatch(waiters', req')
  <2>1. req'[r].pc # "waiting" /\ t \in Seq(Waiter)
    BY <1>5, <1>9, <1>10
  <2> QED
    BY ONLY <1>1, <1>2, <1>3, <1>7, <1>9, <2>1, WaitersMatchLeave
<1>12. SameAt("parked", req, req')
  BY <1>10, SetOutside DEF IsAt
<1>13. ParkedMatch(parked', req')
  BY <1>1, <1>2, <1>12, ParkedMatchKept
<1> QED
  BY <1>11, <1>13, QueuesMatchHalves

\* A concurrency waiter leaves the list: an abort.
LEMMA ParkedLeavesMatch ==
  ASSUME IInv, QueuesMatch, NEW r \in Request, IsAt(r, "parked"), UNCHANGED waiters,
         NEW outcome \in Outcome, Set(r, Ended(outcome)),
         parked' = [parked EXCEPT ![req[r].home] =
                      Without(parked[req[r].home], ParkedPlacesOf(r, parked[req[r].home]))]
  PROVE  QueuesMatch'
<1> DEFINE g == req[r].home
<1> DEFINE t == Without(parked[g], ParkedPlacesOf(r, parked[g]))
<1>1. /\ waiters \in [LocalId -> Seq(Waiter)] /\ parked \in [LocalId -> Seq(Request)]
      /\ req \in [Request -> Place]
  BY DEF IInv, TypeOK, Place, Home
<1>2. WaitersMatch(waiters, req) /\ ParkedMatch(parked, req)
  BY QueuesMatchHalves
<1>3. g \in LocalId /\ ParkedPlacesOf(r, parked[g]) # {} /\ parked[g] \in Seq(Request)
  BY <1>1, ParkedPlace
<1>4. ParkedPlacesOf(r, parked[g]) \in SUBSET DOMAIN parked[g]
  BY DEF ParkedPlacesOf
<1>5. t \in Seq(Request) /\ \E k \in ParkedPlacesOf(r, parked[g]) : Drops(t, parked[g], parked[g][k])
  BY <1>3, <1>4, WithoutDrops
<1>6. PICK k \in ParkedPlacesOf(r, parked[g]) : Drops(t, parked[g], parked[g][k])
  BY <1>5
<1>7. Drops(t, parked[g], r)
  BY <1>6 DEF ParkedPlacesOf
<1>8. parked' = [parked EXCEPT ![g] = t]
  OBVIOUS
<1> HIDE DEF t
<1>9. /\ OnlyQueue(g, t, parked, parked') /\ OnlyMoves(r, req, req')
      /\ req'[r] = Ended(outcome)
  BY <1>1, <1>3, <1>8 DEF OnlyQueue, OnlyMoves, Set
<1>10. Ended(outcome).pc # "waiting" /\ Ended(outcome).pc # "parked"
  BY DEF Ended, At, Outcome
<1>11. ParkedMatch(parked', req')
  <2>1. req'[r].pc # "parked" /\ t \in Seq(Request)
    BY <1>5, <1>9, <1>10
  <2> QED
    BY ONLY <1>1, <1>2, <1>3, <1>7, <1>9, <2>1, ParkedMatchLeave
<1>12. SameAt("waiting", req, req')
  BY <1>10, SetOutside DEF IsAt
<1>13. WaitersMatch(waiters', req')
  BY <1>1, <1>2, <1>12, WaitersMatchKept
<1> QED
  BY <1>11, <1>13, QueuesMatchHalves

LEMMA AbortMatch ==
  ASSUME IInv, QueuesMatch, NEW r \in Request, Abort(r)
  PROVE  QueuesMatch'
<1>1. "aborted" \in Outcome
  BY DEF Outcome
<1>2. CASE IsAt(r, "waiting")
  <2>1. ~IsAt(r, "parked")
    BY <1>2 DEF IsAt
  <2>2. /\ Set(r, Ended("aborted")) /\ UNCHANGED parked
        /\ waiters' = [waiters EXCEPT ![req[r].home] =
                         Without(waiters[req[r].home], PlacesOf(r, waiters[req[r].home]))]
    BY <1>2, <2>1 DEF Abort, Set
  <2> QED
    BY <1>1, <1>2, <2>2, WaiterLeavesMatch
<1>3. CASE IsAt(r, "parked")
  <2>1. ~IsAt(r, "waiting")
    BY <1>3 DEF IsAt
  <2>2. /\ Set(r, Ended("aborted")) /\ UNCHANGED waiters
        /\ parked' = [parked EXCEPT ![req[r].home] =
                        Without(parked[req[r].home], ParkedPlacesOf(r, parked[req[r].home]))]
    BY <1>3, <2>1 DEF Abort, Set
  <2> QED
    BY <1>1, <1>3, <2>2, ParkedLeavesMatch
<1>4. CASE ~IsAt(r, "waiting") /\ ~IsAt(r, "parked")
  <2>1. UNCHANGED <<waiters, parked, req>>
    BY <1>4 DEF Abort
  <2>2. SameAt("waiting", req, req') /\ SameAt("parked", req, req')
    BY <2>1 DEF SameAt
  <2> QED
    BY <2>1, <2>2, OtherStepsMatch
<1> QED
  BY <1>2, <1>3, <1>4

LEMMA RejectQueuedMatch ==
  ASSUME IInv, QueuesMatch, RejectQueued
  PROVE  QueuesMatch'
<1>1. /\ waiters \in [LocalId -> Seq(Waiter)] /\ parked \in [LocalId -> Seq(Request)]
      /\ local \in LocalId \cup {None}
  BY DEF IInv, TypeOK
<1>2. CASE local = None
  <2>1. UNCHANGED <<waiters, parked, req>>
    BY <1>2 DEF RejectQueued
  <2>2. SameAt("waiting", req, req') /\ SameAt("parked", req, req')
    BY <2>1 DEF SameAt
  <2> QED
    BY <2>1, <2>2, OtherStepsMatch
<1>3. CASE local # None
  <2>1. /\ RejectsAll(local, req, req')
        /\ OnlyQueue(local, <<>>, waiters, waiters')
        /\ OnlyQueue(local, <<>>, parked, parked')
    BY <1>1, <1>3 DEF RejectQueued, RejectsAll, OnlyQueue
  <2>2. local \in LocalId /\ WaitersMatch(waiters, req) /\ ParkedMatch(parked, req)
    BY <1>1, <1>3, QueuesMatchHalves
  <2>3. WaitersMatch(waiters', req') /\ ParkedMatch(parked', req')
    BY <1>1, <2>1, <2>2, MatchEmptied
  <2> QED
    BY <2>3, QueuesMatchHalves
<1> QED
  BY <1>2, <1>3

(***************************************************************************)
(* The theorems.                                                           *)
(***************************************************************************)

LEMMA InitEstablishes ==
  ASSUME Init
  PROVE  IInv /\ QueuesMatch
<1>1. TypeOK
  <2>1. Idle \in Place
    BY PlacesTyped DEF Home
  <2>2. NotDraining \in DrainState
    BY DEF NotDraining, DrainState, Home
  <2>3. \A S : <<>> \in Seq(S)
    BY EmptySeq
  <2>4. /\ req \in [Request -> Place] /\ drain \in [Drain -> DrainState]
        /\ waiters \in [LocalId -> Seq(Waiter)] /\ parked \in [LocalId -> Seq(Request)]
        /\ microtasks \in Seq(Request \cup Drain) /\ window \in Seq(Entry)
    BY <2>1, <2>2, <2>3 DEF Init
  <2> QED
    BY <2>4 DEF Init, TypeOK, Place, Home, DrainState, None
<1>2. Structure
  BY EngineAssumption DEF Init, Structure, Lives, Idle, At, Draining, NotDraining, None
<1>3. NoLostWakeup
  BY DEF Init, NoLostWakeup
<1>4. QueuesMatch
  BY DEF Init, QueuesMatch, Idle, Waiting, Parked, At, PlacesOf, ParkedPlacesOf
<1> QED
  BY <1>1, <1>2, <1>3, <1>4 DEF IInv

LEMMA RequestStepKeeps ==
  ASSUME IInv, QueuesMatch, NEW r \in Request, RequestStep(r)
  PROVE  IInv' /\ QueuesMatch'
<1>1. CASE FailFast(r)
  <2>1. /\ Set(r, Ended("aborted")) /\ UNCHANGED <<waiters, parked>>
        /\ req[r].pc # "waiting" /\ req[r].pc # "parked"
    BY <1>1 DEF FailFast, IsAt, queueVars
  <2>2. Ended("aborted").pc # "waiting" /\ Ended("aborted").pc # "parked"
    BY DEF Ended, At
  <2>3. SameAt("waiting", req, req') /\ SameAt("parked", req, req')
    BY <2>1, <2>2, SetOutside
  <2> QED
    BY <1>1, <2>1, <2>3, FailFastKeeps, OtherStepsMatch
<1>2. CASE Admit(r)
  <2>1. req[r].pc \in {"checking", "granted"} /\ TakeConcurrencySlot(r) /\ UNCHANGED waiters
    BY <1>2 DEF Admit, IsAt
  <2> QED
    BY <1>2, <2>1, AdmitKeeps, TakeConcurrencySlotMatch
<1>3. CASE RejectFull(r)
  <2>1. /\ Set(r, Ended("queueFull")) /\ UNCHANGED <<waiters, parked>>
        /\ req[r].pc # "waiting" /\ req[r].pc # "parked"
    BY <1>3 DEF RejectFull, IsAt, queueVars
  <2>2. Ended("queueFull").pc # "waiting" /\ Ended("queueFull").pc # "parked"
    BY DEF Ended, At
  <2>3. SameAt("waiting", req, req') /\ SameAt("parked", req, req')
    BY <2>1, <2>2, SetOutside
  <2> QED
    BY <1>3, <2>1, <2>3, RejectFullKeeps, OtherStepsMatch
<1>4. CASE Enqueue(r)
  BY <1>4, EnqueueKeeps, EnqueueMatch
<1>5. CASE Proceed(r)
  <2>1. req[r].pc \in {"checking", "granted"} /\ TakeConcurrencySlot(r) /\ UNCHANGED waiters
    BY <1>5 DEF Proceed, IsAt
  <2> QED
    BY <1>5, <2>1, ProceedKeeps, TakeConcurrencySlotMatch
<1>6. CASE Resume(r)
  <2> DEFINE place == Executing(req[r].home)
  <2>1. /\ Set(r, place) /\ UNCHANGED <<waiters, parked>>
        /\ req[r].pc # "waiting" /\ req[r].pc # "parked"
    BY <1>6 DEF Resume, IsAt
  <2>2. place.pc # "waiting" /\ place.pc # "parked"
    BY DEF Executing, At
  <2>3. SameAt("waiting", req, req') /\ SameAt("parked", req, req')
    BY <2>1, <2>2, SetOutside
  <2> QED
    BY <1>6, <2>1, <2>3, ResumeKeeps, OtherStepsMatch
<1>7. CASE Finish(r)
  BY <1>7, FinishKeeps, FinishMatch
<1>8. CASE TimeoutFires(r)
  <2>1. /\ IsAt(r, "waiting") /\ UNCHANGED parked
        /\ "timedOut" \in Outcome /\ Set(r, Ended("timedOut"))
        /\ waiters' = [waiters EXCEPT ![req[r].home] =
                         Without(waiters[req[r].home], PlacesOf(r, waiters[req[r].home]))]
    BY <1>8 DEF TimeoutFires, Outcome
  <2> QED
    BY <1>8, <2>1, TimeoutFiresKeeps, WaiterLeavesMatch
<1> QED
  BY <1>1, <1>2, <1>3, <1>4, <1>5, <1>6, <1>7, <1>8 DEF RequestStep

LEMMA DrainStepKeeps ==
  ASSUME IInv, QueuesMatch, NEW d \in Drain, DrainStep(d)
  PROVE  IInv' /\ QueuesMatch'
<1>1. ASSUME UNCHANGED <<req, waiters, parked>>
      PROVE  QueuesMatch'
  <2>1. SameAt("waiting", req, req') /\ SameAt("parked", req, req')
    BY <1>1 DEF SameAt
  <2> QED
    BY <1>1, <2>1, OtherStepsMatch
<1>2. ASSUME NEW g \in LocalId, FireDrain(g, d)
      PROVE  IInv' /\ QueuesMatch'
  <2>1. UNCHANGED <<req, waiters, parked>>
    BY <1>2 DEF FireDrain
  <2> QED
    BY <1>1, <1>2, <2>1, FireDrainKeeps
<1>3. CASE DrainBlocked(d)
  <2>1. UNCHANGED <<req, waiters, parked>>
    BY <1>3 DEF DrainBlocked
  <2> QED
    BY <1>1, <1>3, <2>1, DrainBlockedKeeps
<1>4. CASE DrainGrants(d)
  BY <1>4, DrainGrantsKeeps, DrainGrantsMatch
<1> QED
  BY <1>2, <1>3, <1>4 DEF DrainStep

LEMMA NextKeeps ==
  ASSUME IInv, QueuesMatch, [Next]_vars
  PROVE  IInv' /\ QueuesMatch'
<1>1. ASSUME UNCHANGED <<req, waiters, parked>>
      PROVE  QueuesMatch'
  <2>1. SameAt("waiting", req, req') /\ SameAt("parked", req, req')
    BY <1>1 DEF SameAt
  <2> QED
    BY <1>1, <2>1, OtherStepsMatch
<1>2. ASSUME NEW r \in Request, Arrive(r)
      PROVE  IInv' /\ QueuesMatch'
  <2>1. PICK reply : Set(r, Checking(local', reply))
    BY <1>2 DEF Arrive
  <2> DEFINE place == Checking(local', reply)
  <2>2. /\ req[r].pc # "waiting" /\ req[r].pc # "parked"
        /\ place.pc # "waiting" /\ place.pc # "parked" /\ Set(r, place)
        /\ UNCHANGED <<waiters, parked>>
    BY <1>2, <2>1 DEF Arrive, IsAt, Checking, At, queueVars
  <2> HIDE DEF place
  <2>3. SameAt("waiting", req, req') /\ SameAt("parked", req, req')
    BY <2>2, SetOutside
  <2> QED
    BY <1>2, <2>2, <2>3, ArriveKeeps, OtherStepsMatch
<1>3. ASSUME NEW r \in Request, Abort(r)
      PROVE  IInv' /\ QueuesMatch'
  BY <1>3, AbortKeeps, AbortMatch
<1>4. CASE Shutdown
  <2>1. RejectQueued
    BY <1>4 DEF Shutdown
  <2> QED
    BY <1>4, <2>1, ShutdownKeeps, RejectQueuedMatch
<1>5. CASE Reset
  <2>1. RejectQueued
    BY <1>5 DEF Reset
  <2> QED
    BY <1>5, <2>1, ResetKeeps, RejectQueuedMatch
<1>6. ASSUME NEW delay \in Delay, ApplyBackoff(delay)
      PROVE  IInv' /\ QueuesMatch'
  <2>1. UNCHANGED <<req, waiters, parked>>
    BY <1>6 DEF ApplyBackoff, queueVars
  <2> QED
    BY <1>1, <1>6, <2>1, ApplyBackoffKeeps
<1>7. CASE Tick
  <2>1. UNCHANGED <<req, waiters, parked>>
    BY <1>7 DEF Tick, queueVars
  <2> QED
    BY <1>1, <1>7, <2>1, TickKeeps
<1>8. CASE UNCHANGED vars
  <2>1. QueuesMatch'
    BY <1>1, <1>8 DEF vars, queueVars
  <2>2. TypeOK'
    BY <1>8 DEF IInv, TypeOK, vars, mapVars, queueVars, storeVars
  <2>3. Structure'
    BY <1>8 DEF IInv, Structure, Lives, Draining, vars, mapVars, queueVars
  <2>4. NoLostWakeup'
    BY <1>8 DEF IInv, NoLostWakeup, vars, mapVars, queueVars
  <2> QED
    BY <2>1, <2>2, <2>3, <2>4 DEF IInv
<1> QED
  BY <1>2, <1>3, <1>4, <1>5, <1>6, <1>7, <1>8, RequestStepKeeps, DrainStepKeeps
     DEF Next, EngineStep

(***************************************************************************)
(* The concurrency slots.  What is counted is who executes, and who was    *)
(* woken and will.                                                         *)
(***************************************************************************)

RunningIn(rq, g) == {r \in Request : rq[r] = Executing(g)}
WakingIn(rq, g) == {r \in Request : rq[r] = Woken(g)}

\* NoSlotLeak and NoLostSlot.
NoLeak == local # None => active[local] <= Cardinality(RunningIn(req, local))
NoLoss ==
  local # None /\ parked[local] # <<>> =>
    active[local] + Cardinality(WakingIn(req, local)) >= maxConcurrent

\* What they need besides: finitely many requests execute or are woken, a LocalState not
\* made yet is empty, and without maxConcurrent nobody is parked.
SlotInv ==
  /\ \A g \in LocalId : IsFiniteSet(RunningIn(req, g)) /\ IsFiniteSet(WakingIn(req, g))
  /\ \A g \in LocalId : g > created => active[g] = 0 /\ parked[g] = <<>>
  /\ maxConcurrent = Undefined => \A g \in LocalId : parked[g] = <<>>
  /\ NoLeak
  /\ NoLoss

\* A step that moves nobody in or out of the requests that execute or are woken.
LEMMA CountedKept ==
  ASSUME SameAt("executing", req, req'), SameAt("woken", req, req'), NEW g \in LocalId
  PROVE  RunningIn(req', g) = RunningIn(req, g) /\ WakingIn(req', g) = WakingIn(req, g)
<1>1. ASSUME NEW q \in Request
      PROVE  /\ req'[q] = Executing(g) <=> req[q] = Executing(g)
             /\ req'[q] = Woken(g) <=> req[q] = Woken(g)
  BY DEF SameAt, Executing, Woken, At
<1> QED
  BY <1>1 DEF RunningIn, WakingIn

\* The entry of the map stays, goes, or is new.
EntryMoves ==
  /\ local' \in {local, None, created + 1}
  /\ created' \in Nat /\ created' >= created
  /\ local' = created + 1 => local = local' \/ created' = created + 1

\* A step that counts nobody and parks nobody keeps the slots.
LEMMA SlotsKept ==
  ASSUME IInv, IInv', SlotInv, EntryMoves, UNCHANGED active,
         SameAt("executing", req, req'), SameAt("woken", req, req'),
         \A g \in LocalId : parked[g] = <<>> => parked'[g] = <<>>
  PROVE  SlotInv'
<1>1. /\ \A g \in LocalId : g \in Int
      /\ created \in Int /\ created' \in Int /\ created' >= created
      /\ local' \in LocalId \cup {None}
  BY DEF IInv, TypeOK, LocalId, None, EntryMoves
<1>2. /\ local \in LocalId \cup {None}
      /\ local # None => local = created
      /\ local' # None => local' = local \/ local' > created
  BY <1>1 DEF EntryMoves, IInv, Structure, TypeOK
<1>3. \A g \in LocalId : RunningIn(req', g) = RunningIn(req, g) /\ WakingIn(req', g) = WakingIn(req, g)
  BY CountedKept
<1>4. \A g \in LocalId : IsFiniteSet(RunningIn(req', g)) /\ IsFiniteSet(WakingIn(req', g))
  BY <1>3 DEF SlotInv
<1>5. \A g \in LocalId : g > created' => active'[g] = 0 /\ parked'[g] = <<>>
  BY <1>1 DEF SlotInv
<1>6. maxConcurrent = Undefined => \A g \in LocalId : parked'[g] = <<>>
  BY DEF SlotInv
<1>7. NoLeak'
  <2> SUFFICES ASSUME local' # None
               PROVE  active[local'] <= Cardinality(RunningIn(req', local'))
    BY DEF NoLeak
  <2>1. local' \in LocalId
    BY <1>1
  <2>2. CASE local' = local
    BY <1>3, <2>1, <2>2 DEF SlotInv, NoLeak
  <2>3. CASE local' > created
    <3>1. active[local'] = 0
      BY <2>1, <2>3 DEF SlotInv
    <3>2. Cardinality(RunningIn(req', local')) \in Nat
      BY <1>4, <2>1, FS_CardinalityType
    <3> QED
      BY <3>1, <3>2
  <2> QED
    BY <1>2, <2>2, <2>3
<1>8. NoLoss'
  <2> SUFFICES ASSUME local' # None, parked'[local'] # <<>>
               PROVE  active[local'] + Cardinality(WakingIn(req', local')) >= maxConcurrent
    BY DEF NoLoss
  <2>1. local' \in LocalId /\ parked[local'] # <<>>
    BY <1>1
  <2>2. local' = local
    BY <1>2, <2>1 DEF SlotInv
  <2> QED
    BY <1>3, <2>1, <2>2 DEF SlotInv, NoLoss
<1> QED
  BY <1>4, <1>5, <1>6, <1>7, <1>8 DEF SlotInv

\* Who starts to execute in g joins the ones that do, and leaves those woken in g if it
\* was one; in other LocalStates nothing moves.
LEMMA CountedStarts ==
  ASSUME IInv, NEW r \in Request, NEW g \in LocalId, Set(r, Executing(g)),
         req[r].pc # "executing", req[r].pc = "woken" => req[r].home = g
  PROVE  /\ RunningIn(req', g) = RunningIn(req, g) \cup {r} /\ r \notin RunningIn(req, g)
         /\ WakingIn(req', g) = WakingIn(req, g) \ {r}
         /\ \A h \in LocalId : h # g => /\ RunningIn(req', h) = RunningIn(req, h)
                                        /\ WakingIn(req', h) = WakingIn(req, h)
<1>1. req' = [req EXCEPT ![r] = Executing(g)] /\ req \in [Request -> Place]
  BY DEF Set, IInv, TypeOK, Place, Home
<1>2. \A q \in Request : req'[q] = IF q = r THEN Executing(g) ELSE req[q]
  BY <1>1
<1>3. \A h \in LocalId :
        /\ req[r] # Executing(h) /\ Executing(g) # Woken(h)
        /\ h # g => req[r] # Woken(h) /\ Executing(g) # Executing(h)
  BY DEF Executing, Woken, At
<1> QED
  BY <1>2, <1>3 DEF RunningIn, WakingIn

\* A slot of g is counted for who starts to execute.
LEMMA SlotTaken ==
  ASSUME IInv, SlotInv, NEW r \in Request, NEW g \in LocalId, Set(r, Executing(g)),
         req[r].pc # "executing", req[r].pc = "woken" => req[r].home = g,
         \/ active' = [active EXCEPT ![g] = @ + 1]
         \/ maxConcurrent = Undefined /\ active' = active,
         g <= created, UNCHANGED <<local, created, parked>>
  PROVE  SlotInv'
<1>1. /\ RunningIn(req', g) = RunningIn(req, g) \cup {r} /\ r \notin RunningIn(req, g)
      /\ WakingIn(req', g) = WakingIn(req, g) \ {r}
      /\ \A h \in LocalId : h # g => /\ RunningIn(req', h) = RunningIn(req, h)
                                     /\ WakingIn(req', h) = WakingIn(req, h)
  BY CountedStarts
<1>2. IsFiniteSet(RunningIn(req, g)) /\ IsFiniteSet(WakingIn(req, g))
  BY DEF SlotInv
<1>3. /\ IsFiniteSet(RunningIn(req', g)) /\ IsFiniteSet(WakingIn(req', g))
      /\ Cardinality(RunningIn(req', g)) = Cardinality(RunningIn(req, g)) + 1
      /\ Cardinality(WakingIn(req', g)) >= Cardinality(WakingIn(req, g)) - 1
  <2>1. Cardinality(WakingIn(req, g)) \in Nat
    BY <1>2, FS_CardinalityType
  <2>2. /\ IsFiniteSet(WakingIn(req, g) \ {r})
        /\ Cardinality(WakingIn(req, g) \ {r}) \in {Cardinality(WakingIn(req, g)), Cardinality(WakingIn(req, g)) - 1}
    BY <1>2, FS_RemoveElement
  <2>3. /\ IsFiniteSet(RunningIn(req, g) \cup {r})
        /\ Cardinality(RunningIn(req, g) \cup {r}) = Cardinality(RunningIn(req, g)) + 1
    BY <1>1, <1>2, FS_AddElement
  <2> QED
    BY <1>1, <2>1, <2>2, <2>3
<1>4. /\ active \in [LocalId -> Nat] /\ active[g] \in Nat /\ active'[g] \in Nat
      /\ active'[g] <= active[g] + 1
      /\ maxConcurrent # Undefined => active'[g] = active[g] + 1
      /\ \A h \in LocalId : h # g => active'[h] = active[h]
  BY DEF IInv, TypeOK
<1>5. /\ Cardinality(RunningIn(req, g)) \in Nat /\ Cardinality(WakingIn(req, g)) \in Nat
      /\ Cardinality(WakingIn(req', g)) \in Nat
  BY <1>2, <1>3, FS_CardinalityType
<1>6. local \in LocalId \cup {None} /\ None \notin LocalId /\ g \in Int /\ created \in Int
      /\ maxConcurrent \in Nat \cup {Undefined}
  BY EngineAssumption DEF IInv, TypeOK, LocalId, None
<1>7. \A h \in LocalId : IsFiniteSet(RunningIn(req', h)) /\ IsFiniteSet(WakingIn(req', h))
  BY <1>1, <1>3 DEF SlotInv
<1>8. NoLeak'
  <2>1. CASE local = g
    BY <1>3, <1>4, <1>5, <2>1 DEF SlotInv, NoLeak
  <2>2. CASE local # g
    BY <1>1, <1>4, <1>6, <2>2 DEF SlotInv, NoLeak
  <2> QED
    BY <2>1, <2>2
<1>9. NoLoss'
  <2>1. CASE local = g
    <3>1. parked[g] # <<>> => /\ maxConcurrent # Undefined /\ maxConcurrent \in Nat
                              /\ active[g] + Cardinality(WakingIn(req, g)) >= maxConcurrent
      BY <1>6, <2>1 DEF SlotInv, NoLoss
    <3> QED
      BY <1>3, <1>4, <1>5, <2>1, <3>1 DEF NoLoss
  <2>2. CASE local # g
    BY <1>1, <1>4, <1>6, <2>2 DEF SlotInv, NoLoss
  <2> QED
    BY <2>1, <2>2
<1>10. \A h \in LocalId : h > created' => active'[h] = 0 /\ parked'[h] = <<>>
  <2>1. ASSUME NEW h \in LocalId, h > created PROVE active[h] = 0 /\ parked[h] = <<>>
    BY <2>1 DEF SlotInv
  <2>2. ASSUME NEW h \in LocalId, h > created PROVE active'[h] = active[h]
    BY <1>4, <1>6, <2>2
  <2> QED
    BY <2>1, <2>2
<1> QED
  BY <1>7, <1>8, <1>9, <1>10 DEF SlotInv

\* TakeConcurrencySlot: a slot is taken, or r leaves, or r is parked because none is free.
LEMMA TakeConcurrencySlotSlots ==
  ASSUME IInv, IInv', SlotInv, NEW r \in Request, req[r].pc \in {"checking", "granted"},
         TakeConcurrencySlot(r), UNCHANGED <<local, created>>
  PROVE  SlotInv'
<1> DEFINE g == req[r].home
<1>1. g \in 1 .. created /\ g \in LocalId
  BY HomeOfRequest DEF Outcome
<1>2. req[r].pc # "executing" /\ req[r].pc # "woken"
  OBVIOUS
<1>3. EntryMoves
  BY DEF EntryMoves, IInv, TypeOK, Structure, LocalId, None
<1>4. CASE /\ Set(r, Executing(g)) /\ UNCHANGED parked
           /\ active' = IF maxConcurrent = Undefined THEN active ELSE [active EXCEPT ![g] = @ + 1]
  <2>1. \/ active' = [active EXCEPT ![g] = @ + 1]
        \/ maxConcurrent = Undefined /\ active' = active
    BY <1>4
  <2>2. g <= created
    BY <1>1
  <2> QED
    BY <1>1, <1>2, <1>4, <2>1, <2>2, SlotTaken
<1>5. CASE Set(r, Ended("aborted")) /\ UNCHANGED <<active, parked>>
  <2>1. SameAt("executing", req, req') /\ SameAt("woken", req, req')
    BY <1>2, <1>5, SetOutside DEF Ended, At
  <2> QED
    BY <1>3, <1>5, <2>1, SlotsKept
<1>6. CASE /\ maxConcurrent # Undefined /\ active[g] >= maxConcurrent
           /\ Set(r, Parked(g)) /\ UNCHANGED active
           /\ parked' = [parked EXCEPT ![g] = Append(@, r)]
  <2>1. SameAt("executing", req, req') /\ SameAt("woken", req, req')
    BY <1>2, <1>6, SetOutside DEF Parked, At
  <2>2. \A h \in LocalId : RunningIn(req', h) = RunningIn(req, h) /\ WakingIn(req', h) = WakingIn(req, h)
    BY <2>1, CountedKept
  <2>3. \A h \in LocalId : IsFiniteSet(RunningIn(req', h)) /\ IsFiniteSet(WakingIn(req', h))
    BY <2>2 DEF SlotInv
  <2>4. /\ parked \in [LocalId -> Seq(Request)] /\ local \in LocalId \cup {None}
        /\ \A h \in LocalId : h # g => parked'[h] = parked[h]
    BY <1>6 DEF IInv, TypeOK
  <2>5. \A h \in LocalId : h > created' => active'[h] = 0 /\ parked'[h] = <<>>
    <3>1. \A h \in LocalId : h > created => h # g
      BY <1>1 DEF IInv, TypeOK, LocalId, None
    <3> QED
      BY <1>6, <2>4, <3>1 DEF SlotInv
  <2>6. NoLeak'
    BY <1>6, <2>2, <2>4 DEF SlotInv, NoLeak
  <2>7. NoLoss'
    <3>1. CASE local = g
      <4>1. Cardinality(WakingIn(req, g)) \in Nat
        BY <1>1, FS_CardinalityType DEF SlotInv
      <4>2. active[g] \in Nat /\ maxConcurrent \in Nat
        BY <1>1, <1>6, EngineAssumption DEF IInv, TypeOK
      <4>3. active[g] + Cardinality(WakingIn(req, g)) >= maxConcurrent
        BY <1>6, <4>1, <4>2
      <4> QED
        BY <1>1, <1>6, <2>2, <3>1, <4>3 DEF NoLoss
    <3>2. CASE local # g
      BY <1>6, <2>2, <2>4, <3>2 DEF SlotInv, NoLoss
    <3> QED
      BY <3>1, <3>2
  <2> QED
    BY <1>6, <2>3, <2>5, <2>6, <2>7 DEF SlotInv
<1> QED
  BY <1>4, <1>5, <1>6 DEF TakeConcurrencySlot

\* Finish: a slot of the current entry is given back, and who is woken makes up for it.
LEMMA FinishSlots ==
  ASSUME IInv, QueuesMatch, SlotInv, NEW r \in Request, Finish(r)
  PROVE  SlotInv'
<1> DEFINE next == Wakes
<1>1. /\ parked \in [LocalId -> Seq(Request)] /\ req \in [Request -> Place]
      /\ active \in [LocalId -> Nat]
      /\ local \in LocalId \cup {None}
      /\ local # None => local = created
      /\ created \in Nat /\ None \notin LocalId
      /\ maxConcurrent \in Nat \cup {Undefined}
  <2>1. /\ parked \in [LocalId -> Seq(Request)] /\ req \in [Request -> Place]
        /\ active \in [LocalId -> Nat]
    BY DEF IInv, TypeOK, Place, Home
  <2>2. /\ local \in LocalId \cup {None}
        /\ created \in Nat /\ None \notin LocalId
    BY DEF IInv, TypeOK, LocalId, None
  <2>3. local # None => local = created
    BY DEF IInv, Structure
  <2> QED
    BY <2>1, <2>2, <2>3, EngineAssumption
<1>2. /\ req[r].pc = "executing" /\ UNCHANGED <<local, created>>
      /\ active' = IF Releases THEN [active EXCEPT ![local] = @ - 1] ELSE active
      /\ parked' = IF next # Nobody THEN [parked EXCEPT ![local] = Tail(@)] ELSE parked
      /\ req' = [q \in Request |-> IF q = r THEN Ended("finished")
                                   ELSE IF q = next THEN Woken(req[q].home) ELSE req[q]]
  BY DEF Finish, IsAt, mapVars
<1>3. next # Nobody =>
        /\ Releases /\ parked[local] # <<>> /\ local \in LocalId
        /\ next \in Request /\ req[next] = Parked(local)
  <2> SUFFICES ASSUME next # Nobody
               PROVE  /\ Releases /\ parked[local] # <<>> /\ local \in LocalId
                      /\ next \in Request /\ req[next] = Parked(local)
    OBVIOUS
  <2>1. /\ Releases /\ parked[local] # <<>> /\ local \in LocalId
        /\ next = Head(parked[local])
    BY <1>1 DEF Wakes, Releases
  <2>2. next = parked[local][1] /\ 1 \in DOMAIN parked[local] /\ next \in Request
    BY <1>1, <2>1, HeadTailProperties, LenProperties
  <2> QED
    BY <2>1, <2>2 DEF QueuesMatch
<1> HIDE DEF next
<1>4. \A q \in Request, g \in LocalId :
        /\ req'[q] = Executing(g) <=> q # r /\ req[q] = Executing(g)
        /\ req'[q] = Woken(g) <=> req[q] = Woken(g) \/ (q = next /\ g = local)
  <2> SUFFICES ASSUME NEW q \in Request, NEW g \in LocalId
               PROVE  /\ req'[q] = Executing(g) <=> q # r /\ req[q] = Executing(g)
                      /\ req'[q] = Woken(g) <=> req[q] = Woken(g) \/ (q = next /\ g = local)
    OBVIOUS
  <2>1. /\ next # r
        /\ q = next => next # Nobody
    BY <1>2, <1>3, EngineAssumption DEF Parked, At
  <2>2. CASE q = r
    BY <1>2, <1>3, <2>2, EngineAssumption DEF Ended, Executing, Woken, Parked, At
  <2>3. CASE q = next /\ q # r
    <3>1. next # Nobody /\ req[q] = Parked(local) /\ req'[q] = Woken(local)
      BY <1>2, <1>3, <2>1, <2>3 DEF Parked, At
    <3> QED
      BY <2>3, <3>1 DEF Executing, Woken, Parked, At
  <2>4. CASE q # next /\ q # r
    BY <1>2, <2>4
  <2> QED
    BY <2>2, <2>3, <2>4
<1>5. \A g \in LocalId :
        /\ RunningIn(req', g) = RunningIn(req, g) \ {r}
        /\ WakingIn(req', g) = IF next # Nobody /\ g = local THEN WakingIn(req, g) \cup {next} ELSE WakingIn(req, g)
  BY <1>3, <1>4, EngineAssumption DEF RunningIn, WakingIn
<1>6. \A g \in LocalId :
        /\ IsFiniteSet(RunningIn(req, g)) /\ IsFiniteSet(WakingIn(req, g))
        /\ Cardinality(RunningIn(req, g)) \in Nat /\ Cardinality(WakingIn(req, g)) \in Nat
  BY FS_CardinalityType DEF SlotInv
<1>7. \A g \in LocalId :
        /\ IsFiniteSet(RunningIn(req', g))
        /\ Cardinality(RunningIn(req', g)) >= Cardinality(RunningIn(req, g)) - 1
        /\ Cardinality(RunningIn(req', g)) \in Nat
  <2> TAKE g \in LocalId
  <2>1. /\ IsFiniteSet(RunningIn(req, g) \ {r})
        /\ Cardinality(RunningIn(req, g) \ {r}) \in
             {Cardinality(RunningIn(req, g)), Cardinality(RunningIn(req, g)) - 1}
    BY <1>6, FS_RemoveElement
  <2>2. Cardinality(RunningIn(req, g) \ {r}) \in Nat
    BY <2>1, FS_CardinalityType
  <2>3. RunningIn(req', g) = RunningIn(req, g) \ {r} /\ Cardinality(RunningIn(req, g)) \in Nat
    BY <1>5, <1>6
  <2>4. Cardinality(RunningIn(req, g) \ {r}) >= Cardinality(RunningIn(req, g)) - 1
    BY <2>1, <2>3
  <2> QED
    BY <2>1, <2>2, <2>3, <2>4
<1>8. \A g \in LocalId : IsFiniteSet(WakingIn(req', g))
  BY <1>5, <1>6, FS_AddElement
<1>9. next # Nobody => Cardinality(WakingIn(req', local)) = Cardinality(WakingIn(req, local)) + 1
  <2> SUFFICES ASSUME next # Nobody
               PROVE  Cardinality(WakingIn(req', local)) = Cardinality(WakingIn(req, local)) + 1
    OBVIOUS
  <2>1. local \in LocalId /\ next \notin WakingIn(req, local)
    BY <1>3 DEF WakingIn, Woken, Parked, At
  <2> QED
    BY <1>5, <1>6, <2>1, FS_AddElement
<1>10. \A g \in LocalId :
         /\ active[g] \in Nat
         /\ g = local /\ Releases => active'[g] = active[g] - 1
         /\ g # local \/ ~Releases => active'[g] = active[g]
         /\ g # local \/ next = Nobody => parked'[g] = parked[g]
  BY <1>1, <1>2
<1>11. \A g \in LocalId : g > created' => active'[g] = 0 /\ parked'[g] = <<>>
  BY <1>1, <1>2, <1>3, <1>10 DEF SlotInv, LocalId
<1>12. maxConcurrent = Undefined => \A g \in LocalId : parked'[g] = <<>>
  BY <1>2, <1>3 DEF SlotInv
<1>13. NoLeak'
  <2> SUFFICES ASSUME local # None
               PROVE  active'[local] <= Cardinality(RunningIn(req', local))
    BY <1>2 DEF NoLeak
  <2>1. local \in LocalId /\ active[local] <= Cardinality(RunningIn(req, local))
    BY <1>1 DEF SlotInv, NoLeak
  <2>2. CASE Releases
    BY <1>6, <1>7, <1>10, <2>1, <2>2
  <2>3. CASE ~Releases
    <3>1. active'[local] = 0
      BY <1>10, <2>1, <2>3 DEF Releases
    <3> QED
      BY <1>7, <2>1, <3>1
  <2> QED
    BY <2>2, <2>3
<1>14. NoLoss'
  <2> SUFFICES ASSUME local # None, parked'[local] # <<>>
               PROVE  active'[local] + Cardinality(WakingIn(req', local)) >= maxConcurrent
    BY <1>2 DEF NoLoss
  <2>1. local \in LocalId
    BY <1>1
  <2>2. parked[local] # <<>>
    BY <1>3, <1>10, <2>1
  <2>3. /\ active[local] + Cardinality(WakingIn(req, local)) >= maxConcurrent
        /\ maxConcurrent \in Nat
    BY <1>1, <2>1, <2>2 DEF SlotInv, NoLoss
  <2>4. CASE Releases
    <3>1. next # Nobody
      <4>1. next = Head(parked[local])
        BY <2>2, <2>4 DEF next, Wakes
      <4>2. Head(parked[local]) \in Request
        BY <1>1, <2>1, <2>2, HeadTailProperties
      <4> QED
        BY <4>1, <4>2, EngineAssumption
    <3> QED
      BY <1>6, <1>9, <1>10, <2>1, <2>3, <2>4, <3>1
  <2>5. CASE ~Releases
    <3>1. next = Nobody
      BY <1>3, <2>5
    <3> QED
      BY <1>5, <1>10, <2>1, <2>3, <2>5, <3>1
  <2> QED
    BY <2>4, <2>5
<1> QED
  BY <1>7, <1>8, <1>11, <1>12, <1>13, <1>14 DEF SlotInv

\* Who sets only its own control point, neither from nor to a counted one, counts nobody.
LEMMA SetCountsNobody ==
  ASSUME IInv, NEW r \in Request, NEW place, Set(r, place),
         req[r].pc \notin {"executing", "woken"}, place.pc \notin {"executing", "woken"}
  PROVE  SameAt("executing", req, req') /\ SameAt("woken", req, req')
BY SetOutside

\* The entry of the map is not touched.
LEMMA EntryStays ==
  ASSUME IInv, UNCHANGED <<local, created>>
  PROVE  EntryMoves
<1>1. local \in LocalId \cup {None} /\ created \in Nat /\ created + 1 # created
  BY DEF IInv, TypeOK, LocalId, None
<1>2. local # None => local = created
  BY DEF IInv, Structure
<1>3. created + 1 # None
  BY <1>1 DEF None
<1> QED
  BY <1>1, <1>2, <1>3 DEF EntryMoves

\* Enqueue: r and the waiter it drops are not counted before, and not after.
LEMMA EnqueueSlots ==
  ASSUME IInv, IInv', QueuesMatch, SlotInv, NEW r \in Request, Enqueue(r)
  PROVE  SlotInv'
<1> DEFINE g == req[r].home
<1> DEFINE queue == waiters[g]
<1> DEFINE full == Full(queue)
<1>1. /\ req[r].pc = "checking" /\ UNCHANGED <<local, created, active, parked>>
      /\ full => CanDrop(r, queue)
      /\ req' = [q \in Request |->
                   IF q = r THEN Waiting(g)
                   ELSE IF full /\ q = Last(queue).id THEN Ended("queueFull")
                   ELSE req[q]]
  BY DEF Enqueue, IsAt, mapVars
<1>2. g \in LocalId
  BY <1>1, HomeOfRequest DEF Outcome
<1>3. full => req[Last(queue).id] = Waiting(g)
  <2> SUFFICES ASSUME full
               PROVE  req[Last(queue).id] = Waiting(g)
    OBVIOUS
  <2>1. queue # <<>> /\ queue \in Seq(Waiter)
    BY <1>1, <1>2 DEF CanDrop, IInv, TypeOK
  <2>2. Len(queue) \in DOMAIN queue /\ Last(queue) = queue[Len(queue)]
    BY <2>1, LenProperties, EmptySeq DEF Last
  <2> QED
    BY <1>2, <2>2 DEF QueuesMatch
<1> HIDE DEF queue, full
<1>4. \A q \in Request :
        req'[q] = req[q] \/ (/\ req[q].pc \in {"checking", "waiting"}
                             /\ req'[q].pc \in {"waiting", "queueFull"})
  BY <1>1, <1>3 DEF Waiting, Ended, At
<1>5. SameAt("executing", req, req') /\ SameAt("woken", req, req')
  BY <1>4 DEF SameAt
<1> QED
  BY <1>1, <1>5, EntryStays, SlotsKept

\* DrainGrants: only a waiter is granted.
LEMMA DrainGrantsSlots ==
  ASSUME IInv, IInv', QueuesMatch, SlotInv, NEW d \in Drain, DrainGrants(d)
  PROVE  SlotInv'
<1> DEFINE g == drain[d].local
<1> DEFINE h == drain[d].head
<1>1. /\ UNCHANGED <<local, created, active, parked>>
      /\ req' = [req EXCEPT ![h] = IF IsHead(h, waiters[g]) THEN Granted(g) ELSE @]
      /\ Draining(d)
  BY DEF DrainGrants, mapVars
<1>2. g \in LocalId
  BY <1>1, HomesTyped DEF IInv, Structure
<1>3. IsHead(h, waiters[g]) => req[h] = Waiting(g)
  <2> SUFFICES ASSUME IsHead(h, waiters[g])
               PROVE  req[h] = Waiting(g)
    OBVIOUS
  <2>1. waiters[g] \in Seq(Waiter) /\ waiters[g] # <<>> /\ Head(waiters[g]).id = h
    BY <1>2 DEF IsHead, IInv, TypeOK
  <2>2. 1 \in DOMAIN waiters[g] /\ waiters[g][1].id = h
    BY <2>1, HeadTailProperties, LenProperties, EmptySeq
  <2> QED
    BY <1>2, <2>2 DEF QueuesMatch
<1> HIDE DEF g, h
<1>4. req \in [Request -> Place]
  BY DEF IInv, TypeOK, Place, Home
<1>5. \A q \in Request :
        req'[q] = req[q] \/ (req[q].pc = "waiting" /\ req'[q].pc = "granted")
  BY <1>1, <1>3, <1>4 DEF Waiting, Granted, At
<1>6. SameAt("executing", req, req') /\ SameAt("woken", req, req')
  BY <1>5 DEF SameAt
<1> QED
  BY <1>1, <1>6, EntryStays, SlotsKept

\* Arrive: a new entry starts with all its slots.
LEMMA ArriveSlots ==
  ASSUME IInv, IInv', SlotInv, NEW r \in Request, Arrive(r)
  PROVE  SlotInv'
<1>1. /\ req[r].pc = "idle" /\ UNCHANGED <<active, parked>>
      /\ local' = IF local = None THEN created + 1 ELSE local
      /\ created' = IF local = None THEN created + 1 ELSE created
  BY DEF Arrive, IsAt, queueVars
<1>2. PICK reply : Set(r, Checking(local', reply))
  BY DEF Arrive
<1> DEFINE place == Checking(local', reply)
<1>3. place.pc = "checking"
  BY DEF Checking, At
<1>4. SameAt("executing", req, req') /\ SameAt("woken", req, req')
  <2> HIDE DEF place
  <2> QED
    BY <1>1, <1>2, <1>3, SetCountsNobody DEF place
<1>5. EntryMoves
  <2>1. created \in Nat /\ local \in LocalId \cup {None}
    BY DEF IInv, TypeOK, LocalId, None
  <2>2. local # None => local = created
    BY DEF IInv, Structure
  <2>3. created + 1 # None /\ created + 1 # created /\ created + 1 \in Nat
    BY <2>1 DEF None
  <2>4. CASE local = None
    BY <1>1, <2>1, <2>3, <2>4 DEF EntryMoves
  <2>5. CASE local # None
    BY <1>1, <2>1, <2>2, <2>3, <2>5 DEF EntryMoves
  <2> QED
    BY <2>4, <2>5
<1> QED
  BY <1>1, <1>4, <1>5, SlotsKept

\* shutdown and reset: who is rejected was waiting or parked.
LEMMA RejectQueuedSlots ==
  ASSUME IInv, IInv', SlotInv, RejectQueued, local' \in {local, None}, UNCHANGED <<created, active>>
  PROVE  SlotInv'
<1>1. \A q \in Request :
        req'[q] = req[q] \/ (/\ req[q].pc \in {"waiting", "parked"}
                             /\ req'[q].pc = "shutdown")
  BY DEF RejectQueued, Waiting, Parked, Ended, At
<1>2. SameAt("executing", req, req') /\ SameAt("woken", req, req')
  BY <1>1 DEF SameAt
<1>3. parked \in [LocalId -> Seq(Request)] /\ local \in LocalId \cup {None}
  BY DEF IInv, TypeOK
<1>4. \A g \in LocalId : parked[g] = <<>> => parked'[g] = <<>>
  <2>1. CASE local = None
    BY <2>1 DEF RejectQueued
  <2>2. CASE local # None
    <3>1. parked' = [parked EXCEPT ![local] = <<>>]
      BY <2>2 DEF RejectQueued
    <3> QED
      BY <1>3, <3>1
  <2> QED
    BY <2>1, <2>2
<1>5. EntryMoves
  <2>1. created \in Nat /\ created + 1 # None /\ created + 1 # created
    BY DEF IInv, TypeOK, LocalId, None
  <2>2. local # None => local = created
    BY DEF IInv, Structure
  <2> QED
    BY <2>1, <2>2 DEF EntryMoves
<1> QED
  BY <1>2, <1>4, <1>5, SlotsKept

\* Abort: who is aborted was waiting or parked.
LEMMA AbortSlots ==
  ASSUME IInv, IInv', SlotInv, NEW r \in Request, Abort(r)
  PROVE  SlotInv'
<1> DEFINE g == req[r].home
<1>1. UNCHANGED <<local, created, active>>
  BY DEF Abort, mapVars
<1>2. SameAt("executing", req, req') /\ SameAt("woken", req, req')
  <2>1. CASE IsAt(r, "waiting") \/ IsAt(r, "parked")
    <3>1. Set(r, Ended("aborted")) /\ req[r].pc \in {"waiting", "parked"}
      BY <2>1 DEF Abort, Set, IsAt
    <3>2. Ended("aborted").pc = "aborted"
      BY DEF Ended, At
    <3> QED
      BY <3>1, <3>2, SetCountsNobody
  <2>2. CASE ~(IsAt(r, "waiting") \/ IsAt(r, "parked"))
    <3>1. req' = req
      BY <2>2 DEF Abort
    <3> QED
      BY <3>1 DEF SameAt
  <2> QED
    BY <2>1, <2>2
<1>3. \A h \in LocalId : parked[h] = <<>> => parked'[h] = <<>>
  <2>1. parked \in [LocalId -> Seq(Request)]
    BY DEF IInv, TypeOK
  <2>2. \A s : s = <<>> => Without(s, ParkedPlacesOf(r, s)) = <<>>
    BY DEF Without, ParkedPlacesOf
  <2>3. \/ parked' = parked
        \/ parked' = [parked EXCEPT ![g] = Without(parked[g], ParkedPlacesOf(r, parked[g]))]
    BY DEF Abort
  <2> QED
    BY <2>1, <2>2, <2>3
<1> QED
  BY <1>1, <1>2, <1>3, EntryStays, SlotsKept

LEMMA InitSlots ==
  ASSUME Init
  PROVE  SlotInv
<1>1. \A g \in LocalId : RunningIn(req, g) = {} /\ WakingIn(req, g) = {}
  BY DEF Init, RunningIn, WakingIn, Idle, Executing, Woken, At
<1> QED
  BY <1>1, FS_EmptySet DEF Init, SlotInv, NoLeak, NoLoss

LEMMA RequestStepSlots ==
  ASSUME IInv, IInv', QueuesMatch, SlotInv, NEW r \in Request, RequestStep(r)
  PROVE  SlotInv'
<1>1. ASSUME NEW place, Set(r, place), req[r].pc \notin {"executing", "woken"},
             place.pc \notin {"executing", "woken"}, UNCHANGED <<local, created, active, parked>>
      PROVE  SlotInv'
  BY <1>1, SetCountsNobody, EntryStays, SlotsKept
<1>2. \A outcome \in Outcome : Ended(outcome).pc \notin {"executing", "woken"}
  BY DEF Ended, At, Outcome
<1>3. CASE FailFast(r)
  <2>1. /\ Set(r, Ended("aborted")) /\ req[r].pc = "idle" /\ "aborted" \in Outcome
        /\ UNCHANGED <<local, created, active, parked>>
    BY <1>3 DEF FailFast, IsAt, Outcome, mapVars, queueVars
  <2> QED
    BY <1>1, <1>2, <2>1
<1>4. CASE Admit(r) \/ Proceed(r)
  <2>1. /\ req[r].pc \in {"checking", "granted"} /\ TakeConcurrencySlot(r)
        /\ UNCHANGED <<local, created>>
    BY <1>4 DEF Admit, Proceed, IsAt, mapVars
  <2> QED
    BY <2>1, TakeConcurrencySlotSlots
<1>5. CASE RejectFull(r)
  <2>1. /\ Set(r, Ended("queueFull")) /\ req[r].pc = "checking" /\ "queueFull" \in Outcome
        /\ UNCHANGED <<local, created, active, parked>>
    BY <1>5 DEF RejectFull, IsAt, Outcome, mapVars, queueVars
  <2> QED
    BY <1>1, <1>2, <2>1
<1>6. CASE Enqueue(r)
  BY <1>6, EnqueueSlots
<1>7. CASE Resume(r)
  <2> DEFINE g == req[r].home
  <2>1. /\ Set(r, Executing(g)) /\ req[r].pc = "woken"
        /\ active' = [active EXCEPT ![g] = @ + 1] /\ UNCHANGED <<local, created, parked>>
    BY <1>7 DEF Resume, IsAt, mapVars
  <2>2. g \in 1 .. created /\ g \in LocalId
    BY <2>1, HomeOfRequest DEF Outcome
  <2>3. g <= created /\ req[r].pc # "executing"
    BY <2>1, <2>2
  <2> QED
    BY <2>1, <2>2, <2>3, SlotTaken
<1>8. CASE Finish(r)
  BY <1>8, FinishSlots
<1>9. CASE TimeoutFires(r)
  <2>1. /\ Set(r, Ended("timedOut")) /\ req[r].pc = "waiting" /\ "timedOut" \in Outcome
        /\ UNCHANGED <<local, created, active, parked>>
    BY <1>9 DEF TimeoutFires, IsAt, Outcome, mapVars
  <2> QED
    BY <1>1, <1>2, <2>1
<1> QED
  BY <1>3, <1>4, <1>5, <1>6, <1>7, <1>8, <1>9 DEF RequestStep

LEMMA NextSlots ==
  ASSUME IInv, IInv', QueuesMatch, SlotInv, [Next]_vars
  PROVE  SlotInv'
<1>1. ASSUME UNCHANGED <<req, local, created, active, parked>>
      PROVE  SlotInv'
  <2>1. SameAt("executing", req, req') /\ SameAt("woken", req, req')
    BY <1>1 DEF SameAt
  <2> QED
    BY <1>1, <2>1, EntryStays, SlotsKept
<1>2. ASSUME NEW r \in Request, RequestStep(r) \/ Abort(r) \/ Arrive(r)
      PROVE  SlotInv'
  BY <1>2, RequestStepSlots, AbortSlots, ArriveSlots
<1>3. ASSUME NEW d \in Drain, DrainStep(d)
      PROVE  SlotInv'
  <2>1. CASE DrainGrants(d)
    BY <2>1, DrainGrantsSlots
  <2>2. ASSUME NEW g \in LocalId, FireDrain(g, d)
        PROVE  UNCHANGED <<req, local, created, active, parked>>
    BY <2>2 DEF FireDrain, mapVars
  <2>3. DrainBlocked(d) => UNCHANGED <<req, local, created, active, parked>>
    BY DEF DrainBlocked, mapVars
  <2> QED
    BY <1>1, <1>3, <2>1, <2>2, <2>3 DEF DrainStep
<1>4. CASE Shutdown \/ Reset
  <2>1. RejectQueued /\ local' \in {local, None} /\ UNCHANGED <<created, active>>
    BY <1>4 DEF Shutdown, Reset, mapVars
  <2> QED
    BY <2>1, RejectQueuedSlots
<1>5. (\E delay \in Delay : ApplyBackoff(delay)) => UNCHANGED <<req, local, created, active, parked>>
  BY DEF ApplyBackoff, mapVars, queueVars
<1>6. Tick \/ UNCHANGED vars => UNCHANGED <<req, local, created, active, parked>>
  BY DEF Tick, vars, mapVars, queueVars
<1> QED
  BY <1>1, <1>2, <1>3, <1>4, <1>5, <1>6 DEF Next, EngineStep

\* The invariant holds in every state of every behaviour.
LEMMA InvariantHolds == Spec => [](IInv /\ QueuesMatch /\ SlotInv)
<1>1. Init => IInv /\ QueuesMatch /\ SlotInv
  BY InitEstablishes, InitSlots
<1>2. (IInv /\ QueuesMatch /\ SlotInv) /\ [Next]_vars => (IInv /\ QueuesMatch /\ SlotInv)'
  BY NextKeeps, NextSlots
<1> QED
  BY <1>1, <1>2, PTL DEF Spec

\* Type correctness of the engine, for any configuration.
THEOREM EngineTypeCorrect == Spec => []TypeOK
<1>1. IInv => TypeOK
  BY DEF IInv
<1> QED
  BY <1>1, InvariantHolds, PTL

\* No lost wakeup: through every interleaving of acquires, drains with a local or a
\* remote store, timeouts, aborts, evictions, shutdowns and resets, somebody waiting in
\* the current queue has a timer or a running drain coming for it.
THEOREM EngineNoLostWakeup == Spec => []NoLostWakeup
<1>1. IInv => NoLostWakeup
  BY DEF IInv
<1> QED
  BY <1>1, InvariantHolds, PTL

\* The queues hold exactly who is waiting on them, nobody twice: no acquire is resolved
\* twice, and none waits where nobody would look for it.
THEOREM EngineQueuesMatch == Spec => []QueuesMatch
<1> QED
  BY InvariantHolds, PTL

\* No leaked slot: the count of a key's current state never exceeds the calls that will
\* release one, although calls of a state that reset dropped release into the new one.
THEOREM EngineNoSlotLeak == Spec => []NoSlotLeak
<1>1. SlotInv => NoSlotLeak
  BY DEF SlotInv, NoLeak, NoSlotLeak, RunningIn, ExecutingIn
<1> QED
  BY <1>1, InvariantHolds, PTL

\* No lost slot: while anybody is parked, every slot is taken or on its way to somebody
\* who was woken (release resolves a waiter that counts itself later, line 218).
THEOREM EngineNoLostSlot == Spec => []NoLostSlot
<1>1. SlotInv => NoLostSlot
  BY DEF SlotInv, NoLoss, NoLostSlot, WakingIn, WokenIn
<1> QED
  BY <1>1, InvariantHolds, PTL

(***************************************************************************)
(* The order of the queues.                                                *)
(***************************************************************************)
\* Before is a strict order in which waiters of one priority and time are equals.
LEMMA BeforeOrders ==
  ASSUME NEW a, NEW b, NEW c,
         a.priority \in Priority, b.priority \in Priority, c.priority \in Priority,
         a.enqueued \in Nat, b.enqueued \in Nat, c.enqueued \in Nat
  PROVE  /\ ~Before(a, a)
         /\ Before(a, b) => ~Before(b, a)
         /\ ~Before(b, a) /\ ~Before(c, b) => ~Before(c, a)
         /\ Before(a, b) /\ ~Before(c, b) => Before(a, c)
<1>1. \A p \in Priority : PRIORITY_RANK[p] \in Nat
  BY DEF Priority, PRIORITY_RANK
<1> DEFINE x == PRIORITY_RANK[a.priority]
           y == PRIORITY_RANK[b.priority]
           z == PRIORITY_RANK[c.priority]
<1>2. x \in Nat /\ y \in Nat /\ z \in Nat
  BY <1>1
<1>3. \A u, v : Before(u, v) <=>
        \/ PRIORITY_RANK[u.priority] < PRIORITY_RANK[v.priority]
        \/ PRIORITY_RANK[u.priority] = PRIORITY_RANK[v.priority] /\ u.enqueued < v.enqueued
  BY DEF Before
<1>4. /\ Before(a, a) <=> x < x \/ (x = x /\ a.enqueued < a.enqueued)
      /\ Before(a, b) <=> x < y \/ (x = y /\ a.enqueued < b.enqueued)
      /\ Before(b, a) <=> y < x \/ (y = x /\ b.enqueued < a.enqueued)
      /\ Before(c, b) <=> z < y \/ (z = y /\ c.enqueued < b.enqueued)
      /\ Before(c, a) <=> z < x \/ (z = x /\ c.enqueued < a.enqueued)
      /\ Before(a, c) <=> x < z \/ (x = z /\ a.enqueued < c.enqueued)
  BY <1>3
<1> HIDE DEF x, y, z
<1> QED
  BY <1>2, <1>4

\* Nobody stands in front of somebody who goes before it.
Ordered(queue) == \A i, j \in DOMAIN queue : i < j => ~Before(queue[j], queue[i])

\* A waiter has the priority of its request.
Honest(queue) == \A i \in DOMAIN queue : queue[i].priority = priority[queue[i].id]

OrderInv == \A g \in LocalId : Ordered(waiters[g]) /\ Honest(waiters[g])

LEMMA WaiterKeys ==
  ASSUME NEW queue \in Seq(Waiter)
  PROVE  /\ Len(queue) \in Nat /\ DOMAIN queue = 1 .. Len(queue)
         /\ \A i \in DOMAIN queue : /\ queue[i] \in Waiter /\ queue[i].priority \in Priority
                                    /\ queue[i].enqueued \in Nat /\ queue[i].id \in Request
<1>1. Len(queue) \in Nat /\ DOMAIN queue = 1 .. Len(queue)
  BY LenProperties
<1>2. \A i \in DOMAIN queue : queue[i] \in Waiter
  BY <1>1, ElementOfSeq
<1> QED
  BY <1>1, <1>2 DEF Waiter

\* A queue that loses one place stays in order.
LEMMA ShiftOrdered ==
  ASSUME NEW s \in Seq(Waiter), NEW t \in Seq(Waiter), NEW k \in 1 .. Len(s),
         Len(t) = Len(s) - 1,
         \A i \in 1 .. Len(t) : t[i] = IF i < k THEN s[i] ELSE s[i + 1],
         Ordered(s), Honest(s)
  PROVE  Ordered(t) /\ Honest(t)
<1>1. /\ Len(s) \in Nat /\ Len(t) \in Nat /\ DOMAIN s = 1 .. Len(s) /\ DOMAIN t = 1 .. Len(t)
  BY WaiterKeys
<1> DEFINE f == [i \in 1 .. Len(t) |-> IF i < k THEN i ELSE i + 1]
<1>2. \A i \in 1 .. Len(t) : f[i] \in 1 .. Len(s) /\ t[i] = s[f[i]]
  BY <1>1
<1>3. \A i, j \in 1 .. Len(t) : i < j => f[i] < f[j]
  BY <1>1
<1> HIDE DEF f
<1>4. ASSUME NEW i \in 1 .. Len(t), NEW j \in 1 .. Len(t), i < j PROVE ~Before(t[j], t[i])
  <2>1. ~Before(s[f[j]], s[f[i]])
    BY <1>1, <1>2, <1>3, <1>4 DEF Ordered
  <2> QED
    BY <1>2, <2>1
<1>5. ASSUME NEW i \in 1 .. Len(t) PROVE t[i].priority = priority[t[i].id]
  <2>1. s[f[i]].priority = priority[s[f[i]].id]
    BY <1>1, <1>2 DEF Honest
  <2> QED
    BY <1>2, <2>1
<1> QED
  BY <1>1, <1>4, <1>5 DEF Ordered, Honest

LEMMA TailOrdered ==
  ASSUME NEW s \in Seq(Waiter), s # <<>>, Ordered(s), Honest(s)
  PROVE  Ordered(Tail(s)) /\ Honest(Tail(s))
<1>1. Len(s) \in Nat /\ Len(s) # 0
  BY EmptySeq, LenProperties
<1>2. /\ Tail(s) \in Seq(Waiter) /\ Len(Tail(s)) = Len(s) - 1
      /\ \A i \in 1 .. Len(Tail(s)) : Tail(s)[i] = s[i + 1]
  BY HeadTailProperties
<1>3. 1 \in 1 .. Len(s) /\ \A i \in 1 .. Len(Tail(s)) : ~(i < 1)
  BY <1>1, <1>2
<1> QED
  BY <1>2, <1>3, ShiftOrdered

LEMMA FrontOrdered ==
  ASSUME NEW s \in Seq(Waiter), s # <<>>, Ordered(s), Honest(s)
  PROVE  Ordered(Front(s)) /\ Honest(Front(s))
<1>1. /\ Len(s) \in Nat /\ Len(s) # 0
      /\ Front(s) \in Seq(Waiter) /\ Len(Front(s)) = Len(s) - 1
      /\ \A i \in 1 .. Len(Front(s)) : Front(s)[i] = s[i]
  BY EmptySeq, LenProperties, FrontProperties
<1>2. Len(s) \in 1 .. Len(s) /\ \A i \in 1 .. Len(Front(s)) : i < Len(s)
  BY <1>1
<1> QED
  BY <1>1, <1>2, ShiftOrdered

LEMMA WithoutOrdered ==
  ASSUME NEW s \in Seq(Waiter), NEW at \in SUBSET DOMAIN s, Ordered(s), Honest(s)
  PROVE  Ordered(Without(s, at)) /\ Honest(Without(s, at))
<1>1. CASE at = {}
  BY <1>1 DEF Without
<1>2. CASE at # {}
  <2>1. at \in SUBSET Nat /\ DOMAIN s = 1 .. Len(s) /\ Len(s) \in Nat
    BY LenProperties
  <2>2. Min(at) \in at /\ Min(at) \in 1 .. Len(s)
    BY <1>2, <2>1, MinOfNaturals
  <2>3. Without(s, at) = RemoveAt(s, Min(at))
    BY <1>2 DEF Without
  <2>4. /\ Without(s, at) \in Seq(Waiter) /\ Len(Without(s, at)) = Len(s) - 1
        /\ \A i \in 1 .. Len(Without(s, at)) :
             Without(s, at)[i] = IF i < Min(at) THEN s[i] ELSE s[i + 1]
    BY <2>2, <2>3, RemoveAtProperties
  <2> QED
    BY <2>2, <2>4, ShiftOrdered
<1> QED
  BY <1>1, <1>2

\* Where a waiter is inserted: behind everyone who does not give way to it.
LEMMA InsertionPointIs ==
  ASSUME NEW queue \in Seq(Waiter), NEW w
  PROVE  /\ InsertionPoint(queue, w) \in 1 .. Len(queue) + 1
         /\ \A i \in 1 .. Len(queue) : i < InsertionPoint(queue, w) => ~Before(w, queue[i])
         /\ InsertionPoint(queue, w) <= Len(queue) => Before(w, queue[InsertionPoint(queue, w)])
<1> DEFINE places == {i \in DOMAIN queue : Before(w, queue[i])} \cup {Len(queue) + 1}
           k == Min(places)
<1>1. Len(queue) \in Nat /\ DOMAIN queue = 1 .. Len(queue)
  BY LenProperties
<1>2. InsertionPoint(queue, w) = k
  BY DEF InsertionPoint
<1>3. k \in places /\ \A i \in places : k <= i
  <2>1. places \in SUBSET Nat /\ places # {}
    BY <1>1
  <2> HIDE DEF places
  <2> QED
    BY <2>1, MinOfNaturals
<1> HIDE DEF k
<1>4. k \in 1 .. Len(queue) + 1
  BY <1>1, <1>3
<1>5. \A i \in 1 .. Len(queue) : i < k => ~Before(w, queue[i])
  BY <1>1, <1>3, <1>4
<1>6. k <= Len(queue) => Before(w, queue[k])
  BY <1>1, <1>3, <1>4
<1> QED
  BY <1>2, <1>4, <1>5, <1>6

LEMMA InsertedOrdered ==
  ASSUME NEW queue \in Seq(Waiter), NEW w \in Waiter, Ordered(queue), Honest(queue),
         w.priority = priority[w.id]
  PROVE  Ordered(Inserted(queue, w)) /\ Honest(Inserted(queue, w))
<1>0. PICK k \in 1 .. Len(queue) + 1 : k = InsertionPoint(queue, w)
  BY InsertionPointIs
<1> DEFINE t == InsertAt(queue, k, w)
<1> DEFINE n == Len(queue)
<1>1. t = Inserted(queue, w)
  BY <1>0 DEF Inserted
<1>2. /\ t \in Seq(Waiter) /\ Len(t) = n + 1
      /\ \A i \in 1 .. n + 1 : t[i] = IF i < k THEN queue[i] ELSE IF i = k THEN w ELSE queue[i - 1]
  <2>1. queue \in Seq(Waiter) /\ w \in Waiter /\ k \in 1 .. Len(queue) + 1
    OBVIOUS
  <2> QED
    BY ONLY <2>1, InsertAtProperties
<1>3. DOMAIN t = 1 .. n + 1 /\ n \in Nat /\ k \in 1 .. n + 1
  BY <1>2, LenProperties
<1>4. /\ DOMAIN queue = 1 .. n
      /\ \A i \in 1 .. n : queue[i].priority \in Priority /\ queue[i].enqueued \in Nat
      /\ w.priority \in Priority /\ w.enqueued \in Nat
  BY WaiterKeys DEF Waiter
<1>5. /\ \A i \in 1 .. n : i < k => ~Before(w, queue[i])
      /\ k <= n => Before(w, queue[k])
  BY <1>0, InsertionPointIs
<1> HIDE DEF t, n
<1>6. \A i \in 1 .. n + 1 : i < k => i \in 1 .. n /\ t[i] = queue[i]
  BY <1>2, <1>3
<1>7. t[k] = w
  BY <1>2, <1>3
<1>8. \A i \in 1 .. n + 1 : i > k => i - 1 \in 1 .. n /\ t[i] = queue[i - 1] /\ k <= i - 1
  BY <1>2, <1>3
<1>9. ASSUME NEW i \in 1 .. n, k <= i PROVE Before(w, queue[i])
  <2>1. k \in 1 .. n /\ Before(w, queue[k])
    BY <1>3, <1>5, <1>9
  <2>2. ~Before(queue[i], queue[k])
    <3>1. CASE i = k
      BY <1>4, <2>1, <3>1, BeforeOrders
    <3>2. CASE k < i
      BY <1>4, <2>1, <3>2 DEF Ordered
    <3> QED
      BY <1>3, <1>9, <3>1, <3>2
  <2> QED
    BY <1>4, <2>1, <2>2, BeforeOrders
<1>10. ASSUME NEW i \in 1 .. n + 1, NEW j \in 1 .. n + 1, i < j PROVE ~Before(t[j], t[i])
  <2>1. CASE j < k
    <3>1. i < k
      BY <1>3, <1>10, <2>1
    <3> QED
      BY <1>4, <1>6, <1>10, <2>1, <3>1 DEF Ordered
  <2>2. CASE j = k
    BY <1>5, <1>6, <1>7, <1>10, <2>2
  <2>3. CASE j > k /\ i < k
    <3>1. i < j - 1
      BY <1>3, <2>3
    <3> QED
      BY <1>4, <1>6, <1>8, <2>3, <3>1 DEF Ordered
  <2>4. CASE j > k /\ i = k
    BY <1>4, <1>7, <1>8, <1>9, <2>4, BeforeOrders
  <2>5. CASE j > k /\ i > k
    <3>1. i - 1 < j - 1
      BY <1>3, <1>10
    <3> QED
      BY <1>4, <1>8, <2>5, <3>1 DEF Ordered
  <2> QED
    BY <1>3, <2>1, <2>2, <2>3, <2>4, <2>5
<1>11. ASSUME NEW i \in 1 .. n + 1 PROVE t[i].priority = priority[t[i].id]
  <2>1. CASE i < k
    BY <1>4, <1>6, <2>1 DEF Honest
  <2>2. CASE i = k
    BY <1>7, <2>2
  <2>3. CASE i > k
    BY <1>4, <1>8, <2>3 DEF Honest
  <2> QED
    BY <1>3, <2>1, <2>2, <2>3
<1> QED
  BY <1>1, <1>3, <1>10, <1>11 DEF Ordered, Honest

\* A step that replaces one queue by one in order.
LEMMA OrderKept ==
  ASSUME IInv, OrderInv, NEW g \in LocalId, NEW t, Ordered(t), Honest(t),
         waiters' = [waiters EXCEPT ![g] = t]
  PROVE  OrderInv'
<1>1. \A h \in LocalId : waiters'[h] = IF h = g THEN t ELSE waiters[h]
  BY DEF IInv, TypeOK
<1>2. \A h \in LocalId : Ordered(waiters'[h]) /\ Honest(waiters'[h])
  BY <1>1 DEF OrderInv
<1> QED
  BY <1>2, Zenon DEF OrderInv, Ordered, Honest

LEMMA EnqueueOrders ==
  ASSUME IInv, OrderInv, NEW r \in Request, Enqueue(r)
  PROVE  OrderInv'
<1> DEFINE g == req[r].home
<1> DEFINE queue == waiters[g]
<1> DEFINE full == Full(queue)
<1> DEFINE w == [id |-> r, priority |-> priority[r], enqueued |-> now]
<1> DEFINE room == IF full THEN Front(queue) ELSE queue
<1>1. g \in LocalId
  BY HomeOfRequest DEF Enqueue, IsAt, Outcome
<1>2. queue \in Seq(Waiter) /\ Ordered(queue) /\ Honest(queue)
  BY <1>1 DEF IInv, TypeOK, OrderInv
<1>3. full => queue # <<>>
  BY DEF Enqueue, CanDrop
<1>4. waiters' = [waiters EXCEPT ![g] = Inserted(room, w)]
  BY DEF Enqueue
<1>5. w \in Waiter /\ w.priority = priority[w.id]
  BY EngineAssumption DEF IInv, TypeOK, Waiter
<1> HIDE DEF w, full, g
<1>6. room \in Seq(Waiter) /\ Ordered(room) /\ Honest(room)
  BY <1>2, <1>3, FrontOrdered, FrontProperties
<1> HIDE DEF room
<1>7. Ordered(Inserted(room, w)) /\ Honest(Inserted(room, w))
  BY <1>5, <1>6, InsertedOrdered
<1> QED
  BY <1>1, <1>4, <1>7, OrderKept

LEMMA DrainGrantsOrders ==
  ASSUME IInv, OrderInv, NEW d \in Drain, DrainGrants(d)
  PROVE  OrderInv'
<1> DEFINE g == drain[d].local
<1> DEFINE r == drain[d].head
<1> DEFINE rest == IF IsHead(r, waiters[g]) THEN Tail(waiters[g]) ELSE waiters[g]
<1>1. g \in LocalId
  BY HomesTyped DEF DrainGrants, IInv, Structure, TypeOK
<1>2. waiters[g] \in Seq(Waiter) /\ Ordered(waiters[g]) /\ Honest(waiters[g])
  BY <1>1 DEF IInv, TypeOK, OrderInv
<1>3. waiters' = [waiters EXCEPT ![g] = rest]
  BY DEF DrainGrants
<1>4. Ordered(rest) /\ Honest(rest)
  BY <1>2, TailOrdered DEF IsHead
<1> HIDE DEF rest, g
<1> QED
  BY <1>1, <1>3, <1>4, OrderKept

\* A waiter leaves its queue: a timeout or an abort.
LEMMA WaiterLeavesOrders ==
  ASSUME IInv, OrderInv, NEW r \in Request, IsAt(r, "waiting"),
         waiters' = [waiters EXCEPT ![req[r].home] =
                       Without(waiters[req[r].home], PlacesOf(r, waiters[req[r].home]))]
  PROVE  OrderInv'
<1> DEFINE g == req[r].home
<1> DEFINE t == Without(waiters[g], PlacesOf(r, waiters[g]))
<1>1. g \in LocalId
  BY HomeOfRequest DEF IsAt, Outcome
<1>2. waiters[g] \in Seq(Waiter) /\ Ordered(waiters[g]) /\ Honest(waiters[g])
  BY <1>1 DEF IInv, TypeOK, OrderInv
<1>3. PlacesOf(r, waiters[g]) \in SUBSET DOMAIN waiters[g]
  BY DEF PlacesOf
<1>4. Ordered(t) /\ Honest(t)
  BY <1>2, <1>3, WithoutOrdered
<1> HIDE DEF t
<1> QED
  BY <1>1, <1>4, OrderKept DEF t

LEMMA RejectQueuedOrders ==
  ASSUME IInv, OrderInv, RejectQueued
  PROVE  OrderInv'
<1>1. CASE UNCHANGED waiters
  BY <1>1 DEF OrderInv, Ordered, Honest
<1>2. CASE local # None
  <2>1. Ordered(<<>>) /\ Honest(<<>>)
    BY DEF Ordered, Honest
  <2>2. local \in LocalId /\ waiters' = [waiters EXCEPT ![local] = <<>>]
    BY <1>2 DEF RejectQueued, IInv, TypeOK
  <2> QED
    BY <2>1, <2>2, OrderKept
<1> QED
  BY <1>1, <1>2 DEF RejectQueued

LEMMA NextOrders ==
  ASSUME IInv, OrderInv, [Next]_vars
  PROVE  OrderInv'
<1>1. ASSUME UNCHANGED waiters PROVE OrderInv'
  BY <1>1 DEF OrderInv, Ordered, Honest
<1>2. ASSUME NEW r \in Request, RequestStep(r) PROVE OrderInv'
  <2>1. Enqueue(r) => OrderInv'
    BY EnqueueOrders
  <2>2. TimeoutFires(r) => OrderInv'
    BY WaiterLeavesOrders DEF TimeoutFires
  <2>3. FailFast(r) \/ Admit(r) \/ RejectFull(r) \/ Proceed(r) \/ Resume(r) \/ Finish(r)
          => UNCHANGED waiters
    BY DEF FailFast, Admit, RejectFull, Proceed, Resume, Finish, queueVars
  <2> QED
    BY <1>1, <1>2, <2>1, <2>2, <2>3 DEF RequestStep
<1>3. ASSUME NEW r \in Request, Abort(r) PROVE OrderInv'
  BY <1>1, <1>3, WaiterLeavesOrders DEF Abort
<1>4. ASSUME NEW d \in Drain, DrainStep(d) PROVE OrderInv'
  <2>1. (\E g \in LocalId : FireDrain(g, d)) \/ DrainBlocked(d) => UNCHANGED waiters
    BY DEF FireDrain, DrainBlocked
  <2> QED
    BY <1>1, <1>4, <2>1, DrainGrantsOrders DEF DrainStep
<1>5. Shutdown \/ Reset => OrderInv'
  BY RejectQueuedOrders DEF Shutdown, Reset
<1>6. ASSUME NEW r \in Request, Arrive(r) PROVE UNCHANGED waiters
  BY <1>6 DEF Arrive, queueVars
<1>7. (\E delay \in Delay : ApplyBackoff(delay)) \/ Tick \/ UNCHANGED vars => UNCHANGED waiters
  BY DEF ApplyBackoff, Tick, vars, queueVars
<1> QED
  BY <1>1, <1>2, <1>3, <1>4, <1>5, <1>6, <1>7 DEF Next, EngineStep

\* Who is waiting is granted by a drain that finds it first in its queue, and told that
\* the queue is full by a newcomer that finds it last in one.
LEMMA WaiterMoved ==
  ASSUME IInv, [Next]_vars, NEW r \in Request, IsAt(r, "waiting"),
         req'[r].pc \in {"granted", "queueFull"}
  PROVE  \/ /\ req'[r].pc = "granted"
            /\ \E d \in Drain : DrainGrants(d) /\ IsHead(r, waiters[drain[d].local])
         \/ /\ req'[r].pc = "queueFull"
            /\ \E q \in Request : LET queue == waiters[req[q].home]
                                  IN  Enqueue(q) /\ Full(queue) /\ r = Last(queue).id
<1> DEFINE Moved == req'[r].pc \in {"granted", "queueFull"}
<1>0. req \in [Request -> Place] /\ req[r].pc = "waiting" /\ Moved
  BY DEF IInv, TypeOK, Place, Home, IsAt
<1>1. req'[r] # req[r]
  BY <1>0
<1>2. ASSUME NEW q \in Request, NEW place, Set(q, place), q # r \/ place.pc \notin {"granted", "queueFull"}
      PROVE  FALSE
  BY <1>0, <1>2 DEF Set
<1>3. /\ \A g : /\ Executing(g).pc = "executing" /\ Parked(g).pc = "parked"
                /\ Waiting(g).pc = "waiting" /\ Granted(g).pc = "granted" /\ Woken(g).pc = "woken"
                /\ \A t : Checking(g, t).pc = "checking"
      /\ \A outcome : Ended(outcome).pc = outcome
  BY DEF Executing, Parked, Waiting, Granted, Woken, Checking, Ended, At
<1>4. ASSUME NEW q \in Request, TakeConcurrencySlot(q) PROVE FALSE
  <2>1. \E place : Set(q, place) /\ place.pc \in {"executing", "parked", "aborted"}
    BY <1>3, <1>4, Zenon DEF TakeConcurrencySlot
  <2> QED
    BY <1>2, <2>1
<1>5. ASSUME NEW q \in Request, RequestStep(q)
      PROVE  /\ req'[r].pc = "queueFull" /\ Enqueue(q)
             /\ Full(waiters[req[q].home]) /\ r = Last(waiters[req[q].home]).id
  <2>1. ~FailFast(q)
    BY <1>2, <1>3 DEF FailFast
  <2>2. ~Admit(q) /\ ~Proceed(q)
    BY <1>4 DEF Admit, Proceed
  <2>3. ~RejectFull(q)
    <3>1. ASSUME RejectFull(q) PROVE q # r /\ \E place : Set(q, place)
      BY <1>0, <3>1 DEF RejectFull, IsAt
    <3> QED
      BY <1>2, <3>1
  <2>4. ~Resume(q)
    BY <1>2, <1>3 DEF Resume
  <2>5. ~Finish(q)
    BY <1>0, <1>3 DEF Finish
  <2>6. ~TimeoutFires(q)
    BY <1>2, <1>3 DEF TimeoutFires
  <2>7. Enqueue(q)
    BY <1>5, <2>1, <2>2, <2>3, <2>4, <2>5, <2>6 DEF RequestStep
  <2>8. req'[r] = IF r = q THEN Waiting(req[q].home)
                  ELSE IF Full(waiters[req[q].home]) /\ r = Last(waiters[req[q].home]).id
                       THEN Ended("queueFull") ELSE req[r]
    BY <2>7 DEF Enqueue
  <2> QED
    BY <1>0, <1>1, <1>3, <2>7, <2>8
<1>6. ASSUME NEW q \in Request, Abort(q) PROVE FALSE
  <2>1. req' = req \/ Set(q, Ended("aborted"))
    BY <1>6 DEF Abort, Set
  <2> QED
    BY <1>1, <1>2, <1>3, <2>1
<1>7. ASSUME NEW d \in Drain, DrainStep(d)
      PROVE  req'[r].pc = "granted" /\ DrainGrants(d) /\ IsHead(r, waiters[drain[d].local])
  <2>1. ~(\E g \in LocalId : FireDrain(g, d)) /\ ~DrainBlocked(d)
    BY <1>1 DEF FireDrain, DrainBlocked
  <2>2. DrainGrants(d)
    BY <1>7, <2>1 DEF DrainStep
  <2>3. LET g == drain[d].local
            h == drain[d].head
        IN  req'[r] = IF r = h /\ IsHead(h, waiters[g]) THEN Granted(g) ELSE req[r]
    BY <1>0, <2>2 DEF DrainGrants
  <2> QED
    BY <1>1, <1>3, <2>2, <2>3
<1>8. ~RejectQueued
  <2>1. RejectQueued => req'[r] = req[r] \/ req'[r] = Ended("shutdown")
    BY DEF RejectQueued
  <2> QED
    BY <1>0, <1>1, <1>3, <2>1
<1>9. ~Shutdown /\ ~Reset
  BY <1>8 DEF Shutdown, Reset
<1>10. ASSUME NEW delay \in Delay, ApplyBackoff(delay) PROVE FALSE
  BY <1>1, <1>10 DEF ApplyBackoff
<1>11. ASSUME NEW q \in Request, Arrive(q) PROVE FALSE
  <2>1. PICK reply : Set(q, Checking(local', reply))
    BY <1>11 DEF Arrive
  <2> QED
    BY <1>2, <1>3, <2>1
<1>12. ~Tick /\ ~(UNCHANGED vars)
  BY <1>1 DEF Tick, vars
<1> QED
  BY <1>5, <1>6, <1>7, <1>9, <1>10, <1>11, <1>12 DEF Next, EngineStep

\* Every queue is in order, in every state of every behaviour.
LEMMA OrderHolds == Spec => []OrderInv
<1>1. Init => OrderInv
  BY DEF Init, OrderInv, Ordered, Honest
<1>2. IInv /\ OrderInv /\ [Next]_vars => OrderInv'
  BY NextOrders
<1> QED
  BY <1>1, <1>2, InvariantHolds, PTL DEF Spec

\* A waiter's place is the one that holds its id.
LEMMA OnePlace ==
  ASSUME IInv, QueuesMatch, NEW g \in LocalId, NEW i \in DOMAIN waiters[g]
  PROVE  /\ req[waiters[g][i].id] = Waiting(g)
         /\ \A j \in DOMAIN waiters[g] : waiters[g][j].id = waiters[g][i].id => j = i
BY DEF QueuesMatch

\* The queue drains in priority order, first come first served within a priority, through
\* every insertion, drop, timeout and abort, and with any number of drain loops at once.
THEOREM EngineDrainsInPriorityOrder == Spec => DrainsInPriorityOrder
<1>1. ASSUME IInv, QueuesMatch, OrderInv, [Next]_vars, NEW r \in Request, NEW g \in LocalId,
             GrantedBy(r), req[r].home = g, NEW i \in DOMAIN waiters[g], NEW j \in DOMAIN waiters[g],
             waiters[g][i].id = r
      PROVE  ~Before(waiters[g][j], waiters[g][i])
  <2>1. PICK d \in Drain : DrainGrants(d) /\ IsHead(r, waiters[drain[d].local])
    BY <1>1, WaiterMoved DEF GrantedBy
  <2> DEFINE h == drain[d].local
             s == waiters[h]
  <2>2. h \in LocalId
    BY <1>1, <2>1, HomesTyped DEF DrainGrants, IInv, Structure, TypeOK
  <2>3. s \in Seq(Waiter) /\ Ordered(s) /\ s # <<>> /\ Head(s).id = r
    BY <1>1, <2>1, <2>2 DEF IInv, TypeOK, OrderInv, IsHead
  <2>4. Len(s) \in Nat /\ Len(s) # 0 /\ DOMAIN s = 1 .. Len(s) /\ s[1].id = r
    BY <2>3, EmptySeq, LenProperties
  <2>5. 1 \in DOMAIN s /\ req[r] = Waiting(h)
    BY <1>1, <2>2, <2>4, OnePlace
  <2>6. h = g
    BY <1>1, <2>5 DEF Waiting, At
  <2>7. i = 1 /\ j \in 1 .. Len(s)
    BY <1>1, <2>4, <2>5, <2>6, OnePlace
  <2>8. CASE j = 1
    <3>1. s[1].priority \in Priority /\ s[1].enqueued \in Nat
      BY <2>3, <2>5, WaiterKeys
    <3>2. ~Before(s[1], s[1])
      BY <3>1, BeforeOrders
    <3> QED
      BY <2>6, <2>7, <2>8, <3>2
  <2>9. CASE j # 1
    <3>1. 1 < j
      BY <2>4, <2>7, <2>9
    <3> QED
      BY <2>3, <2>4, <2>5, <2>6, <2>7, <3>1 DEF Ordered
  <2> QED
    BY <2>8, <2>9
<1>2. IInv /\ QueuesMatch /\ OrderInv /\ [Next]_vars =>
        [\A r \in Request, g \in LocalId : GrantedBy(r) /\ req[r].home = g =>
           \A i, j \in DOMAIN waiters[g] :
             waiters[g][i].id = r => ~Before(waiters[g][j], waiters[g][i])]_vars
  BY <1>1
<1> QED
  BY <1>2, OrderHolds, InvariantHolds, PTL DEF Spec, DrainsInPriorityOrder

\* A waiter is dropped only as the least urgent of a full queue, of low priority, and for
\* a newcomer that is not.
THEOREM EngineDropsLeastUrgent == Spec => DropsLeastUrgent
<1>1. ASSUME IInv, QueuesMatch, OrderInv, [Next]_vars, NEW r \in Request,
             IsAt(r, "waiting"), req'[r].pc = "queueFull"
      PROVE  /\ priority[r] = "low"
             /\ \E q \in Request : req'[q].pc = "waiting" /\ IsAt(q, "checking") /\ priority[q] # "low"
             /\ \A g \in LocalId : req[r].home = g =>
                  \A i, j \in DOMAIN waiters[g] :
                    waiters[g][i].id = r => ~Before(waiters[g][i], waiters[g][j])
  <2>1. PICK q \in Request : /\ Enqueue(q) /\ Full(waiters[req[q].home])
                             /\ r = Last(waiters[req[q].home]).id
    BY <1>1, WaiterMoved
  <2> DEFINE h == req[q].home
             s == waiters[h]
             n == Len(s)
  <2>2. h \in LocalId
    BY <1>1, <2>1, HomeOfRequest DEF Enqueue, IsAt, Outcome
  <2>3. /\ s \in Seq(Waiter) /\ Ordered(s) /\ Honest(s) /\ s # <<>>
        /\ Last(s).priority = "low" /\ priority[q] # "low"
    BY <1>1, <2>1, <2>2 DEF IInv, TypeOK, OrderInv, Enqueue, CanDrop
  <2>4. n \in Nat /\ n # 0 /\ DOMAIN s = 1 .. n /\ s[n].id = r /\ s[n].priority = "low"
    BY <2>1, <2>3, EmptySeq, LenProperties DEF Last
  <2>5. n \in DOMAIN s
    BY <2>4
  <2>6. req[r] = Waiting(h)
    BY <1>1, <2>2, <2>4, <2>5, OnePlace
  <2>7. priority[r] = "low"
    BY <2>3, <2>4, <2>5 DEF Honest
  <2>8. req'[q] = Waiting(h) /\ IsAt(q, "checking")
    BY <2>1 DEF Enqueue
  <2>9. ASSUME NEW g \in LocalId, req[r].home = g, NEW i \in DOMAIN waiters[g],
               NEW j \in DOMAIN waiters[g], waiters[g][i].id = r
        PROVE  ~Before(waiters[g][i], waiters[g][j])
    <3>1. h = g
      BY <2>6, <2>9 DEF Waiting, At
    <3>2. i = n /\ j \in 1 .. n
      BY <1>1, <2>4, <2>5, <2>9, <3>1, OnePlace
    <3>3. CASE j = n
      <4>1. s[n].priority \in Priority /\ s[n].enqueued \in Nat
        BY <2>3, <2>5, WaiterKeys
      <4>2. ~Before(s[n], s[n])
        BY <4>1, BeforeOrders
      <4> QED
        BY <3>1, <3>2, <3>3, <4>2
    <3>4. CASE j # n
      <4>1. j < n
        BY <2>4, <3>2, <3>4
      <4> QED
        BY <2>3, <2>4, <2>5, <3>1, <3>2, <4>1 DEF Ordered
    <3> QED
      BY <3>3, <3>4
  <2>10. req'[q].pc = "waiting"
    BY <2>8 DEF Waiting, At
  <2> QED
    BY <2>3, <2>7, <2>8, <2>9, <2>10
<1>2. IInv /\ QueuesMatch /\ OrderInv /\ [Next]_vars =>
        [\A r \in Request : IsAt(r, "waiting") /\ req'[r].pc = "queueFull" =>
           /\ priority[r] = "low"
           /\ \E q \in Request : req'[q].pc = "waiting" /\ IsAt(q, "checking") /\ priority[q] # "low"
           /\ \A g \in LocalId : req[r].home = g =>
                \A i, j \in DOMAIN waiters[g] :
                  waiters[g][i].id = r => ~Before(waiters[g][i], waiters[g][j])]_vars
  BY <1>1
<1> QED
  BY <1>2, OrderHolds, InvariantHolds, PTL DEF Spec, DropsLeastUrgent

(***************************************************************************)
(* The binary search.                                                      *)
(***************************************************************************)
\* search is the code's loop, as a function of the ends of the range left.
Searches(search, queue, w) ==
  search = [lo \in 0 .. Len(queue) |->
              [hi \in 0 .. Len(queue) |->
                 LET mid == (lo + hi) \div 2
                 IN  IF lo >= hi THEN lo
                     ELSE IF Before(w, queue[mid + 1]) THEN search[lo][mid] ELSE search[mid + 1][hi]]]

\* The step of a search, between lo and hi.
LEMMA MidBetween ==
  ASSUME NEW n \in Nat, NEW lo \in 0 .. n, NEW hi \in 0 .. n, lo < hi
  PROVE  LET mid == (lo + hi) \div 2
         IN  /\ mid \in lo .. hi - 1 /\ mid \in 0 .. n /\ mid + 1 \in 1 .. n /\ mid + 1 \in 0 .. n
             /\ mid + 1 <= hi
<1> DEFINE s == lo + hi
           mid == s \div 2
<1>1. s \in Nat /\ 2 * lo <= s /\ s < 2 * hi
  OBVIOUS
<1>2. mid \in Nat /\ 2 * mid <= s /\ s <= 2 * mid + 1
  BY <1>1
<1> HIDE DEF mid
<1>3. lo <= mid /\ mid < hi
  BY <1>1, <1>2
<1>4. /\ mid \in lo .. hi - 1 /\ mid \in 0 .. n /\ mid + 1 \in 1 .. n /\ mid + 1 \in 0 .. n
      /\ mid + 1 <= hi
  BY <1>2, <1>3
<1> QED
  BY <1>4 DEF mid

\* In a queue in order, the waiters that w goes before are behind the others, so some
\* place parts them.
Parts(queue, w, p) ==
  /\ p \in 0 .. Len(queue)
  /\ \A i \in 1 .. Len(queue) : Before(w, queue[i]) <=> p < i

LEMMA InsertionParts ==
  ASSUME NEW queue \in Seq(Waiter), Ordered(queue),
         NEW w, w.priority \in Priority, w.enqueued \in Nat
  PROVE  Parts(queue, w, InsertionPoint(queue, w) - 1)
<1> DEFINE n == Len(queue)
           k == InsertionPoint(queue, w)
           p == k - 1
<1>1. /\ n \in Nat /\ DOMAIN queue = 1 .. n
      /\ \A i \in 1 .. n : queue[i].priority \in Priority /\ queue[i].enqueued \in Nat
  BY WaiterKeys
<1>2. /\ k \in 1 .. n + 1
      /\ \A i \in 1 .. n : i < k => ~Before(w, queue[i])
      /\ k <= n => Before(w, queue[k])
  BY InsertionPointIs
<1> HIDE DEF k, n
<1>3. p \in 0 .. n
  BY <1>1, <1>2
<1>4. ASSUME NEW i \in 1 .. n, ~(i < k) PROVE Before(w, queue[i])
  <2>1. k \in 1 .. n /\ Before(w, queue[k])
    BY <1>1, <1>2, <1>4
  <2>2. CASE i = k
    BY <2>1, <2>2
  <2>3. CASE k < i
    <3>1. ~Before(queue[i], queue[k])
      BY <1>1, <2>1, <2>3 DEF Ordered
    <3> QED
      BY <1>1, <2>1, <3>1, BeforeOrders
  <2> QED
    BY <1>1, <1>2, <1>4, <2>2, <2>3
<1>5. \A i \in 1 .. n : p < i <=> ~(i < k)
  BY <1>1, <1>2
<1>6. \A i \in 1 .. n : Before(w, queue[i]) <=> p < i
  BY <1>2, <1>4, <1>5
<1> HIDE DEF p
<1>7. Parts(queue, w, p)
  BY <1>3, <1>6 DEF Parts, n
<1> QED
  BY <1>7 DEF p, k

\* There is such a search: what it returns can be given in closed form.
LEMMA SearchExists ==
  ASSUME NEW queue, Len(queue) \in Nat, NEW w, NEW p, Parts(queue, w, p)
  PROVE  \E search : Searches(search, queue, w)
<1> DEFINE n == Len(queue)
           f == [lo \in 0 .. n |-> [hi \in 0 .. n |->
                   IF lo >= hi \/ p < lo THEN lo ELSE IF p < hi THEN p ELSE hi]]
<1>1. n \in Nat /\ p \in 0 .. n /\ \A i \in 1 .. n : Before(w, queue[i]) <=> p < i
  BY DEF Parts
<1> HIDE DEF n
<1>2. ASSUME NEW lo \in 0 .. n, NEW hi \in 0 .. n
      PROVE  f[lo][hi] = LET mid == (lo + hi) \div 2
                         IN  IF lo >= hi THEN lo
                             ELSE IF Before(w, queue[mid + 1]) THEN f[lo][mid] ELSE f[mid + 1][hi]
  <2> DEFINE mid == (lo + hi) \div 2
  <2>1. CASE lo >= hi
    BY <2>1
  <2>2. CASE lo < hi
    <3>1. /\ mid \in lo .. hi - 1 /\ mid \in 0 .. n /\ mid + 1 \in 1 .. n /\ mid + 1 \in 0 .. n
          /\ mid + 1 <= hi
      BY <1>1, <2>2, MidBetween
    <3> HIDE DEF mid
    <3>2. Before(w, queue[mid + 1]) <=> p < mid + 1
      BY <1>1, <3>1
    <3>3. /\ f[lo][hi] = IF lo >= hi \/ p < lo THEN lo ELSE IF p < hi THEN p ELSE hi
          /\ f[lo][mid] = IF lo >= mid \/ p < lo THEN lo ELSE IF p < mid THEN p ELSE mid
          /\ f[mid + 1][hi] = IF mid + 1 >= hi \/ p < mid + 1 THEN mid + 1
                              ELSE IF p < hi THEN p ELSE hi
      BY <3>1
    <3> HIDE DEF f
    <3>4. CASE p < mid + 1
      BY <1>1, <2>2, <3>1, <3>2, <3>3, <3>4 DEF mid
    <3>5. CASE ~(p < mid + 1)
      BY <1>1, <2>2, <3>1, <3>2, <3>3, <3>5 DEF mid
    <3> QED
      BY <3>4, <3>5
  <2> QED
    BY <1>1, <2>1, <2>2
<1>3. f = [lo \in 0 .. n |-> f[lo]] /\ \A lo \in 0 .. n : f[lo] = [hi \in 0 .. n |-> f[lo][hi]]
  OBVIOUS
<1> HIDE DEF f
<1> DEFINE Row(lo) == [hi \in 0 .. n |->
                         LET mid == (lo + hi) \div 2
                         IN  IF lo >= hi THEN lo
                             ELSE IF Before(w, queue[mid + 1]) THEN f[lo][mid] ELSE f[mid + 1][hi]]
<1>4. ASSUME NEW lo \in 0 .. n PROVE f[lo] = Row(lo)
  BY <1>2, <1>3
<1>5. f = [lo \in 0 .. n |-> Row(lo)]
  <2> HIDE DEF Row
  <2> QED
    BY <1>3, <1>4
<1>6. Searches(f, queue, w)
  BY <1>5 DEF Searches, n
<1> QED
  BY <1>6

\* And it returns that place.
LEMMA SearchReturns ==
  ASSUME NEW queue, Len(queue) \in Nat, NEW w, NEW p, Parts(queue, w, p),
         NEW search, Searches(search, queue, w)
  PROVE  search[0][Len(queue)] = p
<1> DEFINE n == Len(queue)
           Right(lo, hi) == lo <= p /\ p <= hi => search[lo][hi] = p
           Bad == {m \in Nat : \E lo, hi \in 0 .. n : lo <= hi /\ hi - lo = m /\ ~Right(lo, hi)}
<1>1. n \in Nat /\ p \in 0 .. n /\ \A i \in 1 .. n : Before(w, queue[i]) <=> p < i
  BY DEF Parts
<1>2. \A lo, hi \in 0 .. n :
        search[lo][hi] = LET mid == (lo + hi) \div 2
                         IN  IF lo >= hi THEN lo
                             ELSE IF Before(w, queue[mid + 1]) THEN search[lo][mid]
                             ELSE search[mid + 1][hi]
  BY DEF Searches
<1> HIDE DEF n
<1>3. Bad = {}
  <2> SUFFICES ASSUME Bad # {} PROVE FALSE
    OBVIOUS
  <2> DEFINE m == Min(Bad)
  <2>1. m \in Bad /\ \A j \in Bad : m <= j
    <3>1. Bad \in SUBSET Nat
      OBVIOUS
    <3> HIDE DEF Bad
    <3> QED
      BY <3>1, MinOfNaturals
  <2> HIDE DEF m
  <2>2. PICK lo \in 0 .. n, hi \in 0 .. n : lo <= hi /\ hi - lo = m /\ ~Right(lo, hi)
    BY <2>1
  <2>3. lo <= p /\ p <= hi /\ search[lo][hi] # p
    BY <2>2
  <2>4. ASSUME NEW l \in 0 .. n, NEW h \in 0 .. n, l <= p, p <= h, h - l < hi - lo
        PROVE  search[l][h] = p
    <3>1. h - l \in Nat /\ ~(m <= h - l) /\ l <= h
      BY <1>1, <2>2, <2>4
    <3>2. h - l \notin Bad
      BY <2>1, <3>1
    <3> QED
      BY <2>4, <3>1, <3>2
  <2> HIDE DEF Bad, Right
  <2>5. lo < hi
    BY <1>1, <1>2, <2>2, <2>3
  <2> DEFINE mid == (lo + hi) \div 2
  <2>6. /\ mid \in lo .. hi - 1 /\ mid \in 0 .. n /\ mid + 1 \in 1 .. n /\ mid + 1 \in 0 .. n
        /\ mid + 1 <= hi
    BY <1>1, <2>5, MidBetween
  <2>7. search[lo][hi] = IF Before(w, queue[mid + 1]) THEN search[lo][mid] ELSE search[mid + 1][hi]
    BY <1>1, <1>2, <2>5
  <2> HIDE DEF mid
  <2>8. Before(w, queue[mid + 1]) <=> p < mid + 1
    BY <1>1, <2>6
  <2>9. CASE p < mid + 1
    <3>1. p <= mid /\ mid - lo < hi - lo
      BY <1>1, <2>2, <2>6, <2>9
    <3>2. search[lo][mid] = p
      BY <2>3, <2>4, <2>6, <3>1
    <3> QED
      BY <2>3, <2>7, <2>8, <2>9, <3>2
  <2>10. CASE ~(p < mid + 1)
    <3>1. mid + 1 <= p /\ hi - (mid + 1) < hi - lo
      BY <1>1, <2>2, <2>6, <2>10
    <3>2. search[mid + 1][hi] = p
      BY <2>3, <2>4, <2>6, <3>1
    <3> QED
      BY <2>3, <2>7, <2>8, <2>10, <3>2
  <2> QED
    BY <1>1, <2>6, <2>9, <2>10
<1>4. Right(0, n)
  <2>1. 0 \in 0 .. n /\ n \in 0 .. n /\ 0 <= n /\ n - 0 = n
    BY <1>1
  <2> QED
    BY <1>1, <1>3, <2>1
<1> QED
  BY <1>1, <1>4 DEF n

LEMMA SearchFinds ==
  ASSUME NEW queue \in Seq(Waiter), Ordered(queue),
         NEW w, w.priority \in Priority, w.enqueued \in Nat
  PROVE  SearchFirst(queue, w) + 1 = InsertionPoint(queue, w)
<1> DEFINE p == InsertionPoint(queue, w) - 1
           search == CHOOSE search : Searches(search, queue, w)
<1>1. Len(queue) \in Nat /\ InsertionPoint(queue, w) \in 1 .. Len(queue) + 1
  BY WaiterKeys, InsertionPointIs
<1>2. Parts(queue, w, p)
  BY InsertionParts
<1>3. Searches(search, queue, w)
  BY <1>1, <1>2, SearchExists
<1>4. SearchFirst(queue, w) = search[0][Len(queue)]
  BY Zenon DEF SearchFirst, Searches
<1> HIDE DEF search
<1>5. SearchFirst(queue, w) = p
  BY <1>1, <1>2, <1>3, <1>4, SearchReturns
<1> QED
  BY <1>1, <1>5

\* The binary search of insertWaiter finds the place the model inserts at, in every queue
\* the engine builds: in front of the first waiter the new one goes before.
THEOREM EngineSearchFindsPlace == Spec => []SearchFindsPlace
<1>1. ASSUME IInv, OrderInv, NEW g \in LocalId,
             NEW w \in [priority : Priority, enqueued : 0 .. now]
      PROVE  SearchFirst(waiters[g], w) + 1 = InsertionPoint(waiters[g], w)
  <2>1. waiters[g] \in Seq(Waiter) /\ Ordered(waiters[g]) /\ now \in Nat
    BY <1>1 DEF IInv, TypeOK, OrderInv
  <2>2. w.priority \in Priority /\ w.enqueued \in Nat
    BY <2>1
  <2> QED
    BY <2>1, <2>2, SearchFinds
<1>2. IInv /\ OrderInv => SearchFindsPlace
  BY <1>1 DEF SearchFindsPlace
<1> QED
  BY <1>2, OrderHolds, InvariantHolds, PTL
=============================================================================

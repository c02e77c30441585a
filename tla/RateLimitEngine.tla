--------------------------- MODULE RateLimitEngine ---------------------------
(***************************************************************************)
(* RateLimitEngine (src/src/core/rate-limit-engine.ts) for one key: the    *)
(* wait queue, the drain timer and its drain loop, the concurrency         *)
(* semaphore, aborts, timeouts, shutdown and reset.                        *)
(*                                                                         *)
(* A piece of JavaScript runs up to its next await in one step.  Two       *)
(* awaits split an acquire: the store's answer, and a promise that another *)
(* step resolves.  What runs when a promise resolves is a microtask;       *)
(* microtasks run in the order they were queued, all of them before any    *)
(* timer, with the microtasks of the callers (arrivals, ends of calls,     *)
(* aborts) anywhere between them.                                          *)
(*                                                                         *)
(* The store is the minute window of InMemoryStore.  With LocalStore its   *)
(* answer is a microtask; otherwise (RedisStore) it arrives some time      *)
(* later, and the call may fail.                                           *)
(***************************************************************************)
EXTENDS SlidingWindow, PriorityQueue

CONSTANTS
  Request,        \* the calls of acquire, one each
  priority,       \* the priority of each request
  est,            \* its estimated input tokens
  Abortable,      \* the requests that carry an AbortSignal
  limits,         \* rpm and itpm
  maxConcurrent,  \* may be Undefined
  maxQueueSize,
  dropLow,        \* onFull = 'drop-low'
  TimeoutMs,
  Delay,          \* backoff delays the provider asks for
  LocalStore,     \* the store answers in a microtask
  StoreMayFail,   \* a store call may reject
  MaxLocals,      \* bound: LocalStates created (resets, and one)
  Drain,          \* bound: drain loops that can be running at once
  Nobody          \* no request

LocalId == 1 .. MaxLocals
None == 0   \* no LocalState, no timer

ASSUME EngineAssumption ==
  /\ priority \in [Request -> Priority]
  /\ est \in [Request -> Nat]
  /\ limits \in Limits
  /\ maxConcurrent \in (Nat \ {0}) \cup {Undefined}
  /\ maxQueueSize \in Nat
  /\ dropLow \in BOOLEAN /\ LocalStore \in BOOLEAN /\ StoreMayFail \in BOOLEAN
  /\ TimeoutMs \in Nat
  /\ Delay \subseteq Nat
  /\ MaxLocals \in Nat \ {0}
  /\ Nobody \notin Request

VARIABLES
  now,       \* Date.now(), above 0
  req,       \* where each acquire is: control point, the LocalState it captured, a time
  aborted,   \* the requests whose signal has fired
  local,     \* localStates.get(key), None when there is no entry
  created,   \* number of LocalStates made so far
  waiters,   \* per LocalState: the sorted queue
  parked,    \* per LocalState: concurrencyWaiters
  active,    \* per LocalState: activeCount
  drainAt,   \* per LocalState: when its drain timer is due; None is drainScheduled = false
  drain,     \* the running drain loops, each awaiting the store for the head it saw
  microtasks,  \* the acquires and drain loops whose promise is resolved, in order
  window,    \* the store: minute window
  backoff,   \* the store: backoffUntil
  recorded   \* history: the requests the store has recorded a slot for

queueVars == <<waiters, parked, active, drainAt>>
mapVars   == <<local, created>>
storeVars == <<window, backoff, recorded>>
vars == <<now, req, aborted, mapVars, queueVars, drain, microtasks, storeVars>>

-----------------------------------------------------------------------------
(* Control points of an acquire. *)

At(pc, home, time) == [pc |-> pc, home |-> home, time |-> time]
Idle == At("idle", None, 0)
Checking(g, reply) == At("checking", g, reply)  \* awaiting the store, which answers reply
Waiting(g)   == At("waiting", g, 0)             \* in waiters
Granted(g)   == At("granted", g, 0)             \* its waiter was resolved
Parked(g)    == At("parked", g, 0)              \* in concurrencyWaiters
Woken(g)     == At("woken", g, 0)               \* its concurrency waiter was resolved
Executing(g) == At("executing", g, 0)           \* acquire returned, the call is running

\* The ways an acquire, or the call after it, ends.
Outcome == {"finished", "queueFull", "timedOut", "aborted", "shutdown"}
Ended(outcome) == At(outcome, None, 0)

IsAt(r, pc) == req[r].pc = pc
Set(r, state) == req' = [req EXCEPT ![r] = state]

NotDraining == [local |-> None, head |-> Nobody, reply |-> 0]
Draining(d) == drain[d].local # None

\* No microtask is pending: timers may fire, and the clock may be seen to advance.
Quiet == microtasks = <<>>

\* The continuation of p (a request or a drain loop) runs next.
IsNext(p) == microtasks # <<>> /\ Head(microtasks) = p

\* p may go on behind its await of the store.
Answered(p) == LocalStore => IsNext(p)

\* The microtasks left when p has gone on behind an await of the store.
AfterAnswer == IF LocalStore THEN Tail(microtasks) ELSE microtasks

\* A call of the store by p, on top of the microtasks 'queue'.
AwaitStore(p, queue) == microtasks' = IF LocalStore THEN Append(queue, p) ELSE queue

Init ==
  /\ now = 1
  /\ req = [r \in Request |-> Idle]
  /\ aborted = {}
  /\ local = None /\ created = 0
  /\ waiters = [g \in LocalId |-> <<>>]
  /\ parked = [g \in LocalId |-> <<>>]
  /\ active = [g \in LocalId |-> 0]
  /\ drainAt = [g \in LocalId |-> None]
  /\ drain = [d \in Drain |-> NotDraining] /\ microtasks = <<>>
  /\ window = <<>> /\ backoff = 0 /\ recorded = {}

-----------------------------------------------------------------------------
(* The store. *)

\* The ways a call of checkAndRecord for r can go: its answer and what it leaves.
\* A rejected call counts as an answer of 0 (the engine fails open).
StoreCalls(r) ==
  LET answer == CheckReply(limits, window, <<>>, backoff, est[r], now)
      entry == [timestamp |-> now, inputTokens |-> est[r], outputTokens |-> 0]
      live == EvictWindow(window, now)
  IN  {IF answer = 0
       THEN [reply |-> 0, window |-> Append(live, entry), recorded |-> recorded \cup {r}]
       ELSE [reply |-> answer, window |-> live, recorded |-> recorded]}
      \cup (IF StoreMayFail
            THEN {[reply |-> 0, window |-> window, recorded |-> recorded]} ELSE {})

StoreBecomes(call) ==
  /\ window' = call.window
  /\ recorded' = call.recorded
  /\ UNCHANGED backoff

-----------------------------------------------------------------------------
(* Acquire. *)

\* scheduleDrain: arms the drain timer of the current LocalState unless one is armed.
ScheduleDrain(at) ==
  drainAt' = IF local = None THEN drainAt
             ELSE [drainAt EXCEPT ![local] = IF @ # None THEN @ ELSE at]

\* An acquire whose signal has already fired throws.
FailFast(r) ==
  /\ IsAt(r, "idle") /\ r \in aborted
  /\ Set(r, Ended("aborted"))
  /\ UNCHANGED <<now, aborted, mapVars, queueVars, drain, microtasks, storeVars>>

\* acquire up to its first await: getOrCreate, then the call of checkAndRecord.
Arrive(r) ==
  /\ IsAt(r, "idle") /\ r \notin aborted
  /\ local' = IF local = None THEN created + 1 ELSE local
  /\ created' = IF local = None THEN created + 1 ELSE created
  /\ \E call \in StoreCalls(r) :
       /\ StoreBecomes(call)
       /\ Set(r, Checking(local', call.reply))
  /\ AwaitStore(r, microtasks)
  /\ UNCHANGED <<now, aborted, queueVars, drain>>

\* mutant: a slot is counted for a request that is only parked.
TakeConcurrencySlotCounting(r) ==
  LET g == req[r].home
      busy == maxConcurrent # Undefined /\ active[g] >= maxConcurrent
  IN  /\ active' = IF maxConcurrent = Undefined THEN active ELSE [active EXCEPT ![g] = @ + 1]
      /\ Set(r, IF busy THEN Parked(g) ELSE Executing(g))
      /\ parked' = IF busy THEN [parked EXCEPT ![g] = Append(@, r)] ELSE parked

\* The end of acquire, reached with a rate slot: take a concurrency slot, or wait
\* for one.
TakeConcurrencySlot(r) ==
  LET g == req[r].home
      busy == maxConcurrent # Undefined /\ active[g] >= maxConcurrent
  IN  \/ /\ ~busy
         /\ Set(r, Executing(g))
         /\ active' = IF maxConcurrent = Undefined THEN active ELSE [active EXCEPT ![g] = @ + 1]
         /\ UNCHANGED parked
      \/ /\ busy /\ r \in aborted
         /\ Set(r, Ended("aborted"))
         /\ UNCHANGED <<active, parked>>
      \/ /\ busy /\ r \notin aborted
         /\ Set(r, Parked(g))
         /\ parked' = [parked EXCEPT ![g] = Append(@, r)]
         /\ UNCHANGED active

\* The store's answer is not in the future: the rate limit lets r through.
Admit(r) ==
  /\ IsAt(r, "checking") /\ Answered(r) /\ req[r].time <= now
  /\ TakeConcurrencySlot(r)
  /\ microtasks' = AfterAnswer
  /\ UNCHANGED <<now, aborted, mapVars, waiters, drainAt, drain, storeVars>>

Full(queue) == Len(queue) >= maxQueueSize

\* mutant: whoever is last is dropped.
CanDropAnyone(r, queue) == dropLow /\ priority[r] # "low" /\ queue # <<>>

\* Whether r may take the place of the last waiter of a full queue.
CanDrop(r, queue) ==
  /\ dropLow /\ priority[r] # "low"
  /\ queue # <<>> /\ Last(queue).priority = "low"

\* Rate limited, and no room to wait.
RejectFull(r) ==
  LET queue == waiters[req[r].home]
  IN  /\ IsAt(r, "checking") /\ Answered(r) /\ req[r].time > now
      /\ Full(queue) /\ ~CanDrop(r, queue)
      /\ Set(r, Ended("queueFull"))
      /\ microtasks' = AfterAnswer
      /\ UNCHANGED <<now, aborted, mapVars, queueVars, drain, storeVars>>

\* insertWaiter.
Inserted(queue, w) == InsertAt(queue, InsertionPoint(queue, w), w)

\* Rate limited: wait in the queue of the captured LocalState, in the place of its
\* last waiter when it is full, and arm the drain timer of the current one.
Enqueue(r) ==
  LET g == req[r].home
      queue == waiters[g]
      full == Full(queue)
      w == [id |-> r, priority |-> priority[r], enqueued |-> now]
  IN  /\ IsAt(r, "checking") /\ Answered(r) /\ req[r].time > now
      /\ full => CanDrop(r, queue)
      /\ waiters' = [waiters EXCEPT ![g] = Inserted(IF full THEN Front(queue) ELSE queue, w)]
      /\ req' = [q \in Request |->
                   IF q = r THEN Waiting(g)
                   ELSE IF full /\ q = Last(queue).id THEN Ended("queueFull")
                   ELSE req[q]]
      /\ ScheduleDrain(req[r].time)
      /\ microtasks' = AfterAnswer
      /\ UNCHANGED <<now, aborted, mapVars, parked, active, drain, storeVars>>

\* The microtask of a resolved waiter: acquire goes on behind its await.
Proceed(r) ==
  /\ IsAt(r, "granted") /\ IsNext(r)
  /\ TakeConcurrencySlot(r)
  /\ microtasks' = Tail(microtasks)
  /\ UNCHANGED <<now, aborted, mapVars, waiters, drainAt, drain, storeVars>>

\* The microtask of a resolved concurrency waiter.
Resume(r) ==
  /\ IsAt(r, "woken") /\ IsNext(r)
  /\ microtasks' = Tail(microtasks)
  /\ Set(r, Executing(req[r].home))
  /\ active' = [active EXCEPT ![req[r].home] = @ + 1]
  /\ UNCHANGED <<now, aborted, mapVars, waiters, parked, drainAt, drain, storeVars>>

\* release has an effect: there is an entry, and a slot of it is taken.
Releases == local # None /\ active[local] > 0

\* The concurrency waiter release resolves.
WakesIfIdle ==   \* mutant: nobody is woken while a call is still running
  IF Releases /\ parked[local] # <<>> /\ active[local] < maxConcurrent
  THEN Head(parked[local]) ELSE Nobody

Wakes == IF Releases /\ parked[local] # <<>> THEN Head(parked[local]) ELSE Nobody

\* The call ends and the caller releases: the slot of the current LocalState is
\* given back and its first concurrency waiter resolved.
Finish(r) ==
  LET next == Wakes
  IN  /\ IsAt(r, "executing")
      /\ active' = IF Releases THEN [active EXCEPT ![local] = @ - 1] ELSE active
      /\ parked' = IF next # Nobody THEN [parked EXCEPT ![local] = Tail(@)] ELSE parked
      /\ req' = [q \in Request |-> IF q = r THEN Ended("finished")
                                   ELSE IF q = next THEN Woken(req[q].home) ELSE req[q]]
      /\ microtasks' = IF next # Nobody THEN Append(microtasks, next) ELSE microtasks
      /\ UNCHANGED <<now, aborted, mapVars, waiters, drainAt, drain, storeVars>>

-----------------------------------------------------------------------------
(* The drain loop. *)

\* The head of the loop over the queue of g: stop when it is empty, else ask the
\* store for a slot for its first waiter.  'pending' are the microtasks so far.
DrainLoop(d, g, queue, pending) ==
  \/ /\ queue = <<>>
     /\ drain' = [drain EXCEPT ![d] = NotDraining]
     /\ microtasks' = pending
     /\ UNCHANGED storeVars
  \/ /\ queue # <<>>
     /\ \E call \in StoreCalls(Head(queue).id) :
          /\ StoreBecomes(call)
          /\ drain' = [drain EXCEPT ![d] =
                         [local |-> g, head |-> Head(queue).id, reply |-> call.reply]]
     /\ AwaitStore(d, pending)

\* The drain timer of g fires; the loop runs over the current LocalState.
FireDrain(g, d) ==
  /\ Quiet
  /\ drainAt[g] # None /\ now >= drainAt[g]
  /\ ~Draining(d)
  /\ drainAt' = [drainAt EXCEPT ![g] = None]
  /\ IF local = None THEN UNCHANGED <<drain, microtasks, storeVars>>
     ELSE DrainLoop(d, local, waiters[local], microtasks)
  /\ UNCHANGED <<now, req, aborted, mapVars, waiters, parked, active>>

\* The store has no slot yet: arm the timer again and stop.
DrainBlocked(d) ==
  /\ Draining(d) /\ Answered(d) /\ drain[d].reply > now
  /\ microtasks' = AfterAnswer
  /\ ScheduleDrain(drain[d].reply)
  /\ drain' = [drain EXCEPT ![d] = NotDraining]
  /\ UNCHANGED <<now, req, aborted, mapVars, waiters, parked, active, storeVars>>

AnyHead(r, queue) == queue # <<>>   \* mutant: the waiter is not compared again

IsHead(r, queue) == queue # <<>> /\ Head(queue).id = r

\* mutant: a drain whose waiter is gone stops.
DrainGrantsOnce(d) ==
  LET g == drain[d].local
      r == drain[d].head
  IN  /\ Draining(d) /\ Answered(d) /\ drain[d].reply <= now
      /\ IF IsHead(r, waiters[g])
         THEN /\ waiters' = [waiters EXCEPT ![g] = Tail(@)]
              /\ Set(r, Granted(g))
              /\ DrainLoop(d, g, Tail(waiters[g]), Append(AfterAnswer, r))
         ELSE /\ drain' = [drain EXCEPT ![d] = NotDraining]
              /\ microtasks' = AfterAnswer
              /\ UNCHANGED <<waiters, req, storeVars>>
      /\ UNCHANGED <<now, aborted, mapVars, parked, active, drainAt>>

\* The store gave a slot.  The waiter it was asked for gets it if it is still the
\* first one; otherwise the slot is lost.  Either way the loop goes on.
DrainGrants(d) ==
  LET g == drain[d].local
      r == drain[d].head
      rest == IF IsHead(r, waiters[g]) THEN Tail(waiters[g]) ELSE waiters[g]
      pending == IF IsHead(r, waiters[g]) THEN Append(AfterAnswer, r) ELSE AfterAnswer
  IN  /\ Draining(d) /\ Answered(d) /\ drain[d].reply <= now
      /\ waiters' = [waiters EXCEPT ![g] = rest]
      /\ req' = [req EXCEPT ![r] = IF IsHead(r, waiters[g]) THEN Granted(g) ELSE @]
      /\ DrainLoop(d, g, rest, pending)
      /\ UNCHANGED <<now, aborted, mapVars, parked, active, drainAt>>

-----------------------------------------------------------------------------
(* Timeouts, aborts, shutdown and reset. *)

\* The queue without the first of the places in 'at'.
Without(queue, at) == IF at = {} THEN queue ELSE RemoveAt(queue, Min(at))

PlacesOf(r, queue) == {i \in DOMAIN queue : queue[i].id = r}
ParkedPlacesOf(r, list) == {i \in DOMAIN list : list[i] = r}

TimeoutFires(r) ==
  LET g == req[r].home
      places == PlacesOf(r, waiters[g])
  IN  /\ Quiet
      /\ IsAt(r, "waiting")
      /\ \E i \in places : now >= waiters[g][i].enqueued + TimeoutMs
      /\ waiters' = [waiters EXCEPT ![g] = Without(@, places)]
      /\ Set(r, Ended("timedOut"))
      /\ UNCHANGED <<now, aborted, mapVars, parked, active, drainAt, drain, microtasks, storeVars>>

\* The caller aborts.  Only a listener added before, by a waiting or parked
\* request whose signal had not fired, reacts.  (Aborting a call that is already
\* executing is the provider's business.)
Abort(r) ==
  LET g == req[r].home
  IN  /\ r \in Abortable \ aborted
      /\ req[r].pc \notin Outcome \cup {"executing"}
      /\ aborted' = aborted \cup {r}
      /\ waiters' = IF IsAt(r, "waiting")
                    THEN [waiters EXCEPT ![g] = Without(@, PlacesOf(r, @))] ELSE waiters
      /\ parked' = IF IsAt(r, "parked")
                   THEN [parked EXCEPT ![g] = Without(@, ParkedPlacesOf(r, @))] ELSE parked
      /\ req' = IF IsAt(r, "waiting") \/ IsAt(r, "parked")
                THEN [req EXCEPT ![r] = Ended("aborted")] ELSE req
      /\ UNCHANGED <<now, mapVars, active, drainAt, drain, microtasks, storeVars>>

\* mutant: the queues are not emptied.
RejectQueuedInPlace ==
  /\ req' = [r \in Request |->
               IF local # None /\ req[r] \in {Waiting(local), Parked(local)}
               THEN Ended("shutdown") ELSE req[r]]
  /\ UNCHANGED <<waiters, parked>>

\* shutdown: everyone queued in the current LocalState is rejected; its timer stays.
RejectQueued ==
  IF local = None THEN UNCHANGED <<req, waiters, parked>>
  ELSE /\ req' = [r \in Request |->
                   IF req[r] \in {Waiting(local), Parked(local)} THEN Ended("shutdown")
                   ELSE req[r]]
       /\ waiters' = [waiters EXCEPT ![local] = <<>>]
       /\ parked' = [parked EXCEPT ![local] = <<>>]

Shutdown ==
  /\ RejectQueued
  /\ UNCHANGED <<now, aborted, mapVars, active, drainAt, drain, microtasks, storeVars>>

\* reset: shutdown, then the entry is dropped, and an InMemoryStore cleared.
Reset ==
  /\ created < MaxLocals
  /\ RejectQueued
  /\ local' = None
  /\ window' = IF LocalStore THEN <<>> ELSE window
  /\ backoff' = IF LocalStore THEN 0 ELSE backoff
  /\ UNCHANGED <<now, aborted, created, active, drainAt, drain, microtasks, recorded>>

\* applyBackoff, with the in-memory store keeping the later time.
ApplyBackoff(delay) ==
  /\ backoff' = IF now + delay > backoff THEN now + delay ELSE backoff
  /\ UNCHANGED <<now, req, aborted, mapVars, queueVars, drain, microtasks, window, recorded>>

Tick ==
  /\ Quiet
  /\ now' = now + 1
  /\ UNCHANGED <<req, aborted, mapVars, queueVars, drain, microtasks, storeVars>>

-----------------------------------------------------------------------------
\* The steps of requests that have arrived, and of the limiter itself.
RequestStep(r) ==
  \/ FailFast(r)
  \/ Admit(r) \/ RejectFull(r) \/ Enqueue(r)
  \/ Proceed(r) \/ Resume(r) \/ Finish(r)
  \/ TimeoutFires(r)

DrainStep(d) ==
  \/ \E g \in LocalId : FireDrain(g, d)
  \/ DrainBlocked(d) \/ DrainGrants(d)

EngineStep ==
  \/ \E r \in Request : RequestStep(r) \/ Abort(r)
  \/ \E d \in Drain : DrainStep(d)
  \/ Shutdown \/ Reset
  \/ \E delay \in Delay : ApplyBackoff(delay)

Next == EngineStep \/ (\E r \in Request : Arrive(r)) \/ Tick

Spec == Init /\ [][Next]_vars
-----------------------------------------------------------------------------
(* Properties. *)

Waiter == [id : Request, priority : Priority, enqueued : Nat]
ControlPoint ==
  {"idle", "checking", "waiting", "granted", "parked", "woken", "executing"} \cup Outcome

TypeOK ==
  /\ now \in Nat
  /\ req \in [Request -> [pc : ControlPoint, home : LocalId \cup {None}, time : Nat]]
  /\ aborted \subseteq Request
  /\ local \in LocalId \cup {None} /\ created \in LocalId \cup {None}
  /\ waiters \in [LocalId -> Seq(Waiter)]
  /\ parked \in [LocalId -> Seq(Request)]
  /\ active \in [LocalId -> Nat]
  /\ drainAt \in [LocalId -> Nat]
  /\ drain \in [Drain -> [local : LocalId \cup {None}, head : Request \cup {Nobody}, reply : Nat]]
  /\ microtasks \in Seq(Request \cup Drain)
  /\ window \in Seq(Entry) /\ backoff \in Nat /\ recorded \subseteq Request

\* The queues and the awaiting calls agree, through every race of a drain with
\* timeouts, aborts, evictions, shutdowns and resets: who is in a queue is waiting
\* on it, nobody is in it twice (and so is resolved twice), nobody waits outside a
\* queue, where nothing but a timeout could find it.
QueuesMatch ==
  /\ \A g \in LocalId : \A i \in DOMAIN waiters[g] :
       /\ req[waiters[g][i].id] = Waiting(g)
       /\ \A j \in DOMAIN waiters[g] : waiters[g][i].id = waiters[g][j].id => i = j
  /\ \A g \in LocalId : \A i \in DOMAIN parked[g] :
       /\ req[parked[g][i]] = Parked(g)
       /\ \A j \in DOMAIN parked[g] : parked[g][i] = parked[g][j] => i = j
  /\ \A r \in Request : \A g \in LocalId :
       /\ req[r] = Waiting(g) => PlacesOf(r, waiters[g]) # {}
       /\ req[r] = Parked(g) => ParkedPlacesOf(r, parked[g]) # {}

\* No lost wakeup: while anybody waits in the current queue, its drain timer is
\* armed or a drain loop of it is running (and will re-arm it or go on).
NoLostWakeup ==
  local # None /\ waiters[local] # <<>> =>
    drainAt[local] # None \/ \E d \in Drain : drain[d].local = local

ExecutingIn(g) == {r \in Request : req[r] = Executing(g)}
WokenIn(g) == {r \in Request : req[r] = Woken(g)}

\* No lost concurrency slot: while anybody is parked on the semaphore, all slots
\* are taken by running or just woken requests, whose release wakes the next.
NoLostSlot ==
  local # None /\ parked[local] # <<>> =>
    active[local] + Cardinality(WokenIn(local)) >= maxConcurrent

\* No leaked slot: activeCount never exceeds the requests that will release one,
\* even when requests of an entry dropped by reset release into the new entry.
NoSlotLeak == local # None => active[local] <= Cardinality(ExecutingIn(local))

\* Whoever got past the rate limit has a slot recorded in the store.
PastRateLimit == {"granted", "parked", "woken", "executing", "finished"}
AdmittedOnlyWhenRecorded == \A r \in Request : req[r].pc \in PastRateLimit => r \in recorded

\* The queue drains in priority order, first come first served within a priority:
\* nobody is granted while somebody who goes before it waits in the same queue.
GrantedBy(r) == IsAt(r, "waiting") /\ req'[r].pc = "granted"
DrainsInPriorityOrder ==
  [][\A r \in Request, g \in LocalId : GrantedBy(r) /\ req[r].home = g =>
       \A i, j \in DOMAIN waiters[g] :
         waiters[g][i].id = r => ~Before(waiters[g][j], waiters[g][i])]_vars

\* Who is waiting loses its place to a newcomer only as the least urgent waiter of a
\* full queue, and only when it is of low priority and the newcomer is not.
DropsLeastUrgent ==
  [][\A r \in Request : IsAt(r, "waiting") /\ req'[r].pc = "queueFull" =>
       /\ priority[r] = "low"
       /\ \E q \in Request : req'[q].pc = "waiting" /\ IsAt(q, "checking") /\ priority[q] # "low"
       /\ \A g \in LocalId : req[r].home = g =>
            \A i, j \in DOMAIN waiters[g] :
              waiters[g][i].id = r => ~Before(waiters[g][i], waiters[g][j])]_vars

\* The binary search of insertWaiter finds, for any waiter and in every queue that
\* arrivals, grants, timeouts, aborts and drops build, the place the model inserts at:
\* in front of the first waiter the new one goes before, behind its equals.
SearchFindsPlace ==
  \A g \in LocalId : \A w \in [priority : Priority, enqueued : 0 .. now] :
    SearchFirst(waiters[g], w) + 1 = InsertionPoint(waiters[g], w)

\* Fairness: promises and the store's answers are delivered, due timers fire, and
\* the provider's call ends.  Nothing obliges callers to arrive or abort, or the
\* limiter to be shut down.
Fairness ==
  /\ \A r \in Request : WF_vars(RequestStep(r))
  /\ \A d \in Drain : WF_vars(DrainStep(d))

\* Every acquire comes to an end: whoever asked is told, whatever the others do.
Settles == \A r \in Request : IsAt(r, "checking") ~> req[r].pc \in Outcome

-----------------------------------------------------------------------------
(* What the documentation says and the code does not keep. *)

\* README: maxConcurrent is "enforced as a semaphore", "at most 10 requests
\* executing at once".
AtMostMaxConcurrent ==
  maxConcurrent # Undefined =>
    \A g \in LocalId : Cardinality(ExecutingIn(g)) <= maxConcurrent
=============================================================================

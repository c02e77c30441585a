---------------------------- MODULE InMemoryStore ----------------------------
(***************************************************************************)
(* InMemoryStore (src/src/store/in-memory-store.ts), the default           *)
(* RateLimitStore: one action per method.  A method body has no await, so  *)
(* it runs in one step.                                                    *)
(*                                                                         *)
(* A map without a key is the same as the key bound to the value the code  *)
(* falls back to: an empty window, an empty daily window, backoff 0.       *)
(***************************************************************************)
EXTENDS SlidingWindow

CONSTANTS
  Key,          \* model or scope keys
  limits,       \* the limits every caller passes, constant over a run
  Estimate,     \* estimated input tokens of a request
  Usage,        \* actual token counts reported after a request
  Delay,        \* backoff delays asked for by the provider
  PRUNE_EVERY   \* records between two prunes (200 in the code)

ASSUME StoreAssumption ==
  /\ limits \in Limits
  /\ Estimate \subseteq Nat
  /\ Usage \subseteq Nat
  /\ Delay \subseteq Nat
  /\ PRUNE_EVERY \in Nat \ {0}

VARIABLES
  now,           \* Date.now(); starts above 0 as a real clock does
  windows,
  dailyWindows,
  backoffs,
  pruneCounter,  \* modulo PRUNE_EVERY
  log,           \* history: timestamps of all requests admitted since the last reset
  asked          \* history: the latest backoff asked for since the last reset

storeVars == <<windows, dailyWindows, backoffs, pruneCounter>>
vars == <<now, storeVars, log, asked>>

Init ==
  /\ now = 1
  /\ windows = [k \in Key |-> <<>>]
  /\ dailyWindows = [k \in Key |-> <<>>]
  /\ backoffs = [k \in Key |-> 0]
  /\ pruneCounter = 0
  /\ log = [k \in Key |-> <<>>]
  /\ asked = [k \in Key |-> 0]

-----------------------------------------------------------------------------
\* What checkAndRecord(k, est) would answer if it were called at time t.
ReplyAt(k, est, t) == CheckReply(limits, windows[k], dailyWindows[k], backoffs[k], est, t)

\* A backoff a prune may forget.
StaleBackoff(until) == until < now

\* maybePrune, over the maps ws, ds as the record left them.
Pruned(due, ws, ds) ==
  /\ windows' = IF due THEN [k \in Key |-> EvictWindow(ws[k], now)] ELSE ws
  /\ dailyWindows' = IF due THEN [k \in Key |-> EvictDaily(ds[k], now)] ELSE ds
  /\ backoffs' = IF due THEN [k \in Key |-> IF StaleBackoff(backoffs[k]) THEN 0 ELSE backoffs[k]]
                 ELSE backoffs

\* The request fits: reserve its slot and, every PRUNE_EVERY records, prune.
Record(k, est) ==
  LET entry == [timestamp |-> now, inputTokens |-> est, outputTokens |-> 0]
      ws == [windows EXCEPT ![k] = Append(EvictWindow(@, now), entry)]
      ds == IF limits.rpd = Undefined THEN dailyWindows
            ELSE [dailyWindows EXCEPT ![k] = Append(EvictDaily(@, now), now)]
  IN  /\ ReplyAt(k, est, now) = 0
      /\ pruneCounter' = (pruneCounter + 1) % PRUNE_EVERY
      /\ Pruned(pruneCounter' = 0, ws, ds)
      /\ log' = [log EXCEPT ![k] = Append(@, now)]
      /\ UNCHANGED <<now, asked>>

\* The request does not fit: only eviction happens, and only as far as the code got.
Refuse(k, est) ==
  LET w == EvictWindow(windows[k], now)
      reachedRpd == ~RpmFull(limits, w) /\ ~ItpmFull(limits, w, est) /\ limits.rpd # Undefined
  IN  /\ ReplyAt(k, est, now) # 0
      /\ windows' = [windows EXCEPT ![k] = IF now < backoffs[k] THEN @ ELSE w]
      /\ dailyWindows' = [dailyWindows EXCEPT ![k] =
           IF now >= backoffs[k] /\ reachedRpd THEN EvictDaily(@, now) ELSE @]
      /\ UNCHANGED <<now, backoffs, pruneCounter, log, asked>>

CheckAndRecord(k, est) == Record(k, est) \/ Refuse(k, est)

\* The newest entry that still looks like an estimate gets the actual usage.
Reconcile(k, input, output) ==
  LET w == windows[k]
      placeholders == {i \in DOMAIN w : w[i].outputTokens = 0 /\ w[i].inputTokens > 0}
  IN  /\ placeholders # {}
      /\ windows' = [windows EXCEPT ![k] = ReplaceAt(@, Max(placeholders),
           [timestamp |-> w[Max(placeholders)].timestamp,
            inputTokens |-> input, outputTokens |-> output])]
      /\ UNCHANGED <<now, dailyWindows, backoffs, pruneCounter, log, asked>>

SetBackoffOverwriting(k, delay) ==   \* mutant
  /\ backoffs' = [backoffs EXCEPT ![k] = now + delay]
  /\ asked' = [asked EXCEPT ![k] = IF now + delay > @ THEN now + delay ELSE @]
  /\ UNCHANGED <<now, windows, dailyWindows, pruneCounter, log>>

\* Called by RateLimitEngine.applyBackoff with until = Date.now() + delay.
SetBackoff(k, delay) ==
  /\ backoffs' = [backoffs EXCEPT ![k] = IF now + delay > @ THEN now + delay ELSE @]
  /\ asked' = [asked EXCEPT ![k] = IF now + delay > @ THEN now + delay ELSE @]
  /\ UNCHANGED <<now, windows, dailyWindows, pruneCounter, log>>

\* Reading the next slot reserves nothing but evicts in place.
NextSlotMs(k) ==
  /\ now >= backoffs[k]
  /\ windows' = [windows EXCEPT ![k] = EvictWindow(@, now)]
  /\ dailyWindows' = [dailyWindows EXCEPT ![k] =
       IF limits.rpd # Undefined THEN EvictDaily(@, now) ELSE @]
  /\ UNCHANGED <<now, backoffs, pruneCounter, log, asked>>

Snapshot(k) ==
  /\ windows' = [windows EXCEPT ![k] = EvictWindow(@, now)]
  /\ UNCHANGED <<now, dailyWindows, backoffs, pruneCounter, log, asked>>

Reset ==
  /\ windows' = [k \in Key |-> <<>>]
  /\ dailyWindows' = [k \in Key |-> <<>>]
  /\ backoffs' = [k \in Key |-> 0]
  /\ pruneCounter' = 0
  /\ log' = [k \in Key |-> <<>>]
  /\ asked' = [k \in Key |-> 0]
  /\ UNCHANGED now

Tick == now' = now + 1 /\ UNCHANGED <<storeVars, log, asked>>

\* The methods that work on one key.
KeyStep(k) ==
  \/ \E est \in Estimate : CheckAndRecord(k, est)
  \/ \E input, output \in Usage : Reconcile(k, input, output)
  \/ \E delay \in Delay : SetBackoff(k, delay)
  \/ NextSlotMs(k)
  \/ Snapshot(k)

\* Tick is left out, so that a model can bound it.
StoreNext == Reset \/ \E k \in Key : KeyStep(k)

Next == StoreNext \/ Tick

Spec == Init /\ [][Next]_vars
-----------------------------------------------------------------------------
(* Properties. *)

\* Types, and the sizes the checks keep: a window never holds more than its limit.
TypeOK ==
  /\ now \in Nat
  /\ windows \in [Key -> Seq(Entry)]
  /\ \A k \in Key : Len(windows[k]) <= limits.rpm
  /\ dailyWindows \in [Key -> Seq(Nat)]
  /\ backoffs \in [Key -> Nat]
  /\ pruneCounter \in 0 .. PRUNE_EVERY - 1
  /\ log \in [Key -> Seq(Nat)]
  /\ asked \in [Key -> Nat]

\* The sliding-window promise, over the whole history and not over what the
\* store happens to remember: of any rpm + 1 consecutive admissions the last
\* comes at least one window after the first, so no WINDOW_MS interval ever
\* holds more than rpm of them, whatever was evicted, pruned or reconciled.
RpmBound ==
  \A k \in Key : \A i \in DOMAIN log[k] :
    i + limits.rpm \in DOMAIN log[k] => log[k][i + limits.rpm] >= log[k][i] + WINDOW_MS

Promise == INSTANCE StorePromise WITH
  rpm <- limits.rpm, rpd <- limits.rpd, Slack <- 0, Unlimited <- Undefined

\* The store implements what the interface promises: the minute and the daily limit,
\* whose list is evicted and pruned by other code than the minute window's.
KeepsPromise == Promise!Spec

\* A step that admits a request for key k.
Recorded(k) == Len(log'[k]) > Len(log[k])

\* While a backoff is active all requests for the key are blocked (interface.ts):
\* nothing is admitted before the latest time any provider answer asked for,
\* although a shorter backoff may be set after it and prunes delete backoffs.
BackoffHonoured ==
  [][\A k \in Key : Recorded(k) => now >= asked[k]]_vars

\* A refusal tells a usable time: strictly in the future (the engine takes any
\* time that is not in the future for an admission), and no later than one
\* millisecond after the first moment at which the request would be admitted if
\* nothing else happened, so a caller that sleeps as told misses no slot.
RefusalTight ==
  \A k \in Key, est \in Estimate :
    LET told == ReplyAt(k, est, now) IN
    told # 0 => /\ told > now
                /\ \A t \in now .. told - 2 : ReplyAt(k, est, t) # 0

\* A request that would be admitted by an empty store.
CanFit(est) == CheckReply(limits, <<>>, <<>>, 0, est, now) = 0

\* A lone caller that sleeps until the time it is told and tries again is
\* admitted after at most five sleeps (the backoff and the four limits), if its
\* request can fit at all: the told times cannot make it spin or starve.
LoneWaiterAdmitted ==
  \A k \in Key, est \in Estimate :
    LET sleep(t) == IF ReplyAt(k, est, t) = 0 THEN t ELSE ReplyAt(k, est, t)
        woken == sleep(sleep(sleep(sleep(sleep(now)))))
    IN  CanFit(est) => ReplyAt(k, est, woken) = 0

\* nextSlotMs repeats the checks of checkAndRecord in code of its own.  The two
\* agree on whether a slot is free now, and for a request that can fit at all the
\* estimate is never earlier than the time checkAndRecord tells it.
EstimateAgrees ==
  \A k \in Key, est \in Estimate :
    LET told == ReplyAt(k, est, now)
        estimate == NextSlotReply(limits, windows[k], dailyWindows[k], backoffs[k], est, now)
    IN  /\ estimate = 0 <=> told = 0
        /\ CanFit(est) => estimate >= told
=============================================================================

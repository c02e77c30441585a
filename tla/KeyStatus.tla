------------------------------ MODULE KeyStatus ------------------------------
(***************************************************************************)
(* What a limiter tells about its keys: getStatus and estimatedWait of     *)
(* Pipeline (src/src/core/pipeline.ts), the headers of the HTTP middleware *)
(* (src/src/middleware.ts), and keyMeta, the names they depend on, which   *)
(* every PRUNE_META-th acquired slot prunes.                               *)
(*                                                                         *)
(* The store is InMemoryStore, called by acquires and drains; a call does  *)
(* one request after the other.  The order and the timers of the queue are *)
(* in RateLimitEngine: here a drain may ask for anyone waiting, any time.  *)
(* No budget holds a request back, and maxConcurrent is not set.  A Map is  *)
(* the set of its keys: which of several keys of a model is found first is *)
(* left open.  recordUsage, which changes no times, is left out.           *)
(***************************************************************************)
EXTENDS InMemoryStore, FiniteSets

CONSTANTS
  Call,
  keyOf, est,     \* of each call, whatever it does
  modelOf,        \* the model of each key
  Scoped,         \* the keys of scopes
  maxQueueSize, TimeoutMs,
  PRUNE_META      \* 1000 in the code

ASSUME KeyStatusAssumption ==
  /\ keyOf \in [Call -> Key] /\ est \in [Call -> Estimate]
  /\ Scoped \subseteq Key
  /\ maxQueueSize \in Nat /\ TimeoutMs \in Nat
  /\ PRUNE_META \in Nat \ {0}

VARIABLES
  call,           \* where each call is, and until when it waits
  known,          \* the keys of localStates
  keyMeta,        \* the keys that have a name
  executeCount    \* modulo PRUNE_META

pipelineVars == <<known, keyMeta, executeCount>>
statusVars == <<vars, call, pipelineVars>>

\* "granted" and "refused": the store has answered, the microtask is pending.
\* "orphaned": queued in a LocalState that reset has dropped.
At(pc, time) == [pc |-> pc, time |-> time]
IsAt(c, pc) == call[c].pc = pc
Go(c, to) == call' = [call EXCEPT ![c] = to]
Quiet == \A c \in Call : call[c].pc \notin {"granted", "refused"}

StatusInit ==
  /\ Init
  /\ call = [c \in Call |-> At("idle", 0)]
  /\ known = {} /\ keyMeta = {}
  /\ executeCount = 0

-----------------------------------------------------------------------------
(* Reading. *)

Queued(k) == {c \in Call : keyOf[c] = k /\ IsAt(c, "waiting")}

\* snapshot(k).requests
Requests(k) == Len(EvictWindow(windows[k], now))

\* getStatus: the keys it lists, and the name it gives each.
Status == {k \in known : Requests(k) > 0 \/ Queued(k) # {} \/ now < backoffs[k]}
ModelId(k) == IF k \in keyMeta THEN modelOf[k] ELSE k

\* The keys listed under a model id; the middleware shows its clients one of them.
Shown(modelId) == {k \in Status : ModelId(k) = modelId}

\* estimatedWait looks for an unscoped key that was named as the model's.
Resolved(modelId) == {k \in keyMeta \ Scoped : modelOf[k] = modelId}

WaitOf(k) ==
  LET slot == NextSlotReply(limits, windows[k], dailyWindows[k], backoffs[k], 0, now)
  IN  IF slot > now THEN slot - now ELSE 0

\* What it may return.
EstimatedWait(modelId) ==
  IF Resolved(modelId) = {} THEN {0} ELSE {WaitOf(k) : k \in Resolved(modelId)}

\* Both evict as they read.
GetStatus ==
  /\ windows' = [k \in Key |-> IF k \in known THEN EvictWindow(windows[k], now) ELSE windows[k]]
  /\ UNCHANGED <<now, dailyWindows, backoffs, pruneCounter, log, asked, call, pipelineVars>>

AskWait(modelId) ==
  /\ \E k \in Resolved(modelId) : NextSlotMs(k)
  /\ UNCHANGED <<call, pipelineVars>>

-----------------------------------------------------------------------------
(* Calls. *)

\* checkAndRecord answers: to a new call, or to a drain.
StoreAnswers(c, refused) ==
  \/ Record(keyOf[c], est[c]) /\ Go(c, At("granted", 0))
  \/ Refuse(keyOf[c], est[c]) /\ Go(c, refused)

\* execute names the key and acquire knows it; the store is asked in the same turn.
Execute(c) ==
  /\ IsAt(c, "idle")
  /\ keyMeta' = keyMeta \cup {keyOf[c]}
  /\ known' = known \cup {keyOf[c]}
  /\ StoreAnswers(c, At("refused", 0))
  /\ UNCHANGED executeCount

IdleButQueued(k) == Requests(k) = 0   \* mutant: the queue is not looked at

IdleButRecent(k) == Queued(k) = {}    \* mutant: the window is not looked at

Idle(k) == Requests(k) = 0 /\ Queued(k) = {}

\* pruneKeyMeta forgets the names of idle keys, evicting as it reads.
PruneKeyMeta ==
  /\ keyMeta' = {k \in keyMeta : ~Idle(k)}
  /\ windows' = [k \in Key |-> IF k \in keyMeta THEN EvictWindow(windows[k], now) ELSE windows[k]]

\* acquire returns.
Proceed(c) ==
  /\ IsAt(c, "granted")
  /\ Go(c, At("running", 0))
  /\ executeCount' = (executeCount + 1) % PRUNE_META
  /\ IF executeCount' = 0 THEN PruneKeyMeta ELSE UNCHANGED <<keyMeta, windows>>
  /\ UNCHANGED <<now, dailyWindows, backoffs, pruneCounter, log, asked, known>>

\* Wait in the queue; a call that finds it full fails.
Enqueue(c) ==
  /\ IsAt(c, "refused")
  /\ Go(c, IF Cardinality(Queued(keyOf[c])) < maxQueueSize THEN At("waiting", now + TimeoutMs)
           ELSE At("idle", 0))
  /\ UNCHANGED <<vars, pipelineVars>>

Drain(c) ==
  /\ Quiet /\ IsAt(c, "waiting")
  /\ StoreAnswers(c, call[c])
  /\ UNCHANGED pipelineVars

QueueTimeout(c) ==
  /\ Quiet /\ call[c].pc \in {"waiting", "orphaned"} /\ now >= call[c].time
  /\ Go(c, At("idle", 0))
  /\ UNCHANGED <<vars, pipelineVars>>

\* An attempt is told to wait, and goes on; or the call ends.
ToldToWait(c) ==
  /\ IsAt(c, "running")
  /\ \E delay \in Delay : SetBackoff(keyOf[c], delay)
  /\ UNCHANGED <<call, pipelineVars>>

Finish(c) ==
  /\ IsAt(c, "running")
  /\ Go(c, At("idle", 0))
  /\ UNCHANGED <<vars, pipelineVars>>

\* reset: who waits is rejected; who is about to wait will do so in vain.
ResetAll ==
  /\ Reset
  /\ call' = [c \in Call |-> CASE IsAt(c, "waiting") -> At("idle", 0)
                               [] IsAt(c, "refused") -> At("orphaned", now + TimeoutMs)
                               [] OTHER -> call[c]]
  /\ known' = {} /\ keyMeta' = {} /\ executeCount' = 0

CallStep(c) ==
  Execute(c) \/ Proceed(c) \/ Enqueue(c) \/ Drain(c) \/ QueueTimeout(c) \/ ToldToWait(c) \/ Finish(c)

StatusStep ==
  \/ \E c \in Call : CallStep(c)
  \/ GetStatus
  \/ \E k \in Key : AskWait(modelOf[k])
  \/ ResetAll

StatusNext == StatusStep \/ (Quiet /\ Tick /\ UNCHANGED <<call, pipelineVars>>)

StatusSpec == StatusInit /\ [][StatusNext]_statusVars
-----------------------------------------------------------------------------
(* Properties. *)

\* A key with requests of the last minute or in the queue.
Busy(k) == Requests(k) > 0 \/ Queued(k) # {}

\* Whoever is busy is shown by name, in the status and to the clients of the
\* middleware: "done after acquire so the current request's window entry already
\* exists, preventing it from being mistakenly evicted".  Not so for keys that were
\* ever backed off, and for limits that refuse a request on an empty window.
BusyKeysShown ==
  \A k \in Key : Busy(k) /\ asked[k] = 0 => k \in Shown(modelOf[k])

\* estimatedWait knows of every busy model that one provider serves: it "returns 0 if
\* the model would proceed immediately", and only then, though it looks the model up
\* among the names that prunes have left.
OneProvider(k) == \A other \in Key \ Scoped : modelOf[other] = modelOf[k] => other = k

WaitTold ==
  \A k \in Key \ Scoped : Busy(k) /\ asked[k] = 0 /\ OneProvider(k) =>
    \A wait \in EstimatedWait(modelOf[k]) : wait = 0 <=> ReplyAt(k, 0, now) = 0

-----------------------------------------------------------------------------
(* What the tests say and the code does not do. *)

\* "keyMeta entry for an in-flight request is never pruned": it is once the request has
\* run for longer than the window.
InFlightNamed == \A c \in Call : IsAt(c, "running") => keyOf[c] \in keyMeta
=============================================================================

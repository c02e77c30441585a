----------------------------- MODULE RedisStore -----------------------------
(***************************************************************************)
(* RedisStore (src/src/store/redis-store.ts): several processes, each with *)
(* a store of its own on one Redis, for one key.  A process reads its own  *)
(* clock and numbers its requests when it sends a command; the script runs *)
(* when the command reaches Redis, in one step and against the clock the   *)
(* command carries.  What becomes of the reply is in RateLimitEngine.      *)
(*                                                                         *)
(* A sorted set is the sequence of its members in the order of their       *)
(* scores; ties, which the scripts cannot tell apart, in insertion order.  *)
(***************************************************************************)
EXTENDS SlidingWindow

CONSTANTS
  Instance,       \* the processes
  offset,         \* how far the clock of each is ahead of the slowest possible one
  firstCounter,   \* how many requests each has numbered before
  limits,         \* as passed by every caller
  Estimate, Usage, Delay,
  BUFFER_MS,      \* what a key outlives its last use, 5000 in the code
  MaxSkew,        \* no clock is ahead of another by more
  MaxDelay        \* a command reaches Redis within this time

ASSUME RedisAssumption ==
  /\ limits \in Limits
  /\ offset \in [Instance -> 0 .. MaxSkew]
  /\ firstCounter \in [Instance -> Nat]
  /\ Estimate \subseteq Nat /\ Usage \subseteq Nat /\ Delay \subseteq Nat
  /\ BUFFER_MS \in Nat /\ MaxSkew \in Nat /\ MaxDelay \in Nat
  /\ MaxSkew + MaxDelay <= BUFFER_MS

VARIABLES
  now,       \* real time, the clock of the slowest process and of Redis
  counter,   \* _counter of each process
  sent,      \* the commands of each process under way to Redis, in order
  window, daily, backoff,   \* the three keys in Redis; each [value, expireAt]
  log        \* history: when Redis admitted requests, in real time

redis == <<window, daily, backoff>>
vars == <<now, counter, sent, redis, log>>

Clock(i) == now + offset[i]

NoKey == [value |-> <<>>, expireAt |-> Undefined]
KeyFor(value, ttl) == [value |-> value, expireAt |-> now + ttl]

\* The value of a key, which is gone when its time to live is over.
Get(key) == IF key.expireAt # Undefined /\ key.expireAt <= now THEN <<>> ELSE key.value

\* A key that loses its last member loses its time to live with it.
Put(key, value) == IF value = <<>> THEN NoKey ELSE [key EXCEPT !.value = value]

Init ==
  /\ now = 1
  /\ counter = firstCounter
  /\ sent = [i \in Instance |-> <<>>]
  /\ window = NoKey /\ daily = NoKey /\ backoff = NoKey
  /\ log = <<>>

-----------------------------------------------------------------------------
(* The processes. *)

MemberIdOfTime(i) == <<Clock(i), 0>>   \* mutant

\* `${Date.now()}_${++_counter}`
MemberId(i) == <<Clock(i), counter[i] + 1>>

Send(i, command) == sent' = [sent EXCEPT ![i] = Append(@, command)]

SendCheckAndRecord(i, est) ==
  /\ Send(i, [script |-> "check", at |-> now, now |-> Clock(i), est |-> est, id |-> MemberId(i)])
  /\ counter' = [counter EXCEPT ![i] = @ + 1]
  /\ UNCHANGED <<now, redis, log>>

SendReconcile(i, input, output) ==
  /\ Send(i, [script |-> "reconcile", at |-> now, input |-> input, output |-> output])
  /\ UNCHANGED <<now, counter, redis, log>>

BackoffTtlUnbuffered(until, clock) == Max({0, until - clock})   \* mutant

BackoffTtl(until, clock) == Max({0, until - clock}) + BUFFER_MS

\* Called with until = Date.now() + delay.
SendSetBackoff(i, delay) ==
  /\ Send(i, [script |-> "set", at |-> now, until |-> Clock(i) + delay,
              ttl |-> BackoffTtl(Clock(i) + delay, Clock(i))])
  /\ UNCHANGED <<now, counter, redis, log>>

SendNextSlot(i) ==
  /\ Send(i, [script |-> "next", at |-> now, now |-> Clock(i)])
  /\ UNCHANGED <<now, counter, redis, log>>

-----------------------------------------------------------------------------
(* The scripts. *)

\* An absent limit is passed as 0, and 0 means unlimited, for rpm as well.
Given(limit) == IF limit = 0 THEN Undefined ELSE limit
ScriptLimits(w) ==
  [rpm |-> IF limits.rpm = 0 THEN Len(w) + 1 ELSE limits.rpm,
   itpm |-> Given(limits.itpm), rpd |-> Given(limits.rpd), otpm |-> Given(limits.otpm)]

Times(d) == [i \in DOMAIN d |-> d[i].timestamp]
Until == IF Get(backoff) = <<>> THEN 0 ELSE Get(backoff)[1]

\* What a check with this clock would answer.
ReplyAt(est, clock) ==
  CheckReply(ScriptLimits(Get(window)), Get(window), Times(Get(daily)), Until, est, clock)

SameMember(m, e) == [m EXCEPT !.timestamp = 0] = [e EXCEPT !.timestamp = 0]

\* ZADD: a member that is there already only changes its score.
ZAdd(s, m) ==
  LET same == {i \in DOMAIN s : SameMember(m, s[i])}
      others == IF same = {} THEN s ELSE RemoveAt(s, Min(same))
      later == {i \in DOMAIN others : others[i].timestamp > m.timestamp}
  IN  InsertAt(others, IF later = {} THEN Len(others) + 1 ELSE Min(later), m)

EvictDailySet(d, clock) ==
  SuffixFrom(d, {i \in DOMAIN d : d[i].timestamp > clock - DAY_MS})

\* LUA_CHECK_AND_RECORD.  A refusal leaves the evictions made so far behind.
CheckAndRecord(c) ==
  LET w == EvictWindow(Get(window), c.now)
      d == EvictDailySet(Get(daily), c.now)
      L == ScriptLimits(w)
      admitted == ReplyAt(c.est, c.now) = 0
      reachedRpd == ~RpmFull(L, w) /\ ~ItpmFull(L, w, c.est) /\ L.rpd # Undefined
      member == [timestamp |-> c.now, inputTokens |-> c.est, outputTokens |-> 0, id |-> c.id]
  IN  /\ c.script = "check"
      /\ window' = IF admitted THEN KeyFor(ZAdd(w, member), WINDOW_MS + BUFFER_MS)
                   ELSE IF c.now < Until THEN window ELSE Put(window, w)
      /\ daily' = IF admitted /\ L.rpd # Undefined
                  THEN KeyFor(ZAdd(d, [timestamp |-> c.now, id |-> c.id]), DAY_MS + BUFFER_MS)
                  ELSE IF c.now >= Until /\ reachedRpd THEN Put(daily, d) ELSE daily
      /\ log' = IF admitted THEN Append(log, now) ELSE log
      /\ UNCHANGED backoff

\* LUA_RECONCILE: the newest member without output tokens gets the actual usage.  It is
\* removed and added anew, by which the only member of a key loses the time to live.
Reconcile(c) ==
  LET w == Get(window)
      open == {i \in DOMAIN w : w[i].outputTokens = 0}
      newest == {i \in open : \A j \in open : w[j].timestamp <= w[i].timestamp}
      actual(m) == [m EXCEPT !.inputTokens = c.input, !.outputTokens = c.output]
  IN  /\ c.script = "reconcile"
      /\ \/ open = {} /\ UNCHANGED window
         \/ \E i \in newest :
              window' = [Put(window, RemoveAt(w, i)) EXCEPT !.value = ZAdd(@, actual(w[i]))]
      /\ UNCHANGED <<daily, backoff, log>>

\* SET with PX replaces value and time to live, whatever was there.
SetBackoff(c) ==
  /\ c.script = "set"
  /\ backoff' = KeyFor(<<c.until>>, c.ttl)
  /\ UNCHANGED <<window, daily, log>>

NextSlotAtNoDaily(est, clock) ==   \* mutant
  LET L == [ScriptLimits(Get(window)) EXCEPT !.rpd = Undefined]
      w == EvictWindow(Get(window), clock)
  IN  IF clock < Until THEN Until ELSE NextSlotInWindows(L, w, <<>>, est, clock)

\* The answer of LUA_NEXT_SLOT: the latest time over the limits that are full.
NextSlotAt(est, clock) ==
  LET w == EvictWindow(Get(window), clock)
      d == EvictDaily(Times(Get(daily)), clock)
      L == ScriptLimits(w)
      rpm  == IF RpmFull(L, w) THEN {OldestOf(w, clock) + WINDOW_MS + 1} ELSE {}
      itpm == IF ItpmFull(L, w, est) /\ ItpmEnough(w, L.itpm, est) # {}
              THEN {ItpmNextSlot(w, L.itpm, est, clock)} ELSE {}
      rpd  == IF RpdFull(L, d) THEN {OldestDaily(d, clock) + DAY_MS + 1} ELSE {}
      otpm == IF OtpmFull(L, w) THEN {OtpmNextSlot(w, L.otpm, clock)} ELSE {}
      free == ~RpmFull(L, w) /\ ~ItpmFull(L, w, est) /\ ~RpdFull(L, d) /\ ~OtpmFull(L, w)
  IN  IF clock < Until THEN Until
      ELSE IF free THEN 0 ELSE Max({clock} \cup rpm \cup itpm \cup rpd \cup otpm)

\* LUA_NEXT_SLOT reserves nothing but evicts.
NextSlot(c) ==
  /\ c.script = "next"
  /\ window' = IF c.now < Until THEN window ELSE Put(window, EvictWindow(Get(window), c.now))
  /\ daily' = IF c.now < Until \/ Given(limits.rpd) = Undefined THEN daily
              ELSE Put(daily, EvictDailySet(Get(daily), c.now))
  /\ UNCHANGED <<backoff, log>>

\* The oldest command of process i reaches Redis.
Execute(i) ==
  /\ sent[i] # <<>>
  /\ LET c == Head(sent[i]) IN CheckAndRecord(c) \/ Reconcile(c) \/ SetBackoff(c) \/ NextSlot(c)
  /\ sent' = [sent EXCEPT ![i] = Tail(@)]
  /\ UNCHANGED <<now, counter>>

\* The connection breaks: what is under way is lost, and its callers get errors.
Disconnect(i) ==
  /\ sent[i] # <<>>
  /\ sent' = [sent EXCEPT ![i] = <<>>]
  /\ UNCHANGED <<now, counter, redis, log>>

Tick ==
  /\ \A i \in Instance : \A n \in DOMAIN sent[i] : now < sent[i][n].at + MaxDelay
  /\ now' = now + 1
  /\ UNCHANGED <<counter, sent, redis, log>>

Call(i) ==
  \/ \E est \in Estimate : SendCheckAndRecord(i, est)
  \/ \E input, output \in Usage : SendReconcile(i, input, output)
  \/ \E delay \in Delay : SendSetBackoff(i, delay)
  \/ SendNextSlot(i)

Next == Tick \/ \E i \in Instance : Call(i) \/ Execute(i) \/ Disconnect(i)

Spec == Init /\ [][Next]_vars

-----------------------------------------------------------------------------
(* Properties. *)

Sorted(s) == \A i, j \in DOMAIN s : i < j => s[i].timestamp <= s[j].timestamp

\* Types; the sorted sets are sorted, and none ever holds more than its limit.
TypeOK ==
  /\ now \in Nat /\ counter \in [Instance -> Nat]
  /\ window.value \in Seq([timestamp : Nat, inputTokens : Nat, outputTokens : Nat, id : Nat \X Nat])
  /\ daily.value \in Seq([timestamp : Nat, id : Nat \X Nat])
  /\ backoff.value \in Seq(Nat)
  /\ Sorted(window.value) /\ Sorted(daily.value)
  /\ limits.rpm # 0 => Len(window.value) <= limits.rpm
  /\ log \in Seq(Nat)

Promise ==
  INSTANCE StorePromise WITH
    Key <- {"key"}, rpm <- Given(limits.rpm), rpd <- Given(limits.rpd), Unlimited <- Undefined,
    Slack <- MaxSkew + MaxDelay, log <- [k \in {"key"} |-> log]

\* The instances together keep the limits: whatever each one's clock says, however late
\* its commands arrive and whatever expires, Redis admits no more than rpm requests in a
\* window, short only of what the clocks and the network may differ by.
KeepsPromise == Promise!Spec

\* While a backoff is active no request is admitted (interface.ts), be it set by a fast
\* clock and checked by a slow one: the key does not expire before the slow one is there.
BackoffHonoured ==
  [][\A i \in Instance :
       log' # log /\ sent'[i] # sent[i] /\ backoff.value # <<>> =>
         Head(sent[i]).now >= backoff.value[1]]_vars

\* A request that would be admitted by an empty store.
CanFit(est) == Given(limits.itpm) = Undefined \/ est <= limits.itpm

\* LUA_NEXT_SLOT repeats the checks of LUA_CHECK_AND_RECORD in a script of its own: they
\* agree on whether a slot is free, and the estimate is never before the time of a refusal.
EstimateAgrees ==
  \A i \in Instance, est \in Estimate :
    LET told == ReplyAt(est, Clock(i))
        estimate == NextSlotAt(est, Clock(i))
    IN  /\ estimate = 0 <=> told = 0
        /\ CanFit(est) => estimate >= told
=============================================================================

---------------------------- MODULE SlidingWindow ----------------------------
(***************************************************************************)
(* The pure arithmetic of the sliding windows kept by InMemoryStore        *)
(* (src/src/store/in-memory-store.ts): which entries a window still holds, *)
(* whether a request fits, and the timestamp a refused caller is told.     *)
(*                                                                         *)
(* A window is the sequence of admitted requests, oldest first; a daily    *)
(* window is the sequence of their timestamps.  Times are milliseconds,    *)
(* scaled down by the constants.                                           *)
(***************************************************************************)
EXTENDS Integers, SequencesExt

CONSTANTS
  WINDOW_MS,   \* length of the per-minute window
  DAY_MS,      \* length of the per-day window
  Undefined    \* an absent limit (JavaScript's undefined)

ASSUME WindowAssumption ==
  /\ WINDOW_MS \in Nat \ {0}
  /\ DAY_MS \in Nat \ {0}
  /\ Undefined \notin Nat

Entry == [timestamp : Nat, inputTokens : Nat, outputTokens : Nat]

\* The limits of one model: every limit but rpm may be undefined.
Limits == [rpm : Nat, itpm : Nat \cup {Undefined},
           rpd : Nat \cup {Undefined}, otpm : Nat \cup {Undefined}]

-----------------------------------------------------------------------------
(* Eviction drops the expired entries at the front, up to the first live one. *)

SuffixFrom(s, live) == IF live = {} THEN <<>> ELSE SubSeq(s, Min(live), Len(s))

EvictWindow(w, now) ==
  SuffixFrom(w, {i \in DOMAIN w : w[i].timestamp > now - WINDOW_MS})

EvictDailyByMinute(d, now) ==   \* mutant
  SuffixFrom(d, {i \in DOMAIN d : d[i] > now - WINDOW_MS})

EvictDaily(d, now) == SuffixFrom(d, {i \in DOMAIN d : d[i] > now - DAY_MS})

SumInput(w)  == FoldLeft(LAMBDA s, e : s + e.inputTokens, 0, w)
SumOutput(w) == FoldLeft(LAMBDA s, e : s + e.outputTokens, 0, w)

-----------------------------------------------------------------------------
(* The four limits, over windows already evicted. *)

RpmFull(L, w)       == Len(w) >= L.rpm
ItpmFull(L, w, est) == L.itpm # Undefined /\ SumInput(w) + est > L.itpm
RpdFull(L, d)       == L.rpd # Undefined /\ Len(d) >= L.rpd
OtpmFull(L, w)      == L.otpm # Undefined /\ SumOutput(w) >= L.otpm

\* The oldest time of a window, or now when it is empty (a limit of zero).
OldestOf(w, now) == IF w = <<>> THEN now ELSE w[1].timestamp
OldestDaily(d, now) == IF d = <<>> THEN now ELSE d[1]

\* When the first entry in 'enough' expires; one window from now if there is none.
SlotAfterTooSoon(w, enough, now) ==   \* mutant
  (IF enough = {} THEN now ELSE w[Min(enough)].timestamp) + WINDOW_MS - 1

SlotAfter(w, enough, now) ==
  (IF enough = {} THEN now ELSE w[Min(enough)].timestamp) + WINDOW_MS + 1

\* The entries whose expiry, with all older ones, makes room for est tokens.
ItpmEnoughStrict(w, limit, est) ==   \* mutant
  {i \in DOMAIN w : SumInput(SubSeq(w, i + 1, Len(w))) + est < limit}

ItpmEnough(w, limit, est) ==
  {i \in DOMAIN w : SumInput(SubSeq(w, i + 1, Len(w))) + est <= limit}

ItpmNextSlot(w, limit, est, now) == SlotAfter(w, ItpmEnough(w, limit, est), now)

OtpmNextSlot(w, limit, now) ==
  SlotAfter(w, {i \in DOMAIN w : SumOutput(SubSeq(w, i + 1, Len(w))) < limit}, now)

\* The answer of checkAndRecord: 0 when the request is admitted, else the time
\* told by the first limit that refuses it, in the order the code tries them.
CheckReply(L, window, daily, until, est, now) ==
  LET w == EvictWindow(window, now)
      d == EvictDaily(daily, now)
  IN  IF now < until THEN until
      ELSE IF RpmFull(L, w) THEN OldestOf(w, now) + WINDOW_MS + 1
      ELSE IF ItpmFull(L, w, est) THEN ItpmNextSlot(w, L.itpm, est, now)
      ELSE IF RpdFull(L, d) THEN OldestDaily(d, now) + DAY_MS + 1
      ELSE IF OtpmFull(L, w) THEN OtpmNextSlot(w, L.otpm, now)
      ELSE 0

\* The answer of nextSlotMs when no backoff is active: 0 when a slot is free, else
\* the latest time over the limits that are full (a full daily or output limit
\* alone is told without looking at the others).
NextSlotInWindows(L, window, daily, est, now) ==
  LET w == EvictWindow(window, now)
      d == EvictDaily(daily, now)
      rpm  == IF RpmFull(L, w) /\ w # <<>> THEN {OldestOf(w, now) + WINDOW_MS + 1} ELSE {}
      itpm == IF ItpmFull(L, w, est) /\ ItpmEnough(w, L.itpm, est) # {}
              THEN {ItpmNextSlot(w, L.itpm, est, now)} ELSE {}
      rpd  == IF RpdFull(L, d) /\ d # <<>> THEN {OldestDaily(d, now) + DAY_MS + 1} ELSE {}
      otpm == IF OtpmFull(L, w) THEN {OtpmNextSlot(w, L.otpm, now)} ELSE {}
  IN  IF RpmFull(L, w) \/ ItpmFull(L, w, est)
      THEN Max({now} \cup rpm \cup itpm \cup rpd \cup otpm)
      ELSE IF RpdFull(L, d) THEN OldestDaily(d, now) + DAY_MS + 1
      ELSE IF OtpmFull(L, w) THEN OtpmNextSlot(w, L.otpm, now)
      ELSE 0

NextSlotForgettingBackoff(L, window, daily, until, est, now) ==   \* mutant
  NextSlotInWindows(L, window, daily, est, now)

NextSlotReply(L, window, daily, until, est, now) ==
  IF now < until THEN until ELSE NextSlotInWindows(L, window, daily, est, now)
=============================================================================

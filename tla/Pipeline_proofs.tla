-------------------------- MODULE Pipeline_proofs --------------------------
(***************************************************************************)
(* Proofs about Pipeline, for any number of calls, any keys, attempts,     *)
(* timeouts and delays: what the map of shared calls holds, and that the   *)
(* engine's count is that of the executions it counts that hold a slot.    *)
(***************************************************************************)
EXTENDS Pipeline, FiniteSetTheorems, TLAPS

\* The types the rest is built on; a retry is left while an execution waits for one.
Shape ==
  /\ now \in Nat
  /\ exec \in [Call -> [pc : PC, attempt : 0 .. maxAttempts, time : Nat]]
  /\ \A c \in Call : IsAt(c, "retrying") => exec[c].attempt < maxAttempts
  /\ follows \in [Call -> Call \cup {Nobody}]
  /\ dedupMap \in [DedupKey -> Call \cup {Nobody}]
  /\ cleaned \subseteq Call /\ draining \subseteq Call
  /\ result \in [Call -> {"none", "failed", "resolved"}]
  /\ charges \in [Call -> Nat]
  /\ wasReset \in BOOLEAN

\* A call executes iff it follows itself, and one that shares has the key of its leader.
Own(c) == exec[c].pc # "idle" <=> follows[c] = c
Sharing(c) == follows[c] # Nobody => dedupKey[follows[c]] = dedupKey[c]

\* The entry of a key is an execution of this key whose clean-up has not run.
Entry(k) ==
  dedupMap[k] # Nobody =>
    /\ dedupMap[k] \in Call \ cleaned
    /\ dedupKey[dedupMap[k]] = k
    /\ follows[dedupMap[k]] = dedupMap[k]

\* Every execution with a key is entered from its start to its clean-up, short of a reset.
Registered(c) ==
  ~wasReset /\ follows[c] = c /\ dedupKey[c] # NoKey /\ c \notin cleaned =>
    dedupMap[dedupKey[c]] = c

SharingInv ==
  /\ \A c \in Call : Own(c) /\ Sharing(c) /\ Registered(c)
  /\ \A k \in DedupKey : Entry(k)
  /\ \A c \in cleaned : Settled(c)

\* The engine counts the executions with a maxConcurrent that hold a slot.
Busy == {c \in Call : Counts(c) /\ Holding(c)}

CountInv ==
  /\ active \in Nat /\ IsFiniteSet(Busy)
  /\ ~wasReset => active = Cardinality(Busy)

IInv == Shape /\ SharingInv /\ CountInv

-----------------------------------------------------------------------------
(* Steps that move one execution. *)

sharingVars == <<follows, dedupMap, cleaned, wasReset>>

\* A step that moves an execution which has begun and not ended leaves the sharing alone.
LEMMA MoveKeepsSharing ==
  ASSUME Shape, SharingInv, NEW c \in Call, NEW s, s.pc # "idle",
         exec[c].pc \notin {"idle", "failed", "resolved"},
         Move(c, s), UNCHANGED sharingVars
  PROVE  SharingInv'
<1>1. \A d \in Call : d # c => exec'[d] = exec[d]
  BY DEF Move, Shape
<1>2. exec'[c] = s
  BY DEF Move, Shape
<1>3. \A d \in Call : Own(d)' /\ Sharing(d)' /\ Registered(d)'
  BY <1>1, <1>2 DEF SharingInv, Own, Sharing, Registered, sharingVars
<1>4. \A k \in DedupKey : Entry(k)'
  BY DEF SharingInv, Entry, sharingVars
<1>5. ASSUME NEW d \in cleaned' PROVE Settled(d)'
  <2>1. d \in Call /\ Settled(d) /\ d # c
    BY <1>5 DEF SharingInv, sharingVars, Settled, IsAt, Shape
  <2> QED
    BY <1>1, <2>1 DEF Settled, IsAt
<1> QED
  BY <1>3, <1>4, <1>5 DEF SharingInv

\* What Busy becomes when an execution moves.
LEMMA MoveBusy ==
  ASSUME Shape, NEW c \in Call, NEW s, Move(c, s)
  PROVE  /\ s.pc \in {"calling", "retrying"} /\ Counts(c) => Busy' = Busy \cup {c}
         /\ s.pc \notin {"calling", "retrying"} \/ ~Counts(c) => Busy' = Busy \ {c}
<1>1. \A d \in Call : d # c => exec'[d] = exec[d]
  BY DEF Move, Shape
<1>2. exec'[c] = s
  BY DEF Move, Shape
<1>3. \A d \in Call : Counts(d)' <=> Counts(d)
  BY DEF Counts, MaxConcurrent, ModelMaxConcurrent
<1> QED
  BY <1>1, <1>2, <1>3 DEF Busy, Holding, IsAt

\* A move within the calls that hold a slot, or within those that do not.
LEMMA MoveKeepsCount ==
  ASSUME Shape, CountInv, NEW c \in Call, NEW s, Move(c, s),
         s.pc \in {"calling", "retrying"} <=> Holding(c),
         active' = active, wasReset' = wasReset
  PROVE  CountInv'
<1>1. Busy' = Busy
  BY MoveBusy DEF Busy
<1> QED
  BY <1>1 DEF CountInv

\* The end of an execution that holds a slot gives it back.
LEMMA SettleKeepsCount ==
  ASSUME Shape, CountInv, NEW c \in Call, NEW s, Settle(c, s), Holding(c),
         s.pc \notin {"calling", "retrying"}, wasReset' = wasReset
  PROVE  CountInv'
<1>1. Busy' = Busy \ {c} /\ (c \in Busy <=> Counts(c))
  BY MoveBusy DEF Settle, Busy
<1>2. IsFiniteSet(Busy) /\ active \in Nat
  BY DEF CountInv
<1>3. /\ IsFiniteSet(Busy')
      /\ Cardinality(Busy') = IF Counts(c) THEN Cardinality(Busy) - 1 ELSE Cardinality(Busy)
  BY <1>1, <1>2, FS_RemoveElement
<1>4. Cardinality(Busy) \in Nat /\ Cardinality(Busy') \in Nat
  BY <1>2, <1>3, FS_CardinalityType
<1>5. active' = IF Counts(c) /\ active > 0 THEN active - 1 ELSE active
  BY DEF Settle, Released
<1>6. ~wasReset => active = Cardinality(Busy)
  BY DEF CountInv
<1>7. ~wasReset' => active' = Cardinality(Busy')
  BY <1>2, <1>3, <1>4, <1>5, <1>6
<1> QED
  BY <1>2, <1>3, <1>5, <1>7 DEF CountInv

\* Where an execution may be moved to.
LEMMA StatesTyped ==
  /\ Failed \in [pc : PC, attempt : 0 .. maxAttempts, time : Nat]
  /\ Resolved \in [pc : PC, attempt : 0 .. maxAttempts, time : Nat]
  /\ Failed.pc = "failed" /\ Resolved.pc = "resolved"
  /\ \A pc \in PC, n \in 0 .. maxAttempts, t \in Nat :
       At(pc, n, t) \in [pc : PC, attempt : 0 .. maxAttempts, time : Nat]
BY PipelineAssumption DEF Failed, Resolved, At, PC

\* A typed move, with what hangs on it unchanged, keeps the types.
LEMMA MoveKeepsShape ==
  ASSUME Shape, NEW c \in Call,
         NEW s \in [pc : PC, attempt : 0 .. maxAttempts, time : Nat],
         s.pc = "retrying" => s.attempt < maxAttempts, Move(c, s),
         UNCHANGED <<now, follows, dedupMap, cleaned, result, charges, draining, wasReset>>
  PROVE  Shape'
<1>1. exec' \in [Call -> [pc : PC, attempt : 0 .. maxAttempts, time : Nat]]
  BY DEF Move, Shape
<1>2. ASSUME NEW d \in Call, IsAt(d, "retrying")' PROVE exec'[d].attempt < maxAttempts
  <2>1. CASE d = c
    BY <1>2, <2>1 DEF Move, Shape, IsAt
  <2>2. CASE d # c
    BY <1>2, <2>2 DEF Move, Shape, IsAt
  <2> QED
    BY <2>1, <2>2
<1> QED
  BY <1>1, <1>2 DEF Shape

-----------------------------------------------------------------------------
(* The actions of one call. *)

\* The variables a move leaves alone.
restVars == <<now, follows, dedupMap, cleaned, result, charges, draining, wasReset>>

\* Moves among the executions that hold no slot, or among those that do.
LEMMA QuietMove ==
  ASSUME IInv, NEW c \in Call,
         NEW s \in [pc : PC, attempt : 0 .. maxAttempts, time : Nat],
         s.pc = "retrying" => s.attempt < maxAttempts, s.pc # "idle",
         s.pc \in {"calling", "retrying"} <=> Holding(c),
         exec[c].pc \notin {"idle", "failed", "resolved"},
         Move(c, s), UNCHANGED <<active, restVars>>
  PROVE  IInv'
<1>1. Shape'
  BY MoveKeepsShape DEF IInv, restVars
<1>2. SharingInv'
  BY MoveKeepsSharing DEF IInv, restVars, sharingVars
<1>3. CountInv'
  BY MoveKeepsCount DEF IInv, restVars
<1> QED
  BY <1>1, <1>2, <1>3 DEF IInv

\* The end of an execution that holds a slot.
LEMMA SettleMove ==
  ASSUME IInv, NEW c \in Call, NEW s \in {Failed, Resolved},
         IsAt(c, "calling"), Settle(c, s), UNCHANGED restVars
  PROVE  IInv'
<1>1. s.pc \in {"failed", "resolved"}
  BY StatesTyped
<1>2. Shape'
  BY <1>1, StatesTyped, MoveKeepsShape DEF IInv, restVars, Settle
<1>3. SharingInv'
  BY <1>1, MoveKeepsSharing DEF IInv, restVars, sharingVars, Settle, IsAt
<1>4. CountInv'
  BY <1>1, SettleKeepsCount DEF IInv, restVars, Holding
<1> QED
  BY <1>2, <1>3, <1>4 DEF IInv

\* An attempt fails and another follows, or none is left.
LEMMA RetryKeeps ==
  ASSUME IInv, NEW c \in Call, IsAt(c, "calling"), RetryOrGiveUp(c), UNCHANGED restVars
  PROVE  IInv'
<1>1. CASE LastAttempt(c) /\ Settle(c, Failed)
  BY <1>1, SettleMove
<1>2. CASE ~LastAttempt(c) /\ UNCHANGED active
             /\ \E d \in Delay : Move(c, At("retrying", exec[c].attempt, now + d))
  <2>1. PICK d \in Delay : Move(c, At("retrying", exec[c].attempt, now + d))
    BY <1>2
  <2>2. exec[c].attempt \in 0 .. maxAttempts /\ now + d \in Nat
    BY PipelineAssumption DEF IInv, Shape
  <2>3. exec[c].attempt < maxAttempts
    BY <1>2, <2>2, PipelineAssumption DEF LastAttempt
  <2>4. At("retrying", exec[c].attempt, now + d)
          \in [pc : PC, attempt : 0 .. maxAttempts, time : Nat]
    BY <2>2, StatesTyped DEF PC
  <2> QED
    BY <1>2, <2>1, <2>3, <2>4, QuietMove DEF At, Holding, IsAt
<1> QED
  BY <1>1, <1>2 DEF RetryOrGiveUp

\* The moves of a call up to its slot, and the start of its later attempts.
LEMMA MovesKeep ==
  ASSUME IInv, NEW c \in Call, HeldEnds(c) \/ Queue(c) \/ Refused(c) \/ Retry(c)
  PROVE  IInv'
<1>1. At("asking", 0, 0) \in [pc : PC, attempt : 0 .. maxAttempts, time : Nat]
      /\ At("queued", 0, 0) \in [pc : PC, attempt : 0 .. maxAttempts, time : Nat]
  BY StatesTyped, PipelineAssumption DEF PC
<1>2. CASE HeldEnds(c)
  <2>1. UNCHANGED <<active, restVars>> /\ exec[c].pc = "held"
    BY <1>2 DEF HeldEnds, restVars, IsAt
  <2> QED
    BY <1>1, <1>2, <2>1, QuietMove, StatesTyped DEF HeldEnds, At, Holding, IsAt
<1>3. CASE Queue(c)
  <2>1. UNCHANGED <<active, restVars>> /\ exec[c].pc = "asking"
    BY <1>3 DEF Queue, restVars, IsAt
  <2> QED
    BY <1>1, <1>3, <2>1, QuietMove DEF Queue, At, Holding, IsAt
<1>4. CASE Refused(c)
  <2>1. UNCHANGED <<active, restVars>> /\ exec[c].pc \in {"asking", "queued"}
    BY <1>4 DEF Refused, restVars, IsAt
  <2> QED
    BY <1>4, <2>1, QuietMove, StatesTyped DEF Refused, Holding, IsAt
<1>5. CASE Retry(c)
  <2>1. UNCHANGED <<active, restVars>> /\ exec[c].pc = "retrying"
    BY <1>5 DEF Retry, restVars, IsAt
  <2>2. exec[c].attempt \in 0 .. maxAttempts /\ exec[c].attempt < maxAttempts /\ now \in Nat
    BY <2>1 DEF IInv, Shape, IsAt
  <2>3. At("calling", exec[c].attempt + 1, now)
          \in [pc : PC, attempt : 0 .. maxAttempts, time : Nat]
    <3>1. exec[c].attempt + 1 \in 0 .. maxAttempts
      BY <2>2, PipelineAssumption
    <3> QED
      BY <2>2, <3>1, StatesTyped DEF PC
  <2> QED
    BY <1>5, <2>1, <2>3, QuietMove DEF Retry, Attempt, At, Holding, IsAt
<1> QED
  BY <1>2, <1>3, <1>4, <1>5

\* A call takes its slot.
LEMMA AdmittedKeeps ==
  ASSUME IInv, NEW c \in Call, Admitted(c)
  PROVE  IInv'
<1>1. UNCHANGED restVars /\ exec[c].pc \in {"asking", "queued"}
  BY DEF Admitted, restVars, IsAt
<1>2. 1 \in 0 .. maxAttempts /\ now \in Nat
  BY PipelineAssumption DEF IInv, Shape
<1>3. At("calling", 1, now) \in [pc : PC, attempt : 0 .. maxAttempts, time : Nat]
  BY <1>2, StatesTyped DEF PC
<1>4. Move(c, At("calling", 1, now)) /\ At("calling", 1, now).pc = "calling"
  BY DEF Admitted, Attempt, At
<1>5. Shape'
  BY <1>1, <1>3, <1>4, MoveKeepsShape DEF IInv, restVars
<1>6. SharingInv'
  BY <1>1, <1>4, MoveKeepsSharing DEF IInv, restVars, sharingVars
<1>7. CountInv'
  <2>1. Busy' = (IF Counts(c) THEN Busy \cup {c} ELSE Busy) /\ c \notin Busy
    BY <1>1, <1>4, MoveBusy DEF IInv, Busy, Holding, IsAt
  <2>2. IsFiniteSet(Busy) /\ active \in Nat
    BY DEF IInv, CountInv
  <2>3. /\ IsFiniteSet(Busy')
        /\ Cardinality(Busy') = IF Counts(c) THEN Cardinality(Busy) + 1 ELSE Cardinality(Busy)
    BY <2>1, <2>2, FS_AddElement
  <2>4. \/ active' = IF Counts(c) THEN active + 1 ELSE active
        \/ wasReset /\ active' = active
    BY DEF Admitted
  <2>5. wasReset' = wasReset
    BY <1>1 DEF restVars
  <2> QED
    BY <2>2, <2>3, <2>4, <2>5 DEF IInv, CountInv
<1> QED
  BY <1>5, <1>6, <1>7 DEF IInv

\* Answers and timeouts.
LEMMA AttemptEndsKeep ==
  ASSUME IInv, NEW c \in Call, Answer(c) \/ TimesOut(c)
  PROVE  IInv'
<1>1. IsAt(c, "calling") /\ UNCHANGED restVars
  BY DEF Answer, TimesOut, TimeoutDue, restVars
<1>2. Settle(c, Resolved) \/ Settle(c, Failed) \/ RetryOrGiveUp(c)
  BY DEF Answer, Hear, TimesOut
<1> QED
  BY <1>1, <1>2, SettleMove, RetryKeeps

-----------------------------------------------------------------------------
(* Sharing, entering, cleaning up and hearing. *)

\* The leader of a call has its key and executes.
LEMMA LeaderLeads ==
  ASSUME Shape, SharingInv, NEW c \in Call, Leader(c) # Nobody
  PROVE  /\ dedupKey[c] \in DedupKey
         /\ Leader(c) \in Call \ cleaned
         /\ dedupKey[Leader(c)] = dedupKey[c]
         /\ follows[Leader(c)] = Leader(c)
<1>1. dedupKey[c] \in DedupKey /\ Leader(c) = dedupMap[dedupKey[c]]
  BY DEF Leader, DedupKey
<1> QED
  BY <1>1 DEF SharingInv, Entry

LEMMA ShareKeeps ==
  ASSUME IInv, NEW c \in Call, Share(c)
  PROVE  IInv'
<1> DEFINE l == Leader(c)
<1>1. l \in Call /\ dedupKey[l] = dedupKey[c] /\ follows[l] = l
  BY LeaderLeads DEF Share, IInv
<1>2. follows[c] = Nobody /\ l # c /\ c # Nobody
  BY <1>1, PipelineAssumption DEF Share
<1>3. follows' = [follows EXCEPT ![c] = l]
  BY DEF Share
<1>4. /\ follows'[c] = l
      /\ \A d \in Call : d # c => follows'[d] = follows[d]
  BY <1>3 DEF IInv, Shape
<1>5. Shape'
  BY <1>1, <1>3 DEF Share, IInv, Shape, IsAt
<1>6. UNCHANGED <<exec, dedupMap, cleaned, wasReset, active>>
  BY DEF Share
<1>7. \A d \in Call : Own(d)' /\ Sharing(d)' /\ Registered(d)'
  BY <1>1, <1>2, <1>4, <1>6 DEF IInv, SharingInv, Own, Sharing, Registered
<1>8. \A k \in DedupKey : Entry(k)'
  BY <1>1, <1>2, <1>4, <1>6 DEF IInv, SharingInv, Entry
<1>9. \A d \in cleaned' : Settled(d)'
  BY <1>6 DEF IInv, SharingInv, Settled, IsAt
<1>10. CountInv'
  BY <1>6 DEF IInv, CountInv, Busy, Holding, IsAt
<1> QED
  BY <1>5, <1>7, <1>8, <1>9, <1>10 DEF IInv, SharingInv

LEMMA EnterKeeps ==
  ASSUME IInv, NEW c \in Call, Enter(c)
  PROVE  IInv'
<1>1. PICK s \in {Failed, At("held", 0, 0), At("asking", 0, 0)} : Move(c, s)
  BY DEF Enter
<1>2. /\ s \in [pc : PC, attempt : 0 .. maxAttempts, time : Nat]
      /\ s.pc \in {"failed", "held", "asking"}
  BY StatesTyped, PipelineAssumption DEF At, PC
<1>3. follows[c] = Nobody /\ c # Nobody /\ c \notin cleaned /\ exec[c].pc = "idle"
  <2>1. follows[c] = Nobody /\ c # Nobody
    BY PipelineAssumption DEF Enter
  <2>2. exec[c].pc = "idle"
    BY <2>1 DEF IInv, SharingInv, Own
  <2> QED
    BY <2>1, <2>2 DEF IInv, SharingInv, Settled, IsAt
<1>4. /\ follows' = [follows EXCEPT ![c] = c]
      /\ UNCHANGED <<now, active, cleaned, result, charges, draining, wasReset>>
  BY DEF Enter
<1>5. /\ follows'[c] = c
      /\ \A d \in Call : d # c => follows'[d] = follows[d]
  BY <1>4 DEF IInv, Shape
<1>6. /\ exec'[c] = s
      /\ \A d \in Call : d # c => exec'[d] = exec[d]
  BY <1>1 DEF Move, IInv, Shape
<1>7. dedupMap' = IF dedupKey[c] = NoKey THEN dedupMap
                  ELSE [dedupMap EXCEPT ![dedupKey[c]] = c]
  BY DEF Enter, Register
<1>8. Shape'
  <2>1. exec' \in [Call -> [pc : PC, attempt : 0 .. maxAttempts, time : Nat]]
    BY <1>1, <1>2 DEF Move, IInv, Shape
  <2>2. \A d \in Call : IsAt(d, "retrying")' => exec'[d].attempt < maxAttempts
    BY <1>2, <1>6 DEF IInv, Shape, IsAt
  <2>3. dedupMap' \in [DedupKey -> Call \cup {Nobody}]
    BY <1>7 DEF IInv, Shape
  <2> QED
    BY <2>1, <2>2, <2>3, <1>4 DEF IInv, Shape
<1>9. \A d \in Call : Own(d)' /\ Sharing(d)'
  BY <1>2, <1>3, <1>5, <1>6 DEF IInv, SharingInv, Own, Sharing
<1>10. dedupKey[c] # NoKey => dedupKey[c] \in DedupKey /\ dedupMap[dedupKey[c]] = Nobody
  BY DEF Enter, Leader, DedupKey
<1>11. ASSUME NEW d \in Call PROVE Registered(d)'
  <2>1. CASE d = c
    BY <2>1, <1>4, <1>7, <1>10 DEF Registered, IInv, Shape
  <2>2. CASE d # c
    <3>1. Registered(d)
      BY DEF IInv, SharingInv
    <3>2. d # Nobody
      BY PipelineAssumption
    <3>3. dedupKey[d] # NoKey => dedupKey[d] \in DedupKey
      BY DEF DedupKey
    <3> QED
      BY <2>2, <3>1, <3>2, <3>3, <1>4, <1>5, <1>7, <1>10 DEF Registered, IInv, Shape
  <2> QED
    BY <2>1, <2>2
<1>12. ASSUME NEW k \in DedupKey PROVE Entry(k)'
  <2>1. k # NoKey
    BY DEF DedupKey
  <2>2. CASE k = dedupKey[c]
    <3>1. dedupMap'[k] = c
      BY <2>1, <2>2, <1>7 DEF IInv, Shape
    <3> QED
      BY <2>2, <3>1, <1>3, <1>4, <1>5 DEF Entry
  <2>3. CASE k # dedupKey[c]
    <3>1. dedupMap'[k] = dedupMap[k]
      BY <2>3, <1>7 DEF IInv, Shape
    <3>2. Entry(k)
      BY DEF IInv, SharingInv
    <3> QED
      BY <3>1, <3>2, <1>3, <1>4, <1>5 DEF Entry
  <2> QED
    BY <2>2, <2>3
<1>13. \A d \in cleaned' : Settled(d)'
  BY <1>3, <1>4, <1>6 DEF IInv, SharingInv, Shape, Settled, IsAt
<1>14. CountInv'
  BY <1>1, <1>2, <1>3, <1>4, MoveKeepsCount DEF IInv, Holding, IsAt
<1> QED
  BY <1>8, <1>9, <1>11, <1>12, <1>13, <1>14 DEF IInv, SharingInv

LEMMA CleanupKeeps ==
  ASSUME IInv, NEW c \in Call, Cleanup(c)
  PROVE  IInv'
<1>1. /\ Settled(c) /\ dedupKey[c] # NoKey /\ c \notin cleaned
      /\ cleaned' = cleaned \cup {c}
      /\ dedupMap' = [dedupMap EXCEPT ![dedupKey[c]] = Nobody]
      /\ UNCHANGED <<now, exec, follows, active, result, charges, draining, wasReset>>
  BY DEF Cleanup, Deleted
<1>2. dedupKey[c] \in DedupKey /\ follows[c] = c
  BY <1>1 DEF DedupKey, Settled, IsAt, IInv, SharingInv, Own
<1>3. Shape'
  BY <1>1 DEF IInv, Shape, IsAt
<1>4. \A d \in Call : Own(d)' /\ Sharing(d)'
  BY <1>1 DEF IInv, SharingInv, Own, Sharing
<1>5. ASSUME NEW d \in Call PROVE Registered(d)'
  <2>1. Registered(d) /\ Registered(c)
    BY DEF IInv, SharingInv
  <2>2. dedupKey[d] # NoKey => dedupKey[d] \in DedupKey
    BY DEF DedupKey
  <2>3. dedupMap[dedupKey[c]] = c \/ wasReset
    BY <1>1, <1>2, <2>1 DEF Registered
  <2> QED
    BY <1>1, <2>1, <2>2, <2>3 DEF Registered, IInv, Shape
<1>6. ASSUME NEW k \in DedupKey PROVE Entry(k)'
  <2>1. CASE k = dedupKey[c]
    BY <2>1, <1>1 DEF Entry, IInv, Shape
  <2>2. CASE k # dedupKey[c]
    <3>1. dedupMap'[k] = dedupMap[k]
      BY <2>2, <1>1 DEF IInv, Shape
    <3>2. Entry(k)
      BY DEF IInv, SharingInv
    <3> QED
      BY <1>1, <2>2, <3>1, <3>2 DEF Entry
  <2> QED
    BY <2>1, <2>2
<1>7. \A d \in cleaned' : Settled(d)'
  BY <1>1 DEF IInv, SharingInv, Settled, IsAt
<1>8. CountInv'
  BY <1>1 DEF IInv, CountInv, Busy, Holding, IsAt
<1> QED
  BY <1>3, <1>4, <1>5, <1>6, <1>7, <1>8 DEF IInv, SharingInv

LEMMA DeliverKeeps ==
  ASSUME IInv, NEW c \in Call, Deliver(c)
  PROVE  IInv'
<1>1. UNCHANGED <<now, exec, follows, dedupMap, active, cleaned, draining, wasReset>>
  BY DEF Deliver
<1>2. follows[c] \in Call
  BY DEF Deliver, IInv, Shape
<1>3. exec[follows[c]].pc \in {"failed", "resolved"}
  BY DEF Deliver, Settled, IsAt
<1>4. Shape'
  <2>1. result' \in [Call -> {"none", "failed", "resolved"}]
    BY <1>3 DEF Deliver, IInv, Shape
  <2>2. charges' \in [Call -> Nat]
    BY <1>2 DEF Deliver, IInv, Shape
  <2> QED
    BY <1>1, <2>1, <2>2 DEF IInv, Shape, IsAt
<1>5. SharingInv'
  BY <1>1 DEF IInv, SharingInv, Own, Sharing, Registered, Entry, Settled, IsAt
<1>6. CountInv'
  BY <1>1 DEF IInv, CountInv, Busy, Holding, IsAt
<1> QED
  BY <1>4, <1>5, <1>6 DEF IInv

-----------------------------------------------------------------------------
(* shutdown and reset. *)

\* Rejecting those that are queued, who hold no slot.
LEMMA QueuedRejectedKeeps ==
  ASSUME Shape, SharingInv, QueuedRejected
  PROVE  /\ exec' \in [Call -> [pc : PC, attempt : 0 .. maxAttempts, time : Nat]]
         /\ \A c \in Call : IsAt(c, "retrying")' => exec'[c].attempt < maxAttempts
         /\ \A c \in Call : exec'[c].pc = "idle" <=> exec[c].pc = "idle"
         /\ \A c \in Call : Settled(c) => Settled(c)'
         /\ Busy' = Busy
<1>1. \A c \in Call : exec'[c] = IF IsAt(c, "queued") THEN Failed ELSE exec[c]
  BY DEF QueuedRejected
<1>2. Failed \in [pc : PC, attempt : 0 .. maxAttempts, time : Nat] /\ Failed.pc = "failed"
  BY StatesTyped
<1>3. exec' \in [Call -> [pc : PC, attempt : 0 .. maxAttempts, time : Nat]]
  BY <1>2 DEF QueuedRejected, Shape
<1>4. \A c \in Call : IsAt(c, "retrying")' => exec'[c].attempt < maxAttempts
  BY <1>1, <1>2 DEF Shape, IsAt
<1>5. \A c \in Call : exec'[c].pc = "idle" <=> exec[c].pc = "idle"
  BY <1>1, <1>2 DEF IsAt
<1>6. \A c \in Call : Settled(c) => Settled(c)'
  BY <1>1 DEF Settled, IsAt
<1>7. \A c \in Call : Holding(c)' <=> Holding(c)
  BY <1>1, <1>2 DEF Holding, IsAt
<1> QED
  BY <1>3, <1>4, <1>5, <1>6, <1>7 DEF Busy

LEMMA ShutdownKeeps ==
  ASSUME IInv, Shutdown
  PROVE  IInv'
<1>1. /\ UNCHANGED <<now, follows, dedupMap, active, cleaned, result, charges, wasReset>>
      /\ draining' \subseteq Call /\ QueuedRejected
  BY DEF Shutdown
<1>2. /\ exec' \in [Call -> [pc : PC, attempt : 0 .. maxAttempts, time : Nat]]
      /\ \A c \in Call : IsAt(c, "retrying")' => exec'[c].attempt < maxAttempts
      /\ \A c \in Call : exec'[c].pc = "idle" <=> exec[c].pc = "idle"
      /\ \A c \in Call : Settled(c) => Settled(c)'
      /\ Busy' = Busy
  BY <1>1, QueuedRejectedKeeps DEF IInv
<1>3. Shape'
  BY <1>1, <1>2 DEF IInv, Shape
<1>4. \A c \in Call : Own(c)' /\ Sharing(c)' /\ Registered(c)'
  BY <1>1, <1>2 DEF IInv, SharingInv, Own, Sharing, Registered
<1>5. \A k \in DedupKey : Entry(k)'
  BY <1>1 DEF IInv, SharingInv, Entry
<1>6. \A c \in cleaned' : Settled(c)'
  BY <1>1, <1>2 DEF IInv, SharingInv, Shape
<1>7. CountInv'
  BY <1>1, <1>2 DEF IInv, CountInv
<1> QED
  BY <1>3, <1>4, <1>5, <1>6, <1>7 DEF IInv, SharingInv

\* After a reset only the executions themselves are left, and the promises are off.
LEMMA ResetKeeps ==
  ASSUME IInv, Reset
  PROVE  IInv'
<1>1. /\ UNCHANGED <<now, follows, cleaned, result, charges, draining>>
      /\ QueuedRejected /\ wasReset' = TRUE /\ active' = 0
      /\ dedupMap' = [k \in DedupKey |-> Nobody]
  BY DEF Reset
<1>2. /\ exec' \in [Call -> [pc : PC, attempt : 0 .. maxAttempts, time : Nat]]
      /\ \A c \in Call : IsAt(c, "retrying")' => exec'[c].attempt < maxAttempts
      /\ \A c \in Call : exec'[c].pc = "idle" <=> exec[c].pc = "idle"
      /\ \A c \in Call : Settled(c) => Settled(c)'
      /\ Busy' = Busy
  BY <1>1, QueuedRejectedKeeps DEF IInv
<1>3. Shape'
  BY <1>1, <1>2 DEF IInv, Shape
<1>4. \A c \in Call : Own(c)' /\ Sharing(c)' /\ Registered(c)'
  BY <1>1, <1>2 DEF IInv, SharingInv, Own, Sharing, Registered
<1>5. \A k \in DedupKey : Entry(k)'
  BY <1>1 DEF Entry
<1>6. \A c \in cleaned' : Settled(c)'
  BY <1>1, <1>2 DEF IInv, SharingInv, Shape
<1>7. CountInv'
  BY <1>1, <1>2 DEF IInv, CountInv
<1> QED
  BY <1>3, <1>4, <1>5, <1>6, <1>7 DEF IInv, SharingInv

\* Steps that change neither executions nor the sharing.
LEMMA OtherKeep ==
  ASSUME IInv, ShutdownReturns \/ Tick \/ UNCHANGED vars
  PROVE  IInv'
<1>1. /\ UNCHANGED <<exec, follows, dedupMap, active, cleaned, result, charges, draining, wasReset>>
      /\ now' = now \/ now' = now + 1
  BY DEF ShutdownReturns, Tick, vars
<1>2. Shape'
  BY <1>1 DEF IInv, Shape, IsAt
<1>3. SharingInv'
  BY <1>1 DEF IInv, SharingInv, Own, Sharing, Registered, Entry, Settled, IsAt
<1>4. CountInv'
  BY <1>1 DEF IInv, CountInv, Busy, Holding, IsAt
<1> QED
  BY <1>2, <1>3, <1>4 DEF IInv

-----------------------------------------------------------------------------
(* The theorems. *)

LEMMA PipelineInvariant == Spec => []IInv
<1>1. Init => IInv
  <2> SUFFICES ASSUME Init PROVE IInv
    OBVIOUS
  <2>1. Busy = {}
    BY DEF Init, Busy, Holding, IsAt, At
  <2>2. CountInv
    BY <2>1, FS_EmptySet DEF Init, CountInv
  <2>3. At("idle", 0, 0) \in [pc : PC, attempt : 0 .. maxAttempts, time : Nat]
    BY StatesTyped, PipelineAssumption DEF PC
  <2>4. Shape
    BY <2>3 DEF Init, Shape, IsAt, At
  <2>5. \A c \in Call : c # Nobody
    BY PipelineAssumption
  <2>6. SharingInv
    BY <2>5 DEF Init, SharingInv, Own, Sharing, Registered, Entry, At
  <2> QED
    BY <2>2, <2>4, <2>6 DEF IInv
<1>2. IInv /\ [Next]_vars => IInv'
  <2> SUFFICES ASSUME IInv, [Next]_vars PROVE IInv'
    OBVIOUS
  <2>1. ASSUME NEW c \in Call, Queue(c) \/ Acquired(c) \/ Answer(c) \/ Progress(c)
        PROVE  IInv'
    BY <2>1, MovesKeep, AdmittedKeeps, AttemptEndsKeep, CleanupKeeps, DeliverKeeps
       DEF Acquired, Progress
  <2>2. ASSUME NEW c \in Call, Begin(c) PROVE IInv'
    BY <2>2, ShareKeeps, EnterKeeps DEF Begin
  <2> QED
    BY <2>1, <2>2, ShutdownKeeps, ResetKeeps, OtherKeep DEF Next, PipelineStep
<1> QED
  BY <1>1, <1>2, PTL DEF Spec

\* Types; at most maxAttempts attempts are made, and short of a reset the engine counts
\* exactly the executions with a maxConcurrent between their admission and their end.
THEOREM PipelineTypeCorrect == Spec => []TypeOK
<1>1. IInv => TypeOK
  BY DEF IInv, Shape, CountInv, Busy, TypeOK
<1> QED
  BY <1>1, PipelineInvariant, PTL

\* Concurrent calls of a key share one execution until a reset (execute, line 184).
THEOREM PipelineOneExecutionPerKey == Spec => []OneExecutionPerKey
<1>1. IInv => OneExecutionPerKey
  <2> SUFFICES ASSUME IInv, ~wasReset, NEW a \in Call, NEW b \in Call,
                      dedupKey[a] = dedupKey[b], dedupKey[a] # NoKey,
                      InFlight(a), InFlight(b)
               PROVE  a = b
    BY DEF OneExecutionPerKey
  <2>1. a \notin cleaned /\ b \notin cleaned
    BY DEF IInv, SharingInv, InFlight
  <2>2. Registered(a) /\ Registered(b)
    BY DEF IInv, SharingInv
  <2> QED
    BY <2>1, <2>2 DEF Registered, InFlight
<1> QED
  BY <1>1, PipelineInvariant, PTL

\* A caller that hears of an end no longer finds that execution shared (the finally of
\* line 193 runs before its callers go on).
THEOREM PipelineNothingStaleShared == Spec => NothingStaleShared
<1>1. IInv /\ [Next]_vars => [\A c \in Call :
        result'[c] # result[c] /\ ~wasReset => Leader(c) # follows[c]]_vars
  <2> SUFFICES ASSUME IInv, Next, NEW c \in Call, result'[c] # result[c]
               PROVE  Leader(c) # follows[c]
    BY DEF vars
  <2>1. PICK d \in Call : Deliver(d)
    BY DEF Next, PipelineStep, Acquired, Progress, Begin, Share, Enter, HeldEnds, Queue, Refused,
           Admitted, Answer, TimesOut, Retry, Cleanup, Shutdown, ShutdownReturns, Reset, Tick
  <2>2. d = c
    BY <2>1 DEF Deliver, IInv, Shape
  <2>3. follows[c] \in Call
    BY <2>1, <2>2 DEF Deliver, IInv, Shape
  <2>4. dedupKey[follows[c]] = NoKey \/ follows[c] \in cleaned
    BY <2>1, <2>2 DEF Deliver
  <2>5. dedupKey[follows[c]] = dedupKey[c] /\ Nobody \notin Call
    BY <2>3, PipelineAssumption DEF IInv, SharingInv, Sharing
  <2>6. CASE dedupKey[c] = NoKey
    BY <2>3, <2>5, <2>6 DEF Leader
  <2>7. CASE dedupKey[c] # NoKey
    BY <2>3, <2>4, <2>5, <2>7, LeaderLeads DEF IInv
  <2> QED
    BY <2>6, <2>7
<1> QED
  BY <1>1, PipelineInvariant, PTL DEF Spec, NothingStaleShared

\* What shutdown keeps of its poll.
ShutdownShape == shutdown \in [requested : BOOLEAN, polling : BOOLEAN, deadline : Nat]

LEMMA ShutdownTyped == Spec => []ShutdownShape
<1>1. Init => ShutdownShape
  BY DEF Init, ShutdownShape
<1>2. IInv /\ ShutdownShape /\ [Next]_vars => ShutdownShape'
  <2> SUFFICES ASSUME IInv, ShutdownShape, [Next]_vars PROVE ShutdownShape'
    OBVIOUS
  <2>1. CASE Shutdown
    <3>1. now + drainMs \in Nat
      BY PipelineAssumption DEF IInv, Shape
    <3>2. (StillActive /\ drainMs > 0) \in BOOLEAN
      BY PipelineAssumption DEF StillActive
    <3> QED
      BY <2>1, <3>1, <3>2 DEF Shutdown, ShutdownShape
  <2>2. CASE ShutdownReturns
    BY <2>2 DEF ShutdownReturns, ShutdownShape
  <2>3. CASE Reset
    BY <2>3 DEF Reset, ShutdownShape
  <2>4. CASE ~Shutdown /\ ~ShutdownReturns /\ ~Reset
    <3>1. UNCHANGED shutdown
      BY <2>4 DEF Next, PipelineStep, Acquired, Progress, Begin, Share, Enter, HeldEnds, Queue,
             Refused, Admitted, Answer, TimesOut, Retry, Cleanup, Deliver, Tick, vars
    <3> QED
      BY <3>1 DEF ShutdownShape
  <2> QED
    BY <2>1, <2>2, <2>3, <2>4
<1> QED
  BY <1>1, <1>2, PipelineInvariant, PTL DEF Spec

\* When the engine counts nothing, nobody it counts holds a slot.
LEMMA NothingActive ==
  ASSUME IInv, ~StillActive, ~wasReset
  PROVE  \A c \in Call : Counts(c) => ~Holding(c)
<1>1. active = 0 /\ active = Cardinality(Busy) /\ IsFiniteSet(Busy)
  BY DEF IInv, CountInv, StillActive
<1>2. Busy = {}
  BY <1>1, FS_EmptySet
<1> QED
  BY <1>2 DEF Busy

\* A shutdown that returns before its deadline has waited for every call of a scope with a
\* maxConcurrent that held a slot when it was called (lines 548-556); whatever limits it was
\* configured with, nothing is said of the calls the engine does not count.
THEOREM PipelineShutdownWaits == Spec => ShutdownWaits
<1>1. IInv /\ ShutdownShape /\ [Next]_vars =>
        [shutdown'.requested /\ ~shutdown'.polling /\ shutdown' # shutdown
           /\ now < shutdown'.deadline /\ ~wasReset =>
         \A c \in draining' : Counts(c) => ~Holding(c)]_vars
  <2> SUFFICES ASSUME IInv, ShutdownShape, Next, shutdown'.requested, ~shutdown'.polling,
                      shutdown' # shutdown, now < shutdown'.deadline, ~wasReset
               PROVE  \A c \in draining' : Counts(c) => ~Holding(c)
    BY DEF vars
  <2>1. draining \subseteq Call /\ now \in Nat
    BY DEF IInv, Shape
  <2>2. CASE Shutdown
    <3>1. shutdown' = [requested |-> TRUE, polling |-> StillActive /\ drainMs > 0,
                       deadline |-> now + drainMs]
      BY <2>2 DEF Shutdown
    <3>2. now < now + drainMs /\ ~(StillActive /\ drainMs > 0)
      BY <3>1
    <3>3. ~StillActive
      BY <3>2, <2>1, PipelineAssumption
    <3> QED
      BY <2>2, <3>3, NothingActive DEF Shutdown
  <2>3. CASE ShutdownReturns
    <3>1. shutdown'.deadline = shutdown.deadline /\ draining' = draining
      BY <2>3 DEF ShutdownReturns, ShutdownShape
    <3>2. shutdown.deadline \in Nat
      BY DEF ShutdownShape
    <3>3. ~StillActive
      BY <2>1, <2>3, <3>1, <3>2 DEF ShutdownReturns
    <3> QED
      BY <2>1, <3>1, <3>3, NothingActive
  <2>4. CASE Reset
    <3>1. shutdown'.requested = FALSE
      BY <2>4 DEF Reset, ShutdownShape
    <3> QED
      BY <3>1
  <2>5. Shutdown \/ ShutdownReturns \/ Reset
    BY DEF Next, PipelineStep, Acquired, Progress, Begin, Share, Enter, HeldEnds, Queue, Refused,
           Admitted, Answer, TimesOut, Retry, Cleanup, Deliver, Tick
  <2> QED
    BY <2>2, <2>3, <2>4, <2>5
<1> QED
  BY <1>1, PipelineInvariant, ShutdownTyped, PTL DEF Spec, ShutdownWaits
=============================================================================

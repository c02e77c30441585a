-------------------------- MODULE Adapters_proofs --------------------------
(***************************************************************************)
(* Proofs about Adapters, for any calls, models, pool, budget and limits:  *)
(* what a call has recorded follows from where it is and what its stream   *)
(* told, under the key it took a slot for and with the limit in force.     *)
(***************************************************************************)
EXTENDS Adapters, TLAPS

Chain == Seq(Model) \ {<<>>}
Reading == [input : Nat, output : Nat, usageRecorded : BOOLEAN]
Written == [key : (Scope \cup {Undefined}) \X Model, input : Nat, output : Nat]

\* The types the two invariants rest on.
Shape ==
  /\ index \in 0 .. Len(Pool) - 1
  /\ call \in [Call -> [pc : Pcs, chain : Seq(Model), at : Nat]]
  /\ read \in [Call -> Reading]
  /\ records \in [Call -> Seq(Written)]
  /\ \A c \in Call : ~IsAt(c, "idle") => call[c].at \in 1 .. Len(call[c].chain)

Before == {"idle", "entering", "exceeded", "overBudget", "executing", "failed"}

\* A call that is not of the proxy has recorded nothing before it is answered, one entry when
\* it is over, and between the two what its finish chunk told.
UsageInv == \A c \in Call : Target[c].via # "raw" =>
  /\ call[c].pc \in Before => records[c] = <<>> /\ ~read[c].usageRecorded
  /\ call[c].pc \in {"streaming", "broken"} =>
       Len(records[c]) = IF read[c].usageRecorded THEN 1 ELSE 0
  /\ call[c].pc \in {"done", "ended"} => Len(records[c]) = 1

IInv == Shape /\ UsageInv

-----------------------------------------------------------------------------
(* The types of what the actions put into the variables. *)

\* A member of the pool is picked, and the index stays one of its places.
LEMMA PickIsModel ==
  ASSUME index \in 0 .. Len(Pool) - 1
  PROVE  /\ <<Pool[index + 1]>> \in Chain
         /\ NextIndex \in 0 .. Len(Pool) - 1
<1>1. Pool \in Seq(Model) /\ Len(Pool) \in Nat /\ Len(Pool) > 0
  BY AdaptersAssumption
<1>2. Pool[index + 1] \in Model
  BY <1>1
<1>3. (index + 1) % Len(Pool) \in 0 .. Len(Pool) - 1
  BY <1>1
<1> QED
  BY <1>2, <1>3 DEF NextIndex, Chain

\* A call has a key once it has started.
LEMMA KeyIsKey ==
  ASSUME Shape, NEW c \in Call, ~IsAt(c, "idle")
  PROVE  Key(c) \in (Scope \cup {Undefined}) \X Model
<1>1. ModelOf(c) \in Model
  BY DEF Shape, ModelOf
<1>2. ScopeOf(c) \in Scope \cup {Undefined}
  BY AdaptersAssumption DEF ScopeOf, Or
<1> QED
  BY <1>1, <1>2 DEF Key

\* recordUsage appends one entry to the records of its call.
LEMMA RecordAppends ==
  ASSUME Shape, NEW c \in Call, ~IsAt(c, "idle"), NEW i \in Nat, NEW o \in Nat, Record(c, i, o)
  PROVE  /\ records' \in [Call -> Seq(Written)]
         /\ Len(records'[c]) = Len(records[c]) + 1
         /\ \A d \in Call \ {c} : records'[d] = records[d]
<1> DEFINE e == [key |-> Key(c), input |-> i, output |-> o]
<1>1. e \in Written
  BY KeyIsKey DEF Written
<1>2. records[c] \in Seq(Written) /\ records \in [Call -> Seq(Written)]
  BY DEF Shape
<1>3. records' = [records EXCEPT ![c] = Append(records[c], e)]
  BY DEF Record
<1> HIDE DEF e
<1>4. Append(records[c], e) \in Seq(Written) /\ Len(Append(records[c], e)) = Len(records[c]) + 1
  BY <1>1, <1>2
<1> QED
  BY <1>2, <1>3, <1>4

-----------------------------------------------------------------------------
(* The invariant. *)

LEMMA InitInv == ASSUME Init PROVE IInv
<1>1. Shape
  BY AdaptersAssumption DEF Init, Shape, Pcs, Reading, Written, IsAt
<1>2. UsageInv
  BY DEF Init, UsageInv, IsAt, Before
<1> QED
  BY <1>1, <1>2 DEF IInv

\* What is to be shown of a step of call c, when all else stays.
MovesOnly(c) ==
  /\ \A d \in Call \ {c} : call'[d] = call[d] /\ read'[d] = read[d] /\ records'[d] = records[d]
  /\ index' \in 0 .. Len(Pool) - 1
  /\ call' \in [Call -> [pc : Pcs, chain : Seq(Model), at : Nat]]
  /\ read' \in [Call -> Reading] /\ records' \in [Call -> Seq(Written)]

\* What the invariant says of one call.
Fine(c) ==
  /\ ~IsAt(c, "idle") => call[c].at \in 1 .. Len(call[c].chain)
  /\ Target[c].via # "raw" =>
       /\ call[c].pc \in Before => records[c] = <<>> /\ ~read[c].usageRecorded
       /\ call[c].pc \in {"streaming", "broken"} =>
            Len(records[c]) = IF read[c].usageRecorded THEN 1 ELSE 0
       /\ call[c].pc \in {"done", "ended"} => Len(records[c]) = 1

LEMMA FineOf == ASSUME IInv, NEW c \in Call PROVE Fine(c)
  BY DEF IInv, Shape, UsageInv, Fine

\* A step of one call keeps the invariant if the call is fine after it.
LEMMA OneCall ==
  ASSUME IInv, NEW c \in Call, MovesOnly(c), Fine(c)'
  PROVE  IInv'
<1>1. \A d \in Call : Fine(d)'
  <2> TAKE d \in Call
  <2>1. CASE d = c
    BY <2>1
  <2>2. CASE d # c
    <3>1. Fine(d)
      BY FineOf
    <3>2. call'[d] = call[d] /\ read'[d] = read[d] /\ records'[d] = records[d]
      BY <2>2 DEF MovesOnly
    <3> QED
      BY <3>1, <3>2 DEF Fine, IsAt
  <2> QED
    BY <2>1, <2>2
<1> QED
  BY <1>1 DEF IInv, Shape, UsageInv, Fine, MovesOnly

LEMMA StartInv == ASSUME IInv, NEW c \in Call, Start(c) PROVE IInv'
<1> USE DEF IInv
<1>1. PICK chain \in Chain : Started(c, chain)
  <2>1. Target[c].chain \in Chain
    BY AdaptersAssumption DEF Chain
  <2> QED
    BY <2>1, PickIsModel DEF Start, StartWrapped, StartPooled, StartRaw, Shape
<1>2. index' \in 0 .. Len(Pool) - 1
  BY PickIsModel DEF Start, StartWrapped, StartPooled, StartRaw, Shape
<1>3. chain \in Seq(Model) /\ Len(chain) \in Nat /\ Len(chain) >= 1
  BY DEF Chain
<1>4. call'[c] = [pc |-> "entering", chain |-> chain, at |-> 1]
  BY <1>1 DEF Started, Shape
<1>5. MovesOnly(c)
  BY <1>1, <1>2, <1>3 DEF Started, Start, Shape, MovesOnly, Pcs
<1>6. Fine(c) /\ IsAt(c, "idle") /\ UNCHANGED <<read, records>>
  BY FineOf DEF Start
<1>7. Fine(c)'
  BY <1>3, <1>4, <1>6 DEF Fine, IsAt, Before
<1> QED
  BY <1>5, <1>7, OneCall

\* A step that takes a call to another place, or to its next model, and does no more.
LEMMA GoesInv ==
  ASSUME IInv, NEW c \in Call, NEW p \in Pcs, NEW n \in Nat,
         call' = [call EXCEPT ![c] = [pc |-> p, chain |-> call[c].chain, at |-> n]],
         UNCHANGED <<index, read, records>>, Fine(c)'
  PROVE  IInv'
<1>1. call[c].chain \in Seq(Model)
  BY DEF IInv, Shape
<1>2. MovesOnly(c)
  BY <1>1 DEF IInv, Shape, MovesOnly
<1> QED
  BY <1>2, OneCall

\* What Becomes does to a call.
LEMMA BecomesOnly ==
  ASSUME Shape, NEW c \in Call, NEW p \in Pcs, Becomes(c, p)
  PROVE  /\ call' = [call EXCEPT ![c] = [pc |-> p, chain |-> call[c].chain, at |-> call[c].at]]
         /\ call'[c] = [pc |-> p, chain |-> call[c].chain, at |-> call[c].at]
         /\ call[c].at \in Nat
<1>1. call[c] \in [pc : Pcs, chain : Seq(Model), at : Nat]
  BY DEF Shape
<1>2. [call[c] EXCEPT !.pc = p] = [pc |-> p, chain |-> call[c].chain, at |-> call[c].at]
  BY <1>1
<1>3. call' = [call EXCEPT ![c] = [call[c] EXCEPT !.pc = p]] /\ DOMAIN call = Call
  BY DEF Becomes, Shape
<1> QED
  BY <1>1, <1>2, <1>3

LEMMA EnterInv == ASSUME IInv, NEW c \in Call, Enter(c) PROVE IInv'
<1>1. Fine(c) /\ Shape /\ IsAt(c, "entering") /\ UNCHANGED <<index, read, records>>
  BY FineOf DEF Enter, IInv
<1>2. CASE ~SkipsBudget(c) /\ Becomes(c, "exceeded")
  <2>1. call'[c] = [pc |-> "exceeded", chain |-> call[c].chain, at |-> call[c].at]
    BY <1>1, <1>2, BecomesOnly DEF Pcs
  <2>2. Fine(c)'
    BY <1>1, <2>1 DEF Fine, IsAt, Before
  <2> QED
    BY <1>1, <1>2, <2>2, BecomesOnly, GoesInv DEF Pcs
<1>3. CASE Becomes(c, "executing")
  <2>1. call'[c] = [pc |-> "executing", chain |-> call[c].chain, at |-> call[c].at]
    BY <1>1, <1>3, BecomesOnly DEF Pcs
  <2>2. Fine(c)'
    BY <1>1, <2>1 DEF Fine, IsAt, Before
  <2> QED
    BY <1>1, <1>3, <2>2, BecomesOnly, GoesInv DEF Pcs
<1> QED
  BY <1>2, <1>3 DEF Enter

LEMMA CatchExceededInv == ASSUME IInv, NEW c \in Call, CatchExceeded(c) PROVE IInv'
<1>1. Fine(c) /\ Shape /\ IsAt(c, "exceeded") /\ UNCHANGED <<index, read, records>>
  BY FineOf DEF CatchExceeded, IInv
<1>2. call[c].at \in Nat /\ Len(call[c].chain) \in Nat /\ call[c].at >= 1
  BY <1>1 DEF Fine, Shape, IsAt
<1>3. CASE call[c].at < Len(call[c].chain)
  <2> DEFINE n == call[c].at + 1
  <2>1. n \in 1 .. Len(call[c].chain) /\ n \in Nat
    BY <1>2, <1>3
  <2>2. call' = [call EXCEPT ![c] = [pc |-> "entering", chain |-> call[c].chain, at |-> n]]
    BY <1>1, <1>3 DEF CatchExceeded, Shape
  <2> HIDE DEF n
  <2>3. call'[c] = [pc |-> "entering", chain |-> call[c].chain, at |-> n]
    BY <1>1, <2>2 DEF Shape
  <2>4. Fine(c)'
    BY <1>1, <2>1, <2>3 DEF Fine, IsAt, Before
  <2> QED
    BY <1>1, <2>1, <2>2, <2>4, GoesInv DEF Pcs
<1>4. CASE ~(call[c].at < Len(call[c].chain))
  <2>1. Becomes(c, "overBudget")
    BY <1>4 DEF CatchExceeded
  <2>2. call'[c] = [pc |-> "overBudget", chain |-> call[c].chain, at |-> call[c].at]
    BY <1>1, <2>1, BecomesOnly DEF Pcs
  <2>3. Fine(c)'
    BY <1>1, <2>2 DEF Fine, IsAt, Before
  <2> QED
    BY <1>1, <2>1, <2>3, BecomesOnly, GoesInv DEF Pcs
<1> QED
  BY <1>3, <1>4

LEMMA FailInv == ASSUME IInv, NEW c \in Call, Fail(c) PROVE IInv'
<1>1. Fine(c) /\ Shape /\ call[c].pc \in {"entering", "executing"} /\ Becomes(c, "failed")
      /\ UNCHANGED <<index, read, records>>
  BY FineOf DEF Fail, IInv, IsAt
<1>2. call'[c] = [pc |-> "failed", chain |-> call[c].chain, at |-> call[c].at]
  BY <1>1, BecomesOnly DEF Pcs
<1>3. Fine(c)'
  BY <1>1, <1>2 DEF Fine, IsAt, Before
<1> QED
  BY <1>1, <1>3, BecomesOnly, GoesInv DEF Pcs

LEMMA OpenInv == ASSUME IInv, NEW c \in Call, Open(c) PROVE IInv'
<1>1. Fine(c) /\ Shape /\ IsAt(c, "executing") /\ Becomes(c, "streaming")
      /\ UNCHANGED <<index, read, records>>
  BY FineOf DEF Open, IInv
<1>2. call'[c] = [pc |-> "streaming", chain |-> call[c].chain, at |-> call[c].at]
  BY <1>1, BecomesOnly DEF Pcs
<1>3. Fine(c)'
  BY <1>1, <1>2 DEF Fine, IsAt, Before
<1> QED
  BY <1>1, <1>3, BecomesOnly, GoesInv DEF Pcs

LEMMA BreakInv == ASSUME IInv, NEW c \in Call, Break(c) PROVE IInv'
<1>1. Fine(c) /\ Shape /\ IsAt(c, "streaming") /\ Becomes(c, "broken")
      /\ UNCHANGED <<index, read, records>>
  BY FineOf DEF Break, IInv
<1>2. call'[c] = [pc |-> "broken", chain |-> call[c].chain, at |-> call[c].at]
  BY <1>1, BecomesOnly DEF Pcs
<1>3. Fine(c)'
  BY <1>1, <1>2 DEF Fine, IsAt, Before
<1> QED
  BY <1>1, <1>3, BecomesOnly, GoesInv DEF Pcs

-----------------------------------------------------------------------------
(* The steps that record, and those that read a stream. *)

\* The counts a provider may tell, with 0 for one it does not, are numbers.
LEMMA CountIsNat ==
  ASSUME NEW c \in Call, NEW u \in Usage[c] \cup {Nothing}
  PROVE  /\ u \in Counts
         /\ Given(u).input \in Nat /\ Given(u).output \in Nat
         /\ Extracted(u).input \in Nat /\ Extracted(u).output \in Nat
<1>1. u \in Counts
  <2>1. Usage[c] \subseteq Counts
    BY AdaptersAssumption DEF Counts
  <2> QED
    BY <2>1 DEF Counts, Nothing
<1>2. Given(u).input \in Nat /\ Given(u).output \in Nat
  BY <1>1 DEF Counts, Given, Or
<1> QED
  BY <1>1, <1>2 DEF Extracted

LEMMA AnswerInv == ASSUME IInv, NEW c \in Call, Answer(c) PROVE IInv'
<1>1. Fine(c) /\ Shape /\ IsAt(c, "executing") /\ Becomes(c, "done") /\ UNCHANGED <<index, read>>
  BY FineOf DEF Answer, IInv
<1>2. PICK i \in Nat, o \in Nat : Record(c, i, o)
  BY CountIsNat DEF Answer
<1>3. /\ records' \in [Call -> Seq(Written)]
      /\ Len(records'[c]) = Len(records[c]) + 1
      /\ \A d \in Call \ {c} : records'[d] = records[d]
  BY <1>1, <1>2, RecordAppends DEF IsAt
<1>4. call' = [call EXCEPT ![c] = [pc |-> "done", chain |-> call[c].chain, at |-> call[c].at]]
      /\ call'[c] = [pc |-> "done", chain |-> call[c].chain, at |-> call[c].at]
  BY <1>1, BecomesOnly DEF Pcs
<1>5. Target[c].via # "raw" => Len(records[c]) = 0
  BY <1>1 DEF Fine, Before, IsAt
<1>6. Fine(c)'
  BY <1>1, <1>3, <1>4, <1>5 DEF Fine, IsAt, Before
<1>7. MovesOnly(c)
  BY <1>1, <1>3, <1>4 DEF MovesOnly, Shape, Pcs
<1> QED
  BY <1>6, <1>7, OneCall

LEMMA FinishInv == ASSUME IInv, NEW c \in Call, Finish(c) PROVE IInv'
<1>1. /\ Fine(c) /\ Shape /\ IsAt(c, "streaming") /\ Target[c].via # "raw"
      /\ ~read[c].usageRecorded /\ read' = [read EXCEPT ![c].usageRecorded = TRUE]
      /\ UNCHANGED <<index, call>>
  BY FineOf DEF Finish, OneFinish, IInv
<1>2. PICK u \in Usage[c] \cup {Nothing} : Record(c, Given(u).input, Given(u).output)
  BY DEF Finish
<1>3. /\ records' \in [Call -> Seq(Written)]
      /\ Len(records'[c]) = Len(records[c]) + 1
      /\ \A d \in Call \ {c} : records'[d] = records[d]
  BY <1>1, <1>2, CountIsNat, RecordAppends DEF IsAt
<1>4. read' \in [Call -> Reading] /\ read'[c].usageRecorded
      /\ \A d \in Call \ {c} : read'[d] = read[d]
  BY <1>1 DEF Shape, Reading
<1>5. Fine(c)'
  BY <1>1, <1>3, <1>4 DEF Fine, IsAt, Before
<1>6. MovesOnly(c)
  BY <1>1, <1>3, <1>4 DEF MovesOnly, Shape
<1> QED
  BY <1>5, <1>6, OneCall

LEMMA CloseInv == ASSUME IInv, NEW c \in Call, Close(c) PROVE IInv'
<1>1. /\ Fine(c) /\ Shape /\ IsAt(c, "streaming") /\ Target[c].via # "raw"
      /\ Becomes(c, "ended") /\ UNCHANGED <<index, read>>
  BY FineOf DEF Close, IInv
<1>2. call'[c] = [pc |-> "ended", chain |-> call[c].chain, at |-> call[c].at]
      /\ call' = [call EXCEPT ![c] = [pc |-> "ended", chain |-> call[c].chain, at |-> call[c].at]]
  BY <1>1, BecomesOnly DEF Pcs
<1>3. /\ records' \in [Call -> Seq(Written)]
      /\ Len(records'[c]) = 1
      /\ \A d \in Call \ {c} : records'[d] = records[d]
  <2>1. CASE read[c].usageRecorded
    <3>1. UNCHANGED records
      BY <2>1 DEF Close, FlushRecords
    <3> QED
      BY <1>1, <2>1, <3>1 DEF Fine, IsAt, Shape
  <2>2. CASE ~read[c].usageRecorded
    <3>1. Record(c, 0, 0)
      BY <2>2 DEF Close, FlushRecords
    <3>2. Len(records[c]) = 0
      BY <1>1, <2>2 DEF Fine, IsAt
    <3>3. /\ records' \in [Call -> Seq(Written)]
          /\ Len(records'[c]) = Len(records[c]) + 1
          /\ \A d \in Call \ {c} : records'[d] = records[d]
      BY <1>1, <3>1, RecordAppends DEF IsAt
    <3> QED
      BY <3>2, <3>3
  <2> QED
    BY <2>1, <2>2
<1>4. Fine(c)'
  BY <1>1, <1>2, <1>3 DEF Fine, IsAt, Before
<1>5. MovesOnly(c)
  BY <1>1, <1>2, <1>3 DEF MovesOnly, Shape, Pcs
<1> QED
  BY <1>4, <1>5, OneCall

\* What the proxy knows after a chunk, count by count.
LEMMA ReadAfterIs ==
  ASSUME NEW r \in Reading, NEW kind, NEW u \in Counts,
         Extracted(u).input \in Nat, Extracted(u).output \in Nat
  PROVE  /\ ReadAfter(r, kind, u) \in Reading
         /\ ReadAfter(r, kind, u).input =
              IF kind = "message_start" THEN Or(u.input, r.input)
              ELSE Seen(r.input, Extracted(u).input)
         /\ ReadAfter(r, kind, u).output =
              IF kind = "message_start" THEN r.output
              ELSE Seen(IF kind = "message_delta" THEN Or(u.output, r.output) ELSE r.output,
                        Extracted(u).output)
<1> DEFINE e == Extracted(u)
<1>1. e.input \in Nat /\ e.output \in Nat
  OBVIOUS
<1>2. Or(u.input, r.input) \in Nat /\ Or(u.output, r.output) \in Nat
  BY DEF Or, Counts, Reading
<1> HIDE DEF e
<1>3. CASE kind = "message_start"
  BY <1>2, <1>3 DEF ReadAfter, FromStart, Reading
<1>4. CASE kind = "message_delta"
  <2> DEFINE s == FromDelta(r, u)
  <2>1. s \in Reading /\ s.input = r.input /\ s.output = Or(u.output, r.output)
    BY <1>2 DEF FromDelta, Reading
  <2>2. ReadAfter(r, kind, u) = [s EXCEPT !.input = Seen(s.input, e.input),
                                         !.output = Seen(s.output, e.output)]
    BY <1>4 DEF ReadAfter, FromUsage, e
  <2> HIDE DEF s
  <2> QED
    BY <1>1, <1>4, <2>1, <2>2 DEF Reading, Seen, e
<1>5. CASE kind # "message_start" /\ kind # "message_delta"
  <2>1. ReadAfter(r, kind, u) = [r EXCEPT !.input = Seen(r.input, e.input),
                                         !.output = Seen(r.output, e.output)]
    BY <1>5 DEF ReadAfter, FromUsage, e
  <2> QED
    BY <1>1, <1>5, <2>1 DEF Reading, Seen, e
<1> QED
  BY <1>3, <1>4, <1>5

LEMMA ChunkInv == ASSUME IInv, NEW c \in Call, Chunk(c) PROVE IInv'
<1>1. /\ Fine(c) /\ Shape /\ IsAt(c, "streaming") /\ Target[c].via = "raw"
      /\ UNCHANGED <<index, call, records>>
  BY FineOf DEF Chunk, IInv
<1>2. PICK kind \in Kind, u \in Usage[c] : read' = [read EXCEPT ![c] = ReadAfter(@, kind, u)]
  BY DEF Chunk
<1>3. read' \in [Call -> Reading] /\ \A d \in Call \ {c} : read'[d] = read[d]
  <2>1. read[c] \in Reading /\ read \in [Call -> Reading]
    BY <1>1 DEF Shape
  <2>2. ReadAfter(read[c], kind, u) \in Reading
    BY <2>1, CountIsNat, ReadAfterIs
  <2> QED
    BY <1>2, <2>1, <2>2
<1>4. Fine(c)'
  BY <1>1 DEF Fine, IsAt
<1>5. MovesOnly(c)
  BY <1>1, <1>3 DEF MovesOnly, Shape
<1> QED
  BY <1>4, <1>5, OneCall

LEMMA DoneInv == ASSUME IInv, NEW c \in Call, Done(c) PROVE IInv'
<1>1. /\ Fine(c) /\ Shape /\ ~IsAt(c, "idle") /\ Target[c].via = "raw"
      /\ Becomes(c, "ended") /\ UNCHANGED <<index, read>>
  BY FineOf DEF Done, IInv, IsAt
<1>2. call'[c] = [pc |-> "ended", chain |-> call[c].chain, at |-> call[c].at]
      /\ call' = [call EXCEPT ![c] = [pc |-> "ended", chain |-> call[c].chain, at |-> call[c].at]]
  BY <1>1, BecomesOnly DEF Pcs
<1>3. read[c].input \in Nat /\ read[c].output \in Nat /\ Record(c, read[c].input, read[c].output)
  BY <1>1 DEF Shape, Reading, Done
<1>4. /\ records' \in [Call -> Seq(Written)]
      /\ \A d \in Call \ {c} : records'[d] = records[d]
  BY <1>1, <1>3, RecordAppends
<1>5. Fine(c)'
  BY <1>1, <1>2 DEF Fine, IsAt
<1>6. MovesOnly(c)
  BY <1>1, <1>2, <1>4 DEF MovesOnly, Shape, Pcs
<1> QED
  BY <1>5, <1>6, OneCall

-----------------------------------------------------------------------------
(* The theorems. *)

LEMMA NextInv == ASSUME IInv, [Next]_vars PROVE IInv'
<1>1. CASE UNCHANGED vars
  BY <1>1 DEF IInv, Shape, UsageInv, IsAt, vars
<1>2. CASE Age
  BY <1>2 DEF IInv, Shape, UsageInv, IsAt, Age
<1>3. ASSUME NEW c \in Call, Step(c) PROVE IInv'
  BY <1>3, StartInv, EnterInv, CatchExceededInv, FailInv, AnswerInv, OpenInv, FinishInv, CloseInv,
     ChunkInv, DoneInv, BreakInv DEF Step
<1> QED
  BY <1>1, <1>2, <1>3 DEF Next

LEMMA Invariance == Spec => []IInv
<1>1. Init => IInv
  BY InitInv
<1>2. IInv /\ [Next]_vars => IInv'
  BY NextInv
<1> QED
  BY <1>1, <1>2, PTL DEF Spec

\* A call of a wrapped model is recorded exactly once if it runs to its end, and never if it is
\* refused or fails: however wrapGenerate, transform, flush and cancels of any calls interleave.
THEOREM AdaptersRecordedOnce == Spec => []RecordedOnce
<1>1. IInv => RecordedOnce
  <2> SUFFICES ASSUME IInv, NEW c \in Call, Target[c].via # "raw"
               PROVE  /\ call[c].pc \in {"done", "ended"} => Len(records[c]) = 1
                      /\ call[c].pc \notin {"done", "ended", "streaming", "broken"} =>
                           records[c] = <<>>
                      /\ Len(records[c]) <= 1
    BY DEF RecordedOnce
  <2>1. Fine(c) /\ call[c].pc \in Pcs
    BY FineOf DEF IInv, Shape
  <2>2. CASE call[c].pc \in Before
    <3>1. records[c] = <<>>
      BY <2>1, <2>2 DEF Fine
    <3> QED
      BY <2>2, <3>1 DEF Before
  <2>3. CASE call[c].pc \in {"streaming", "broken", "done", "ended"}
    <3>1. Len(records[c]) = 0 \/ Len(records[c]) = 1
      BY <2>1, <2>3 DEF Fine
    <3>2. Len(records[c]) <= 1
      <4> DEFINE n == Len(records[c])
      <4> HIDE DEF n
      <4>1. n = 0 \/ n = 1
        BY <3>1 DEF n
      <4>2. n <= 1
        BY ONLY <4>1
      <4> QED
        BY <4>2 DEF n
    <3>3. call[c].pc \in {"done", "ended"} => Len(records[c]) = 1
      BY <2>1 DEF Fine
    <3> QED
      BY <2>3, <3>2, <3>3
  <2> QED
    BY <2>1, <2>2, <2>3 DEF Pcs, Before
<1> QED
  BY <1>1, Invariance, PTL

-----------------------------------------------------------------------------
(* What was recorded, under which key, and the limits told. *)

Served == {"executing", "streaming", "broken", "done", "ended"}
ToldType ==
  [counts : [Call -> Counts], usual : [Call -> BOOLEAN], limits : [Model -> Rpm \cup {Undefined}]]

\* The types of the history.
History ==
  /\ acquired = [c \in Call |-> acquired[c]]
  /\ told \in ToldType

\* The key of a call and of all it recorded is that of its slot.
KeyFine(c) ==
  /\ call[c].pc \notin Served => records[c] = <<>>
  /\ call[c].pc \in Served => acquired[c].key = Key(c)
  /\ call[c].pc \in Served => \A i \in DOMAIN records[c] : records[c][i].key = Key(c)

\* e tells counts, with 0 for one that was never told.
Tells(e, counts) == e.input = Or(counts.input, 0) /\ e.output = Or(counts.output, 0)

\* A stream has recorded what was told of it the usual way; the proxy keeps what was told until
\* its end, a wrapped stream is told once.
TotalsFine(c) == call[c].pc # "done" =>
  /\ call[c].pc \notin {"ended", "broken", "streaming"} => records[c] = <<>>
  /\ told.usual[c] => \A i \in DOMAIN records[c] : Tells(records[c][i], told.counts[c])
  /\ Target[c].via = "raw" /\ told.usual[c] => Tells(read[c], told.counts[c])
  /\ Target[c].via = "raw" /\ call[c].pc = "streaming" => records[c] = <<>>
  /\ Target[c].via # "raw" /\ ~read[c].usageRecorded => told.counts[c] = Nothing

\* What was detected is what was told.
LimitsKnown == detected = told.limits

Told == History /\ LimitsKnown /\ \A c \in Call : KeyFine(c) /\ TotalsFine(c)

\* A step of call c leaves alone what the others did.
OthersStay(c) ==
  \A d \in Call \ {c} : /\ call'[d] = call[d] /\ read'[d] = read[d] /\ records'[d] = records[d]
                        /\ acquired'[d] = acquired[d] /\ told'.counts[d] = told.counts[d]
                        /\ told'.usual[d] = told.usual[d]

LEMMA OneCallTold ==
  ASSUME Told, NEW c \in Call, OthersStay(c), History', LimitsKnown', KeyFine(c)', TotalsFine(c)'
  PROVE  Told'
<1> SUFFICES ASSUME NEW d \in Call, d # c PROVE KeyFine(d)' /\ TotalsFine(d)'
  BY DEF Told
<1>1. KeyFine(d) /\ TotalsFine(d)
  BY DEF Told
<1>2. /\ call'[d] = call[d] /\ read'[d] = read[d] /\ records'[d] = records[d]
      /\ acquired'[d] = acquired[d] /\ told'.counts[d] = told.counts[d]
      /\ told'.usual[d] = told.usual[d]
  BY DEF OthersStay
<1> QED
  BY <1>1, <1>2 DEF KeyFine, TotalsFine, Key, ModelOf

\* recordUsage adds one entry, under the key of the call.
LEMMA RecordAdds ==
  ASSUME Shape, NEW c \in Call, NEW i, NEW o, Record(c, i, o)
  PROVE  /\ \A d \in Call \ {c} : records'[d] = records[d]
         /\ \A k \in DOMAIN records'[c] :
              \/ k \in DOMAIN records[c] /\ records'[c][k] = records[c][k]
              \/ records'[c][k] = [key |-> Key(c), input |-> i, output |-> o]
<1> DEFINE e == [key |-> Key(c), input |-> i, output |-> o]
<1>1. records[c] \in Seq(Written) /\ records \in [Call -> Seq(Written)]
  BY DEF Shape
<1>2. records' = [records EXCEPT ![c] = Append(records[c], e)]
  BY DEF Record
<1> HIDE DEF e
<1>3. records'[c] = Append(records[c], e) /\ \A d \in Call \ {c} : records'[d] = records[d]
  BY <1>1, <1>2
<1>4. \A k \in DOMAIN records'[c] :
        \/ k \in DOMAIN records[c] /\ records'[c][k] = records[c][k]
        \/ records'[c][k] = e
  BY <1>1, <1>3
<1> QED
  BY <1>3, <1>4 DEF e

\* Steps that only take a call to another place, before it has been served.
LEMMA GoesTold ==
  ASSUME Told, Shape, Shape', NEW c \in Call, call[c].pc \notin Served, call'[c].pc \notin Served,
         \A d \in Call \ {c} : call'[d] = call[d],
         UNCHANGED <<read, records, detected, acquired, told>>
  PROVE  Told'
<1>1. records[c] = <<>>
  BY DEF Told, KeyFine
<1>2. KeyFine(c)'
  BY <1>1 DEF KeyFine
<1>3. TotalsFine(c)'
  BY <1>1 DEF Told, TotalsFine, Served
<1>4. OthersStay(c) /\ History' /\ LimitsKnown'
  BY DEF OthersStay, Told, History, LimitsKnown
<1> QED
  BY <1>2, <1>3, <1>4, OneCallTold

LEMMA EnterTold == ASSUME Told, Shape, Shape', NEW c \in Call, Enter(c) PROVE Told'
<1>1. /\ call[c].pc = "entering" /\ call[c].pc \notin Served
      /\ UNCHANGED <<read, records, detected, told>>
  BY DEF Enter, IsAt, Served
<1>2. CASE Becomes(c, "exceeded") /\ UNCHANGED acquired
  <2>1. call'[c].pc \notin Served /\ \A d \in Call \ {c} : call'[d] = call[d]
    BY <1>2, BecomesOnly DEF Pcs, Served, Becomes, Shape
  <2> QED
    BY <1>1, <1>2, <2>1, GoesTold
<1>3. CASE /\ Becomes(c, "executing")
           /\ acquired' = [acquired EXCEPT ![c] = [key |-> Key(c), rpm |-> RpmFor(c)]]
  <2>1. call'[c] = [pc |-> "executing", chain |-> call[c].chain, at |-> call[c].at]
        /\ \A d \in Call \ {c} : call'[d] = call[d]
    BY <1>3, BecomesOnly DEF Pcs, Becomes, Shape
  <2>2. acquired = [d \in Call |-> acquired[d]] /\ records[c] = <<>>
    BY <1>1 DEF Told, History, KeyFine
  <2>3. acquired'[c].key = Key(c) /\ \A d \in Call \ {c} : acquired'[d] = acquired[d]
    BY <1>3, <2>2
  <2>4. acquired' = [d \in Call |-> acquired'[d]]
    BY <1>3, <2>2
  <2>5. Key(c)' = Key(c)
    BY <2>1 DEF Key, ModelOf, ScopeOf
  <2>6. KeyFine(c)'
    BY <1>1, <2>1, <2>2, <2>3, <2>5 DEF KeyFine, Served
  <2>7. TotalsFine(c)'
    BY <1>1, <2>1, <2>2 DEF Told, TotalsFine
  <2>8. OthersStay(c) /\ History' /\ LimitsKnown'
    BY <1>1, <2>1, <2>3, <2>4 DEF OthersStay, Told, History, LimitsKnown
  <2> QED
    BY <2>6, <2>7, <2>8, OneCallTold
<1> QED
  BY <1>2, <1>3 DEF Enter

LEMMA StartTold == ASSUME Told, Shape, Shape', NEW c \in Call, Start(c) PROVE Told'
<1>1. /\ call[c].pc = "idle" /\ UNCHANGED <<read, records, detected, acquired, told>>
      /\ \E chain : Started(c, chain)
  BY DEF Start, StartWrapped, StartPooled, StartRaw, IsAt
<1>2. call'[c].pc = "entering" /\ \A d \in Call \ {c} : call'[d] = call[d]
  BY <1>1 DEF Started, Shape
<1> QED
  BY <1>1, <1>2, GoesTold DEF Served

LEMMA CatchExceededTold ==
  ASSUME Told, Shape, Shape', NEW c \in Call, CatchExceeded(c) PROVE Told'
<1>1. call[c].pc = "exceeded" /\ UNCHANGED <<read, records, detected, acquired, told>>
  BY DEF CatchExceeded, IsAt
<1>2. call'[c].pc \in {"entering", "overBudget"} /\ \A d \in Call \ {c} : call'[d] = call[d]
  BY DEF CatchExceeded, Becomes, Shape
<1> QED
  BY <1>1, <1>2, GoesTold DEF Served

\* A call that was served goes on to p without recording.
LEMMA ServedGoesTold ==
  ASSUME Told, Shape, NEW c \in Call, NEW p \in Pcs, call[c].pc \in {"executing", "streaming"},
         p \in {"failed", "streaming", "broken"}, Becomes(c, p),
         call[c].pc = "executing" \/ p = "broken",
         UNCHANGED <<read, records, detected, acquired, told>>,
         call[c].pc = "executing" => records[c] = <<>>
  PROVE  Told'
<1>1. /\ call'[c] = [pc |-> p, chain |-> call[c].chain, at |-> call[c].at]
      /\ \A d \in Call \ {c} : call'[d] = call[d]
  BY BecomesOnly DEF Becomes, Shape
<1>2. Key(c)' = Key(c)
  BY <1>1 DEF Key, ModelOf, ScopeOf
<1>3. KeyFine(c)'
  BY <1>1, <1>2 DEF Told, KeyFine, Served
<1>4. TotalsFine(c)'
  BY <1>1 DEF Told, TotalsFine
<1>5. OthersStay(c) /\ History' /\ LimitsKnown'
  BY <1>1 DEF OthersStay, Told, History, LimitsKnown
<1> QED
  BY <1>3, <1>4, <1>5, OneCallTold

\* Nothing is recorded while a call executes.
LEMMA NoneWhileExecuting ==
  ASSUME Told, NEW c \in Call, call[c].pc = "executing"
  PROVE  records[c] = <<>>
BY DEF Told, TotalsFine

LEMMA FailTold == ASSUME Told, Shape, Shape', NEW c \in Call, Fail(c) PROVE Told'
<1>1. /\ Becomes(c, "failed") /\ UNCHANGED <<read, records, detected, acquired, told>>
      /\ call[c].pc \in {"entering", "executing"}
  BY DEF Fail, IsAt
<1>2. CASE call[c].pc = "executing"
  BY <1>1, <1>2, NoneWhileExecuting, ServedGoesTold DEF Pcs
<1>3. CASE call[c].pc = "entering"
  <2>1. call'[c].pc = "failed" /\ \A d \in Call \ {c} : call'[d] = call[d]
    BY <1>1 DEF Becomes, Shape
  <2> QED
    BY <1>1, <1>3, <2>1, GoesTold DEF Served
<1> QED
  BY <1>1, <1>2, <1>3

LEMMA OpenTold == ASSUME Told, Shape, NEW c \in Call, Open(c) PROVE Told'
BY NoneWhileExecuting, ServedGoesTold DEF Open, IsAt, Pcs

LEMMA BreakTold == ASSUME Told, Shape, NEW c \in Call, Break(c) PROVE Told'
BY ServedGoesTold DEF Break, IsAt, Pcs

\* A complete response.
LEMMA AnswerTold == ASSUME Told, Shape, NEW c \in Call, Answer(c) PROVE Told'
<1>1. /\ call[c].pc = "executing" /\ Becomes(c, "done") /\ UNCHANGED <<read, acquired>>
      /\ \E h \in Headers : ReadHeaders(c, h)
      /\ \E i, o : Record(c, i, o)
  BY DEF Answer, IsAt
<1>2. /\ call'[c] = [pc |-> "done", chain |-> call[c].chain, at |-> call[c].at]
      /\ \A d \in Call \ {c} : call'[d] = call[d]
  BY <1>1, BecomesOnly DEF Pcs, Becomes, Shape
<1>3. Key(c)' = Key(c)
  BY <1>2 DEF Key, ModelOf, ScopeOf
<1>4. /\ \A d \in Call \ {c} : records'[d] = records[d]
      /\ \A k \in DOMAIN records'[c] : records'[c][k].key = Key(c)
  <2>1. PICK i, o : Record(c, i, o)
    BY <1>1
  <2>2. \A k \in DOMAIN records[c] : records[c][k].key = Key(c)
    BY <1>1 DEF Told, KeyFine, Served
  <2>3. /\ \A d \in Call \ {c} : records'[d] = records[d]
        /\ \A k \in DOMAIN records'[c] :
             \/ k \in DOMAIN records[c] /\ records'[c][k] = records[c][k]
             \/ records'[c][k] = [key |-> Key(c), input |-> i, output |-> o]
    BY <2>1, RecordAdds
  <2> QED
    BY <2>2, <2>3
<1>5. KeyFine(c)'
  BY <1>1, <1>2, <1>3, <1>4 DEF Told, KeyFine, Served
<1>6. TotalsFine(c)'
  BY <1>2 DEF TotalsFine
<1>7. History' /\ LimitsKnown' /\ told'.counts = told.counts /\ told'.usual = told.usual
  <2>1. PICK h \in Headers : ReadHeaders(c, h)
    BY <1>1
  <2>2. /\ told \in ToldType
        /\ detected = told.limits /\ acquired' = acquired
        /\ acquired = [d \in Call |-> acquired[d]]
    BY <1>1 DEF Told, History, LimitsKnown
  <2>3. CASE Target[c].via = "raw"
    BY <2>1, <2>2, <2>3 DEF ReadHeaders, History, LimitsKnown
  <2>4. CASE Target[c].via # "raw"
    <3> DEFINE m == ModelOf(c)
    <3>1. m \in Model
      <4>1. ~IsAt(c, "idle")
        BY <1>1 DEF IsAt
      <4> QED
        BY <4>1 DEF Shape, ModelOf
    <3>2. /\ detected' = [detected EXCEPT ![m] = Merged(detected[m], h)]
          /\ told' = [told EXCEPT !.limits[m] = IF h \in Rpm THEN h ELSE told.limits[m]]
      BY <2>1, <2>4 DEF ReadHeaders
    <3>3. Merged(detected[m], h) = IF h \in Rpm THEN h ELSE told.limits[m]
      BY <2>2, AdaptersAssumption DEF Merged, Or, Headers
    <3>4. (IF h \in Rpm THEN h ELSE told.limits[m]) \in Rpm \cup {Undefined}
      BY <2>2, <3>1 DEF Headers, ToldType
    <3> HIDE DEF m
    <3>5. /\ told'.limits = [told.limits EXCEPT ![m] = IF h \in Rpm THEN h ELSE told.limits[m]]
          /\ told'.counts = told.counts /\ told'.usual = told.usual
          /\ told' \in ToldType
      BY <2>2, <3>1, <3>2, <3>4 DEF ToldType
    <3> QED
      BY <2>2, <3>2, <3>3, <3>5 DEF History, LimitsKnown
  <2> QED
    BY <2>3, <2>4
<1>8. OthersStay(c)
  BY <1>1, <1>2, <1>4, <1>7 DEF OthersStay
<1> QED
  BY <1>5, <1>6, <1>7, <1>8, OneCallTold

-----------------------------------------------------------------------------
(* Streams. *)

\* A step that records one entry of call c, which it may take to p, keeps the keys.
LEMMA RecordedKeyFine ==
  ASSUME Told, Shape, NEW c \in Call, NEW i, NEW o, Record(c, i, o),
         call[c].pc \in Served, call'[c].pc \in Served, Key(c)' = Key(c), UNCHANGED acquired
  PROVE  KeyFine(c)'
<1>1. \A k \in DOMAIN records[c] : records[c][k].key = Key(c)
  BY DEF Told, KeyFine
<1>2. \A k \in DOMAIN records'[c] :
        \/ k \in DOMAIN records[c] /\ records'[c][k] = records[c][k]
        \/ records'[c][k] = [key |-> Key(c), input |-> i, output |-> o]
  BY RecordAdds
<1>3. \A k \in DOMAIN records'[c] : records'[c][k].key = Key(c)
  BY <1>1, <1>2
<1>4. acquired[c].key = Key(c)
  BY DEF Told, KeyFine
<1> QED
  BY <1>3, <1>4 DEF KeyFine

LEMMA FinishTold == ASSUME Told, Shape, UsageInv, NEW c \in Call, Finish(c) PROVE Told'
<1>1. /\ call[c].pc = "streaming" /\ Target[c].via # "raw" /\ ~read[c].usageRecorded
      /\ read' = [read EXCEPT ![c].usageRecorded = TRUE]
      /\ UNCHANGED <<call, detected, acquired>>
  BY DEF Finish, OneFinish, IsAt
<1>2. PICK u \in Usage[c] \cup {Nothing} :
        /\ Record(c, Or(u.input, 0), Or(u.output, 0))
        /\ told' = [told EXCEPT !.counts[c] = u]
  BY DEF Finish, Given
<1>3. told \in ToldType
      /\ u \in Counts /\ acquired = [d \in Call |-> acquired[d]] /\ detected = told.limits
  BY CountIsNat DEF Told, History, LimitsKnown
<1>4. /\ told' \in ToldType
      /\ told'.counts[c] = u /\ told'.limits = told.limits /\ told'.usual = told.usual
      /\ \A d \in Call \ {c} : told'.counts[d] = told.counts[d]
  BY <1>2, <1>3 DEF ToldType
<1>5. Key(c)' = Key(c)
  BY <1>1 DEF Key, ModelOf, ScopeOf
<1>6. KeyFine(c)'
  BY <1>1, <1>2, <1>5, RecordedKeyFine DEF Served
<1>7. records[c] = <<>>
  <2>1. Len(records[c]) = 0 /\ records[c] \in Seq(Written)
    BY <1>1 DEF UsageInv, Shape
  <2> QED
    BY <2>1
<1>8. \A k \in DOMAIN records'[c] :
        records'[c][k] = [key |-> Key(c), input |-> Or(u.input, 0), output |-> Or(u.output, 0)]
  BY <1>2, <1>7, RecordAdds
<1>9. read'[c].usageRecorded /\ \A d \in Call \ {c} : read'[d] = read[d]
  BY <1>1 DEF Shape, Reading
<1>10. TotalsFine(c)'
  BY <1>1, <1>4, <1>8, <1>9 DEF TotalsFine, Tells
<1>11. OthersStay(c)
  BY <1>1, <1>2, <1>4, <1>9, RecordAdds DEF OthersStay
<1>12. History' /\ LimitsKnown'
  BY <1>1, <1>3, <1>4 DEF History, LimitsKnown
<1> QED
  BY <1>6, <1>10, <1>11, <1>12, OneCallTold

LEMMA CloseTold == ASSUME Told, Shape, UsageInv, NEW c \in Call, Close(c) PROVE Told'
<1>1. /\ call[c].pc = "streaming" /\ Target[c].via # "raw" /\ Becomes(c, "ended")
      /\ UNCHANGED <<read, detected, acquired, told>>
  BY DEF Close, IsAt
<1>2. /\ call'[c] = [pc |-> "ended", chain |-> call[c].chain, at |-> call[c].at]
      /\ \A d \in Call \ {c} : call'[d] = call[d]
  BY <1>1, BecomesOnly DEF Pcs, Becomes, Shape
<1>3. Key(c)' = Key(c)
  BY <1>2 DEF Key, ModelOf, ScopeOf
<1>4. History' /\ LimitsKnown'
  BY <1>1 DEF Told, History, LimitsKnown
<1>5. CASE UNCHANGED records
  <2>1. KeyFine(c)'
    BY <1>1, <1>2, <1>3, <1>5 DEF Told, KeyFine, Served
  <2>2. TotalsFine(c)'
    BY <1>1, <1>2, <1>5 DEF Told, TotalsFine
  <2>3. OthersStay(c)
    BY <1>1, <1>2, <1>5 DEF OthersStay
  <2> QED
    BY <1>4, <2>1, <2>2, <2>3, OneCallTold
<1>6. CASE ~read[c].usageRecorded /\ Record(c, 0, 0)
  <2>1. KeyFine(c)'
    BY <1>1, <1>2, <1>3, <1>6, RecordedKeyFine DEF Served
  <2>2. records[c] = <<>>
    <3>1. Len(records[c]) = 0 /\ records[c] \in Seq(Written)
      BY <1>1, <1>6 DEF UsageInv, Shape
    <3> QED
      BY <3>1
  <2>3. told.counts[c] = Nothing
    BY <1>1, <1>6 DEF Told, TotalsFine
  <2>4. \A k \in DOMAIN records'[c] :
          records'[c][k] = [key |-> Key(c), input |-> 0, output |-> 0]
    BY <1>6, <2>2, RecordAdds
  <2>5. TotalsFine(c)'
    BY <1>1, <1>2, <2>3, <2>4 DEF TotalsFine, Tells, Nothing, Or
  <2>6. OthersStay(c)
    BY <1>1, <1>2, <1>6, RecordAdds DEF OthersStay
  <2> QED
    BY <1>4, <2>1, <2>5, <2>6, OneCallTold
<1> QED
  BY <1>5, <1>6 DEF Close, FlushRecords

\* A chunk that tells counts the usual way leaves the proxy with the counts last told.
LEMMA UsualChunkTells ==
  ASSUME NEW r \in Reading, NEW counts \in Counts, NEW kind \in Kind, NEW u \in Counts,
         Extracted(u).input \in Nat, Extracted(u).output \in Nat,
         Tells(r, counts), Usual(counts, kind, u)
  PROVE  Tells(ReadAfter(r, kind, u), ToldAfter(counts, kind, u))
<1> DEFINE new == ReadAfter(r, kind, u)
<1>1. /\ r.input = Or(counts.input, 0) /\ r.output = Or(counts.output, 0)
      /\ Undefined \notin Nat /\ r.input \in Nat /\ r.output \in Nat
      /\ u.input \in Nat \cup {Undefined} /\ u.output \in Nat \cup {Undefined}
  BY AdaptersAssumption DEF Tells, Reading, Counts
<1>2. /\ new.input = IF kind = "message_start" THEN Or(u.input, r.input)
                     ELSE Seen(r.input, Extracted(u).input)
      /\ new.output = IF kind = "message_start" THEN r.output
           ELSE Seen(IF kind = "message_delta" THEN Or(u.output, r.output) ELSE r.output,
                     Extracted(u).output)
  BY ReadAfterIs
<1> HIDE DEF new
<1>3. Extracted(u).input = Or(u.input, 0)
      /\ Extracted(u).output = IF u.input = Undefined THEN 0 ELSE Or(u.output, 0)
  BY DEF Extracted, Given, Or
<1>4. new.input = Or(Or(u.input, counts.input), 0)
  BY <1>1, <1>2, <1>3 DEF Usual, Or, Seen
<1>5. new.output = Or(IF kind = "message_start" THEN counts.output
                      ELSE Or(u.output, counts.output), 0)
  <2>1. CASE kind = "message_start"
    BY <1>1, <1>2, <2>1
  <2>2. CASE kind = "message_delta"
    BY <1>1, <1>2, <1>3, <2>2 DEF Or, Seen
  <2>3. CASE kind = "other"
    BY <1>1, <1>2, <1>3, <2>3 DEF Usual, Or, Seen
  <2> QED
    BY <2>1, <2>2, <2>3 DEF Kind
<1> QED
  BY <1>4, <1>5 DEF Tells, ToldAfter, new

LEMMA ChunkTold == ASSUME Told, Shape, NEW c \in Call, Chunk(c) PROVE Told'
<1>1. /\ call[c].pc = "streaming" /\ Target[c].via = "raw"
      /\ UNCHANGED <<call, records, detected, acquired>>
  BY DEF Chunk, IsAt
<1>2. PICK kind \in Kind, u \in Usage[c] :
        /\ read' = [read EXCEPT ![c] = ReadAfter(@, kind, u)]
        /\ told' = IF told.usual[c] /\ Usual(told.counts[c], kind, u)
                   THEN [told EXCEPT !.counts[c] = ToldAfter(@, kind, u)]
                   ELSE [told EXCEPT !.counts[c] = Nothing, !.usual[c] = FALSE]
  BY DEF Chunk
<1>3. /\ told \in ToldType
      /\ acquired = [d \in Call |-> acquired[d]] /\ detected = told.limits
      /\ records[c] = <<>>
      /\ told.usual[c] => Tells(read[c], told.counts[c])
  BY <1>1 DEF Told, History, LimitsKnown, TotalsFine
<1>4. /\ u \in Counts /\ Extracted(u).input \in Nat /\ Extracted(u).output \in Nat
      /\ told.counts[c] \in Counts /\ read[c] \in Reading /\ read \in [Call -> Reading]
  BY <1>3, CountIsNat DEF ToldType, Shape
<1>5. /\ told' \in ToldType /\ told'.limits = told.limits
      /\ \A d \in Call \ {c} : told'.counts[d] = told.counts[d] /\ told'.usual[d] = told.usual[d]
      /\ told'.usual[c] => /\ told.usual[c] /\ Usual(told.counts[c], kind, u)
                          /\ told'.counts[c] = ToldAfter(told.counts[c], kind, u)
  <2> DEFINE e == ToldAfter(told.counts[c], kind, u)
  <2>1. e \in Counts /\ Nothing \in Counts
    BY <1>4 DEF ToldAfter, Counts, Or, Nothing
  <2>2. told' = IF told.usual[c] /\ Usual(told.counts[c], kind, u)
                THEN [told EXCEPT !.counts[c] = e]
                ELSE [told EXCEPT !.counts[c] = Nothing, !.usual[c] = FALSE]
    BY <1>2
  <2> HIDE DEF e
  <2>3. CASE told.usual[c] /\ Usual(told.counts[c], kind, u)
    <3>1. told' = [told EXCEPT !.counts[c] = e]
      BY <2>2, <2>3
    <3>2. /\ told' \in ToldType /\ told'.limits = told.limits /\ told'.counts[c] = e
          /\ \A d \in Call \ {c} :
               told'.counts[d] = told.counts[d] /\ told'.usual[d] = told.usual[d]
      BY <1>3, <2>1, <3>1 DEF ToldType
    <3> QED
      BY <2>3, <3>2 DEF e
  <2>4. CASE ~(told.usual[c] /\ Usual(told.counts[c], kind, u))
    <3>1. told' = [told EXCEPT !.counts[c] = Nothing, !.usual[c] = FALSE]
      BY <2>2, <2>4
    <3> QED
      BY <1>3, <2>1, <3>1 DEF ToldType
  <2> QED
    BY <2>3, <2>4
<1>6. read'[c] = ReadAfter(read[c], kind, u) /\ \A d \in Call \ {c} : read'[d] = read[d]
  BY <1>2, <1>4
<1>7. told'.usual[c] => Tells(read'[c], told'.counts[c])
  <2>1. SUFFICES ASSUME told'.usual[c]
                 PROVE  Tells(ReadAfter(read[c], kind, u), ToldAfter(told.counts[c], kind, u))
    BY <1>5, <1>6
  <2>2. Usual(told.counts[c], kind, u) /\ Tells(read[c], told.counts[c])
    BY <1>3, <1>5, <2>1
  <2> QED
    BY <1>4, <2>2, UsualChunkTells
<1>8. KeyFine(c)'
  BY <1>1 DEF Told, KeyFine, Key, ModelOf
<1>9. TotalsFine(c)'
  BY <1>1, <1>3, <1>7 DEF TotalsFine
<1>10. OthersStay(c)
  BY <1>1, <1>5, <1>6 DEF OthersStay
<1>11. History' /\ LimitsKnown'
  BY <1>1, <1>3, <1>5 DEF History, LimitsKnown
<1> QED
  BY <1>8, <1>9, <1>10, <1>11, OneCallTold

LEMMA DoneTold == ASSUME Told, Shape, NEW c \in Call, Done(c) PROVE Told'
<1>1. /\ call[c].pc \in {"streaming", "ended", "broken"} /\ Target[c].via = "raw"
      /\ Becomes(c, "ended") /\ Record(c, read[c].input, read[c].output)
      /\ UNCHANGED <<read, detected, acquired, told>>
  BY DEF Done
<1>2. /\ call'[c] = [pc |-> "ended", chain |-> call[c].chain, at |-> call[c].at]
      /\ \A d \in Call \ {c} : call'[d] = call[d]
  BY <1>1, BecomesOnly DEF Pcs, Becomes, Shape
<1>3. Key(c)' = Key(c)
  BY <1>2 DEF Key, ModelOf, ScopeOf
<1>4. KeyFine(c)'
  BY <1>1, <1>2, <1>3, RecordedKeyFine DEF Served
<1>5. told.usual[c] =>
        /\ Tells(read[c], told.counts[c])
        /\ \A k \in DOMAIN records[c] : Tells(records[c][k], told.counts[c])
  BY <1>1 DEF Told, TotalsFine
<1>6. /\ \A d \in Call \ {c} : records'[d] = records[d]
      /\ \A k \in DOMAIN records'[c] :
           \/ k \in DOMAIN records[c] /\ records'[c][k] = records[c][k]
           \/ records'[c][k] = [key |-> Key(c), input |-> read[c].input,
                                output |-> read[c].output]
  BY <1>1, RecordAdds
<1>7. told.usual[c] => \A k \in DOMAIN records'[c] : Tells(records'[c][k], told.counts[c])
  BY <1>5, <1>6 DEF Tells
<1>8. TotalsFine(c)'
  BY <1>1, <1>2, <1>5, <1>7 DEF TotalsFine
<1>9. OthersStay(c)
  BY <1>1, <1>2, <1>6 DEF OthersStay
<1>10. History' /\ LimitsKnown'
  BY <1>1 DEF Told, History, LimitsKnown
<1> QED
  BY <1>4, <1>8, <1>9, <1>10, OneCallTold

LEMMA InitTold == ASSUME Init PROVE Told
<1>1. History
  BY DEF Init, History, ToldType, Counts, Nothing
<1>2. LimitsKnown
  BY DEF Init, LimitsKnown
<1>3. ASSUME NEW c \in Call PROVE KeyFine(c) /\ TotalsFine(c)
  BY DEF Init, KeyFine, TotalsFine, Tells, Served, Nothing, Or
<1> QED
  BY <1>1, <1>2, <1>3 DEF Told

LEMMA NextTold == ASSUME IInv, IInv', Told, [Next]_vars PROVE Told'
<1>1. Shape /\ Shape' /\ UsageInv
  BY DEF IInv
<1>2. CASE UNCHANGED vars \/ Age
  <2>1. UNCHANGED <<call, read, records, detected, acquired, told>>
    BY <1>2 DEF Age, vars
  <2> QED
    BY <2>1 DEF Told, History, LimitsKnown, KeyFine, TotalsFine, Key, ModelOf
<1>3. ASSUME NEW c \in Call, Step(c) PROVE Told'
  BY <1>1, <1>3, StartTold, EnterTold, CatchExceededTold, FailTold, AnswerTold, OpenTold,
     FinishTold, CloseTold, ChunkTold, DoneTold, BreakTold DEF Step
<1> QED
  BY <1>2, <1>3 DEF Next

LEMMA AlwaysTold == Spec => [](IInv /\ Told)
<1>1. Init => IInv /\ Told
  BY InitInv, InitTold
<1>2. (IInv /\ Told) /\ [Next]_vars => (IInv /\ Told)'
  BY NextInv, NextTold
<1> QED
  BY <1>1, <1>2, PTL DEF Spec

\* Whatever model of its chain serves a call, its usage is recorded under the key, scope
\* included, whose slot was taken for it (recordUsage after wrapGenerate and wrapStream).
THEOREM AdaptersRecordedWhereAcquired == Spec => []RecordedWhereAcquired
<1>1. Told => RecordedWhereAcquired
  BY DEF Told, KeyFine, RecordedWhereAcquired
<1> QED
  BY <1>1, AlwaysTold, PTL

\* For streams of any length, with their counts spread over chunks of the three kinds in any
\* usual way, zeros among them, what is recorded at the end is what was last told of each count.
THEOREM AdaptersStreamTotals == Spec => []StreamTotals
<1>1. Told => StreamTotals
  BY DEF Told, TotalsFine, StreamTotals, Tells, IsAt
<1> QED
  BY <1>1, AlwaysTold, PTL

\* What LimitsInForce says of a step.
LimitsInForceStep == \A c \in Call : acquired'[c] # acquired[c] =>
  LET m == ModelOf(c)
      rpm == acquired'[c].rpm
  IN  IF ScopeLimits(c) THEN rpm = scopeRpm[ScopeOf(c)]
      ELSE IF ConfiguredRpm(m) = Undefined THEN rpm = Or(told.limits[m], registryRpm[m])
      ELSE userRpm[m] # Unlisted \/ told.limits[m] = Undefined => rpm = ConfiguredRpm(m)

\* A slot is asked for under the limit in force, however responses that tell limits and
\* those that tell none arrive in between (resolveScopedLimits, updateDetectedLimits).
THEOREM AdaptersLimitsInForce == Spec => LimitsInForce
<1>1. Told /\ [Next]_vars =>
        \A c \in Call : acquired'[c] # acquired[c] =>
          acquired'[c].rpm = RpmFor(c)
  <2> SUFFICES ASSUME Told, [Next]_vars, NEW c \in Call, acquired'[c] # acquired[c]
               PROVE  acquired'[c].rpm = RpmFor(c)
    OBVIOUS
  <2>1. PICK d \in Call : Enter(d) /\ acquired' # acquired
    BY DEF Next, Step, Start, CatchExceeded, Fail, Answer, Open, Finish, Close, Chunk, Done,
           Break, Age, vars
  <2>2. acquired' = [acquired EXCEPT ![d] = [key |-> Key(d), rpm |-> RpmFor(d)]]
    BY <2>1 DEF Enter
  <2>3. acquired = [x \in Call |-> acquired[x]]
    BY DEF Told, History
  <2> QED
    BY <2>2, <2>3
<1>2. Told /\ [Next]_vars => LimitsInForceStep
  BY <1>1 DEF LimitsInForceStep, Told, LimitsKnown, ScopeLimits, RpmFor, ModelRpm, RegistryRpm,
           ConfiguredRpm, Or
<1> QED
  BY <1>2, AlwaysTold, PTL DEF Spec, LimitsInForce, LimitsInForceStep
=============================================================================

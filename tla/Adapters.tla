------------------------------ MODULE Adapters ------------------------------
(***************************************************************************)
(* How calls reach Pipeline.execute and how their usage is recorded:       *)
(* wrapped models with fallbacks (src/src/adapters/vercel-ai-sdk.ts), the  *)
(* pool (model-pool.ts) and the proxy of a raw SDK client                  *)
(* (raw-sdk-proxy.ts), with the limits learnt from response headers        *)
(* (src/src/core/pipeline.ts).                                             *)
(*                                                                         *)
(* Between its budget check and its answer execute is left open here: it   *)
(* rejects or resolves (module Pipeline).  What is behind its await, up to *)
(* recordUsage, is one step.  onExceeded is 'throw' or 'fallback', which   *)
(* execute does not tell apart (CostTracker has 'queue').                  *)
(***************************************************************************)
EXTENDS Integers, Sequences

CONSTANTS
  Model, Call,
  Pool,          \* the models of the pool
  Target,        \* of each call: via "wrap", "pool" or "raw", whether it streams, the model
                 \* and its fallbacks, the scope of the wrapper and that of the request
  Usage,         \* what a provider may tell of each call: its counts, Undefined for one left out
  budget, estimate,
  userRpm,       \* of a model's entry in config.limits: Unlisted if it has none, Undefined if
                 \* its entry has no rpm
  wildcardRpm,   \* of the entry for its provider's models, or Undefined
  scopeRpm,      \* of a scope, or Undefined
  registryRpm,   \* built in
  Rpm,           \* limits a header may tell
  MaxRecords,    \* of one call, since a stream may be read beyond its end
  MaxSpent,      \* at least the budget: spent is not told apart beyond it
  Undefined, Unlisted

Scope == DOMAIN scopeRpm

ASSUME AdaptersAssumption ==
  /\ Pool \in Seq(Model) /\ Pool # <<>>
  /\ Target \in [Call -> [via : {"wrap", "pool", "raw"}, streaming : BOOLEAN,
                          chain : Seq(Model) \ {<<>>}, static : Scope \cup {Undefined},
                          scope : Scope \cup {Undefined}]]
  /\ Usage \in [Call -> SUBSET [input : Nat \cup {Undefined}, output : Nat \cup {Undefined}]]
  /\ Undefined \notin Nat
  /\ budget \in Nat /\ estimate \in Nat /\ MaxRecords \in Nat
  /\ MaxSpent \in Nat /\ MaxSpent >= budget
  /\ Undefined \notin Scope /\ Undefined \notin Rpm

VARIABLES
  index,      \* of the pool
  call,       \* where each call is, the models it may try and which of them is tried
  read,       \* what the wrapper of a stream has seen of it
  records,    \* what recordUsage was given for each call
  spent,      \* the sum of the rolling cost log
  detected,   \* model -> the rpm told by headers (itpm is kept the same way)
  acquired,   \* history: the key and limit of the last slot of each call
  told        \* history: the counts a stream's provider last told, and whether it told them
              \* the usual way; the limits headers last told

vars == <<index, call, read, records, spent, detected, acquired, told>>

Nothing == [input |-> Undefined, output |-> Undefined]

Init ==
  /\ index = 0
  /\ call = [c \in Call |-> [pc |-> "idle", chain |-> <<>>, at |-> 0]]
  /\ read = [c \in Call |-> [input |-> 0, output |-> 0, usageRecorded |-> FALSE]]
  /\ records = [c \in Call |-> <<>>]
  /\ spent = 0
  /\ detected = [m \in Model |-> Undefined]
  /\ acquired = [c \in Call |-> Undefined]
  /\ told = [counts |-> [c \in Call |-> Nothing], usual |-> [c \in Call |-> TRUE],
             limits |-> [m \in Model |-> Undefined]]

IsAt(c, pc) == call[c].pc = pc
Becomes(c, pc) == call' = [call EXCEPT ![c].pc = pc]
ModelOf(c) == call[c].chain[call[c].at]
Or(x, default) == IF x = Undefined THEN default ELSE x

-----------------------------------------------------------------------------
(* Starting a call. *)

NextIndex == (index + 1) % Len(Pool)

Started(c, chain) == call' = [call EXCEPT ![c] = [pc |-> "entering", chain |-> chain, at |-> 1]]

\* A call of a wrapped model: the model, then its fallbacks.
StartWrapped(c) == Target[c].via = "wrap" /\ Started(c, Target[c].chain) /\ UNCHANGED index

\* A call of the pool, which picks its model.
StartPooled(c) == Target[c].via = "pool" /\ Started(c, <<Pool[index + 1]>>) /\ index' = NextIndex

\* A method of the proxy called with a model.
StartRaw(c) == Target[c].via = "raw" /\ Started(c, Target[c].chain) /\ UNCHANGED index

Start(c) ==
  /\ IsAt(c, "idle")
  /\ StartWrapped(c) \/ StartPooled(c) \/ StartRaw(c)
  /\ UNCHANGED <<read, records, spent, detected, acquired, told>>

\* injectScope: the scope of the request is preferred to that of the wrapper.
ScopeOf(c) == Or(Target[c].scope, Target[c].static)

Key(c) == <<ScopeOf(c), ModelOf(c)>>

\* One entry of config.limits counts for a model: its own, even one without an rpm, else that
\* for its provider.
ConfiguredRpm(m) == IF userRpm[m] = Unlisted THEN wildcardRpm[m] ELSE userRpm[m]

\* registry's resolveModelLimits: what that entry leaves out is built in.
RegistryRpm(m) == Or(ConfiguredRpm(m), registryRpm[m])

\* pipeline's resolveModelLimits: a header's limit unless the model's own entry has an rpm.
ModelRpm(m) ==
  IF userRpm[m] \in {Unlisted, Undefined} THEN Or(detected[m], RegistryRpm(m)) ELSE RegistryRpm(m)

\* The rpm of a call: of its scope if it has one, else of its model.
RpmFor(c) ==
  IF ScopeOf(c) = Undefined THEN ModelRpm(ModelOf(c))
  ELSE Or(scopeRpm[ScopeOf(c)], ModelRpm(ModelOf(c)))

Exceeded == spent + estimate > budget

\* makeFallbackParams: fallbacks are not held to the budget.
SkipsBudget(c) == call[c].at > 1

\* execute up to the slot: BudgetExceededError, or a slot is asked for.
Enter(c) ==
  /\ IsAt(c, "entering")
  /\ \/ ~SkipsBudget(c) /\ Exceeded /\ Becomes(c, "exceeded") /\ UNCHANGED acquired
     \/ /\ SkipsBudget(c) \/ ~Exceeded
        /\ Becomes(c, "executing")
        /\ acquired' = [acquired EXCEPT ![c] = [key |-> Key(c), rpm |-> RpmFor(c)]]
  /\ UNCHANGED <<index, read, records, spent, detected, told>>

\* wrapModel and the loop over the fallbacks catch BudgetExceededError and try the next.
CatchExceeded(c) ==
  /\ IsAt(c, "exceeded")
  /\ IF call[c].at < Len(call[c].chain)
     THEN call' = [call EXCEPT ![c].pc = "entering", ![c].at = @ + 1]
     ELSE Becomes(c, "overBudget")
  /\ UNCHANGED <<index, read, records, spent, detected, acquired, told>>

\* Any other error, of the limiter or after the last attempt, is the caller's.
Fail(c) ==
  /\ IsAt(c, "entering") \/ IsAt(c, "executing")
  /\ Becomes(c, "failed")
  /\ UNCHANGED <<index, read, records, spent, detected, acquired, told>>

-----------------------------------------------------------------------------
(* Answers and usage. *)

Spent(cost) == IF spent + cost > MaxSpent THEN MaxSpent ELSE spent + cost

RecordUnderFirst(c, input, output) ==   \* mutant: a fallback's usage goes to the first model
  /\ records' = [records EXCEPT ![c] =
       Append(@, [key |-> <<ScopeOf(c), call[c].chain[1]>>, input |-> input, output |-> output])]
  /\ spent' = Spent(input + output)

\* recordUsage.
Record(c, input, output) ==
  /\ records' = [records EXCEPT ![c] =
                   Append(@, [key |-> Key(c), input |-> input, output |-> output])]
  /\ spent' = Spent(input + output)

MergedLast(old, new) == new   \* mutant: what a response does not tell is forgotten

\* updateDetectedLimits: rpm is replaced when a header tells it.
Merged(old, new) == Or(new, old)

Headers == Rpm \cup {Undefined}

Given(u) == [input |-> Or(u.input, 0), output |-> Or(u.output, 0)]

\* The proxy's extractUsage knows a usage by its input count: without one all of it is 0.
Extracted(u) == IF u.input = Undefined THEN [input |-> 0, output |-> 0] ELSE Given(u)

\* The headers of a wrapped model's response are read; the proxy has none to read.
ReadHeaders(c, h) ==
  LET m == ModelOf(c)
  IN  IF Target[c].via = "raw" THEN UNCHANGED <<detected, told>>
      ELSE /\ detected' = [detected EXCEPT ![m] = Merged(@, h)]
           /\ told' = [told EXCEPT !.limits[m] = IF h \in Rpm THEN h ELSE @]

\* A complete response: limits, then usage, which is 0 if it is missing.
Answer(c) ==
  /\ IsAt(c, "executing") /\ ~Target[c].streaming
  /\ Becomes(c, "done")
  /\ \E h \in Headers : ReadHeaders(c, h)
  /\ \E u \in Usage[c] \cup {Nothing} :
       LET e == IF Target[c].via = "raw" THEN Extracted(u) ELSE Given(u)
       IN  Record(c, e.input, e.output)
  /\ UNCHANGED <<index, read, acquired>>

\* execute resolves with a stream, which is wrapped; its slot is free again.
Open(c) ==
  /\ IsAt(c, "executing") /\ Target[c].streaming
  /\ Becomes(c, "streaming")
  /\ UNCHANGED <<index, read, records, spent, detected, acquired, told>>

-----------------------------------------------------------------------------
(* Streams. *)

FlushAlways(c) == TRUE   \* mutant: the flush of a stream ignores what finish recorded

\* flush records a stream that closes without a finish chunk.
FlushRecords(c) == ~read[c].usageRecorded

\* Of providers, not of the code: a stream has one finish chunk at most.  transform would
\* record each.
OneFinish(c) == ~read[c].usageRecorded

\* transform: the finish chunk is recorded.
Finish(c) ==
  /\ IsAt(c, "streaming") /\ Target[c].via # "raw" /\ OneFinish(c)
  /\ read' = [read EXCEPT ![c].usageRecorded = TRUE]
  /\ \E u \in Usage[c] \cup {Nothing} :
       /\ Record(c, Given(u).input, Given(u).output)
       /\ told' = [told EXCEPT !.counts[c] = u]
  /\ UNCHANGED <<index, call, detected, acquired>>

\* A wrapped stream closes.
Close(c) ==
  /\ IsAt(c, "streaming") /\ Target[c].via # "raw"
  /\ Becomes(c, "ended")
  /\ IF FlushRecords(c) THEN Record(c, 0, 0) ELSE UNCHANGED <<records, spent>>
  /\ UNCHANGED <<index, read, detected, acquired, told>>

SeenLast(old, count) == count   \* mutant: a chunk without a count resets it

\* Of what extractUsage finds in a chunk only more than 0 is kept.
Seen(old, count) == IF count > 0 THEN count ELSE old

\* Chunks that carry a usage: the first and the last of Anthropic's streams, whose counts are
\* taken as they are, and any other.
Kind == {"message_start", "message_delta", "other"}

FromStart(r, u) == [r EXCEPT !.input = Or(u.input, @)]
FromDelta(r, u) == [r EXCEPT !.output = Or(u.output, @)]
FromUsage(r, u) == [r EXCEPT !.input = Seen(@, Extracted(u).input),
                             !.output = Seen(@, Extracted(u).output)]

\* What the proxy knows after a chunk.  The usage of a message_delta is read twice; that of a
\* message_start is its message's, not its own.
ReadAfter(r, kind, u) ==
  CASE kind = "message_start" -> FromStart(r, u)
    [] kind = "message_delta" -> FromUsage(FromDelta(r, u), u)
    [] OTHER -> FromUsage(r, u)

\* The counts told so far.  The output count of a message_start is a provisional one.
ToldAfter(counts, kind, u) ==
  [input |-> Or(u.input, counts.input),
   output |-> IF kind = "message_start" THEN counts.output ELSE Or(u.output, counts.output)]

\* The usual way to tell: the output along with the input, or in a message_delta; and what
\* was more than 0 does not become 0, except where a count is taken as it is.
Usual(counts, kind, u) ==
  /\ kind = "other" /\ u.output # Undefined => u.input # Undefined
  /\ kind # "message_start" /\ u.input = 0 => Or(counts.input, 0) = 0
  /\ kind = "other" /\ u.output = 0 => Or(counts.output, 0) = 0

\* next() of the proxy's iterator meets a chunk that carries usage.
Chunk(c) ==
  /\ IsAt(c, "streaming") /\ Target[c].via = "raw"
  /\ \E kind \in Kind, u \in Usage[c] :
       /\ read' = [read EXCEPT ![c] = ReadAfter(@, kind, u)]
       /\ told' = IF told.usual[c] /\ Usual(told.counts[c], kind, u)
                  THEN [told EXCEPT !.counts[c] = ToldAfter(@, kind, u)]
                  ELSE [told EXCEPT !.counts[c] = Nothing, !.usual[c] = FALSE]
  /\ UNCHANGED <<index, call, records, spent, detected, acquired>>

\* next() is told that the stream is done: the first time, and whenever it is called again.
Done(c) ==
  /\ Target[c].via = "raw" /\ call[c].pc \in {"streaming", "ended", "broken"}
  /\ Len(records[c]) < MaxRecords
  /\ Becomes(c, "ended")
  /\ Record(c, read[c].input, read[c].output)
  /\ UNCHANGED <<index, read, detected, acquired, told>>

\* An error, a cancel or the iterator's return: nothing is recorded.
Break(c) ==
  /\ IsAt(c, "streaming")
  /\ Becomes(c, "broken")
  /\ UNCHANGED <<index, read, records, spent, detected, acquired, told>>

\* Costs leave the rolling windows.
Age ==
  /\ \E s \in 0 .. spent - 1 : spent' = s
  /\ UNCHANGED <<index, call, read, records, detected, acquired, told>>

-----------------------------------------------------------------------------

Step(c) ==
  \/ Start(c) \/ Enter(c) \/ CatchExceeded(c) \/ Fail(c) \/ Answer(c) \/ Open(c)
  \/ Finish(c) \/ Close(c) \/ Chunk(c) \/ Done(c) \/ Break(c)

Next == Age \/ \E c \in Call : Step(c)

Spec == Init /\ [][Next]_vars

-----------------------------------------------------------------------------
(* Properties. *)

Pcs == {"idle", "entering", "exceeded", "overBudget", "executing", "failed", "done",
        "streaming", "ended", "broken"}
Counts == [input : Nat \cup {Undefined}, output : Nat \cup {Undefined}]

\* Types of the variables, the pool's index among them (model-pool.ts).
TypeOK ==
  /\ index \in 0 .. Len(Pool) - 1
  /\ call \in [Call -> [pc : Pcs, chain : Seq(Model), at : Nat]]
  /\ \A c \in Call : ~IsAt(c, "idle") => call[c].at \in DOMAIN call[c].chain
  /\ read \in [Call -> [input : Nat, output : Nat, usageRecorded : BOOLEAN]]
  /\ records \in [Call -> Seq([key : (Scope \cup {Undefined}) \X Model,
                              input : Nat, output : Nat])]
  /\ spent \in 0 .. MaxSpent
  /\ detected \in [Model -> Headers]
  /\ told \in [counts : [Call -> Counts], usual : [Call -> BOOLEAN], limits : [Model -> Headers]]

\* A call of a wrapped model that ran to its end is recorded exactly once, whether its stream
\* told its usage or not, and one that was refused or failed never is.  A second finish chunk
\* would be recorded again (OneFinish).
RecordedOnce ==
  \A c \in Call : Target[c].via # "raw" =>
    /\ call[c].pc \in {"done", "ended"} => Len(records[c]) = 1
    /\ call[c].pc \notin {"done", "ended", "streaming", "broken"} => records[c] = <<>>
    /\ Len(records[c]) <= 1

\* Usage is recorded under the key whose slot and estimate the call took: that of the model
\* that served it, a fallback's if a fallback did, and of the scope it was made in.
RecordedWhereAcquired ==
  \A c \in Call : \A i \in DOMAIN records[c] : records[c][i].key = acquired[c].key

\* What is recorded for a stream that ended is what its provider last told of each count,
\* however the counts are spread over chunks of the three kinds, if they are told the usual
\* way (wrapAsyncIterableStream, wrapStream).  An output count told apart from the input, other
\* than in a message_delta, is lost.
StreamTotals ==
  \A c \in Call : IsAt(c, "ended") /\ told.usual[c] => \A i \in DOMAIN records[c] :
    /\ records[c][i].input = Or(told.counts[c].input, 0)
    /\ records[c][i].output = Or(told.counts[c].output, 0)

\* The scope of a call sets its limit.
ScopeLimits(c) == ScopeOf(c) # Undefined /\ scopeRpm[ScopeOf(c)] # Undefined

\* A slot is asked for under the limit in force: the scope's, else that of the model's own
\* entry, which no header replaces; without a configured one what a header last told, kept by
\* responses that tell nothing, and failing that the built-in one.  That of the provider's entry
\* is in force until a header tells one (then ConfigAlwaysWins fails).
LimitsInForce == [][\A c \in Call : acquired'[c] # acquired[c] =>
  LET m == ModelOf(c)
      rpm == acquired'[c].rpm
  IN  IF ScopeLimits(c) THEN rpm = scopeRpm[ScopeOf(c)]
      ELSE IF ConfiguredRpm(m) = Undefined THEN rpm = Or(told.limits[m], registryRpm[m])
      ELSE userRpm[m] # Unlisted \/ told.limits[m] = Undefined => rpm = ConfiguredRpm(m)
  ]_vars

-----------------------------------------------------------------------------
(* What the documentation says and the code does not do. *)

\* "Your config always wins": a limit the user configured, for the provider's models too, is
\* not replaced by what a header tells.
ConfigAlwaysWins == [][\A c \in Call : acquired'[c] # acquired[c] =>
  LET configured == ConfiguredRpm(ModelOf(c))
  IN  ~ScopeLimits(c) /\ configured # Undefined => acquired'[c].rpm = configured]_vars

\* "Each model in the chain is tried in order.  If all are over budget, BudgetExceededError is
\* thrown": no model is asked for a slot while the budget is exceeded.
NoneServesOverBudget == [][\A c \in Call : acquired'[c] # acquired[c] => ~Exceeded]_vars
=============================================================================

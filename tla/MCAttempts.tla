----------------------------- MODULE MCAttempts -----------------------------
(***************************************************************************)
(* Attempts on small instances: the clock stops at MaxTime, nobody calls   *)
(* after MaxArrival, and the clock neither passes a microtask nor a timer. *)
(***************************************************************************)
EXTENDS Attempts, TLC

CONSTANTS MaxTime, MaxArrival

Bare(status) == <<[status |-> status, headers |-> Undefined]>>
Saying(header) == <<[status |-> 429, headers |-> header]>>
Digits(n) == [kind |-> "digits", number |-> n]
Duration(s) == [kind |-> "duration", minutes |-> Undefined, seconds |-> s, ms |-> 1]

\* Waits asked for in several ways: 2 seconds; a duration of a second and a bit in a
\* cause, under an outer layer without status; one beyond the longest timer.
MCError ==
  {Bare(429), Bare(500), Bare(400), Bare(Undefined),
   Saying([NoHeaders EXCEPT !.lower = Digits(2)]),
   Bare(Undefined) \o Saying([NoHeaders EXCEPT !.reset = Duration(1)]),
   Saying([NoHeaders EXCEPT !.capital = Digits(4)])}

MCTick ==
  /\ now < MaxTime
  /\ \A c \in Call :
       /\ call[c].pc \notin {"granted", "refused", "woken", "rejected"}
       /\ call[c].pc \in {"sleeping", "waiting"} => now < call[c].time
  /\ TickCalls

MCStep(c) == (IsAt(c, "idle") => now <= MaxArrival) /\ CallStep(c)

MCNext == (\E c \in Call : MCStep(c)) \/ MCTick

MCSpec == CallsInit /\ [][MCNext]_attemptsVars

Symmetry == Permutations(Call)
=============================================================================

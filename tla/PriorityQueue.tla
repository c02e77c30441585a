---------------------------- MODULE PriorityQueue ----------------------------
(***************************************************************************)
(* The priority order of the wait queue and insertWaiter                   *)
(* (src/src/core/rate-limit-engine.ts).  A waiter is a record with a       *)
(* priority and the time it was enqueued.                                  *)
(***************************************************************************)
EXTENDS Integers, SequencesExt

Priority == {"high", "normal", "low"}

PRIORITY_RANK == [high |-> 0, normal |-> 1, low |-> 2]

\* a goes before b: a better rank, or the same rank and enqueued earlier.
Before(a, b) ==
  \/ PRIORITY_RANK[a.priority] < PRIORITY_RANK[b.priority]
  \/ PRIORITY_RANK[a.priority] = PRIORITY_RANK[b.priority] /\ a.enqueued < b.enqueued

\* The place of a new waiter w in a sorted queue: in front of the first waiter it
\* goes before, so behind its equals.
InsertionPoint(queue, w) ==
  Min({i \in DOMAIN queue : Before(w, queue[i])} \cup {Len(queue) + 1})

-----------------------------------------------------------------------------
SearchFirstBeforeEquals(queue, w) ==   \* mutant: goes in front of its equals
  LET search[lo \in 0 .. Len(queue)] ==
        [hi \in 0 .. Len(queue) |->
           LET mid == (lo + hi) \div 2
           IN  IF lo >= hi THEN lo
               ELSE IF Before(queue[mid + 1], w) THEN search[mid + 1][hi] ELSE search[lo][mid]]
  IN  search[0][Len(queue)]

\* The binary search of insertWaiter, with the code's zero-based lo and hi: search[lo][hi]
\* is where its loop ends.
SearchFirst(queue, w) ==
  LET search[lo \in 0 .. Len(queue)] ==
        [hi \in 0 .. Len(queue) |->
           LET mid == (lo + hi) \div 2
           IN  IF lo >= hi THEN lo
               ELSE IF Before(w, queue[mid + 1]) THEN search[lo][mid] ELSE search[mid + 1][hi]]
  IN  search[0][Len(queue)]

insertWaiter(queue, w) == InsertAt(queue, SearchFirst(queue, w) + 1, w)
=============================================================================

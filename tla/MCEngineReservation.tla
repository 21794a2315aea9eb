------------------------- MODULE MCEngineReservation -------------------------
(* A worker and an administrator, two instances, two requests at a time.     *)
EXTENDS EngineReservation, TLC

CONSTANTS worker, admin, i1, i2, e1, e2

\* No lock, or the worker's, for one more tick.
MCLocks == {Free, [holder |-> worker, expires |-> 2, released |-> FALSE]}

Budget(calls, reads, others, faults) ==
  [calls |-> calls, reads |-> reads, others |-> others, faults |-> faults]

\* Two calls, with a gate or with faults; one call, with both; and a queue that
\* overflows.
MCBudgets == {Budget(2, 1, 0, 0), Budget(2, 0, 0, 1), Budget(1, 2, 0, 1), Budget(1, 0, 2, 2)}

Symmetry == Permutations(Slot) \cup Permutations(Other)
=============================================================================

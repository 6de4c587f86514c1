----------------------------- MODULE MCSyncPull ------------------------------
(* SyncPull on small instances. *)
EXTENDS SyncPull

CONSTANTS own, r1, r2, r3

\* Once a write came behind or between, the run's properties hold for good: the
\* states after it are not explored.
InOrder == ~behind /\ ~skewed
=============================================================================

---------------------------- MODULE MCLedgerStore ----------------------------
(* Two backend processes, the instances nginx balances over, for TLC. *)
EXTENDS LedgerStore

CONSTANTS p1, p2, nobody

MCProc == {p1, p2}
MCEmpty == {}
\* For the wait that never ends: one that may not remove a foreign stale lock.
MCSticky == {p2}
MCBatchSize == {2}
=============================================================================

------------------------------ MODULE LedgerLog ------------------------------
(***************************************************************************)
(* What the ledger directory promises its callers: one list of blocks that *)
(* only grows, one block at a time, each continuing the previous block's   *)
(* hash and its numbering.  The promise lasts until a process loses the    *)
(* directory lock while it is still inside the critical section            *)
(* ("broken"); from then on nothing is promised.                           *)
(***************************************************************************)
EXTENDS Naturals, Sequences

CONSTANT NoHash    \* the hash before the first block, 'GENESIS' in the code

VARIABLES
  log,      \* the blocks the index covers, in order of height
  broken    \* a live lock holder has been evicted

logVars == <<log, broken>>

TipHash == IF log = <<>> THEN NoHash ELSE log[Len(log)].hash
TipSeq  == IF log = <<>> THEN 0 ELSE log[Len(log)].to

\* b extends the log: it names the tip and numbers its transactions from
\* the first unused seq.
Extends(b) ==
  /\ b.prev = TipHash
  /\ b.from = TipSeq + 1
  /\ b.to + 1 >= b.from

Init == log = <<>> /\ broken = FALSE

Commit ==
  /\ ~broken
  /\ Len(log') = Len(log) + 1
  /\ SubSeq(log', 1, Len(log)) = log
  /\ Extends(log'[Len(log')])
  /\ UNCHANGED broken

Break == ~broken /\ broken' = TRUE /\ UNCHANGED log

Havoc == broken /\ UNCHANGED broken

Next == Commit \/ Break \/ Havoc

Spec == Init /\ [][Next]_logVars
=============================================================================

----------------------------- MODULE LedgerStore -----------------------------
(***************************************************************************)
(* ledger/src/store.ts: the append-only ledger directory that two backend  *)
(* processes and the maintenance scripts share.  Every mutation runs under *)
(* an advisory lock file; the block file, index.json, state.json and       *)
(* checkpoint.json are separate atomic writes, so a crash may fall between *)
(* any two of them.  One action per file-system step of an operation.      *)
(*                                                                         *)
(* Abstractions: a batch of transactions is the interval of seqs it takes; *)
(* a block's SHA-256 is a fresh number; state.json is the set of blocks    *)
(* whose transactions were folded into it.  Time is not counted: "aged"    *)
(* says that a lock is older than LOCK_STALE_MS, and a waiter whose lock   *)
(* is neither free nor stale may reach its acquire deadline at any moment. *)
(***************************************************************************)
EXTENDS Naturals, FiniteSets

CONSTANTS
  Proc,             \* processes that open the ledger directory
  Nobody,           \* the owner of a lock that does not exist
  NoUnlink,         \* processes the file system forbids to remove a foreign lock
  BatchSize,        \* sizes of the batches callers append
  CheckpointEvery,  \* MATRICA_LEDGER_CHECKPOINT_EVERY_BLOCKS
  MaxSigned,        \* bound: batches signed in a behaviour
  MaxFaults,        \* bound: crashes and file-system errors in a behaviour
  MaxStalls         \* bound: live holders that exceed LOCK_STALE_MS

ASSUME LedgerAssumption ==
  /\ Nobody \notin Proc
  /\ NoUnlink \subseteq Proc
  /\ BatchSize \subseteq Nat
  /\ CheckpointEvery \in Nat \ {0}
  /\ MaxSigned \in Nat /\ MaxFaults \in Nat /\ MaxStalls \in Nat

VARIABLES
  lock,        \* the lock file .ledger.lock
  pc,          \* what each process executes
  job,         \* the operation it was called for
  draft,       \* the batch it is appending (its local variables)
  blocks,      \* blocks/<height>.json
  index,       \* index.json
  applied,     \* state.json
  checkpoint,  \* checkpoint.json
  signed,      \* batches signed so far: the source of fresh hashes
  acked,       \* batches whose append returned to its caller
  torn,        \* blocks whose append stopped between index.json and state.json
  evicted,     \* a lock was removed under a live holder
  contested,   \* two waiters were about to steal at the same time
  faults, stalls

disk   == <<blocks, index, applied, checkpoint>>
ghosts == <<acked, torn, evicted, contested, faults, stalls>>
vars   == <<lock, pc, job, draft, disk, signed, ghosts>>

-----------------------------------------------------------------------------

Job == {"append", "checkpoint"}
Critical == {"sign", "write", "index", "state", "checkpoint", "release", "abort"}
PC == {"idle", "want", "steal", "opened", "down"} \cup Critical

LockFile == [owner : Proc \cup {Nobody}, written : BOOLEAN, aged : BOOLEAN, dead : BOOLEAN]
NoLock == [owner |-> Nobody, written |-> FALSE, aged |-> FALSE, dead |-> FALSE]

Draft == [hash : Nat, prev : Nat, from : Nat, to : Nat, height : Nat]
NoDraft == [hash |-> 0, prev |-> 0, from |-> 1, to |-> 0, height |-> 0]

Block == [hash : Nat, prev : Nat, from : Nat, to : Nat]
\* A batch of n transactions numbered after seq, and a batch linked to the tip.
Numbered(hash, seq, n) ==
  [hash |-> hash, prev |-> 0, from |-> seq + 1, to |-> seq + n, height |-> 0]
Linked(d, tip) ==
  [hash |-> d.hash, prev |-> tip.hash, from |-> d.from, to |-> d.to,
   height |-> tip.height + 1]
BlockOf(d) == [hash |-> d.hash, prev |-> d.prev, from |-> d.from, to |-> d.to]

\* Mutant of Stale: an empty, just created lock file counts as stale.
StaleWhenUnreadable == lock.aged \/ ~lock.written \/ lock.dead

\* The acquire loop's verdict: old content or old mtime, or a readable pid
\* of a process that is gone.
Stale == lock.aged \/ (lock.written /\ lock.dead)

\* p created the lock file that exists and is still executing under it.
Holds(p) ==
  /\ lock.owner = p
  /\ ~lock.dead
  /\ pc[p] \in Critical \cup {"opened"}

\* Removing the lock file takes it from a live holder other than p.
Evicts(p) == \E q \in Proc \ {p} : Holds(q)

Goto(p, label) == pc' = [pc EXCEPT ![p] = label]

\* Mutant of Init: heights count from zero, so the empty index says -1.
InitFromMinusOne ==
  /\ lock = NoLock
  /\ pc = [p \in Proc |-> "idle"]
  /\ job = [p \in Proc |-> "append"]
  /\ draft = [p \in Proc |-> NoDraft]
  /\ blocks = [h \in {} |-> NoDraft]
  /\ index = [height |-> 0 - 1, hash |-> 0, seq |-> 0]
  /\ applied = {}
  /\ checkpoint = [height |-> 0, seq |-> 0, covers |-> {}]
  /\ signed = 0
  /\ acked = {} /\ torn = {} /\ evicted = FALSE /\ contested = FALSE
  /\ faults = 0 /\ stalls = 0

Init ==
  /\ lock = NoLock
  /\ pc = [p \in Proc |-> "idle"]
  /\ job = [p \in Proc |-> "append"]
  /\ draft = [p \in Proc |-> NoDraft]
  /\ blocks = [h \in {} |-> NoDraft]
  /\ index = [height |-> 0, hash |-> 0, seq |-> 0]
  /\ applied = {}
  /\ checkpoint = [height |-> 0, seq |-> 0, covers |-> {}]
  /\ signed = 0
  /\ acked = {} /\ torn = {} /\ evicted = FALSE /\ contested = FALSE
  /\ faults = 0 /\ stalls = 0

-----------------------------------------------------------------------------
(* The lock: acquireLock, tryStealStaleLock, releaseLock.                  *)

\* Appends that have been called but not signed yet.
Unsigned == {p \in Proc : /\ job[p] = "append"
                          /\ pc[p] \in {"want", "steal", "opened", "sign"}}

\* Mutant of Want: buildCheckpoint does not take the lock.
WantUnlocked(p, j) ==
  /\ pc[p] = "idle"
  /\ j = "append" => signed + Cardinality(Unsigned) < MaxSigned
  /\ Goto(p, IF j = "checkpoint" THEN "checkpoint" ELSE "want")
  /\ job' = [job EXCEPT ![p] = j]
  /\ UNCHANGED <<lock, draft, disk, signed, ghosts>>

\* signAndAppend or buildCheckpoint is called from outside the store.
Want(p, j) ==
  /\ pc[p] = "idle"
  /\ j = "append" => signed + Cardinality(Unsigned) < MaxSigned
  /\ Goto(p, "want")
  /\ job' = [job EXCEPT ![p] = j]
  /\ UNCHANGED <<lock, draft, disk, signed, ghosts>>

\* Mutant of Open: flag 'w', the existing lock file is taken over.
OpenShared(p) ==
  /\ pc[p] = "want"
  /\ lock' = [NoLock EXCEPT !.owner = p]
  /\ Goto(p, "opened")
  /\ UNCHANGED <<job, draft, disk, signed, ghosts>>

\* openSync(lockPath, 'wx') succeeds: the lock file exists, still empty.
Open(p) ==
  /\ pc[p] = "want"
  /\ lock.owner = Nobody
  /\ lock' = [NoLock EXCEPT !.owner = p]
  /\ Goto(p, "opened")
  /\ UNCHANGED <<job, draft, disk, signed, ghosts>>

\* The pid and the time reach the file.  The write goes to the descriptor:
\* when the file was unlinked meanwhile, no path shows it.
WriteLock(p) ==
  /\ pc[p] = "opened"
  /\ lock' = IF lock.owner = p /\ ~lock.dead THEN [lock EXCEPT !.written = TRUE] ELSE lock
  /\ Goto(p, IF job[p] = "append" THEN "sign" ELSE "checkpoint")
  /\ UNCHANGED <<job, draft, disk, signed, ghosts>>

\* The write of the content fails (disk full): the call throws and leaves an
\* empty lock file that nobody holds and only its age makes stale.
WriteLockFails(p) ==
  /\ pc[p] = "opened"
  /\ faults < MaxFaults
  /\ faults' = faults + 1
  /\ Goto(p, "idle")
  /\ UNCHANGED <<lock, job, draft, disk, signed, acked, torn, evicted, contested, stalls>>

\* The lock exists and tryStealStaleLock judges it stale.
Inspect(p) ==
  /\ pc[p] = "want"
  /\ lock.owner # Nobody /\ Stale
  /\ Goto(p, "steal")
  /\ contested' = (contested \/ \E q \in Proc \ {p} : pc[q] = "steal")
  /\ UNCHANGED <<lock, job, draft, disk, signed, acked, torn, evicted, faults, stalls>>

\* Mutant of Steal: a stale lock is reported, not removed.
StealNothing(p) ==
  /\ pc[p] = "steal"
  /\ Goto(p, "want")
  /\ UNCHANGED <<lock, job, draft, disk, signed, ghosts>>

\* unlinkSync(lockPath), then the loop retries.  It is the path that is
\* removed, whatever file it names by now.
Steal(p) ==
  /\ pc[p] = "steal"
  /\ Goto(p, "want")
  /\ IF p \in NoUnlink /\ lock.owner # p
       THEN UNCHANGED <<lock, evicted>>
       ELSE lock' = NoLock /\ evicted' = (evicted \/ Evicts(p))
  /\ UNCHANGED <<job, draft, disk, signed, acked, torn, contested, faults, stalls>>

\* The lock is held, not stale, and the acquire deadline has passed.
TimeOut(p) ==
  /\ pc[p] = "want"
  /\ lock.owner # Nobody /\ ~Stale
  /\ Goto(p, "idle")
  /\ UNCHANGED <<lock, job, draft, disk, signed, ghosts>>

\* LOCK_STALE_MS pass over a lock file.  A live holder that is still working
\* then is a stall.
Age ==
  /\ lock.owner # Nobody /\ ~lock.aged
  /\ IF \E q \in Proc : Holds(q)
       THEN stalls < MaxStalls /\ stalls' = stalls + 1
       ELSE UNCHANGED stalls
  /\ lock' = [lock EXCEPT !.aged = TRUE]
  /\ UNCHANGED <<pc, job, draft, disk, signed, acked, torn, evicted, contested, faults>>

\* Mutant of ReleaseLock: an append that failed is reported as done.
ReleaseAcksFailure(p) ==
  /\ pc[p] \in {"release", "abort"}
  /\ lock' = NoLock
  /\ evicted' = (evicted \/ Evicts(p))
  /\ acked' = IF job[p] = "append" THEN acked \cup {BlockOf(draft[p])} ELSE acked
  /\ draft' = [draft EXCEPT ![p] = NoDraft]
  /\ Goto(p, "idle")
  /\ UNCHANGED <<job, disk, signed, torn, contested, faults, stalls>>

\* releaseLock, from the finally of withLock: unlinks the path without
\* looking whose lock it is.  After an error the caller gets no result.
ReleaseLock(p) ==
  /\ pc[p] \in {"release", "abort"}
  /\ lock' = IF p \in NoUnlink /\ lock.owner # p THEN lock ELSE NoLock
  /\ evicted' = (evicted \/ (Evicts(p) /\ lock' = NoLock))
  /\ acked' = IF pc[p] = "release" /\ job[p] = "append"
                THEN acked \cup {BlockOf(draft[p])} ELSE acked
  /\ draft' = [draft EXCEPT ![p] = NoDraft]
  /\ Goto(p, "idle")
  /\ UNCHANGED <<job, disk, signed, torn, contested, faults, stalls>>

-----------------------------------------------------------------------------
(* The append: signTxs, appendBlock, buildCheckpoint.                      *)

\* signTxs reads index.lastSeq and numbers the batch after it.
SignTxs(p, n) ==
  /\ pc[p] = "sign"
  /\ signed' = signed + 1
  /\ draft' = [draft EXCEPT ![p] = Numbered(signed', index.seq, n)]
  /\ Goto(p, "write")
  /\ UNCHANGED <<lock, job, disk, ghosts>>

\* appendBlock reads the index again, links the block to it and writes the
\* block file over whatever file that height has.
WriteBlock(p) ==
  LET d == Linked(draft[p], index) IN
  /\ pc[p] = "write"
  /\ draft' = [draft EXCEPT ![p] = d]
  /\ blocks' = [k \in DOMAIN blocks \cup {d.height} |->
                 IF k = d.height THEN BlockOf(d) ELSE blocks[k]]
  /\ Goto(p, "index")
  /\ UNCHANGED <<lock, job, index, applied, checkpoint, signed, ghosts>>

\* Mutant of SaveIndex: lastSeq is the seq of the first transaction.
SaveIndexFirstSeq(p) ==
  /\ pc[p] = "index"
  /\ index' = [height |-> draft[p].height, hash |-> draft[p].hash, seq |-> draft[p].from]
  /\ Goto(p, "state")
  /\ UNCHANGED <<lock, job, draft, blocks, applied, checkpoint, signed, ghosts>>

\* saveIndex: the block becomes the tip.  An empty batch keeps lastSeq.
SaveIndex(p) ==
  /\ pc[p] = "index"
  /\ index' = [height |-> draft[p].height, hash |-> draft[p].hash, seq |-> draft[p].to]
  /\ Goto(p, "state")
  /\ UNCHANGED <<lock, job, draft, blocks, applied, checkpoint, signed, ghosts>>

\* Mutant of SaveState: the state is rebuilt from the new batch alone.
SaveStateOfBatch(p) ==
  /\ pc[p] = "state"
  /\ applied' = {draft[p].hash}
  /\ Goto(p, IF draft[p].height % CheckpointEvery = 0 THEN "checkpoint" ELSE "release")
  /\ UNCHANGED <<lock, job, draft, blocks, index, checkpoint, signed, ghosts>>

\* saveState(applyTxs(loadState(), txs)); every CheckpointEvery-th height
\* goes on to a checkpoint under the same lock.
SaveState(p) ==
  /\ pc[p] = "state"
  /\ applied' = applied \cup {draft[p].hash}
  /\ Goto(p, IF draft[p].height % CheckpointEvery = 0 THEN "checkpoint" ELSE "release")
  /\ UNCHANGED <<lock, job, draft, blocks, index, checkpoint, signed, ghosts>>

\* buildCheckpoint: hashes state.json and stamps it with the index's height.
BuildCheckpoint(p) ==
  /\ pc[p] = "checkpoint"
  /\ checkpoint' = [height |-> index.height, seq |-> index.seq, covers |-> applied]
  /\ Goto(p, "release")
  /\ UNCHANGED <<lock, job, draft, blocks, index, applied, signed, ghosts>>

-----------------------------------------------------------------------------
(* Faults.                                                                 *)

\* A block that is in the index and will never be folded into state.json.
Tear(p) == torn' = IF pc[p] = "state" THEN torn \cup {draft[p].hash} ELSE torn

\* A read or a write throws inside the critical section; finally unlocks.
Fail(p) ==
  /\ pc[p] \in Critical \ {"release", "abort"}
  /\ faults < MaxFaults
  /\ faults' = faults + 1
  /\ Tear(p)
  /\ Goto(p, "abort")
  /\ UNCHANGED <<lock, job, draft, disk, signed, acked, evicted, contested, stalls>>

\* The process dies; its files stay, its lock file too.
Crash(p) ==
  /\ pc[p] \notin {"idle", "down"}
  /\ faults < MaxFaults
  /\ faults' = faults + 1
  /\ Tear(p)
  /\ lock' = IF lock.owner = p THEN [lock EXCEPT !.dead = TRUE] ELSE lock
  /\ draft' = [draft EXCEPT ![p] = NoDraft]
  /\ Goto(p, "down")
  /\ UNCHANGED <<job, disk, signed, acked, evicted, contested, stalls>>

\* systemd restarts it, under another pid.
Restart(p) ==
  /\ pc[p] = "down"
  /\ Goto(p, "idle")
  /\ UNCHANGED <<lock, job, draft, disk, signed, ghosts>>

-----------------------------------------------------------------------------

\* One pass of the acquire loop that does not end in a sleep.
Acquire(p) == Open(p) \/ Inspect(p) \/ TimeOut(p)

AppendStep(p) ==
  \/ \E n \in BatchSize : SignTxs(p, n)
  \/ WriteBlock(p) \/ SaveIndex(p) \/ SaveState(p) \/ BuildCheckpoint(p)

Step(p) == Acquire(p) \/ Steal(p) \/ WriteLock(p) \/ AppendStep(p) \/ ReleaseLock(p)

Fault(p) == WriteLockFails(p) \/ Fail(p) \/ Crash(p) \/ Restart(p)

Next ==
  \/ Age
  \/ \E p \in Proc : \/ Step(p)
                     \/ Fault(p)
                     \/ \E j \in Job : Want(p, j)

Spec == Init /\ [][Next]_vars

\* A synchronous call runs on until it returns or throws, and time passes.
Fairness == WF_vars(Age) /\ \A p \in Proc : WF_vars(Step(p))

FairSpec == Spec /\ Fairness
-----------------------------------------------------------------------------
(* Properties.                                                             *)

TypeOK ==
  /\ lock \in LockFile
  /\ pc \in [Proc -> PC]
  /\ job \in [Proc -> Job]
  /\ draft \in [Proc -> Draft]
  /\ DOMAIN blocks \subseteq Nat \ {0}
  /\ \A h \in DOMAIN blocks : blocks[h] \in Block
  /\ index \in [height : Nat, hash : Nat, seq : Nat]
  /\ applied \subseteq Nat
  /\ checkpoint \in [height : Nat, seq : Nat, covers : SUBSET Nat]
  /\ signed \in Nat
  /\ \A b \in acked : b \in Block
  /\ torn \subseteq Nat
  /\ evicted \in BOOLEAN /\ contested \in BOOLEAN
  /\ faults \in Nat /\ stalls \in Nat

\* Whoever executes a locked operation owns the lock file that exists, so two
\* operations never overlap, as long as no live holder lost its lock: crashes,
\* restarts, left-over empty locks and time-outs alone never break it.
MutualExclusion ==
  ~evicted => \A p \in Proc : pc[p] \in Critical \cup {"opened"} => Holds(p)

\* A live holder loses its lock only when it worked longer than the stale
\* window or when two waiters were stealing the same lock at the same time
\* (tryStealStaleLock and releaseLock both unlink by path).
EvictionNeedsCause == evicted => contested \/ stalls > 0

\* The chain the index covers.
Chain == [h \in 1 .. index.height |-> blocks[h]]
Chained(h) == {blocks[k].hash : k \in 1 .. h}

\* Every append that returned success is a block of the chain, with the seqs
\* its caller was given.
AckedInChain ==
  ~evicted => \A b \in acked : \E h \in 1 .. index.height : blocks[h] = b

\* state.json holds the transactions of the whole chain, except those of an
\* append that is between its two writes or was stopped there for good.
StateMatchesChain ==
  ~evicted =>
    applied = Chained(index.height)
                \ (torn \cup {draft[p].hash : p \in {q \in Proc : pc[q] = "state"}})

\* A checkpoint's state hash describes the state at the height it names: no
\* append slips between the read of state.json and the read of the index.
CheckpointMatchesChain ==
  ~evicted =>
    /\ checkpoint.height <= index.height
    /\ checkpoint.covers = Chained(checkpoint.height) \ torn
    /\ checkpoint.height > 0 => checkpoint.seq = blocks[checkpoint.height].to

\* The directory is an append-only, hash-linked, gaplessly numbered log until
\* a live holder is evicted.
Log == INSTANCE LedgerLog WITH log <- Chain, broken <- evicted, NoHash <- 0
ImplementsLog == Log!Spec

\* A caller of the store is never left in the acquire loop: it gets the lock
\* or the ledger_lock_timeout error.
WaitEnds == \A p \in Proc : pc[p] = "want" ~> pc[p] \notin {"want", "steal"}

\* No two acknowledged batches share a seq.
NoSeqSignedTwice ==
  \A a, b \in acked : a # b => (a.from .. a.to) \cap (b.from .. b.to) = {}
=============================================================================

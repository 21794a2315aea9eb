-------------------------- MODULE LedgerChainProofs --------------------------
(***************************************************************************)
(* What the lock protects, for any number of processes, faults and         *)
(* batches: until a live holder is evicted the directory is an append-only *)
(* linked log (LedgerLog) and every acknowledged append is in it.          *)
(*                                                                         *)
(* The invariant says what the files look like at each step of an append:  *)
(* the index always names an existing, linked tip, the draft of the one    *)
(* process inside continues it, and once the index is saved the draft is a *)
(* block of the chain.                                                     *)
(***************************************************************************)
EXTENDS LedgerStoreProofs, SequenceTheorems

TipIsIndexed ==
  /\ \A h \in 1 .. index.height : h \in DOMAIN blocks
  /\ index.height = 0 => index.hash = 0 /\ index.seq = 0
  /\ index.height > 0 => /\ index.hash = blocks[index.height].hash
                         /\ index.seq = blocks[index.height].to

Continues(d) == d.from = index.seq + 1 /\ d.to >= index.seq

Done(p) == pc[p] = "state" \/ (pc[p] \in {"checkpoint", "release"} /\ job[p] = "append")

DraftOK(p) ==
  /\ pc[p] = "write" => Continues(draft[p])
  /\ pc[p] = "index" => /\ Continues(draft[p])
                        /\ draft[p].prev = index.hash
                        /\ draft[p].height = index.height + 1
                        /\ draft[p].height \in DOMAIN blocks
                        /\ blocks[draft[p].height] = BlockOf(draft[p])
  /\ Done(p) => /\ draft[p].height \in 1 .. index.height
                /\ blocks[draft[p].height] = BlockOf(draft[p])

ChainOK == ~evicted => TipIsIndexed /\ AckedInChain /\ \A p \in Proc : DraftOK(p)

-----------------------------------------------------------------------------

\* Only one process is inside, so the others have no draft to protect.
LEMMA OthersOutside ==
  ASSUME MutualExclusion, ~evicted, NEW p \in Proc, InCS(p), NEW q \in Proc, q # p
  PROVE  ~InCS(q)
BY DEF MutualExclusion, InCS, Holds

LEMMA OutsideIsOK ==
  ASSUME NEW q \in Proc, ~InCS(q)
  PROVE  DraftOK(q)
BY DEF InCS, Critical, DraftOK, Done

\* A step that leaves the chain's files alone and moves p to a label that
\* needs no draft, or on along the labels that follow the saved index.
LEMMA LocalStepKeepsChain ==
  ASSUME TypeOK, ChainOK, NEW p \in Proc, NEW l \in PC \ {"write", "index", "state"},
         pc' = [pc EXCEPT ![p] = l],
         l \in {"checkpoint", "release"} /\ job'[p] = "append" =>
           Done(p) /\ draft'[p] = draft[p],
         \A q \in Proc \ {p} : draft'[q] = draft[q] /\ job'[q] = job[q],
         blocks' = blocks, index' = index, evicted => evicted',
         \A b \in acked' \ acked : \E h \in 1 .. index.height : blocks[h] = b
  PROVE  ChainOK'
<1> SUFFICES ASSUME ~evicted' PROVE (TipIsIndexed /\ AckedInChain /\ \A q \in Proc : DraftOK(q))'
  BY DEF ChainOK
<1>1. TipIsIndexed /\ AckedInChain /\ \A q \in Proc : DraftOK(q)
  BY DEF ChainOK
<1>2. TipIsIndexed'
  BY <1>1 DEF TipIsIndexed
<1>3. AckedInChain'
  BY <1>1 DEF AckedInChain
<1>4. ASSUME NEW q \in Proc PROVE DraftOK(q)'
  <2>1. CASE q # p
    <3>1. pc'[q] = pc[q] /\ draft'[q] = draft[q] /\ job'[q] = job[q]
      BY <2>1 DEF TypeOK
    <3> QED
      BY <1>1, <3>1 DEF DraftOK, Done, Continues
  <2>2. CASE q = p
    <3>1. pc'[p] = l /\ l \notin {"write", "index", "state"}
      BY DEF TypeOK
    <3>2. Done(p)' => Done(p) /\ draft'[p] = draft[p]
      BY <3>1 DEF Done
    <3> QED
      BY <1>1, <2>2, <3>1, <3>2 DEF DraftOK
  <2> QED
    BY <2>1, <2>2
<1> QED
  BY <1>2, <1>3, <1>4

-----------------------------------------------------------------------------
(* The three steps of an append that write.                                *)

LEMMA SignKeepsChain ==
  ASSUME TypeOK, ChainOK, NEW p \in Proc, NEW n \in BatchSize, SignTxs(p, n)
  PROVE  ChainOK'
<1> USE DEF disk, ghosts, Goto
<1> SUFFICES ASSUME ~evicted' PROVE (TipIsIndexed /\ AckedInChain /\ \A q \in Proc : DraftOK(q))'
  BY DEF ChainOK
<1>1. /\ UNCHANGED <<blocks, index, acked, evicted, job>>
      /\ pc' = [pc EXCEPT ![p] = "write"]
      /\ draft' = [draft EXCEPT ![p] = Numbered(signed', index.seq, n)]
  BY DEF SignTxs
<1>2. TipIsIndexed /\ AckedInChain /\ \A q \in Proc : DraftOK(q)
  BY <1>1 DEF ChainOK
<1>3. TipIsIndexed' /\ AckedInChain'
  BY <1>1, <1>2 DEF TipIsIndexed, AckedInChain
<1>4. DraftOK(p)'
  <2>1. pc'[p] = "write" /\ draft'[p] = Numbered(signed', index.seq, n)
    BY <1>1 DEF TypeOK
  <2>2. index.seq \in Nat /\ n \in Nat
    BY LedgerAssumption DEF TypeOK
  <2>3. draft'[p].from = index.seq + 1 /\ draft'[p].to = index.seq + n
    BY <2>1 DEF Numbered
  <2>4. Continues(draft[p])'
    BY <1>1, <2>2, <2>3 DEF Continues
  <2> QED
    BY <2>1, <2>4 DEF DraftOK, Done
<1>5. ASSUME NEW q \in Proc, q # p PROVE DraftOK(q)'
  <2>1. pc'[q] = pc[q] /\ draft'[q] = draft[q]
    BY <1>1, <1>5 DEF TypeOK
  <2> QED
    BY <1>1, <1>2, <2>1 DEF DraftOK, Done, Continues
<1> QED
  BY <1>3, <1>4, <1>5

LEMMA WriteKeepsChain ==
  ASSUME TypeOK, MutualExclusion, ChainOK, NEW p \in Proc, WriteBlock(p)
  PROVE  ChainOK'
<1> USE DEF disk, ghosts, Goto
<1> SUFFICES ASSUME ~evicted' PROVE (TipIsIndexed /\ AckedInChain /\ \A q \in Proc : DraftOK(q))'
  BY DEF ChainOK
<1> DEFINE d == Linked(draft[p], index)
<1>1. /\ pc[p] = "write" /\ pc' = [pc EXCEPT ![p] = "index"]
      /\ draft' = [draft EXCEPT ![p] = d]
      /\ blocks' = [k \in DOMAIN blocks \cup {d.height} |->
                     IF k = d.height THEN BlockOf(d) ELSE blocks[k]]
      /\ UNCHANGED <<index, acked, evicted, job>>
  BY DEF WriteBlock
<1>2. /\ TipIsIndexed /\ AckedInChain
      /\ Continues(draft[p])
  BY <1>1 DEF ChainOK, DraftOK
<1>3. index.height \in Nat /\ draft[p] \in Draft /\ index \in Index
  BY DEF TypeOK, Index
<1>4. /\ d.height = index.height + 1 /\ d.prev = index.hash
      /\ d.from = draft[p].from /\ d.to = draft[p].to
  BY DEF Linked
<1>5. /\ d.height \in DOMAIN blocks' /\ blocks'[d.height] = BlockOf(d)
      /\ \A h \in 1 .. index.height :
           h \in DOMAIN blocks => h \in DOMAIN blocks' /\ blocks'[h] = blocks[h]
  <2> HIDE DEF d
  <2> QED
    BY <1>1, <1>3, <1>4
<1> HIDE DEF d
<1>6. TipIsIndexed'
  <2>1. index.height > 0 => index.height \in 1 .. index.height
    BY <1>3
  <2> QED
    BY <1>1, <1>2, <1>3, <1>5, <2>1 DEF TipIsIndexed
<1>7. AckedInChain'
  BY <1>1, <1>2, <1>5 DEF AckedInChain, TipIsIndexed
<1>8. DraftOK(p)'
  <2>1. pc'[p] = "index" /\ draft'[p] = d
    BY <1>1 DEF TypeOK
  <2>2. Continues(draft[p])'
    BY <1>1, <1>2, <1>4, <2>1 DEF Continues
  <2> QED
    BY <1>1, <1>4, <1>5, <2>1, <2>2 DEF DraftOK, Done
<1>9. ASSUME NEW q \in Proc, q # p PROVE DraftOK(q)'
  <2>1. ~InCS(q)
    BY <1>1, <1>9, OthersOutside DEF InCS, Critical
  <2>2. pc'[q] = pc[q]
    BY <1>1, <1>9 DEF TypeOK
  <2> QED
    BY <2>1, <2>2 DEF InCS, Critical, DraftOK, Done
<1> QED
  BY <1>6, <1>7, <1>8, <1>9

LEMMA IndexKeepsChain ==
  ASSUME TypeOK, MutualExclusion, ChainOK, NEW p \in Proc, SaveIndex(p)
  PROVE  ChainOK'
<1> USE DEF disk, ghosts, Goto
<1> SUFFICES ASSUME ~evicted' PROVE (TipIsIndexed /\ AckedInChain /\ \A q \in Proc : DraftOK(q))'
  BY DEF ChainOK
<1>1. /\ pc[p] = "index" /\ pc' = [pc EXCEPT ![p] = "state"]
      /\ index' = [height |-> draft[p].height, hash |-> draft[p].hash, seq |-> draft[p].to]
      /\ UNCHANGED <<blocks, acked, evicted, job, draft>>
  BY DEF SaveIndex
<1>2. /\ TipIsIndexed /\ AckedInChain
      /\ draft[p].height = index.height + 1
      /\ draft[p].height \in DOMAIN blocks
      /\ blocks[draft[p].height] = BlockOf(draft[p])
  BY <1>1 DEF ChainOK, DraftOK
<1>3. index.height \in Nat
  BY DEF TypeOK
<1>4. index'.height = index.height + 1 /\ index'.hash = draft[p].hash /\ index'.seq = draft[p].to
  BY <1>1, <1>2
<1>5. TipIsIndexed'
  <2>1. blocks[index'.height].hash = draft[p].hash /\ blocks[index'.height].to = draft[p].to
    BY <1>2, <1>4 DEF BlockOf
  <2>2. \A h \in 1 .. index'.height : h \in DOMAIN blocks
    BY <1>2, <1>3, <1>4 DEF TipIsIndexed
  <2> QED
    BY <1>1, <1>3, <1>4, <2>1, <2>2 DEF TipIsIndexed
<1>6. AckedInChain'
  BY <1>1, <1>2, <1>3, <1>4 DEF AckedInChain
<1>7. DraftOK(p)'
  <2>1. pc'[p] = "state"
    BY <1>1 DEF TypeOK
  <2>2. draft[p].height \in 1 .. index'.height
    BY <1>2, <1>3, <1>4
  <2> QED
    BY <1>1, <1>2, <2>1, <2>2 DEF DraftOK
<1>8. ASSUME NEW q \in Proc, q # p PROVE DraftOK(q)'
  <2>1. ~InCS(q)
    BY <1>1, <1>8, OthersOutside DEF InCS, Critical
  <2>2. pc'[q] = pc[q]
    BY <1>1, <1>8 DEF TypeOK
  <2> QED
    BY <2>1, <2>2 DEF InCS, Critical, DraftOK, Done
<1> QED
  BY <1>5, <1>6, <1>7, <1>8

\* releaseLock acknowledges an append only after its block is in the chain.
LEMMA ReleaseKeepsChain ==
  ASSUME TypeOK, ChainOK, NEW p \in Proc, ReleaseLock(p)
  PROVE  ChainOK'
<1>1. /\ pc[p] \in {"release", "abort"} /\ pc' = [pc EXCEPT ![p] = "idle"]
      /\ draft' = [draft EXCEPT ![p] = NoDraft]
      /\ blocks' = blocks /\ index' = index /\ job' = job
  BY DEF ReleaseLock, disk, Goto
<1>2. evicted => evicted'
  BY DEF ReleaseLock
<1>3. \A b \in acked' \ acked : Done(p) /\ b = BlockOf(draft[p])
  <2>1. acked' = IF pc[p] = "release" /\ job[p] = "append"
                   THEN acked \cup {BlockOf(draft[p])} ELSE acked
    BY DEF ReleaseLock
  <2> QED
    BY <2>1 DEF Done
<1>4. \A q \in Proc \ {p} : draft'[q] = draft[q]
  <2> HIDE DEF NoDraft
  <2> QED
    BY <1>1 DEF TypeOK
<1>5. CASE evicted
  BY <1>2, <1>5 DEF ChainOK
<1>6. CASE ~evicted
  <2>1. Done(p) => \E h \in 1 .. index.height : blocks[h] = BlockOf(draft[p])
    BY <1>6 DEF ChainOK, DraftOK
  <2>2. \A b \in acked' \ acked : \E h \in 1 .. index.height : blocks[h] = b
    BY <1>3, <2>1
  <2> QED
    BY <1>1, <1>2, <1>4, <2>2, LocalStepKeepsChain DEF PC, Critical
<1> QED
  BY <1>5, <1>6

LEMMA ChainStep == TypeOK /\ MutualExclusion /\ ChainOK /\ [Next]_vars => ChainOK'
<1> SUFFICES ASSUME TypeOK, MutualExclusion, ChainOK, [Next]_vars PROVE ChainOK'
  OBVIOUS
<1> USE DEF disk, ghosts, Goto
<1>1. CASE Age
  BY <1>1 DEF Age, ChainOK, TipIsIndexed, AckedInChain, DraftOK, Done, Continues
<1>2. ASSUME NEW p \in Proc, NEW j \in Job, Want(p, j) PROVE ChainOK'
  <2>1. \A q \in Proc \ {p} : draft'[q] = draft[q] /\ job'[q] = job[q]
    BY <1>2 DEF Want, TypeOK
  <2> QED
    BY <1>2, <2>1, LocalStepKeepsChain DEF Want, PC, Critical
<1>3. ASSUME NEW p \in Proc, Open(p) PROVE ChainOK'
  BY <1>3, LocalStepKeepsChain DEF Open, PC, Critical
<1>4. ASSUME NEW p \in Proc, Inspect(p) PROVE ChainOK'
  BY <1>4, LocalStepKeepsChain DEF Inspect, PC, Critical
<1>5. ASSUME NEW p \in Proc, TimeOut(p) PROVE ChainOK'
  BY <1>5, LocalStepKeepsChain DEF TimeOut, PC, Critical
<1>6. ASSUME NEW p \in Proc, Steal(p) PROVE ChainOK'
  <2>1. /\ pc' = [pc EXCEPT ![p] = "want"]
        /\ evicted => evicted'
        /\ UNCHANGED <<draft, job, blocks, index, acked>>
    BY <1>6 DEF Steal
  <2> QED
    BY <2>1, LocalStepKeepsChain DEF PC, Critical
<1>7. ASSUME NEW p \in Proc, WriteLock(p) PROVE ChainOK'
  <2>1. PICK l \in {"sign", "checkpoint"} :
          pc' = [pc EXCEPT ![p] = l] /\ (l = "checkpoint" => job[p] # "append")
    BY <1>7 DEF WriteLock
  <2>2. UNCHANGED <<draft, job, blocks, index, acked, evicted>>
    BY <1>7 DEF WriteLock
  <2> QED
    BY <2>1, <2>2, LocalStepKeepsChain DEF PC, Critical
<1>8. ASSUME NEW p \in Proc, NEW n \in BatchSize, SignTxs(p, n) PROVE ChainOK'
  BY <1>8, SignKeepsChain
<1>9. ASSUME NEW p \in Proc, WriteBlock(p) PROVE ChainOK'
  BY <1>9, WriteKeepsChain
<1>10. ASSUME NEW p \in Proc, SaveIndex(p) PROVE ChainOK'
  BY <1>10, IndexKeepsChain
<1>11. ASSUME NEW p \in Proc, SaveState(p) PROVE ChainOK'
  <2>1. Done(p)
    BY <1>11 DEF SaveState, Done
  <2>2. PICK l \in {"checkpoint", "release"} : pc' = [pc EXCEPT ![p] = l]
    BY <1>11 DEF SaveState
  <2>3. UNCHANGED <<draft, job, blocks, index, acked, evicted>>
    BY <1>11 DEF SaveState
  <2> QED
    BY <2>1, <2>2, <2>3, LocalStepKeepsChain DEF PC, Critical
<1>12. ASSUME NEW p \in Proc, BuildCheckpoint(p) PROVE ChainOK'
  <2>1. job[p] = "append" => Done(p)
    BY <1>12 DEF BuildCheckpoint, Done
  <2> QED
    BY <1>12, <2>1, LocalStepKeepsChain DEF BuildCheckpoint, PC, Critical
<1>13. ASSUME NEW p \in Proc, ReleaseLock(p) PROVE ChainOK'
  BY <1>13, ReleaseKeepsChain
<1>14. ASSUME NEW p \in Proc, WriteLockFails(p) PROVE ChainOK'
  BY <1>14, LocalStepKeepsChain DEF WriteLockFails, PC, Critical
<1>15. ASSUME NEW p \in Proc, Fail(p) PROVE ChainOK'
  BY <1>15, LocalStepKeepsChain DEF Fail, PC, Critical
<1>16. ASSUME NEW p \in Proc, Crash(p) PROVE ChainOK'
  <2>1. \A q \in Proc \ {p} : draft'[q] = draft[q]
    <3> HIDE DEF NoDraft
    <3> QED
      BY <1>16 DEF Crash, TypeOK
  <2> QED
    BY <1>16, <2>1, LocalStepKeepsChain DEF Crash, PC, Critical
<1>17. ASSUME NEW p \in Proc, Restart(p) PROVE ChainOK'
  BY <1>17, LocalStepKeepsChain DEF Restart, PC, Critical
<1>18. CASE UNCHANGED vars
  BY <1>18 DEF vars, ChainOK, TipIsIndexed, AckedInChain, DraftOK, Done, Continues
<1> QED
  BY <1>1, <1>2, <1>3, <1>4, <1>5, <1>6, <1>7, <1>8, <1>9, <1>10, <1>11, <1>12, <1>13,
     <1>14, <1>15, <1>16, <1>17, <1>18
     DEF Next, Step, Acquire, AppendStep, Fault

LEMMA ChainInit == Init => ChainOK
BY DEF Init, ChainOK, TipIsIndexed, AckedInChain, DraftOK, Done

LEMMA ChainInvariant == Spec => []ChainOK
BY ChainInit, ChainStep, TypeCorrect, Exclusion, PTL DEF Spec

\* Until a live holder is evicted, every append that returned success is a
\* block of the chain, under the height and the seqs its caller was given.
THEOREM AcknowledgedAppendsSurvive == Spec => []AckedInChain
<1>1. ChainOK => AckedInChain
  BY DEF ChainOK, AckedInChain
<1> QED
  BY <1>1, ChainInvariant, PTL

-----------------------------------------------------------------------------
(* The directory implements the abstract log.                              *)

ChainSequence ==
  /\ Chain \in Seq(Block) /\ Len(Chain) = index.height
  /\ \A h \in 1 .. index.height : Chain[h] = blocks[h]

\* The chain is a sequence of as many blocks as the index counts.
LEMMA ChainIsSequence == TypeOK /\ TipIsIndexed => ChainSequence
<1> SUFFICES ASSUME TypeOK, TipIsIndexed PROVE ChainSequence
  OBVIOUS
<1>1. index.height \in Nat
  BY DEF TypeOK
<1>2. Chain \in [1 .. index.height -> Block]
  BY DEF Chain, TypeOK, TipIsIndexed
<1>3. Chain \in Seq(Block)
  BY <1>1, <1>2, SeqDef
<1>4. Len(Chain) \in Nat /\ DOMAIN Chain = 1 .. Len(Chain)
  BY <1>3, LenProperties
<1>5. 1 .. Len(Chain) = 1 .. index.height
  BY <1>2, <1>4
<1>6. Len(Chain) = index.height
  BY <1>1, <1>4, <1>5
<1> QED
  BY <1>3, <1>6 DEF Chain, ChainSequence

LEMMA TipOfChain ==
  ASSUME TypeOK, TipIsIndexed
  PROVE  Log!TipHash = index.hash /\ Log!TipSeq = index.seq
<1>1. index.height \in Nat
  BY DEF TypeOK
<1>2. CASE index.height = 0
  <2>1. Chain = <<>>
    BY <1>2, ChainIsSequence, EmptySeq DEF ChainSequence
  <2> QED
    BY <1>2, <2>1 DEF Log!TipHash, Log!TipSeq, TipIsIndexed
<1>3. CASE index.height > 0
  <2>1. Chain # <<>>
    BY <1>3, ChainIsSequence, EmptySeq DEF ChainSequence
  <2>2. Chain[Len(Chain)] = blocks[index.height]
    BY <1>1, <1>3, ChainIsSequence DEF ChainSequence
  <2> QED
    BY <1>3, <2>1, <2>2 DEF Log!TipHash, Log!TipSeq, TipIsIndexed
<1> QED
  BY <1>1, <1>2, <1>3

\* The index moves to the next height over an intact prefix.
LEMMA SaveIndexCommits ==
  ASSUME TypeOK, TypeOK', MutualExclusion, ChainOK, ChainOK', ~evicted,
         NEW p \in Proc, SaveIndex(p)
  PROVE  Log!Commit
<1>1. /\ blocks' = blocks /\ evicted' = evicted
      /\ index'.height = draft[p].height /\ pc[p] = "index"
  BY DEF SaveIndex, disk, ghosts
<1>2. /\ TipIsIndexed /\ TipIsIndexed'
      /\ Continues(draft[p]) /\ draft[p].prev = index.hash
      /\ draft[p].height = index.height + 1
      /\ blocks[draft[p].height] = BlockOf(draft[p])
  BY <1>1 DEF ChainOK, DraftOK
<1>3. index.height \in Nat
  BY DEF TypeOK
<1>4. ChainSequence
  BY <1>2, ChainIsSequence
<1>5. ChainSequence'
  BY <1>2, ChainIsSequence, PTL
<1> USE DEF ChainSequence
<1>6. Len(Chain') = Len(Chain) + 1
  BY <1>1, <1>2, <1>4, <1>5
<1>7. SubSeq(Chain', 1, Len(Chain)) = Chain
  <2>1. \A i \in 1 .. Len(Chain) : Chain'[i] = Chain[i] /\ Chain'[i] \in Block
    BY <1>1, <1>3, <1>4, <1>5, <1>6, ElementOfSeq
  <2>2. /\ SubSeq(Chain', 1, Len(Chain)) \in Seq(Block)
        /\ Len(SubSeq(Chain', 1, Len(Chain))) = Len(Chain)
        /\ \A i \in 1 .. Len(Chain) : SubSeq(Chain', 1, Len(Chain))[i] = Chain'[i]
    BY <1>3, <1>4, <2>1, SubSeqProperties
  <2> QED
    BY <1>4, <2>1, <2>2, SeqEqual
<1>8. Log!Extends(Chain'[Len(Chain')])
  <2>1. Chain'[Len(Chain')] = BlockOf(draft[p])
    BY <1>1, <1>2, <1>3, <1>5
  <2>2. draft[p].to \in Nat /\ index.seq \in Nat
    BY DraftFacts DEF TypeOK
  <2> QED
    BY <1>2, <2>1, <2>2, TipOfChain DEF Log!Extends, Continues, BlockOf
<1> QED
  BY <1>1, <1>6, <1>7, <1>8 DEF Log!Commit

LEMMA WriteBlockStutters ==
  ASSUME TypeOK, TipIsIndexed, NEW p \in Proc, WriteBlock(p)
  PROVE  Chain' = Chain /\ evicted' = evicted
<1> DEFINE d == Linked(draft[p], index)
<1>1. /\ blocks' = [k \in DOMAIN blocks \cup {d.height} |->
                     IF k = d.height THEN BlockOf(d) ELSE blocks[k]]
      /\ index' = index /\ evicted' = evicted
  BY DEF WriteBlock, disk, ghosts
<1>2. index.height \in Nat /\ d.height = index.height + 1
  BY DEF TypeOK, Linked
<1> HIDE DEF d
<1>3. \A h \in 1 .. index.height : blocks'[h] = blocks[h]
  <2> SUFFICES ASSUME NEW h \in 1 .. index.height PROVE blocks'[h] = blocks[h]
    OBVIOUS
  <2>1. h # d.height /\ h \in DOMAIN blocks
    BY <1>2 DEF TipIsIndexed
  <2> QED
    BY <1>1, <2>1
<1> QED
  BY <1>1, <1>3 DEF Chain

\* The lock, the faults and the files beside the chain: nothing an observer of
\* the log sees, except that an eviction breaks the promise.
LEMMA OtherStepsKeepChain ==
  ASSUME [Next]_vars,
         \A p \in Proc : ~WriteBlock(p) /\ ~SaveIndex(p)
  PROVE  blocks' = blocks /\ index' = index
<1> USE DEF disk, ghosts
<1>1. CASE Age
  BY <1>1 DEF Age
<1>2. ASSUME NEW p \in Proc, NEW j \in Job, Want(p, j) PROVE UNCHANGED <<blocks, index>>
  BY <1>2 DEF Want
<1>3. ASSUME NEW p \in Proc, Acquire(p) PROVE UNCHANGED <<blocks, index>>
  BY <1>3 DEF Acquire, Open, Inspect, TimeOut
<1>4. ASSUME NEW p \in Proc, Steal(p) \/ WriteLock(p) PROVE UNCHANGED <<blocks, index>>
  BY <1>4 DEF Steal, WriteLock
<1>5. ASSUME NEW p \in Proc, AppendStep(p) PROVE UNCHANGED <<blocks, index>>
  BY <1>5 DEF AppendStep, SignTxs, SaveState, BuildCheckpoint
<1>6. ASSUME NEW p \in Proc, ReleaseLock(p) PROVE UNCHANGED <<blocks, index>>
  BY <1>6 DEF ReleaseLock
<1>7. ASSUME NEW p \in Proc, Fault(p) PROVE UNCHANGED <<blocks, index>>
  BY <1>7 DEF Fault, WriteLockFails, Fail, Crash, Restart
<1>8. CASE UNCHANGED vars
  BY <1>8 DEF vars
<1> QED
  BY <1>1, <1>2, <1>3, <1>4, <1>5, <1>6, <1>7, <1>8 DEF Next, Step

\* Nothing heals the promise.
LEMMA EvictedForGood == [Next]_vars /\ evicted => evicted'
<1> SUFFICES ASSUME [Next]_vars, evicted PROVE evicted'
  OBVIOUS
<1> USE DEF disk, ghosts
<1>1. CASE Age
  BY <1>1 DEF Age
<1>2. ASSUME NEW p \in Proc, NEW j \in Job, Want(p, j) PROVE evicted'
  BY <1>2 DEF Want
<1>3. ASSUME NEW p \in Proc, Acquire(p) PROVE evicted'
  BY <1>3 DEF Acquire, Open, Inspect, TimeOut
<1>4. ASSUME NEW p \in Proc, Steal(p) PROVE evicted'
  BY <1>4 DEF Steal
<1>5. ASSUME NEW p \in Proc, WriteLock(p) PROVE evicted'
  BY <1>5 DEF WriteLock
<1>6. ASSUME NEW p \in Proc, AppendStep(p) PROVE evicted'
  BY <1>6 DEF AppendStep, SignTxs, WriteBlock, SaveIndex, SaveState, BuildCheckpoint
<1>7. ASSUME NEW p \in Proc, ReleaseLock(p) PROVE evicted'
  BY <1>7 DEF ReleaseLock
<1>8. ASSUME NEW p \in Proc, Fault(p) PROVE evicted'
  BY <1>8 DEF Fault, WriteLockFails, Fail, Crash, Restart
<1>9. CASE UNCHANGED vars
  BY <1>9 DEF vars
<1> QED
  BY <1>1, <1>2, <1>3, <1>4, <1>5, <1>6, <1>7, <1>8, <1>9 DEF Next, Step

LEMMA LogInit == Init => Log!Init
<1> SUFFICES ASSUME Init PROVE Log!Init
  OBVIOUS
<1>1. TypeOK /\ TipIsIndexed /\ index.height = 0
  BY TypeInit DEF Init, TipIsIndexed
<1>2. Chain = <<>>
  BY <1>1, ChainIsSequence, EmptySeq DEF ChainSequence
<1> QED
  BY <1>2 DEF Init, Log!Init

LEMMA LogStep ==
  /\ TypeOK /\ MutualExclusion /\ ChainOK
  /\ TypeOK' /\ ChainOK'
  /\ [Next]_vars
  => [Log!Next]_(Log!logVars)
<1> SUFFICES ASSUME TypeOK, MutualExclusion, ChainOK, TypeOK', ChainOK', [Next]_vars
             PROVE  [Log!Next]_(Log!logVars)
  OBVIOUS
<1>a. evicted \in BOOLEAN /\ evicted' \in BOOLEAN
  BY DEF TypeOK
<1>1. CASE evicted
  <2>1. evicted'
    BY <1>1, EvictedForGood
  <2> QED
    BY <1>a, <1>1, <2>1 DEF Log!Next, Log!Havoc
<1>2. ASSUME ~evicted, NEW p \in Proc, SaveIndex(p) PROVE [Log!Next]_(Log!logVars)
  BY <1>2, SaveIndexCommits DEF Log!Next
<1>3. ASSUME ~evicted, NEW p \in Proc, WriteBlock(p) PROVE [Log!Next]_(Log!logVars)
  <2>1. TipIsIndexed
    BY <1>3 DEF ChainOK
  <2> QED
    BY <1>3, <2>1, WriteBlockStutters DEF Log!logVars
<1>4. CASE ~evicted /\ \A p \in Proc : ~WriteBlock(p) /\ ~SaveIndex(p)
  <2>1. Chain' = Chain
    BY <1>4, OtherStepsKeepChain DEF Chain
  <2>2. CASE evicted'
    BY <1>a, <1>4, <2>1, <2>2 DEF Log!Next, Log!Break
  <2>3. CASE ~evicted'
    BY <1>a, <1>4, <2>1, <2>3 DEF Log!logVars
  <2> QED
    BY <2>2, <2>3
<1>5. ~evicted => \/ \E p \in Proc : WriteBlock(p) \/ SaveIndex(p)
                  \/ \A p \in Proc : ~WriteBlock(p) /\ ~SaveIndex(p)
  OBVIOUS
<1> QED
  BY <1>1, <1>2, <1>3, <1>4, <1>5

\* The ledger directory implements the abstract log: every behaviour of the
\* files is an append-only, hash-linked, gaplessly numbered list of blocks, one
\* block at a time, until a live holder is evicted.
THEOREM LedgerImplementsLog == Spec => ImplementsLog
<1> DEFINE Inv == TypeOK /\ MutualExclusion /\ ChainOK
<1>1. Spec => []Inv
  BY TypeCorrect, Exclusion, ChainInvariant, PTL
<1>2. Inv /\ Inv' /\ [Next]_vars => [Log!Next]_(Log!logVars)
  BY LogStep
<1> HIDE DEF Inv
<1> QED
  BY <1>1, <1>2, LogInit, PTL DEF Spec, ImplementsLog, Log!Spec
=============================================================================

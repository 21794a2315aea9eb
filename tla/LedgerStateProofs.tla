-------------------------- MODULE LedgerStateProofs --------------------------
(***************************************************************************)
(* The two files derived from the chain, state.json and checkpoint.json:   *)
(* what they hold of it, for any number of processes, faults and batches.  *)
(*                                                                         *)
(* The invariant adds that hashes are fresh: what is about to be chained is *)
(* not in the chain, in no checkpoint and not torn, so that an append which *)
(* stops half way takes back nothing that was already said.                *)
(***************************************************************************)
EXTENDS LedgerChainProofs

\* Blocks in the index whose append has still to write state.json.
AtState == {draft[p].hash : p \in {q \in Proc : pc[q] = "state"}}

Fresh(p) ==
  /\ pc[p] \in {"write", "index"} => /\ draft[p].hash \in 1 .. signed
                                     /\ draft[p].hash \notin Chained(index.height)
  /\ pc[p] = "state" => /\ draft[p].hash \in Chained(index.height)
                        /\ draft[p].hash \notin torn
                        /\ draft[p].hash \notin Chained(checkpoint.height)

StateFits ==
  /\ applied = Chained(index.height) \ (torn \cup AtState)
  /\ Chained(index.height) \subseteq 1 .. signed
  /\ torn \subseteq Chained(index.height)
  /\ \A p \in Proc : Fresh(p)

CheckpointFits ==
  /\ checkpoint.height <= index.height
  /\ checkpoint.covers = Chained(checkpoint.height) \ torn
  /\ checkpoint.height > 0 => checkpoint.seq = blocks[checkpoint.height].to

StateOK == ~evicted => StateFits /\ CheckpointFits

-----------------------------------------------------------------------------

LEMMA ChainGrows ==
  ASSUME NEW h \in Nat, NEW k \in Nat, h <= k
  PROVE  Chained(h) \subseteq Chained(k)
BY DEF Chained

\* A step that writes none of the files and takes p from a label that has
\* nothing pending to one that has nothing to protect.
LEMMA LocalStepKeepsState ==
  ASSUME TypeOK, StateOK, NEW p \in Proc, pc[p] # "state",
         NEW l \in PC \ {"write", "index", "state"}, pc' = [pc EXCEPT ![p] = l],
         \A q \in Proc \ {p} : draft'[q] = draft[q],
         UNCHANGED <<blocks, index, applied, checkpoint, torn, signed>>, evicted => evicted'
  PROVE  StateOK'
<1> SUFFICES ASSUME ~evicted' PROVE (StateFits /\ CheckpointFits)'
  BY DEF StateOK
<1>1. StateFits /\ CheckpointFits
  BY DEF StateOK
<1>2. \A q \in Proc \ {p} : pc'[q] = pc[q] /\ draft'[q] = draft[q]
  BY DEF TypeOK
<1>3. pc'[p] = l
  BY DEF TypeOK
<1>4. \A h : Chained(h)' = Chained(h)
  BY DEF Chained
<1>5. AtState' = AtState
  BY <1>2, <1>3 DEF AtState
<1>6. \A q \in Proc : Fresh(q)'
  BY <1>1, <1>2, <1>3, <1>4 DEF Fresh, StateFits
<1> QED
  BY <1>1, <1>4, <1>5, <1>6 DEF StateFits, CheckpointFits

\* While p is inside, nobody else has anything pending.
LEMMA AloneAtState ==
  ASSUME MutualExclusion, ~evicted, NEW p \in Proc, InCS(p)
  PROVE  AtState = IF pc[p] = "state" THEN {draft[p].hash} ELSE {}
<1>1. \A q \in Proc \ {p} : pc[q] # "state"
  BY OthersOutside DEF InCS, Critical
<1> QED
  BY <1>1 DEF AtState

\* The others stay outside during a step of p inside.
LEMMA OthersStayFresh ==
  ASSUME TypeOK, MutualExclusion, ~evicted, NEW p \in Proc, InCS(p),
         NEW l \in PC, pc' = [pc EXCEPT ![p] = l]
  PROVE  \A q \in Proc \ {p} : Fresh(q)' /\ pc'[q] # "state"
<1>1. \A q \in Proc \ {p} : pc[q] \notin {"write", "index", "state"}
  BY OthersOutside DEF InCS, Critical
<1>2. \A q \in Proc \ {p} : pc'[q] = pc[q]
  BY DEF TypeOK
<1> QED
  BY <1>1, <1>2 DEF Fresh

LEMMA SignKeepsState ==
  ASSUME TypeOK, MutualExclusion, StateOK, NEW p \in Proc, NEW n \in BatchSize, SignTxs(p, n)
  PROVE  StateOK'
<1> SUFFICES ASSUME ~evicted' PROVE (StateFits /\ CheckpointFits)'
  BY DEF StateOK
<1>1. /\ pc[p] = "sign" /\ pc' = [pc EXCEPT ![p] = "write"]
      /\ signed' = signed + 1
      /\ draft' = [draft EXCEPT ![p] = Numbered(signed', index.seq, n)]
      /\ UNCHANGED <<blocks, index, applied, checkpoint, torn, evicted>>
  BY DEF SignTxs, disk, ghosts, Goto
<1>2. StateFits /\ CheckpointFits
  BY <1>1 DEF StateOK
<1>3. InCS(p) /\ "write" \in PC
  BY <1>1 DEF InCS, Critical, PC
<1>4. \A q \in Proc \ {p} : Fresh(q)' /\ pc'[q] # "state"
  BY <1>1, <1>3, OthersStayFresh
<1>5. pc'[p] = "write" /\ draft'[p].hash = signed + 1
  BY <1>1 DEF TypeOK, Numbered
<1>6. \A h : Chained(h)' = Chained(h)
  BY <1>1 DEF Chained
<1>7. AtState' = AtState
  <2>1. AtState = {}
    BY <1>1, <1>3, AloneAtState
  <2>2. AtState' = {}
    BY <1>4, <1>5 DEF AtState
  <2> QED
    BY <2>1, <2>2
<1>8. signed \in Nat
  BY DEF TypeOK
<1>9. Fresh(p)'
  BY <1>1, <1>2, <1>5, <1>6, <1>8 DEF Fresh, StateFits
<1> QED
  BY <1>1, <1>2, <1>4, <1>6, <1>7, <1>8, <1>9 DEF StateFits, CheckpointFits

\* The block file is written above the index: the chain does not see it.
LEMMA WriteKeepsState ==
  ASSUME TypeOK, MutualExclusion, ChainOK, StateOK, NEW p \in Proc, WriteBlock(p)
  PROVE  StateOK'
<1> SUFFICES ASSUME ~evicted' PROVE (StateFits /\ CheckpointFits)'
  BY DEF StateOK
<1> DEFINE d == Linked(draft[p], index)
<1>1. /\ pc[p] = "write" /\ pc' = [pc EXCEPT ![p] = "index"]
      /\ draft' = [draft EXCEPT ![p] = d]
      /\ blocks' = [k \in DOMAIN blocks \cup {d.height} |->
                     IF k = d.height THEN BlockOf(d) ELSE blocks[k]]
      /\ UNCHANGED <<index, applied, checkpoint, torn, signed, evicted>>
  BY DEF WriteBlock, disk, ghosts, Goto
<1>2. StateFits /\ CheckpointFits /\ TipIsIndexed
  BY <1>1 DEF StateOK, ChainOK
<1>3. InCS(p) /\ "index" \in PC
  BY <1>1 DEF InCS, Critical, PC
<1>4. \A q \in Proc \ {p} : Fresh(q)' /\ pc'[q] # "state"
  BY <1>1, <1>3, OthersStayFresh
<1>5. index.height \in Nat /\ checkpoint.height \in Nat
  BY DEF TypeOK
<1>6. d.hash = draft[p].hash /\ d.height = index.height + 1
  BY DEF Linked
<1>7. pc'[p] = "index" /\ draft'[p] = d
  BY <1>1 DEF TypeOK
<1> HIDE DEF d
<1>8. \A h \in 1 .. index.height : blocks'[h] = blocks[h]
  <2>1. \A h \in 1 .. index.height : h \in DOMAIN blocks /\ h # d.height
    BY <1>2, <1>5, <1>6 DEF TipIsIndexed
  <2> QED
    BY <1>1, <2>1
<1>a. index' = index /\ checkpoint' = checkpoint
  BY <1>1
<1>9. Chained(index.height)' = Chained(index.height)
  BY <1>8, <1>a DEF Chained
<1>10. Chained(checkpoint.height)' = Chained(checkpoint.height)
  <2>1. \A h \in 1 .. checkpoint.height : blocks'[h] = blocks[h]
    BY <1>2, <1>5, <1>8 DEF CheckpointFits
  <2> QED
    BY <1>a, <2>1 DEF Chained
<1>11. AtState' = AtState
  <2>1. AtState = {}
    BY <1>1, <1>3, AloneAtState
  <2>2. AtState' = {}
    BY <1>4, <1>7 DEF AtState
  <2> QED
    BY <2>1, <2>2
<1>12. Fresh(p)'
  BY <1>1, <1>2, <1>6, <1>7, <1>9 DEF Fresh, StateFits
<1>13. CheckpointFits'
  <2>1. checkpoint.height > 0 => checkpoint.height \in 1 .. index.height
    BY <1>2, <1>5 DEF CheckpointFits
  <2> QED
    BY <1>1, <1>2, <1>8, <1>10, <2>1 DEF CheckpointFits
<1> QED
  BY <1>1, <1>2, <1>4, <1>9, <1>11, <1>12, <1>13 DEF StateFits

\* The block joins the chain and waits for state.json.
LEMMA IndexKeepsState ==
  ASSUME TypeOK, MutualExclusion, ChainOK, StateOK, NEW p \in Proc, SaveIndex(p)
  PROVE  StateOK'
<1> SUFFICES ASSUME ~evicted' PROVE (StateFits /\ CheckpointFits)'
  BY DEF StateOK
<1>1. /\ pc[p] = "index" /\ pc' = [pc EXCEPT ![p] = "state"]
      /\ index' = [height |-> draft[p].height, hash |-> draft[p].hash, seq |-> draft[p].to]
      /\ UNCHANGED <<blocks, draft, applied, checkpoint, torn, signed, evicted>>
  BY DEF SaveIndex, disk, ghosts, Goto
<1>2. /\ StateFits /\ CheckpointFits
      /\ draft[p].height = index.height + 1
      /\ blocks[draft[p].height] = BlockOf(draft[p])
      /\ Fresh(p)
  BY <1>1 DEF StateOK, ChainOK, DraftOK, StateFits
<1>3. InCS(p) /\ "state" \in PC
  BY <1>1 DEF InCS, Critical, PC
<1>4. \A q \in Proc \ {p} : Fresh(q)' /\ pc'[q] # "state"
  BY <1>1, <1>3, OthersStayFresh
<1>5. index.height \in Nat /\ checkpoint.height \in Nat
  BY DEF TypeOK
<1>6. pc'[p] = "state" /\ index'.height = index.height + 1
  BY <1>1, <1>2 DEF TypeOK
<1>7. blocks[index.height + 1].hash = draft[p].hash
  BY <1>2 DEF BlockOf
<1>8. Chained(index.height)' = Chained(index.height) \cup {draft[p].hash}
  <2>1. 1 .. index'.height = (1 .. index.height) \cup {index.height + 1}
    BY <1>5, <1>6
  <2>2. blocks' = blocks
    BY <1>1
  <2> QED
    BY <1>7, <2>1, <2>2 DEF Chained
<1>9. Chained(checkpoint.height)' = Chained(checkpoint.height)
  BY <1>1 DEF Chained
<1>10. Chained(checkpoint.height) \subseteq Chained(index.height)
  BY <1>2, <1>5, ChainGrows DEF CheckpointFits
<1>11. AtState = {} /\ AtState' = {draft[p].hash}
  <2>1. AtState = {}
    BY <1>1, <1>3, AloneAtState
  <2>2. AtState' = {draft'[p].hash}
    BY <1>4, <1>6 DEF AtState
  <2> QED
    BY <1>1, <2>1, <2>2
<1>12. draft[p].hash \in 1 .. signed /\ draft[p].hash \notin Chained(index.height)
  BY <1>1, <1>2 DEF Fresh
<1>13. draft[p].hash \notin torn /\ draft[p].hash \notin Chained(checkpoint.height)
  BY <1>2, <1>10, <1>12 DEF StateFits
<1>14. Fresh(p)'
  BY <1>1, <1>6, <1>8, <1>9, <1>13 DEF Fresh
<1>15. StateFits'
  BY <1>1, <1>2, <1>4, <1>8, <1>11, <1>12, <1>13, <1>14 DEF StateFits
<1>16. CheckpointFits'
  <2>1. checkpoint'.height <= index'.height
    BY <1>1, <1>2, <1>5, <1>6 DEF CheckpointFits
  <2> QED
    BY <1>1, <1>2, <1>9, <2>1 DEF CheckpointFits
<1> QED
  BY <1>15, <1>16

LEMMA StateKeepsState ==
  ASSUME TypeOK, MutualExclusion, StateOK, NEW p \in Proc, SaveState(p)
  PROVE  StateOK'
<1> SUFFICES ASSUME ~evicted' PROVE (StateFits /\ CheckpointFits)'
  BY DEF StateOK
<1>1. /\ pc[p] = "state"
      /\ applied' = applied \cup {draft[p].hash}
      /\ UNCHANGED <<blocks, index, draft, checkpoint, torn, signed, evicted>>
  BY DEF SaveState, disk, ghosts
<1>2. PICK l \in {"checkpoint", "release"} : pc' = [pc EXCEPT ![p] = l]
  BY DEF SaveState, Goto
<1>3. StateFits /\ CheckpointFits /\ Fresh(p)
  BY <1>1 DEF StateOK, StateFits
<1>4. InCS(p) /\ l \in PC
  BY <1>1, <1>2 DEF InCS, Critical, PC
<1>5. \A q \in Proc \ {p} : Fresh(q)' /\ pc'[q] # "state"
  BY <1>1, <1>2, <1>4, OthersStayFresh
<1>6. pc'[p] = l
  BY <1>2 DEF TypeOK
<1>7. AtState = {draft[p].hash} /\ AtState' = {}
  <2>1. AtState = {draft[p].hash}
    BY <1>1, <1>4, AloneAtState
  <2>2. AtState' = {}
    BY <1>2, <1>5, <1>6 DEF AtState
  <2> QED
    BY <2>1, <2>2
<1>8. \A h : Chained(h)' = Chained(h)
  BY <1>1 DEF Chained
<1>9. draft[p].hash \in Chained(index.height) /\ draft[p].hash \notin torn
  BY <1>1, <1>3 DEF Fresh
<1>10. Fresh(p)'
  BY <1>2, <1>6 DEF Fresh
<1>11. applied' = Chained(index.height) \ torn
  BY <1>1, <1>3, <1>7, <1>9 DEF StateFits
<1> QED
  BY <1>1, <1>3, <1>5, <1>7, <1>8, <1>10, <1>11 DEF StateFits, CheckpointFits

\* Under the lock the index and the state belong to each other.
LEMMA CheckpointKeepsState ==
  ASSUME TypeOK, MutualExclusion, ChainOK, StateOK, NEW p \in Proc, BuildCheckpoint(p)
  PROVE  StateOK'
<1> SUFFICES ASSUME ~evicted' PROVE (StateFits /\ CheckpointFits)'
  BY DEF StateOK
<1>1. /\ pc[p] = "checkpoint" /\ pc' = [pc EXCEPT ![p] = "release"]
      /\ checkpoint' = [height |-> index.height, seq |-> index.seq, covers |-> applied]
      /\ UNCHANGED <<blocks, index, draft, applied, torn, signed, evicted>>
  BY DEF BuildCheckpoint, disk, ghosts, Goto
<1>2. StateFits /\ TipIsIndexed
  BY <1>1 DEF StateOK, ChainOK
<1>3. InCS(p) /\ "release" \in PC
  BY <1>1 DEF InCS, Critical, PC
<1>4. \A q \in Proc \ {p} : Fresh(q)' /\ pc'[q] # "state"
  BY <1>1, <1>3, OthersStayFresh
<1>5. pc'[p] = "release" /\ index.height \in Nat
  BY <1>1 DEF TypeOK
<1>6. AtState = {} /\ AtState' = {}
  <2>1. AtState = {}
    BY <1>1, <1>3, AloneAtState
  <2>2. AtState' = {}
    BY <1>4, <1>5 DEF AtState
  <2> QED
    BY <2>1, <2>2
<1>7. Chained(index.height)' = Chained(index.height)
  BY <1>1 DEF Chained
<1>8. Fresh(p)'
  BY <1>5 DEF Fresh
<1>9. checkpoint'.height = index.height /\ checkpoint'.seq = index.seq /\ checkpoint'.covers = applied
  BY <1>1
<1>10. Chained(checkpoint.height)' = Chained(index.height)
  BY <1>1, <1>9 DEF Chained
<1>11. StateFits'
  BY <1>1, <1>2, <1>4, <1>6, <1>7, <1>8 DEF StateFits
<1>12. CheckpointFits'
  BY <1>1, <1>2, <1>5, <1>6, <1>9, <1>10 DEF CheckpointFits, StateFits, TipIsIndexed
<1> QED
  BY <1>11, <1>12

\* An append that stops between its two writes leaves its block torn.
LEMMA TearKeepsState ==
  ASSUME TypeOK, MutualExclusion, StateOK, NEW p \in Proc, pc[p] = "state", Tear(p),
         NEW l \in {"abort", "down"}, pc' = [pc EXCEPT ![p] = l],
         UNCHANGED <<blocks, index, applied, checkpoint, signed, evicted>>
  PROVE  StateOK'
<1> SUFFICES ASSUME ~evicted' PROVE (StateFits /\ CheckpointFits)'
  BY DEF StateOK
<1>1. torn' = torn \cup {draft[p].hash}
  BY DEF Tear
<1>2. StateFits /\ CheckpointFits /\ Fresh(p)
  BY DEF StateOK, StateFits
<1>3. InCS(p) /\ l \in PC
  BY DEF InCS, Critical, PC
<1>4. \A q \in Proc \ {p} : Fresh(q)' /\ pc'[q] # "state"
  BY <1>3, OthersStayFresh
<1>5. pc'[p] = l
  BY DEF TypeOK
<1>6. AtState = {draft[p].hash} /\ AtState' = {}
  <2>1. AtState = {draft[p].hash}
    BY <1>3, AloneAtState
  <2>2. AtState' = {}
    BY <1>4, <1>5 DEF AtState
  <2> QED
    BY <2>1, <2>2
<1>7. \A h : Chained(h)' = Chained(h)
  BY DEF Chained
<1>8. /\ draft[p].hash \in Chained(index.height)
      /\ draft[p].hash \notin Chained(checkpoint.height)
  BY <1>2 DEF Fresh
<1>9. Fresh(p)'
  BY <1>5 DEF Fresh
<1>10. StateFits'
  BY <1>1, <1>2, <1>4, <1>6, <1>7, <1>8, <1>9 DEF StateFits
<1>11. CheckpointFits'
  BY <1>1, <1>2, <1>7, <1>8 DEF CheckpointFits
<1> QED
  BY <1>10, <1>11

-----------------------------------------------------------------------------

LEMMA StateStep ==
  TypeOK /\ MutualExclusion /\ ChainOK /\ StateOK /\ [Next]_vars => StateOK'
<1> SUFFICES ASSUME TypeOK, MutualExclusion, ChainOK, StateOK, [Next]_vars PROVE StateOK'
  OBVIOUS
<1> USE DEF disk, ghosts, Goto
<1>1. CASE UNCHANGED <<pc, draft, disk, torn, signed, evicted>>
  <2>1. \A h : Chained(h)' = Chained(h)
    BY <1>1 DEF Chained
  <2>2. AtState' = AtState /\ \A p \in Proc : Fresh(p) => Fresh(p)'
    BY <1>1, <2>1 DEF AtState, Fresh
  <2> QED
    BY <1>1, <2>1, <2>2 DEF StateOK, StateFits, CheckpointFits
<1>2. ASSUME NEW p \in Proc, NEW j \in Job, Want(p, j) PROVE StateOK'
  BY <1>2, LocalStepKeepsState DEF Want, PC, Critical
<1>3. ASSUME NEW p \in Proc, Acquire(p) PROVE StateOK'
  BY <1>3, LocalStepKeepsState DEF Acquire, Open, Inspect, TimeOut, PC, Critical
<1>4. ASSUME NEW p \in Proc, Steal(p) PROVE StateOK'
  <2>1. /\ pc[p] = "steal" /\ pc' = [pc EXCEPT ![p] = "want"]
        /\ evicted => evicted'
        /\ UNCHANGED <<draft, blocks, index, applied, checkpoint, torn, signed>>
    BY <1>4 DEF Steal
  <2> QED
    BY <2>1, LocalStepKeepsState DEF PC, Critical
<1>5. ASSUME NEW p \in Proc, WriteLock(p) PROVE StateOK'
  <2>1. PICK l \in {"sign", "checkpoint"} : pc' = [pc EXCEPT ![p] = l]
    BY <1>5 DEF WriteLock
  <2>2. /\ pc[p] = "opened"
        /\ UNCHANGED <<draft, blocks, index, applied, checkpoint, torn, signed, evicted>>
    BY <1>5 DEF WriteLock
  <2> QED
    BY <2>1, <2>2, LocalStepKeepsState DEF PC, Critical
<1>6. ASSUME NEW p \in Proc, AppendStep(p) PROVE StateOK'
  BY <1>6, SignKeepsState, WriteKeepsState, IndexKeepsState, StateKeepsState,
     CheckpointKeepsState DEF AppendStep
<1>7. ASSUME NEW p \in Proc, ReleaseLock(p) PROVE StateOK'
  <2>1. /\ pc[p] \in {"release", "abort"} /\ pc' = [pc EXCEPT ![p] = "idle"]
        /\ evicted => evicted'
        /\ UNCHANGED <<blocks, index, applied, checkpoint, torn, signed>>
    BY <1>7 DEF ReleaseLock
  <2>2. \A q \in Proc \ {p} : draft'[q] = draft[q]
    <3> HIDE DEF NoDraft
    <3> QED
      BY <1>7 DEF ReleaseLock, TypeOK
  <2> QED
    BY <2>1, <2>2, LocalStepKeepsState DEF PC, Critical
<1>8. ASSUME NEW p \in Proc, WriteLockFails(p) \/ Restart(p) PROVE StateOK'
  BY <1>8, LocalStepKeepsState DEF WriteLockFails, Restart, PC, Critical
<1>9. ASSUME NEW p \in Proc, NEW l \in {"abort", "down"}, pc' = [pc EXCEPT ![p] = l], Tear(p),
             UNCHANGED <<blocks, index, applied, checkpoint, signed, evicted>>,
             \A q \in Proc \ {p} : draft'[q] = draft[q]
      PROVE  StateOK'
  <2>1. CASE pc[p] = "state"
    BY <1>9, <2>1, TearKeepsState
  <2>2. CASE pc[p] # "state"
    <3>1. torn' = torn
      BY <1>9, <2>2 DEF Tear
    <3> QED
      BY <1>9, <2>2, <3>1, LocalStepKeepsState DEF PC, Critical
  <2> QED
    BY <2>1, <2>2
<1>10. ASSUME NEW p \in Proc, Fail(p) PROVE StateOK'
  BY <1>9, <1>10 DEF Fail
<1>11. ASSUME NEW p \in Proc, Crash(p) PROVE StateOK'
  <2>1. \A q \in Proc \ {p} : draft'[q] = draft[q]
    <3> HIDE DEF NoDraft
    <3> QED
      BY <1>11 DEF Crash, TypeOK
  <2> QED
    BY <1>9, <1>11, <2>1 DEF Crash
<1>12. Age => UNCHANGED <<pc, draft, disk, torn, signed, evicted>>
  BY DEF Age
<1>13. UNCHANGED vars => UNCHANGED <<pc, draft, disk, torn, signed, evicted>>
  BY DEF vars
<1> QED
  BY <1>1, <1>2, <1>3, <1>4, <1>5, <1>6, <1>7, <1>8, <1>10, <1>11, <1>12, <1>13
     DEF Next, Step, Fault

LEMMA StateInit == Init => StateOK
<1> SUFFICES ASSUME Init PROVE StateFits /\ CheckpointFits
  BY DEF StateOK
<1>1. Chained(0) = {}
  BY DEF Chained
<1>2. /\ index.height = 0 /\ checkpoint.height = 0 /\ checkpoint.covers = {}
      /\ applied = {} /\ torn = {} /\ \A p \in Proc : pc[p] = "idle"
  BY DEF Init
<1>3. AtState = {}
  BY <1>2 DEF AtState
<1> QED
  BY <1>1, <1>2, <1>3 DEF StateFits, CheckpointFits, Fresh

LEMMA StateInvariant == Spec => []StateOK
BY StateInit, StateStep, TypeCorrect, Exclusion, ChainInvariant, PTL DEF Spec

\* Until a live holder is evicted, state.json holds the transactions of the
\* whole chain but for the appends that stopped, or still are, between
\* index.json and state.json.
THEOREM StateFollowsChain == Spec => []StateMatchesChain
<1>1. StateOK => StateMatchesChain
  BY DEF StateOK, StateFits, StateMatchesChain, AtState
<1> QED
  BY <1>1, StateInvariant, PTL

\* Until a live holder is evicted, a checkpoint describes the chain at the
\* height it names, and goes on doing so as the chain grows and appends fail.
THEOREM CheckpointsDescribeChain == Spec => []CheckpointMatchesChain
<1>1. StateOK => CheckpointMatchesChain
  BY DEF StateOK, CheckpointFits, CheckpointMatchesChain
<1> QED
  BY <1>1, StateInvariant, PTL
=============================================================================

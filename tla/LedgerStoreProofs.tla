-------------------------- MODULE LedgerStoreProofs --------------------------
(***************************************************************************)
(* Proofs about LedgerStore for any number of processes, faults, stalls    *)
(* and batches.                                                            *)
(***************************************************************************)
EXTENDS LedgerStore, TLAPS

-----------------------------------------------------------------------------
(* Type correctness.                                                       *)

LEMMA LockFileFacts ==
  /\ NoLock \in LockFile
  /\ \A p \in Proc : [NoLock EXCEPT !.owner = p] \in LockFile
  /\ \A l \in LockFile : /\ [l EXCEPT !.written = TRUE] \in LockFile
                         /\ [l EXCEPT !.aged = TRUE] \in LockFile
                         /\ [l EXCEPT !.dead = TRUE] \in LockFile
BY DEF NoLock, LockFile

LEMMA DraftFacts ==
  /\ NoDraft \in Draft
  /\ \A d \in Draft : /\ d.hash \in Nat /\ d.from \in Nat /\ d.to \in Nat /\ d.height \in Nat
                      /\ BlockOf(d) \in Block
BY DEF NoDraft, Draft, BlockOf, Block

Index == [height : Nat, hash : Nat, seq : Nat]

LEMMA NumberedFacts ==
  ASSUME NEW h \in Nat, NEW seq \in Nat, NEW n \in Nat
  PROVE  /\ Numbered(h, seq, n) \in Draft
         /\ BlockOf(Numbered(h, seq, n)) = [hash |-> h, prev |-> 0, from |-> seq + 1, to |-> seq + n]
BY DEF Numbered, Draft, BlockOf

LEMMA LinkedFacts ==
  ASSUME NEW d \in Draft, NEW tip \in Index
  PROVE  /\ Linked(d, tip) \in Draft
         /\ Linked(d, tip).height = tip.height + 1
         /\ BlockOf(Linked(d, tip)) \in Block
         /\ BlockOf(Linked(d, tip)) = [hash |-> d.hash, prev |-> tip.hash, from |-> d.from, to |-> d.to]
BY DEF Linked, Draft, Index, BlockOf, Block

LEMMA TypeInit == Init => TypeOK
<1> SUFFICES ASSUME Init PROVE TypeOK
  OBVIOUS
<1>1. lock \in LockFile /\ draft \in [Proc -> Draft]
  BY LockFileFacts, DraftFacts DEF Init
<1>2. DOMAIN blocks = {}
  BY DEF Init
<1> QED
  BY <1>1, <1>2 DEF Init, TypeOK, PC, Critical, Job

LEMMA TypeStep == TypeOK /\ [Next]_vars => TypeOK'
<1> SUFFICES ASSUME TypeOK, [Next]_vars PROVE TypeOK'
  OBVIOUS
<1> USE DEF TypeOK, disk, ghosts, Goto, PC, Critical, Job
<1>a. /\ index.height \in Nat /\ index.hash \in Nat /\ index.seq \in Nat
      /\ \A p \in Proc : draft[p] \in Draft
  OBVIOUS
<1>1. CASE Age
  <2>1. lock' \in LockFile
    BY <1>1, LockFileFacts DEF Age
  <2>2. stalls' \in Nat
    BY <1>1 DEF Age
  <2> QED
    BY <1>1, <2>1, <2>2 DEF Age
<1>2. ASSUME NEW p \in Proc, NEW j \in Job, Want(p, j) PROVE TypeOK'
  BY <1>2 DEF Want
<1>3. ASSUME NEW p \in Proc, Open(p) PROVE TypeOK'
  BY <1>3, LockFileFacts DEF Open
<1>4. ASSUME NEW p \in Proc, Inspect(p) PROVE TypeOK'
  BY <1>4 DEF Inspect
<1>5. ASSUME NEW p \in Proc, TimeOut(p) PROVE TypeOK'
  BY <1>5 DEF TimeOut
<1>6. ASSUME NEW p \in Proc, Steal(p) PROVE TypeOK'
  BY <1>6, LockFileFacts DEF Steal
<1>7. ASSUME NEW p \in Proc, WriteLock(p) PROVE TypeOK'
  BY <1>7, LockFileFacts DEF WriteLock
<1>8. ASSUME NEW p \in Proc, NEW n \in BatchSize, SignTxs(p, n) PROVE TypeOK'
  <2>1. /\ signed' \in Nat /\ index.seq + 1 \in Nat /\ index.seq + n \in Nat
    BY <1>8, <1>a, LedgerAssumption DEF SignTxs
  <2>a. Numbered(signed', index.seq, n) \in Draft
    BY <1>8, <1>a, <2>1, LedgerAssumption, NumberedFacts
  <2>2. draft' \in [Proc -> Draft]
    BY <1>8, <2>a DEF SignTxs
  <2> QED
    BY <1>8, <2>1, <2>2 DEF SignTxs
<1>9. ASSUME NEW p \in Proc, WriteBlock(p) PROVE TypeOK'
  <2> DEFINE d == Linked(draft[p], index)
  <2>1. d \in Draft /\ d.height = index.height + 1 /\ BlockOf(d) \in Block
    BY <1>a, LinkedFacts DEF Index
  <2> HIDE DEF d
  <2>2. draft' = [draft EXCEPT ![p] = d]
    BY <1>9 DEF WriteBlock, d
  <2>3. blocks' = [k \in DOMAIN blocks \cup {d.height} |->
                    IF k = d.height THEN BlockOf(d) ELSE blocks[k]]
    BY <1>9 DEF WriteBlock, d
  <2>4. DOMAIN blocks' \subseteq Nat \ {0} /\ \A h \in DOMAIN blocks' : blocks'[h] \in Block
    BY <2>1, <2>3, <1>a
  <2>5. draft' \in [Proc -> Draft]
    BY <2>1, <2>2
  <2> QED
    BY <1>9, <2>4, <2>5 DEF WriteBlock
<1>10. ASSUME NEW p \in Proc, SaveIndex(p) PROVE TypeOK'
  BY <1>10, <1>a, DraftFacts DEF SaveIndex
<1>11. ASSUME NEW p \in Proc, SaveState(p) PROVE TypeOK'
  <2>1. draft[p].hash \in Nat
    BY <1>a, DraftFacts
  <2> QED
    BY <1>11, <2>1 DEF SaveState
<1>12. ASSUME NEW p \in Proc, BuildCheckpoint(p) PROVE TypeOK'
  BY <1>12, <1>a DEF BuildCheckpoint
<1>13. ASSUME NEW p \in Proc, ReleaseLock(p) PROVE TypeOK'
  BY <1>13, <1>a, LockFileFacts, DraftFacts DEF ReleaseLock
<1>14. ASSUME NEW p \in Proc, WriteLockFails(p) PROVE TypeOK'
  BY <1>14 DEF WriteLockFails
<1>15. ASSUME NEW p \in Proc, Fail(p) PROVE TypeOK'
  <2>1. draft[p].hash \in Nat
    BY <1>a, DraftFacts
  <2>2. torn' \subseteq Nat
    BY <1>15, <2>1 DEF Fail, Tear
  <2> QED
    BY <1>15, <2>2 DEF Fail
<1>16. ASSUME NEW p \in Proc, Crash(p) PROVE TypeOK'
  <2>1. draft[p].hash \in Nat
    BY <1>a, DraftFacts
  <2>2. lock' \in LockFile /\ draft' \in [Proc -> Draft]
    BY <1>16, LockFileFacts, DraftFacts DEF Crash
  <2> QED
    BY <1>16, <2>1, <2>2 DEF Crash, Tear
<1>17. ASSUME NEW p \in Proc, Restart(p) PROVE TypeOK'
  BY <1>17 DEF Restart
<1>18. CASE UNCHANGED vars
  BY <1>18 DEF vars
<1> QED
  BY <1>1, <1>2, <1>3, <1>4, <1>5, <1>6, <1>7, <1>8, <1>9, <1>10, <1>11, <1>12, <1>13,
     <1>14, <1>15, <1>16, <1>17, <1>18
     DEF Next, Step, Acquire, AppendStep, Fault

\* Every variable of the ledger directory keeps its type, whatever crashes,
\* errors and stalls occur.
THEOREM TypeCorrect == Spec => []TypeOK
BY TypeInit, TypeStep, PTL DEF Spec

-----------------------------------------------------------------------------
(* Mutual exclusion.                                                       *)

InCS(p) == pc[p] \in Critical \cup {"opened"}

\* A step of p that keeps the lock file and moves p between two labels, the
\* second of them critical only if the first was.
LEMMA LocalStepKeepsExclusion ==
  ASSUME TypeOK, MutualExclusion, NEW p \in Proc, NEW l \in PC,
         pc' = [pc EXCEPT ![p] = l], l \in Critical \cup {"opened"} => InCS(p),
         lock'.owner = lock.owner, lock'.dead = lock.dead, evicted => evicted'
  PROVE  MutualExclusion'
BY DEF TypeOK, MutualExclusion, Holds, InCS

\* Two processes are never in the critical section of one lock.
LEMMA HolderIsUnique ==
  ASSUME NEW p \in Proc, NEW q \in Proc, Holds(p), Holds(q)
  PROVE  p = q
BY DEF Holds

LEMMA ExclusionStep == TypeOK /\ MutualExclusion /\ [Next]_vars => MutualExclusion'
<1> SUFFICES ASSUME TypeOK, MutualExclusion, [Next]_vars PROVE MutualExclusion'
  OBVIOUS
<1> USE DEF disk, ghosts, Goto
<1>1. CASE Age
  <2>1. lock'.owner = lock.owner /\ lock'.dead = lock.dead /\ pc' = pc /\ evicted' = evicted
    BY <1>1 DEF Age, TypeOK, LockFile
  <2> QED
    BY <2>1 DEF MutualExclusion, Holds
<1>2. ASSUME NEW p \in Proc, NEW j \in Job, Want(p, j) PROVE MutualExclusion'
  BY <1>2, LocalStepKeepsExclusion DEF Want, PC, Critical
<1>3. ASSUME NEW p \in Proc, Open(p) PROVE MutualExclusion'
  <2>1. lock'.owner = p /\ ~lock'.dead
    BY <1>3 DEF Open, NoLock
  <2>2. ~evicted => \A q \in Proc : ~InCS(q)
    BY <1>3, LedgerAssumption DEF Open, MutualExclusion, Holds, InCS
  <2> QED
    BY <1>3, <2>1, <2>2 DEF Open, MutualExclusion, Holds, InCS, TypeOK, PC, Critical
<1>4. ASSUME NEW p \in Proc, Inspect(p) PROVE MutualExclusion'
  BY <1>4, LocalStepKeepsExclusion DEF Inspect, PC, Critical
<1>5. ASSUME NEW p \in Proc, TimeOut(p) PROVE MutualExclusion'
  BY <1>5, LocalStepKeepsExclusion DEF TimeOut, PC, Critical
<1>6. ASSUME NEW p \in Proc, Steal(p) PROVE MutualExclusion'
  <2>1. CASE p \in NoUnlink /\ lock.owner # p
    <3>1. lock' = lock /\ evicted' = evicted /\ pc' = [pc EXCEPT ![p] = "want"]
      BY <1>6, <2>1 DEF Steal
    <3> QED
      BY <3>1, LocalStepKeepsExclusion DEF PC, Critical
  <2>2. CASE ~(p \in NoUnlink /\ lock.owner # p)
    <3>1. ~evicted' => ~evicted /\ \A q \in Proc \ {p} : ~InCS(q)
      BY <1>6, <2>2 DEF Steal, Evicts, MutualExclusion, InCS
    <3> QED
      BY <1>6, <3>1 DEF Steal, MutualExclusion, InCS, TypeOK, Critical
  <2> QED
    BY <2>1, <2>2
<1>7. ASSUME NEW p \in Proc, WriteLock(p) PROVE MutualExclusion'
  <2>1. lock'.owner = lock.owner /\ lock'.dead = lock.dead
    BY <1>7 DEF WriteLock, TypeOK, LockFile
  <2> QED
    BY <1>7, <2>1, LocalStepKeepsExclusion DEF WriteLock, InCS, PC, Critical
<1>8. ASSUME NEW p \in Proc, NEW n \in BatchSize, SignTxs(p, n) PROVE MutualExclusion'
  <2>1. pc[p] = "sign" /\ pc' = [pc EXCEPT ![p] = "write"] /\ lock' = lock /\ evicted' = evicted
    BY <1>8 DEF SignTxs
  <2> QED
    BY <2>1, LocalStepKeepsExclusion DEF InCS, PC, Critical
<1>9. ASSUME NEW p \in Proc, WriteBlock(p) PROVE MutualExclusion'
  BY <1>9, LocalStepKeepsExclusion DEF WriteBlock, InCS, PC, Critical
<1>10. ASSUME NEW p \in Proc, SaveIndex(p) PROVE MutualExclusion'
  BY <1>10, LocalStepKeepsExclusion DEF SaveIndex, InCS, PC, Critical
<1>11. ASSUME NEW p \in Proc, SaveState(p) PROVE MutualExclusion'
  BY <1>11, LocalStepKeepsExclusion DEF SaveState, InCS, PC, Critical
<1>12. ASSUME NEW p \in Proc, BuildCheckpoint(p) PROVE MutualExclusion'
  BY <1>12, LocalStepKeepsExclusion DEF BuildCheckpoint, InCS, PC, Critical
<1>13. ASSUME NEW p \in Proc, ReleaseLock(p) PROVE MutualExclusion'
  <2>1. CASE lock' = lock
    BY <1>13, <2>1, LocalStepKeepsExclusion DEF ReleaseLock, PC, Critical
  <2>2. CASE lock' = NoLock
    <3>1. ~evicted' => ~evicted /\ \A q \in Proc \ {p} : ~InCS(q)
      BY <1>13, <2>2 DEF ReleaseLock, Evicts, MutualExclusion, InCS
    <3> QED
      BY <1>13, <3>1 DEF ReleaseLock, MutualExclusion, InCS, TypeOK, Critical
  <2> QED
    BY <1>13, <2>1, <2>2 DEF ReleaseLock
<1>14. ASSUME NEW p \in Proc, WriteLockFails(p) PROVE MutualExclusion'
  BY <1>14, LocalStepKeepsExclusion DEF WriteLockFails, PC, Critical
<1>15. ASSUME NEW p \in Proc, Fail(p) PROVE MutualExclusion'
  BY <1>15, LocalStepKeepsExclusion DEF Fail, InCS, PC, Critical
<1>16. ASSUME NEW p \in Proc, Crash(p) PROVE MutualExclusion'
  <2>1. \A q \in Proc \ {p} : lock.owner = q => lock' = lock
    BY <1>16 DEF Crash
  <2>2. evicted' = evicted /\ pc' = [pc EXCEPT ![p] = "down"]
    BY <1>16 DEF Crash
  <2> QED
    BY <2>1, <2>2 DEF MutualExclusion, Holds, TypeOK, Critical
<1>17. ASSUME NEW p \in Proc, Restart(p) PROVE MutualExclusion'
  BY <1>17, LocalStepKeepsExclusion DEF Restart, PC, Critical
<1>18. CASE UNCHANGED vars
  BY <1>18 DEF vars, MutualExclusion, Holds
<1> QED
  BY <1>1, <1>2, <1>3, <1>4, <1>5, <1>6, <1>7, <1>8, <1>9, <1>10, <1>11, <1>12, <1>13,
     <1>14, <1>15, <1>16, <1>17, <1>18
     DEF Next, Step, Acquire, AppendStep, Fault

\* As long as no live holder lost its lock, whoever runs a locked operation of
\* the store owns the lock file that exists, for any number of processes.
THEOREM Exclusion == Spec => []MutualExclusion
<1>1. Init => MutualExclusion
  BY DEF Init, MutualExclusion, Critical
<1> QED
  BY <1>1, ExclusionStep, TypeCorrect, PTL DEF Spec

-----------------------------------------------------------------------------
(* Evictions.  As long as nobody stalls and no two waiters contend for a   *)
(* stale lock, the one waiter about to steal looks at a lock that is still *)
(* there, still stale and held by nobody.                                  *)

NoCause == ~contested /\ stalls = 0
OneThief == \A p, q \in Proc : pc[p] = "steal" /\ pc[q] = "steal" => p = q
ThiefSeesStale == \A p \in Proc : pc[p] = "steal" => lock.owner # Nobody /\ Stale
AgedIsFree == lock.aged => \A q \in Proc : ~Holds(q)
Sound == NoCause => ~evicted /\ OneThief /\ ThiefSeesStale /\ AgedIsFree

LEMMA StaleIsFree ==
  ASSUME AgedIsFree, Stale
  PROVE  \A q \in Proc : ~Holds(q)
BY DEF AgedIsFree, Stale, Holds

LEMMA LocalStepKeepsSound ==
  ASSUME TypeOK, Sound, NEW p \in Proc, NEW l \in PC, l # "steal",
         pc' = [pc EXCEPT ![p] = l], l \in Critical \cup {"opened"} => InCS(p),
         lock' = lock, evicted' = evicted, contested' = contested, stalls' = stalls
  PROVE  Sound'
<1>1. NoCause' => NoCause
  BY DEF NoCause
<1>2. OneThief => OneThief'
  BY DEF OneThief, TypeOK
<1>3. ThiefSeesStale => ThiefSeesStale'
  BY DEF ThiefSeesStale, Stale, TypeOK
<1>4. \A q \in Proc : Holds(q)' => Holds(q)
  BY DEF Holds, InCS, TypeOK
<1>5. AgedIsFree => AgedIsFree'
  BY <1>4 DEF AgedIsFree
<1> QED
  BY <1>1, <1>2, <1>3, <1>5 DEF Sound

LEMMA SoundStep == TypeOK /\ MutualExclusion /\ Sound /\ [Next]_vars => Sound'
<1> SUFFICES ASSUME TypeOK, MutualExclusion, Sound, [Next]_vars PROVE Sound'
  OBVIOUS
<1> USE DEF disk, ghosts, Goto
<1>1. CASE Age
  <2> SUFFICES ASSUME NoCause' PROVE ~evicted' /\ (OneThief /\ ThiefSeesStale /\ AgedIsFree)'
    BY DEF Sound
  <2>1. /\ lock'.owner = lock.owner /\ lock'.dead = lock.dead /\ lock'.written = lock.written
        /\ lock'.aged /\ pc' = pc /\ evicted' = evicted /\ contested' = contested
    BY <1>1 DEF Age, TypeOK, LockFile
  <2>2. stalls' = stalls /\ \A q \in Proc : ~Holds(q)
    BY <1>1 DEF Age, NoCause, TypeOK
  <2>3. ~evicted /\ OneThief /\ ThiefSeesStale
    BY <2>1, <2>2 DEF Sound, NoCause
  <2>4. OneThief' /\ ThiefSeesStale'
    BY <2>1, <2>3 DEF OneThief, ThiefSeesStale, Stale
  <2>5. AgedIsFree'
    BY <2>1, <2>2 DEF AgedIsFree, Holds
  <2> QED
    BY <2>1, <2>3, <2>4, <2>5
<1>2. ASSUME NEW p \in Proc, NEW j \in Job, Want(p, j) PROVE Sound'
  BY <1>2, LocalStepKeepsSound DEF Want, PC, Critical
<1>3. ASSUME NEW p \in Proc, Open(p) PROVE Sound'
  <2> SUFFICES ASSUME NoCause' PROVE ~evicted' /\ (OneThief /\ ThiefSeesStale /\ AgedIsFree)'
    BY DEF Sound
  <2>1. /\ lock.owner = Nobody /\ ~lock'.aged /\ pc' = [pc EXCEPT ![p] = "opened"]
        /\ UNCHANGED <<evicted, contested, stalls>>
    BY <1>3 DEF Open, NoLock
  <2>2. ~evicted /\ ThiefSeesStale
    BY <2>1 DEF Sound, NoCause
  <2>3. \A q \in Proc : pc[q] # "steal"
    BY <2>1, <2>2 DEF ThiefSeesStale
  <2>4. \A q \in Proc : pc'[q] # "steal"
    BY <2>1, <2>3 DEF TypeOK
  <2> QED
    BY <2>1, <2>2, <2>4 DEF OneThief, ThiefSeesStale, AgedIsFree
<1>4. ASSUME NEW p \in Proc, Inspect(p) PROVE Sound'
  <2> SUFFICES ASSUME NoCause' PROVE ~evicted' /\ (OneThief /\ ThiefSeesStale /\ AgedIsFree)'
    BY DEF Sound
  <2>1. /\ pc' = [pc EXCEPT ![p] = "steal"] /\ UNCHANGED <<lock, evicted, stalls>>
        /\ lock.owner # Nobody /\ Stale /\ pc[p] = "want"
    BY <1>4 DEF Inspect
  <2>2. ~contested /\ \A q \in Proc \ {p} : pc[q] # "steal"
    BY <1>4 DEF Inspect, NoCause
  <2>3. ~evicted /\ AgedIsFree
    BY <2>1, <2>2 DEF Sound, NoCause
  <2>4. OneThief'
    BY <2>1, <2>2 DEF OneThief, TypeOK
  <2>5. ThiefSeesStale'
    BY <2>1 DEF ThiefSeesStale, Stale
  <2>6. AgedIsFree'
    BY <2>1, <2>3 DEF AgedIsFree, Holds, TypeOK, Critical
  <2> QED
    BY <2>1, <2>3, <2>4, <2>5, <2>6
<1>5. ASSUME NEW p \in Proc, TimeOut(p) PROVE Sound'
  BY <1>5, LocalStepKeepsSound DEF TimeOut, PC, Critical
<1>6. ASSUME NEW p \in Proc, Steal(p) PROVE Sound'
  <2>1. CASE p \in NoUnlink /\ lock.owner # p
    <3>1. /\ lock' = lock /\ evicted' = evicted /\ pc' = [pc EXCEPT ![p] = "want"]
          /\ contested' = contested /\ stalls' = stalls
      BY <1>6, <2>1 DEF Steal
    <3> QED
      BY <3>1, LocalStepKeepsSound DEF PC, Critical
  <2>2. CASE ~(p \in NoUnlink /\ lock.owner # p)
    <3> SUFFICES ASSUME NoCause' PROVE ~evicted' /\ (OneThief /\ ThiefSeesStale /\ AgedIsFree)'
      BY DEF Sound
    <3>1. /\ lock' = NoLock /\ evicted' = (evicted \/ Evicts(p)) /\ pc[p] = "steal"
          /\ pc' = [pc EXCEPT ![p] = "want"] /\ UNCHANGED <<contested, stalls>>
      BY <1>6, <2>2 DEF Steal
    <3>2. ~evicted /\ OneThief /\ ThiefSeesStale /\ AgedIsFree
      BY <3>1 DEF Sound, NoCause
    <3>3. Stale
      BY <3>1, <3>2 DEF ThiefSeesStale
    <3>4. ~evicted'
      BY <3>1, <3>2, <3>3, StaleIsFree DEF Evicts
    <3>5. \A q \in Proc : pc'[q] # "steal"
      BY <3>1, <3>2 DEF OneThief, TypeOK
    <3>6. ~lock'.aged
      BY <3>1 DEF NoLock
    <3> QED
      BY <3>4, <3>5, <3>6 DEF OneThief, ThiefSeesStale, AgedIsFree
  <2> QED
    BY <2>1, <2>2
<1>7. ASSUME NEW p \in Proc, WriteLock(p) PROVE Sound'
  <2> SUFFICES ASSUME NoCause' PROVE ~evicted' /\ (OneThief /\ ThiefSeesStale /\ AgedIsFree)'
    BY DEF Sound
  <2>1. /\ pc[p] = "opened" /\ \E l \in {"sign", "checkpoint"} : pc' = [pc EXCEPT ![p] = l]
        /\ UNCHANGED <<evicted, contested, stalls>>
    BY <1>7 DEF WriteLock
  <2>2. ~evicted /\ OneThief /\ ThiefSeesStale /\ AgedIsFree
    BY <2>1 DEF Sound, NoCause
  <2>3. Holds(p)
    BY <2>1, <2>2 DEF MutualExclusion
  <2>4. ~lock.aged /\ lock.owner = p /\ ~lock.dead
    BY <2>2, <2>3 DEF AgedIsFree, Holds
  <2>5. \A q \in Proc : pc[q] # "steal"
    BY <2>2, <2>4 DEF ThiefSeesStale, Stale
  <2>6. ~lock'.aged
    BY <1>7, <2>4 DEF WriteLock, TypeOK, LockFile
  <2>7. \A q \in Proc : pc'[q] # "steal"
    BY <2>1, <2>5 DEF TypeOK
  <2> QED
    BY <2>1, <2>2, <2>6, <2>7 DEF OneThief, ThiefSeesStale, AgedIsFree
<1>8. ASSUME NEW p \in Proc, NEW n \in BatchSize, SignTxs(p, n) PROVE Sound'
  <2>1. /\ pc[p] = "sign" /\ pc' = [pc EXCEPT ![p] = "write"]
        /\ UNCHANGED <<lock, evicted, contested, stalls>>
    BY <1>8 DEF SignTxs
  <2> QED
    BY <2>1, LocalStepKeepsSound DEF InCS, PC, Critical
<1>9. ASSUME NEW p \in Proc, WriteBlock(p) PROVE Sound'
  BY <1>9, LocalStepKeepsSound DEF WriteBlock, InCS, PC, Critical
<1>10. ASSUME NEW p \in Proc, SaveIndex(p) PROVE Sound'
  BY <1>10, LocalStepKeepsSound DEF SaveIndex, InCS, PC, Critical
<1>11. ASSUME NEW p \in Proc, SaveState(p) PROVE Sound'
  BY <1>11, LocalStepKeepsSound DEF SaveState, InCS, PC, Critical
<1>12. ASSUME NEW p \in Proc, BuildCheckpoint(p) PROVE Sound'
  BY <1>12, LocalStepKeepsSound DEF BuildCheckpoint, InCS, PC, Critical
<1>13. ASSUME NEW p \in Proc, ReleaseLock(p) PROVE Sound'
  <2> SUFFICES ASSUME NoCause' PROVE ~evicted' /\ (OneThief /\ ThiefSeesStale /\ AgedIsFree)'
    BY DEF Sound
  <2>1. /\ pc[p] \in {"release", "abort"} /\ pc' = [pc EXCEPT ![p] = "idle"]
        /\ UNCHANGED <<contested, stalls>>
        /\ evicted' = (evicted \/ (Evicts(p) /\ lock' = NoLock))
    BY <1>13 DEF ReleaseLock
  <2>2. ~evicted /\ OneThief /\ ThiefSeesStale /\ AgedIsFree
    BY <2>1 DEF Sound, NoCause
  <2>3. Holds(p)
    BY <2>1, <2>2 DEF MutualExclusion, Critical
  <2>4. ~lock.aged /\ lock.owner = p /\ ~lock.dead
    BY <2>2, <2>3 DEF AgedIsFree, Holds
  <2>5. ~evicted'
    BY <2>1, <2>2, <2>4 DEF Evicts, Holds
  <2>6. \A q \in Proc : pc[q] # "steal"
    BY <2>2, <2>4 DEF ThiefSeesStale, Stale
  <2>7. lock' = NoLock
    BY <1>13, <2>4 DEF ReleaseLock
  <2>8. ~lock'.aged
    BY <2>7 DEF NoLock
  <2>9. \A q \in Proc : pc'[q] # "steal"
    BY <2>1, <2>6 DEF TypeOK
  <2> QED
    BY <2>5, <2>8, <2>9 DEF OneThief, ThiefSeesStale, AgedIsFree
<1>14. ASSUME NEW p \in Proc, WriteLockFails(p) PROVE Sound'
  BY <1>14, LocalStepKeepsSound DEF WriteLockFails, PC, Critical
<1>15. ASSUME NEW p \in Proc, Fail(p) PROVE Sound'
  BY <1>15, LocalStepKeepsSound DEF Fail, InCS, PC, Critical
<1>16. ASSUME NEW p \in Proc, Crash(p) PROVE Sound'
  <2> SUFFICES ASSUME NoCause' PROVE ~evicted' /\ (OneThief /\ ThiefSeesStale /\ AgedIsFree)'
    BY DEF Sound
  <2>1. pc' = [pc EXCEPT ![p] = "down"] /\ UNCHANGED <<evicted, contested, stalls>>
    BY <1>16 DEF Crash
  <2>2. /\ lock'.owner = lock.owner /\ lock'.aged = lock.aged /\ lock'.written = lock.written
        /\ lock.dead => lock'.dead
    BY <1>16 DEF Crash, TypeOK, LockFile
  <2>3. ~evicted /\ OneThief /\ ThiefSeesStale /\ AgedIsFree
    BY <2>1 DEF Sound, NoCause
  <2>4. OneThief'
    BY <2>1, <2>3 DEF OneThief, TypeOK
  <2>5. ThiefSeesStale'
    BY <2>1, <2>2, <2>3 DEF ThiefSeesStale, Stale, TypeOK
  <2>6. \A q \in Proc : Holds(q)' => Holds(q)
    BY <2>1, <2>2 DEF Holds, TypeOK, Critical
  <2> QED
    BY <2>1, <2>2, <2>3, <2>4, <2>5, <2>6 DEF AgedIsFree
<1>17. ASSUME NEW p \in Proc, Restart(p) PROVE Sound'
  BY <1>17, LocalStepKeepsSound DEF Restart, PC, Critical
<1>18. CASE UNCHANGED vars
  BY <1>18 DEF vars, Sound, NoCause, OneThief, ThiefSeesStale, AgedIsFree, Stale, Holds
<1> QED
  BY <1>1, <1>2, <1>3, <1>4, <1>5, <1>6, <1>7, <1>8, <1>9, <1>10, <1>11, <1>12, <1>13,
     <1>14, <1>15, <1>16, <1>17, <1>18
     DEF Next, Step, Acquire, AppendStep, Fault

\* A live holder loses its lock only after a stall or when two waiters were
\* stealing at once, for any number of processes, crashes and errors.
THEOREM EvictionsExplained == Spec => []EvictionNeedsCause
<1>1. Init => Sound
  BY DEF Init, Sound, OneThief, ThiefSeesStale, AgedIsFree, NoLock
<1>2. TypeOK /\ Sound => EvictionNeedsCause
  BY DEF Sound, NoCause, EvictionNeedsCause, TypeOK
<1> QED
  BY <1>1, <1>2, SoundStep, TypeCorrect, Exclusion, PTL DEF Spec
=============================================================================

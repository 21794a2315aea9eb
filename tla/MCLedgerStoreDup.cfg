SPECIFICATION Spec
CONSTANTS
  p1 = p1
  p2 = p2
  nobody = nobody
  Proc <- MCProc
  Nobody = nobody
  NoUnlink <- MCEmpty
  BatchSize <- MCBatchSize
  CheckpointEvery = 2
  MaxSigned = 2
  MaxFaults = 1
  MaxStalls = 0
INVARIANTS
  NoSeqSignedTwice

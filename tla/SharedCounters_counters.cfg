SPECIFICATION Spec
CONSTANTS
  t1 = t1  t2 = t2
  Tables = {t1, t2}
  None = None
  MaxBatch = 2
  ChunkLimit = 2
  Settings <- TwoSettings
INVARIANTS
  TypeOK ChunkCountersExact TxMonotonic

SPECIFICATION ThreadsSpec
CONSTANTS
  a = a
  Ids = {a, b}
  f = f
  Fields = {f}
  UniqueFields = {f}
  k1 = k1  k2 = k2
  Keys = {k1, k2}
  NoRecord = NoRecord
  None = None
  MaxBatch = 1
  ChunkLimit = 2
  MaxChunks = 3
  MaxTx = 9
  Faults = {}
  p = p  q = q
  Threads = {p, q}
  Situations <- AllSituations
INVARIANTS
  ThreadsTypeOK QuietExact CachesExact GetsCurrent TxOrder
PROPERTIES
  AppendsRefineTable AppendsChangeRows CallsReturn

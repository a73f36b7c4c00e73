SPECIFICATION Spec
CONSTANTS
  a = a  b = b
  Ids = {a, b}
  f = f
  Fields = {f}
  UniqueFields = {}
  k1 = k1  k2 = k2
  Keys = {k1, k2}
  NoRecord = NoRecord
  None = None
  MaxBatch = 1
  ChunkLimit = 1
  MaxChunks = 2
  MaxTx = 3
  Faults = {"short"}
SYMMETRY Symmetry
INVARIANTS TypeOK ProjectionExact

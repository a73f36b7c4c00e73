SPECIFICATION Spec
CONSTANTS
  a = a  b = b
  Ids = {a, b}
  f = f
  Fields = {f}
  UniqueFields = {f}
  k1 = k1  k2 = k2
  Keys = {k1, k2}
  NoRecord = NoRecord
  None = None
  MaxBatch = 1
  ChunkLimit = 1
  MaxChunks = 3
  MaxTx = 3
  Faults = {"removal"}
SYMMETRY Symmetry
PROPERTY NoRowLost

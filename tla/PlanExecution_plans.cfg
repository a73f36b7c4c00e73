SPECIFICATION Spec
CONSTANTS
  Ids = {1, 2, 3, 4}
  Fields = {email, name}
  LookupFields = {email, name}
  UniqueFields = {email}
  Values = {x, y, z, w}
  NoRecord = NoRecord
  Clients = {c1, c2}
  MaxChanges = 2
  MaxCalls = 3
  Settings <- AllSettings
  DefaultLimit = 1
  MaxLimit = 2
  email = email  name = name
  x = x  y = y  z = z  w = w
  c1 = c1  c2 = c2
INVARIANTS
  TypeOK PagesExact
PROPERTIES
  TableRefinement BatchIsSequence CallsReturn

SPECIFICATION Spec
CONSTANTS
  Workers = {w1, w2}
  Keys = {hits}
  LongKeys = {}
  UpdateKeys = {}
  MaxStoreKeys = 1
  MaxUpdateRetries = 2
  MaxWrites = 3
PROPERTIES
  UpdateIsAtomic

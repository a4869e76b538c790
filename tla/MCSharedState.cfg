SPECIFICATION Spec
CONSTANTS
  Workers = {w1, w2}
  Keys = {hits, home, long}
  LongKeys = {long}
  UpdateKeys = {hits}
  MaxStoreKeys = 1
  MaxUpdateRetries = 2
  MaxWrites = 4
SYMMETRY Symmetry
INVARIANTS
  FailuresAreOthersWrites
PROPERTIES
  UpdatesAreAtomic

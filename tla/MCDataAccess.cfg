SPECIFICATION OneOffset
CONSTANTS
  Ways = {w1}
  Tags = {t1, t2}
  Indexes = {x1}
  BlockWords = 2
  StbEntries = 2
  Accesses = {{0}, {0, 1}}
  Values = {v1, v2}
  Systems <- Both
  AllWords = TRUE
  Noise = Noise
  NoEntry = NoEntry
  NoRequest = NoRequest
SYMMETRY Symmetry
INVARIANTS
  LatestKept
  LoadCorrect
  CleanIsStored
  StbTracksCache
  RingOrder
  QuickStore
  StoreReachesMemory

SPECIFICATION Spec
CONSTANTS
  Ways = {w1, w2}
  Tags = {t1, t2, t3}
  Indexes = {x1}
  BlockInsts = 2
  NoRequest = NoRequest
  MaxStores = 1
  MmuOffsets = {}
SYMMETRY Symmetry
INVARIANTS
  FetchCorrect
  CacheCoherent
  TaglessSound

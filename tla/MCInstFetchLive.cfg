SPECIFICATION Spec
CONSTANTS
  Ways = {w1}
  Tags = {t1, t2}
  Indexes = {x1}
  BlockInsts = 4
  NoRequest = NoRequest
  MaxStores = 0
  MmuOffsets = {0}
INVARIANTS
  Ownership
  ReplaceFresh
PROPERTIES
  BurstRule
  Completes

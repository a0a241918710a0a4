SPECIFICATION OneOffset
CONSTANTS
  Ways = {w1, w2}
  Tags = {t1, t2, t3}
  Indexes = {x1}
  BlockWords = 2
  StbEntries = 1
  Accesses = {{0}}
  Values = {v1, v2}
  Systems <- OnlyWriteBack
  AllWords = FALSE
  Noise = Noise
  NoEntry = NoEntry
  NoRequest = NoRequest
SYMMETRY Symmetry
INVARIANTS
  HitsAreUnique
  Ownership
  ReplaceFresh

SPECIFICATION OneOffset
CONSTANTS
  Ways = {w1}
  Tags = {t1, t2}
  Indexes = {x1}
  BlockWords = 2
  StbEntries = 1
  Accesses = {{0}}
  Values = {v1, v2}
  Systems <- WithoutWriteback
  AllWords = FALSE
  Noise = Noise
  NoEntry = NoEntry
  NoRequest = NoRequest
PROPERTIES
  Completes
  Drains

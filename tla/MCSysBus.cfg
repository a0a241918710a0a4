SPECIFICATION Spec
CONSTANTS
  MasterCount = 2
  Addr = {a1}
  Data = {d1, d2}
  Latency = 3
  NoRequest = NoRequest
INVARIANTS
  AccessAgreement
PROPERTIES
  BurstsUnbroken
  PromiseKept
  PriorityServed

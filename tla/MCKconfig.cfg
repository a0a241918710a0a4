SPECIFICATION Spec
CONSTANTS
  Type <- MCType
  Modules = "MODULES"
  Num <- MCNum
  Source <- MCSource
  Orders <- MCOrders
  Found <- MCFound
  MaxKeys = 2
  MaxSaves = 1
INVARIANTS Settled AsWritten OneChoice RoundTrip CleanMeansSaved Reachable
PROPERTIES AcceptedHolds SavesAsPromised

SPECIFICATION LiveSpec
CONSTANTS
  Type <- MCType
  Modules = "MODULES"
  Num <- MCNum
  Source <- MCSource
  Orders <- MCOrders
  Found <- MCFound
  Plans <- MCPlans
INVARIANTS MinimalIsEnough NothingNew
PROPERTIES HeadersTouched BuildsAsPromised Ends
CHECK_DEADLOCK FALSE

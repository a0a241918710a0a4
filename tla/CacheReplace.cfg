CONSTANTS
  Assoc = 4
  Indexes = {x, y}
  x = x
  y = y
SPECIFICATION Spec
PROPERTIES Settling PromiseKept

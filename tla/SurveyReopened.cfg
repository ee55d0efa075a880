\* Three filings, nobody else at work, two replies lost, and failed rows put back.
CONSTANTS
  Figures = {1, 2}
  MaxRetries = 1
  PriorMax = 3
  MaxFilings = 3
  MaxEdits = 0
  Scenarios <- PutBack
SPECIFICATION Spec
INVARIANTS LandsInOrder
CHECK_DEADLOCK FALSE

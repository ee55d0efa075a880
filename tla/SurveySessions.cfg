\* Two filings and a sign-out and sign-in while the first is on the wire.
CONSTANTS
  Figures = {1, 2}
  MaxRetries = 2
  PriorMax = 3
  MaxFilings = 2
  MaxEdits = 0
  Scenarios <- OneSignOut
SPECIFICATION ResumedSpec
INVARIANTS LatestKept
CHECK_DEADLOCK FALSE

\* Three filings of one day while a supervisor changes it and one reply is lost
\* (chains of rows, re-filings folded in, amendments and their replays), or two
\* with every fault: two lost replies, a death of the app, and a row that runs
\* out of attempts and is put back by the crew.
CONSTANTS
  Figures = {1, 2}
  MaxRetries = 2
  PriorMax = 3
  MaxFilings = 3
  MaxEdits = 1
  Scenarios <- ManyOrFaulty
SPECIFICATION Spec
INVARIANTS TypeOK NoSilentOverwrite NeverBackwards LatestKept OwnWorkRemembered
PROPERTIES ConflictHasCause
CHECK_DEADLOCK FALSE

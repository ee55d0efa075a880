\* Two rules and two owners; a move by a person, a death of the worker, and another change or an edit.
CONSTANTS
  started = started  closed = closed  mover = mover  remarker = remarker  u1 = u1  u2 = u2
  Statuses = {started, closed}
  Moves <- AllMoves
  Users = {u1, u2}
  Rules = {mover, remarker}
  Owner <- EachHers
  When <- WhenMoved
  Does <- ThenDoes
  Scenarios <- OneOrOther
  MaxAttempts = 2
  MaxPosts = 2
SPECIFICATION Spec
INVARIANTS TypeOK DoneOnce InTurn RecordHonest
PROPERTIES RecordedIsOver AllEnd
CHECK_DEADLOCK FALSE

\* Two requests at a time, again and again, under one key: the punches of two
\* employees and a write of another route, with deaths of the worker and
\* answers that are lost.
\* Keys share nothing but the connections, so one is enough.
CONSTANTS
  ann = ann
  ben = ben
  forAnn = forAnn
  forBen = forBen
  elsewhere = elsewhere
  Attempts = {first, second}
  Keys = {key}
  Bodies = {forAnn, forBen, elsewhere}
  Employees = {ann, ben}
  Puncher <- ByWhom
  Audited = {forAnn, forBen}
  Nothing = Nothing
  Nobody = Nobody
SPECIFICATION FairSpec
INVARIANTS TypeOK AllOrNothing Consistent
PROPERTIES Contracted Answers

\* Two bills, two receipts and two advances; every pair of transactions at once.
\* Of a bill for 2 nothing is withheld, so that its certification never waits.
CONSTANTS
  MaxBills = 2
  Receipts = {r1, r2}
  Advances = {1, 2}
  Sessions = {first, second}
  Measures = {2, 3, 6}
  Amounts = {0, 1}
  Advanced <- TwoAdvances
  RetainIn = 3
  RecoverIn = 3
  Cap = 2
SPECIFICATION Spec
INVARIANTS TypeOK HeldNeverNegative FinalIsLast
PROPERTIES Kept
SYMMETRY AnySession
CHECK_DEADLOCK FALSE

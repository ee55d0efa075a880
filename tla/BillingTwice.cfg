\* A second bill is measured while the first is certified, on a project where
\* nothing is withheld: a seventh of six is none.
CONSTANTS
  MaxBills = 2
  Receipts = {r1}
  Advances = {1}
  Sessions = {first}
  Measures = {3, 6}
  Amounts = {0}
  Advanced <- TwoAdvances
  RetainIn = 7
  RecoverIn = 3
  Cap = 2
SPECIFICATION Spec
INVARIANTS NotBilledTwice
CHECK_DEADLOCK FALSE

CONSTANTS
  Invoices = {1, 2}
  Claims = {3}
  Typed = {1}
  Runs = {1, 2}
  Sessions = {first, second}
  Amounts = {1}
  Withheld = {0, 1}
  Waivers <- WaiveOrNot
  Total <- TwoOrOne
  Ordered = {1}
  MaxBegun = 4
  MaxChanges = 1
SPECIFICATION Spec
INVARIANTS TypeOK NotOverpaid NotOverspent NeverClashes
PROPERTIES PaysWhatStands Kept
SYMMETRY AnySession
CHECK_DEADLOCK FALSE

\* Two transactions at a time over two items of which the store has one each.
CONSTANTS
  store = store
  site = site
  Nowhere = Nowhere
  Items = {1, 2}
  Locations = {store, site}
  Sessions = {first, second}
  Counts = {1, 2}
  Grns = {1}
  Movements <- Moves
  Quantities = {1}
  Overdrawing = {FALSE, TRUE}
  Deliveries <- OneOfEach
  Walks <- InTheStore
  Opening <- OneInStore
  Level <- None
  MaxBegun = 2
  AtOnce = 2
SPECIFICATION Spec
INVARIANTS TypeOK NotOverdrawn PromisedOnce AdjustedOnce ReturnsWithinReceipt ApprovalsKeepOrder
PROPERTIES NoticedOnce
SYMMETRY AnySession
CHECK_DEADLOCK FALSE

\* The two punches of a day under everything at once: lost and late messages,
\* one death of the app or sign-out, one retry by the user.
CONSTANTS
  checkIn = checkIn
  checkOut = checkOut
  say = say
  unsay = unsay
  Records <- InAndOut
  Payloads <- TwoThings
  Says <- TwoThenOne
  Needs <- InBeforeOut
  Punches <- PunchesOnly
  MaxRetries = 2
  MaxOps = 2
  FlushLimit = 2
  KeepMax = 1
  MaxRestarts = 1
  MaxUserRetries = 1
SPECIFICATION Spec
INVARIANTS TypeOK AtMostOnce NothingLost OneBodyPerKey
PROPERTIES Settles FiledOrder
CHECK_DEADLOCK FALSE

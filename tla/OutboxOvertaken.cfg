\* A check-in that backs off and the check-out filed after it.
CONSTANTS
  checkIn = checkIn
  checkOut = checkOut
  say = say
  unsay = unsay
  Records <- InAndOut
  Payloads <- OneThing
  Says <- SayOne
  Needs <- InBeforeOut
  Punches <- PunchesOnly
  MaxRetries = 2
  MaxOps = 2
  FlushLimit = 2
  KeepMax = 1
  MaxRestarts = 0
  MaxUserRetries = 0
SPECIFICATION Safety
PROPERTIES NotSentBeforeItsNeed
CHECK_DEADLOCK FALSE

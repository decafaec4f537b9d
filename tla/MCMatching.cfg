CONSTANTS
  alice = alice
  bob = bob
  Bet <- MCBet
  request <- MCRequest
  User <- MCUser
  Money <- MCMoney
  PriceUnit = 1000
  LatestStamp = 999999
  Start = 1775000
  Ticks = 1
SPECIFICATION Spec
INVARIANTS
  StakeAccounted
PROPERTY PriceTimePriority
CHECK_DEADLOCK FALSE

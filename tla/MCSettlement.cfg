CONSTANTS
  alice = alice
  bob = bob
  red = red
  blue = blue
  d1 = d1
  User <- MCUser
  Key <- MCKey
  OpeningBalance <- MCOpeningBalance
  Requests <- NoRequests
  Bet <- MCBet
  placed <- MCPlaced
  Selection <- MCSelection
  OpeningExposure <- MCOpeningExposure
  CommissionRate <- MCCommissionRate
  BatchSize = 2
  OutboxLimit = 4
  Ticker = {t1}
  Admin = {a1}
  MaxOps = 3
  MaxFaults = 1
SPECIFICATION Spec
INVARIANTS
  ProfitIsWhatItsEventsPay
  ProcessedWasApplied
  ClosedMarketHasNoMatchedBets
PROPERTY VoidIsFinal
CHECK_DEADLOCK FALSE

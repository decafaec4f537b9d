CONSTANTS
  alice = alice
  bob = bob
  red = red
  blue = blue
  d1 = d1
  User <- MCUser
  Key <- MCKey
  OpeningBalance <- MCOpeningBalance
  Requests <- MCRequests
  Bet <- MCBet
  placed <- MCPlaced
  Selection <- MCSelection
  OpeningExposure <- MCOpeningExposure
  CommissionRate <- MCCommissionRate
  BatchSize = 2
  OutboxLimit = 1
  Ticker = {t1}
  Admin = {a1}
  MaxOps = 2
  MaxFaults = 1
SPECIFICATION FairSpec
PROPERTY OutboxDrains
CHECK_DEADLOCK FALSE

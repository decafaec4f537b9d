CONSTANTS
  alice = alice
  bob = bob
  b1 = b1
  b2 = b2
  d1 = d1
  User <- MCUser
  Key <- MCKey
  OpeningBalance <- MCOpeningBalance
  Requests <- MCRequests
  Proc = {p1, p2}
  NoProc = none
  MaxCalls = 4
  MaxFaults = 1
SPECIFICATION Spec
INVARIANTS
  CacheTracksExposure
  LedgerExplainsAccount
PROPERTIES
  ImplementsAccount
  NeverOvercommits
CHECK_DEADLOCK FALSE

CONSTANTS
  alice = alice
  hdfc = hdfc
  sbi = sbi
  Account <- MCAccount
  Player <- MCPlayer
  Offers <- MCOffers
  DailyLimit = 3
  Amount = {2}
  OpeningBalance <- MCOpeningBalance
  Proc = {p1, p2}
  NoProc = none
  MaxDeposits = 1
  LastDay = 0
SPECIFICATION Spec
INVARIANT ConfirmNeverDeadlocks
CHECK_DEADLOCK FALSE

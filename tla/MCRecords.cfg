CONSTANTS
  alice = alice
  hdfc = hdfc
  sbi = sbi
  Account <- MCAccount
  Player <- MCPlayer
  Offers <- MCOffers
  DailyLimit = 3
  Amount = {2}
  OpeningBalance <- MCOpeningBalance
  Proc = {p1, p2}
  NoProc = none
  MaxDeposits = 2
  LastDay = 1
  Bettor = {"u"}
  BettorOpening = 2
  Pick = {1}
  Price = {3}
  Stake = {1}
  CommissionRate = 50
  Placer = {"p", "q"}
  RowReader = {"r"}
  MaxRecordedBets = 2
  MaxSections = 3
  MaxSlipFaults = 1
  Clerk = {c1, c2}
  DepositAmount = {2}
  DepositLimit = 3
  Seeded = 1
  MaxNumber = 2
  MaxAccounts = 1
  MaxFiled = 2
  LastDepositDay = 1
  MaxDepositFaults = 1
  Holder = {"m", "a", "c"}
  HolderParent <- MCHolderParent
  NoHolder = "none"
  Role <- MCRole
  BankAccount = {"x", "y"}
  OwnerOf <- MCOwnerOf
  Viewer = {"v"}
  Staff = {"a", "b", "c"}
  StaffParent <- MCStaffParent
  Overseer = {}
  Later = {"b"}
  Kind = {"stats", "settlement"}
  Event = {"match", "over"}
  SelectionsOf <- MCSelectionsOf
  Fancy = {"over"}
SPECIFICATION RecordsSpec
INVARIANTS
  UsageWithinLimit
  NeverOverCredited
  RecordsHold
  ShownAsPaid
SYMMETRY MCSymmetry
CHECK_DEADLOCK FALSE

CONSTANTS
  agent = agent
  player = player
  novice = novice
  demo = demo
  odds = odds
  fancy = fancy
  User <- MCUser
  NoUser = nobody
  Parent <- MCParent
  Opening <- MCOpening
  DemoBalance = 1000
  CommissionRate = 2
  Market <- MCMarket
  Kind <- MCKind
  Selection = {1, 2}
  Quote <- MCQuote
  Requests <- MCRequests
  Credit = {200}
  Proc = {p1, p2}
  MaxRequests = 2
  MaxOperations = 2
SPECIFICATION Spec
INVARIANTS
  BooksBalance
  ExposureIsWhatIsHeld
  PricedAsAsked
PROPERTIES
  HoldsOnlyWhatIsThere
  ClosedBetsAreFinal
CHECK_DEADLOCK FALSE

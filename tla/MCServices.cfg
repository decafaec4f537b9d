CONSTANTS
  agent = agent
  player = player
  won = won
  beaten = beaten
  User <- MCUser
  NoUser = nobody
  OpeningBalance <- MCOpening
  Parent <- MCParent
  Amount = {2}
  PaymentId = {first, second}
  Session = {s}
  SessionUser <- MCSessionUser
  Round <- MCRound
  RoundOf <- MCRoundOf
  RoundPnl <- MCPnl
  Proc = {p1, p2}
  MaxRequests = 4
  MaxTransfers = 1
  MaxFaults = 1
  IP = {ip}
  Rate = 1
  Burst = 2
  IdleFor = 2
  MaxClock = 5
  Person = {u}
  Caller = {c1, c2}
  Secret = {"x", "y"}
  opening <- MCOpeningPassword
  AccessTTL = 2
  RefreshTTL = 3
  LastHour = 3
  MaxCalls = 4
  MaxSlips = 1
  Hot = {ipl}
  Warm = {nba}
  Cold = {mma}
  Scored = {ipl}
  PauseBelow = 4
  SaveForHotBelow = 5
  SaveScoresBelow = 6
  Credits = 7
  MaxLost = 1
  Player = {u}
  Call = {p, q}
  Cap = {"stake", "loss"}
  Default <- MCDefault
  Values = {1}
  Stakes = {1, 2}
  Terms = {2}
  Papers = {d}
  NoPapers = none
  LastSafeHour = 2
  MaxSafeCalls = 4
  Analysis = {1, 2}
  Market = {m}
  Address = {i}
  Window = 2
  ArbWindow = 1
  ProfileKept = 2
  MaxPerWindow = 1
  MaxAddresses = 1
  BurstPoints = 30
  ArbPoints = 40
  AddressPoints = 15
  OtherScores = {0}
  High = 60
  Critical = 80
  LastTick = 3
  Outcome <- MCOutcome
  Bookmaker = {b}
  Client = {c}
  MaxAnswers = 4
  MaxBets = 2
  Member = {super, top, under}
  Above <- MCAbove
  Superadmin = {super, top}
  Notifier = {n1, n2}
  MaxEvents = 2
  MaxRestarts = 1
  MaxNoticeFaults = 1
  super = super
  under = under
  CashOffer = {o1, o2}
  CashDealer = {d, e}
  MaxMarketOps = 3
  Name = {u1, u2, u3}
  Reader = {r}
  Grant = 1
  MaxId = 3
  MaxChanges = 3
  MaxCrashes = 1
SPECIFICATION ServicesSpec
INVARIANTS
  MoneyExplained
  RoundsSettledOnce
  CreditedByOverlapOnly
  RateKept
  TokensHold
  CreditsKept
  MirrorAgrees
  SafeguardsHold
  BurstIsFlagged
  BetKeepsRunner
  ToldOnce
  CashOutHolds
SYMMETRY MCSymmetry
CHECK_DEADLOCK FALSE

CONSTANTS
  User = {alice}
  IP = {ip}
  Code = {1}
  Nonce = {n}
  Proc = {p1, p2}
  NoTime <- MCNoTime
  MaxAttempts = 2
  ResetAfter = 1
  LockFor = 2
  MaxStrikes = 2
  BlockFor = 1
  OTPFor = 1
  NonceWindow = 1
  AccessTTL = 1
  RefreshTTL = 2
  BlacklistFor = 1
  MaxTime = 3
  MaxRequests = 4
  MaxOperations = 1
  MaxStarts = 1
SYMMETRY MCSymmetry
SPECIFICATION Spec
INVARIANTS
  BoundedGuesses
  LogoutLasts
PROPERTIES
  NonceOncePerWindow
  PoolSpec
CHECK_DEADLOCK FALSE

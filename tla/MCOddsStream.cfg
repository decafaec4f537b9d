CONSTANTS
  first = first
  second = second
  watch = watch
  m1 = m1
  m2 = m2
  Conn <- MCConn
  ConnUser <- MCConnUser
  Sub <- MCSub
  SubConn <- MCSubConn
  SubMarkets <- MCSubMarkets
  Cap = 1
  NoConn = none
  NoOdds = noOdds
  MaxUpdates = 4
  MaxFaults = 1
SPECIFICATION FairStreamSpec
INVARIANTS
  NothingLostOnTheWay
  CacheNotBehindClient
  OnRecordIsServed
PROPERTIES
  GoroutinesEnd
CHECK_DEADLOCK FALSE

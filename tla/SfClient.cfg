CONSTANTS
  Caller = {c1, c2, c3}
  NoCaller = NoCaller
  Threshold = 2
  MaxRetry = 2
SPECIFICATION FairSpec
INVARIANTS
  TypeOK
  BreakerRemembers
  EffortIsBounded
  RefreshIsShared
PROPERTY RequestsEnd

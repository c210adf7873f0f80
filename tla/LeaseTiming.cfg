CONSTANTS
  Lease = 18
  Interval = 6
  BackOff = 1
  Buffer = 6
  Period = 24
  QueryMax = 2
  Lag = 1
  SetupMax = 2
SPECIFICATION Spec
INVARIANTS
  TypeOK
  DetectedInTime
  SelfFencing

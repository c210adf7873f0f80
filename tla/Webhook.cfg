CONSTANTS
  Delivery = {d1, d2}
  Pass = {p1, p2}
  MaxRetries = 3
  MaxDeliveries = 3
SPECIFICATION FairSpec
INVARIANTS TypeOK ProcessedMeansApplied NoEventIsForgotten
PROPERTY AcceptedEventsEnd
CHECK_DEADLOCK FALSE

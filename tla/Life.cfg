CONSTANTS
  r1 = r1
  r2 = r2
  p1 = p1
  o1 = o1
  NoRun = NoRun
  Run = {r1}
  Project = {p1}
  Org = {o1}
  ProjectOf <- LifeProjectOf
  OrgOf <- AllOneOrg
  TriggerReq = {t1}
  CancelReq = {c1, c2}
  MaxRetries = 2
  MaxGlobalRuns = 6
  JobRetries = 1
SPECIFICATION FairSpec
INVARIANTS
  TypeOK
  RunningRowsAreLeased
  CompletedRunIsQuiet
PROPERTIES
  KeepsPromise
  InFlightIsTransient
  AttemptsAreClosed

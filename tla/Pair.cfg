CONSTANTS
  r1 = r1
  r2 = r2
  p1 = p1
  o1 = o1
  NoRun = NoRun
  Run = {r1, r2}
  Project = {p1}
  Org = {o1}
  ProjectOf <- PairProjectOf
  OrgOf <- AllOneOrg
  TriggerReq = {t1, t2}
  CancelReq = {}
  MaxRetries = 0
  MaxGlobalRuns = 6
  JobRetries = 0
SPECIFICATION Spec
SYMMETRY PairSymmetry
INVARIANT
  OneUnfinishedRunPerProject

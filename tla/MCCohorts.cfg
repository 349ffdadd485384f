\* Five requests of any kind, any change of the status in between.
CONSTANTS
  r1 = r1  r2 = r2  r3 = r3  r4 = r4  r5 = r5
  Requests = {r1, r2, r3, r4, r5}
  Ops = {"publish", "republish", "view", "signup", "unlock", "insight"}
  MinViews = 2
  MinSignups = 1
  MinDays = 1
  NoRequest = NoRequest
SYMMETRY RequestSymmetry
SPECIFICATION Spec
INVARIANTS OneOpenCohort EveryVisitAttributed MetricsPaidOnce InsightOnData

\* Three requests of any kind, refused dispatches and a crash, from three stages of a project.
CONSTANTS
  r1 = r1  r2 = r2  r3 = r3  r4 = r4
  Requests = {r1, r2, r3}
  Ops = {"turn", "regenerate", "finalize", "reset", "confirm", "rerun", "landing", "publish", "insight", "archive", "unarchive"}
  Starts <- FromStages
  MayRefuse = TRUE
  MaxFaults = 1
  NoRequest = NoRequest
SYMMETRY RequestSymmetry
SPECIFICATION Spec
INVARIANTS ArtifactsBehindStatus ChargeSettled
PROPERTY ImplementsPaidWork

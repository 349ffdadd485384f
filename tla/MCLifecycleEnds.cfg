\* No dispatch is refused and nothing crashes: every job in progress ends.
CONSTANTS
  r1 = r1  r2 = r2  r3 = r3  r4 = r4
  Requests = {r1, r2, r3}
  Ops = {"turn", "finalize", "confirm", "landing", "publish", "insight", "archive"}
  Starts <- FromStages
  MayRefuse = FALSE
  MaxFaults = 0
  NoRequest = NoRequest
SPECIFICATION FairSpec
PROPERTY BusyEnds

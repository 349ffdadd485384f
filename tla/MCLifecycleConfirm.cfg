\* Two confirmations of one refined idea.
CONSTANTS
  r1 = r1  r2 = r2  r3 = r3  r4 = r4
  Requests = {r1, r2}
  Ops = {"confirm"}
  Starts <- FromRefined
  MayRefuse = FALSE
  MaxFaults = 0
  NoRequest = NoRequest
SYMMETRY RequestSymmetry
SPECIFICATION Spec
PROPERTY ResearchStartsAllowed

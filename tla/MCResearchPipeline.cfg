\* Two questions, two pages of which one is kept, two waves of one question each.
CONSTANTS
  Questions = {1, 2}
  Pages = {"u1", "u2"}
  Items = {"i1", "i2", "i3"}
  Page <- MCPage
  Domain <- MCDomain
  TopN = 1
  AtomCap = 1
  Sparse = 1
  MaxScheduled = 1
  MaxWaves = 2
  Tolerance <- MCTolerance
SPECIFICATION FairPipelineSpec
INVARIANTS CitationsResolve SpendIsKept
PROPERTY ComesToAVerdict
CHECK_DEADLOCK FALSE

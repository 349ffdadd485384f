\* The same instance; the run ends at the first report synthesized from nothing.
CONSTANTS
  Questions = {1, 2}
  Pages = {"u1", "u2"}
  Items = {"i1", "i2", "i3"}
  Page <- MCPage
  Domain <- MCDomain
  TopN = 1
  AtomCap = 1
  Sparse = 1
  MaxScheduled = 1
  MaxWaves = 2
  Tolerance <- MCTolerance
SPECIFICATION PipelineSpec
INVARIANT NeverFromNothing
CHECK_DEADLOCK FALSE

\* Two turns of any kind on one thread.
CONSTANTS
  Turns = {"t1", "t2"}
  ModesOf <- MCModesOf
  MaxToolRounds = 1
  MaxTools <- MCMaxTools
  Watched = {"t1"}
  MaxFaults = 1
SPECIFICATION FairSpec
INVARIANTS StreamSeesItsTurn RegistryIsTheLiveTask RunningMeansAlive PollTellsTheTruth AloneIsLinear
PROPERTY EveryTurnEnds
CHECK_DEADLOCK FALSE

\* Three calls on one session, in three mixtures of kinds.
CONSTANTS
  Experiments = {"e1", "e2"}
  Owner <- MCOwner
  Category <- MCCategory
  Calls = {"plain", "structured", "structured2", "search", "lookup"}
  Tasks <- MCTasks
  Kind <- MCKind
  About <- MCAboutOf
  MaxRetries = 1
  MaxAnswers = 2
  MaxFaults = 1
SPECIFICATION FairSpec
INVARIANTS SpendIsWritten OnlyFaultsBreak RollupsAgree
PROPERTY EveryCallReturns
CHECK_DEADLOCK FALSE

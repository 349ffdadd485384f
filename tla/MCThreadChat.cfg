\* Three requests of any kind, two of them with one key.
CONSTANTS
  Requests = {"r1", "r2", "r3"}
  Kinds = {"evidence", "refine"}
  KeyOf <- MCKeyOf
  MaxFaults = 1
SPECIFICATION Spec
INVARIANTS WholeTurns KeyedOnce AloneNothingHidden
CHECK_DEADLOCK FALSE

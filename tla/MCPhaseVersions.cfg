\* Research, edits of the idea and of the report, and generations that overlap them.
CONSTANTS
  Actors = {"a1", "a2", "a3", "a4", "a5"}
  RolesOf <- MCRolesOf
  MaxFaults = 1
SPECIFICATION Spec
INVARIANTS FreshIsCurrent V2Settles
PROPERTY StaleStays
CHECK_DEADLOCK FALSE

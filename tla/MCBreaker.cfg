\* Three callers; every call times out before the cooldown is over.
CONSTANTS
  Callers = {"a", "b", "c"}
  Threshold = 3
  Cooldown = 2
  RetryLimit = 2
  Prompt = TRUE
SPECIFICATION FairBreakerSpec
INVARIANTS SlotHeld OneProbe
PROPERTIES OpensAfterStreak Recovers

CONSTANTS
  Retries = 1
  MaxNotices = 1
  Large = TRUE
SPECIFICATION Spec
CHECK_DEADLOCK FALSE
INVARIANT CachesOnlySuccess

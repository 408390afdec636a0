SPECIFICATION Spec
CONSTANTS
  rpm = 4
  Minute <- MCMinute
  MaxTime <- MCMaxTime
INVARIANTS TypeOK WindowBound
PROPERTIES RefusedOnlySoonAfterGrant

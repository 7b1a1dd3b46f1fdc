SPECIFICATION Spec
CONSTANTS
  Base = 4
  IntLen = 2
  ErrorCodes = {"REQUEST_TIMEOUT", "BUSINESS_ERROR", "INTERNAL_ERROR"}
INVARIANTS
  AddResultIsTrue
CHECK_DEADLOCK FALSE

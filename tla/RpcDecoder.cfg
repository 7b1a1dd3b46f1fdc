SPECIFICATION Spec
CONSTANTS
  Base = 4
  VERSION_LEN = 1
  REQUEST_TYPE_LEN = 1
  REQUEST_ID_LEN = 1
  RESPONSE_RESULT_LEN = 1
  ERROR_CODE_LEN = 1
  STRING_LEN = 1
  ERROR_CODE_CNT = 3
  MaxLen = 8
INVARIANTS
  CursorInBounds
  AcceptsOnlyEncodings
  SizeIsExact
CHECK_DEADLOCK FALSE

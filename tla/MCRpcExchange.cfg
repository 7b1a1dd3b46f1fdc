SPECIFICATION Spec
CONSTANTS
  Base = 4
  VERSION_LEN = 2
  REQUEST_TYPE_LEN = 1
  REQUEST_ID_LEN = 2
  RESPONSE_RESULT_LEN = 1
  ERROR_CODE_LEN = 2
  STRING_LEN = 2
  ERROR_CODE_CNT = 11
  ErrorCodes = {0, 5, 10, 11}
  RequestIds = {1, 6}
  Strings <- ShortStrings
  Sizes <- SizesAround
  ExceptionText <- Text1
  TooLargeText <- Text2
  InvalidText <- Text3
  NotFoundText <- Text4
INVARIANTS
  ResultArrives
  OnlySmallLimitsClose
CHECK_DEADLOCK FALSE

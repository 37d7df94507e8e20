\* printf and scanf of the user library, with small integers
SPECIFICATION FormatSpec
CONSTANTS
  CHAR_BITS = 3
  SHORT_BITS = 4
  INT_BITS = 5
  MAX_BITS = 8
  Calls <- MCCalls
  MEM = 22
INVARIANTS
  FormatTypeOK
  NothingPastBuffer
  TruncatesOnly
  TicksSeparate
  ScanStaysInText
  RoundTrip
CHECK_DEADLOCK FALSE

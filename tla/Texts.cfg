SPECIFICATION TextsSpec
CONSTANTS
  Letters <- MCLetters
  Words <- MCWords
  MaxLength = 7
  Bytes <- MCBytes
  Word = 16384
  MaxBytes = 6
INVARIANTS TypeOK NoEmptyValue FormRead FirstCookieRead RoundTrip
CHECK_DEADLOCK FALSE

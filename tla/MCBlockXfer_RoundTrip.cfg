CONSTANTS
  bz = bz
  b1 = b1
  Bytes <- MCBytes
  Zero <- bz
  BlockSize = 2
  MaxLen = 3
SPECIFICATION Spec
INVARIANT
  RoundTrip
CHECK_DEADLOCK FALSE

CONSTANTS
  UIntMax = 1048575
  HiddenBit = 16
  InfinityE = 31
  kBias = 12
  StringBuffer = 16
  OctetBase = 32
  TextAlphabets <- Alphabets
  Documents <- Texts
  PayloadAlphabets <- Foreign
  Messages <- Samples
SPECIFICATION Spec
INVARIANTS ParseAgrees TextRoundTrip CborRoundTrip Delivered Survives
CHECK_DEADLOCK FALSE

\* Bytes of two bits: the codes get wider at the second and at the tenth entry of the
\* table, strips of up to ten bytes, under a directory that declares up to one more.
SPECIFICATION LzwSpec
CONSTANTS
  ByteBits = 2
  MaxWidth = 5
  ResetAt = 30
  DataBytes = {0, 1, 3}
  MaxInput = 10
  MaxStream = 0
INVARIANTS EndIsSeen
CHECK_DEADLOCK FALSE

\* "32-bit" numbers modulo 4: a request of two blocks of two bytes is 2^32 bytes.
CONSTANTS
  BS = 2
  M32 = 4
  PartLba = 1
  MaxRead = 6
  MaxPos = 6
  Files <- PlainFile
SPECIFICATION FairSpec
PROPERTY ReadReturns

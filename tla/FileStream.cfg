\* Blocks of three bytes, requests of up to three and a third of them: every
\* combination of a part, whole blocks and a part. 32-bit numbers are large
\* enough for every request.
CONSTANTS
  BS = 3
  M32 = 18
  PartLba = 1
  MaxRead = 10
  MaxPos = 14
  Files <- MCFiles
SPECIFICATION FairSpec
INVARIANTS TypeOK BlockCoherent ReadIsRight BlocksAreRight PositionFollows InsideFile
PROPERTY ReadReturns

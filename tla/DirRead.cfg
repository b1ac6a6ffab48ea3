\* Directories of up to five blocks, in an extent, behind a pointer or inside
\* the entry, with any two copies of their blocks unreadable; and the files.
CONSTANTS
  Media <- MCDirs
  MaxParts = 3
  MaxBlocks = 8
  Names <- MCDirNames
  BS = 8
  TagSize = 3
  FidHead = 5
  Pad = 2
  M32 = 512
  SizeFe = 5
  OffAds = 3
  OffContent = 4
  SizeAd = 2
SPECIFICATION DirSpec
INVARIANTS DirTypeOK ListIsWhole NoWrongBlock EntriesAreRight DirIsWhole OneCopyOfEach NameFits NameDecodes
PROPERTY DirReturns

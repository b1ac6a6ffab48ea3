\* Two attempts with one handle, on discs with different metadata files.
CONSTANTS
  M32 = 4096
  RecFirst = 1
  Anchor = 4
  Names = {"disc", "a", "b", "c"}
  NoDisc = "no disc"
  Discs = {"mirrored", "elsewhere"}
  Content <- MCContent
  Requests <- FirstOnly
  MaxAttempts = 2
  MaxBad = 2
  MaxHops = 1
SPECIFICATION Spec
INVARIANT MetadataOfThisDisc

\* As VolumeOpen.cfg, one attempt.
CONSTANTS
  M32 = 4096
  RecFirst = 1
  Anchor = 4
  Names = {"disc", "a", "b", "c"}
  NoDisc = "no disc"
  Discs = {"mirrored", "pointed", "damaged"}
  Content <- MCContent
  Requests <- MCRequests
  MaxAttempts = 1
  MaxBad = 2
  MaxHops = 1
SPECIFICATION Spec
INVARIANT PvdMayBeMissing

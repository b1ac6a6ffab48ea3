\* Any two blocks of a disc may be unreadable in the first attempt with a handle,
\* any one in the second.
\* M32 is far above every block number.
CONSTANTS
  M32 = 4096
  RecFirst = 1
  Anchor = 4
  Names = {"disc", "a", "b", "c"}
  NoDisc = "no disc"
  Discs = {"mirrored", "pointed", "damaged"}
  Content <- MCContent
  Requests <- MCRequests
  MaxAttempts = 2
  MaxBad = 2
  MaxHops = 1
SPECIFICATION FairSpec
INVARIANTS TypeOK InputsHeld SearchIsRight OneCopyIsEnough OpenedIsComplete
PROPERTIES StaysOpen OpenReturns

CONSTANTS
  Thread = {t1, t2}
  Opener = t1
  Requests <- MCRequests
  BlockSize = 2
  FileSize = 5
  MaxInterrupts = 1
  NoRequest = NoRequest
  None = None
SPECIFICATION FairSpec
INVARIANTS PlaceIsRight
PROPERTIES ImplementsDevice LastCallReturns

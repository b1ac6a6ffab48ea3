CONSTANTS
  Thread = {t1, t2}
  Opener = t1
  Stream = {s1}
  NumEntries = 2
  Handler = {stderr, own}
  Default = stderr
  Levels = {0, 1, 3}
  Closed = Closed
SPECIFICATION Spec
INVARIANTS LoggerPaired OnlyEcmaFollowsNull ReaddirInOrder

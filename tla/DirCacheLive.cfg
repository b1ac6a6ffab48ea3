\* Scheduling: two threads that open one path of two directories; no symmetry,
\* which is not sound for liveness.
CONSTANTS
  t1 = t1  t2 = t2
  r = r  o1 = o1  o2 = o2  o3 = o3  o4 = o4
  s1 = s1  b1 = b1  b2 = b2  b3 = b3
  a = a  c = c  f = f
  iRoot = iRoot  iA = iA  iC = iC  iF = iF
  Thread = {t1, t2}
  Stream = {s1}
  DirObj = {r, o1, o2, o3}
  ArrObj = {b1, b2}
  Root = r
  NULL = NULL
  Icb = {iRoot, iA, iC, iF}
  RootIcb = iRoot
  Name = {a, c, f}
  MaxEntries = 3
  Readings <- MCReadings
  Path <- DeepPath
SPECIFICATION LoneSpec
PROPERTIES LoneCallReturns CloseReturns ImplementsSharedTree

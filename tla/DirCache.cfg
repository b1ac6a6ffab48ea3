\* Two threads and one stream on a tree of three directories; enough addresses
\* for both threads to hold a private object while two directories are cached.
CONSTANTS
  t1 = t1  t2 = t2
  r = r  o1 = o1  o2 = o2  o3 = o3  o4 = o4
  s1 = s1  b1 = b1  b2 = b2  b3 = b3
  a = a  c = c  f = f
  iRoot = iRoot  iA = iA  iC = iC  iF = iF
  Thread = {t1, t2}
  Stream = {s1}
  DirObj = {r, o1, o2, o3}
  ArrObj = {b1, b2, b3}
  Root = r
  NULL = NULL
  Icb = {iRoot, iA, iC, iF}
  RootIcb = iRoot
  Name = {a, c, f}
  MaxEntries = 3
  Readings <- MCReadings
  Path <- MCPath
SPECIFICATION Spec
SYMMETRY Symmetry
INVARIANTS TypeOK NoDangling NoLeak CleanClose HandlesLive Loaded WalkIsRight
PROPERTY Stable

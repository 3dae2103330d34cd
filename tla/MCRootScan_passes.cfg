SPECIFICATION Spec
CONSTANTS
  r1 = r1
  r2 = r2
  d = d
  p1 = p1
  p2 = p2
  p3 = p3
  kite = kite
  lion = lion
  w1 = w1
  w2 = w2
  Nothing = Nothing
  Root = {r1, r2}
  Dir = {r1, r2, d}
  Order <- MCOrder
  Above <- MCAbove
  Path = {p1, p2, p3}
  DirOf <- MCDirOf
  Name <- MCName
  Streamed = {p3}
  Content = {kite, lion}
  Size <- MCSize
  Broken = {lion}
  Worker = {w1, w2}
  InitDisk <- MCDisk
  Indexed <- MCIndexed
  MaxPasses = 2
  MaxEvents = 2
INVARIANT CatchesUp
PROPERTY KeepsWhatStayed
PROPERTY ReportIsCurrent
CHECK_DEADLOCK FALSE
SYMMETRY MCSymmetry

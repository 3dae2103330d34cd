SPECIFICATION Spec
CONSTANTS
  l1 = l1
  l2 = l2
  o1 = o1
  t1 = t1
  kite = kite
  lion = lion
  mist = mist
  Nothing = Nothing
  Lib = {l1, l2}
  Other = {o1}
  Bin = {t1}
  Content = {kite, lion, mist}
  Similar <- MCSimilar
  Broken = {mist}
  InitDisk <- MCDisk
  MaxJobs = 4
  MaxEvents = 3
  MaxCrashes = 1
INVARIANT DiscardsRemembered
INVARIANT OrphansOnlyByUntrash
PROPERTY RecyclesOnlyCondemned
CHECK_DEADLOCK FALSE

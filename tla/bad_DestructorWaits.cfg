SPECIFICATION Spec
CONSTANTS
  NoTask = NoTask
  Tasks = {t1, t2}
  Producers = {p1, p2}
  MaxThreads = 2
  InitThreads = 1
  ResizeTo = {0, 1}
  WaitModes = {TRUE}
SYMMETRY Symmetry
INVARIANT DestructorWaits

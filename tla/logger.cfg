\* Two threads, four messages, files of two messages, three seconds.
SPECIFICATION Spec
CONSTANTS
  Threads = {t1, t2}
  Main = t1
  Messages = {m1, m2, m3, m4}
  Hello = Hello
  Bye = Bye
  MaxSize = 2
  MaxClock = 2
  CanRemove = TRUE
  CanFail = TRUE
SYMMETRY Symmetry
CHECK_DEADLOCK FALSE
INVARIANTS
  TypeOK
  Complete
  TruncatesOnlyInBurst
  SizeBounded

\* Two signals at any moment, two events at each descriptor, every failure of
\* the initialisation, one edit of the configuration between its readings, and a directory that may be deleted.
SPECIFICATION FairSpec
CONSTANTS
  Files <- MCFiles
  MaxEdits = 1
  TermDuringInit = TRUE
  DirCanVanish = TRUE
  MaxTerms = 2
  MaxEvents = 2
CHECK_DEADLOCK FALSE
INVARIANTS
  TypeOK
  LoopsFindTheirTools
  NormalExitIsAsked
  StartedCanWork
PROPERTY
  TermEndsDaemon

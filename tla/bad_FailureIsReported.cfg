SPECIFICATION Spec
CONSTANTS
  Files <- MCFiles
  MaxEdits = 0
  TermDuringInit = FALSE
  DirCanVanish = FALSE
  MaxTerms = 1
  MaxEvents = 1
CHECK_DEADLOCK FALSE
INVARIANT
  FailureIsReported

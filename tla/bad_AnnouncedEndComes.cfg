SPECIFICATION FairSpec
CONSTANTS
  Files <- MCFiles
  MaxEdits = 0
  TermDuringInit = TRUE
  DirCanVanish = FALSE
  MaxTerms = 1
  MaxEvents = 1
CHECK_DEADLOCK FALSE
PROPERTY
  AnnouncedEndComes

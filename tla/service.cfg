\* Three changes of two songs, one restart of the watcher, failing statements,
\* small queues, the database in the watched directory as in ini_example.ini,
\* and a server that may be asked for any song at any time.
SPECIFICATION FairServiceSpec
CONSTANTS
  Songs = {s1, s2}
  Journal = Journal
  DbInDir = TRUE
  CanFail = TRUE
  BufMax = 2
  QueueMax = 2
  MaxChanges = 3
  MaxStops = 1
CHECK_DEADLOCK FALSE
INVARIANTS
  ServiceTypeOK
  SettledExact
PROPERTIES
  AnswersFit
  UidsCatchUp
  ComesToRest

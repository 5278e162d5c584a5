\* Two threads, three calls of each; the connection breaks at any moment.
SPECIFICATION FairSpec
CONSTANTS
  writer = writer
  both = both
  worker = worker
  Clients = {writer, both}
  Workers = {worker}
  CallsOf <- MCCallsOf
  MaxCalls = 3
CHECK_DEADLOCK FALSE
INVARIANTS
  TypeOK
  ResultsAccumulate
  OneInDoubt
PROPERTIES
  CallsReturn
  ImplementsSqlTable

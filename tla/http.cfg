\* Two clients, two requests, one song; its row, its file or the configuration
\* changes once, three numbers, everything may fail, SIGTERM may come.
SPECIFICATION FairSpec
CONSTANTS
  u1 = u1
  Uids = {u1}
  Clients = {k1, k2}
  Names = {n1}
  Contents = {c1}
  Log = Log
  URIs <- MCURIs
  MaxFd = 3
  CanFail = TRUE
  MaxChanges = 1
  MaxAsks = 2
CHECK_DEADLOCK FALSE
INVARIANTS
  TypeOK
  RepliesAreTrue
  LostOnlyInOverlap
  NoSongLeftOpen
PROPERTIES
  RequestsAreAnswered
  FlagEndsServer

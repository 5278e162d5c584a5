SPECIFICATION Spec
CONSTANTS
  addLoop = addLoop
  delLoop = delLoop
  server = server
  songs = songs
  contents = contents
  requests = requests
  Clients = {addLoop, delLoop, server}
  Workers = {songs, contents, requests}
  CallsOf <- MCCallsOf
  Process <- MCProcess
  MaxCalls = 2
  CanFailToOpen = TRUE
  CanFailInSQL = FALSE
INVARIANT
  ListAnswersAnyway

\* Two clients, one after the other or at once, with ENABLE_CLIENT_ALIVE_TRACKER.
SPECIFICATION FairSpec
CONSTANTS
  paths = paths
  other = other
  echo = echo
  opt1 = opt1
  opt2 = opt2
  MaxSessions = 2
  MaxJobs = 2
  Commands = {paths}
  Known = {paths}
  Options = {opt1, opt2}
  EchoCmd = echo
  Pieces = 2
  AliveTracker = TRUE
INVARIANTS
  TypeOK
  RequestsKept
  OneRunsPerCommand
  ResponsesWhole
PROPERTIES
  RequestsAnswered
  DepartedClientIsReplaced

\* The build as it is configured: no ENABLE_CLIENT_ALIVE_TRACKER.
SPECIFICATION FairSpec
CONSTANTS
  paths = paths
  other = other
  echo = echo
  opt1 = opt1
  opt2 = opt2
  MaxSessions = 2
  MaxJobs = 1
  Commands = {paths, other}
  Known = {paths}
  Options = {opt1, opt2}
  EchoCmd = echo
  Pieces = 1
  AliveTracker = FALSE
PROPERTIES
  DepartedClientIsReplaced

\* Three requests of one client for one command, with two different options.
SPECIFICATION Spec
CONSTANTS
  paths = paths
  other = other
  echo = echo
  opt1 = opt1
  opt2 = opt2
  MaxSessions = 1
  MaxJobs = 3
  Commands = {paths}
  Known = {paths}
  Options = {opt1, opt2}
  EchoCmd = echo
  Pieces = 1
  AliveTracker = TRUE
INVARIANTS
  OneStillRuns

\* wait_for_all can sleep through the only notification it will get.
SPECIFICATION FairSpec
CONSTANTS
  root = root
  left = left
  right = right
  leaf = leaf
  flat = flat
  client = client
  none = none
  NumThreads = 1
  Tasks = {root, left}
  Client = client
  NoTask = none
  Faulty = {}
  StartupRace = FALSE
  Parent <- TreeParent2
PROPERTIES
  WaitReturns

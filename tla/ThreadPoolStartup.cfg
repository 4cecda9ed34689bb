\* The constructor moves thread_data while the new thread may still read it.
SPECIFICATION Spec
CONSTANTS
  root = root
  left = left
  right = right
  leaf = leaf
  flat = flat
  client = client
  none = none
  NumThreads = 2
  Tasks = {root, left}
  Client = client
  NoTask = none
  Faulty = {}
  StartupRace = TRUE
  Parent <- TreeParent2
INVARIANTS
  OwnQueue

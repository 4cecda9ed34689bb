\* A tree of tasks and a task by itself on two workers; one body may throw.
SPECIFICATION FairSpec
CONSTANTS
  root = root
  left = left
  right = right
  leaf = leaf
  flat = flat
  client = client
  none = none
  NumThreads = 2
  Tasks = {root, left, right, leaf, flat}
  Client = client
  NoTask = none
  Faulty = {flat}
  StartupRace = FALSE
  Parent <- TreeParent
INVARIANTS
  TypeOK
  HeldOnce
  SleepersWillBeWoken
PROPERTIES
  ImplementsWorkPool
  ScheduledTasksComplete
  DestructorReturns

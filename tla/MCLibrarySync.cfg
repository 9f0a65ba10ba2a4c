SPECIFICATION Spec
CONSTANTS
  NumThreads = 2
  Locs = {11}
  Configurations <- LocksByDefault
INVARIANTS
  SynchronisationIsReal

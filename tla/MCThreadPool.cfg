SPECIFICATION FairSpec
CONSTANTS
  N = 3
  TasksPerWorker = 1
  MaxTasks = 3
INVARIANTS
  TypeOK
  Accounting
  TasksConserved
  QueuedTaskIsServed
  NoEarlyHalt
  VerdictIsComplete
PROPERTIES
  ImplementsTaskPool
  TasksFinish

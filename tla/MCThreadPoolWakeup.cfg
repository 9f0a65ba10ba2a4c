SPECIFICATION FairSpec
CONSTANTS
  N = 2
  TasksPerWorker = 1
  MaxTasks = 1
PROPERTIES
  EveryoneNotified

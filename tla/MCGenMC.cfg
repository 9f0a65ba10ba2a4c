SPECIFICATION FairSpec
CONSTANTS
  NumThreads = 3
  Locs = {"x", "y"}
  Configs <- AllConfigs
INVARIANTS
  GraphWellFormed
  ViewsExact
  WorkItemsValid
  Exact
  Optimal
PROPERTIES
  Terminates

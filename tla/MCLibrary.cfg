SPECIFICATION Spec
CONSTANTS
  NumThreads = 2
  Locs = {1, 2, 3, 11, 12, 13, 20}
  Configurations <- AllClients
INVARIANTS
  CallsIdentified
  CommunicationExact

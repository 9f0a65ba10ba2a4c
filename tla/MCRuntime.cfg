SPECIFICATION Spec
CONSTANTS
  NumThreads = 3
  Locs <- AllLocs
  Static <- Globals
  DynBase = 10
  MaxPreemptions = 2
  Programs <- AllPrograms
INVARIANTS
  MutualExclusion
  NoLostLock
  BarrierExact
  NoLivelock
  HappensBeforeExact
  MemoryErrorsExact
  DataRacesExact
  SpinBlocksJustified
  LivenessSound

SPECIFICATION Spec
CHECK_DEADLOCK FALSE
CONSTANTS
  Threads <- MCThreads
  Names <- MCNames
  Programs <- MCPrograms
  Modes <- MCModes
  BlockSize = 2
  MaxFileSize = 6
  LockFailed = 42
INVARIANTS
  FilesExact
  LocksReleased
  ReadsInitialized
  LockedReadsExact
  RecoveredInitialized
  RecoveredDirectory
  RecoveryExact

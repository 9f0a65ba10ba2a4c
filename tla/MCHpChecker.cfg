SPECIFICATION Spec
CONSTANTS
  Threads = {t1}
  Addrs = {16, 17}
  MaxCalls = 7
INVARIANTS LiftsWhatItHolds ReclaimsOnce

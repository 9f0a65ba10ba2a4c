SPECIFICATION Spec
CONSTANTS
  Threads = {t1, t2}
  Addrs = {16, 17}
  MaxCalls = 2
INVARIANTS LabelsExist

\* Two writes, two workers, an adapter that never delivers again.
SPECIFICATION Spec
CONSTANTS
  Job = {j1, j2}
  Worker = {w1, w2}
  NoJob = NoJob
  Fault <- AtMostOnce
  MaxDeliveries = 1
SYMMETRY Symmetry
INVARIANT TypeOK
PROPERTY PromiseKept
CHECK_DEADLOCK FALSE

SPECIFICATION Spec
CONSTANTS
  Job = {j1, j2}
  Worker = {w1, w2}
  NoJob = NoJob
  Fault <- Sequential
  MaxDeliveries = 3
SYMMETRY Symmetry
INVARIANT OutcomeIsLastExecution
CHECK_DEADLOCK FALSE

SPECIFICATION FairSpec
CONSTANTS
  Job = {j1, j2}
  Worker = {w1, w2}
  NoJob = NoJob
  Fault <- AtLeastOnce
  MaxDeliveries = 2
INVARIANT CompletedMeansCommitted
INVARIANT NoForgottenJob
PROPERTY AcceptedSettles
CHECK_DEADLOCK FALSE

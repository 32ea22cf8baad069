SPECIFICATION FairSpec
CONSTANTS
  c1 = c1
  c2 = c2
  Client = {c1, c2}
  Registration = {r1}
  Owner <- OwnedByFirst
  Change = {e1}
  NoChange = NoChange
  Subscribable <- OneName
  Status = {200, 500}
  NetworkError = NetworkError
  Attempts = 2
  MaxDeaths = 1
  MaxEdits = 2
INVARIANT TypeOK
INVARIANT OnlySubscribersTold
INVARIANT NoSubscriberMissed
INVARIANT RepeatsNeedDeath
PROPERTY EveryEventSettles
CHECK_DEADLOCK FALSE

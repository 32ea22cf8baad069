SPECIFICATION Spec
CONSTANTS
  c1 = c1
  c2 = c2
  Client = {c1}
  Registration = {r1}
  Owner <- OwnedByFirst
  Change = {e1}
  NoChange = NoChange
  Subscribable <- OneName
  Status = {200, 300, 500}
  NetworkError = NetworkError
  Attempts = 2
  MaxDeaths = 0
  MaxEdits = 0
INVARIANT OnlySuccessAccepted
CHECK_DEADLOCK FALSE

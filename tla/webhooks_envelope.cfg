SPECIFICATION Spec
CONSTANTS
  c1 = c1
  c2 = c2
  Client = {c1}
  Registration = {r1}
  Owner <- OwnedByFirst
  Change = {e1, e2}
  NoChange = NoChange
  Subscribable <- Names
  Status = {200, 500}
  NetworkError = NetworkError
  Attempts = 2
  MaxDeaths = 0
  MaxEdits = 0
INVARIANT TypeMatchesData
CHECK_DEADLOCK FALSE

SPECIFICATION Spec
CONSTANTS
  o1 = o1
  o2 = o2
  h1 = h1
  h2 = h2
  h3 = h3
  Org = {o1}
  Host = {h1, h2}
  NoHost = NoHost
  NoOrg = NoOrg
  FirstHost <- OneOrg
  Ip = {i1, i2}
  Balancer = {i1, i2}
  Client = {c1, c2}
  Worker = {w1, w2}
  MaxAttempts = 2
  Fault = {"overlap", "redeliver", "lose"}
  MaxRequests = 2
SYMMETRY Symmetry
INVARIANT TypeOK
INVARIANT HostWasReady
INVARIANT NilMeansNothingToUpdate
INVARIANT ClientDataKept
CHECK_DEADLOCK FALSE

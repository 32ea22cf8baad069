SPECIFICATION FairSpec
CONSTANTS
  o1 = o1
  o2 = o2
  h1 = h1
  h2 = h2
  h3 = h3
  Org = {o1, o2}
  Host = {h1, h2, h3}
  NoHost = NoHost
  NoOrg = NoOrg
  FirstHost <- TwoOrgs
  Ip = {i1}
  Balancer = {i1}
  Client = {c1}
  Worker = {w1}
  MaxAttempts = 2
  Fault = {}
  MaxRequests = 3
INVARIANT NilMeansNothingToUpdate
INVARIANT PendingIsWatched
PROPERTY SwitchIsOneStep
PROPERTY PendingIsDecided
CHECK_DEADLOCK FALSE

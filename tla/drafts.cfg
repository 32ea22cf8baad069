SPECIFICATION Spec
CONSTANTS
  User = {u1, u2}
  Client = {c1, c2}
  Proposal = {p1, p2}
  Request = {r1, r2}
  Field = {title, body}
  Roaming = {"create", "publish", "vote"}
  Limit = 1
  MaxRequests = 6
SYMMETRY Symmetry
INVARIANTS TypeOK SecondDraftHasCause LimitHasCause PublishedIsAnnounced IncompleteNeedsRace NullNeedsRace VotesAreForPublished
PROPERTIES PublishedStays FilledStays
CHECK_DEADLOCK FALSE

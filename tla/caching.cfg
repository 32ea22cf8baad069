SPECIFICATION Spec
CONSTANTS
  k = k
  l = l
  v = v
  a = a
  b = b
  Key = {k, l}
  Value = {v}
  Blank = Blank
  MaxDepth = 2
  Item = {a, b}
  Writer = {w1, w2}
  Me = Me
  Other = Other
  NoHash = NoHash
  Kinds = {"index", "show", "data"}
  Update <- MCUpdate
  FirstHash <- MCFirstHash
  Url <- MCUrl
  MaxWrites = 2
SYMMETRY Symmetry
INVARIANTS TypeOK StaleHasCause DataNeverStale
PROPERTY RestKept
CHECK_DEADLOCK FALSE

SPECIFICATION Spec
CONSTANTS
  k = k
  l = l
  v = v
  a = a
  b = b
  Key = {k, l}
  Value = {v}
  Blank = Blank
  MaxDepth = 2
  Item = {a, b}
  Writer = {w1, w2}
  Me = Me
  Other = Other
  NoHash = NoHash
  Kinds = {"data"}
  Update <- MCUpdate
  FirstHash <- MCFirstHash
  Url <- MCUrl
  MaxWrites = 2
PROPERTY MergesRecursively
CHECK_DEADLOCK FALSE

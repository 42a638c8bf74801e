\* Programs of three statements over two variables and a reference.
SPECIFICATION OSpec
CONSTANTS
  Name = {a, b}
  RefName = {r}
  NoName = NoName
  Nothing = Nothing
  Garbage = Garbage
  Nowhere = Nowhere
  Caller = Caller
  MaxStmts = 3
  MaxDepth = 3
INVARIANT
  DropsOwnedValues
CHECK_DEADLOCK FALSE

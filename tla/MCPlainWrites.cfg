\* Critical sections that add to a variable or set it.
SPECIFICATION Spec
CONSTANTS
  main = main  other = other
  Sources = {main}
  MainSource = main
  Commands = {{main}}
  Programs <- PlainPrograms
  Names <- NamesUsed
  Variables <- Shared
  Literal <- LiteralMap
  Word = 4
  InToolHome = TRUE
  MaxCompiles = 2
INVARIANTS AcceptedWritesCommute
CHECK_DEADLOCK FALSE

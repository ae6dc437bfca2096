\* Two functions whose critical sections update the variables they read, and one
\* in another file; tasksan compiles both files, or that of main alone.
SPECIFICATION Spec
CONSTANTS
  main = main  other = other
  Sources = {main, other}
  MainSource = main
  Commands = {{main, other}, {main}}
  Programs <- UpdatePrograms
  Names <- NamesUsed
  Variables <- Shared
  Literal <- LiteralMap
  Word = 4
  InToolHome = TRUE
  MaxCompiles = 2
INVARIANTS SectionsKnown AcceptedWritesCommute StartsUnlessDegenerate
CHECK_DEADLOCK FALSE

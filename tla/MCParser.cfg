SPECIFICATION FairSpec
CONSTANTS
  Inputs <- Texts
  Builds = {TRUE, FALSE}
INVARIANTS
  TypeOK
  SourceInTree
  TextNodesMaximal
  CommandsAreNotText
  BracketsMatch
PROPERTIES
  Terminates

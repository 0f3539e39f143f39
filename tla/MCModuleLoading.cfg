SPECIFICATION FairSpec
CONSTANTS
  Decls <- TreeDecls
  Core = 1
  ParentOf <- TreeParentOf
  NameOf <- TreeNameOf
  TargetOf <- TreeTargetOf
  Suspending = {5, 6}
  Faulty = {4, 5, 6}
  Targets = {"html"}
  MaxBuilds = 2
  LateTargets = TRUE
INVARIANTS
  TypeOK
  NamesUnique
  SyncSubmodulesFirst
  ResolvedMeansRegistered
  OneBuildResolves
  FailuresSurface
PROPERTIES
  ImplementsContract
  EverythingSettles
CHECK_DEADLOCK FALSE

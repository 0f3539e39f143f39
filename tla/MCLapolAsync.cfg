SPECIFICATION LapolSpec
CONSTANTS
  r1 = r1
  r2 = r2
  Decls <- LibDecls
  Core = 1
  Main = 4
  ParentOf <- LibParentOf
  NameOf <- LibNameOf
  TargetOf <- LibTargetOf
  Suspending = {8}
  Faulty = {}
  Targets = {"html", "latex"}
  MaxBuilds = 1
  LateTargets = FALSE
  Renders = {r1, r2}
  Paths = {"a", "b"}
  Dirs = {"out"}
  DirOf <- OnePath
  Keys = {}
  Normal <- NoKey
  PathOf <- NoKey
  Code = Code
  OutOf <- OutPaths
  CodeOf <- OutPaths
  RenderTarget <- RenderTargets
  Requires <- NoRequirement
  BadInputs = {}
  Strings <- StringsOf
  Roots <- RootsOf
  Needs <- NeedsOf
  Busy = FALSE
  FaultyIO = {"read", "write"}
  Absent = Absent
  Torn = Torn
INVARIANTS
  FileContextComplete
CHECK_DEADLOCK FALSE

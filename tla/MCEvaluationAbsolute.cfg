CONSTANTS
  Modules = {"core", "main"}
  Core = "core"
  Root = "__root__"
  Exports <- ModuleExports
  Super = "super"
  Identifiers <- Ids
  Required = {"main"}
  Aliases = {"__doc"}
  PrefixIns = {""}
  MaxFiles = 1
  MaxCalls = 2
  MaxDepth = 2
  Absolute = TRUE
SPECIFICATION Spec
INVARIANT AbsoluteMeansFromRoot
CHECK_DEADLOCK FALSE

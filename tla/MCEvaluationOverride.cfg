CONSTANTS
  Modules = {"core", "main"}
  Core = "core"
  Root = "__root__"
  Exports <- ModuleExports
  Super = "super"
  Identifiers <- Ids
  Required = {"main"}
  Aliases = {"__doc"}
  PrefixIns = {""}
  MaxFiles = 1
  MaxCalls = 1
  MaxDepth = 2
  Absolute = FALSE
SPECIFICATION Spec
PROPERTY DefaultsCanBeOverridden
CHECK_DEADLOCK FALSE

CONSTANTS
  Modules = {"core", "main", "ext"}
  Core = "core"
  Root = "__root__"
  Exports <- ModuleExports
  Super = "super"
  Identifiers <- Ids
  Required = {"main", "ext", "none"}
  Aliases = {"b", "__doc"}
  PrefixIns = {"", "m_"}
  MaxFiles = 2
  MaxCalls = 5
  MaxDepth = 3
  Absolute = FALSE
SPECIFICATION Spec
INVARIANTS
  TypeOK
  PendingCallsResolve
  OnlyRequiredModules
  UsingAllIsWhole
PROPERTIES
  ImplementsScope
  FilesIndependent
\* After the last file there is nothing left to do.
CHECK_DEADLOCK FALSE

SPECIFICATION Spec
CONSTANTS
  r1 = r1
  r2 = r2
  r3 = r3
  r4 = r4
  Renders = {r1, r2}
  Paths <- PathsOf
  Dirs = {".", "deps"}
  DirOf <- DirOfPath
  Keys <- KeysOf
  Normal <- NormalOf
  PathOf <- PathOfKey
  Code = Code
  OutOf <- OutPaths
  CodeOf <- Codes
  TargetOf <- Targets
  Requires <- Requirements
  BadInputs = {}
  Strings <- StringsOf
  Roots <- RootsOf
  Needs <- NeedsOf
  Busy = TRUE
  FaultyIO = {"copy"}
  Absent = Absent
  Torn = Torn
INVARIANTS
  EbusyIsNoIssue
CHECK_DEADLOCK FALSE

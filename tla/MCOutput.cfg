CONSTANTS
  Main = "main"
  Outputters <- StdOutputters
  Providers <- StdProviders
  Requires <- StdRequires
  Normal <- StdNormal
  Targets = {"html", "latex"}
  Registries <- StdRegistries
  Late = {"bolder", "strings"}
  Objects <- AllObjects
  Elements <- DocElements
  Contents <- TitleContents
  MaxFiles = 2
  MaxElems = 3
  MaxDepth = 5
SPECIFICATION Spec
INVARIANTS
  TypeOK
  TextAsWritten
  
  RequiresWhatItNeeds
  CacheFresh
\* After the last file nothing is left to do.
CHECK_DEADLOCK FALSE

SPECIFICATION Spec
CONSTANTS
  Texts <- Names
  Letters = {"a", "b"}
  None = None
  Thrown = Thrown
INVARIANTS
  DividedAtSingleColons
  UsingNamesThing
PROPERTIES
  DividesExactly

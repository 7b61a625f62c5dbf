SPECIFICATION Spec
CONSTANTS
  Inputs <- FailingInputs
  EntityNames <- SomeEntities
  EntityKind <- SomeKinds
  EntityValue <- SomeValues
  FromParameter <- OneParameter
  Prefixes <- SomePrefixes
  PrefixOf <- NamePrefix
  DefaultPrefix = ""
  NoUri = "none"
  MaxDepth = 3
  MaxEntityDepth = 3
PROPERTIES ParseErrorsTerminal

SPECIFICATION FairSpec
CONSTANTS
  Inputs <- AllInputs
  EntityNames <- SomeEntities
  EntityKind <- SomeKinds
  EntityValue <- SomeValues
  FromParameter <- OneParameter
  Prefixes <- SomePrefixes
  PrefixOf <- NamePrefix
  DefaultPrefix = ""
  NoUri = "none"
  MaxDepth = 3
  MaxEntityDepth = 3
INVARIANTS EventsExpected OutcomeExpected NestingKept
PROPERTIES ErrorFinal CallReturns

\* Two module files with every combination of texts, and three of two modules.
SPECIFICATION FairSpec
CONSTANTS
  Module <- MCModule
  Builtin = "builtin"
  File = {"m", "a", "b", "c"}
  Main = "m"
  Listed = {"a", "b", "c"}
  Unreadable = Unreadable
  Disks <- ManyLibraries
  Edits = {}
  ImplicitName <- MCImplicitName
  RuleBook <- NormalOnly
  Requests <- CheckRequest
INVARIANTS
  CycleIsReal
  CycleIsFound
  LoadsOnlyNeeded
PROPERTIES
  ImplementsOrder

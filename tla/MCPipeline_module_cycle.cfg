\* Is a refused compilation always a circle of modules?
SPECIFICATION FairSpec
CONSTANTS
  Module <- MCModule
  Builtin = "builtin"
  File = {"m", "a", "b"}
  Main = "m"
  Listed = {"a", "b"}
  Unreadable = Unreadable
  Disks <- ModulePairs
  Edits = {}
  ImplicitName <- MCImplicitName
  RuleBook <- NormalOnly
  Requests <- CheckRequest
INVARIANTS
  OnlyModuleCyclesRefused

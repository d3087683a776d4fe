\* What becomes of a script that cannot be opened?
SPECIFICATION FairSpec
CONSTANTS
  Module <- MCModule
  Builtin = "builtin"
  File = {"m"}
  Main = "m"
  Listed = {}
  Unreadable = Unreadable
  Disks <- NoScript
  Edits = {}
  ImplicitName <- MCImplicitName
  RuleBook <- NormalOnly
  Requests <- CheckRequest
INVARIANTS
  MissingScriptReported

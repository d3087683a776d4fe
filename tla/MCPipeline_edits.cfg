\* Files edited and removed between the indexing and the compilation; every
\* stage requested, under the rule sets that a caller may build.
SPECIFICATION FairSpec
CONSTANTS
  Module <- MCModule
  Builtin = "builtin"
  File = {"m", "a", "b"}
  Main = "m"
  Listed = {"a", "b"}
  Unreadable = Unreadable
  Disks <- FewLibraries
  Edits <- MCEdits
  ImplicitName <- MCImplicitName
  RuleBook <- MCRuleBook
  Requests <- AnyRequest
INVARIANTS
  Inductive
  ImportsChecked
  StageErrorIsReal
PROPERTIES
  SourceFrozen
  Termination

\* One file with any two declarations, or a script and two files of the modules
\* A and B.
SPECIFICATION Spec
CONSTANTS
  File = {"m", "a", "b"}
  Main = "m"
  Listed <- TwoListed
  Module <- MCModule
  Builtin = "builtin"
  Unqualified = ""
  Name <- MCName
  BuiltinName <- MCBuiltinName
  Programs <- MCPrograms
INVARIANTS
  OneMeaning
  ScopesFollowTree
  Redeclarations
  NothingMissed
  ImportedNamesResolve
PROPERTIES
  BindsInnermost
  ImplementsOrder

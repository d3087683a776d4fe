SPECIFICATION Spec
CONSTANTS
  Texts <- ShortSources
  Operators <- SomeOperators
  Keywords <- SomeKeywords
INVARIANTS
  TypeOK
  NothingLost
  LongestMatch
  LinesAgree
CHECK_DEADLOCK FALSE

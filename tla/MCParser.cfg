\* let x = E for every short E and for chains of operators, and texts of every
\* declaration and expression with any one token edited.
SPECIFICATION Spec
CONSTANTS
  NewLine = "newline"
  EndOfFile = "end of file"
  Texts <- ParserTexts
  Sound <- SoundTexts
INVARIANTS
  OperatorsNest
  ExpressionsRead
  SlicesNest
  UnbuiltForms
  NoMatchConsumesNothing
  SoundIsAccepted
PROPERTIES
  Terminates
CHECK_DEADLOCK FALSE

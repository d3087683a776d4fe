SPECIFICATION Spec
CONSTANTS
  Programs <- ManyPrograms
  StartContext = 2
  EndContext = 2
INVARIANTS
  CutIsOfTheLine
  MarksUnderLabels
  EachLabelOnce
CHECK_DEADLOCK FALSE

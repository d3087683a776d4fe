SPECIFICATION Spec
CONSTANTS
  Programs <- TwoLines
  StartContext = 2
  EndContext = 2
INVARIANT
  LabelsAreShown
CHECK_DEADLOCK FALSE

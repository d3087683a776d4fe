SPECIFICATION Spec
CONSTANTS
  Symbol = {Int, String, Array}
  Int = Int
  String = String
  Array = Array
  MaxTypes = 4
  MaxArity = 2
INVARIANTS
  AssignableIsSame
PROPERTIES
  KeepsPromise
CHECK_DEADLOCK FALSE

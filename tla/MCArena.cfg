SPECIFICATION Spec
CONSTANTS
  BlockSize = 4
  Request <- SmallRequests
  Address <- EvenAddresses
INVARIANTS
  Inductive
  Aligned
PROPERTIES
  Allocates

CONSTANTS
  Buffers = 3
  Capacity = 7
  MaxFrame = 3
  MaxAcquired = 2
SPECIFICATION Spec
INVARIANTS
  ImagesRound
  NothingRefused
  SendsAreSafe
PROPERTIES
  ImplementsOwnership

CONSTANTS
  Buffers = 3
  Capacity = 1
  MaxFrame = 3
  MaxAcquired = 1
SPECIFICATION FairSpec
PROPERTIES
  RendererGoesOn
  ServiceGoesOn

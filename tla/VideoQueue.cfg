CONSTANTS
  Inputs = {0, 1}
  Captures = {0, 1}
  Sizes = {1}
  Modes = {"stateless", "h264", "hevc"}
  MaxPackets = 3
  MaxPending = 2
  MaxOffs = 1
SPECIFICATION VideoSpec
INVARIANTS
  QueuesAccounted
PROPERTIES
  FramesInOrder

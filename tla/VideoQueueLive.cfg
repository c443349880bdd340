CONSTANTS
  Inputs = {0, 1}
  Captures = {0}
  Sizes = {1, 2}
  Modes = {"stateless", "h264", "hevc"}
  MaxPackets = 2
  MaxPending = 2
  MaxOffs = 1
SPECIFICATION VideoFairSpec
PROPERTIES
  PlayerGoesOn

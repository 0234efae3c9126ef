CONSTANTS
  Limit = 3
  VideoSizes = {1, 2, 3}
  PcmSize = 2
  MaxPayloads = 2
SPECIFICATION Spec
INVARIANT FrameBacked

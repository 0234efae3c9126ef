CONSTANTS
  Limit = 2
  VideoSizes = {1, 2, 3}
  PcmSize = 2
  MaxPayloads = 2
SPECIFICATION FairSpec
PROPERTIES
  StopEnds
  SessionEnds

CONSTANTS
  Limit = 3
  VideoSizes = {1, 2, 3}
  PcmSize = 2
  MaxPayloads = 4
SPECIFICATION Spec
INVARIANTS
  TypeOK
  BytesExact
  WaitsAreServed
  MutualExclusion
  SingleOwner
  InOrder
  WorkersHaveTheirResources
  NothingLeft
PROPERTY
  SessionSpec

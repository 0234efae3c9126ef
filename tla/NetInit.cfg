CONSTANTS
  Threads = {main, player, thumbnails}
SPECIFICATION FairSpec
INVARIANTS
  TypeOK
  InitializedOnce
  InOrder
  Truthful
PROPERTY
  EnsureReturns

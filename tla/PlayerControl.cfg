CONSTANTS
  Videos = {v1, v2}
  NoVideo = NoVideo
SPECIFICATION FairSpec
INVARIANTS
  TypeOK
  StatusHonest
  JoinsOnlyEnding
  FrameIsCurrent
PROPERTIES
  SessionUndisturbed
  StartReturns

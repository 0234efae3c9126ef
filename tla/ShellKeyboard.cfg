CONSTANTS
  Sites = 3
  SourceDelay = 2
  SplashFrames = 1
SPECIFICATION FairSpec
PROPERTY
  OskLeftByRender

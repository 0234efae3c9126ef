CONSTANTS
  Sites = 3
  SourceDelay = 2
  SplashFrames = 1
SPECIFICATION FairSpec
INVARIANTS
  TypeOK
  MenuAlive
  KeyboardKept
  WaitsForDialog
  ListIsOfSource
PROPERTIES
  InputReturns
  KeyboardLeaves

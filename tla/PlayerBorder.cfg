CONSTANTS
  Videos = {v1, v2}
  NoVideo = NoVideo
SPECIFICATION Spec
SYMMETRY Symmetry
INVARIANT BorderOnPlayingItem

CONSTANTS
  MAX_RESULTS = 2
  Remote = {r1, r2}
  Local = {l1}
  None = None
SPECIFICATION Spec
INVARIANT OwnThumbnail

CONSTANTS
  root = root
  sub = sub
  clip = clip
  feed = feed
  side = side
  up = up
  video = video
  Media <- MCMedia
  Feeds <- MCFeeds
  Folders <- MCFolders
  Root = root
  DirOf <- MCDirOf
  Sidecar <- MCSidecar
  Before <- MCBefore
  Slot <- MCSlot
  Parent = up
  Videos = {video}
  Items = {video}
  SiteTotal = 2
  PageRows = 1
  PlaylistMax = 2
SPECIFICATION Spec
INVARIANTS
  TypeOK
  PlaylistUnique
  PlaylistPlayable
  PagingFindsRows
  NoPartLeft
PROPERTIES
  BuffersUndisturbed

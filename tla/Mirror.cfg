SPECIFICATION Spec
CONSTANTS
  root = root
  a = a
  b = b
  c = c
  d = d
  e = e
  Top <- root
  Places <- Tree3
  Names <- OneName
  Kept <- Everything
  NoFile = 0
  FirstText <- Numbered
  SyncDeletions = TRUE
  TrackMoves = TRUE
  MinStorm = 2
  MaxDelete = 50
  MaxEdits = 2
  UserOps = {"create","write","delete","rename","renamedir","drive-create","drive-write","drive-delete","drive-rename"}
  BusyOps = {"delete","drive-create","drive-write","drive-delete","drive-rename"}
  Faults = {"missed","half","waits","stop"}
INVARIANTS TypeOK NothingLost Settled OneCopyEach MovesOneToOne
PROPERTY OnlyGenuineDeletions
CHECK_DEADLOCK FALSE

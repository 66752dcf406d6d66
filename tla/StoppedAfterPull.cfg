SPECIFICATION Spec
CONSTANTS
  root = root
  a = a
  b = b
  c = c
  d = d
  e = e
  Top <- root
  Places <- Flat
  Names <- TwoFiles
  Kept <- Everything
  NoFile = 0
  FirstText <- Numbered
  SyncDeletions = TRUE
  TrackMoves = TRUE
  MinStorm = 2
  MaxDelete = 50
  MaxEdits = 1
  UserOps = {"drive-create"}
  BusyOps = {}
  Faults = {"stop","late"}
PROPERTY OnlyGenuineDeletions
CHECK_DEADLOCK FALSE
